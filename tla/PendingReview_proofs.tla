-------------------------- MODULE PendingReview_proofs --------------------------
(***************************************************************************)
(* Deletions, reviews and the save status: what the queue promises about   *)
(* a DELETE that is out (DeleteAlone), about the edits that another        *)
(* client's edit has invalidated (NoSilentOverwrite), and about the count  *)
(* of unsaved changes (CountsBalance).                                     *)
(***************************************************************************)
EXTENDS PendingJournal_proofs

USE DEF envVars, queueVars, fenceVars, viewerVars, markerVars, diskVars, statVars,
        taskVars, wakeVars, serverVars, historyVars, verdictFrame, engineFrame,
        deleteFrame, serviceFrame, Typed, TypeOK, Verdict

-----------------------------------------------------------------------------
\* Deletions.  Two conditions on the history, which the code does not enforce:
\* a sync settles no delete that this process still waits for, and an activation
\* swaps the queues while no request is on the wire.

SyncSparesDelete ==
  del.at = "wire" /\ del'.at = "wire" => del.area \in deleting'

SwitchesBetweenRequests ==
  engine.at = "activating" /\ engine'.at = "rows" => worker.at # "wire"

\* The map of an outstanding delete is fenced.
DeleteFenced == del.at = "wire" => del.area \in deleting

\* The map of a request under way has its base, and no delete, of this process
\* or of an earlier one, is to be settled in it.
RequestsOpen ==
  \A a \in Areas : areas[a].phase = InFlight =>
    ~areas[a].needsBase /\ a \notin intents /\ ~(del.at = "wire" /\ del.area = a)

\* The queue waits for the request on the wire.
RequestAwaited ==
  worker.at = "wire" =>
    areas[worker.area].phase = InFlight /\ AreaOf[worker.op] = worker.area

\* From x to y a request neither starts nor ends, and no base goes missing
\* under one.
SameFlight(x, y) ==
  /\ x.phase = InFlight <=> y.phase = InFlight
  /\ y.phase = InFlight /\ y.needsBase => x.needsBase

\* From x to y no request starts, and no base goes missing under one.
NoTakeOff(x, y) == y.phase = InFlight => x.phase = InFlight /\ (y.needsBase => x.needsBase)

LEMMA GroundedFlight ==
  ASSUME NEW x, NEW y, x.phase # InFlight, y.phase # InFlight
  PROVE  SameFlight(x, y)
  BY DEF SameFlight

LEMMA SameFields ==
  ASSUME NEW x, NEW y, x.phase = y.phase, x.needsBase = y.needsBase
  PROVE  SameFlight(x, y)
  BY DEF SameFlight

LEMMA SameTakeOff ==
  ASSUME NEW x, NEW y, SameFlight(x, y)
  PROVE  NoTakeOff(x, y)
  BY DEF SameFlight, NoTakeOff

LEMMA GroundedPhases ==
  /\ Ready # InFlight /\ Backoff # InFlight
  /\ \A o : Conflict(o) # InFlight /\ Failed(o, TRUE) # InFlight /\ Failed(o, FALSE) # InFlight
  /\ \A o, rev : AwaitingRetirement(o, rev) # InFlight
  BY DEF Ready, InFlight, Backoff, Conflict, Failed, AwaitingRetirement, Phase

LEMMA SettledGrounded ==
  ASSUME NEW y, Settled(y) PROVE y.phase # InFlight
  BY PhaseFields DEF Settled

LEMMA ReplayFlight ==
  ASSUME NEW x \in AreaType, NEW doc \in DocType
  PROVE  /\ SameFlight(x, Adopt(x, doc)) /\ SameFlight(x, ReplayOver(x, doc))
         /\ ReplayOver(x, doc).needsBase = x.needsBase
<1> DEFINE w == Adopt(x, doc)
           f == FirstFailed(x, doc)
           y == RecordReplay(w, f)
<1>1. w \in AreaType /\ w.phase = x.phase /\ w.needsBase = x.needsBase
  BY AdoptType DEF Adopt, AreaType
<1> HIDE DEF w, f
<1>2. /\ y.needsBase = w.needsBase
      /\ y.phase = w.phase \/ (w.phase.kind # "InFlight" /\ \E o : y.phase = Conflict(o))
  <2>1. PICK found : found = IF f \in Queued(w) THEN f ELSE NoOp
    OBVIOUS
  <2>2. CASE w.phase.kind \in {"InFlight", "AwaitingRetirement", "Failed"}
    <3>1. y = [w EXCEPT !.deferred = found]
      BY <2>1, <2>2 DEF RecordReplay
    <3> QED
      BY <1>1, <3>1 DEF AreaType
  <2>3. CASE w.phase.kind \notin {"InFlight", "AwaitingRetirement", "Failed"}
    <3>1. \/ y = [w EXCEPT !.deferred = NoOp]
          \/ y = [w EXCEPT !.deferred = NoOp, !.phase = Conflict(found)]
      BY <2>1, <2>3 DEF RecordReplay
    <3> QED
      BY <1>1, <2>3, <3>1 DEF AreaType
  <2> QED
    BY <2>2, <2>3
<1>3. ReplayOver(x, doc) = y
  BY DEF ReplayOver, w, f
<1> HIDE DEF y
<1>4. w.phase.kind # "InFlight" => w.phase # InFlight
  BY PhaseFields
<1>5. SameFlight(x, w) /\ SameFlight(w, y)
  BY <1>1, <1>2, <1>4, GroundedPhases DEF SameFlight
<1>6. SameFlight(x, y)
  BY <1>5 DEF SameFlight
<1>7. y.needsBase = x.needsBase
  BY <1>1, <1>2
<1> QED
  BY <1>3, <1>5, <1>6, <1>7 DEF w

LEMMA BaseFlight ==
  ASSUME NEW x \in AreaType, expired \in SUBSET Ops
  PROVE  SameFlight(x, BaseLoaded(x))
<1> DEFINE y == BaseLoaded(x)
<1>1. PICK opened : opened = [x EXCEPT !.needsBase = FALSE, !.baseFailed = FALSE]
  OBVIOUS
<1>2. opened \in AreaType
  BY <1>1, FieldTypes
<1>3. opened.phase = x.phase /\ opened.needsBase = FALSE
  BY <1>1, <1>2 DEF AreaType
<1>4. y = IF x.baseFailed /\ x.phase.kind = "Failed"
            THEN ResumeWithDeferredConflict(opened, expired) ELSE opened
  BY <1>1 DEF BaseLoaded
<1> HIDE DEF y
<1>5. CASE y = opened
  BY <1>3, <1>5 DEF y, SameFlight
<1>6. CASE y = ResumeWithDeferredConflict(opened, expired) /\ x.phase.kind = "Failed"
  <2>1. Settled(y)
    BY <1>2, <1>6, ResumeFits
  <2>2. x.phase # InFlight
    BY <1>6, PhaseFields
  <2>3. SameFlight(x, y)
    BY <2>1, <2>2, SettledGrounded, GroundedFlight
  <2> QED
    BY <2>3 DEF y
<1> QED
  BY <1>4, <1>5, <1>6

LEMMA CancelFlight ==
  ASSUME NEW x \in AreaType, NEW o \in Ops, NEW late \in SUBSET Ops, Cancellable(x, o)
  PROVE  SameFlight(x, CancelIn(x, o, late))
<1> DEFINE y == CancelIn(x, o, late)
<1>1. PICK removed : removed = [x EXCEPT
                        !.queue = Remove(@, o),
                        !.deferred = IF @ = o THEN NoOp ELSE @]
  OBVIOUS
<1>2. removed \in AreaType /\ removed.phase = x.phase /\ removed.needsBase = x.needsBase
  <2>1. Remove(x.queue, o) \in Seq(Ops)
    BY RemoveType, FieldTypes
  <2> QED
    BY <1>1, <2>1 DEF AreaType
<1>3. PICK resumed : resumed = IF o = HeadOp(x)
                       THEN ResumeWithDeferredConflict(removed, late) ELSE removed
  OBVIOUS
<1>4. resumed \in AreaType
  BY <1>2, <1>3, ResumeType
<1>5. y = IF resumed.phase = Conflict(o) THEN [resumed EXCEPT !.phase = Ready] ELSE resumed
  BY <1>1, <1>3 DEF CancelIn
<1> HIDE DEF y
<1>6. SameFlight(x, resumed)
  <2>1. CASE o = HeadOp(x)
    <3>1. x.phase = Ready /\ Settled(resumed)
      BY <1>2, <1>3, <2>1, ResumeFits DEF Cancellable
    <3> QED
      BY <3>1, GroundedPhases, SettledGrounded, GroundedFlight
  <2>2. CASE o # HeadOp(x)
    BY <1>2, <1>3, <2>2, SameFields
  <2> QED
    BY <2>1, <2>2
<1>7. SameFlight(resumed, y)
  <2>1. CASE y = resumed
    BY <2>1, SameFields
  <2>2. CASE resumed.phase = Conflict(o) /\ y = [resumed EXCEPT !.phase = Ready]
    <3>1. y.phase = Ready
      BY <1>4, <2>2 DEF AreaType
    <3> QED
      BY <2>2, <3>1, GroundedPhases, GroundedFlight
  <2> QED
    BY <1>5, <2>1, <2>2
<1>8. SameFlight(x, y)
  BY <1>6, <1>7 DEF SameFlight
<1> QED
  BY <1>8 DEF y

-----------------------------------------------------------------------------
\* No step but a send starts a request.

FlightsStay == \A a \in Areas : SameFlight(areas[a], areas'[a])
FlightsLand == \A a \in Areas : NoTakeOff(areas[a], areas'[a])

LEMMA SetFlight ==
  ASSUME Typed, NEW a \in Areas, NEW x, SetArea(a, x), SameFlight(areas[a], x)
  PROVE  FlightsStay
<1>1. areas' = [areas EXCEPT ![a] = x] /\ areas \in [Areas -> AreaType]
  BY DEF SetArea, QueueType
<1>2. \A b \in Areas : SameFlight(areas[b], areas[b])
  BY SameFields
<1> QED
  BY <1>1, <1>2 DEF FlightsStay

LEMMA SetLanding ==
  ASSUME Typed, NEW a \in Areas, NEW x, SetArea(a, x), x.phase # InFlight
  PROVE  FlightsLand
<1>1. areas' = [areas EXCEPT ![a] = x] /\ areas \in [Areas -> AreaType]
  BY DEF SetArea, QueueType
<1> QED
  BY <1>1 DEF FlightsLand, NoTakeOff

LEMMA SameFlights == ASSUME areas' = areas PROVE FlightsStay
  BY SameFields DEF FlightsStay

LEMMA StaysLand == ASSUME FlightsStay PROVE FlightsLand
  BY SameTakeOff DEF FlightsStay, FlightsLand

LEMMA EditorFlights == ASSUME Typed, Editor PROVE FlightsStay
<1>0. expired \in SUBSET Ops
  BY DEF QueueType
<1>1. CASE Stage
  <2>1. PICK o, a : o = nextOp /\ a = AreaOf[o]
    OBVIOUS
  <2>2. a \in Areas /\ areas' = [areas EXCEPT ![a].queue = Append(@, o)]
    BY <1>1, <2>1, PendingAssumption DEF Stage
  <2>3. SetArea(a, [areas[a] EXCEPT !.queue = Append(@, o)])
    BY <2>2 DEF SetArea
  <2>4. PICK x : x = [areas[a] EXCEPT !.queue = Append(@, o)]
    OBVIOUS
  <2>5. x.phase = areas[a].phase /\ x.needsBase = areas[a].needsBase
    BY <2>2, <2>4, AreaTyped DEF AreaType
  <2>6. SameFlight(areas[a], x)
    BY <2>5, SameFields
  <2> QED
    BY <2>2, <2>3, <2>4, <2>6, SetFlight
<1>2. CASE Publish \/ \E a \in Areas : KeepMine(a)
  BY <1>2, SameFlights DEF Publish, KeepMine
<1>3. ASSUME NEW o \in Ops, Cancel(o) PROVE FlightsStay
  <2>1. /\ AreaOf[o] \in Areas /\ SetArea(AreaOf[o], CancelIn(areas[AreaOf[o]], o, expired))
        /\ Cancellable(areas[AreaOf[o]], o)
    BY <1>3, PendingAssumption DEF Cancel
  <2>2. SameFlight(areas[AreaOf[o]], CancelIn(areas[AreaOf[o]], o, expired))
    BY <1>0, <2>1, AreaTyped, CancelFlight
  <2> QED
    BY <2>1, <2>2, SetFlight
<1>4. ASSUME NEW a \in Areas, Retry(a) PROVE FlightsStay
  <2>1. PICK x : x = [areas[a] EXCEPT !.phase = Ready, !.baseFailed = FALSE]
    OBVIOUS
  <2>2. x.phase = Ready
    BY <2>1, AreaTyped DEF AreaType
  <2>3. SetArea(a, x) /\ areas[a].phase # InFlight
    BY <1>4, <2>1, PhaseFields DEF Retry
  <2>4. SameFlight(areas[a], x)
    BY <2>2, <2>3, GroundedPhases, GroundedFlight
  <2> QED
    BY <2>3, <2>4, SetFlight
<1>5. ASSUME NEW a \in Areas, Discard(a) PROVE FlightsStay
  <2>1. PICK q, x : q = Remove(areas[a].queue, areas[a].phase.op)
                    /\ x = [areas[a] EXCEPT !.queue = q]
    OBVIOUS
  <2>2. q \in Seq(Ops)
    BY <2>1, AreaTyped, RemoveType
  <2>3. x \in AreaType
    BY <2>1, <2>2, AreaTyped, FieldTypes
  <2>4. PICK y : y = ResumeWithDeferredConflict(x, expired)
    OBVIOUS
  <2>5. Settled(y)
    BY <1>0, <2>3, <2>4, ResumeFits
  <2>6. SetArea(a, y) /\ areas[a].phase # InFlight
    BY <1>5, <2>1, <2>4, PhaseFields DEF Discard
  <2>7. SameFlight(areas[a], y)
    BY <2>5, <2>6, SettledGrounded, GroundedFlight
  <2> QED
    BY <2>6, <2>7, SetFlight
<1>6. ASSUME NEW a \in Areas, KeepTheirs(a) PROVE FlightsStay
  <2>1. PICK x : x = [areas[a] EXCEPT !.phase = Ready,
                        !.queue = Remove(areas[a].queue, areas[a].phase.op)]
    OBVIOUS
  <2>2. x.phase = Ready
    BY <2>1, AreaTyped DEF AreaType
  <2>3. SetArea(a, x) /\ areas[a].phase # InFlight
    BY <1>6, <2>1, PhaseFields DEF KeepTheirs
  <2>4. SameFlight(areas[a], x)
    BY <2>2, <2>3, GroundedPhases, GroundedFlight
  <2> QED
    BY <2>3, <2>4, SetFlight
<1> QED
  BY <1>1, <1>2, <1>3, <1>4, <1>5, <1>6 DEF Editor

LEMMA ResendFlight ==
  ASSUME NEW x \in AreaType, NEW keep
  PROVE  SameFlight(x, ReadyResend(x, keep))
<1> DEFINE y == ReadyResend(x, keep)
<1>1. y = x \/ (x.phase.kind = "Conflict" /\ y = [x EXCEPT !.phase = Ready])
  BY DEF ReadyResend
<1> HIDE DEF y
<1>2. CASE y = x
  BY <1>2, SameFields DEF y
<1>3. CASE x.phase.kind = "Conflict" /\ y = [x EXCEPT !.phase = Ready]
  <2>1. y.phase = Ready /\ x.phase # InFlight
    BY <1>3, PhaseFields DEF AreaType
  <2>2. SameFlight(x, y)
    BY <2>1, GroundedPhases, GroundedFlight
  <2> QED
    BY <2>2 DEF y
<1> QED
  BY <1>1, <1>2, <1>3

LEMMA FlightTrans ==
  ASSUME NEW x, NEW y, NEW z, SameFlight(x, y), SameFlight(y, z)
  PROVE  SameFlight(x, z)
  BY DEF SameFlight

LEMMA RebuildsFlights == ASSUME Typed, Rebuilds PROVE FlightsStay
<1>1. PICK r \in rebuilds : RebuildFetch(r) \/ RebuildApply(r)
  BY DEF Rebuilds
<1> DEFINE a == r.area
<1>2. r \in RebuildType /\ a \in Areas /\ r.doc \in DocType
  BY DEF TaskType, RebuildType
<1>3. CASE RebuildFetch(r)
  <2>1. areas' = areas \/ SetArea(a, ReadyResend(areas[a], r.keep))
    BY <1>3 DEF RebuildFetch
  <2> QED
    BY <1>2, <2>1, AreaTyped, ResendFlight, SetFlight, SameFlights
<1>4. CASE RebuildApply(r)
  <2>1. PICK x : /\ SetArea(a, ReadyResend(x, r.keep))
                 /\ x = areas[a] \/ x = Adopt(areas[a], r.doc) \/ x = ReplayOver(areas[a], r.doc)
    BY <1>4 DEF RebuildApply
  <2>2. x \in AreaType
    BY <1>2, <2>1, AreaTyped, AdoptType, ReplayType
  <2>3. SameFlight(areas[a], x)
    BY <1>2, <2>1, AreaTyped, ReplayFlight, SameFields
  <2>4. PICK y : y = ReadyResend(x, r.keep)
    OBVIOUS
  <2>5. SameFlight(areas[a], y)
    BY <2>2, <2>3, <2>4, ResendFlight, FlightTrans
  <2> QED
    BY <1>2, <2>1, <2>4, <2>5, SetFlight
<1> QED
  BY <1>1, <1>3, <1>4

\* A new phase that is no request.
LEMMA PhaseLands ==
  ASSUME Typed, NEW a \in Areas, NEW p, p # InFlight, SetArea(a, [areas[a] EXCEPT !.phase = p])
  PROVE  FlightsLand
<1>1. PICK x : x = [areas[a] EXCEPT !.phase = p]
  OBVIOUS
<1>2. x.phase = p
  BY <1>1, AreaTyped DEF AreaType
<1> QED
  BY <1>1, <1>2, SetLanding

LEMMA CredentialTakesNone ==
  ASSUME Typed, worker.area \in Areas, CredentialChanged
  PROVE  FlightsLand
<1>1. areas' = areas \/ SetArea(worker.area, [areas[worker.area] EXCEPT !.phase = Ready])
  BY DEF CredentialChanged, SetArea
<1> QED
  BY <1>1, SameFlights, StaysLand, PhaseLands, GroundedPhases

LEMMA TransportTakesNone ==
  ASSUME Typed, worker.area \in Areas, TransportFailure
  PROVE  FlightsLand
<1>1. \/ areas' = areas
      \/ SetArea(worker.area, [areas[worker.area] EXCEPT !.phase = Failed(worker.op, TRUE)])
      \/ SetArea(worker.area, [areas[worker.area] EXCEPT !.phase = Backoff])
  BY DEF TransportFailure
<1> QED
  BY <1>1, SameFlights, StaysLand, PhaseLands, GroundedPhases

LEMMA ReopenedLand ==
  ASSUME Typed, NEW S,
         areas' = [a \in Areas |->
           IF a \in S THEN [areas[a] EXCEPT !.phase = Ready] ELSE areas[a]]
  PROVE  FlightsLand
<1> SUFFICES ASSUME NEW a \in Areas PROVE NoTakeOff(areas[a], areas'[a])
  BY DEF FlightsLand
<1>1. PICK y : y = [areas[a] EXCEPT !.phase = Ready]
  OBVIOUS
<1>2. y.phase = Ready
  BY <1>1, AreaTyped DEF AreaType
<1>3. areas'[a] = areas[a] \/ areas'[a] = y
  BY <1>1
<1> QED
  BY <1>2, <1>3, GroundedPhases DEF NoTakeOff

\* The worker starts a request only by taking a head, and no other step of it
\* leaves a request on the wire.
LEMMA WorkerFlights ==
  ASSUME Typed, Worker
  PROVE  (\E a \in Areas : WorkerTake(a)) \/ (FlightsLand /\ worker'.at # "wire")
<1>0. expired \in SUBSET Ops
  BY DEF QueueType
<1>1. ASSUME NEW a \in Areas, WorkerRetire(a) PROVE FlightsLand /\ worker'.at # "wire"
  <2>1. PICK y : SetArea(a, y) /\ y = PopAcknowledged(areas[a], areas[a].phase.rev, expired)
    BY <1>1 DEF WorkerRetire
  <2>2. areas[a].phase.rev \in Revs
    BY AreaTyped, PhaseRev
  <2>3. Settled(y)
    BY <1>0, <2>1, <2>2, AreaTyped, PopAcknowledgedFits
  <2>4. worker'.at = "run"
    BY <1>1 DEF WorkerRetire, TaskType, WorkerType
  <2> QED
    BY <2>1, <2>3, <2>4, SettledGrounded, SetLanding
<1>2. ASSUME NEW a \in Areas, WorkerRetireFails(a) \/ WorkerTimer(a)
      PROVE  FlightsLand /\ worker'.at # "wire"
  <2>1. areas' = areas /\ worker'.at = "run"
    BY <1>2 DEF WorkerRetireFails, WorkerTimer, IdleWorker, TaskType, WorkerType
  <2> QED
    BY <2>1, SameFlights, StaysLand
<1>3. CASE WorkerIdle
  <2>1. PICK S : areas' = [a \in Areas |->
                   IF a \in S THEN [areas[a] EXCEPT !.phase = Ready] ELSE areas[a]]
    BY <1>3 DEF WorkerIdle
  <2>2. worker'.at = "idle"
    BY <1>3 DEF WorkerIdle, IdleWorker
  <2> QED
    BY <2>1, <2>2, ReopenedLand
<1>4. CASE WorkerWake \/ VerdictStale
  <2>1. areas' = areas /\ worker'.at = "run"
    BY <1>4 DEF WorkerWake, VerdictStale, WorkerDone, IdleWorker
  <2> QED
    BY <2>1, SameFlights, StaysLand
<1>5. CASE Verdicts /\ ~VerdictStale
  <2>0. worker.area \in Areas /\ worker.op \in Ops /\ worker.rev \in Revs /\ worker.doc \in DocType
    BY <1>5, WorkerInHand DEF Verdicts, VerdictOk, VerdictCredential, VerdictTransport,
       VerdictHeld, VerdictRefused, VerdictUpgrade, VerdictConflict, ConflictFetch,
       ConflictApply
  <2>1. worker'.at # "wire"
    <3>1. \/ WorkerDone \/ worker' = [worker EXCEPT !.at = "refetch", !.reply = "none"]
          \/ /\ worker.at = "refetch"
             /\ worker' = [worker EXCEPT !.doc = Doc(worker.area), !.reply = "doc"]
      BY <1>5 DEF Verdicts, VerdictOk, VerdictCredential, CredentialChanged, VerdictTransport,
         VerdictHeld, VerdictRefused, VerdictUpgrade, VerdictConflict, ConflictFetch,
         ConflictApply
    <3>2. worker \in WorkerType
      BY DEF TaskType
    <3>3. CASE WorkerDone
      BY <3>3, IdleReply
    <3>4. CASE worker' = [worker EXCEPT !.at = "refetch", !.reply = "none"]
      BY <3>2, <3>4 DEF WorkerType
    <3>5. ASSUME worker.at = "refetch",
                 worker' = [worker EXCEPT !.doc = Doc(worker.area), !.reply = "doc"]
          PROVE  worker'.at # "wire"
      BY <3>2, <3>5 DEF WorkerType
    <3> QED
      BY <3>1, <3>3, <3>4, <3>5
  <2>2. CASE VerdictOk
    <3>1. PICK y : /\ y = PopAcknowledged(areas[worker.area], worker.rev, expired)
                   /\ \/ SetArea(worker.area, y)
                      \/ SetArea(worker.area, [areas[worker.area] EXCEPT
                           !.phase = AwaitingRetirement(worker.op, worker.rev)])
      BY <2>2 DEF VerdictOk
    <3>2. Settled(y)
      BY <1>0, <2>0, <3>1, AreaTyped, PopAcknowledgedFits
    <3> QED
      BY <2>0, <2>1, <3>1, <3>2, SettledGrounded, SetLanding, PhaseLands, GroundedPhases
  <2>3. CASE VerdictCredential \/ VerdictConflict
    BY <2>0, <2>1, <2>3, CredentialTakesNone, SameFlights, StaysLand
       DEF VerdictCredential, VerdictConflict
  <2>4. CASE VerdictTransport
    BY <2>0, <2>1, <2>4, TransportTakesNone DEF VerdictTransport
  <2>5. CASE VerdictHeld \/ VerdictRefused
    BY <2>0, <2>1, <2>5, PhaseLands, GroundedPhases DEF VerdictHeld, VerdictRefused
  <2>6. CASE VerdictUpgrade
    <3>1. PICK S : S = { a \in Areas : areas[a].phase = InFlight /\ a \in CloudAreas }
      OBVIOUS
    <3>2. areas' = [a \in Areas |->
                     IF a \in S THEN [areas[a] EXCEPT !.phase = Ready] ELSE areas[a]]
      BY <2>6, <3>1 DEF VerdictUpgrade
    <3> QED
      BY <2>1, <3>2, ReopenedLand
  <2>7. CASE ConflictFetch
    BY <2>0, <2>1, <2>7, CredentialTakesNone, TransportTakesNone, SameFlights, StaysLand
       DEF ConflictFetch
  <2>8. CASE ConflictApply
    <3>1. PICK x, y : x = [areas[worker.area] EXCEPT !.phase = Ready]
                      /\ y = ReplayOver(x, worker.doc)
      OBVIOUS
    <3>2. CredentialChanged \/ areas' = areas \/ SetArea(worker.area, y)
      BY <2>8, <3>1 DEF ConflictApply
    <3>3. x \in AreaType
      BY <2>0, <3>1, AreaTyped, FieldTypes, PhaseTypes
    <3>31. x.phase = Ready
      BY <2>0, <3>1, AreaTyped DEF AreaType
    <3>4. y.phase # InFlight
      BY <2>0, <3>1, <3>3, <3>31, ReplayFlight, GroundedPhases DEF SameFlight
    <3> QED
      BY <2>0, <2>1, <3>2, <3>4, CredentialTakesNone, SameFlights, StaysLand, SetLanding
  <2> QED
    BY <1>5, <2>2, <2>3, <2>4, <2>5, <2>6, <2>7, <2>8 DEF Verdicts
<1> QED
  BY <1>1, <1>2, <1>3, <1>4, <1>5 DEF Worker

\* What an activation freezes, it restores.
FrozenLoaded == engine.at = "activating" => \A a \in engine.frozen : LoadedOf(a) # {}

\* An activation ends the requests of the maps whose queue it swaps.
LEMMA InstallLands ==
  ASSUME Typed, Arranged, Flight, FrozenLoaded, ActivateInstall
  PROVE  /\ FlightsLand
         /\ \A a \in Areas : areas'[a].phase = InFlight => (a \in intents' => a \in intents)
<1> SUFFICES ASSUME NEW a \in Areas, areas'[a].phase = InFlight
             PROVE  areas'[a] = areas[a] /\ (a \in intents' => a \in intents)
  BY DEF FlightsLand, NoTakeOff
<1>1. Installed(a)
  BY ActivateInstalls
<1>2. areas[a].queue = << >> => areas[a].phase # InFlight
  BY FlyingNonempty DEF Flight
<1>3. LoadedOf(a) = {} /\ areas'[a] = areas[a]
  BY <1>1, <1>2, GroundedPhases, GoneFits DEF Installed
<1>4. a \notin engine.frozen
  BY <1>3 DEF ActivateInstall, FrozenLoaded
<1>5. \E gone : intents' = (intents \ gone) \cup engine.frozen
  BY DEF ActivateInstall
<1> QED
  BY <1>3, <1>4, <1>5

LEMMA EmptiedStays ==
  ASSUME Typed, NEW a \in Areas, areas[a].phase # InFlight, Emptied(a)
  PROVE  FlightsStay
<1>1. SetArea(a, GoneArea(areas[a])) /\ SameFlight(areas[a], GoneArea(areas[a]))
  BY GoneFits, GroundedPhases, GroundedFlight DEF Emptied, SetArea
<1> QED
  BY <1>1, SetFlight

\* The other steps of the engine leave the requests as they are: what it parks
\* or deletes has none.
LEMMA EngineFlights ==
  ASSUME Typed, RequestsOpen, Engine
  PROVE  ActivateInstall \/ (FlightsStay /\ intents' \subseteq intents)
<1>0. expired \in SUBSET Ops /\ CloudAreas \subseteq Areas
  BY DEF QueueType, Areas
<1>1. CASE EngineTick \/ EngineFail \/ ActivateLoad \/ EngineAsk \/ EngineDone
  BY <1>1, SameFlights DEF EngineTick, EngineFail, ActivateLoad, EngineAsk, EngineDone
<1>2. CASE EngineRows
  <2>1. areas' = areas \/ \A a \in Areas :
          \/ areas'[a] = areas[a]
          \/ areas'[a] = Confirm(areas[a], engine.rows[a])
    BY <1>2 DEF EngineRows
  <2>2. \A a \in Areas : /\ Confirm(areas[a], engine.rows[a]).phase = areas[a].phase
                         /\ Confirm(areas[a], engine.rows[a]).needsBase = areas[a].needsBase
    BY AreaTyped DEF Confirm, AreaType
  <2>3. intents' = intents
    BY <1>2 DEF EngineRows
  <2> QED
    BY <2>1, <2>2, <2>3, SameFields DEF FlightsStay
<1>3. CASE EngineAdopt
  <2>1. PICK a : a = engine.area
    OBVIOUS
  <2>2. a \in Areas /\ engine.doc \in DocType
    BY <1>0, <1>3, <2>1 DEF EngineAdopt, InHand, TaskType, EngineType
  <2>3. PICK x : x = ReplayOver(areas[a], engine.doc)
    OBVIOUS
  <2>4. areas' = areas \/ SetArea(a, BaseLoaded(x))
    BY <1>3, <2>1, <2>3 DEF EngineAdopt
  <2>5. x \in AreaType /\ SameFlight(areas[a], x)
    BY <2>2, <2>3, AreaTyped, ReplayType, ReplayFlight
  <2>6. PICK y : y = BaseLoaded(x)
    OBVIOUS
  <2>7. SameFlight(areas[a], y)
    BY <1>0, <2>5, <2>6, BaseFlight, FlightTrans
  <2>8. intents' \subseteq intents
    BY <1>3 DEF EngineAdopt, AbortDelete
  <2> QED
    BY <2>2, <2>4, <2>6, <2>7, <2>8, SetFlight, SameFlights
<1>4. ASSUME NEW a \in CloudAreas, EngineFetch(a) PROVE FlightsStay /\ intents' \subseteq intents
  <2>0. a \in Areas
    BY <1>0
  <2>1. (areas' = areas /\ intents' = intents) \/ RecoverUnavailable(a)
    BY <1>4 DEF EngineFetch
  <2>2. CASE RecoverUnavailable(a) /\ a \in intents
    <3>1. Emptied(a) /\ intents' \subseteq intents
      BY <2>2 DEF RecoverUnavailable, CommitDelete, Emptied, SetArea
    <3>2. areas[a].phase # InFlight
      BY <2>0, <2>2 DEF RequestsOpen
    <3> QED
      BY <2>0, <3>1, <3>2, EmptiedStays
  <2>3. CASE RecoverUnavailable(a) /\ a \notin intents
    <3>1. PICK x : x = [areas[a] EXCEPT
                          !.baseFailed = TRUE, !.phase = Failed(HeadOp(areas[a]), TRUE)]
      OBVIOUS
    <3>2. areas' = areas \/ (areas[a].needsBase /\ SetArea(a, x))
      BY <2>3, <3>1 DEF RecoverUnavailable
    <3>3. x.phase = Failed(HeadOp(areas[a]), TRUE)
      BY <2>0, <3>1, AreaTyped DEF AreaType
    <3>4. areas[a].needsBase => SameFlight(areas[a], x)
      BY <2>0, <3>3, GroundedPhases, GroundedFlight DEF RequestsOpen
    <3>5. intents' = intents
      BY <2>3 DEF RecoverUnavailable
    <3> QED
      BY <2>0, <3>2, <3>4, <3>5, SetFlight, SameFlights
  <2> QED
    BY <2>1, <2>2, <2>3, SameFlights
<1> QED
  BY <1>1, <1>2, <1>3, <1>4 DEF Engine

\* A delete begins, or proves nothing, in a map without a request.
LEMMA DeletionFlights ==
  ASSUME Typed, RequestsOpen, Deletion
  PROVE  /\ FlightsStay
         /\ \A a \in intents' \ intents : a \in Areas => areas[a].phase # InFlight
         /\ del'.at = "wire" =>
              /\ del.area \in deleting /\ deleting' = deleting /\ areas' = areas
              /\ del'.area = del.area /\ areas[del.area].phase # InFlight
<1>0. CloudAreas \subseteq Areas
  BY DEF Areas
<1>1. ASSUME NEW a \in CloudAreas, DeleteBegin(a)
      PROVE  areas' = areas /\ intents' = intents /\ del'.at # "wire"
  BY <1>1 DEF DeleteBegin, NoDelete
<1>2. CASE DeletePrepare
  <2>1. areas' = areas /\ del.area \in deleting /\ deleting' = deleting
        /\ areas[del.area].phase # InFlight /\ intents' = intents \cup {del.area}
    BY <1>2 DEF DeletePrepare, Quiescent
  <2>2. del'.area = del.area
    BY <1>2 DEF DeletePrepare, TaskType, DeleteType
  <2>3. \A a \in intents' \ intents : areas[a].phase # InFlight
    BY <2>1
  <2> QED
    BY <2>1, <2>2, <2>3, SameFlights
<1>3. CASE DeleteSucceeds
  <2>1. del.area \in Areas /\ Emptied(del.area) /\ intents' \subseteq intents
    BY <1>0, <1>3 DEF DeleteSucceeds, InHand, CommitDelete, SetArea, Emptied
  <2>2. areas[del.area].phase # InFlight
    BY <1>3, <2>1 DEF RequestsOpen, DeleteSucceeds
  <2>3. del'.at # "wire"
    BY <1>3 DEF DeleteSucceeds, NoDelete
  <2> QED
    BY <2>1, <2>2, <2>3, EmptiedStays
<1>4. CASE DeleteAmbiguous
  <2>1. PICK x : x = [areas[del.area] EXCEPT !.needsBase = TRUE]
    OBVIOUS
  <2>2. /\ del.area \in Areas /\ SetArea(del.area, x) /\ del.at = "wire"
        /\ intents' = intents \cup {del.area}
    BY <1>0, <1>4, <2>1 DEF DeleteAmbiguous, InHand
  <2>3. areas[del.area].phase # InFlight
    BY <2>2 DEF RequestsOpen
  <2>4. x.phase = areas[del.area].phase
    BY <2>1, <2>2, AreaTyped DEF AreaType
  <2>5. SameFlight(areas[del.area], x)
    BY <2>3, <2>4, GroundedFlight
  <2>6. del'.at = "none"
    BY <1>4 DEF DeleteAmbiguous, NoDelete
  <2>7. \A a \in intents' \ intents : areas[a].phase # InFlight
    BY <2>2, <2>3
  <2> QED
    BY <2>2, <2>5, <2>6, <2>7, SetFlight
<1>5. CASE DeleteAbandon
  <2>1. areas' = areas /\ intents' \subseteq intents /\ del'.at = "none"
    BY <1>5 DEF DeleteAbandon, AbortDelete, NoDelete
  <2> QED
    BY <2>1, SameFlights
<1>6. CASE DeleteLeaves
  <2>1. areas' = areas /\ intents' = intents /\ del'.at # "wire"
    BY <1>6 DEF DeleteLeaves, NoDelete
  <2> QED
    BY <2>1, SameFlights
<1> QED
  BY <1>1, <1>2, <1>3, <1>4, <1>5, <1>6, SameFlights DEF Deletion

-----------------------------------------------------------------------------
\* The deletions stand alone.

LEMMA StepReads ==
  ASSUME Typed, Arranged, Flight, [Next]_vars
  PROVE  ActivateLoad \/ Unread
<1>1. Stage => Unread
  BY DEF Stage, Unread
<1>2. ActivateInstall => Unread
  <2>1. engine \in EngineType
    BY DEF TaskType
  <2> QED
    BY <2>1 DEF ActivateInstall, EngineType, Unread
<1>3. Crash => Unread
  BY DEF Crash, IdleEngine, Unread
<1> QED
  BY <1>1, <1>2, <1>3, JournalShape DEF Quiet, Resolved, Deleted

LEMMA StepFrozen ==
  ASSUME Typed, Arranged, Flight, FrozenLoaded, [Next]_vars
  PROVE  FrozenLoaded'
<1>1. CASE engine' = engine \/ engine'.at # "activating"
  BY <1>1 DEF FrozenLoaded, LoadedOf
<1>2. CASE ActivateLoad
  <2>1. PICK live, viewer : live = Loadable(viewer) /\ viewer = ViewerOf[engine.tick]
    OBVIOUS
  <2>2. PICK frozen : frozen = { AreaOf[o] : o \in
                        { p \in live : << AreaOf[p], viewer >> \in intentFiles } }
    OBVIOUS
  <2>3. \/ engine'.at # "activating"
        \/ engine' = [engine EXCEPT !.at = "activating", !.loaded = live, !.frozen = frozen]
    <3>1. EngineIdle => engine'.at # "activating"
      BY DEF EngineIdle, IdleEngine
    <3>2. engine' = [engine EXCEPT !.at = "rows", !.gen = engine.tick] => engine'.at # "activating"
      BY DEF TaskType, EngineType
    <3> QED
      BY <1>2, <2>1, <2>2, <3>1, <3>2 DEF ActivateLoad
  <2>4. engine'.at = "activating" => engine'.loaded = live /\ engine'.frozen = frozen
    BY <2>3 DEF TaskType, EngineType
  <2>5. \A a \in frozen : \E o \in live : AreaOf[o] = a
    BY <2>2
  <2> QED
    BY <2>4, <2>5 DEF FrozenLoaded, LoadedOf
<1> QED
  BY <1>1, <1>2, StepReads DEF Unread

LEMMA OpenKept ==
  ASSUME RequestsOpen, FlightsLand,
         \A a \in Areas : areas'[a].phase = InFlight => (a \in intents' => a \in intents),
         \A a \in Areas : del'.at = "wire" /\ del'.area = a /\ areas'[a].phase = InFlight =>
           del.at = "wire" /\ del.area = a
  PROVE  RequestsOpen'
  BY DEF RequestsOpen, FlightsLand, NoTakeOff

\* Only the steps of a deletion, the service's answer and a crash touch it.
LEMMA StepDel ==
  ASSUME Typed, [Next]_vars
  PROVE  \/ del' = del \/ Deletion
         \/ del'.at = del.at /\ del'.area = del.area
         \/ del'.at = "none"
<1>1. CASE Editor \/ Rebuilds
  BY <1>1 DEF Editor, Stage, Publish, Cancel, Retry, Discard, KeepTheirs, KeepMine,
     Rebuilds, RebuildFetch, RebuildApply
<1>2. CASE Engine
  BY <1>2, EngineJournal
<1>3. CASE Worker
  BY <1>3 DEF Worker, WorkerRetire, WorkerRetireFails, WorkerTake, WorkerTimer,
     WorkerIdle, WorkerWake, Verdicts, VerdictStale, VerdictOk, VerdictCredential,
     CredentialChanged, VerdictTransport, VerdictHeld, VerdictRefused, VerdictUpgrade,
     VerdictConflict, ConflictFetch, ConflictApply
<1>4. CASE Service
  <2>1. ASSUME NEW a \in CloudAreas, ServiceDeletes(a)
        PROVE  del'.at = del.at /\ del'.area = del.area
    <3>1. \E reply : del' = [del EXCEPT !.reply = reply] \/ del' = del
      BY <2>1 DEF ServiceDeletes
    <3> QED
      BY <3>1 DEF TaskType, DeleteType
  <2> QED
    BY <1>4, <2>1 DEF Service, ServiceHandles, ServiceRefuses, RequestTimesOut,
       ForeignEdit, AccessChanges
<1>5. CASE Process \/ UNCHANGED vars
  BY <1>5 DEF Process, Crash, NoDelete, Restart, Outage, RequestSync, Login, vars
<1> QED
  BY <1>1, <1>2, <1>3, <1>4, <1>5 DEF Next

LEMMA StepDeleteFenced ==
  ASSUME Typed, RequestsOpen, DeleteFenced, [Next]_vars, [SyncSparesDelete]_vars
  PROVE  DeleteFenced'
<1>1. CASE Deletion
  BY <1>1, DeletionFlights DEF DeleteFenced
<1>2. ASSUME del'.at = "wire", del.at = "wire", del'.area = del.area PROVE del'.area \in deleting'
  BY <1>2 DEF SyncSparesDelete, DeleteFenced, vars
<1> QED
  BY <1>1, <1>2, StepDel DEF DeleteFenced

\* What a step that takes no head does to the requests.
LEMMA StepFlights ==
  ASSUME Typed, Arranged, Flight, FrozenLoaded, RequestsOpen, [Next]_vars
  PROVE  \/ \E a \in Areas : WorkerTake(a)
         \/ /\ FlightsLand
            /\ \A a \in Areas : areas'[a].phase = InFlight => (a \in intents' => a \in intents)
            /\ Deletion \/ del'.at # "wire" \/ (del.at = "wire" /\ del'.area = del.area)
<1>0. Deletion \/ del'.at # "wire" \/ (del.at = "wire" /\ del'.area = del.area)
  BY StepDel
<1>1. CASE Editor \/ Rebuilds
  <2>1. intents' = intents
    BY <1>1 DEF Editor, Stage, Publish, Cancel, Retry, Discard, KeepTheirs, KeepMine,
       Rebuilds, RebuildFetch, RebuildApply
  <2> QED
    BY <1>0, <1>1, <2>1, EditorFlights, RebuildsFlights, StaysLand
<1>2. CASE Worker
  <2>1. intents' = intents
    BY <1>2 DEF Worker, WorkerRetire, WorkerRetireFails, WorkerTake, WorkerTimer,
       WorkerIdle, WorkerWake, Verdicts, VerdictStale, VerdictOk, VerdictCredential,
       CredentialChanged, VerdictTransport, VerdictHeld, VerdictRefused, VerdictUpgrade,
       VerdictConflict, ConflictFetch, ConflictApply
  <2> QED
    BY <1>0, <1>2, <2>1, WorkerFlights
<1>3. CASE Engine
  BY <1>0, <1>3, EngineFlights, InstallLands, StaysLand
<1>4. CASE Deletion
  <2>1. FlightsStay /\ \A a \in intents' \ intents : a \in Areas => areas[a].phase # InFlight
    BY <1>4, DeletionFlights
  <2>2. \A a \in Areas : areas'[a].phase = InFlight => (a \in intents' => a \in intents)
    BY <2>1 DEF FlightsStay, SameFlight
  <2> QED
    BY <1>4, <2>1, <2>2, StaysLand
<1>5. CASE Service
  BY <1>0, <1>5, ServiceKeeps, SameFlights, StaysLand
<1>6. CASE Crash
  <2>1. \A a \in Areas : areas'[a].phase # InFlight
    BY <1>6, EmptyFits, GroundedPhases DEF Crash
  <2> QED
    BY <1>0, <2>1 DEF FlightsLand, NoTakeOff
<1>7. CASE Restart \/ Outage \/ RequestSync \/ Login \/ UNCHANGED vars
  <2>1. areas' = areas /\ intents' = intents
    BY <1>7 DEF Restart, Outage, RequestSync, Login, vars
  <2> QED
    BY <1>0, <2>1, SameFlights, StaysLand
<1> QED
  BY <1>1, <1>2, <1>3, <1>4, <1>5, <1>6, <1>7 DEF Next, Process

LEMMA StepOpen ==
  ASSUME Typed, Arranged, Flight, FrozenLoaded, RequestsOpen, DeleteFenced, [Next]_vars
  PROVE  RequestsOpen'
<1>1. ASSUME NEW a \in Areas, WorkerTake(a) PROVE RequestsOpen'
  <2>1. Rephased(a, InFlight)
    BY <1>1, WorkerTakeRephased
  <2>2. ~areas[a].needsBase /\ a \notin intents /\ a \notin deleting
    BY <1>1 DEF WorkerTake, Sendable, Fenced
  <2>3. areas'[a].needsBase = areas[a].needsBase /\ UNCHANGED << intents, del >>
    BY <1>1, AreaTyped DEF WorkerTake, SetArea, QueueType, AreaType
  <2> QED
    BY <2>1, <2>2, <2>3 DEF RequestsOpen, Rephased, DeleteFenced
<1>2. CASE /\ FlightsLand
           /\ \A a \in Areas : areas'[a].phase = InFlight => (a \in intents' => a \in intents)
           /\ Deletion \/ del'.at # "wire" \/ (del.at = "wire" /\ del'.area = del.area)
  <2>1. CASE Deletion
    <3>1. del'.at = "wire" => areas'[del'.area].phase # InFlight
      BY <2>1, DeletionFlights
    <3> QED
      BY <1>2, <3>1, OpenKept
  <2>2. CASE del'.at # "wire" \/ (del.at = "wire" /\ del'.area = del.area)
    BY <1>2, <2>2, OpenKept
  <2> QED
    BY <1>2, <2>1, <2>2
<1> QED
  BY <1>1, <1>2, StepFlights

\* The queue waits for the request on the wire until the worker is done with it.
LEMMA StepAwaited ==
  ASSUME Typed, Arranged, Flight, RequestsOpen, RequestAwaited, [Next]_vars,
         [SwitchesBetweenRequests]_vars
  PROVE  RequestAwaited'
<1>0. worker.at = "wire" => worker.area \in Areas
  BY DEF InHand
<1>1. ASSUME FlightsStay, worker'.at = worker.at, worker'.area = worker.area, worker'.op = worker.op
      PROVE  RequestAwaited'
  BY <1>0, <1>1 DEF RequestAwaited, FlightsStay, SameFlight
<1>2. CASE Editor \/ Rebuilds \/ Deletion
  <2>1. worker' = worker
    BY <1>2, RebuildsSteady, DeletionJournal DEF Editor, Stage, Publish, Cancel, Retry,
       Discard, KeepTheirs, KeepMine
  <2> QED
    BY <1>1, <1>2, <2>1, EditorFlights, RebuildsFlights, DeletionFlights
<1>3. CASE Worker
  <2>1. ASSUME NEW a \in Areas, WorkerTake(a) PROVE RequestAwaited'
    <3>1. Rephased(a, InFlight) /\ HeadOp(areas[a]) \in Ops
      BY <2>1, WorkerTakeRephased
    <3>2. areas[a].queue # << >>
      BY <3>1 DEF HeadOp, Ops, NoOp
    <3>3. HeadOp(areas[a]) \in Queued(areas[a])
      BY <3>2, AreaTyped, QueuedType
    <3>4. AreaOf[HeadOp(areas[a])] = a
      BY <3>3 DEF Arranged, QueueMade
    <3>5. worker'.area = a /\ worker'.op = HeadOp(areas[a])
      BY <2>1 DEF WorkerTake, IdleWorker
    <3> QED
      BY <3>1, <3>4, <3>5 DEF RequestAwaited, Rephased
  <2> QED
    BY <1>3, <2>1, WorkerFlights DEF RequestAwaited
<1>4. CASE Engine
  <2>1. worker' = worker
    BY <1>4, EngineJournal
  <2>2. CASE ActivateInstall
    <3>1. engine.at = "activating" /\ engine'.at = "rows"
      <4>1. engine \in EngineType
        BY DEF TaskType
      <4> QED
        BY <2>2, <4>1 DEF ActivateInstall, EngineType
    <3>2. worker.at # "wire"
      BY <3>1 DEF SwitchesBetweenRequests, vars
    <3> QED
      BY <2>1, <3>2 DEF RequestAwaited
  <2> QED
    BY <1>1, <1>4, <2>1, <2>2, EngineFlights
<1>5. CASE Service
  <2>1. areas' = areas
    BY <1>5, ServiceKeeps
  <2>2. \/ worker' = worker
        \/ \E m \in net : \E reply, rev : Answer(m, reply, rev)
        \/ worker' = [worker EXCEPT !.reply = "transport"]
    BY <1>5 DEF Service, ServiceHandles, ServiceRefuses, RequestTimesOut, ServiceDeletes,
       ForeignEdit, AccessChanges
  <2>3. worker'.at = worker.at /\ worker'.area = worker.area /\ worker'.op = worker.op
    <3>1. CASE \E m \in net : \E reply, rev : Answer(m, reply, rev)
      BY <3>1, AnswerKeeps
    <3>2. CASE worker' = [worker EXCEPT !.reply = "transport"]
      <4>1. worker \in WorkerType
        BY DEF TaskType
      <4> QED
        BY <3>2, <4>1 DEF WorkerType
    <3> QED
      BY <2>2, <3>1, <3>2
  <2> QED
    BY <1>1, <2>1, <2>3, SameFlights
<1>6. CASE Crash
  BY <1>6 DEF Crash, IdleWorker, RequestAwaited
<1>7. CASE Restart \/ Outage \/ RequestSync \/ Login \/ UNCHANGED vars
  <2>1. areas' = areas /\ worker' = worker
    BY <1>7 DEF Restart, Outage, RequestSync, Login, vars
  <2> QED
    BY <1>1, <2>1, SameFlights
<1> QED
  BY <1>2, <1>3, <1>4, <1>5, <1>6, <1>7 DEF Next, Process

LEMMA InitOpen ==
  ASSUME Init PROVE FrozenLoaded /\ DeleteFenced /\ RequestsOpen /\ RequestAwaited
<1>1. \A a \in Areas : areas[a].phase # InFlight
  <2>1. \A a \in Areas : areas[a] = [EmptyArea EXCEPT !.confirmed = 1, !.token = 1]
    BY DEF Init
  <2>2. PICK x : x = [EmptyArea EXCEPT !.confirmed = 1, !.token = 1]
    OBVIOUS
  <2>3. x.phase = Ready
    BY <2>2 DEF EmptyArea
  <2> QED
    BY <2>1, <2>2, <2>3, GroundedPhases
<1>2. engine.at # "activating"
  BY DEF Init, IdleEngine
<1>3. del.at # "wire" /\ worker.at # "wire"
  BY DEF Init, NoDelete, IdleWorker
<1> QED
  BY <1>1, <1>2, <1>3 DEF FrozenLoaded, DeleteFenced, RequestsOpen, RequestAwaited

LEMMA OpenInvariant ==
  Spec /\ [][SyncSparesDelete]_vars =>
    [](Typed /\ Arranged /\ Flight /\ FrozenLoaded /\ DeleteFenced /\ RequestsOpen)
<1>1. Init => FrozenLoaded /\ DeleteFenced /\ RequestsOpen
  BY InitOpen
<1>2. Typed /\ Arranged /\ Flight /\ FrozenLoaded /\ DeleteFenced /\ RequestsOpen /\ [Next]_vars
        /\ [SyncSparesDelete]_vars => FrozenLoaded' /\ DeleteFenced' /\ RequestsOpen'
  BY StepFrozen, StepDeleteFenced, StepOpen
<1> HIDE DEF Typed
<1> QED
  BY <1>1, <1>2, JournalInvariant, PTL DEF Spec

\* What the queue holds back while a DELETE is out: the map is fenced, and no
\* request of it is under way.
DeletePauses == del.at = "wire" => Fenced(del.area) /\ areas[del.area].phase # InFlight

\* While the DELETE of a map is out its queue sends nothing and waits for no
\* answer, whatever is staged, cancelled, signed over or synced meanwhile, unless
\* a sync settles that very delete (begin_delete, wait_until_delete_quiescent).
THEOREM DeletesPauseTheQueue ==
  Spec /\ [][SyncSparesDelete]_vars => []DeletePauses
<1>1. Typed /\ DeleteFenced /\ RequestsOpen => DeletePauses
  <2> SUFFICES ASSUME Typed, DeleteFenced, RequestsOpen, del.at = "wire"
               PROVE  Fenced(del.area) /\ areas[del.area].phase # InFlight
    BY DEF DeletePauses
  <2>1. del.area \in Areas
    BY DEF InHand, Areas
  <2> QED
    BY <2>1 DEF DeleteFenced, RequestsOpen, Fenced
<1> HIDE DEF Typed
<1> QED
  BY <1>1, OpenInvariant, PTL

\* No edit of a map is on the wire while its DELETE is, unless a sync settles
\* the delete meanwhile or another account's journal is activated while the
\* edit's request is out.
THEOREM DeletesAreAlone ==
  Spec /\ [][SyncSparesDelete]_vars /\ [][SwitchesBetweenRequests]_vars => []DeleteAlone
<1>1. Init => RequestAwaited
  BY InitOpen
<1>2. Typed /\ Arranged /\ Flight /\ RequestsOpen /\ RequestAwaited /\ [Next]_vars
        /\ [SwitchesBetweenRequests]_vars => RequestAwaited'
  BY StepAwaited
<1>3. Typed /\ RequestsOpen /\ RequestAwaited => DeleteAlone
  BY DEF RequestsOpen, RequestAwaited, DeleteAlone, InHand
<1> HIDE DEF Typed
<1> QED
  BY <1>1, <1>2, <1>3, OpenInvariant, PTL DEF Spec

-----------------------------------------------------------------------------
\* Reviews.  Another client's edit may invalidate a queued one; it must not be
\* sent as if nothing had happened.  What makes that so is a relation between
\* what is on screen, what is under review and what the service holds.

\* A review names p: it is open, or put off until the head has left.
Names(x, p) == x.phase = Conflict(p) \/ x.deferred = p

\* A review stands at o or in front of it.
Reviewed(x, o) == \E p \in Queued(x) : p <= o /\ Names(x, p)

\* Every queued edit that the document on screen rules out was kept by the user
\* or waits behind a review.
Clear(x, kp) == \A o \in Queued(x) \cap x.view : o \in kp \/ Reviewed(x, o)

\* The area's revision is the service's, or will be once the head's receipt is in.
Due(x, rev, rc) == x.confirmed = rev \/ (x.queue # << >> /\ rc[HeadOp(x)] = rev)

\* The greater of two revisions.
Most(m, n) == IF m < n THEN n ELSE m

\* An area whose head would be accepted shows what the service holds.
Sound(x, s, rc, kp) ==
  ~x.needsBase /\ Due(x, s.rev, rc) => x.view = s.broken /\ Clear(x, kp)

\* The head was never sent for a later revision than n, nor applied beyond it.
Within(x, n, rc, ms) ==
  x.queue # << >> =>
    /\ rc[HeadOp(x)] = NoRev \/ rc[HeadOp(x)] <= n + 1
    /\ \A m \in ms : m.op = HeadOp(x) => m.rev <= n \/ m.rev < 1

Known(x, rc, ms) == ~x.needsBase => Within(x, x.confirmed, rc, ms)

\* The edit was never applied and is not on its way.
Fresh(o, rc, ms) == rc[o] = NoRev /\ \A m \in ms : m.op # o

\* A fetched document rules out what the service does, as long as nothing but
\* an edit of the map's own queue came after it.
DocSound(doc, s, rc, a) ==
  /\ doc.rev >= 1
  /\ (\/ doc.rev = s.rev
      \/ doc.rev = s.rev - 1 /\ \E o \in Ops : AreaOf[o] = a /\ rc[o] = s.rev)
     => doc.broken = s.broken

\* From x to y the document stays, no new edit is ruled out by it, and a review
\* goes only with its edit or when the user ends it.
Keeps(x, y) ==
  /\ y.view = x.view /\ y.needsBase = x.needsBase
  /\ \A p \in Queued(x) \cap Queued(y) : Names(x, p) =>
       Names(y, p) \/ (x.phase = Conflict(p) /\ y.phase.kind # "Conflict")
  /\ \A o \in Queued(y) : o \in Queued(x) \/ o \notin x.view

\* From x to y the head stays, or the next is one the service has not seen.
SameHead(x, y) ==
  /\ y.confirmed = x.confirmed
  /\ y.queue # << >> => x.queue # << >> /\ HeadOp(y) = HeadOp(x)
NewHead(x, y, rc, ms) ==
  /\ y.queue # << >> => Fresh(HeadOp(y), rc, ms)
  /\ y.confirmed = x.confirmed \/ (x.queue # << >> /\ y.confirmed = rc[HeadOp(x)])
Follows(x, y, rc, ms) == SameHead(x, y) \/ NewHead(x, y, rc, ms)

\* From x to y a document is adopted and the queue reviewed, or kept.
Adopts(x, y, doc, s, rc, ms, kp, a) ==
  /\ y.queue = x.queue /\ y.confirmed = doc.rev /\ y.view = doc.broken
  /\ doc.rev <= s.rev /\ DocSound(doc, s, rc, a)
  /\ Clear(y, kp)
  /\ y.needsBase = x.needsBase \/ Within(x, Most(doc.rev, x.confirmed), rc, ms)

\* What the conditions below say of one area: a review leaves, or is ended, only
\* when what stays queued was kept (Stands), and a revision is not taken back
\* under a queue (Advances).
Stands(x, y, kp) ==
  \A p \in Queued(x) :
    /\ ~y.needsBase /\ Names(x, p)
    /\ p \notin Queued(y) \/ (x.phase = Conflict(p) /\ y.phase.kind # "Conflict")
    => Queued(y) \cap y.view \subseteq kp
Advances(x, y) ==
  y.queue # << >> => y.confirmed >= x.confirmed \/ y.confirmed = NoRev

LEMMA WithinLater ==
  ASSUME NEW x, NEW m \in Int, NEW n \in Int, m <= n, NEW rc \in [Ops -> Int], NEW ms,
         \A k \in ms : k.rev \in Int, x.queue # << >> => HeadOp(x) \in Ops,
         Within(x, m, rc, ms)
  PROVE  Within(x, n, rc, ms)
  BY DEF Within, NoRev

LEMMA MostOf ==
  ASSUME NEW m \in Int, NEW n \in Int
  PROVE  Most(m, n) \in Int /\ m <= Most(m, n) /\ n <= Most(m, n)
         /\ (n <= m => Most(m, n) = m)
  BY DEF Most

\* What stays true of an area that the client moves on.
LEMMA KeepsSound ==
  ASSUME NEW x \in AreaType, NEW y \in AreaType, NEW s, NEW rc, NEW ms, NEW kp, NEW kq,
         kp \subseteq kq, s.rev >= 1, s.rev \in Int,
         Keeps(x, y), Follows(x, y, rc, ms), Stands(x, y, kq),
         Sound(x, s, rc, kp), Known(x, rc, ms)
  PROVE  Sound(y, s, rc, kq) /\ Known(y, rc, ms)
<1>1. Known(y, rc, ms)
  BY DEF Known, Keeps, Follows, SameHead, NewHead, Fresh, Within
<1>2. ASSUME ~y.needsBase, Due(y, s.rev, rc) PROVE y.view = s.broken /\ Clear(y, kq)
  <2>1. Due(x, s.rev, rc)
    BY <1>2 DEF Due, Follows, SameHead, NewHead, Fresh, NoRev
  <2>2. x.view = s.broken /\ Clear(x, kp) /\ y.view = x.view
    BY <1>2, <2>1 DEF Sound, Keeps
  <2>3. ASSUME NEW o \in Queued(y) \cap y.view PROVE o \in kq \/ Reviewed(y, o)
    <3>1. o \in Queued(x) \cap x.view
      BY <2>2, <2>3 DEF Keeps
    <3>2. CASE o \in kp
      BY <3>2
    <3>3. CASE Reviewed(x, o)
      <4>1. PICK p \in Queued(x) : p <= o /\ Names(x, p)
        BY <3>3 DEF Reviewed
      <4>2. CASE p \in Queued(y) /\ Names(y, p)
        BY <4>1, <4>2 DEF Reviewed
      <4>3. CASE p \notin Queued(y) \/ (x.phase = Conflict(p) /\ y.phase.kind # "Conflict")
        BY <1>2, <2>3, <4>1, <4>3 DEF Stands
      <4> QED
        BY <4>1, <4>2, <4>3 DEF Keeps
    <3> QED
      BY <2>2, <3>1, <3>2, <3>3 DEF Clear
  <2> QED
    BY <2>2, <2>3 DEF Clear
<1> QED
  BY <1>1, <1>2 DEF Sound

LEMMA AdoptsSound ==
  ASSUME NEW x \in AreaType, NEW y \in AreaType, NEW s, NEW rc \in [Ops -> Int], NEW ms,
         NEW kq, NEW a, NEW doc \in DocType, s.rev >= 1, s.rev \in Int,
         \A k \in ms : k.rev \in Int,
         x.queue # << >> => HeadOp(x) \in Ops /\ AreaOf[HeadOp(x)] = a,
         Adopts(x, y, doc, s, rc, ms, kq, a), Advances(x, y), Known(x, rc, ms)
  PROVE  Sound(y, s, rc, kq) /\ Known(y, rc, ms)
<1>1. doc.rev \in Int /\ x.confirmed \in Int /\ y.confirmed = doc.rev /\ y.queue = x.queue
      /\ doc.rev >= 1 /\ HeadOp(y) = HeadOp(x)
  BY DEF DocType, AreaType, Revs, Adopts, DocSound, HeadOp
<1>2. x.queue # << >> => x.confirmed <= doc.rev
  BY <1>1 DEF Advances, NoRev
<1>3. Known(y, rc, ms)
  <2> SUFFICES ASSUME ~y.needsBase, y.queue # << >> PROVE Within(y, y.confirmed, rc, ms)
    BY DEF Known, Within
  <2>1. Within(x, doc.rev, rc, ms)
    <3>1. CASE ~x.needsBase
      BY <1>1, <1>2, <3>1, WithinLater DEF Known
    <3>2. CASE Within(x, Most(doc.rev, x.confirmed), rc, ms)
      BY <1>1, <1>2, <3>2, MostOf
    <3> QED
      BY <3>1, <3>2 DEF Adopts
  <2> QED
    BY <1>1, <2>1 DEF Within
<1>4. ASSUME ~y.needsBase, Due(y, s.rev, rc) PROVE y.view = s.broken
  <2>1. CASE doc.rev = s.rev
    BY <2>1 DEF Adopts, DocSound
  <2>2. CASE y.queue # << >> /\ rc[HeadOp(y)] = s.rev /\ doc.rev # s.rev
    <3>1. s.rev <= doc.rev + 1 /\ doc.rev <= s.rev
      BY <1>1, <1>3, <1>4, <2>2 DEF Known, Within, NoRev, Adopts
    <3>2. doc.rev = s.rev - 1
      BY <1>1, <2>2, <3>1
    <3>3. \E o \in Ops : AreaOf[o] = a /\ rc[o] = s.rev
      BY <1>1, <2>2
    <3> QED
      BY <3>2, <3>3 DEF Adopts, DocSound
  <2> QED
    BY <1>1, <1>4, <2>1, <2>2 DEF Due
<1> QED
  BY <1>3, <1>4 DEF Sound, Adopts

LEMMA FollowsWithin ==
  ASSUME NEW x \in AreaType, NEW y \in AreaType, NEW n, NEW rc, NEW ms,
         Follows(x, y, rc, ms), Within(x, Most(n, x.confirmed), rc, ms)
  PROVE  Within(y, Most(n, y.confirmed), rc, ms)
  BY DEF Follows, SameHead, NewHead, Fresh, Within

LEMMA AdoptsWithin ==
  ASSUME NEW x \in AreaType, NEW y \in AreaType, NEW s, NEW rc \in [Ops -> Int], NEW ms,
         NEW kq, NEW a, NEW doc \in DocType, NEW n \in Int,
         \A k \in ms : k.rev \in Int, x.queue # << >> => HeadOp(x) \in Ops,
         Adopts(x, y, doc, s, rc, ms, kq, a), Advances(x, y),
         Within(x, Most(n, x.confirmed), rc, ms)
  PROVE  Within(y, Most(n, y.confirmed), rc, ms)
<1> SUFFICES ASSUME x.queue # << >> PROVE Within(y, Most(n, y.confirmed), rc, ms)
  BY DEF Adopts, Within
<1>1. x.confirmed \in Int /\ y.confirmed \in Int /\ y.queue = x.queue /\ HeadOp(y) = HeadOp(x)
  BY DEF AreaType, Revs, Adopts, HeadOp
<1>2. x.confirmed <= y.confirmed
  BY <1>1 DEF Advances, NoRev, Adopts, DocSound
<1>3. Most(n, x.confirmed) <= Most(n, y.confirmed)
  BY <1>1, <1>2 DEF Most
<1>4. Within(x, Most(n, y.confirmed), rc, ms)
  BY <1>1, <1>3, WithinLater, MostOf
<1> QED
  BY <1>1, <1>4 DEF Within

-----------------------------------------------------------------------------
\* What the transitions of an area do to its reviews.

LEMMA ConflictOnce ==
  ASSUME NEW p, NEW q, Conflict(p) = Conflict(q)
  PROVE  p = q
  BY PhaseFields

LEMMA SameKeeps ==
  ASSUME NEW x
  PROVE  Keeps(x, x) /\ SameHead(x, x)
  BY DEF Keeps, SameHead

\* A new phase alone: every review but an open one outlives it.
LEMMA PhaseKeeps ==
  ASSUME NEW x, NEW y, y.queue = x.queue, y.view = x.view, y.needsBase = x.needsBase,
         y.confirmed = x.confirmed, y.deferred = x.deferred,
         y.phase = x.phase \/ x.phase.kind # "Conflict" \/ y.phase.kind # "Conflict"
  PROVE  Keeps(x, y) /\ SameHead(x, y)
<1>1. Queued(y) = Queued(x) /\ HeadOp(y) = HeadOp(x)
  BY DEF Queued, HeadOp
<1>2. \A p : x.phase = Conflict(p) => x.phase.kind = "Conflict"
  BY PhaseFields
<1> QED
  BY <1>1, <1>2 DEF Keeps, SameHead, Names

\* A parked or a put-off review comes back.
LEMMA ResumeNames ==
  ASSUME NEW w \in AreaType, NEW late \in SUBSET Ops
  PROVE  LET y == ResumeWithDeferredConflict(w, late) IN
           /\ y.queue = w.queue /\ y.view = w.view /\ y.needsBase = w.needsBase
           /\ y.confirmed = w.confirmed
           /\ \A p \in Queued(w) : w.deferred = p => Names(y, p)
<1> DEFINE y == ResumeWithDeferredConflict(w, late)
<1>1. PICK u : u = [w EXCEPT !.phase = Ready]
  OBVIOUS
<1>2. u \in AreaType
  BY <1>1, FieldTypes, PhaseTypes
<1>3. /\ u.queue = w.queue /\ u.view = w.view /\ u.needsBase = w.needsBase
      /\ u.confirmed = w.confirmed /\ u.deferred = w.deferred /\ u.phase = Ready
  BY <1>1, <1>2 DEF AreaType
<1>4. PICK v : v = ParkExpiredHead(u, late)
  OBVIOUS
<1>5. /\ v \in AreaType
      /\ v.queue = w.queue /\ v.view = w.view /\ v.needsBase = w.needsBase
      /\ v.confirmed = w.confirmed /\ v.deferred = w.deferred
  <2>1. v \in AreaType
    BY <1>2, <1>4, ParkType
  <2>2. v = u \/ v = [u EXCEPT !.phase = Failed(HeadOp(u), FALSE)]
    BY <1>4 DEF ParkExpiredHead
  <2> QED
    BY <1>2, <1>3, <2>1, <2>2 DEF AreaType
<1>6. PICK p : p = IF w.deferred \in Queued(w) THEN Conflict(w.deferred) ELSE Ready
  OBVIOUS
<1>7. y = IF v.phase # Ready THEN v ELSE [v EXCEPT !.deferred = NoOp, !.phase = p]
  BY <1>1, <1>4, <1>6 DEF ResumeWithDeferredConflict
<1> HIDE DEF y
<1>9. CASE y = v
  BY <1>5, <1>9 DEF y, Names
<1>10. CASE y = [v EXCEPT !.deferred = NoOp, !.phase = p]
  <2>1. /\ y.queue = v.queue /\ y.view = v.view /\ y.needsBase = v.needsBase
        /\ y.confirmed = v.confirmed /\ y.phase = p
    BY <1>5, <1>10 DEF AreaType
  <2>2. \A r \in Queued(w) : w.deferred = r => Names(y, r)
    BY <1>6, <2>1 DEF Names
  <2> QED
    BY <1>5, <2>1, <2>2 DEF y
<1> QED
  BY <1>7, <1>9, <1>10

\* The head leaves, and a review that was put off for it opens.
LEMMA ResumeKeeps ==
  ASSUME NEW x \in AreaType, NEW w \in AreaType, NEW late \in SUBSET Ops, NEW y,
         y = ResumeWithDeferredConflict(w, late),
         w.view = x.view, w.needsBase = x.needsBase, w.deferred = x.deferred,
         x.phase.kind # "Conflict", Queued(w) \subseteq Queued(x)
  PROVE  Keeps(x, y) /\ y.queue = w.queue /\ y.confirmed = w.confirmed
<1>1. /\ y.queue = w.queue /\ y.view = w.view /\ y.needsBase = w.needsBase
      /\ y.confirmed = w.confirmed
      /\ \A p \in Queued(w) : w.deferred = p => Names(y, p)
  BY ResumeNames
<1>2. Queued(y) = Queued(w)
  BY <1>1 DEF Queued
<1>3. \A p : Names(x, p) => x.deferred = p
  BY PhaseFields DEF Names
<1> QED
  BY <1>1, <1>2, <1>3 DEF Keeps

LEMMA PopKeeps ==
  ASSUME NEW x \in AreaType, NEW rev \in Revs, NEW late \in SUBSET Ops,
         x.phase.kind # "Conflict", Sorted(x.queue), x.queue # << >>
  PROVE  LET y == PopAcknowledged(x, rev, late) IN
           /\ Keeps(x, y) /\ y.queue = Pop(x.queue)
           /\ y.confirmed = x.confirmed \/ y.confirmed = rev
<1>1. PICK u : u = [x EXCEPT !.queue = Pop(@)]
  OBVIOUS
<1>2. x.queue \in Seq(Ops) /\ Pop(x.queue) \in Seq(Ops)
  BY FieldTypes, PopType
<1>3. u \in AreaType
  BY <1>1, <1>2, FieldTypes
<1>4. /\ u.queue = Pop(x.queue) /\ u.view = x.view /\ u.needsBase = x.needsBase
      /\ u.deferred = x.deferred /\ u.confirmed = x.confirmed
  BY <1>1, <1>3 DEF AreaType
<1>5. PICK w : w = Confirm(u, rev)
  OBVIOUS
<1>6. w \in AreaType
  BY <1>3, <1>5, ConfirmType
<1>7. /\ w.queue = Pop(x.queue) /\ w.view = x.view /\ w.needsBase = x.needsBase
      /\ w.deferred = x.deferred
      /\ w.confirmed = x.confirmed \/ w.confirmed = rev
  <2>1. w = u \/ w = [u EXCEPT !.confirmed = rev]
    BY <1>5 DEF Confirm
  <2> QED
    BY <1>3, <1>4, <1>6, <2>1 DEF AreaType
<1>8. Queued(w) \subseteq Queued(x)
  BY <1>2, <1>7, PopSorted, QueuedMembers
<1>9. PICK y : y = ResumeWithDeferredConflict(w, late)
  OBVIOUS
<1>10. Keeps(x, y) /\ y.queue = w.queue /\ y.confirmed = w.confirmed
  BY <1>6, <1>7, <1>8, <1>9, ResumeKeeps
<1>11. PopAcknowledged(x, rev, late) = y
  BY <1>1, <1>5, <1>9 DEF PopAcknowledged
<1> QED
  BY <1>7, <1>10, <1>11

LEMMA CancelKeeps ==
  ASSUME NEW x \in AreaType, NEW o \in Ops, NEW late \in SUBSET Ops, NEW y,
         y = CancelIn(x, o, late), Cancellable(x, o), Sorted(x.queue)
  PROVE  Keeps(x, y) /\ y.queue = Remove(x.queue, o) /\ y.confirmed = x.confirmed
<1>1. PICK w : w = [x EXCEPT
                        !.queue = Remove(@, o),
                        !.deferred = IF @ = o THEN NoOp ELSE @]
  OBVIOUS
<1>2. x.queue \in Seq(Ops) /\ Remove(x.queue, o) \in Seq(Ops)
  BY RemoveType, FieldTypes
<1>3. /\ w \in AreaType /\ w.queue = Remove(x.queue, o) /\ w.view = x.view
      /\ w.phase = x.phase /\ w.needsBase = x.needsBase /\ w.confirmed = x.confirmed
      /\ x.deferred # o => w.deferred = x.deferred
  BY <1>1, <1>2 DEF AreaType
<1>4. Queued(w) = Queued(x) \ {o}
  BY <1>2, <1>3, RemoveSorted, QueuedMembers
<1>5. PICK r : r = IF o = HeadOp(x) THEN ResumeWithDeferredConflict(w, late) ELSE w
  OBVIOUS
<1>6. r \in AreaType
  BY <1>3, <1>5, ResumeType
<1>7. /\ r.queue = w.queue /\ r.view = w.view /\ r.needsBase = w.needsBase
      /\ r.confirmed = w.confirmed
      /\ \A p \in Queued(w) : Names(x, p) => Names(r, p)
  <2>1. CASE o = HeadOp(x)
    <3>1. x.phase.kind # "Conflict"
      BY <2>1, PhaseFields DEF Cancellable
    <3>2. \A p : Names(x, p) => x.deferred = p
      BY <3>1, PhaseFields DEF Names
    <3>3. r = ResumeWithDeferredConflict(w, late)
      BY <1>5, <2>1
    <3>4. /\ r.queue = w.queue /\ r.view = w.view /\ r.needsBase = w.needsBase
          /\ r.confirmed = w.confirmed
          /\ \A p \in Queued(w) : w.deferred = p => Names(r, p)
      BY <1>3, <3>3, ResumeNames
    <3> QED
      BY <1>3, <1>4, <3>2, <3>4
  <2>2. CASE o # HeadOp(x)
    BY <1>3, <1>4, <1>5, <2>2 DEF Names
  <2> QED
    BY <2>1, <2>2
<1>8. y = IF r.phase = Conflict(o) THEN [r EXCEPT !.phase = Ready] ELSE r
  BY <1>1, <1>5 DEF CancelIn
<1>9. /\ y.queue = r.queue /\ y.view = r.view /\ y.needsBase = r.needsBase
      /\ y.confirmed = r.confirmed /\ y.deferred = r.deferred
      /\ y.phase = r.phase \/ r.phase = Conflict(o)
  BY <1>6, <1>8 DEF AreaType
<1>10. \A p \in Queued(w) : Names(r, p) => Names(y, p)
  BY <1>4, <1>9, ConflictOnce DEF Names
<1>11. Queued(y) = Queued(w)
  BY <1>7, <1>9 DEF Queued
<1> QED
  BY <1>3, <1>4, <1>7, <1>9, <1>10, <1>11 DEF Keeps

\* A replay leaves every queued edit that the document rules out behind a review:
\* the first that does not apply comes first in the queue.
LEMMA ReplayReviews ==
  ASSUME NEW x \in AreaType, NEW doc \in DocType, Sorted(x.queue), NEW z,
         z = ReplayOver(x, doc)
  PROVE  /\ z.queue = x.queue /\ z.confirmed = doc.rev /\ z.view = doc.broken
         /\ z.needsBase = x.needsBase
         /\ \A o \in Queued(z) \cap z.view : Reviewed(z, o)
<1>1. PICK w : w = Adopt(x, doc)
  OBVIOUS
<1>2. w \in AreaType
  BY <1>1, AdoptType
<1>3. /\ w.queue = x.queue /\ w.confirmed = doc.rev /\ w.view = doc.broken
      /\ w.needsBase = x.needsBase
  BY <1>1 DEF Adopt, AreaType, DocType
<1>4. PICK f : f = FirstFailed(x, doc)
  OBVIOUS
<1>5. PICK found : found = IF f \in Queued(w) THEN f ELSE NoOp
  OBVIOUS
<1>6. \/ z = [w EXCEPT !.deferred = found]
      \/ found = NoOp /\ z = [w EXCEPT !.deferred = NoOp]
      \/ z = [w EXCEPT !.deferred = NoOp, !.phase = Conflict(found)]
  BY <1>1, <1>4, <1>5 DEF ReplayOver, RecordReplay
<1>7. /\ z.queue = w.queue /\ z.confirmed = w.confirmed /\ z.view = w.view
      /\ z.needsBase = w.needsBase
      /\ found # NoOp => Names(z, found)
  BY <1>2, <1>6 DEF AreaType, Names
<1>8. ASSUME NEW o \in Queued(z) \cap z.view PROVE Reviewed(z, o)
  <2>1. PICK i \in 1..Len(x.queue) : o = x.queue[i]
    BY <1>3, <1>7, <1>8 DEF Queued
  <2>2. ~Applies(x, i, doc)
    BY <1>3, <1>7, <1>8, <2>1 DEF Applies
  <2>3. f # NoOp
    BY <1>4, <2>2, NoneFailed
  <2>4. PICK k \in 1..Len(x.queue) : f = x.queue[k] /\ \A j \in 1..(k - 1) : Applies(x, j, doc)
    BY <1>4, <2>3, FirstFailedIsFirst
  <2>5. x.queue \in Seq(Ops) /\ Len(x.queue) \in Nat /\ i \in Int /\ k \in Int
    <3>1. x.queue \in Seq(Ops)
      BY FieldTypes
    <3> QED
      BY <2>1, <2>4, <3>1
  <2>6. k <= i
    BY <2>2, <2>4, <2>5
  <2>7. f <= o
    <3>1. x.queue[k] \in Ops
      BY <2>4, <2>5
    <3>2. x.queue[k] \in Int
      BY <3>1 DEF Ops
    <3>3. CASE k = i
      BY <2>1, <2>4, <3>2, <3>3
    <3>4. CASE k < i
      <4>1. x.queue[k] < x.queue[i]
        BY <3>4 DEF Sorted
      <4>2. x.queue[i] \in Ops
        BY <2>1, <2>5
      <4> QED
        BY <2>1, <2>4, <3>2, <4>1, <4>2 DEF Ops
    <3> QED
      BY <2>5, <2>6, <3>3, <3>4
  <2>8. f \in Queued(w) /\ f \in Queued(z)
    BY <1>3, <1>7, <2>4 DEF Queued
  <2> QED
    BY <1>5, <1>7, <2>3, <2>7, <2>8 DEF Reviewed
<1> QED
  BY <1>3, <1>7, <1>8

\* A base that arrives takes no review away.
LEMMA BaseReviews ==
  ASSUME NEW x \in AreaType, expired \in SUBSET Ops, NEW y, y = BaseLoaded(x)
  PROVE  /\ y.queue = x.queue /\ y.confirmed = x.confirmed /\ y.view = x.view
         /\ \A o : Reviewed(x, o) => Reviewed(y, o)
<1>1. PICK u : u = [x EXCEPT !.needsBase = FALSE, !.baseFailed = FALSE]
  OBVIOUS
<1>2. u \in AreaType
  BY <1>1, FieldTypes
<1>3. /\ u.queue = x.queue /\ u.confirmed = x.confirmed /\ u.view = x.view
      /\ u.phase = x.phase /\ u.deferred = x.deferred
  BY <1>1, <1>2 DEF AreaType
<1>4. y = IF x.baseFailed /\ x.phase.kind = "Failed"
            THEN ResumeWithDeferredConflict(u, expired) ELSE u
  BY <1>1 DEF BaseLoaded
<1>5. /\ y.queue = u.queue /\ y.confirmed = u.confirmed /\ y.view = u.view
      /\ \A p \in Queued(x) : Names(x, p) => Names(y, p)
  <2>1. CASE y = u
    BY <1>3, <2>1 DEF Names
  <2>2. CASE y = ResumeWithDeferredConflict(u, expired) /\ x.phase.kind = "Failed"
    <3>1. \A p : Names(x, p) => x.deferred = p
      BY <2>2, PhaseFields DEF Names
    <3>2. Queued(u) = Queued(x)
      BY <1>3 DEF Queued
    <3>3. /\ y.queue = u.queue /\ y.view = u.view /\ y.confirmed = u.confirmed
          /\ \A p \in Queued(u) : u.deferred = p => Names(y, p)
      BY <1>2, <2>2, ResumeNames
    <3> QED
      BY <1>3, <3>1, <3>2, <3>3
  <2> QED
    BY <1>4, <2>1, <2>2
<1>6. Queued(y) = Queued(x)
  BY <1>3, <1>5 DEF Queued
<1> QED
  BY <1>3, <1>5, <1>6 DEF Reviewed

-----------------------------------------------------------------------------
\* The client's steps.  The receipt of an acknowledged edit is the service's,
\* and an edit behind the head was never sent: what one account makes in a map
\* goes out in order.

Receipts ==
  /\ worker.at = "wire" /\ worker.reply = "ok" =>
       receipts[worker.op] = worker.rev /\ worker.rev # NoRev
  /\ \A a \in Areas : areas[a].phase.kind = "AwaitingRetirement" =>
       receipts[areas[a].phase.op] = areas[a].phase.rev /\ areas[a].phase.rev # NoRev

LEMMA FollowerFresh ==
  ASSUME Typed, Arranged, Flight, Held, LaneOrder, NEW a \in CloudAreas,
         NEW o \in Queued(areas[a]), o # HeadOp(areas[a])
  PROVE  Fresh(o, receipts, net)
<1>1. PICK h : h = HeadOp(areas[a])
  OBVIOUS
<1>2. a \in Areas /\ areas[a] \in AreaType /\ areas[a].queue \in Seq(Ops)
  BY AreaTyped DEF Areas
<1>3. PICK i \in 1..Len(areas[a].queue) : o = areas[a].queue[i]
  BY DEF Queued
<1>4. areas[a].queue # << >> /\ Len(areas[a].queue) \in Nat
  BY <1>2, <1>3
<1>5. h = areas[a].queue[1] /\ h \in Queued(areas[a]) /\ h \in Ops /\ o \in Ops
  <2>1. h = areas[a].queue[1] /\ h \in Queued(areas[a])
    BY <1>1, <1>2, <1>4, QueuedType DEF HeadOp
  <2> QED
    BY <1>2, <2>1, AreaTyped
<1>6. h < o
  <2>1. 1 < i
    BY <1>1, <1>3, <1>5
  <2>2. Sorted(areas[a].queue)
    BY <1>2 DEF Arranged, QueueSorted
  <2> QED
    BY <1>3, <1>4, <1>5, <2>1, <2>2 DEF Sorted
<1>7. AreaOf[h] = a /\ AreaOf[o] = a
  BY <1>2, <1>5 DEF Arranged, QueueMade
<1>8. owner[h] = owner[o]
  BY <1>5 DEF Held, JournalQueued
<1>9. Candidate(h)
  BY <1>5, <1>7 DEF Candidate
<1>10. Ahead(o)
  BY <1>5, <1>6, <1>7, <1>8, <1>9 DEF Ahead, SameLane
<1>11. ~Applied(o) /\ \A m \in net : m.op # o
  BY <1>5, <1>10 DEF LaneOrder, LogFirst, NetFirst
<1> QED
  BY <1>5, <1>11 DEF Fresh, Flight, Received

LEMMA StagedFresh ==
  ASSUME Typed, Flight, LaneOrder, nextOp \in Ops
  PROVE  Fresh(nextOp, receipts, net)
<1>1. nextOp \in Int
  BY DEF EnvType
<1>2. ~Applied(nextOp)
  BY <1>1, AppliedMade DEF LaneOrder
<1>3. \A m \in net : m.op # nextOp
  BY <1>1 DEF LaneOrder, Made
<1> QED
  BY <1>2, <1>3 DEF Fresh, Flight, Received

\* How one step of the client may move an area on: it is emptied, or waits for
\* its base, or keeps its document, or adopts one.
Goes(a, y) ==
  \/ y.queue = << >> /\ y.confirmed = NoRev
  \/ y.needsBase /\ (engine'.at # "fetched" \/ Follows(areas[a], y, receipts, net))
  \/ Keeps(areas[a], y) /\ Follows(areas[a], y, receipts, net)
  \/ \E doc \in DocType : Adopts(areas[a], y, doc, srv[a], receipts, net, kept', a)

GoesOn == \A a \in CloudAreas : Goes(a, areas'[a])

LEMMA SameGoes == ASSUME NEW a PROVE Goes(a, areas[a])
  BY SameKeeps DEF Goes, Follows

LEMMA SameAreas == ASSUME areas' = areas PROVE GoesOn
  BY SameGoes DEF GoesOn

LEMMA SetGoes ==
  ASSUME Typed, NEW b \in Areas, NEW z, SetArea(b, z), b \in CloudAreas => Goes(b, z)
  PROVE  GoesOn
<1>1. areas' = [areas EXCEPT ![b] = z] /\ areas \in [Areas -> AreaType]
  BY DEF SetArea, QueueType
<1>2. CloudAreas \subseteq Areas
  BY DEF Areas
<1> QED
  BY <1>1, <1>2, SameGoes DEF GoesOn

LEMMA KeptGoes ==
  ASSUME NEW a, NEW y, Keeps(areas[a], y), SameHead(areas[a], y)
  PROVE  Goes(a, y)
  BY DEF Goes, Follows

\* The head leaves: what comes next was never sent.
LEMMA HeadGoes ==
  ASSUME Typed, Arranged, Flight, Held, LaneOrder, NEW a \in CloudAreas, NEW y \in AreaType,
         Keeps(areas[a], y), Queued(y) \subseteq Queued(areas[a]) \ {HeadOp(areas[a])},
         \/ y.confirmed = areas[a].confirmed
         \/ areas[a].queue # << >> /\ y.confirmed = receipts[HeadOp(areas[a])]
  PROVE  Goes(a, y)
<1>1. y.queue # << >> => Fresh(HeadOp(y), receipts, net)
  BY QueuedType, FollowerFresh
<1> QED
  BY <1>1 DEF Goes, Follows, NewHead

\* A follower leaves: the head stays.
LEMMA FollowerGoes ==
  ASSUME Typed, NEW a \in CloudAreas, NEW y, NEW o, o # HeadOp(areas[a]),
         y.queue = Remove(areas[a].queue, o), Keeps(areas[a], y),
         y.confirmed = areas[a].confirmed
  PROVE  Goes(a, y)
<1>1. a \in Areas /\ areas[a].queue \in Seq(Ops)
  BY AreaTyped DEF Areas
<1>2. areas[a].queue # << >> => y.queue # << >> /\ HeadOp(y) = HeadOp(areas[a])
  BY <1>1, RemoveFollower DEF HeadOp
<1>3. areas[a].queue = << >> => y.queue = << >>
  BY DEF Remove
<1> QED
  BY <1>2, <1>3 DEF Goes, Follows, SameHead

LEMMA Leftover ==
  ASSUME Typed, Arranged, NEW a \in Areas, NEW y, NEW o, y.queue = Remove(areas[a].queue, o)
  PROVE  Queued(y) = Queued(areas[a]) \ {o}
<1>1. areas[a].queue \in Seq(Ops) /\ Sorted(areas[a].queue)
  BY AreaTyped DEF Arranged, QueueSorted
<1> QED
  BY <1>1, RemoveSorted, QueuedMembers

\* An edit leaves the queue for good; its revision is not touched.
LEMMA RemovedGoes ==
  ASSUME Typed, Arranged, Flight, Held, LaneOrder, NEW a \in CloudAreas, NEW y \in AreaType,
         NEW o, y.queue = Remove(areas[a].queue, o), Keeps(areas[a], y),
         y.confirmed = areas[a].confirmed
  PROVE  Goes(a, y)
<1>1. CASE o # HeadOp(areas[a])
  BY <1>1, FollowerGoes
<1>2. CASE o = HeadOp(areas[a])
  <2>1. Queued(y) = Queued(areas[a]) \ {o}
    BY Leftover DEF Areas
  <2> QED
    BY <1>2, <2>1, HeadGoes
<1> QED
  BY <1>1, <1>2

\* Only the phase changes, and no review is replaced by another.
LEMMA PhaseGoes ==
  ASSUME Typed, NEW a \in Areas, NEW p \in PhaseType,
         areas[a].phase.kind # "Conflict" \/ p.kind # "Conflict",
         SetArea(a, [areas[a] EXCEPT !.phase = p])
  PROVE  GoesOn
<1>1. PICK y : y = [areas[a] EXCEPT !.phase = p]
  OBVIOUS
<1>2. /\ y.queue = areas[a].queue /\ y.view = areas[a].view
      /\ y.needsBase = areas[a].needsBase /\ y.confirmed = areas[a].confirmed
      /\ y.deferred = areas[a].deferred /\ y.phase = p
  BY <1>1, AreaTyped DEF AreaType
<1>3. Keeps(areas[a], y) /\ SameHead(areas[a], y)
  BY <1>2, PhaseKeeps
<1> QED
  BY <1>1, <1>3, KeptGoes, SetGoes

LEMMA StageGoes ==
  ASSUME Typed, Arranged, Flight, LaneOrder, Stage
  PROVE  GoesOn
<1>1. PICK o, a : o = nextOp /\ a = AreaOf[o]
  OBVIOUS
<1>2. /\ o \in Ops /\ a \in Areas /\ o \notin areas[a].view
      /\ areas' = [areas EXCEPT ![a].queue = Append(@, o)]
  BY <1>1, PendingAssumption DEF Stage
<1>3. SetArea(a, [areas[a] EXCEPT !.queue = Append(@, o)])
  BY <1>2 DEF SetArea
<1>4. PICK y : y = [areas[a] EXCEPT !.queue = Append(@, o)]
  OBVIOUS
<1>5. areas[a] \in AreaType /\ Append(areas[a].queue, o) \in Seq(Ops)
  BY <1>2, AreaTyped
<1>6. /\ y \in AreaType /\ y.queue = Append(areas[a].queue, o)
      /\ y.view = areas[a].view /\ y.needsBase = areas[a].needsBase
      /\ y.confirmed = areas[a].confirmed /\ y.deferred = areas[a].deferred
      /\ y.phase = areas[a].phase
  BY <1>4, <1>5 DEF AreaType
<1>7. areas'[a] = y
  BY <1>2, <1>4, AreaTyped DEF QueueType
<1>8. /\ Queued(y) = Queued(areas[a]) \cup {o}
      /\ areas[a].queue # << >> => HeadOp(y) = HeadOp(areas[a])
  BY <1>1, <1>2, <1>7, StageStaged DEF Staged
<1>9. Keeps(areas[a], y)
  BY <1>2, <1>6, <1>8 DEF Keeps, Names
<1>10. CASE areas[a].queue # << >>
  BY <1>3, <1>4, <1>2, <1>6, <1>8, <1>9, <1>10, KeptGoes, SetGoes DEF SameHead
<1>11. CASE areas[a].queue = << >>
  <2>1. Queued(areas[a]) = {}
    BY <1>11 DEF Queued
  <2>2. y.queue # << >> => HeadOp(y) = o
    BY <1>6, <1>8, <2>1, QueuedType
  <2>3. Fresh(o, receipts, net)
    BY <1>1, <1>2, StagedFresh
  <2>4. Goes(a, y)
    BY <1>6, <1>9, <2>2, <2>3 DEF Goes, Follows, NewHead
  <2> QED
    BY <1>2, <1>3, <1>4, <2>4, SetGoes
<1> QED
  BY <1>10, <1>11

LEMMA EditorGoes ==
  ASSUME Typed, Arranged, Flight, Held, LaneOrder, Editor
  PROVE  GoesOn
<1>0. expired \in SUBSET Ops /\ CloudAreas \subseteq Areas
  BY DEF QueueType, Areas
<1>1. CASE Stage
  BY <1>1, StageGoes
<1>2. CASE Publish \/ \E a \in Areas : KeepMine(a)
  BY <1>2, SameAreas DEF Publish, KeepMine
<1>3. ASSUME NEW o \in Ops, Cancel(o) PROVE GoesOn
  <2>1. PICK a : a = AreaOf[o]
    OBVIOUS
  <2>2. PICK y : y = CancelIn(areas[a], o, expired)
    OBVIOUS
  <2>3. a \in Areas /\ SetArea(a, y) /\ Cancellable(areas[a], o)
    BY <1>3, <2>1, <2>2, PendingAssumption DEF Cancel
  <2>4. y \in AreaType /\ Sorted(areas[a].queue)
    BY <1>0, <2>2, <2>3, AreaTyped, CancelType DEF Arranged, QueueSorted
  <2>5. /\ Keeps(areas[a], y) /\ y.queue = Remove(areas[a].queue, o)
        /\ y.confirmed = areas[a].confirmed
    BY <1>0, <2>2, <2>3, <2>4, AreaTyped, CancelKeeps
  <2> QED
    BY <2>3, <2>4, <2>5, RemovedGoes, SetGoes
<1>4. ASSUME NEW a \in Areas, Retry(a) PROVE GoesOn
  <2>1. PICK y : y = [areas[a] EXCEPT !.phase = Ready, !.baseFailed = FALSE]
    OBVIOUS
  <2>2. /\ y.queue = areas[a].queue /\ y.view = areas[a].view
        /\ y.needsBase = areas[a].needsBase /\ y.confirmed = areas[a].confirmed
        /\ y.deferred = areas[a].deferred /\ y.phase = Ready
    BY <2>1, AreaTyped DEF AreaType
  <2>3. SetArea(a, y)
    BY <1>4, <2>1 DEF Retry
  <2>4. Keeps(areas[a], y) /\ SameHead(areas[a], y)
    BY <2>2, PhaseFields, PhaseKeeps
  <2> QED
    BY <2>3, <2>4, KeptGoes, SetGoes
<1>5. ASSUME NEW a \in Areas, Discard(a) PROVE GoesOn
  <2>1. PICK o, q, w : o = areas[a].phase.op /\ q = Remove(areas[a].queue, o)
                       /\ w = [areas[a] EXCEPT !.queue = q]
    OBVIOUS
  <2>2. q \in Seq(Ops)
    BY <2>1, AreaTyped, RemoveType
  <2>3. /\ w \in AreaType /\ w.queue = q /\ w.view = areas[a].view
        /\ w.needsBase = areas[a].needsBase /\ w.confirmed = areas[a].confirmed
        /\ w.deferred = areas[a].deferred
    BY <2>1, <2>2, AreaTyped DEF AreaType
  <2>4. PICK y : y = ResumeWithDeferredConflict(w, expired)
    OBVIOUS
  <2>5. SetArea(a, y) /\ areas[a].phase.kind # "Conflict"
    BY <1>5, <2>1, <2>4 DEF Discard
  <2>6. Queued(w) \subseteq Queued(areas[a])
    <3>1. w.queue = Remove(areas[a].queue, o)
      BY <2>1, <2>3
    <3>2. Queued(w) = Queued(areas[a]) \ {o}
      BY <3>1, Leftover
    <3> QED
      BY <3>2
  <2>7. y \in AreaType
    BY <1>0, <2>3, <2>4, ResumeType
  <2>8. Keeps(areas[a], y) /\ y.queue = q /\ y.confirmed = areas[a].confirmed
    BY <1>0, <2>3, <2>4, <2>5, <2>6, AreaTyped, ResumeKeeps
  <2> QED
    BY <2>1, <2>5, <2>7, <2>8, RemovedGoes, SetGoes
<1>6. ASSUME NEW a \in Areas, KeepTheirs(a) PROVE GoesOn
  <2>1. PICK o, q, y : o = areas[a].phase.op /\ q = Remove(areas[a].queue, o)
                       /\ y = [areas[a] EXCEPT !.phase = Ready, !.queue = q]
    OBVIOUS
  <2>2. q \in Seq(Ops)
    BY <2>1, AreaTyped, RemoveType
  <2>3. y \in AreaType
    BY <2>1, <2>2, AreaTyped, FieldTypes, PhaseTypes
  <2>4. /\ y.queue = q /\ y.view = areas[a].view
        /\ y.needsBase = areas[a].needsBase /\ y.confirmed = areas[a].confirmed
        /\ y.deferred = areas[a].deferred /\ y.phase = Ready
    BY <2>1, <2>3, AreaTyped DEF AreaType
  <2>5. SetArea(a, y)
    BY <1>6, <2>1 DEF KeepTheirs
  <2>6. Queued(y) \subseteq Queued(areas[a])
    <3>1. y.queue = Remove(areas[a].queue, o)
      BY <2>1, <2>4
    <3>2. Queued(y) = Queued(areas[a]) \ {o}
      BY <3>1, Leftover
    <3> QED
      BY <3>2
  <2>7. Keeps(areas[a], y)
    BY <2>4, <2>6, PhaseFields DEF Keeps, Names
  <2> QED
    BY <2>1, <2>3, <2>4, <2>5, <2>7, RemovedGoes, SetGoes
<1> QED
  BY <1>1, <1>2, <1>3, <1>4, <1>5, <1>6 DEF Editor

\* A document that was fetched is adopted, the queue reviewed over it.
LEMMA ReplayGoes ==
  ASSUME Typed, Arranged, NEW a \in Areas, NEW x \in AreaType, NEW doc \in DocType, NEW y,
         x.queue = areas[a].queue, x.needsBase = areas[a].needsBase, y = ReplayOver(x, doc),
         doc.rev <= srv[a].rev, DocSound(doc, srv[a], receipts, a)
  PROVE  Goes(a, y)
<1>1. Sorted(x.queue)
  BY DEF Arranged, QueueSorted
<1>2. /\ y.queue = x.queue /\ y.confirmed = doc.rev /\ y.view = doc.broken
      /\ y.needsBase = x.needsBase
      /\ \A o \in Queued(y) \cap y.view : Reviewed(y, o)
  BY <1>1, ReplayReviews
<1> QED
  BY <1>2 DEF Goes, Adopts, Clear

\* The documents on their way are sound.
Docs ==
  /\ worker.at = "refetch" /\ worker.reply = "doc" =>
       DocSound(worker.doc, srv[worker.area], receipts, worker.area)
  /\ engine.at = "fetched" => DocSound(engine.doc, srv[engine.area], receipts, engine.area)
  /\ \A r \in rebuilds : r.at = "got" => DocSound(r.doc, srv[r.area], receipts, r.area)

LEMMA ResendKeeps ==
  ASSUME NEW x \in AreaType, NEW keep, NEW y, y = ReadyResend(x, keep)
  PROVE  Keeps(x, y) /\ SameHead(x, y)
<1>1. /\ y.queue = x.queue /\ y.view = x.view /\ y.needsBase = x.needsBase
      /\ y.confirmed = x.confirmed /\ y.deferred = x.deferred
      /\ y.phase = x.phase \/ y.phase = Ready
  BY DEF ReadyResend, AreaType
<1> QED
  BY <1>1, PhaseFields, PhaseKeeps

LEMMA RebuildsGo ==
  ASSUME Typed, Arranged, Dated, Docs, Rebuilds
  PROVE  GoesOn
<1>1. PICK r \in rebuilds : RebuildFetch(r) \/ RebuildApply(r)
  BY DEF Rebuilds
<1>2. PICK a : a = r.area
  OBVIOUS
<1>3. /\ r \in RebuildType /\ a \in Areas /\ r.doc \in DocType /\ r.doc.rev <= srv[a].rev
      /\ r.keep \in BOOLEAN
  BY <1>2 DEF TaskType, RebuildType, Dated, RebuildsDated
<1>4. areas[a] \in AreaType
  BY <1>3, AreaTyped
<1>5. PICK z : z = ReadyResend(areas[a], r.keep)
  OBVIOUS
<1>6. SetArea(a, z) => GoesOn
  <2>1. Keeps(areas[a], z) /\ SameHead(areas[a], z)
    BY <1>4, <1>5, ResendKeeps
  <2> QED
    BY <1>3, <2>1, KeptGoes, SetGoes
<1>7. CASE RebuildFetch(r)
  BY <1>2, <1>5, <1>6, <1>7, SameAreas DEF RebuildFetch
<1>8. CASE RebuildApply(r)
  <2>1. r.at = "got" /\ DocSound(r.doc, srv[a], receipts, a)
    BY <1>2, <1>8 DEF RebuildApply, Docs
  <2>2. PICK w : w = Adopt(areas[a], r.doc)
    OBVIOUS
  <2>3. PICK v : v = ReplayOver(areas[a], r.doc)
    OBVIOUS
  <2>4. \/ SetArea(a, z)
        \/ r.keep /\ SetArea(a, ReadyResend(w, r.keep)) /\ kept' = kept \cup Queued(areas[a])
        \/ ~r.keep /\ SetArea(a, ReadyResend(v, r.keep))
    BY <1>2, <1>3, <1>5, <1>8, <2>2, <2>3 DEF RebuildApply
  <2>5. CASE r.keep /\ SetArea(a, ReadyResend(w, r.keep)) /\ kept' = kept \cup Queued(areas[a])
    <3>1. PICK y : y = ReadyResend(w, r.keep)
      OBVIOUS
    <3>2. w \in AreaType
      BY <1>3, <1>4, <2>2, AdoptType
    <3>3. /\ w.queue = areas[a].queue /\ w.confirmed = r.doc.rev /\ w.view = r.doc.broken
          /\ w.needsBase = areas[a].needsBase
      BY <1>3, <1>4, <2>2 DEF Adopt, AreaType, DocType
    <3>4. /\ y.queue = w.queue /\ y.confirmed = w.confirmed /\ y.view = w.view
          /\ y.needsBase = w.needsBase
      BY <3>1, <3>2 DEF ReadyResend, AreaType
    <3>5. Queued(y) \subseteq kept'
      BY <2>5, <3>3, <3>4 DEF Queued
    <3>6. Goes(a, y)
      BY <1>3, <2>1, <3>3, <3>4, <3>5 DEF Goes, Adopts, Clear
    <3> QED
      BY <1>3, <2>5, <3>1, <3>6, SetGoes
  <2>6. CASE ~r.keep /\ SetArea(a, ReadyResend(v, r.keep))
    <3>1. SetArea(a, v)
      BY <2>6 DEF ReadyResend
    <3>2. Goes(a, v)
      BY <1>3, <1>4, <2>1, <2>3, ReplayGoes
    <3> QED
      BY <1>3, <3>1, <3>2, SetGoes
  <2> QED
    BY <1>6, <2>4, <2>5, <2>6
<1> QED
  BY <1>1, <1>7, <1>8

\* Maps whose back-off or request is only reopened.
LEMMA ReopenedGoes ==
  ASSUME Typed, NEW S,
         areas' = [a \in Areas |->
           IF a \in S THEN [areas[a] EXCEPT !.phase = Ready] ELSE areas[a]]
  PROVE  GoesOn
<1> SUFFICES ASSUME NEW a \in CloudAreas PROVE Goes(a, areas'[a])
  BY DEF GoesOn
<1>1. PICK y : y = [areas[a] EXCEPT !.phase = Ready]
  OBVIOUS
<1>2. a \in Areas
  BY DEF Areas
<1>3. /\ y.queue = areas[a].queue /\ y.view = areas[a].view
      /\ y.needsBase = areas[a].needsBase /\ y.confirmed = areas[a].confirmed
      /\ y.deferred = areas[a].deferred /\ y.phase = Ready
  BY <1>1, <1>2, AreaTyped DEF AreaType
<1>4. Keeps(areas[a], y) /\ SameHead(areas[a], y)
  BY <1>3, PhaseFields, PhaseKeeps
<1>5. areas'[a] = areas[a] \/ areas'[a] = y
  BY <1>1, <1>2
<1> QED
  BY <1>4, <1>5, KeptGoes, SameGoes

LEMMA CredentialGoes ==
  ASSUME Typed, worker.area \in Areas, CredentialChanged
  PROVE  GoesOn
<1>1. areas' = areas \/ areas' = [areas EXCEPT ![worker.area].phase = Ready]
  BY DEF CredentialChanged
<1>2. areas' = areas \/ SetArea(worker.area, [areas[worker.area] EXCEPT !.phase = Ready])
  BY <1>1 DEF SetArea
<1> QED
  BY <1>2, SameAreas, PhaseGoes, PhaseTypes, PhaseFields

LEMMA TransportGoes ==
  ASSUME Typed, worker.area \in Areas, worker.op \in Ops, TransportFailure
  PROVE  GoesOn
<1>1. \/ areas' = areas
      \/ SetArea(worker.area, [areas[worker.area] EXCEPT !.phase = Failed(worker.op, TRUE)])
      \/ SetArea(worker.area, [areas[worker.area] EXCEPT !.phase = Backoff])
  BY DEF TransportFailure
<1>2. Failed(worker.op, TRUE) \in PhaseType /\ Backoff \in PhaseType
  BY PhaseTypes
<1>3. Failed(worker.op, TRUE).kind # "Conflict" /\ Backoff.kind # "Conflict"
  BY PhaseFields
<1> QED
  BY <1>1, <1>2, <1>3, SameAreas, PhaseGoes

\* The acknowledged head leaves, and the revision is its receipt.
LEMMA AcknowledgedGoes ==
  ASSUME Typed, Arranged, Flight, Held, LaneOrder, NEW a \in Areas, NEW rev \in Revs,
         areas[a].phase.kind # "Conflict", areas[a].queue # << >>,
         receipts[HeadOp(areas[a])] = rev,
         SetArea(a, PopAcknowledged(areas[a], rev, expired))
  PROVE  GoesOn
<1>0. expired \in SUBSET Ops
  BY DEF QueueType
<1>1. PICK y : y = PopAcknowledged(areas[a], rev, expired)
  OBVIOUS
<1>2. areas[a] \in AreaType /\ areas[a].queue \in Seq(Ops) /\ Sorted(areas[a].queue)
  BY AreaTyped DEF Arranged, QueueSorted
<1>3. y \in AreaType
  BY <1>0, <1>1, <1>2, PopAcknowledgedType
<1>4. /\ Keeps(areas[a], y) /\ y.queue = Pop(areas[a].queue)
      /\ y.confirmed = areas[a].confirmed \/ y.confirmed = rev
  BY <1>0, <1>1, <1>2, PopKeeps
<1>5. Queued(y) = Queued(areas[a]) \ {HeadOp(areas[a])}
  <2>1. Members(Pop(areas[a].queue)) = Members(areas[a].queue) \ {areas[a].queue[1]}
    BY <1>2, PopSorted
  <2> QED
    BY <1>4, <2>1, QueuedMembers DEF HeadOp
<1>6. a \in CloudAreas => Goes(a, y)
  BY <1>3, <1>4, <1>5, HeadGoes
<1> QED
  BY <1>1, <1>6, SetGoes

LEMMA WorkerGoes ==
  ASSUME Typed, Arranged, Flight, Held, Dated, LaneOrder, Docs, Receipts, Worker
  PROVE  GoesOn
<1>1. ASSUME NEW a \in Areas, WorkerRetire(a) PROVE GoesOn
  <2>1. PICK rev : rev = areas[a].phase.rev
    OBVIOUS
  <2>2. /\ areas[a].phase.kind = "AwaitingRetirement"
        /\ SetArea(a, PopAcknowledged(areas[a], rev, expired))
    BY <1>1, <2>1 DEF WorkerRetire, Retiring
  <2>3. areas[a].queue # << >> /\ HeadOp(areas[a]) = areas[a].phase.op
    BY <2>2, FitsNonempty DEF Arranged, PhasesFit
  <2>4. receipts[HeadOp(areas[a])] = rev /\ rev \in Revs
    BY <2>1, <2>2, <2>3, AreaTyped, PhaseRev DEF Receipts
  <2> QED
    BY <2>2, <2>3, <2>4, AcknowledgedGoes
<1>2. ASSUME NEW a \in Areas, WorkerRetireFails(a) \/ WorkerTimer(a) PROVE GoesOn
  BY <1>2, SameAreas DEF WorkerRetireFails, WorkerTimer
<1>3. ASSUME NEW a \in Areas, WorkerTake(a) PROVE GoesOn
  BY <1>3, PhaseTypes, PhaseFields, PhaseGoes DEF WorkerTake
<1>4. CASE WorkerIdle
  <2>1. PICK S : areas' = [a \in Areas |->
                   IF a \in S THEN [areas[a] EXCEPT !.phase = Ready] ELSE areas[a]]
    BY <1>4 DEF WorkerIdle
  <2> QED
    BY <2>1, ReopenedGoes
<1>5. CASE WorkerWake \/ VerdictStale
  BY <1>5, SameAreas DEF WorkerWake, VerdictStale
<1>6. CASE Verdicts /\ ~VerdictStale
  <2>0. worker.area \in Areas /\ worker.op \in Ops /\ worker.rev \in Revs /\ worker.doc \in DocType
    BY <1>6, WorkerInHand DEF Verdicts, VerdictOk, VerdictCredential, VerdictTransport,
       VerdictHeld, VerdictRefused, VerdictUpgrade, VerdictConflict, ConflictFetch,
       ConflictApply
  <2>1. PICK a : a = worker.area
    OBVIOUS
  <2>2. CASE VerdictOk
    <3>1. \/ SetArea(a, PopAcknowledged(areas[a], worker.rev, expired))
          \/ SetArea(a, [areas[a] EXCEPT !.phase = AwaitingRetirement(worker.op, worker.rev)])
      BY <2>1, <2>2 DEF VerdictOk
    <3>2. areas[a].phase = InFlight /\ HeadOp(areas[a]) = worker.op
      BY <2>1, <2>2 DEF VerdictOk, Current
    <3>3. areas[a].queue # << >> /\ receipts[HeadOp(areas[a])] = worker.rev
      BY <2>0, <2>2, <3>2 DEF VerdictOk, Receipts, HeadOp, Ops, NoOp
    <3>4. areas[a].phase.kind # "Conflict"
      BY <3>2, PhaseFields
    <3>5. AwaitingRetirement(worker.op, worker.rev) \in PhaseType
      BY <2>0, PhaseTypes
    <3> QED
      BY <2>0, <2>1, <3>1, <3>3, <3>4, <3>5, AcknowledgedGoes, PhaseGoes
  <2>3. CASE VerdictCredential \/ VerdictConflict
    BY <2>0, <2>3, CredentialGoes, SameAreas DEF VerdictCredential, VerdictConflict
  <2>4. CASE VerdictTransport
    BY <2>0, <2>4, TransportGoes DEF VerdictTransport
  <2>5. CASE VerdictHeld
    BY <2>0, <2>5, PhaseTypes, PhaseFields, PhaseGoes DEF VerdictHeld
  <2>6. CASE VerdictRefused
    <3>1. Failed(worker.op, TRUE) \in PhaseType /\ Failed(worker.op, TRUE).kind # "Conflict"
      BY <2>0, PhaseTypes, PhaseFields
    <3> QED
      BY <2>0, <2>6, <3>1, PhaseGoes DEF VerdictRefused
  <2>7. CASE VerdictUpgrade
    <3>1. PICK S : S = { b \in Areas : areas[b].phase = InFlight /\ b \in CloudAreas }
      OBVIOUS
    <3>2. areas' = [b \in Areas |->
                     IF b \in S THEN [areas[b] EXCEPT !.phase = Ready] ELSE areas[b]]
      BY <2>7, <3>1 DEF VerdictUpgrade
    <3> QED
      BY <3>2, ReopenedGoes
  <2>8. CASE ConflictFetch
    BY <2>0, <2>8, CredentialGoes, TransportGoes, SameAreas DEF ConflictFetch
  <2>9. CASE ConflictApply
    <3>1. PICK x : x = [areas[a] EXCEPT !.phase = Ready]
      OBVIOUS
    <3>2. PICK y : y = ReplayOver(x, worker.doc)
      OBVIOUS
    <3>3. CredentialChanged \/ areas' = areas \/ SetArea(a, y)
      BY <2>1, <2>9, <3>1, <3>2 DEF ConflictApply
    <3>4. x \in AreaType
      BY <2>0, <2>1, <3>1, AreaTyped, FieldTypes, PhaseTypes
    <3>5. x.queue = areas[a].queue /\ x.needsBase = areas[a].needsBase
      BY <2>0, <2>1, <3>1, AreaTyped DEF AreaType
    <3>6. worker.doc.rev <= srv[a].rev /\ DocSound(worker.doc, srv[a], receipts, a)
      BY <2>0, <2>1, <2>9 DEF ConflictApply, Docs, Dated, WorkerDated, WorkerPast
    <3>7. Goes(a, y)
      BY <2>0, <2>1, <3>2, <3>4, <3>5, <3>6, ReplayGoes
    <3> QED
      BY <2>0, <2>1, <3>3, <3>7, CredentialGoes, SameAreas, SetGoes
  <2> QED
    BY <1>6, <2>2, <2>3, <2>4, <2>5, <2>6, <2>7, <2>8, <2>9 DEF Verdicts
<1> QED
  BY <1>1, <1>2, <1>3, <1>4, <1>5, <1>6 DEF Worker

\* Conditions on the history.  The code keeps none of them: each names a step
\* that would lose sight of what another client did.  The rows of a sync bring a
\* revision but no document; a document that was fetched earlier takes back a
\* revision that was confirmed since; a review ends while other edits are ruled
\* out too; a head is sent again whose own review was put off.
RowsBringNoNews ==
  \A a \in CloudAreas :
    engine.at = "asked" /\ engine'.at = "rest" /\ ~areas[a].needsBase =>
      areas'[a].confirmed = areas[a].confirmed

DocumentsAdvance == \A a \in CloudAreas : Advances(areas[a], areas'[a])

ReviewsStand == \A a \in CloudAreas : Stands(areas[a], areas'[a], kept')

ReviewsFirst ==
  \A a \in CloudAreas :
    areas[a].phase # InFlight /\ areas'[a].phase = InFlight =>
      areas[a].deferred # HeadOp(areas[a])

\* The head of a map whose document was fetched was sent neither for a later revision
\* than the document's nor for a later one than the map's.
Fetched ==
  engine.at = "fetched" =>
    Within(areas[engine.area], Most(engine.doc.rev, areas[engine.area].confirmed),
           receipts, net)

LEMMA InstallGoes == ASSUME Typed, ActivateInstall PROVE GoesOn
<1> SUFFICES ASSUME NEW a \in CloudAreas PROVE Goes(a, areas'[a])
  BY DEF GoesOn
<1>0. a \in Areas
  BY DEF Areas
<1>1. PICK gone : gone = { b \in CloudAreas : areas[b].queue # << >> }
  OBVIOUS
<1>2. PICK x : x = IF a \in gone THEN GoneArea(areas[a]) ELSE areas[a]
  OBVIOUS
<1>3. PICK q : q = InOrder(LoadedOf(a))
  OBVIOUS
<1>4. PICK y : y = [x EXCEPT !.queue = q, !.needsBase = TRUE]
  OBVIOUS
<1>5. \/ areas'[a] = x
      \/ \E late : areas'[a] = ParkExpiredHead(y, late)
  BY <1>0, <1>1, <1>2, <1>3, <1>4 DEF ActivateInstall, LoadedOf
<1>6. x \in AreaType
  BY <1>0, <1>2, AreaTyped, GoneTyped
<1>7. q \in Seq(Ops)
  <2>1. LoadedOf(a) \in SUBSET Ops
    BY DEF LoadedOf, TaskType, EngineType
  <2> QED
    BY <1>3, <2>1, InOrderMembers
<1>8. y \in AreaType /\ y.needsBase = TRUE
  BY <1>4, <1>6, <1>7 DEF AreaType
<1>9. engine'.at # "fetched"
  <2>1. engine \in EngineType
    BY DEF TaskType
  <2> QED
    BY <2>1 DEF ActivateInstall, EngineType
<1>10. CASE areas'[a] = x
  <2>1. Goes(a, GoneArea(areas[a]))
    BY DEF Goes, GoneArea, EmptyArea
  <2> QED
    BY <1>2, <1>10, <2>1, SameGoes
<1>11. ASSUME NEW late, areas'[a] = ParkExpiredHead(y, late) PROVE Goes(a, areas'[a])
  <2>1. PICK z : z = ParkExpiredHead(y, late)
    OBVIOUS
  <2>2. z.needsBase = TRUE
    BY <1>8, <2>1 DEF ParkExpiredHead, AreaType
  <2>3. Goes(a, z)
    BY <1>9, <2>2 DEF Goes
  <2> QED
    BY <1>11, <2>1, <2>3
<1> QED
  BY <1>5, <1>10, <1>11

LEMMA RowsGo ==
  ASSUME Typed, EngineRows, [RowsBringNoNews]_vars
  PROVE  GoesOn
<1>1. engine \in EngineType /\ engine.at = "asked"
  BY DEF TaskType, EngineRows
<1>2. CASE areas' = areas
  BY <1>2, SameAreas
<1>3. CASE areas' # areas
  <2>1. /\ engine'.at = "rest"
        /\ areas' = [a \in Areas |->
             IF RowsCarryRevisions /\ a \in { b \in CloudAreas : engine.rows[b] # NoRev }
               THEN Confirm(areas[a], engine.rows[a]) ELSE areas[a]]
    BY <1>1, <1>3 DEF EngineRows, EngineType
  <2>2. RowsBringNoNews
    BY <1>3 DEF vars
  <2> SUFFICES ASSUME NEW a \in CloudAreas PROVE Goes(a, areas'[a])
    BY DEF GoesOn
  <2>3. a \in Areas /\ areas[a] \in AreaType
    BY AreaTyped DEF Areas
  <2>4. PICK y : y = [areas[a] EXCEPT !.confirmed = engine.rows[a]]
    OBVIOUS
  <2>5. areas'[a] = areas[a] \/ (areas'[a] = y /\ engine.rows[a] > areas[a].confirmed)
    BY <2>1, <2>3, <2>4 DEF Confirm
  <2>6. y.confirmed = engine.rows[a] /\ y.needsBase = areas[a].needsBase
    BY <2>3, <2>4 DEF AreaType
  <2>7. CASE areas'[a] = y /\ engine.rows[a] > areas[a].confirmed
    <3>1. areas[a].confirmed \in Int /\ engine.rows[a] \in Int
      BY <1>1, <2>3 DEF AreaType, EngineType, Revs
    <3>2. areas'[a].confirmed # areas[a].confirmed
      BY <2>6, <2>7, <3>1
    <3>3. areas[a].needsBase
      BY <1>1, <2>1, <2>2, <3>2 DEF RowsBringNoNews
    <3>4. Goes(a, y)
      BY <2>1, <2>6, <3>3 DEF Goes
    <3> QED
      BY <2>7, <3>4
  <2> QED
    BY <2>5, <2>7, SameGoes
<1> QED
  BY <1>2, <1>3

LEMMA AdoptGoes ==
  ASSUME Typed, Arranged, Dated, Docs, Fetched, EngineAdopt
  PROVE  GoesOn
<1>0. expired \in SUBSET Ops /\ CloudAreas \subseteq Areas
  BY DEF QueueType, Areas
<1>1. PICK a : a = engine.area
  OBVIOUS
<1>2. PICK doc : doc = engine.doc
  OBVIOUS
<1>3. /\ a \in CloudAreas /\ a \in Areas /\ doc \in DocType /\ doc.rev <= srv[a].rev
      /\ DocSound(doc, srv[a], receipts, a)
      /\ Within(areas[a], Most(doc.rev, areas[a].confirmed), receipts, net)
  BY <1>0, <1>1, <1>2 DEF EngineAdopt, InHand, Dated, EngineDated, EnginePast, TaskType,
     EngineType, Docs, Fetched
<1>4. areas[a] \in AreaType /\ Sorted(areas[a].queue)
  BY <1>3, AreaTyped DEF Arranged, QueueSorted
<1>5. PICK z : z = ReplayOver(areas[a], doc)
  OBVIOUS
<1>6. PICK y : y = BaseLoaded(z)
  OBVIOUS
<1>7. areas' = areas \/ SetArea(a, y)
  BY <1>1, <1>2, <1>5, <1>6 DEF EngineAdopt
<1>8. /\ z.queue = areas[a].queue /\ z.confirmed = doc.rev /\ z.view = doc.broken
      /\ \A o \in Queued(z) \cap z.view : Reviewed(z, o)
  BY <1>3, <1>4, <1>5, ReplayReviews
<1>9. z \in AreaType
  BY <1>3, <1>4, <1>5, ReplayType
<1>10. /\ y.queue = z.queue /\ y.confirmed = z.confirmed /\ y.view = z.view
       /\ \A o : Reviewed(z, o) => Reviewed(y, o)
  BY <1>0, <1>6, <1>9, BaseReviews
<1>11. Clear(y, kept')
  <2>1. Queued(y) = Queued(z)
    BY <1>10 DEF Queued
  <2> QED
    BY <1>8, <1>10, <2>1 DEF Clear
<1>12. Goes(a, y)
  BY <1>3, <1>8, <1>10, <1>11 DEF Goes, Adopts
<1> QED
  BY <1>3, <1>7, <1>12, SameAreas, SetGoes

LEMMA EmptiedGoes ==
  ASSUME Typed, NEW a \in Areas, Emptied(a)
  PROVE  GoesOn
<1>1. SetArea(a, GoneArea(areas[a]))
  BY DEF Emptied, SetArea
<1>2. Goes(a, GoneArea(areas[a]))
  BY DEF Goes, GoneArea, EmptyArea
<1> QED
  BY <1>1, <1>2, SetGoes

\* A base goes missing, the queue and the revision stay.
LEMMA WaitsGoes ==
  ASSUME Typed, NEW a \in Areas, NEW y, y.needsBase = TRUE,
         y.queue = areas[a].queue, y.confirmed = areas[a].confirmed
  PROVE  Goes(a, y)
  BY DEF Goes, Follows, SameHead, HeadOp

LEMMA EngineGoes ==
  ASSUME Typed, Arranged, Dated, Docs, Fetched, Engine, [RowsBringNoNews]_vars
  PROVE  GoesOn
<1>0. CloudAreas \subseteq Areas
  BY DEF Areas
<1>1. CASE EngineTick \/ EngineFail \/ ActivateLoad \/ EngineAsk \/ EngineDone
  BY <1>1, SameAreas DEF EngineTick, EngineFail, ActivateLoad, EngineAsk, EngineDone
<1>2. ASSUME NEW a \in CloudAreas, EngineFetch(a) PROVE GoesOn
  <2>1. areas' = areas \/ RecoverUnavailable(a)
    BY <1>2 DEF EngineFetch
  <2>2. CASE RecoverUnavailable(a)
    <3>1. PICK y : y = [areas[a] EXCEPT
                          !.baseFailed = TRUE, !.phase = Failed(HeadOp(areas[a]), TRUE)]
      OBVIOUS
    <3>2. areas' = areas \/ (SetArea(a, y) /\ areas[a].needsBase) \/ Emptied(a)
      BY <2>2, <3>1 DEF RecoverUnavailable, CommitDelete, Emptied, SetArea
    <3>3. /\ y.confirmed = areas[a].confirmed /\ y.queue = areas[a].queue
          /\ y.needsBase = areas[a].needsBase
      BY <1>0, <3>1, AreaTyped DEF AreaType
    <3>4. areas[a].needsBase \in BOOLEAN
      BY <1>0, AreaTyped DEF AreaType
    <3>5. areas[a].needsBase => Goes(a, y)
      BY <1>0, <3>3, <3>4, WaitsGoes
    <3> QED
      BY <1>0, <3>2, <3>5, SameAreas, SetGoes, EmptiedGoes
  <2> QED
    BY <2>1, <2>2, SameAreas
<1> QED
  BY <1>1, <1>2, RowsGo, AdoptGoes, InstallGoes DEF Engine

LEMMA DeletionGoes == ASSUME Typed, Deletion PROVE GoesOn
<1>1. CASE DeleteSucceeds
  <2>1. del.area \in Areas /\ Emptied(del.area)
    BY <1>1 DEF DeleteSucceeds, InHand, CommitDelete, SetArea, Emptied, Areas
  <2> QED
    BY <2>1, EmptiedGoes
<1>2. CASE DeleteAmbiguous
  <2>1. PICK y : y = [areas[del.area] EXCEPT !.needsBase = TRUE]
    OBVIOUS
  <2>2. del.area \in Areas /\ SetArea(del.area, y)
    BY <1>2, <2>1 DEF DeleteAmbiguous, InHand, Areas
  <2>3. /\ y.confirmed = areas[del.area].confirmed /\ y.queue = areas[del.area].queue
        /\ y.needsBase = TRUE
    BY <2>1, <2>2, AreaTyped DEF AreaType
  <2>4. Goes(del.area, y)
    BY <2>2, <2>3, WaitsGoes
  <2> QED
    BY <2>2, <2>4, SetGoes
<1>3. CASE areas' = areas
  BY <1>3, SameAreas
<1> QED
  BY <1>1, <1>2, <1>3 DEF Deletion, DeleteBegin, DeletePrepare, DeleteLeaves, DeleteAbandon

-----------------------------------------------------------------------------
\* The service and the documents fetched from it.

\* One map of the service after a step: its revision and what it rules out stay,
\* and no receipt comes but may be forgotten; an edit of its queue was applied; or
\* another client changed it.
Idles(a) ==
  /\ srv'[a].rev = srv[a].rev /\ srv'[a].broken = srv[a].broken
  /\ \A o \in Ops : AreaOf[o] = a => receipts'[o] \in {receipts[o], NoRev}
Advanced(a) == srv'[a].rev = srv[a].rev + 1 /\ srv'[a].broken = srv[a].broken
Edited(a) ==
  /\ a \in CloudAreas /\ srv'[a].rev = srv[a].rev + 1
  /\ \A o \in Ops : AreaOf[o] = a => receipts'[o] = receipts[o]

ServiceStands ==
  /\ \A a \in Areas : srv'[a].rev = srv[a].rev /\ srv'[a].broken = srv[a].broken
  /\ receipts' = receipts /\ overwrote' = overwrote

\* A request that is handled: applied, or answered as it is.
HandlesApplied(m) ==
  LET o == m.op  a == AreaOf[o] IN
  /\ m \in net /\ net' = net \ {m}
  /\ receipts[o] = NoRev /\ m.rev = srv[a].rev
  /\ srv' = [srv EXCEPT ![a].rev = @ + 1, ![a].log = Append(@, o)]
  /\ receipts' = [receipts EXCEPT ![o] = srv[a].rev + 1]
  /\ overwrote' = overwrote \cup ({o} \cap srv[a].broken)
  /\ Answer(m, "ok", srv[a].rev + 1)

\* What the answer to an edit that was applied earlier says.
Echoes(m) ==
  \E reply : \E rev :
    Answer(m, reply, rev) /\ (reply = "ok" => receipts[m.op] = rev /\ rev # NoRev)

LEMMA HandlesOnce ==
  ASSUME Typed, NEW m \in net, ServiceHandles(m)
  PROVE  \/ HandlesApplied(m)
         \/ UNCHANGED << srv, receipts, overwrote >> /\ net' \subseteq net /\ Echoes(m)
<1>1. CASE receipts' # receipts \/ srv' # srv \/ overwrote' # overwrote
  BY <1>1 DEF ServiceHandles, HandlesApplied
<1>2. CASE UNCHANGED << srv, receipts, overwrote >>
  <2>1. CASE HandlesApplied(m)
    BY <2>1
  <2>2. CASE ~HandlesApplied(m)
    <3>1. net' \subseteq net
      BY DEF ServiceHandles
    <3>2. Echoes(m)
      BY <2>2 DEF ServiceHandles, HandlesApplied, Echoes
    <3> QED
      BY <1>2, <3>1, <3>2
  <2> QED
    BY <2>1, <2>2
<1> QED
  BY <1>1, <1>2

LEMMA ClientStands ==
  ASSUME Editor \/ Rebuilds \/ Worker \/ Engine \/ Deletion
  PROVE  /\ UNCHANGED << srv, receipts, overwrote >> /\ kept \subseteq kept'
         /\ up /\ up' = up
<1>1. CASE Editor
  <2>1. CASE Stage \/ Publish \/ \E o \in Ops : Cancel(o)
    BY <2>1 DEF Stage, Publish, Cancel
  <2>2. CASE \E a \in Areas : Retry(a) \/ Discard(a) \/ KeepTheirs(a)
    BY <2>2 DEF Retry, Discard, KeepTheirs
  <2>3. CASE \E a \in Areas : KeepMine(a)
    BY <2>3 DEF KeepMine
  <2> QED
    BY <1>1, <2>1, <2>2, <2>3 DEF Editor
<1>2. CASE Rebuilds
  <2>1. PICK r \in rebuilds : RebuildFetch(r) \/ RebuildApply(r)
    BY <1>2 DEF Rebuilds
  <2>2. CASE RebuildFetch(r)
    BY <2>2 DEF RebuildFetch
  <2>3. CASE RebuildApply(r)
    BY <2>3 DEF RebuildApply
  <2> QED
    BY <2>1, <2>2, <2>3
<1>3. CASE Worker
  BY <1>3 DEF Worker, WorkerRetire, WorkerRetireFails, WorkerTake, WorkerTimer,
     WorkerIdle, WorkerWake, Verdicts, VerdictStale, VerdictOk, VerdictCredential,
     CredentialChanged, VerdictTransport, VerdictHeld, VerdictRefused, VerdictUpgrade,
     VerdictConflict, ConflictFetch, ConflictApply
<1>4. CASE Engine
  BY <1>4 DEF Engine, EngineTick, EngineFail, ActivateLoad, ActivateInstall,
     EngineAsk, EngineRows, EngineFetch, EngineAdopt, EngineDone
<1>5. CASE Deletion
  BY <1>5 DEF Deletion, DeleteBegin, DeletePrepare, DeleteSucceeds, DeleteLeaves,
     DeleteAmbiguous, DeleteAbandon
<1> QED
  BY <1>1, <1>2, <1>3, <1>4, <1>5

LEMMA CrashStands == ASSUME Typed, Crash PROVE ServiceStands /\ kept' = kept
<1>1. \A a \in Areas : srv'[a] = srv[a] \/ srv'[a] = [srv[a] EXCEPT !.exists = FALSE]
  BY DEF Crash
<1>2. \A a \in Areas : srv'[a].rev = srv[a].rev /\ srv'[a].broken = srv[a].broken
  BY <1>1 DEF ServiceType
<1> QED
  BY <1>2 DEF Crash, ServiceStands

LEMMA StandsIdles ==
  ASSUME ServiceStands, NEW a \in Areas PROVE Idles(a)
  BY DEF ServiceStands, Idles

LEMMA AppliedMaps ==
  ASSUME Typed, Dated, NEW m, HandlesApplied(m), NEW b \in Areas
  PROVE  /\ m.op \in Ops /\ AreaOf[m.op] \in Areas
         /\ b = AreaOf[m.op] => Advanced(b)
         /\ b # AreaOf[m.op] => /\ srv'[b] = srv[b]
                               /\ \A o \in Ops : AreaOf[o] = b => receipts'[o] = receipts[o]
<1>1. m \in net /\ Applies1(m)
  BY DEF HandlesApplied, Applies1
<1>2. PICK o, a : o = m.op /\ a = AreaOf[o]
  OBVIOUS
<1>3. /\ o \in Ops /\ a \in Areas
      /\ srv'[a].rev = srv[a].rev + 1
      /\ \A c \in Areas : c # a => srv'[c] = srv[c]
  BY <1>1, <1>2, ServedMap
<1>4. srv'[a].broken = srv[a].broken
  <2>1. srv' = [srv EXCEPT ![a].rev = @ + 1, ![a].log = Append(@, o)]
    BY <1>2 DEF HandlesApplied
  <2> QED
    BY <1>3, <2>1 DEF ServiceType
<1>5. \A p \in Ops : p # o => receipts'[p] = receipts[p]
  BY <1>2 DEF HandlesApplied, ServiceType
<1> QED
  BY <1>2, <1>3, <1>4, <1>5 DEF Advanced

LEMMA ServiceSteps ==
  ASSUME Typed, Dated, Service
  PROVE  /\ \A a \in Areas : Idles(a) \/ Advanced(a) \/ Edited(a)
         /\ kept' = kept /\ UNCHANGED << areas, engine, rebuilds, up >>
<1>0. kept' = kept /\ UNCHANGED << areas, engine, rebuilds, up >>
  BY ServiceKeeps
<1>1. ASSUME NEW m \in net, ServiceHandles(m), NEW a \in Areas
      PROVE  Idles(a) \/ Advanced(a)
  <2>1. CASE HandlesApplied(m)
    BY <2>1, AppliedMaps DEF Idles
  <2>2. CASE UNCHANGED << srv, receipts, overwrote >>
    BY <2>2 DEF Idles
  <2> QED
    BY <1>1, <2>1, <2>2, HandlesOnce
<1>2. ASSUME \/ \E m \in net : \E e \in Events : ServiceRefuses(m, e)
             \/ RequestTimesOut \/ \E a \in CloudAreas : AccessChanges(a),
             NEW a \in Areas
      PROVE  Idles(a)
  BY <1>2 DEF ServiceRefuses, RequestTimesOut, AccessChanges, Idles
<1>3. ASSUME NEW b \in CloudAreas, ServiceDeletes(b), NEW a \in Areas PROVE Idles(a)
  <2>1. srv' = [srv EXCEPT ![b].exists = @ /\ ~Visible(b)] /\ receipts' = receipts
    BY <1>3 DEF ServiceDeletes
  <2>2. srv'[a].rev = srv[a].rev /\ srv'[a].broken = srv[a].broken
    BY <2>1 DEF ServiceType
  <2> QED
    BY <2>1, <2>2 DEF Idles
<1>4. ASSUME NEW b \in CloudAreas, ForeignEdit(b), NEW a \in Areas PROVE Idles(a) \/ Edited(a)
  <2>1. PICK B : srv' = [srv EXCEPT ![b].rev = @ + 1, ![b].broken = B] /\ receipts' = receipts
    BY <1>4 DEF ForeignEdit
  <2>2. CASE a = b
    <3>1. srv'[a].rev = srv[a].rev + 1
      BY <2>1, <2>2 DEF ServiceType
    <3> QED
      BY <2>1, <2>2, <3>1 DEF Edited
  <2>3. CASE a # b
    BY <2>1, <2>3 DEF ServiceType, Idles
  <2> QED
    BY <2>2, <2>3
<1> QED
  BY <1>0, <1>1, <1>2, <1>3, <1>4 DEF Service

LEMMA StepBroken ==
  ASSUME Typed, Dated, [Next]_vars
  PROVE  (\A a \in Areas : Idles(a) \/ Advanced(a) \/ Edited(a)) /\ kept \subseteq kept'
<1>1. CASE Editor \/ Rebuilds \/ Worker \/ Engine \/ Deletion
  BY <1>1, ClientStands DEF Idles
<1>2. CASE Service
  BY <1>2, ServiceSteps
<1>3. CASE Crash
  BY <1>3, CrashStands, StandsIdles
<1>4. CASE Outage
  BY <1>4 DEF Outage, Idles
<1>5. CASE Restart \/ RequestSync \/ Login \/ UNCHANGED vars
  BY <1>5 DEF Restart, RequestSync, Login, vars, Idles
<1> QED
  BY <1>1, <1>2, <1>3, <1>4, <1>5 DEF Next, Process

\* A document stays sound: whatever comes after it is an edit of the map's own
\* queue, or makes it too old to matter.
LEMMA DocKept ==
  ASSUME Typed, Dated, NEW a \in Areas, Idles(a) \/ Advanced(a) \/ Edited(a),
         NEW doc \in DocType, doc.rev <= srv[a].rev, DocSound(doc, srv[a], receipts, a)
  PROVE  DocSound(doc, srv'[a], receipts', a)
<1>1. doc.rev \in Int /\ srv[a].rev \in Int /\ srv[a].rev >= 1
  BY DatedArea DEF DocType, Revs
<1>2. \A o \in Ops : AreaOf[o] = a => receipts[o] \in Int /\ receipts[o] <= srv[a].rev
  BY DEF ServiceType, Revs, Dated, ReceiptsDated
<1>3. CASE Idles(a)
  BY <1>1, <1>3 DEF Idles, DocSound, NoRev
<1>4. CASE Advanced(a)
  BY <1>1, <1>4 DEF Advanced, DocSound
<1>5. CASE Edited(a)
  BY <1>1, <1>2, <1>5 DEF Edited, DocSound
<1> QED
  BY <1>3, <1>4, <1>5

LEMMA DocNow ==
  ASSUME Typed, Dated, NEW a \in Areas
  PROVE  /\ Doc(a) \in DocType /\ Doc(a).rev <= srv[a].rev /\ Doc(a).rev = srv[a].rev
         /\ DocSound(Doc(a), srv[a], receipts, a)
<1>1. Doc(a) \in DocType /\ Doc(a).rev = srv[a].rev /\ Doc(a).broken = srv[a].broken
  BY DocTyped DEF Doc
<1>2. srv[a].rev \in Int /\ srv[a].rev >= 1
  BY DatedArea
<1> QED
  BY <1>1, <1>2 DEF DocSound

-----------------------------------------------------------------------------
\* The documents on their way stay sound.

\* The worker, the engine or a rebuild starts on a document only by asking for it.
LEMMA WorkerDocs ==
  ASSUME Typed, [Next]_vars, worker'.at = "refetch", worker'.reply = "doc"
  PROVE  \/ worker' = worker
         \/ /\ worker.area \in Areas /\ worker'.area = worker.area
            /\ worker'.doc = Doc(worker.area)
<1>0. worker \in WorkerType
  BY WorkerInHand
<1>1. CASE Editor
  BY <1>1 DEF Editor, Stage, Publish, Cancel, Retry, Discard, KeepTheirs, KeepMine
<1>2. CASE Rebuilds \/ Engine \/ Deletion
  BY <1>2, RebuildsSteady, EngineJournal, DeletionJournal
<1>3. CASE Worker
  <2>1. ASSUME NEW a \in Areas,
               WorkerRetire(a) \/ WorkerRetireFails(a) \/ WorkerTake(a) \/ WorkerTimer(a)
        PROVE  FALSE
    BY <1>0, <2>1 DEF WorkerRetire, WorkerRetireFails, WorkerTake, WorkerTimer, IdleWorker,
       WorkerType
  <2>2. CASE WorkerIdle \/ WorkerWake
    <3>1. CASE WorkerIdle
      <4>1. PICK S : worker' = [IdleWorker EXCEPT !.at = "idle", !.until = Waiting \ S]
        BY <3>1 DEF WorkerIdle
      <4>2. worker'.at = "idle"
        BY <4>1, IdleTyped DEF WorkerType
      <4> QED
        BY <4>2
    <3>2. CASE WorkerWake
      BY <3>2, WorkerDoneTyped DEF WorkerWake
    <3> QED
      BY <2>2, <3>1, <3>2
  <2>3. CASE Verdicts
    <3>1. \/ WorkerDone
          \/ worker' = [worker EXCEPT !.at = "refetch", !.reply = "none"]
          \/ /\ worker.at = "refetch"
             /\ worker' = [worker EXCEPT !.doc = Doc(worker.area), !.reply = "doc"]
      BY <2>3 DEF Verdicts, VerdictStale, VerdictOk, VerdictCredential, CredentialChanged,
         VerdictTransport, VerdictHeld, VerdictRefused, VerdictUpgrade, VerdictConflict,
         ConflictFetch, ConflictApply
    <3>2. CASE WorkerDone
      BY <3>2, WorkerDoneTyped
    <3>3. CASE worker' = [worker EXCEPT !.at = "refetch", !.reply = "none"]
      BY <1>0, <3>3 DEF WorkerType
    <3>4. CASE worker.at = "refetch"
               /\ worker' = [worker EXCEPT !.doc = Doc(worker.area), !.reply = "doc"]
      BY <1>0, <3>4, WorkerInHand DEF WorkerType
    <3> QED
      BY <3>1, <3>2, <3>3, <3>4
  <2> QED
    BY <1>3, <2>1, <2>2, <2>3 DEF Worker
<1>4. CASE Service
  <2>1. ASSUME NEW m, NEW reply, NEW rev, Answer(m, reply, rev) PROVE worker' = worker
    BY <1>0, <2>1 DEF Answer, WorkerType
  <2>2. CASE RequestTimesOut
    BY <1>0, <2>2 DEF RequestTimesOut, WorkerType
  <2> QED
    BY <1>4, <2>1, <2>2 DEF Service, ServiceHandles, ServiceRefuses, ServiceDeletes,
       ForeignEdit, AccessChanges
<1>5. CASE Process \/ UNCHANGED vars
  BY <1>5 DEF Process, Crash, Restart, Outage, RequestSync, Login, vars, IdleWorker
<1> QED
  BY <1>1, <1>2, <1>3, <1>4, <1>5 DEF Next

EngineAsks(a) ==
  /\ engine'.area = a /\ engine'.doc = Doc(a)
  /\ UNCHANGED << areas, net, receipts >>

LEMMA EngineDocs ==
  ASSUME Typed, [Next]_vars, engine'.at = "fetched"
  PROVE  engine' = engine \/ \E a \in CloudAreas : EngineAsks(a)
<1>0. engine \in EngineType
  BY DEF TaskType
<1>1. CASE Editor
  BY <1>1 DEF Editor, Stage, Publish, Cancel, Retry, Discard, KeepTheirs, KeepMine
<1>2. CASE Rebuilds \/ Deletion \/ Service
  BY <1>2, RebuildsSteady, DeletionJournal, ServiceKeeps
<1>3. CASE Worker
  BY <1>3 DEF Worker, WorkerRetire, WorkerRetireFails, WorkerTake, WorkerTimer,
     WorkerIdle, WorkerWake, Verdicts, VerdictStale, VerdictOk, VerdictCredential,
     CredentialChanged, VerdictTransport, VerdictHeld, VerdictRefused, VerdictUpgrade,
     VerdictConflict, ConflictFetch, ConflictApply
<1>4. CASE Process \/ UNCHANGED vars
  BY <1>4 DEF Process, Crash, Restart, Outage, RequestSync, Login, vars, IdleEngine
<1>5. CASE Engine
  <2>1. CASE EngineTick \/ EngineFail
    BY <1>0, <2>1 DEF EngineTick, EngineFail, EngineType, IdleEngine
  <2>2. CASE ActivateLoad \/ ActivateInstall
    <3>1. CASE ActivateInstall
      BY <1>0, <3>1 DEF ActivateInstall, EngineType
    <3>2. CASE ActivateLoad
      <4>1. \/ EngineIdle
            \/ engine' = [engine EXCEPT !.at = "rows", !.gen = engine.tick]
            \/ \E L, F : engine' = [engine EXCEPT !.at = "activating", !.loaded = L,
                                                  !.frozen = F]
        BY <3>2 DEF ActivateLoad
      <4>2. CASE EngineIdle
        BY <4>2, EngineIdleTyped
      <4>3. CASE engine' = [engine EXCEPT !.at = "rows", !.gen = engine.tick]
        BY <1>0, <4>3 DEF EngineType
      <4>4. ASSUME NEW L, NEW F, engine' = [engine EXCEPT !.at = "activating", !.loaded = L,
                                                          !.frozen = F]
            PROVE  FALSE
        BY <1>0, <4>4 DEF EngineType
      <4> QED
        BY <4>1, <4>2, <4>3, <4>4
    <3> QED
      BY <2>2, <3>1, <3>2
  <2>3. CASE EngineAsk \/ EngineRows
    BY <1>0, <2>3 DEF EngineAsk, EngineRows, EngineType, IdleEngine
  <2>4. CASE EngineAdopt \/ EngineDone
    <3>1. CASE EngineDone
      <4>1. PICK n : n = IdleEngine(engine.gen)
        OBVIOUS
      <4>2. n \in EngineType /\ n.at = "idle"
        BY <1>0, <4>1, IdleTyped DEF EngineType, IdleEngine
      <4>3. \E S : engine' = [n EXCEPT !.seen = S]
        BY <3>1, <4>1 DEF EngineDone
      <4> QED
        BY <4>2, <4>3 DEF EngineType
    <3>2. CASE EngineAdopt
      <4>1. \/ EngineIdle
            \/ \E T, L : engine' = [engine EXCEPT !.at = "rest", !.area = NoArea,
                  !.doc = NoDoc, !.before = NoRev, !.token = NoRev, !.todo = T, !.late = L]
        BY <3>2 DEF EngineAdopt
      <4>2. ASSUME NEW T, NEW L,
                   engine' = [engine EXCEPT !.at = "rest", !.area = NoArea,
                  !.doc = NoDoc, !.before = NoRev, !.token = NoRev, !.todo = T, !.late = L]
            PROVE  FALSE
        BY <1>0, <4>2 DEF EngineType
      <4> QED
        BY <4>1, <4>2, EngineIdleTyped
    <3> QED
      BY <2>4, <3>1, <3>2
  <2>5. ASSUME NEW a \in CloudAreas, EngineFetch(a) PROVE EngineAsks(a)
    <3>1. \/ /\ engine' = [engine EXCEPT !.at = "fetched", !.area = a, !.doc = Doc(a),
                             !.before = areas[a].confirmed, !.token = Token(a)]
             /\ areas' = areas
          \/ engine' = EngineSkips(a) \/ EngineIdle
          \/ engine' = [engine EXCEPT !.todo = @ \ {a}]
      BY <2>5 DEF EngineFetch
    <3>2. engine.at = "rest"
      BY <2>5 DEF EngineFetch
    <3>3. UNCHANGED << net, receipts >>
      BY <2>5 DEF EngineFetch
    <3>4. CASE engine' = EngineSkips(a)
      BY <1>0, <3>2, <3>4 DEF EngineType, EngineSkips
    <3>5. CASE engine' = [engine EXCEPT !.todo = @ \ {a}]
      BY <1>0, <3>2, <3>5 DEF EngineType
    <3>6. CASE EngineIdle
      BY <3>6, EngineIdleTyped
    <3>7. CASE /\ engine' = [engine EXCEPT !.at = "fetched", !.area = a, !.doc = Doc(a),
                               !.before = areas[a].confirmed, !.token = Token(a)]
               /\ areas' = areas
      BY <1>0, <3>7, <3>3 DEF EngineType, EngineAsks
    <3> QED
      BY <3>1, <3>4, <3>5, <3>6, <3>7
  <2> QED
    BY <1>5, <2>1, <2>2, <2>3, <2>4, <2>5 DEF Engine
<1> QED
  BY <1>1, <1>2, <1>3, <1>4, <1>5 DEF Next

LEMMA RebuildDocs ==
  ASSUME Typed, [Next]_vars, NEW r \in rebuilds', r.at = "got"
  PROVE  r \in rebuilds \/ (r.area \in Areas /\ r.doc = Doc(r.area))
<1>1. CASE Editor
  <2>1. rebuilds' = rebuilds \/ \E a \in Areas : \E g, k : Rebuild(a, g, k)
    BY <1>1, PendingAssumption DEF Editor, Stage, Publish, Cancel, Retry, Discard, KeepTheirs,
       KeepMine
  <2> QED
    BY <2>1 DEF Rebuild
<1>2. ASSUME NEW q \in rebuilds, RebuildFetch(q) \/ RebuildApply(q)
      PROVE  r \in rebuilds \/ (r.area \in Areas /\ r.doc = Doc(r.area))
  <2>1. PICK d : d = [q EXCEPT !.at = "got", !.doc = Doc(q.area)]
    OBVIOUS
  <2>2. d.area = q.area /\ d.doc = Doc(d.area) /\ q.area \in Areas
    BY <2>1 DEF RebuildType, TaskType
  <2>3. rebuilds' \subseteq rebuilds \cup {d}
    BY <1>2, <2>1 DEF RebuildFetch, RebuildApply
  <2> QED
    BY <2>2, <2>3
<1>3. CASE Engine \/ Deletion \/ Service
  BY <1>3, ServiceKeeps DEF Engine, EngineTick, EngineFail, ActivateLoad, ActivateInstall,
     EngineAsk, EngineRows, EngineFetch, EngineAdopt, EngineDone, Deletion, DeleteBegin,
     DeletePrepare, DeleteSucceeds, DeleteLeaves, DeleteAmbiguous, DeleteAbandon
<1>4. CASE Worker
  BY <1>4 DEF Worker, WorkerRetire, WorkerRetireFails, WorkerTake, WorkerTimer,
     WorkerIdle, WorkerWake, Verdicts, VerdictStale, VerdictOk, VerdictCredential,
     CredentialChanged, VerdictTransport, VerdictHeld, VerdictRefused, VerdictUpgrade,
     VerdictConflict, ConflictFetch, ConflictApply
<1>5. CASE Process \/ UNCHANGED vars
  BY <1>5 DEF Process, Crash, Restart, Outage, RequestSync, Login, vars
<1> QED
  BY <1>1, <1>2, <1>3, <1>4, <1>5 DEF Next, Rebuilds

LEMMA StepDocs == ASSUME Typed, Dated, Docs, [Next]_vars PROVE Docs'
<1>0. \A a \in Areas : Idles(a) \/ Advanced(a) \/ Edited(a)
  BY StepBroken
<1>1. ASSUME NEW a \in Areas PROVE DocSound(Doc(a), srv'[a], receipts', a)
  BY <1>0, <1>1, DocNow, DocKept
<1>2. ASSUME worker'.at = "refetch", worker'.reply = "doc"
      PROVE  DocSound(worker'.doc, srv'[worker'.area], receipts', worker'.area)
  <2>1. CASE worker' = worker
    <3>1. /\ worker.area \in Areas /\ worker.doc \in DocType
          /\ worker.doc.rev <= srv[worker.area].rev
          /\ DocSound(worker.doc, srv[worker.area], receipts, worker.area)
      BY <1>2, <2>1, WorkerInHand DEF Docs, Dated, WorkerDated, WorkerPast
    <3>2. DocSound(worker.doc, srv'[worker.area], receipts', worker.area)
      BY <1>0, <3>1, DocKept
    <3> QED
      BY <2>1, <3>2
  <2>2. CASE worker.area \in Areas /\ worker'.area = worker.area
             /\ worker'.doc = Doc(worker.area)
    BY <1>1, <2>2
  <2> QED
    BY <1>2, <2>1, <2>2, WorkerDocs
<1>3. ASSUME engine'.at = "fetched"
      PROVE  DocSound(engine'.doc, srv'[engine'.area], receipts', engine'.area)
  <2>0. CloudAreas \subseteq Areas
    BY DEF Areas
  <2>1. CASE engine' = engine
    <3>1. /\ engine.area \in CloudAreas /\ engine.doc \in DocType
          /\ engine.doc.rev <= srv[engine.area].rev
          /\ DocSound(engine.doc, srv[engine.area], receipts, engine.area)
      BY <1>3, <2>1 DEF Docs, Dated, EngineDated, EnginePast, InHand, TaskType, EngineType
    <3>2. DocSound(engine.doc, srv'[engine.area], receipts', engine.area)
      BY <1>0, <2>0, <3>1, DocKept
    <3> QED
      BY <2>1, <3>2
  <2>2. ASSUME NEW a \in CloudAreas, EngineAsks(a)
        PROVE  DocSound(engine'.doc, srv'[engine'.area], receipts', engine'.area)
    BY <1>1, <2>0, <2>2 DEF EngineAsks
  <2> QED
    BY <1>3, <2>1, <2>2, EngineDocs
<1>4. ASSUME NEW r \in rebuilds', r.at = "got"
      PROVE  DocSound(r.doc, srv'[r.area], receipts', r.area)
  <2>1. CASE r \in rebuilds
    <3>1. /\ r.area \in Areas /\ r.doc \in DocType /\ r.doc.rev <= srv[r.area].rev
          /\ DocSound(r.doc, srv[r.area], receipts, r.area)
      BY <1>4, <2>1 DEF Docs, Dated, RebuildsDated, TaskType, RebuildType
    <3> QED
      BY <1>0, <3>1, DocKept
  <2> QED
    BY <1>1, <1>4, <2>1, RebuildDocs
<1> QED
  BY <1>2, <1>3, <1>4 DEF Docs

-----------------------------------------------------------------------------
\* Receipts: the service keeps them, and a program that is closed waits for none.

Down == ~up => worker.at = "run" /\ \A a \in Areas : areas[a].phase = Ready

LEMMA StepDown == ASSUME Typed, Down, [Next]_vars PROVE Down'
<1>1. CASE Editor \/ Rebuilds \/ Worker \/ Engine \/ Deletion
  <2>1. up /\ up' = up
    BY <1>1, ClientStands
  <2> QED
    BY <2>1 DEF Down
<1>2. CASE Service
  <2>1. worker'.at = worker.at /\ areas' = areas /\ up' = up
    <3>1. worker \in WorkerType
      BY WorkerInHand
    <3>2. worker'.at = worker.at
      <4>1. ASSUME NEW m, NEW reply, NEW rev, Answer(m, reply, rev)
            PROVE  worker'.at = worker.at
        BY <3>1, <4>1 DEF Answer, WorkerType
      <4>2. CASE RequestTimesOut
        BY <3>1, <4>2 DEF RequestTimesOut, WorkerType
      <4> QED
        BY <1>2, <4>1, <4>2 DEF Service, ServiceHandles, ServiceRefuses, ServiceDeletes,
           ForeignEdit, AccessChanges
    <3> QED
      BY <1>2, <3>2, ServiceKeeps
  <2> QED
    BY <2>1 DEF Down
<1>3. CASE Crash
  BY <1>3, EmptyFits DEF Crash, Down, IdleWorker
<1>4. CASE Restart \/ Outage \/ RequestSync \/ Login
  BY <1>4 DEF Restart, Outage, RequestSync, Login, Down
<1>5. CASE UNCHANGED vars
  BY <1>5 DEF vars, Down
<1> QED
  BY <1>1, <1>2, <1>3, <1>4, <1>5 DEF Next, Process

\* No step but the worker's own makes an edit wait for its retirement.
Awaits(a) == areas'[a].phase.kind = "AwaitingRetirement" => areas'[a].phase = areas[a].phase

LEMMA CalmAwaits ==
  ASSUME \A a \in Areas : Calm(areas[a], areas'[a])
  PROVE  \A a \in Areas : Awaits(a)
  BY DEF Calm, Awaits

LEMMA SteadyAwaits == ASSUME Steady PROVE \A a \in Areas : Awaits(a)
  BY SteadyCalm, CalmAwaits

LEMMA LeavesAwaits ==
  ASSUME NEW b \in Areas, NEW o, EditLeaves(b, o) PROVE \A a \in Areas : Awaits(a)
  BY LeavesCalm, CalmAwaits

LEMMA EmptiedAwaits ==
  ASSUME Typed, NEW b \in Areas, Emptied(b) PROVE \A a \in Areas : Awaits(a)
  BY EmptiedCalm, CalmAwaits

LEMMA EditorAwaits == ASSUME Typed, Arranged, Editor PROVE \A a \in Areas : Awaits(a)
<1>1. CASE Stage
  <2>1. Staged(AreaOf[nextOp], nextOp)
    BY <1>1, StageStaged
  <2> QED
    BY <2>1 DEF Staged, Awaits
<1>2. CASE Publish \/ \E a \in Areas : KeepMine(a)
  BY <1>2, SameSteady, SteadyAwaits DEF Publish, KeepMine
<1>3. ASSUME NEW o \in Ops, Cancel(o) PROVE \A a \in Areas : Awaits(a)
  BY <1>3, CancelLeaves, LeavesAwaits
<1>4. ASSUME NEW b \in Areas, Retry(b) PROVE \A a \in Areas : Awaits(a)
  BY <1>4, RetrySteady, SteadyAwaits
<1>5. ASSUME NEW b \in Areas, Discard(b) \/ KeepTheirs(b) PROVE \A a \in Areas : Awaits(a)
  BY <1>5, DiscardLeaves, KeepTheirsLeaves, LeavesAwaits
<1> QED
  BY <1>1, <1>2, <1>3, <1>4, <1>5 DEF Editor

LEMMA InstallAwaits == ASSUME Typed, Arranged, ActivateInstall PROVE \A a \in Areas : Awaits(a)
<1> SUFFICES ASSUME NEW a \in Areas, areas'[a].phase.kind = "AwaitingRetirement"
             PROVE  areas'[a].phase = areas[a].phase
  BY DEF Awaits
<1>1. Installed(a)
  BY ActivateInstalls
<1>2. GoneArea(areas[a]).phase = Ready /\ Ready.kind = "Ready"
  BY GoneFits, PhaseFields
<1>3. Failed(HeadOp(areas'[a]), FALSE).kind = "Failed"
  BY DEF Failed, Phase
<1> QED
  BY <1>1, <1>2, <1>3 DEF Installed

LEMMA WorkerAwaits ==
  ASSUME Typed, Arranged, Worker
  PROVE  \/ \A a \in Areas : Awaits(a)
         \/ /\ VerdictOk /\ \A a \in Areas : a # worker.area => Awaits(a)
            /\ areas'[worker.area].phase = AwaitingRetirement(worker.op, worker.rev)
<1>1. ASSUME NEW b \in Areas, WorkerRetire(b) PROVE \A a \in Areas : Awaits(a)
  BY <1>1, WorkerRetireLeaves, LeavesAwaits
<1>2. ASSUME NEW b \in Areas, WorkerTake(b) PROVE \A a \in Areas : Awaits(a)
  <2>1. Rephased(b, InFlight)
    BY <1>2, WorkerTakeRephased
  <2> QED
    BY <2>1, PhaseFields DEF Rephased, Awaits
<1>3. ASSUME NEW b \in Areas, WorkerRetireFails(b) \/ WorkerTimer(b)
      PROVE  \A a \in Areas : Awaits(a)
  BY <1>3, SameSteady, SteadyAwaits DEF WorkerRetireFails, WorkerTimer
<1>4. CASE WorkerIdle \/ WorkerWake
  BY <1>4, WorkerIdleSteady, SameSteady, SteadyAwaits DEF WorkerWake
<1>5. CASE Verdicts
  <2>1. CASE VerdictOk
    <3>1. worker.area \in Areas
      BY <2>1, VerdictOkShape
    <3>2. CASE EditLeaves(worker.area, worker.op)
      BY <3>1, <3>2, LeavesAwaits
    <3>3. CASE Rephased(worker.area, AwaitingRetirement(worker.op, worker.rev))
      BY <2>1, <3>3 DEF Rephased, Awaits
    <3> QED
      BY <2>1, <3>2, <3>3, VerdictOkShape
  <2> QED
    BY <1>5, <2>1, VerdictsSteady, SteadyAwaits
<1> QED
  BY <1>1, <1>2, <1>3, <1>4, <1>5 DEF Worker

LEMMA StepAwaits ==
  ASSUME Typed, Arranged, [Next]_vars
  PROVE  \/ \A a \in Areas : Awaits(a)
         \/ /\ Worker /\ VerdictOk /\ \A a \in Areas : a # worker.area => Awaits(a)
            /\ areas'[worker.area].phase = AwaitingRetirement(worker.op, worker.rev)
<1>1. CASE Engine
  <2>1. CloudAreas \subseteq Areas
    BY DEF Areas
  <2> QED
    BY <1>1, <2>1, EngineShape, InstallAwaits, SteadyAwaits, EmptiedAwaits
<1>2. CASE Deletion
  <2>1. CloudAreas \subseteq Areas
    BY DEF Areas
  <2> QED
    BY <1>2, <2>1, DeletionShape, SteadyAwaits, EmptiedAwaits
<1>3. CASE Rebuilds \/ Service
  BY <1>3, RebuildsSteady, ServiceKeeps, SameSteady, SteadyAwaits
<1>4. CASE Crash
  BY <1>4, EmptyFits, PhaseFields DEF Crash, Awaits
<1>5. CASE Restart \/ Outage \/ RequestSync \/ Login \/ UNCHANGED vars
  BY <1>5 DEF Restart, Outage, RequestSync, Login, vars, Awaits
<1> QED
  BY <1>1, <1>2, <1>3, <1>4, <1>5, EditorAwaits, WorkerAwaits DEF Next, Process

\* The worker never writes the answer it waits for.
LEMMA WorkerAnswers ==
  ASSUME Typed, Worker
  PROVE  ~(worker'.at = "wire" /\ worker'.reply = "ok")
<1>0. worker \in WorkerType
  BY WorkerInHand
<1>1. ASSUME NEW a \in Areas, WorkerRetire(a) \/ WorkerRetireFails(a)
      PROVE  worker'.at = "run"
  BY <1>0, <1>1 DEF WorkerRetire, WorkerRetireFails, WorkerType
<1>2. ASSUME NEW a \in Areas, WorkerTake(a) PROVE worker'.reply # "ok"
  <2>1. PICK o : o = HeadOp(areas[a])
    OBVIOUS
  <2>2. PICK r : r = IF IsCloud(o) /\ cred # gen[o] THEN "credential" ELSE "none"
    OBVIOUS
  <2>3. PICK n : n = IF areas[a].confirmed = NoRev THEN 0 ELSE areas[a].confirmed
    OBVIOUS
  <2>4. worker' = [IdleWorker EXCEPT !.at = "wire", !.area = a, !.op = o, !.gen = gen[o],
                                     !.rev = n, !.reply = r]
    BY <1>2, <2>1, <2>2, <2>3 DEF WorkerTake
  <2>5. worker'.reply = r
    BY <2>4, IdleTyped DEF WorkerType
  <2> QED
    BY <2>2, <2>5
<1>3. ASSUME NEW a \in Areas, WorkerTimer(a) PROVE worker'.at = "run"
  BY <1>3, IdleTyped, IdleReply DEF WorkerTimer, WorkerType
<1>4. CASE WorkerIdle
  <2>1. PICK S : worker' = [IdleWorker EXCEPT !.at = "idle", !.until = S]
    BY <1>4 DEF WorkerIdle
  <2> QED
    BY <2>1, IdleTyped DEF WorkerType
<1>5. CASE WorkerWake
  BY <1>5, WorkerDoneTyped DEF WorkerWake
<1>6. CASE Verdicts
  <2>1. \/ WorkerDone
        \/ worker' = [worker EXCEPT !.at = "refetch", !.reply = "none"]
        \/ worker' = [worker EXCEPT !.doc = Doc(worker.area), !.reply = "doc"]
    BY <1>6 DEF Verdicts, VerdictStale, VerdictOk, VerdictCredential, CredentialChanged,
       VerdictTransport, VerdictHeld, VerdictRefused, VerdictUpgrade, VerdictConflict,
       ConflictFetch, ConflictApply
  <2>2. CASE WorkerDone
    BY <2>2, WorkerDoneTyped
  <2>3. CASE worker' = [worker EXCEPT !.at = "refetch", !.reply = "none"]
    BY <1>0, <2>3 DEF WorkerType
  <2>4. CASE worker' = [worker EXCEPT !.doc = Doc(worker.area), !.reply = "doc"]
    BY <1>0, <2>4 DEF WorkerType
  <2> QED
    BY <2>1, <2>2, <2>3, <2>4
<1> QED
  BY <1>1, <1>2, <1>3, <1>4, <1>5, <1>6 DEF Worker

\* An answer of the service that the worker takes is the receipt.
LEMMA AnswerWrites ==
  ASSUME Typed, NEW m, NEW reply, NEW rev, Answer(m, reply, rev)
  PROVE  \/ worker' = worker
         \/ /\ worker.reply = "none" /\ worker'.op = m.op /\ worker'.reply = reply
            /\ reply = "ok" => worker'.rev = rev
  BY WorkerInHand DEF Answer, WorkerType

LEMMA ServiceAnswers ==
  ASSUME Typed, Dated, Receipts, Service, worker'.at = "wire", worker'.reply = "ok"
  PROVE  receipts'[worker'.op] = worker'.rev /\ worker'.rev # NoRev
<1>0. worker \in WorkerType
  BY WorkerInHand
<1>1. CASE worker' = worker /\ (receipts' = receipts \/ \E m \in net : HandlesApplied(m))
  <2>1. worker.op \in Ops /\ receipts[worker.op] = worker.rev /\ worker.rev # NoRev
    BY <1>1, WorkerInHand DEF Receipts
  <2>2. ASSUME NEW m \in net, HandlesApplied(m) PROVE receipts'[worker.op] = receipts[worker.op]
    <3>1. receipts[m.op] = NoRev
          /\ receipts' = [receipts EXCEPT ![m.op] = srv[AreaOf[m.op]].rev + 1]
      BY <2>2 DEF HandlesApplied
    <3> QED
      BY <2>1, <3>1 DEF ServiceType
  <2> QED
    BY <1>1, <2>1, <2>2
<1>2. ASSUME NEW m \in net, ServiceHandles(m), worker' # worker
      PROVE  receipts'[worker'.op] = worker'.rev /\ worker'.rev # NoRev
  <2>1. CASE HandlesApplied(m)
    <3>1. PICK n : n = srv[AreaOf[m.op]].rev + 1
      OBVIOUS
    <3>2. m.op \in Ops /\ srv[AreaOf[m.op]].rev \in Int /\ srv[AreaOf[m.op]].rev >= 1
      <4>1. Applies1(m)
        BY <2>1 DEF HandlesApplied, Applies1
      <4>2. m.op \in Ops /\ AreaOf[m.op] \in Areas
        BY <4>1, ServedMap
      <4> QED
        BY <4>2, DatedArea
    <3>3. receipts' = [receipts EXCEPT ![m.op] = n] /\ Answer(m, "ok", n)
      BY <2>1, <3>1 DEF HandlesApplied
    <3>4. worker'.op = m.op /\ worker'.rev = n
      BY <1>2, <3>3, AnswerWrites
    <3> QED
      BY <3>1, <3>2, <3>3, <3>4 DEF ServiceType, NoRev
  <2>2. CASE receipts' = receipts /\ Echoes(m)
    <3>1. PICK reply, rev : Answer(m, reply, rev)
                            /\ (reply = "ok" => receipts[m.op] = rev /\ rev # NoRev)
      BY <2>2 DEF Echoes
    <3>2. worker'.op = m.op /\ worker'.reply = reply /\ (reply = "ok" => worker'.rev = rev)
      BY <1>2, <3>1, AnswerWrites
    <3> QED
      BY <2>2, <3>1, <3>2
  <2> QED
    BY <1>2, <2>1, <2>2, HandlesOnce
<1>3. ASSUME NEW m \in net, NEW e \in Events, ServiceRefuses(m, e)
      PROVE  worker' = worker /\ receipts' = receipts
  <2>1. Answer(m, e, NoRev) /\ e # "ok" /\ receipts' = receipts
    BY <1>3 DEF ServiceRefuses
  <2> QED
    BY <2>1, AnswerWrites
<1>4. CASE RequestTimesOut
  BY <1>0, <1>4 DEF RequestTimesOut, WorkerType
<1>5. ASSUME NEW a \in CloudAreas, ServiceDeletes(a) \/ ForeignEdit(a) \/ AccessChanges(a)
      PROVE  worker' = worker /\ receipts' = receipts
  BY <1>5 DEF ServiceDeletes, ForeignEdit, AccessChanges
<1>6. ASSUME NEW m \in net, ServiceHandles(m)
      PROVE  receipts' = receipts \/ HandlesApplied(m)
  BY <1>6, HandlesOnce
<1> QED
  BY <1>1, <1>2, <1>3, <1>4, <1>5, <1>6 DEF Service

\* What a step does to the receipt of an edit: unless the service forgets all, it stays.
LEMMA ReceiptsStay ==
  ASSUME Typed, [Next]_vars, ~Outage, NEW o \in Ops, receipts[o] # NoRev
  PROVE  receipts'[o] = receipts[o]
<1>1. ASSUME NEW m \in net, ServiceHandles(m) PROVE receipts'[o] = receipts[o]
  <2>1. CASE HandlesApplied(m)
    <3>1. receipts[m.op] = NoRev
          /\ receipts' = [receipts EXCEPT ![m.op] = srv[AreaOf[m.op]].rev + 1]
      BY <2>1 DEF HandlesApplied
    <3> QED
      BY <3>1 DEF ServiceType
  <2> QED
    BY <1>1, <2>1, HandlesOnce
<1>2. CASE Service
  BY <1>1, <1>2 DEF Service, ServiceRefuses, RequestTimesOut, ServiceDeletes, ForeignEdit,
     AccessChanges
<1>3. CASE Editor \/ Rebuilds \/ Worker \/ Engine \/ Deletion
  BY <1>3, ClientStands
<1>4. CASE Process \/ UNCHANGED vars
  BY <1>4 DEF Process, Crash, Restart, RequestSync, Login, vars
<1> QED
  BY <1>2, <1>3, <1>4 DEF Next

LEMMA StepReceipts ==
  ASSUME Typed, Arranged, Dated, Receipts, Down, [Next]_vars
  PROVE  Receipts'
<1>0. worker \in WorkerType /\ \A a \in Areas : areas[a] \in AreaType
  BY WorkerInHand, AreaTyped
<1>1. ASSUME worker'.at = "wire", worker'.reply = "ok"
      PROVE  receipts'[worker'.op] = worker'.rev /\ worker'.rev # NoRev
  <2>1. CASE Worker
    BY <1>1, <2>1, WorkerAnswers
  <2>2. CASE Service
    BY <1>1, <2>2, ServiceAnswers
  <2>3. CASE worker' = worker /\ receipts' = receipts
    BY <1>1, <2>3 DEF Receipts
  <2>4. CASE Editor
    BY <2>3, <2>4 DEF Editor, Stage, Publish, Cancel, Retry, Discard, KeepTheirs, KeepMine
  <2>5. CASE Rebuilds \/ Engine \/ Deletion
    BY <2>3, <2>5, RebuildsSteady, EngineJournal, DeletionJournal, ClientStands
  <2>6. CASE Crash
    BY <1>1, <2>6, IdleReply DEF Crash
  <2>7. CASE Outage
    <3>1. ~up /\ worker' = worker
      BY <2>7 DEF Outage
    <3> QED
      BY <1>1, <3>1 DEF Down
  <2>8. CASE Restart \/ RequestSync \/ Login \/ UNCHANGED vars
    BY <2>3, <2>8 DEF Restart, RequestSync, Login, vars
  <2> QED
    BY <2>1, <2>2, <2>4, <2>5, <2>6, <2>7, <2>8 DEF Next, Process
<1>2. ASSUME NEW a \in Areas, areas'[a].phase.kind = "AwaitingRetirement"
      PROVE  receipts'[areas'[a].phase.op] = areas'[a].phase.rev /\ areas'[a].phase.rev # NoRev
  <2>1. PICK o : o = areas'[a].phase.op
    OBVIOUS
  <2>2. CASE areas'[a].phase = areas[a].phase
    <3>1. receipts[o] = areas[a].phase.rev /\ areas[a].phase.rev # NoRev
      BY <1>2, <2>1, <2>2 DEF Receipts
    <3>2. o \in Ops
      <4>1. areas[a].phase \in PhaseType
        BY <1>0 DEF AreaType
      <4> QED
        BY <1>2, <2>1, <2>2, <4>1, PhaseFields DEF PhaseType
    <3>3. ~Outage
      BY <1>2, <2>2, PhaseFields DEF Down, Outage
    <3>4. receipts'[o] = receipts[o]
      BY <3>1, <3>2, <3>3, ReceiptsStay
    <3> QED
      BY <2>1, <2>2, <3>1, <3>4
  <2>3. CASE a = worker.area /\ Worker /\ VerdictOk
             /\ areas'[a].phase = AwaitingRetirement(worker.op, worker.rev)
    <3>1. worker.at = "wire" /\ worker.reply = "ok"
      BY <2>3 DEF VerdictOk
    <3>2. receipts' = receipts
      BY <2>3, ClientStands
    <3>3. areas'[a].phase.op = worker.op /\ areas'[a].phase.rev = worker.rev
      BY <2>3 DEF AwaitingRetirement, Phase
    <3> QED
      BY <3>1, <3>2, <3>3 DEF Receipts
  <2> QED
    BY <1>2, <2>2, <2>3, StepAwaits DEF Awaits
<1> QED
  BY <1>1, <1>2 DEF Receipts

-----------------------------------------------------------------------------
\* What the client and the service know of each other.  What is on screen and under
\* review, beside the service's documents, receipts and the requests on the way.

Informed ==
  \A a \in CloudAreas :
    Sound(areas[a], srv[a], receipts, kept) /\ Known(areas[a], receipts, net)

\* A request that would be applied carries an edit the user has kept, if the
\* service's document rules it out; only foreign edits rule anything out.
NetClean ==
  \A m \in net :
    /\ m.rev = srv[AreaOf[m.op]].rev /\ receipts[m.op] = NoRev
    /\ m.op \in srv[AreaOf[m.op]].broken
    => m.op \in kept

SessionWhole == \A a \in SessionAreas : srv[a].broken = {}

LEMMA HeadMade ==
  ASSUME Typed, Arranged, NEW a \in Areas, areas[a].queue # << >>
  PROVE  HeadOp(areas[a]) \in Ops /\ AreaOf[HeadOp(areas[a])] = a
         /\ HeadOp(areas[a]) \in Queued(areas[a])
<1>1. HeadOp(areas[a]) \in Queued(areas[a]) /\ Queued(areas[a]) \in SUBSET Ops
  BY AreaTyped, QueuedType
<1> QED
  BY <1>1 DEF Arranged, QueueMade

\* The areas after a step of the client, beside the service before it.
Moved ==
  \A a \in CloudAreas :
    Sound(areas'[a], srv[a], receipts, kept') /\ Known(areas'[a], receipts, net)

LEMMA ClientMoved ==
  ASSUME Typed, Typed', Arranged, Dated, Informed, GoesOn, kept \subseteq kept',
         DocumentsAdvance, ReviewsStand
  PROVE  Moved
<1> SUFFICES ASSUME NEW a \in CloudAreas
             PROVE  Sound(areas'[a], srv[a], receipts, kept') /\ Known(areas'[a], receipts, net)
  BY DEF Moved
<1>1. PICK y : y = areas'[a]
  OBVIOUS
<1>2. a \in Areas /\ areas[a] \in AreaType /\ y \in AreaType
  BY <1>1, AreaTyped DEF Areas, QueueType
<1>3. /\ srv[a].rev \in Int /\ srv[a].rev >= 1 /\ receipts \in [Ops -> Int]
      /\ \A m \in net : m.rev \in Int
  BY <1>2, DatedArea DEF ServiceType, Revs
<1>4. Sound(areas[a], srv[a], receipts, kept) /\ Known(areas[a], receipts, net)
  BY DEF Informed
<1>5. Advances(areas[a], y) /\ Stands(areas[a], y, kept')
  BY <1>1 DEF DocumentsAdvance, ReviewsStand
<1>6. ASSUME y.queue = << >>, y.confirmed = NoRev
      PROVE  Sound(y, srv[a], receipts, kept') /\ Known(y, receipts, net)
  BY <1>3, <1>6 DEF Sound, Due, Known, Within, NoRev
<1>7. ASSUME y.needsBase
      PROVE  Sound(y, srv[a], receipts, kept') /\ Known(y, receipts, net)
  BY <1>7 DEF Sound, Known
<1>8. ASSUME Keeps(areas[a], y), Follows(areas[a], y, receipts, net)
      PROVE  Sound(y, srv[a], receipts, kept') /\ Known(y, receipts, net)
  BY <1>2, <1>3, <1>4, <1>5, <1>8, KeepsSound
<1>9. ASSUME NEW doc \in DocType,
             Adopts(areas[a], y, doc, srv[a], receipts, net, kept', a)
      PROVE  Sound(y, srv[a], receipts, kept') /\ Known(y, receipts, net)
  <2>1. areas[a].queue # << >> => HeadOp(areas[a]) \in Ops /\ AreaOf[HeadOp(areas[a])] = a
    BY <1>2, HeadMade
  <2> QED
    BY <1>2, <1>3, <1>4, <1>5, <1>9, <2>1, AdoptsSound
<1>10. Goes(a, y)
  BY <1>1 DEF GoesOn
<1> QED
  BY <1>1, <1>6, <1>7, <1>8, <1>9, <1>10 DEF Goes

FetchedMoved ==
  engine'.at = "fetched" =>
    Within(areas'[engine'.area], Most(engine'.doc.rev, areas'[engine'.area].confirmed),
           receipts, net)

LEMMA ClientFetched ==
  ASSUME Typed, Typed', Arranged, Dated, Fetched, GoesOn, DocumentsAdvance, [Next]_vars
  PROVE  FetchedMoved
<1> SUFFICES ASSUME engine'.at = "fetched"
             PROVE  Within(areas'[engine'.area],
                           Most(engine'.doc.rev, areas'[engine'.area].confirmed), receipts, net)
  BY DEF FetchedMoved
<1>1. PICK a : a = engine'.area
  OBVIOUS
<1>2. PICK y : y = areas'[a]
  OBVIOUS
<1>3. PICK n : n = engine'.doc.rev
  OBVIOUS
<1>4. /\ a \in CloudAreas /\ a \in Areas /\ areas[a] \in AreaType /\ y \in AreaType
      /\ n \in Int
  BY <1>1, <1>2, <1>3, AreaTyped DEF InHand, Areas, QueueType, TaskType, EngineType, DocType,
     Revs
<1>5. /\ srv[a].rev \in Int /\ receipts \in [Ops -> Int] /\ \A m \in net : m.rev \in Int
      /\ areas[a].confirmed \in Int /\ y.confirmed \in Int
  BY <1>4, DatedArea DEF ServiceType, Revs, AreaType
<1>6. areas[a].queue # << >> => HeadOp(areas[a]) \in Ops /\ AreaOf[HeadOp(areas[a])] = a
  BY <1>4, HeadMade
<1>7. CASE engine' = engine
  <2>1. Within(areas[a], Most(n, areas[a].confirmed), receipts, net)
    BY <1>1, <1>3, <1>7 DEF Fetched
  <2>2. ASSUME y.queue = << >>
        PROVE  Within(y, Most(n, y.confirmed), receipts, net)
    BY <2>2 DEF Within
  <2>3. ASSUME Follows(areas[a], y, receipts, net)
        PROVE  Within(y, Most(n, y.confirmed), receipts, net)
    BY <1>4, <2>1, <2>3, FollowsWithin
  <2>4. ASSUME NEW doc \in DocType,
               Adopts(areas[a], y, doc, srv[a], receipts, net, kept', a)
        PROVE  Within(y, Most(n, y.confirmed), receipts, net)
    <3>1. Advances(areas[a], y)
      BY <1>2, <1>4 DEF DocumentsAdvance
    <3> QED
      BY <1>4, <1>5, <1>6, <2>1, <2>4, <3>1, AdoptsWithin
  <2>5. Goes(a, y)
    BY <1>2, <1>4 DEF GoesOn
  <2> QED
    BY <1>1, <1>2, <1>3, <2>2, <2>3, <2>4, <2>5 DEF Goes
<1>8. ASSUME NEW b \in CloudAreas, EngineAsks(b)
      PROVE  Within(y, Most(n, y.confirmed), receipts, net)
  <2>1. b = a /\ y = areas[a] /\ engine'.doc = Doc(a)
    BY <1>1, <1>2, <1>8 DEF EngineAsks
  <2>2. n = srv[a].rev
    BY <1>3, <1>4, <2>1, DocNow
  <2>3. ASSUME areas[a].queue # << >>
        PROVE  /\ receipts[HeadOp(areas[a])] <= n
               /\ \A m \in net : m.op = HeadOp(areas[a]) => m.rev <= n
    BY <1>6, <2>2, <2>3 DEF Dated, ReceiptsDated, NetDated
  <2>4. PICK k : k = Most(n, y.confirmed)
    OBVIOUS
  <2>5. k \in Int /\ n <= k
    BY <1>4, <1>5, <2>4, MostOf
  <2>6. Within(y, k, receipts, net)
    <3>1. ASSUME y.queue # << >>
          PROVE  /\ receipts[HeadOp(y)] <= k + 1
                 /\ \A m \in net : m.op = HeadOp(y) => m.rev <= k
      BY <1>4, <1>5, <1>6, <2>1, <2>3, <2>5, <3>1
    <3> QED
      BY <3>1 DEF Within
  <2> QED
    BY <2>4, <2>6
<1> QED
  BY <1>1, <1>2, <1>3, <1>7, <1>8, EngineDocs

\* What a step of the client adds to the requests on their way.
LEMMA ClientNet ==
  ASSUME Editor \/ Rebuilds \/ Worker \/ Engine \/ Deletion
  PROVE  net' = net \/ \E a \in Areas : WorkerTake(a)
<1>1. CASE Editor
  BY <1>1 DEF Editor, Stage, Publish, Cancel, Retry, Discard, KeepTheirs, KeepMine
<1>2. CASE Rebuilds
  BY <1>2 DEF Rebuilds, RebuildFetch, RebuildApply
<1>3. CASE Worker
  BY <1>3 DEF Worker, WorkerRetire, WorkerRetireFails, WorkerTimer,
     WorkerIdle, WorkerWake, Verdicts, VerdictStale, VerdictOk, VerdictCredential,
     CredentialChanged, VerdictTransport, VerdictHeld, VerdictRefused, VerdictUpgrade,
     VerdictConflict, ConflictFetch, ConflictApply
<1>4. CASE Engine
  BY <1>4 DEF Engine, EngineTick, EngineFail, ActivateLoad, ActivateInstall,
     EngineAsk, EngineRows, EngineFetch, EngineAdopt, EngineDone
<1>5. CASE Deletion
  BY <1>5 DEF Deletion, DeleteBegin, DeletePrepare, DeleteSucceeds, DeleteLeaves,
     DeleteAmbiguous, DeleteAbandon
<1> QED
  BY <1>1, <1>2, <1>3, <1>4, <1>5

\* The request of one map: its revision is the one the map has confirmed.
LEMMA TakeAdds ==
  ASSUME Typed, NEW b \in Areas, WorkerTake(b)
  PROVE  /\ net' = net \/ \E m : /\ net' = net \cup {m} /\ m.op = HeadOp(areas[b])
                                 /\ m.rev = areas[b].confirmed \/ m.rev = 0
         /\ areas[b].queue # << >> /\ ~areas[b].needsBase
         /\ areas[b].phase.kind \in {"Ready", "Backoff"}
         /\ HeadOp(areas[b]) \in Ops
         /\ areas'[b] = [areas[b] EXCEPT !.phase = InFlight]
         /\ \A a \in Areas : a # b => areas'[a] = areas[a]
<1>1. PICK o : o = HeadOp(areas[b])
  OBVIOUS
<1>2. PICK rev : rev = IF areas[b].confirmed = NoRev THEN 0 ELSE areas[b].confirmed
  OBVIOUS
<1>3. PICK m : m = [op |-> o, rev |-> rev, gen |-> gen[o]]
  OBVIOUS
<1>4. net' = net \/ net' = net \cup {m}
  BY <1>1, <1>2, <1>3 DEF WorkerTake
<1>5. m.op = o /\ (m.rev = areas[b].confirmed \/ m.rev = 0)
  BY <1>2, <1>3
<1>6. o # NoOp /\ ~areas[b].needsBase /\ areas[b].phase.kind \in {"Ready", "Backoff"}
  BY <1>1 DEF WorkerTake, Sendable
<1>7. o \in Ops /\ areas[b].queue # << >>
  BY <1>1, <1>6, AreaTyped DEF HeadOp
<1>8. /\ areas'[b] = [areas[b] EXCEPT !.phase = InFlight]
      /\ \A a \in Areas : a # b => areas'[a] = areas[a]
  BY DEF WorkerTake, SetArea, QueueType
<1> QED
  BY <1>1, <1>4, <1>5, <1>6, <1>7, <1>8

LEMMA WithinFewer ==
  ASSUME NEW x, NEW n, NEW rc, NEW ms, NEW mt, mt \subseteq ms, Within(x, n, rc, ms)
  PROVE  Within(x, n, rc, mt)
  BY DEF Within

LEMMA TakeWithin ==
  ASSUME Typed, Arranged, NEW b \in Areas, WorkerTake(b), NEW a \in Areas, NEW n \in Int,
         areas'[a].confirmed <= n, Within(areas'[a], n, receipts, net)
  PROVE  Within(areas'[a], n, receipts, net')
<1>1. PICK y : y = areas'[a]
  OBVIOUS
<1>2. CASE net' = net
  BY <1>2
<1>3. ASSUME NEW m, net' = net \cup {m}, m.op = HeadOp(areas[b]),
             m.rev = areas[b].confirmed \/ m.rev = 0
      PROVE  Within(y, n, receipts, net')
  <2>1. ASSUME y.queue # << >>, m.op = HeadOp(y) PROVE m.rev <= n \/ m.rev < 1
    <3>1. CASE a = b
      <4>1. y.confirmed = areas[b].confirmed
        BY <1>1, <3>1, TakeAdds, AreaTyped DEF AreaType
      <4> QED
        BY <1>1, <1>3, <4>1
    <3>2. CASE a # b
      <4>1. y = areas[a]
        BY <1>1, <3>2, TakeAdds
      <4>2. AreaOf[HeadOp(areas[a])] = a
        BY <2>1, <4>1, HeadMade
      <4>3. AreaOf[HeadOp(areas[b])] = b
        BY TakeAdds, HeadMade
      <4> QED
        BY <1>3, <2>1, <3>2, <4>1, <4>2, <4>3
    <3> QED
      BY <3>1, <3>2
  <2>2. Within(y, n, receipts, net)
    BY <1>1
  <2> QED
    BY <1>3, <2>1, <2>2 DEF Within
<1> QED
  BY <1>1, <1>2, <1>3, TakeAdds

LEMMA InformedMoves ==
  ASSUME Typed, Typed', Arranged, Moved, FetchedMoved,
         Editor \/ Rebuilds \/ Worker \/ Engine \/ Deletion
  PROVE  Informed' /\ Fetched'
<1>0. UNCHANGED << srv, receipts >> /\ CloudAreas \subseteq Areas
  BY ClientStands DEF Areas
<1>1. \A a \in CloudAreas : areas'[a] \in AreaType /\ areas'[a].confirmed \in Int
  BY <1>0 DEF QueueType, AreaType, Revs
<1>2. ASSUME NEW a \in CloudAreas, NEW n \in Int, areas'[a].confirmed <= n,
             Within(areas'[a], n, receipts, net)
      PROVE  Within(areas'[a], n, receipts', net')
  BY <1>0, <1>2, ClientNet, TakeWithin
<1>3. Informed'
  <2> SUFFICES ASSUME NEW a \in CloudAreas
               PROVE  /\ Sound(areas'[a], srv'[a], receipts', kept')
                      /\ Known(areas'[a], receipts', net')
    BY DEF Informed
  <2> QED
    BY <1>0, <1>1, <1>2 DEF Moved, Known
<1>4. Fetched'
  <2> SUFFICES ASSUME engine'.at = "fetched"
               PROVE  Within(areas'[engine'.area],
                             Most(engine'.doc.rev, areas'[engine'.area].confirmed),
                             receipts', net')
    BY DEF Fetched
  <2>1. PICK a : a = engine'.area
    OBVIOUS
  <2>2. a \in CloudAreas /\ engine'.doc.rev \in Int
    BY <2>1 DEF InHand, TaskType, EngineType, DocType, Revs
  <2>3. PICK n : n = Most(engine'.doc.rev, areas'[a].confirmed)
    OBVIOUS
  <2>4. n \in Int /\ areas'[a].confirmed <= n
    BY <1>1, <2>2, <2>3, MostOf
  <2>5. Within(areas'[a], n, receipts, net)
    BY <2>1, <2>3 DEF FetchedMoved
  <2> QED
    BY <1>2, <2>1, <2>2, <2>3, <2>4, <2>5
<1> QED
  BY <1>3, <1>4

\* The edit of a new request is kept or was never ruled out: the review that
\* covers a head names the head.
LEMMA TakeClean ==
  ASSUME Typed, Arranged, Dated, Informed, SessionWhole, ReviewsFirst,
         NEW b \in Areas, WorkerTake(b), NEW n, n = areas[b].confirmed \/ n = 0,
         n = srv[b].rev, HeadOp(areas[b]) \in srv[b].broken
  PROVE  HeadOp(areas[b]) \in kept
<1>1. PICK x : x = areas[b]
  OBVIOUS
<1>2. PICK o : o = HeadOp(x)
  OBVIOUS
<1>3. b \in CloudAreas
  BY DEF SessionWhole, Areas
<1>4. srv[b].rev \in Int /\ srv[b].rev >= 1
  BY DatedArea
<1>5. x.confirmed = srv[b].rev /\ ~x.needsBase
  <2>1. x.confirmed = srv[b].rev
    BY <1>1, <1>4
  <2>2. ~areas[b].needsBase
    BY TakeAdds
  <2> QED
    BY <1>1, <2>1, <2>2
<1>6. x.view = srv[b].broken /\ Clear(x, kept)
  BY <1>1, <1>3, <1>5 DEF Informed, Sound, Due
<1>7. o \in Queued(x) /\ x.queue # << >>
  BY <1>1, <1>2, TakeAdds, HeadMade
<1>8. x.deferred # o
  <2>1. areas[b].phase # InFlight
    BY TakeAdds, PhaseFields
  <2>2. areas'[b].phase = InFlight
    BY TakeAdds, AreaTyped DEF AreaType
  <2> QED
    BY <1>1, <1>2, <1>3, <2>1, <2>2 DEF ReviewsFirst
<1>9. ~Reviewed(x, o)
  <2> SUFFICES ASSUME NEW p \in Queued(x), p <= o, Names(x, p) PROVE FALSE
    BY DEF Reviewed
  <2>1. x.queue \in Seq(Ops) /\ Sorted(x.queue) /\ Queued(x) \in SUBSET Ops
    BY <1>1, AreaTyped DEF Arranged, QueueSorted
  <2>2. p = o
    <3>1. PICK i \in 1..Len(x.queue) : p = x.queue[i]
      BY DEF Queued
    <3>2. o = x.queue[1] /\ Len(x.queue) \in Nat
      BY <1>2, <1>7, <2>1 DEF HeadOp
    <3>3. i # 1 => o < p
      BY <2>1, <3>1, <3>2 DEF Sorted
    <3>4. o \in Int /\ p \in Int
      BY <1>7, <2>1 DEF Ops
    <3> QED
      BY <3>1, <3>2, <3>3, <3>4
  <2>3. x.phase # Conflict(p)
    BY <1>1, TakeAdds, PhaseFields
  <2> QED
    BY <1>8, <2>2, <2>3 DEF Names
<1> QED
  BY <1>1, <1>2, <1>6, <1>7, <1>9 DEF Clear

LEMMA ClientClean ==
  ASSUME Typed, Arranged, Dated, Informed, SessionWhole, NetClean, ReviewsFirst,
         Editor \/ Rebuilds \/ Worker \/ Engine \/ Deletion
  PROVE  NetClean'
<1>0. UNCHANGED << srv, receipts >> /\ kept \subseteq kept'
  BY ClientStands
<1>1. CASE net' = net
  BY <1>0, <1>1 DEF NetClean
<1>2. ASSUME NEW b \in Areas, WorkerTake(b), NEW m, net' = net \cup {m},
             m.op = HeadOp(areas[b]), m.rev = areas[b].confirmed \/ m.rev = 0
      PROVE  NetClean'
  <2>1. AreaOf[m.op] = b
    BY <1>2, TakeAdds, HeadMade
  <2>2. PICK n : n = m.rev
    OBVIOUS
  <2>3. n = srv[b].rev /\ m.op \in srv[b].broken => m.op \in kept
    BY <1>2, <2>2, TakeClean
  <2> QED
    BY <1>0, <1>2, <2>1, <2>2, <2>3 DEF NetClean
<1> QED
  BY <1>1, <1>2, ClientNet, TakeAdds

\* What the service does to an area's knowledge.
LEMMA ServiceNet ==
  ASSUME Typed, Service PROVE net' \subseteq net
<1>1. ASSUME NEW m \in net, ServiceHandles(m) PROVE net' \subseteq net
  BY <1>1 DEF ServiceHandles
<1> QED
  BY <1>1 DEF Service, ServiceRefuses, RequestTimesOut, ServiceDeletes, ForeignEdit,
     AccessChanges

LEMMA ServiceReceipts ==
  ASSUME Typed, Dated, Service, NEW o \in Ops, receipts'[o] # receipts[o]
  PROVE  \E m \in net : HandlesApplied(m) /\ m.op = o
<1>1. ASSUME NEW m \in net, ServiceHandles(m)
      PROVE  HandlesApplied(m) /\ m.op = o
  <2>1. HandlesApplied(m)
    BY <1>1, HandlesOnce
  <2>2. receipts' = [receipts EXCEPT ![m.op] = srv[AreaOf[m.op]].rev + 1]
    BY <2>1 DEF HandlesApplied
  <2> QED
    BY <2>1, <2>2 DEF ServiceType
<1> QED
  BY <1>1 DEF Service, ServiceRefuses, RequestTimesOut, ServiceDeletes, ForeignEdit,
     AccessChanges

LEMMA WithinServed ==
  ASSUME Typed, Arranged, Dated, Service, NEW a \in Areas, NEW n \in Int,
         Within(areas[a], n, receipts, net)
  PROVE  Within(areas[a], n, receipts', net')
<1> SUFFICES ASSUME areas[a].queue # << >>
             PROVE  Within(areas[a], n, receipts', net')
  BY DEF Within
<1>1. PICK o : o = HeadOp(areas[a])
  OBVIOUS
<1>2. o \in Ops /\ AreaOf[o] = a
  BY <1>1, HeadMade
<1>3. \A m \in net : m.op = o => m.rev <= n \/ m.rev < 1
  BY <1>1 DEF Within
<1>4. receipts'[o] = NoRev \/ receipts'[o] <= n + 1
  <2>1. CASE receipts'[o] = receipts[o]
    BY <1>1, <2>1 DEF Within
  <2>2. CASE receipts'[o] # receipts[o]
    <3>1. PICK m \in net : HandlesApplied(m) /\ m.op = o
      BY <1>2, <2>2, ServiceReceipts
    <3>2. /\ m.rev = srv[a].rev
          /\ receipts' = [receipts EXCEPT ![o] = srv[a].rev + 1]
      BY <1>2, <3>1 DEF HandlesApplied
    <3>3. srv[a].rev \in Int /\ srv[a].rev >= 1
      BY DatedArea
    <3>4. receipts'[o] = srv[a].rev + 1
      BY <1>2, <3>2 DEF ServiceType
    <3> QED
      BY <1>3, <3>1, <3>2, <3>3, <3>4
  <2> QED
    BY <2>1, <2>2
<1>5. net' \subseteq net
  BY ServiceNet
<1> QED
  BY <1>1, <1>3, <1>4, <1>5 DEF Within

\* A document the service makes by applying the head is the one on screen; any
\* other document makes the area's revision an old one.
LEMMA SoundServed ==
  ASSUME Typed, Arranged, Dated, Service, NEW a \in CloudAreas,
         Sound(areas[a], srv[a], receipts, kept), Known(areas[a], receipts, net)
  PROVE  Sound(areas[a], srv'[a], receipts', kept)
<1>1. PICK x : x = areas[a]
  OBVIOUS
<1>2. a \in Areas /\ x \in AreaType /\ x.confirmed \in Int /\ srv[a].rev \in Int
      /\ srv[a].rev >= 1 /\ x.confirmed <= srv[a].rev
  BY <1>1, DatedArea DEF Areas, Behind, AreaType, Revs
<1>3. x.queue # << >> => HeadOp(x) \in Ops /\ AreaOf[HeadOp(x)] = a
                         /\ receipts[HeadOp(x)] \in Int
                         /\ receipts[HeadOp(x)] <= srv[a].rev
  BY <1>1, <1>2, HeadMade DEF Dated, ReceiptsDated, ServiceType, Revs
<1>4. Idles(a) \/ Advanced(a) \/ Edited(a)
  BY <1>2, ServiceSteps
<1> SUFFICES ASSUME ~x.needsBase, Due(x, srv'[a].rev, receipts')
             PROVE  x.view = srv'[a].broken /\ Clear(x, kept)
  BY <1>1 DEF Sound
<1>5. CASE Idles(a)
  <2>1. Due(x, srv[a].rev, receipts)
    BY <1>2, <1>3, <1>5 DEF Due, Idles, NoRev
  <2> QED
    BY <1>1, <1>5, <2>1 DEF Sound, Idles
<1>6. CASE Advanced(a)
  <2>1. srv'[a].rev = srv[a].rev + 1 /\ srv'[a].broken = srv[a].broken
    BY <1>6 DEF Advanced
  <2>2. x.queue # << >> /\ receipts'[HeadOp(x)] = srv[a].rev + 1
    BY <1>2, <2>1 DEF Due
  <2>3. PICK o : o = HeadOp(x)
    OBVIOUS
  <2>4. receipts'[o] # receipts[o] /\ o \in Ops /\ AreaOf[o] = a
    BY <1>2, <1>3, <2>2, <2>3
  <2>5. PICK m \in net : HandlesApplied(m) /\ m.op = o
    BY <2>4, ServiceReceipts
  <2>6. m.rev = srv[a].rev
    BY <2>4, <2>5 DEF HandlesApplied
  <2>7. m.rev <= x.confirmed
    BY <1>1, <1>2, <2>2, <2>3, <2>5, <2>6 DEF Known, Within
  <2>8. Due(x, srv[a].rev, receipts)
    BY <1>2, <2>6, <2>7 DEF Due
  <2> QED
    BY <1>1, <2>1, <2>8 DEF Sound
<1>7. CASE Edited(a)
  <2>1. x.queue # << >> => receipts'[HeadOp(x)] = receipts[HeadOp(x)]
    BY <1>3, <1>7 DEF Edited
  <2> QED
    BY <1>2, <1>3, <1>7, <2>1 DEF Edited, Due
<1> QED
  BY <1>4, <1>5, <1>6, <1>7

LEMMA ServiceInformed ==
  ASSUME Typed, Typed', Arranged, Dated, Informed, Fetched, Service
  PROVE  Informed' /\ Fetched'
<1>0. kept' = kept /\ UNCHANGED << areas, engine >>
  BY ServiceSteps
<1>1. ASSUME NEW a \in CloudAreas
      PROVE  Sound(areas[a], srv'[a], receipts', kept) /\ Known(areas[a], receipts', net')
  <2>1. a \in Areas /\ areas[a].confirmed \in Int
    BY AreaTyped DEF Areas, AreaType, Revs
  <2>2. Sound(areas[a], srv[a], receipts, kept) /\ Known(areas[a], receipts, net)
    BY DEF Informed
  <2>3. Sound(areas[a], srv'[a], receipts', kept)
    BY <2>2, SoundServed
  <2>4. ASSUME Within(areas[a], areas[a].confirmed, receipts, net)
        PROVE  Within(areas[a], areas[a].confirmed, receipts', net')
    BY <2>1, <2>4, WithinServed
  <2> QED
    BY <2>2, <2>3, <2>4 DEF Known
<1>2. Informed'
  BY <1>0, <1>1 DEF Informed
<1>3. Fetched'
  <2> SUFFICES ASSUME engine.at = "fetched"
               PROVE  Within(areas[engine.area],
                             Most(engine.doc.rev, areas[engine.area].confirmed),
                             receipts', net')
    BY <1>0 DEF Fetched
  <2>1. PICK a : a = engine.area
    OBVIOUS
  <2>2. a \in Areas /\ engine.doc.rev \in Int /\ areas[a].confirmed \in Int
    BY <2>1, AreaTyped DEF InHand, TaskType, EngineType, DocType, Revs, Areas, AreaType
  <2>3. PICK n : n = Most(engine.doc.rev, areas[a].confirmed)
    OBVIOUS
  <2>4. n \in Int
    BY <2>2, <2>3, MostOf
  <2>5. Within(areas[a], n, receipts, net)
    BY <2>1, <2>3 DEF Fetched
  <2> QED
    BY <2>1, <2>2, <2>3, <2>4, <2>5, WithinServed
<1> QED
  BY <1>2, <1>3

LEMMA ServiceClean ==
  ASSUME Typed, Arranged, Dated, NetClean, Service
  PROVE  NetClean'
<1>0. kept' = kept /\ net' \subseteq net
  BY ServiceSteps, ServiceNet
<1>1. ASSUME NEW m \in net', m.rev = srv'[AreaOf[m.op]].rev, receipts'[m.op] = NoRev,
             m.op \in srv'[AreaOf[m.op]].broken
      PROVE  m.op \in kept
  <2>1. PICK b : b = AreaOf[m.op]
    OBVIOUS
  <2>2. m \in net /\ m.op \in Ops /\ b \in Areas
    BY <1>0, <2>1, PendingAssumption DEF ServiceType
  <2>3. m.rev \in Int /\ m.rev <= srv[b].rev /\ srv[b].rev \in Int
    BY <2>1, <2>2, DatedArea DEF Dated, NetDated, ServiceType, Revs
  <2>4. Idles(b)
    BY <1>1, <2>1, <2>2, <2>3, ServiceSteps DEF Advanced, Edited
  <2>6. receipts[m.op] = NoRev
    <3>1. ASSUME receipts'[m.op] # receipts[m.op] PROVE receipts'[m.op] # NoRev
      <4>1. PICK k \in net : HandlesApplied(k) /\ k.op = m.op
        BY <2>2, <3>1, ServiceReceipts
      <4>2. receipts' = [receipts EXCEPT ![m.op] = srv[b].rev + 1]
        BY <2>1, <4>1 DEF HandlesApplied
      <4>3. srv[b].rev >= 1
        BY <2>2, DatedArea
      <4> QED
        BY <2>2, <2>3, <4>2, <4>3 DEF ServiceType, NoRev
    <3> QED
      BY <1>1, <3>1
  <2> QED
    BY <1>1, <2>1, <2>2, <2>4, <2>6 DEF NetClean, Idles
<1> QED
  BY <1>0, <1>1 DEF NetClean

LEMMA ServiceSilent ==
  ASSUME Typed, NetClean, NoSilentOverwrite, Service
  PROVE  NoSilentOverwrite'
<1>0. kept' = kept
  BY ServiceKeeps
<1>1. ASSUME NEW m \in net, ServiceHandles(m) PROVE overwrote' \subseteq kept
  <2>1. CASE HandlesApplied(m)
    <3>1. overwrote' = overwrote \cup ({m.op} \cap srv[AreaOf[m.op]].broken)
      BY <2>1 DEF HandlesApplied
    <3>2. m.op \in srv[AreaOf[m.op]].broken => m.op \in kept
      BY <2>1 DEF HandlesApplied, NetClean
    <3> QED
      BY <3>1, <3>2 DEF NoSilentOverwrite
  <2>2. CASE overwrote' = overwrote
    BY <2>2 DEF NoSilentOverwrite
  <2> QED
    BY <1>1, <2>1, <2>2, HandlesOnce
<1>2. CASE overwrote' = overwrote
  BY <1>0, <1>2 DEF NoSilentOverwrite
<1> QED
  BY <1>0, <1>1, <1>2 DEF Service, ServiceRefuses, RequestTimesOut, ServiceDeletes,
     ForeignEdit, AccessChanges, NoSilentOverwrite

-----------------------------------------------------------------------------
\* The invariant of the reviews.

Reviewing ==
  /\ Docs /\ Receipts /\ Down /\ Informed /\ Fetched
  /\ SessionWhole /\ NetClean /\ NoSilentOverwrite

LEMMA StepWhole == ASSUME Typed, Dated, SessionWhole, [Next]_vars PROVE SessionWhole'
<1> SUFFICES ASSUME NEW a \in SessionAreas PROVE srv'[a].broken = {}
  BY DEF SessionWhole
<1>1. a \in Areas /\ a \notin CloudAreas
  BY PendingAssumption DEF Areas
<1>2. Idles(a) \/ Advanced(a)
  BY <1>1, StepBroken DEF Edited
<1> QED
  BY <1>2 DEF SessionWhole, Idles, Advanced

LEMMA ClientReviewing ==
  ASSUME Typed, Typed', Arranged, Flight, Held, Dated, LaneOrder, Reviewing,
         Editor \/ Rebuilds \/ Worker \/ Engine \/ Deletion, Next,
         [RowsBringNoNews]_vars, ReviewsStand, ReviewsFirst, DocumentsAdvance
  PROVE  Informed' /\ Fetched' /\ NetClean' /\ NoSilentOverwrite'
<1>1. GoesOn
  BY EditorGoes, RebuildsGo, WorkerGoes, EngineGoes, DeletionGoes DEF Reviewing
<1>2. kept \subseteq kept' /\ overwrote' = overwrote
  BY ClientStands
<1>3. Moved
  BY <1>1, <1>2, ClientMoved DEF Reviewing
<1>4. FetchedMoved
  BY <1>1, ClientFetched DEF Reviewing
<1>5. Informed' /\ Fetched'
  BY <1>3, <1>4, InformedMoves
<1>6. NetClean'
  BY ClientClean DEF Reviewing
<1>7. NoSilentOverwrite'
  BY <1>2 DEF Reviewing, NoSilentOverwrite
<1> QED
  BY <1>5, <1>6, <1>7

\* An area that is empty knows nothing.
LEMMA EmptyInformed ==
  ASSUME NEW s, s.rev \in Int, s.rev >= 1, NEW rc, NEW kp, NEW ms
  PROVE  Sound(EmptyArea, s, rc, kp) /\ Known(EmptyArea, rc, ms)
<1>1. EmptyArea.queue = << >> /\ EmptyArea.confirmed = NoRev
  BY DEF EmptyArea
<1> QED
  BY <1>1 DEF Sound, Due, Known, Within, NoRev

LEMMA CrashReviewing ==
  ASSUME Typed, Dated, Reviewing, Crash
  PROVE  Informed' /\ Fetched' /\ NetClean' /\ NoSilentOverwrite'
<1>1. ServiceStands /\ kept' = kept
  BY CrashStands
<1>2. Informed'
  <2> SUFFICES ASSUME NEW a \in CloudAreas
               PROVE  /\ Sound(areas'[a], srv'[a], receipts', kept')
                      /\ Known(areas'[a], receipts', net')
    BY DEF Informed
  <2>1. a \in Areas /\ areas'[a] = EmptyArea
    BY DEF Crash, Areas
  <2>2. srv'[a].rev \in Int /\ srv'[a].rev >= 1
    BY <1>1, <2>1, DatedArea DEF ServiceStands
  <2> QED
    BY <2>1, <2>2, EmptyInformed
<1>3. Fetched'
  BY DEF Crash, Fetched, IdleEngine
<1>4. NetClean'
  <2> SUFFICES ASSUME NEW m \in net', m.rev = srv'[AreaOf[m.op]].rev,
                      receipts'[m.op] = NoRev, m.op \in srv'[AreaOf[m.op]].broken
               PROVE  m.op \in kept'
    BY DEF NetClean
  <2>1. m \in net
    BY DEF Crash
  <2>2. AreaOf[m.op] \in Areas
    BY <2>1, PendingAssumption DEF ServiceType
  <2> QED
    BY <1>1, <2>1, <2>2 DEF Reviewing, NetClean, ServiceStands
<1>5. NoSilentOverwrite'
  BY <1>1 DEF Reviewing, NoSilentOverwrite, ServiceStands
<1> QED
  BY <1>2, <1>3, <1>4, <1>5

LEMMA OutageReviewing ==
  ASSUME Typed, Arranged, Dated, Reviewing, Outage
  PROVE  Informed' /\ Fetched' /\ NetClean' /\ NoSilentOverwrite'
<1>1. /\ UNCHANGED << areas, srv, kept, overwrote, engine >> /\ net' = {}
      /\ receipts' = [o \in Ops |-> NoRev]
  BY DEF Outage
<1>2. \A a \in Areas : areas[a].queue # << >> => receipts'[HeadOp(areas[a])] = NoRev
  BY <1>1, HeadMade
<1>3. \A a \in Areas : \A n : Within(areas[a], n, receipts', net')
  BY <1>1, <1>2 DEF Within
<1>4. Informed'
  <2> SUFFICES ASSUME NEW a \in CloudAreas
               PROVE  /\ Sound(areas[a], srv[a], receipts', kept)
                      /\ Known(areas[a], receipts', net')
    BY <1>1 DEF Informed
  <2>1. a \in Areas
    BY DEF Areas
  <2>2. srv[a].rev \in Int /\ srv[a].rev >= 1
    BY <2>1, DatedArea
  <2>3. Due(areas[a], srv[a].rev, receipts') => Due(areas[a], srv[a].rev, receipts)
    BY <1>2, <2>1, <2>2 DEF Due, NoRev
  <2> QED
    BY <1>3, <2>1, <2>3 DEF Reviewing, Informed, Sound, Known
<1>5. Fetched'
  <2>1. engine.at = "fetched" => engine.area \in Areas
    BY DEF InHand, Areas
  <2> QED
    BY <1>1, <1>3, <2>1 DEF Fetched
<1>6. NetClean' /\ NoSilentOverwrite'
  BY <1>1 DEF NetClean, Reviewing, NoSilentOverwrite
<1> QED
  BY <1>4, <1>5, <1>6

LEMMA StillReviewing ==
  ASSUME Reviewing, UNCHANGED << areas, srv, receipts, net, kept, overwrote, engine >>
  PROVE  Informed' /\ Fetched' /\ NetClean' /\ NoSilentOverwrite'
  BY DEF Reviewing, Informed, Fetched, NetClean, NoSilentOverwrite

LEMMA StepReviewing ==
  ASSUME Typed, Arranged, Flight, Held, Dated, LaneOrder, Reviewing, [Next]_vars,
         [RowsBringNoNews]_vars, [ReviewsStand]_vars, [ReviewsFirst]_vars,
         [DocumentsAdvance]_vars
  PROVE  Reviewing'
<1>0. Typed'
  BY StepTyped
<1>1. Docs' /\ Receipts' /\ Down' /\ SessionWhole'
  BY StepDocs, StepReceipts, StepDown, StepWhole DEF Reviewing
<1>2. Informed' /\ Fetched' /\ NetClean' /\ NoSilentOverwrite'
  <2>1. CASE UNCHANGED vars
    BY <2>1, StillReviewing DEF vars
  <2>2. CASE Editor \/ Rebuilds \/ Worker \/ Engine \/ Deletion
    <3>1. CASE vars' # vars
      <4>1. ReviewsStand /\ ReviewsFirst /\ DocumentsAdvance
        BY <3>1
      <4>2. Next
        BY <3>1
      <4> QED
        BY <1>0, <2>2, <4>1, <4>2, ClientReviewing
    <3> QED
      BY <2>1, <3>1
  <2>3. CASE Service
    BY <1>0, <2>3, ServiceInformed, ServiceClean, ServiceSilent DEF Reviewing
  <2>4. CASE Crash
    BY <2>4, CrashReviewing
  <2>5. CASE Outage
    BY <2>5, OutageReviewing
  <2>6. CASE Restart \/ RequestSync \/ Login
    BY <2>6, StillReviewing DEF Restart, RequestSync, Login
  <2> QED
    BY <2>1, <2>2, <2>3, <2>4, <2>5, <2>6 DEF Next, Process
<1> QED
  BY <1>1, <1>2 DEF Reviewing

LEMMA InitReviewing == Init => Reviewing
<1> SUFFICES ASSUME Init PROVE Reviewing
  OBVIOUS
<1>1. worker.at = "run" /\ engine.at = "idle"
  <2>1. engine.at = "idle"
    BY DEF Init, IdleEngine
  <2> QED
    BY <2>1 DEF Init, IdleWorker
<1>2. ASSUME NEW a \in Areas
      PROVE  areas[a].phase = Ready /\ areas[a].queue = << >> /\ areas[a].view = {}
             /\ srv[a].broken = {}
  BY <1>2 DEF Init, EmptyArea
<1>3. Ready.kind = "Ready"
  BY PhaseFields
<1>4. Docs /\ Receipts /\ Down
  BY <1>1, <1>2, <1>3 DEF Init, Docs, Receipts, Down
<1>5. Informed
  BY <1>2 DEF Informed, Sound, Clear, Queued, Known, Within, Areas
<1>6. Fetched /\ SessionWhole /\ NetClean /\ NoSilentOverwrite
  BY <1>1, <1>2 DEF Init, Fetched, SessionWhole, NetClean, NoSilentOverwrite, Areas
<1> QED
  BY <1>4, <1>5, <1>6 DEF Reviewing

\* No edit replaces what another client made of the map, unless a review let it:
\* a head is sent for the revision of the document on screen, every adopted document
\* folds the queue and puts up for review what it rules out (adopt_document,
\* replay_area_over_document), and a review is resolved before its edit goes.
\* The four conditions name the steps by which the code lets one slip through.
THEOREM NothingSilentlyOverwritten ==
  Spec /\ [][RowsBringNoNews]_vars /\ [][ReviewsStand]_vars /\ [][ReviewsFirst]_vars
       /\ [][DocumentsAdvance]_vars => []NoSilentOverwrite
<1>1. Init => Reviewing
  BY InitReviewing
<1>2. Typed /\ Own /\ Arranged /\ Flight /\ Held /\ Dated /\ Seats /\ LaneOrder /\ Reviewing
        /\ [Next]_vars /\ [RowsBringNoNews]_vars /\ [ReviewsStand]_vars
        /\ [ReviewsFirst]_vars /\ [DocumentsAdvance]_vars => Reviewing'
  BY StepReviewing
<1>3. Reviewing => NoSilentOverwrite
  BY DEF Reviewing
<1> HIDE DEF Typed
<1> QED
  BY <1>1, <1>2, <1>3, OrderInvariant, PTL DEF Spec

-----------------------------------------------------------------------------
\* What the save status counts: the queued edits that are not parked, and the
\* delete that is on the wire.

ParkIn(x) == IF x.phase.kind = "Failed" THEN {x.phase.op} ELSE {}
OpenIn(x) == Queued(x) \ ParkIn(x)
OpenEdits == UNION { OpenIn(areas[a]) : a \in Areas }
Waits == IF del.at = "wire" THEN 1 ELSE 0

\* From x to y no edit parks and no parked one reopens.
SamePark(x, y) ==
  y.phase = x.phase \/ (x.phase.kind # "Failed" /\ y.phase.kind # "Failed")

\* Records that are replayed after the service has forgotten them are never sent.
NothingExpires == expired = {}

Balanced == unsettled = Cardinality(OpenEdits) + Waits

LEMMA OpenTyped ==
  ASSUME Typed
  PROVE  /\ OpenEdits \in SUBSET Ops /\ IsFiniteSet(OpenEdits)
         /\ Cardinality(OpenEdits) \in Nat /\ Waits \in {0, 1} /\ unsettled \in Int
<1>1. OpenEdits \in SUBSET Ops
  BY AreaTyped DEF OpenEdits, OpenIn
<1>2. IsFiniteSet(OpenEdits)
  BY <1>1, FinitelyManyOps
<1> QED
  BY <1>1, <1>2, FS_CardinalityType DEF Waits, StatType

\* An open edit is in its own map.
LEMMA OpenPlaced ==
  ASSUME Typed, Arranged, NEW a \in Areas, NEW o
  PROVE  o \in OpenIn(areas[a]) => o \in Ops /\ AreaOf[o] = a
  BY AreaTyped DEF OpenIn, Arranged, QueueMade

LEMMA OpenAt ==
  ASSUME Typed, Arranged, NEW o
  PROVE  o \in OpenEdits <=> o \in Ops /\ AreaOf[o] \in Areas /\ o \in OpenIn(areas[AreaOf[o]])
<1>1. o \in OpenEdits <=> \E a \in Areas : o \in OpenIn(areas[a])
  BY DEF OpenEdits
<1> QED
  BY <1>1, OpenPlaced

\* CountsBalance, with each map's parked head taken out of its own queue.
LEMMA BalanceMeans ==
  ASSUME Typed, Arranged, NothingExpires
  PROVE  CountsBalance <=> Balanced
<1> DEFINE Q == UNION { Queued(areas[a]) : a \in Areas }
           L == Q \ (ParkedEdits \cup expired)
<1> HIDE DEF Typed
<1>1. ASSUME NEW a \in Areas, areas[a].phase.kind = "Failed"
      PROVE  areas[a].phase.op \in Queued(areas[a]) /\ AreaOf[areas[a].phase.op] = a
  <2>1. areas[a].queue # << >> /\ HeadOp(areas[a]) = areas[a].phase.op
    BY <1>1, FitsNonempty DEF Arranged, PhasesFit
  <2>2. areas[a].queue \in Seq(Ops)
    BY AreaTyped
  <2>3. HeadOp(areas[a]) \in Queued(areas[a])
    BY <2>1, <2>2 DEF HeadOp, Queued
  <2> QED
    BY <2>1, <2>3 DEF Arranged, QueueMade
<1>2. \A o : o \in Q <=> \E a \in Areas : o \in Queued(areas[a])
  OBVIOUS
<1> HIDE DEF Q
<1>3. L = Q \ ParkedEdits
  <2>1. expired = {}
    BY DEF NothingExpires
  <2>2. L = Q \ (ParkedEdits \cup expired)
    BY DEF L
  <2> HIDE DEF L
  <2> QED
    BY <2>1, <2>2
<1> HIDE DEF L
<1>4. ASSUME NEW o \in OpenEdits PROVE o \in L
  <2>1. PICK a \in Areas : o \in OpenIn(areas[a])
    BY DEF OpenEdits
  <2>2. o \in Queued(areas[a]) /\ o \notin ParkIn(areas[a]) /\ AreaOf[o] = a
    BY <2>1, OpenPlaced DEF OpenIn
  <2>3. o \notin ParkedEdits
    BY <1>1, <2>2 DEF ParkedEdits, ParkIn
  <2> QED
    BY <1>2, <1>3, <2>2, <2>3
<1>5. ASSUME NEW o \in L PROVE o \in OpenEdits
  <2>1. o \in Q /\ o \notin ParkedEdits
    BY <1>3
  <2>2. PICK a \in Areas : o \in Queued(areas[a])
    BY <1>2, <2>1
  <2>3. o \notin ParkIn(areas[a])
    BY <2>1 DEF ParkedEdits, ParkIn
  <2> QED
    BY <2>2, <2>3 DEF OpenEdits, OpenIn
<1>6. L = OpenEdits
  BY <1>4, <1>5
<1> QED
  BY <1>6 DEF CountsBalance, Balanced, Waits, L, Q

-----------------------------------------------------------------------------
\* What a step does to the open edits.

LEMMA SameOpen ==
  ASSUME NEW x, NEW y, Queued(y) = Queued(x), SamePark(x, y)
  PROVE  OpenIn(y) = OpenIn(x)
  BY DEF OpenIn, ParkIn, SamePark

\* No edit comes, goes, parks or reopens.
LEMMA BalanceStays ==
  ASSUME Balanced, unsettled' = unsettled, Waits' = Waits,
         \A a \in Areas : OpenIn(areas'[a]) = OpenIn(areas[a])
  PROVE  Balanced'
<1>1. OpenEdits' = OpenEdits
  BY DEF OpenEdits
<1> QED
  BY <1>1 DEF Balanced

LEMMA BalanceLoses ==
  ASSUME Typed, Arranged, Balanced, NEW a \in Areas, NEW o \in OpenIn(areas[a]),
         OpenIn(areas'[a]) = OpenIn(areas[a]) \ {o},
         \A b \in Areas : b # a => OpenIn(areas'[b]) = OpenIn(areas[b]),
         unsettled' = unsettled - 1, Waits' = Waits
  PROVE  Balanced'
<1>1. OpenEdits' = OpenEdits \ {o} /\ o \in OpenEdits
  <2>1. o \in OpenEdits /\ \A b \in Areas : b # a => o \notin OpenIn(areas[b])
    BY OpenPlaced DEF OpenEdits
  <2> QED
    BY <2>1 DEF OpenEdits
<1>2. Cardinality(OpenEdits') = Cardinality(OpenEdits) - 1
  BY <1>1, OpenTyped, FS_RemoveElement
<1> QED
  BY <1>2, OpenTyped DEF Balanced

LEMMA BalanceGains ==
  ASSUME Typed, Arranged, Balanced, NEW a \in Areas, NEW o \in Ops, AreaOf[o] = a,
         o \notin OpenIn(areas[a]),
         OpenIn(areas'[a]) = OpenIn(areas[a]) \cup {o},
         \A b \in Areas : b # a => OpenIn(areas'[b]) = OpenIn(areas[b]),
         unsettled' = unsettled + 1, Waits' = Waits
  PROVE  Balanced'
<1>1. OpenEdits' = OpenEdits \cup {o} /\ o \notin OpenEdits
  <2>1. o \notin OpenEdits
    BY OpenAt
  <2> QED
    BY <2>1 DEF OpenEdits
<1>2. Cardinality(OpenEdits') = Cardinality(OpenEdits) + 1
  BY <1>1, OpenTyped, FS_AddElement
<1> QED
  BY <1>2, OpenTyped DEF Balanced

\* A map's open edits go, all at once.
LEMMA OpenEmptied ==
  ASSUME Typed, Arranged, NEW a \in Areas, OpenIn(areas'[a]) = {},
         \A b \in Areas : b # a => OpenIn(areas'[b]) = OpenIn(areas[b])
  PROVE  /\ Cardinality(OpenEdits') = Cardinality(OpenEdits) - Cardinality(OpenIn(areas[a]))
         /\ Cardinality(OpenIn(areas[a])) \in Nat
<1>1. OpenEdits' = OpenEdits \ OpenIn(areas[a]) /\ OpenIn(areas[a]) \subseteq OpenEdits
  <2>1. \A b \in Areas : b # a => OpenIn(areas[b]) \cap OpenIn(areas[a]) = {}
    BY OpenPlaced
  <2> QED
    BY <2>1 DEF OpenEdits
<1>2. OpenEdits \cap OpenIn(areas[a]) = OpenIn(areas[a]) /\ IsFiniteSet(OpenIn(areas[a]))
  BY <1>1, OpenTyped, FS_Subset
<1>3. Cardinality(OpenEdits \ OpenIn(areas[a]))
        = Cardinality(OpenEdits) - Cardinality(OpenEdits \cap OpenIn(areas[a]))
  BY OpenTyped, FS_Difference
<1> QED
  BY <1>1, <1>2, <1>3, FS_CardinalityType

\* The queues stay, and so do the parks.
LEMMA BalanceKept ==
  ASSUME Balanced, UNCHANGED << unsettled, del >>,
         \A a \in Areas : /\ areas'[a].queue = areas[a].queue
                          /\ SamePark(areas[a], areas'[a])
  PROVE  Balanced'
<1>1. \A a \in Areas : Queued(areas'[a]) = Queued(areas[a])
  BY DEF Queued
<1> QED
  BY <1>1, SameOpen, BalanceStays DEF Waits

LEMMA BalanceIdle ==
  ASSUME Balanced, UNCHANGED << unsettled, del, areas >>
  PROVE  Balanced'
  BY BalanceKept DEF SamePark

\* An edit that was not parked leaves.
LEMMA BalanceLeaves ==
  ASSUME Typed, Arranged, Balanced, NEW a \in Areas, NEW o, EditLeaves(a, o),
         o \notin ParkIn(areas[a]), SamePark(areas[a], areas'[a]),
         unsettled' = unsettled - 1, del' = del
  PROVE  Balanced'
<1>1. o \in OpenIn(areas[a]) /\ OpenIn(areas'[a]) = OpenIn(areas[a]) \ {o}
  BY DEF EditLeaves, OpenIn, ParkIn, SamePark
<1>2. \A b \in Areas : b # a => OpenIn(areas'[b]) = OpenIn(areas[b])
  BY DEF EditLeaves
<1> QED
  BY <1>1, <1>2, BalanceLoses DEF Waits

\* A head parks.
LEMMA BalanceParks ==
  ASSUME Typed, Arranged, Balanced, NEW a \in Areas, areas[a].queue # << >>,
         \A b \in Areas : b # a => areas'[b] = areas[b],
         areas'[a].queue = areas[a].queue, areas[a].phase.kind # "Failed",
         areas'[a].phase.kind = "Failed", areas'[a].phase.op = HeadOp(areas[a]),
         unsettled' = unsettled - 1, del' = del
  PROVE  Balanced'
<1> DEFINE o == HeadOp(areas[a])
<1>1. o \in Queued(areas[a]) /\ Queued(areas'[a]) = Queued(areas[a])
  BY AreaTyped DEF HeadOp, Queued
<1>2. o \in OpenIn(areas[a]) /\ OpenIn(areas'[a]) = OpenIn(areas[a]) \ {o}
  BY <1>1 DEF OpenIn, ParkIn
<1> QED
  BY <1>2, BalanceLoses DEF Waits

\* A parked head reopens.
LEMMA BalanceReopens ==
  ASSUME Typed, Arranged, Balanced, NEW a \in Areas,
         \A b \in Areas : b # a => areas'[b] = areas[b],
         areas'[a].queue = areas[a].queue, areas[a].phase.kind = "Failed",
         areas'[a].phase.kind # "Failed", unsettled' = unsettled + 1, del' = del
  PROVE  Balanced'
<1> DEFINE o == areas[a].phase.op
<1>1. areas[a].queue # << >> /\ HeadOp(areas[a]) = o
  BY FitsNonempty DEF Arranged, PhasesFit
<1>2. o \in Queued(areas[a]) /\ Queued(areas'[a]) = Queued(areas[a])
  BY <1>1, AreaTyped DEF HeadOp, Queued
<1>3. o \in Ops /\ AreaOf[o] = a
  BY <1>2, AreaTyped DEF Arranged, QueueMade
<1>4. o \notin OpenIn(areas[a]) /\ OpenIn(areas'[a]) = OpenIn(areas[a]) \cup {o}
  BY <1>2 DEF OpenIn, ParkIn
<1> QED
  BY <1>3, <1>4, BalanceGains DEF Waits

-----------------------------------------------------------------------------
\* The conditions.

\* A sign-in brings back the edits that leave, and those only that were not
\* counted before; no head is parked then.
SignInsCarryOver ==
  engine.at = "activating" /\ engine'.at = "rows" =>
    /\ UNION { Queued(areas[a]) : a \in CloudAreas } = engine.loaded \cap accounted
    /\ \A a \in CloudAreas : areas[a].phase.kind # "Failed"

\* A map whose base could not be fetched stays parked until it is.
BasesParked == \A a \in Areas : areas[a].baseFailed => areas[a].phase.kind = "Failed"

\* A base fails under a head that is not parked.
BasesFailOnce ==
  \A a \in Areas : ~areas[a].baseFailed /\ areas'[a].baseFailed => areas[a].phase.kind # "Failed"

\* A map that goes had no parked head.
DeletesSpareParked ==
  \A a \in CloudAreas, n \in {0, 1} : CommitDelete(a, n) => areas[a].phase.kind # "Failed"

-----------------------------------------------------------------------------
\* The transitions of a lane, when nothing has expired.

LEMMA ParkNever ==
  ASSUME NothingExpires, NEW area
  PROVE  ParkExpiredHead(area, expired) = area
  BY DEF ParkExpiredHead, NothingExpires

LEMMA ResumeOpen ==
  ASSUME NothingExpires, NEW area \in AreaType
  PROVE  ResumeWithDeferredConflict(area, expired).phase.kind # "Failed"
<1> DEFINE opened == [area EXCEPT !.phase = Ready]
           found == IF area.deferred \in Queued(area) THEN Conflict(area.deferred) ELSE Ready
           y == ResumeWithDeferredConflict(area, expired)
<1>1. opened \in AreaType /\ opened.phase = Ready /\ opened.queue = area.queue
  BY FieldTypes, PhaseTypes DEF AreaType
<1>2. ParkExpiredHead(opened, expired) = opened
  BY ParkNever
<1>3. y = [opened EXCEPT !.deferred = NoOp, !.phase = found]
  <2> HIDE DEF found
  <2> QED
    BY <1>1, <1>2 DEF ResumeWithDeferredConflict, found
<1> HIDE DEF y, opened
<1>4. y.phase = found
  BY <1>1, <1>3 DEF AreaType
<1> QED
  BY <1>4, PhaseFields DEF y

LEMMA RecordPark ==
  ASSUME NEW area \in AreaType, NEW failed
  PROVE  SamePark(area, RecordReplay(area, failed))
<1> DEFINE found == IF failed \in Queued(area) THEN failed ELSE NoOp
           y == RecordReplay(area, failed)
<1> HIDE DEF found
<1>1. \/ y.phase = area.phase
      \/ y.phase = Conflict(found) /\ area.phase.kind # "Failed"
  BY DEF RecordReplay, found, AreaType
<1> HIDE DEF y
<1> QED
  BY <1>1, PhaseFields DEF SamePark, y

LEMMA ReplayPark ==
  ASSUME NEW area \in AreaType, NEW doc \in DocType
  PROVE  SamePark(area, ReplayOver(area, doc))
<1> DEFINE x == Adopt(area, doc)
<1>1. x \in AreaType /\ x.phase = area.phase
  BY AdoptType DEF Adopt, AreaType
<1> HIDE DEF x
<1>2. SamePark(x, RecordReplay(x, FirstFailed(area, doc)))
  BY <1>1, RecordPark
<1> QED
  BY <1>1, <1>2 DEF SamePark, ReplayOver, x

\* A cancelled edit was not parked, and leaves a park as it was.
LEMMA CancelPark ==
  ASSUME NothingExpires, expired \in SUBSET Ops, NEW area \in AreaType, NEW o \in Ops,
         Fits(area), Cancellable(area, o)
  PROVE  SamePark(area, CancelIn(area, o, expired)) /\ o \notin ParkIn(area)
<1> DEFINE removed == [area EXCEPT
                        !.queue = Remove(@, o),
                        !.deferred = IF @ = o THEN NoOp ELSE @]
           resumed == IF o = HeadOp(area)
                        THEN ResumeWithDeferredConflict(removed, expired)
                        ELSE removed
           y == CancelIn(area, o, expired)
<1>1. removed \in AreaType /\ removed.phase = area.phase
  <2>1. Remove(area.queue, o) \in Seq(Ops)
    BY RemoveType, FieldTypes
  <2> QED
    BY <2>1 DEF AreaType
<1>2. y = IF resumed.phase = Conflict(o) THEN [resumed EXCEPT !.phase = Ready] ELSE resumed
  BY DEF CancelIn
<1> HIDE DEF removed
<1>3. resumed \in AreaType
  BY <1>1, ResumeType
<1>4. SamePark(area, resumed)
  <2>1. CASE o = HeadOp(area)
    <3>1. resumed.phase.kind # "Failed"
      BY <1>1, <2>1, ResumeOpen
    <3>2. area.phase.kind # "Failed"
      BY <2>1, PhaseFields DEF Cancellable
    <3> QED
      BY <3>1, <3>2 DEF SamePark
  <2>2. CASE o # HeadOp(area)
    BY <1>1, <2>2 DEF SamePark
  <2> QED
    BY <2>1, <2>2
<1> HIDE DEF resumed, y
<1>5. SamePark(area, y)
  <2>1. CASE resumed.phase = Conflict(o)
    <3>1. y.phase = Ready
      BY <1>2, <1>3, <2>1 DEF AreaType
    <3> QED
      BY <1>4, <2>1, <3>1, PhaseFields DEF SamePark
  <2>2. CASE resumed.phase # Conflict(o)
    BY <1>2, <1>4, <2>2
  <2> QED
    BY <2>1, <2>2
<1>6. o \notin ParkIn(area)
  BY PhaseFields DEF ParkIn, Fits, Cancellable
<1> QED
  BY <1>5, <1>6 DEF y

LEMMA PopPark ==
  ASSUME NothingExpires, NEW area \in AreaType, NEW rev \in Revs
  PROVE  PopAcknowledged(area, rev, expired).phase.kind # "Failed"
<1> DEFINE x == [area EXCEPT !.queue = Pop(@)]
<1>1. x \in AreaType
  BY PopType, FieldTypes DEF AreaType
<1>2. Confirm(x, rev) \in AreaType
  BY <1>1, ConfirmType
<1> QED
  BY <1>2, ResumeOpen DEF PopAcknowledged

-----------------------------------------------------------------------------
\* The editor.

LEMMA StageBalanced ==
  ASSUME Typed, Arranged, Balanced, Stage PROVE Balanced'
<1> DEFINE o == nextOp  a == AreaOf[o]
<1>1. o \in Ops /\ a \in Areas /\ Staged(a, o)
  BY StageStaged
<1>2. unsettled' = unsettled + 1 /\ del' = del
  BY DEF Stage
<1>3. o \notin Queued(areas[a]) /\ o \notin ParkIn(areas[a])
  <2>1. o \notin Queued(areas[a])
    BY <1>1, AreaTyped DEF Arranged, QueueMade, Ops
  <2>2. areas[a].phase.kind = "Failed" => areas[a].phase.op \in Queued(areas[a])
    BY <1>1, FitsNonempty, AreaTyped DEF Arranged, PhasesFit, HeadOp, Queued
  <2> QED
    BY <2>1, <2>2 DEF ParkIn
<1> HIDE DEF a, o
<1>4. OpenIn(areas'[a]) = OpenIn(areas[a]) \cup {o} /\ o \notin OpenIn(areas[a])
  BY <1>1, <1>3 DEF Staged, OpenIn, ParkIn
<1>5. \A b \in Areas : b # a => OpenIn(areas'[b]) = OpenIn(areas[b])
  BY <1>1 DEF Staged
<1>6. AreaOf[o] = a
  BY DEF a, o
<1> QED
  BY <1>1, <1>2, <1>4, <1>5, <1>6, BalanceGains DEF Waits

LEMMA CancelBalanced ==
  ASSUME Typed, Arranged, NothingExpires, Balanced, NEW o \in Ops, Cancel(o) PROVE Balanced'
<1> DEFINE a == AreaOf[o]
<1>1. a \in Areas /\ EditLeaves(a, o)
  BY CancelLeaves
<1>2. Cancellable(areas[a], o) /\ SetArea(a, CancelIn(areas[a], o, expired))
      /\ unsettled' = unsettled - 1 /\ del' = del
  BY DEF Cancel
<1>3. areas'[a] = CancelIn(areas[a], o, expired)
  BY <1>1, <1>2 DEF SetArea, QueueType
<1>4. areas[a] \in AreaType /\ expired \in SUBSET Ops
  BY <1>1 DEF QueueType
<1>5. SamePark(areas[a], areas'[a]) /\ o \notin ParkIn(areas[a])
  BY <1>1, <1>2, <1>3, <1>4, CancelPark DEF Arranged, PhasesFit
<1> QED
  BY <1>1, <1>2, <1>5, BalanceLeaves

LEMMA RetryBalanced ==
  ASSUME Typed, Arranged, Balanced, NEW a \in Areas, Retry(a) PROVE Balanced'
<1> DEFINE x == [areas[a] EXCEPT !.phase = Ready, !.baseFailed = FALSE]
<1>1. x.queue = areas[a].queue /\ x.phase = Ready
  BY AreaTyped DEF AreaType
<1>2. areas' = [areas EXCEPT ![a] = x] /\ areas \in [Areas -> AreaType]
  BY DEF Retry, SetArea, QueueType
<1> HIDE DEF x
<1>3. areas'[a] = x /\ \A b \in Areas : b # a => areas'[b] = areas[b]
  BY <1>2
<1>4. areas[a].phase.kind = "Failed" /\ unsettled' = unsettled + 1 /\ del' = del
  BY DEF Retry
<1>5. areas'[a].phase.kind # "Failed"
  BY <1>1, <1>3, PhaseFields
<1> QED
  BY <1>1, <1>3, <1>4, <1>5, BalanceReopens

LEMMA DiscardBalanced ==
  ASSUME Typed, Arranged, NothingExpires, Balanced, NEW a \in Areas, Discard(a) PROVE Balanced'
<1> DEFINE o == areas[a].phase.op
           w == [areas[a] EXCEPT !.queue = Remove(@, o)]
<1>1. EditLeaves(a, o)
  BY DiscardLeaves
<1>2. areas[a].phase.kind = "Failed" /\ unsettled' = unsettled /\ del' = del
      /\ SetArea(a, ResumeWithDeferredConflict(w, expired))
  BY DEF Discard
<1>3. w \in AreaType
  <2>1. areas[a] \in AreaType /\ Remove(areas[a].queue, o) \in Seq(Ops)
    BY AreaTyped, RemoveType
  <2> QED
    BY <2>1, FieldTypes DEF AreaType
<1> HIDE DEF w
<1>4. areas'[a].phase.kind # "Failed"
  BY <1>2, <1>3, ResumeOpen DEF SetArea, QueueType
<1>5. OpenIn(areas'[a]) = OpenIn(areas[a])
  BY <1>1, <1>2, <1>4 DEF EditLeaves, OpenIn, ParkIn
<1>6. \A b \in Areas : OpenIn(areas'[b]) = OpenIn(areas[b])
  BY <1>1, <1>5 DEF EditLeaves
<1> QED
  BY <1>2, <1>6, BalanceStays DEF Waits

LEMMA KeepTheirsBalanced ==
  ASSUME Typed, Arranged, Balanced, NEW a \in Areas, KeepTheirs(a) PROVE Balanced'
<1> DEFINE o == areas[a].phase.op
           x == [areas[a] EXCEPT !.phase = Ready, !.queue = Remove(@, o)]
<1>1. EditLeaves(a, o)
  BY KeepTheirsLeaves
<1>2. areas[a].phase.kind = "Conflict" /\ unsettled' = unsettled - 1 /\ del' = del
      /\ SetArea(a, x)
  BY DEF KeepTheirs
<1>3. x.phase = Ready
  BY AreaTyped DEF AreaType
<1> HIDE DEF x
<1>4. areas'[a].phase.kind # "Failed"
  BY <1>2, <1>3, PhaseFields DEF SetArea, QueueType
<1> QED
  BY <1>1, <1>2, <1>4, BalanceLeaves DEF ParkIn, SamePark

LEMMA EditorBalanced ==
  ASSUME Typed, Arranged, NothingExpires, Balanced, Editor PROVE Balanced'
<1>1. CASE Publish \/ \E a \in Areas : KeepMine(a)
  BY <1>1, BalanceIdle DEF Publish, KeepMine
<1> QED
  BY <1>1, StageBalanced, CancelBalanced, RetryBalanced, DiscardBalanced, KeepTheirsBalanced
     DEF Editor


-----------------------------------------------------------------------------
\* The rebuilds.

\* One map changes, and neither its queue nor its park.
LEMMA BalanceSet ==
  ASSUME Typed, Balanced, NEW a \in Areas, NEW x, SetArea(a, x),
         x.queue = areas[a].queue, SamePark(areas[a], x), UNCHANGED << unsettled, del >>
  PROVE  Balanced'
<1>1. areas' = [areas EXCEPT ![a] = x] /\ areas \in [Areas -> AreaType]
  BY DEF SetArea, QueueType
<1>2. \A b \in Areas : SamePark(areas[b], areas[b])
  BY DEF SamePark
<1> QED
  BY <1>1, <1>2, BalanceKept

LEMMA ParkTrans ==
  ASSUME NEW x, NEW y, NEW z, SamePark(x, y), SamePark(y, z)
  PROVE  SamePark(x, z)
  BY DEF SamePark

LEMMA ResendPark ==
  ASSUME NEW area \in AreaType, NEW k
  PROVE  SamePark(area, ReadyResend(area, k))
<1> DEFINE y == ReadyResend(area, k)
<1>1. \/ y = area
      \/ area.phase.kind = "Conflict" /\ y.phase = Ready
  BY DEF ReadyResend, AreaType
<1> HIDE DEF y
<1> QED
  BY <1>1, PhaseFields DEF SamePark, y

LEMMA RebuildsBalanced == ASSUME Typed, Balanced, Rebuilds PROVE Balanced'
<1>1. PICK r \in rebuilds : RebuildFetch(r) \/ RebuildApply(r)
  BY DEF Rebuilds
<1> DEFINE a == r.area
           folded == IF ~IdentityActive(r.gen) THEN areas[a]
                     ELSE IF r.keep THEN Adopt(areas[a], r.doc)
                     ELSE ReplayOver(areas[a], r.doc)
<1>2. a \in Areas /\ r.doc \in DocType /\ areas[a] \in AreaType
  BY DEF TaskType, RebuildType, QueueType
<1>3. UNCHANGED << unsettled, del >>
  BY <1>1 DEF RebuildFetch, RebuildApply
<1>4. CASE RebuildFetch(r)
  <2>1. areas' = areas \/ SetArea(a, ReadyResend(areas[a], r.keep))
    BY <1>4 DEF RebuildFetch
  <2> QED
    BY <1>2, <1>3, <2>1, BalanceIdle, ReadyResendFits, ResendPark, BalanceSet
<1>5. CASE RebuildApply(r)
  <2>1. folded \in AreaType /\ folded.queue = areas[a].queue /\ SamePark(areas[a], folded)
    <3>1. Adopt(areas[a], r.doc) \in AreaType
          /\ Adopt(areas[a], r.doc).queue = areas[a].queue
          /\ Adopt(areas[a], r.doc).phase = areas[a].phase
      BY <1>2, AdoptType DEF Adopt, AreaType
    <3>2. /\ ReplayOver(areas[a], r.doc) \in AreaType
          /\ ReplayOver(areas[a], r.doc).queue = areas[a].queue
          /\ SamePark(areas[a], ReplayOver(areas[a], r.doc))
      BY <1>2, ReplayType, ReplayFits, ReplayPark
    <3> QED
      BY <1>2, <3>1, <3>2 DEF SamePark
  <2>2. SetArea(a, ReadyResend(folded, r.keep))
    BY <1>5 DEF RebuildApply
  <2> HIDE DEF folded
  <2>3. LET y == ReadyResend(folded, r.keep) IN
        y.queue = areas[a].queue /\ SamePark(areas[a], y)
    BY <2>1, ReadyResendFits, ResendPark, ParkTrans
  <2> QED
    BY <1>2, <1>3, <2>2, <2>3, BalanceSet
<1> QED
  BY <1>1, <1>4, <1>5

-----------------------------------------------------------------------------
\* The worker.

LEMMA BalanceRephased ==
  ASSUME Balanced, NEW a \in Areas, NEW p, Rephased(a, p), areas[a].phase.kind # "Failed",
         p.kind # "Failed", UNCHANGED << unsettled, del >>
  PROVE  Balanced'
<1>1. \A b \in Areas : areas'[b].queue = areas[b].queue /\ SamePark(areas[b], areas'[b])
  BY DEF Rephased, SamePark
<1> QED
  BY <1>1, BalanceKept

\* Maps that were not parked return to Ready.
LEMMA BalanceReopened ==
  ASSUME Typed, Balanced, NEW S, \A a \in S : areas[a].phase.kind # "Failed",
         areas' = [a \in Areas |->
           IF a \in S THEN [areas[a] EXCEPT !.phase = Ready] ELSE areas[a]],
         UNCHANGED << unsettled, del >>
  PROVE  Balanced'
<1> SUFFICES ASSUME NEW a \in Areas
             PROVE  areas'[a].queue = areas[a].queue /\ SamePark(areas[a], areas'[a])
  BY BalanceKept
<1>1. areas[a] \in AreaType
  BY AreaTyped
<1>2. CASE a \in S
  <2>1. areas'[a].queue = areas[a].queue /\ areas'[a].phase = Ready
    BY <1>1, <1>2 DEF AreaType
  <2> QED
    BY <1>2, <2>1, PhaseFields DEF SamePark
<1>3. CASE a \notin S
  BY <1>3 DEF SamePark
<1> QED
  BY <1>2, <1>3

LEMMA RetireBalanced ==
  ASSUME Typed, Arranged, Counted, NothingExpires, Balanced, NEW a \in Areas, WorkerRetire(a)
  PROVE  Balanced'
<1> DEFINE o == areas[a].phase.op
<1>1. EditLeaves(a, o) /\ o \in accounted
  BY WorkerRetireLeaves DEF EditLeaves, Counted, QueueAccounted
<1>2. unsettled' = unsettled - 1 /\ del' = del
  BY <1>1 DEF WorkerRetire
<1>3. areas[a].phase.kind = "AwaitingRetirement"
      /\ SetArea(a, PopAcknowledged(areas[a], areas[a].phase.rev, expired))
  BY DEF WorkerRetire, Retiring
<1>4. areas[a] \in AreaType /\ areas[a].phase.rev \in Revs
  BY <1>3, AreaTyped, PhaseRev
<1>5. areas'[a].phase.kind # "Failed"
  BY <1>3, <1>4, PopPark DEF SetArea, QueueType
<1> QED
  BY <1>1, <1>2, <1>3, <1>5, BalanceLeaves DEF ParkIn, SamePark

LEMMA IdleBalanced == ASSUME Typed, Balanced, WorkerIdle PROVE Balanced'
<1>1. PICK S \in SUBSET { a \in Waiting : areas[a].phase = Backoff /\ ~Sendable(a) } :
        areas' = [a \in Areas |->
          IF a \in S THEN [areas[a] EXCEPT !.phase = Ready] ELSE areas[a]]
  BY DEF WorkerIdle
<1>2. \A a \in S : areas[a].phase.kind # "Failed"
  BY <1>1, PhaseFields
<1>3. UNCHANGED << unsettled, del >>
  BY DEF WorkerIdle
<1> QED
  BY <1>1, <1>2, <1>3, BalanceReopened

-----------------------------------------------------------------------------
\* The verdicts.

LEMMA OkBalanced ==
  ASSUME Typed, Arranged, NothingExpires, Balanced, VerdictOk
  PROVE  Balanced'
<1> DEFINE a == worker.area  o == worker.op
<1>1. a \in Areas /\ o \in Ops /\ worker.rev \in Revs /\ areas[a] \in AreaType
  BY WorkerInHand, AreaTyped DEF VerdictOk
<1>2. HeadOp(areas[a]) = o /\ areas[a].phase.kind = "InFlight" /\ areas[a].queue # << >>
  BY <1>1, PhaseFields DEF VerdictOk, Current, HeadOp, Ops, NoOp
<1>3. del' = del
  BY DEF VerdictOk
<1>4. \/ /\ SetArea(a, PopAcknowledged(areas[a], worker.rev, expired))
         /\ unsettled' = unsettled - 1
      \/ /\ SetArea(a, [areas[a] EXCEPT !.phase = AwaitingRetirement(o, worker.rev)])
         /\ unsettled' = unsettled
  BY DEF VerdictOk
<1>5. CASE /\ SetArea(a, PopAcknowledged(areas[a], worker.rev, expired))
           /\ unsettled' = unsettled - 1
  <2>1. EditLeaves(a, o)
    BY <1>1, <1>2, <1>5, HeadLeaves
  <2>2. areas'[a].phase.kind # "Failed"
    BY <1>1, <1>5, PopPark DEF SetArea, QueueType
  <2> QED
    BY <1>1, <1>2, <1>3, <1>5, <2>1, <2>2, BalanceLeaves DEF ParkIn, SamePark
<1>6. CASE /\ SetArea(a, [areas[a] EXCEPT !.phase = AwaitingRetirement(o, worker.rev)])
           /\ unsettled' = unsettled
  <2>1. AwaitingRetirement(o, worker.rev) \in PhaseType
    BY <1>1, PhaseTypes
  <2>2. Rephased(a, AwaitingRetirement(o, worker.rev))
    BY <1>1, <1>6, <2>1, SetPhase
  <2>3. AwaitingRetirement(o, worker.rev).kind # "Failed"
    BY PhaseFields
  <2> QED
    BY <1>1, <1>2, <1>3, <1>6, <2>2, <2>3, BalanceRephased
<1> QED
  BY <1>4, <1>5, <1>6

LEMMA CredentialBalanced ==
  ASSUME Typed, Balanced, worker.at \in {"wire", "refetch"}, CredentialChanged
  PROVE  Balanced'
<1> DEFINE a == worker.area
<1>1. a \in Areas /\ UNCHANGED << unsettled, del >>
  BY WorkerInHand DEF CredentialChanged
<1>2. \/ areas' = areas
      \/ areas[a].phase = InFlight /\ SetArea(a, [areas[a] EXCEPT !.phase = Ready])
  BY DEF CredentialChanged, SetArea
<1>3. Ready.kind = "Ready" /\ Ready \in PhaseType /\ InFlight.kind = "InFlight"
  BY PhaseFields, PhaseTypes
<1>4. SetArea(a, [areas[a] EXCEPT !.phase = Ready]) => Rephased(a, Ready)
  BY <1>1, <1>3, SetPhase
<1> QED
  BY <1>1, <1>2, <1>3, <1>4, BalanceIdle, BalanceRephased

\* A head that nothing more is tried for parks, and is counted at once.
LEMMA BalancePhaseParks ==
  ASSUME Typed, Arranged, Balanced, NEW a \in Areas, NEW o \in Ops, NEW retryable \in BOOLEAN,
         HeadOp(areas[a]) = o, areas[a].phase.kind # "Failed",
         Rephased(a, Failed(o, retryable)), unsettled' = unsettled - 1, del' = del
  PROVE  Balanced'
<1>1. areas[a].queue # << >>
  BY DEF HeadOp, Ops, NoOp
<1>2. Failed(o, retryable).kind = "Failed" /\ Failed(o, retryable).op = o
  BY DEF Failed, Phase
<1> QED
  BY <1>1, <1>2, BalanceParks DEF Rephased

LEMMA TransportBalanced ==
  ASSUME Typed, Arranged, Balanced, worker.at \in {"wire", "refetch"}, TransportFailure,
         del' = del
  PROVE  Balanced'
<1> DEFINE a == worker.area  o == worker.op
           parked == attempts[o] + 1 >= MaxTransportAttempts
<1>1. a \in Areas /\ o \in Ops
  BY WorkerInHand
<1>2. Backoff \in PhaseType /\ Failed(o, TRUE) \in PhaseType /\ Backoff.kind = "Backoff"
      /\ InFlight.kind = "InFlight"
  BY <1>1, PhaseTypes, PhaseFields
<1>3. CASE areas[a].phase = InFlight /\ HeadOp(areas[a]) = o /\ parked
  <2>1. SetArea(a, [areas[a] EXCEPT !.phase = Failed(o, TRUE)]) /\ unsettled' = unsettled - 1
    BY <1>3 DEF TransportFailure
  <2> QED
    BY <1>1, <1>2, <1>3, <2>1, SetPhase, BalancePhaseParks
<1>4. CASE areas[a].phase = InFlight /\ HeadOp(areas[a]) = o /\ ~parked
  <2>1. SetArea(a, [areas[a] EXCEPT !.phase = Backoff]) /\ unsettled' = unsettled
    BY <1>4 DEF TransportFailure
  <2> QED
    BY <1>1, <1>2, <1>4, <2>1, SetPhase, BalanceRephased
<1>5. CASE ~(areas[a].phase = InFlight /\ HeadOp(areas[a]) = o)
  BY <1>5, BalanceIdle DEF TransportFailure
<1> QED
  BY <1>3, <1>4, <1>5

LEMMA ApplyBalanced == ASSUME Typed, Balanced, ConflictApply PROVE Balanced'
<1> DEFINE a == worker.area
           x == [areas[a] EXCEPT !.phase = Ready]
           y == ReplayOver(x, worker.doc)
<1>1. a \in Areas /\ areas[a] \in AreaType /\ worker.doc \in DocType
  BY WorkerInHand DEF ConflictApply
<1>2. x \in AreaType /\ x.queue = areas[a].queue /\ x.phase = Ready
  <2>1. Ready \in PhaseType
    BY PhaseTypes
  <2> QED
    BY <1>1, <2>1 DEF AreaType
<1>3. CASE CredentialChanged
  BY <1>3, CredentialBalanced DEF ConflictApply
<1>4. CASE ~CredentialChanged /\ ~Current
  BY <1>4, BalanceIdle DEF ConflictApply
<1>5. CASE ~CredentialChanged /\ Current
  <2>1. SetArea(a, y) /\ areas[a].phase = InFlight /\ UNCHANGED << unsettled, del >>
    BY <1>5 DEF ConflictApply, Current
  <2> HIDE DEF x
  <2>2. y.queue = x.queue /\ SamePark(x, y)
    BY <1>1, <1>2, ReplayFits, ReplayPark
  <2> HIDE DEF y
  <2>3. SamePark(areas[a], y)
    BY <1>2, <2>1, <2>2, PhaseFields DEF SamePark
  <2> QED
    BY <1>1, <1>2, <2>1, <2>2, <2>3, BalanceSet
<1> QED
  BY <1>3, <1>4, <1>5

LEMMA VerdictsBalanced ==
  ASSUME Typed, Arranged, NothingExpires, Balanced, Verdicts
  PROVE  Balanced'
<1>1. CASE VerdictStale
  BY <1>1, BalanceIdle DEF VerdictStale
<1>2. CASE VerdictCredential
  BY <1>2, CredentialBalanced DEF VerdictCredential
<1>3. CASE VerdictTransport
  BY <1>3, TransportBalanced DEF VerdictTransport
<1>4. CASE VerdictHeld \/ VerdictRefused
  <2> DEFINE a == worker.area  o == worker.op
  <2>1. a \in Areas /\ o \in Ops
    BY <1>4, WorkerInHand DEF VerdictHeld, VerdictRefused
  <2>2. HeadOp(areas[a]) = o /\ areas[a].phase.kind = "InFlight"
    BY <1>4, PhaseFields DEF VerdictHeld, VerdictRefused, Current
  <2>3. Backoff \in PhaseType /\ Failed(o, TRUE) \in PhaseType /\ Backoff.kind = "Backoff"
    BY <2>1, PhaseTypes, PhaseFields
  <2>4. CASE VerdictHeld
    <3>1. Rephased(a, Backoff) /\ UNCHANGED << unsettled, del >>
      BY <2>1, <2>3, <2>4, SetPhase DEF VerdictHeld
    <3> QED
      BY <2>1, <2>2, <2>3, <3>1, BalanceRephased
  <2>5. CASE VerdictRefused
    <3>1. Rephased(a, Failed(o, TRUE)) /\ unsettled' = unsettled - 1 /\ del' = del
      BY <2>1, <2>3, <2>5, SetPhase DEF VerdictRefused
    <3> QED
      BY <2>1, <2>2, <3>1, BalancePhaseParks
  <2> QED
    BY <1>4, <2>4, <2>5
<1>5. CASE VerdictUpgrade
  <2> DEFINE S == { a \in Areas : areas[a].phase = InFlight /\ a \in CloudAreas }
  <2>1. areas' = [a \in Areas |->
           IF a \in S THEN [areas[a] EXCEPT !.phase = Ready] ELSE areas[a]]
    BY <1>5 DEF VerdictUpgrade
  <2>2. \A a \in S : areas[a].phase.kind # "Failed"
    BY PhaseFields
  <2>3. UNCHANGED << unsettled, del >>
    BY <1>5 DEF VerdictUpgrade
  <2> HIDE DEF S
  <2> QED
    BY <2>1, <2>2, <2>3, BalanceReopened
<1>6. CASE VerdictConflict
  BY <1>6, CredentialBalanced, BalanceIdle DEF VerdictConflict
<1>7. CASE ConflictFetch
  <2>1. CASE CredentialChanged
    BY <1>7, <2>1, CredentialBalanced DEF ConflictFetch
  <2>2. CASE UNCHANGED << areas, unsettled, del >>
    BY <2>2, BalanceIdle
  <2>3. CASE TransportFailure /\ del' = del
    BY <1>7, <2>3, TransportBalanced DEF ConflictFetch
  <2> QED
    BY <1>7, <2>1, <2>2, <2>3 DEF ConflictFetch
<1>8. CASE ConflictApply
  BY <1>8, ApplyBalanced
<1> QED
  BY <1>1, <1>2, <1>3, <1>4, <1>5, <1>6, <1>7, <1>8, OkBalanced DEF Verdicts

LEMMA WorkerBalanced ==
  ASSUME Typed, Arranged, Counted, NothingExpires, Balanced, Worker
  PROVE  Balanced'
<1>1. ASSUME NEW a \in Areas, WorkerTake(a) PROVE Balanced'
  <2>1. Rephased(a, InFlight) /\ areas[a].phase.kind \in {"Ready", "Backoff"}
    BY <1>1, WorkerTakeRephased
  <2>2. UNCHANGED << unsettled, del >>
    BY <1>1 DEF WorkerTake
  <2> QED
    BY <2>1, <2>2, BalanceRephased, PhaseFields
<1>2. ASSUME NEW a \in Areas, WorkerRetireFails(a) \/ WorkerTimer(a) PROVE Balanced'
  BY <1>2, BalanceIdle DEF WorkerRetireFails, WorkerTimer
<1>3. CASE WorkerWake
  BY <1>3, BalanceIdle DEF WorkerWake
<1> QED
  BY <1>1, <1>2, <1>3, RetireBalanced, IdleBalanced, VerdictsBalanced DEF Worker

-----------------------------------------------------------------------------
\* The deletion of a map takes its edits out of the count, and the delete itself.

LEMMA CommitBalanced ==
  ASSUME Typed, Arranged, Counted, Balanced, NEW a \in CloudAreas, NEW tracked \in {0, 1},
         CommitDelete(a, tracked), Emptied(a), areas[a].phase.kind # "Failed",
         Waits' = Waits - tracked
  PROVE  Balanced'
<1> DEFINE ops == Queued(areas[a])
<1>1. a \in Areas
  BY DEF Areas
<1>2. ops \cap accounted = ops
  BY <1>1 DEF Counted, QueueAccounted
<1>3. OpenIn(areas[a]) = ops
  BY DEF OpenIn, ParkIn
<1>4. unsettled' = unsettled - Cardinality(ops) - tracked
  BY <1>2 DEF CommitDelete
<1>5. areas'[a] = GoneArea(areas[a]) /\ \A b \in Areas : b # a => areas'[b] = areas[b]
  BY <1>1, EmptiedAreas
<1>6. OpenIn(areas'[a]) = {}
  BY <1>5, GoneFits DEF OpenIn
<1> HIDE DEF ops
<1>7. /\ Cardinality(OpenEdits') = Cardinality(OpenEdits) - Cardinality(ops)
      /\ Cardinality(ops) \in Nat
  BY <1>1, <1>3, <1>5, <1>6, OpenEmptied
<1> QED
  BY <1>4, <1>7, OpenTyped DEF Balanced

LEMMA RecoverBalanced ==
  ASSUME Typed, Arranged, Counted, Balanced, NEW a \in CloudAreas, RecoverUnavailable(a),
         up', del' = del, BasesFailOnce, DeletesSpareParked
  PROVE  Balanced'
<1> DEFINE p == Failed(HeadOp(areas[a]), TRUE)
           x == [areas[a] EXCEPT !.baseFailed = TRUE, !.phase = p]
<1>1. a \in Areas /\ areas[a] \in AreaType /\ areas \in [Areas -> AreaType]
  BY DEF Areas, QueueType
<1>2. CASE a \in intents
  <2>1. CommitDelete(a, 0) /\ Emptied(a)
    BY <1>2 DEF RecoverUnavailable, CommitDelete, SetArea, Emptied
  <2>3. areas[a].phase.kind # "Failed"
    BY <2>1 DEF DeletesSpareParked
  <2>4. Waits' = Waits - 0
    BY DEF Waits
  <2> QED
    BY <2>1, <2>3, <2>4, CommitBalanced
<1>3. CASE a \notin intents /\ ~areas[a].baseFailed /\ areas[a].queue # << >>
           /\ SetArea(a, x) /\ unsettled' = unsettled - 1
  <2>1. HeadOp(areas[a]) \in Ops /\ p \in PhaseType
    BY <1>1, <1>3, QueuedType, PhaseTypes
  <2>2. p.kind = "Failed" /\ p.op = HeadOp(areas[a])
    BY DEF Failed, Phase
  <2>3. x.queue = areas[a].queue /\ x.phase = p /\ x.baseFailed
    BY <1>1, <2>1 DEF AreaType
  <2> HIDE DEF x, p
  <2>4. areas'[a] = x /\ \A b \in Areas : b # a => areas'[b] = areas[b]
    BY <1>1, <1>3 DEF SetArea
  <2>5. areas[a].phase.kind # "Failed"
    BY <1>1, <1>3, <2>3, <2>4 DEF BasesFailOnce
  <2> QED
    BY <1>1, <1>3, <2>2, <2>3, <2>4, <2>5, BalanceParks
<1>4. CASE UNCHANGED << areas, unsettled >>
  BY <1>4, BalanceIdle
<1> HIDE DEF x, p
<1> QED
  BY <1>2, <1>3, <1>4 DEF RecoverUnavailable, x, p

LEMMA FetchBalanced ==
  ASSUME Typed, Arranged, Counted, Balanced, NEW a \in CloudAreas, EngineFetch(a),
         BasesFailOnce, DeletesSpareParked
  PROVE  Balanced'
<1>1. up' /\ del' = del
  BY DEF EngineFetch
<1>2. UNCHANGED << areas, unsettled >> \/ RecoverUnavailable(a)
  BY DEF EngineFetch
<1> QED
  BY <1>1, <1>2, BalanceIdle, RecoverBalanced

-----------------------------------------------------------------------------
\* A base arrives: the park for the base, and only that one, reopens.

LEMMA BasePark ==
  ASSUME NothingExpires, NEW area \in AreaType
  PROVE  LET y == BaseLoaded(area) IN
         /\ area.baseFailed => y.phase.kind # "Failed"
         /\ ~area.baseFailed => y.phase = area.phase
<1> DEFINE opened == [area EXCEPT !.needsBase = FALSE, !.baseFailed = FALSE]
           y == BaseLoaded(area)
<1>1. opened \in AreaType /\ opened.phase = area.phase
  <2>1. opened \in AreaType
    BY FieldTypes
  <2> QED
    BY <2>1 DEF AreaType
<1>2. y = IF area.baseFailed /\ area.phase.kind = "Failed"
            THEN ResumeWithDeferredConflict(opened, expired) ELSE opened
  BY DEF BaseLoaded
<1> HIDE DEF opened
<1>3. ResumeWithDeferredConflict(opened, expired).phase.kind # "Failed"
  BY <1>1, ResumeOpen
<1> HIDE DEF y
<1>4. /\ area.baseFailed => y.phase.kind # "Failed"
      /\ ~area.baseFailed => y.phase = area.phase
  BY <1>1, <1>2, <1>3
<1> QED
  BY <1>4 DEF y

LEMMA AdoptBalanced ==
  ASSUME Typed, Arranged, NothingExpires, BasesParked, Balanced, EngineAdopt
  PROVE  Balanced'
<1> DEFINE a == engine.area
           x == ReplayOver(areas[a], engine.doc)
           y == BaseLoaded(x)
           reopens == areas[a].baseFailed /\ areas[a].queue # << >>
<1>1. a \in Areas /\ areas[a] \in AreaType /\ engine.doc \in DocType /\ expired \in SUBSET Ops
  BY DEF EngineAdopt, TaskType, EngineType, QueueType, Areas, InHand
<1>2. del' = del
  BY DEF EngineAdopt
<1>3. \/ UNCHANGED << areas, unsettled >>
      \/ SetArea(a, y) /\ unsettled' = unsettled + (IF reopens THEN 1 ELSE 0)
  BY DEF EngineAdopt
<1>4. /\ x \in AreaType /\ x.queue = areas[a].queue /\ SamePark(areas[a], x)
      /\ x.baseFailed = areas[a].baseFailed
  <2>1. x.baseFailed = areas[a].baseFailed
    BY <1>1 DEF ReplayOver, RecordReplay, Adopt, AreaType
  <2> HIDE DEF x
  <2> QED
    BY <1>1, <2>1, ReplayType, ReplayFits, ReplayPark DEF x
<1>5. areas \in [Areas -> AreaType]
  BY DEF QueueType
<1> HIDE DEF x
<1>6. y.queue = areas[a].queue
  BY <1>1, <1>4, BaseLoadedFits
<1>7. /\ x.baseFailed => y.phase.kind # "Failed"
      /\ ~x.baseFailed => y.phase = x.phase
  BY <1>4, BasePark
<1> HIDE DEF y
<1>8. CASE SetArea(a, y) /\ unsettled' = unsettled + (IF reopens THEN 1 ELSE 0)
  <2>1. areas'[a] = y /\ \A b \in Areas : b # a => areas'[b] = areas[b]
    BY <1>1, <1>5, <1>8 DEF SetArea
  <2>2. CASE areas[a].baseFailed
    <3>1. areas[a].phase.kind = "Failed"
      BY <1>1, <2>2 DEF BasesParked
    <3>2. areas[a].queue # << >>
      BY <1>1, <3>1, FitsNonempty DEF Arranged, PhasesFit
    <3>3. unsettled' = unsettled + 1
      BY <1>8, <2>2, <3>2
    <3> QED
      BY <1>1, <1>2, <1>4, <1>6, <1>7, <2>1, <2>2, <3>1, <3>3, BalanceReopens
  <2>3. CASE ~areas[a].baseFailed
    <3>1. unsettled' = unsettled
      BY <1>8, <2>3, OpenTyped
    <3>2. SamePark(areas[a], y)
      BY <1>4, <1>7, <2>3 DEF SamePark
    <3> QED
      BY <1>1, <1>2, <1>6, <1>8, <3>1, <3>2, BalanceSet
  <2> QED
    BY <2>2, <2>3
<1> QED
  BY <1>2, <1>3, <1>8, BalanceIdle

-----------------------------------------------------------------------------
\* The engine's other actions.

LEMMA RowsBalanced == ASSUME Typed, Balanced, EngineRows PROVE Balanced'
<1> DEFINE present == { a \in CloudAreas : engine.rows[a] # NoRev }
<1>1. UNCHANGED << unsettled, del >>
  BY DEF EngineRows
<1>2. CASE areas' = areas
  BY <1>1, <1>2, BalanceIdle
<1>3. CASE areas' = [a \in Areas |->
             IF RowsCarryRevisions /\ a \in present
               THEN Confirm(areas[a], engine.rows[a]) ELSE areas[a]]
  <2> HIDE DEF present
  <2> SUFFICES ASSUME NEW a \in Areas
               PROVE  areas'[a].queue = areas[a].queue /\ SamePark(areas[a], areas'[a])
    BY <1>1, BalanceKept
  <2>1. areas'[a] = areas[a] \/ areas'[a] = Confirm(areas[a], engine.rows[a])
    BY <1>3
  <2>2. areas[a] \in AreaType
    BY AreaTyped
  <2> QED
    BY <2>1, <2>2 DEF Confirm, AreaType, SamePark
<1> QED
  BY <1>2, <1>3 DEF EngineRows

\* A sign-in leaves a cloud map the records that were read, and no park.
LEMMA InstalledOpen ==
  ASSUME Typed, Arranged, ActivateInstall, NothingExpires', NEW a \in CloudAreas,
         areas[a].phase.kind # "Failed"
  PROVE  OpenIn(areas'[a]) = LoadedOf(a)
<1> DEFINE gone == { b \in CloudAreas : areas[b].queue # << >> }
           remaining(b) == IF b \in gone THEN GoneArea(areas[b]) ELSE areas[b]
           old == expired \cup (engine.loaded \cap aged)
           filled == [remaining(a) EXCEPT !.queue = InOrder(LoadedOf(a)), !.needsBase = TRUE]
<1>1. a \in Areas /\ areas'[a] = IF InOrder(LoadedOf(a)) # << >>
                                   THEN ParkExpiredHead(filled, old) ELSE remaining(a)
  BY DEF ActivateInstall, LoadedOf, Areas
<1>2. LoadedOf(a) \in SUBSET Ops
  BY DEF LoadedOf, TaskType, EngineType
<1>3. /\ InOrder(LoadedOf(a)) \in Seq(Ops) /\ Members(InOrder(LoadedOf(a))) = LoadedOf(a)
      /\ InOrder(LoadedOf(a)) = << >> <=> LoadedOf(a) = {}
  BY <1>2, InOrderMembers
<1>4. ParkExpiredHead(filled, old) = filled
  <2>1. old = {}
    BY DEF ActivateInstall, NothingExpires
  <2> HIDE DEF old, filled
  <2> QED
    BY <2>1 DEF ParkExpiredHead
<1>5. /\ remaining(a) \in AreaType /\ remaining(a).phase.kind # "Failed"
      /\ remaining(a).queue = << >>
  BY <1>1, GoneTyped, GoneFits, PhaseFields DEF QueueType
<1> HIDE DEF remaining
<1>6. filled.queue = InOrder(LoadedOf(a)) /\ filled.phase = remaining(a).phase
  BY <1>5 DEF AreaType
<1> HIDE DEF filled
<1>7. areas'[a].queue = InOrder(LoadedOf(a)) /\ areas'[a].phase.kind # "Failed"
  BY <1>1, <1>4, <1>5, <1>6
<1>8. Queued(areas'[a]) = LoadedOf(a)
  BY <1>3, <1>7, QueuedMembers
<1> QED
  BY <1>7, <1>8 DEF OpenIn, ParkIn

LEMMA InstallBalanced ==
  ASSUME Typed, Arranged, Counted, Balanced, ActivateInstall, NothingExpires', SignInsCarryOver
  PROVE  Balanced'
<1> DEFINE newly == engine.loaded \ accounted
<1>1. engine.loaded \in SUBSET Ops /\ engine.at = "activating" /\ engine'.at = "rows"
  BY DEF ActivateInstall, TaskType, EngineType
<1>2. /\ UNION { Queued(areas[a]) : a \in CloudAreas } = engine.loaded \cap accounted
      /\ \A a \in CloudAreas : areas[a].phase.kind # "Failed"
  BY <1>1 DEF SignInsCarryOver
<1>3. \A a \in CloudAreas : /\ OpenIn(areas'[a]) = LoadedOf(a)
                            /\ OpenIn(areas[a]) = Queued(areas[a])
  BY <1>2, InstalledOpen DEF OpenIn, ParkIn
<1>4. \A a \in Areas \ CloudAreas : areas'[a] = areas[a]
  <2> SUFFICES ASSUME NEW a \in Areas \ CloudAreas PROVE areas'[a] = areas[a]
    OBVIOUS
  <2>1. LoadedOf(a) = {}
    BY DEF LoadedOf, Arranged, LoadedCloud, IsCloud
  <2>2. Installed(a)
    BY ActivateInstalls
  <2> QED
    BY <2>1, <2>2 DEF Installed
<1>5. CloudAreas \subseteq Areas /\ \A o \in engine.loaded : AreaOf[o] \in CloudAreas
  BY DEF Areas, Arranged, LoadedCloud, IsCloud
<1>6. OpenEdits' = OpenEdits \cup newly
  <2>1. ASSUME NEW o \in OpenEdits' PROVE o \in OpenEdits \cup newly
    <3>1. PICK a \in Areas : o \in OpenIn(areas'[a])
      BY DEF OpenEdits
    <3>2. CASE a \notin CloudAreas
      BY <1>4, <3>1, <3>2 DEF OpenEdits
    <3>3. CASE a \in CloudAreas
      <4>1. o \in engine.loaded
        BY <1>3, <3>1, <3>3 DEF LoadedOf
      <4>2. CASE o \in accounted
        <5>1. PICK b \in CloudAreas : o \in Queued(areas[b])
          BY <1>2, <4>1, <4>2
        <5> QED
          BY <1>3, <1>5, <5>1 DEF OpenEdits
      <4> QED
        BY <4>1, <4>2
    <3> QED
      BY <3>2, <3>3
  <2>2. ASSUME NEW o \in OpenEdits \cup newly PROVE o \in OpenEdits'
    <3>1. CASE o \in engine.loaded
      <4>1. o \in LoadedOf(AreaOf[o]) /\ AreaOf[o] \in CloudAreas
        BY <1>5, <3>1 DEF LoadedOf
      <4> QED
        BY <1>3, <1>5, <4>1 DEF OpenEdits
    <3>2. CASE o \notin engine.loaded
      <4>1. PICK a \in Areas : o \in OpenIn(areas[a])
        BY <3>2 DEF OpenEdits
      <4>2. a \notin CloudAreas
        BY <1>2, <1>3, <3>2, <4>1
      <4> QED
        BY <1>4, <4>1, <4>2 DEF OpenEdits
    <3> QED
      BY <3>1, <3>2
  <2> QED
    BY <2>1, <2>2
<1>7. OpenEdits \cap newly = {}
  BY DEF OpenEdits, OpenIn, Counted, QueueAccounted
<1>8. newly \in SUBSET Ops /\ IsFiniteSet(newly) /\ Cardinality(newly) \in Nat
  BY <1>1, FinitelyManyOps, FS_CardinalityType
<1>9. /\ unsettled' = unsettled + Cardinality(newly) - Cardinality(newly \cap aged)
      /\ del' = del /\ expired' = expired \cup (engine.loaded \cap aged)
  BY DEF ActivateInstall
<1>10. newly \cap aged = {}
  BY <1>9 DEF NothingExpires
<1> HIDE DEF newly
<1>11. Cardinality(OpenEdits') = Cardinality(OpenEdits) + Cardinality(newly)
  <2>1. Cardinality(OpenEdits \cup newly)
          = Cardinality(OpenEdits) + Cardinality(newly) - Cardinality(OpenEdits \cap newly)
    BY <1>8, OpenTyped, FS_Union
  <2> QED
    <3>1. Cardinality(OpenEdits \cap newly) = 0
      BY <1>7, FS_EmptySet
    <3> QED
      BY <1>6, <1>8, <2>1, <3>1, OpenTyped
<1>12. Cardinality(newly \cap aged) = 0
  BY <1>10, FS_EmptySet
<1> QED
  BY <1>8, <1>9, <1>11, <1>12, OpenTyped DEF Balanced, Waits

LEMMA EngineBalanced ==
  ASSUME Typed, Arranged, Counted, NothingExpires, NothingExpires', BasesParked,
         SignInsCarryOver, BasesFailOnce, DeletesSpareParked, Balanced, Engine
  PROVE  Balanced'
<1>1. CASE EngineTick \/ EngineFail \/ ActivateLoad \/ EngineAsk \/ EngineDone
  BY <1>1, BalanceIdle DEF EngineTick, EngineFail, ActivateLoad, EngineAsk, EngineDone
<1> QED
  BY <1>1, RowsBalanced, InstallBalanced, AdoptBalanced, FetchBalanced DEF Engine

-----------------------------------------------------------------------------
\* The other tasks.

LEMMA DeletionBalanced ==
  ASSUME Typed, Arranged, Counted, DeletesSpareParked, Balanced, Deletion
  PROVE  Balanced'
<1> DEFINE a == del.area
<1> USE DEF TaskType, DeleteType
<1>1. CASE DeleteLeaves \/ DeleteAbandon \/ \E b \in CloudAreas : DeleteBegin(b)
  <2>1. UNCHANGED << areas, unsettled >>
    BY <1>1 DEF DeleteLeaves, DeleteAbandon, DeleteBegin
  <2>2. del.at # "wire" /\ del'.at # "wire"
    <3>1. NoDelete.at = "none" /\ \A b : [NoDelete EXCEPT !.at = "fenced", !.area = b,
                                                       !.gen = cred].at = "fenced"
      BY DEF NoDelete
    <3>2. CASE DeleteLeaves \/ DeleteAbandon
      BY <3>1, <3>2 DEF DeleteLeaves, DeleteAbandon
    <3>3. ASSUME NEW b \in CloudAreas, DeleteBegin(b)
          PROVE  del.at # "wire" /\ del'.at # "wire"
      BY <3>1, <3>3 DEF DeleteBegin
    <3> QED
      BY <1>1, <3>2, <3>3
  <2> QED
    BY <2>1, <2>2, BalanceStays DEF Waits
<1>2. CASE DeletePrepare
  <2>1. /\ areas' = areas /\ unsettled' = unsettled + 1
        /\ del.at = "fenced" /\ del'.at = "wire"
    BY <1>2 DEF DeletePrepare
  <2>2. OpenEdits' = OpenEdits /\ Waits = 0 /\ Waits' = 1
    BY <2>1 DEF OpenEdits, Waits
  <2> QED
    BY <2>1, <2>2, OpenTyped DEF Balanced
<1>3. CASE DeleteSucceeds
  <2>1. a \in CloudAreas /\ a \in Areas /\ CommitDelete(a, 1) /\ Emptied(a) /\ up'
    BY <1>3 DEF DeleteSucceeds, InHand, CommitDelete, SetArea, Emptied, Areas
  <2>2. del.at = "wire" /\ del'.at # "wire"
    BY <1>3 DEF DeleteSucceeds, NoDelete
  <2>4. areas[a].phase.kind # "Failed"
    BY <2>1 DEF DeletesSpareParked
  <2>5. Waits' = Waits - 1
    BY <2>2 DEF Waits
  <2> QED
    BY <2>1, <2>4, <2>5, CommitBalanced
<1>4. CASE DeleteAmbiguous
  <2> DEFINE x == [areas[a] EXCEPT !.needsBase = TRUE]
  <2>1. a \in Areas /\ areas[a] \in AreaType /\ areas \in [Areas -> AreaType]
    BY <1>4 DEF DeleteAmbiguous, InHand, Areas, QueueType
  <2>2. x.queue = areas[a].queue /\ x.phase = areas[a].phase
    BY <2>1 DEF AreaType
  <2>3. areas' = [areas EXCEPT ![a] = x] /\ unsettled' = unsettled - 1
    BY <1>4 DEF DeleteAmbiguous, SetArea
  <2>4. del.at = "wire" /\ del'.at = "none"
    BY <1>4 DEF DeleteAmbiguous, NoDelete
  <2> HIDE DEF x
  <2>5. \A b \in Areas : OpenIn(areas'[b]) = OpenIn(areas[b])
    BY <2>1, <2>2, <2>3 DEF OpenIn, ParkIn, Queued
  <2>6. OpenEdits' = OpenEdits /\ Waits = 1 /\ Waits' = 0
    BY <2>4, <2>5 DEF OpenEdits, Waits
  <2> QED
    BY <2>3, <2>6, OpenTyped DEF Balanced
<1> QED
  BY <1>1, <1>2, <1>3, <1>4 DEF Deletion

LEMMA ServiceBalanced == ASSUME Typed, Balanced, Service PROVE Balanced'
<1>1. UNCHANGED << areas, unsettled >>
  BY ServiceKeeps
<1>2. del'.at = del.at
  BY DEF Service, ServiceHandles, ServiceRefuses, RequestTimesOut, ServiceDeletes,
     ForeignEdit, AccessChanges, TaskType, DeleteType
<1> QED
  BY <1>1, <1>2, BalanceStays DEF Waits

LEMMA ProcessBalanced == ASSUME Typed, Balanced, Process PROVE Balanced'
<1>1. CASE Crash
  <2>1. \A a \in Areas : areas'[a] = EmptyArea
    BY <1>1 DEF Crash
  <2>2. OpenEdits' = {}
    BY <2>1, EmptyFits DEF OpenEdits, OpenIn
  <2>3. del'.at # "wire" /\ unsettled' = 0
    BY <1>1 DEF Crash, NoDelete
  <2> QED
    BY <2>2, <2>3, FS_EmptySet DEF Balanced, Waits
<1>2. CASE Restart \/ Outage \/ RequestSync \/ Login
  BY <1>2, BalanceIdle DEF Restart, Outage, RequestSync, Login
<1> QED
  BY <1>1, <1>2 DEF Process

LEMMA InitBalanced == ASSUME Init PROVE Balanced
<1>1. \A a \in Areas : areas[a].queue = << >>
  BY DEF Init, EmptyArea
<1>2. \A a \in Areas : Queued(areas[a]) = {}
  BY <1>1, EmptySorted, QueuedMembers
<1>3. OpenEdits = {}
  BY <1>2 DEF OpenEdits, OpenIn
<1>4. del.at # "wire" /\ unsettled = 0
  BY DEF Init, NoDelete
<1> QED
  BY <1>3, <1>4, FS_EmptySet DEF Balanced, Waits

LEMMA StepBalanced ==
  ASSUME Typed, Arranged, Counted, NothingExpires, NothingExpires', BasesParked, Balanced,
         [Next]_vars, [SignInsCarryOver]_vars, [BasesFailOnce]_vars, [DeletesSpareParked]_vars
  PROVE  Balanced'
<1>1. CASE UNCHANGED vars
  BY <1>1, BalanceIdle DEF vars
<1>2. CASE Next /\ SignInsCarryOver /\ BasesFailOnce /\ DeletesSpareParked
  BY <1>2, EditorBalanced, RebuildsBalanced, WorkerBalanced, EngineBalanced,
     DeletionBalanced, ServiceBalanced, ProcessBalanced DEF Next
<1> QED
  BY <1>1, <1>2

\* The save status (sent, less succeeded and failed) counts exactly the queued
\* edits that are not parked, and the delete on the wire: no verdict, review,
\* park, sign-in, base or deletion is counted twice or not at all.  Five
\* conditions on the history, which the code does not enforce: no record outlives
\* the service's receipts; a sign-in brings back the edits that were on screen,
\* none of them parked; a map whose base failed is parked until the base is there,
\* and was not parked before; and no map goes while its head is parked.
THEOREM SaveStatusBalanced ==
  Spec /\ []NothingExpires /\ []BasesParked /\ [][SignInsCarryOver]_vars
       /\ [][BasesFailOnce]_vars /\ [][DeletesSpareParked]_vars => []CountsBalance
<1>1. Init => Typed /\ Own /\ Arranged /\ Counted /\ Balanced
  BY InitTyped, InitOwned, InitArranged, InitCounted, InitBalanced
<1> HIDE DEF Typed
<1>2. Typed /\ Own /\ Arranged /\ Counted /\ Balanced
        /\ NothingExpires /\ NothingExpires' /\ BasesParked
        /\ [Next]_vars /\ [SignInsCarryOver]_vars /\ [BasesFailOnce]_vars
        /\ [DeletesSpareParked]_vars
        => Typed' /\ Own' /\ Arranged' /\ Counted' /\ Balanced'
  BY StepTyped, StepOwned, StepArranged, StepCounted, StepBalanced
<1>3. Typed /\ Arranged /\ NothingExpires /\ Balanced => CountsBalance
  BY BalanceMeans
<1> QED
  BY <1>1, <1>2, <1>3, PTL DEF Spec
=============================================================================
