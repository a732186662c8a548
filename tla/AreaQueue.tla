------------------------------ MODULE AreaQueue ------------------------------
(***************************************************************************)
(* One map area's queue of unacknowledged edits, as a value: the record    *)
(* `AreaQueue` of cloud/src/mapper/pending.rs and the transitions that its *)
(* methods make on it while they hold the queue's state lock.  The module  *)
(* has no variables; PendingQueue applies these operators to its state.    *)
(*                                                                         *)
(* An operation is a natural number, the sequence the journal gave it.     *)
(* An area record has one source (the map itself); its revision is         *)
(* `confirmed`.  Deadlines are abstracted: PendingQueue keeps the set of   *)
(* areas whose deadline has passed.                                        *)
(***************************************************************************)
EXTENDS Integers, Sequences, FiniteSets

CONSTANTS
  MaxOps,                   \* bound: edits made in a behaviour
  MaxTransportAttempts,     \* the attempt budget of one envelope
  Needs,                    \* Needs[o]: earlier edits that o builds upon
  Creates                   \* edits that claim a vacant room number

Ops == 1..MaxOps
NoOp == 0
NoRev == -1
Revs == Int

ASSUME QueueAssumption ==
  /\ MaxOps \in Nat
  /\ MaxTransportAttempts \in Nat \ {0}
  /\ Needs \in [Ops -> SUBSET Ops]
  /\ Creates \subseteq Ops

-----------------------------------------------------------------------------
\* Phases.

Phase(kind, o, rev, retryable) ==
  [kind |-> kind, op |-> o, rev |-> rev, retryable |-> retryable]

Ready == Phase("Ready", NoOp, NoRev, FALSE)
InFlight == Phase("InFlight", NoOp, NoRev, FALSE)
Backoff == Phase("Backoff", NoOp, NoRev, FALSE)
AwaitingRetirement(o, rev) == Phase("AwaitingRetirement", o, rev, FALSE)
Conflict(o) == Phase("Conflict", o, NoRev, FALSE)
Failed(o, retryable) == Phase("Failed", o, NoRev, retryable)

EmptyArea ==
  [ queue      |-> << >>,
    phase      |-> Ready,
    confirmed  |-> NoRev,
    view       |-> {},        \* edits the document on screen rules out
    token      |-> NoRev,     \* that document's projection token
    deferred   |-> NoOp,      \* deferred_conflict
    needsBase  |-> FALSE,     \* requires_recovery_base
    baseFailed |-> FALSE ]    \* recovery_base_failed

\* The queue's record is dropped; the document on screen is not its concern.
GoneArea(area) == [EmptyArea EXCEPT !.view = area.view, !.token = area.token]

HeadOp(area) == IF area.queue = << >> THEN NoOp ELSE area.queue[1]
Queued(area) == { area.queue[i] : i \in 1..Len(area.queue) }

\* Mutated Remove: the front leaves, whichever edit was meant.
Remove_Front(q, o) == IF q = << >> THEN q ELSE Tail(q)

\* The edit leaves the position it is found at.
Remove(q, o) ==
  IF \E i \in 1..Len(q) : q[i] = o
    THEN LET i == CHOOSE i \in 1..Len(q) : q[i] = o
         IN  SubSeq(q, 1, i - 1) \o SubSeq(q, i + 1, Len(q))
    ELSE q

\* pop_front, which leaves an empty queue as it is.
Pop(q) == SubSeq(q, 2, Len(q))

-----------------------------------------------------------------------------
\* Types.

PhaseType ==
  { Ready, InFlight, Backoff }
    \cup [kind : {"AwaitingRetirement"}, op : Ops, rev : Revs, retryable : {FALSE}]
    \cup [kind : {"Conflict"}, op : Ops, rev : {NoRev}, retryable : {FALSE}]
    \cup [kind : {"Failed"}, op : Ops, rev : {NoRev}, retryable : BOOLEAN]

AreaType ==
  [queue : Seq(Ops), phase : PhaseType, confirmed : Revs, view : SUBSET Ops, token : Revs,
   deferred : Ops \cup {NoOp}, needsBase : BOOLEAN, baseFailed : BOOLEAN]

DocType == [rev : Revs, log : Seq(Ops), broken : SUBSET Ops]

-----------------------------------------------------------------------------
\* Transitions.

\* An unordered report of the area's revision never moves it backward.
Confirm(area, rev) ==
  IF rev > area.confirmed THEN [area EXCEPT !.confirmed = rev] ELSE area

\* Mutated ParkExpiredHead: an expired head is sent like any other.
ParkExpiredHead_Never(area, expired) == area

ParkExpiredHead(area, expired) ==
  IF HeadOp(area) \in expired
    THEN [area EXCEPT !.phase = Failed(HeadOp(area), FALSE)]
    ELSE area

\* Mutated ResumeWithDeferredConflict: a review of whatever was deferred.
ResumeWithDeferredConflict_Unchecked(area, expired) ==
  LET reopened == ParkExpiredHead([area EXCEPT !.phase = Ready], expired)
  IN  IF reopened.phase # Ready THEN reopened
      ELSE [reopened EXCEPT !.deferred = NoOp, !.phase = Conflict(area.deferred)]

ResumeWithDeferredConflict(area, expired) ==
  LET reopened == ParkExpiredHead([area EXCEPT !.phase = Ready], expired)
  IN  IF reopened.phase # Ready
        THEN reopened
        ELSE [reopened EXCEPT
               !.deferred = NoOp,
               !.phase = IF area.deferred \in Queued(area)
                           THEN Conflict(area.deferred) ELSE Ready]

\* The result of a StopAtFailure replay: review at once, or once the head
\* that owns a request, a retirement or a park has left the queue.
RecordReplay(area, failed) ==
  LET found == IF failed \in Queued(area) THEN failed ELSE NoOp
  IN  IF area.phase.kind \in {"InFlight", "AwaitingRetirement", "Failed"}
        THEN [area EXCEPT !.deferred = found]
      ELSE IF found = NoOp
        THEN [area EXCEPT !.deferred = NoOp]
        ELSE [area EXCEPT !.deferred = NoOp, !.phase = Conflict(found)]

\* acknowledge, once the record is out of the replay namespace.
PopAcknowledged(area, rev, expired) ==
  ResumeWithDeferredConflict(
    Confirm([area EXCEPT !.queue = Pop(@)], rev), expired)

\* Mutated Cancellable: a parked head may leave too.
Cancellable_Parked(area, o) ==
  /\ o \in Queued(area)
  /\ o = HeadOp(area) => area.phase # InFlight

\* cancel: an idle head may leave, and any follower.
Cancellable(area, o) ==
  /\ o \in Queued(area)
  /\ o = HeadOp(area) => area.phase = Ready

\* Mutated CancelIn: a review of the cancelled edit stays open.
CancelIn_KeepsReview(area, o, expired) ==
  LET removed == [area EXCEPT !.queue = Remove(@, o)]
  IN  IF o = HeadOp(area) THEN ResumeWithDeferredConflict(removed, expired)
      ELSE removed

CancelIn(area, o, expired) ==
  LET removed == [area EXCEPT
                   !.queue = Remove(@, o),
                   !.deferred = IF @ = o THEN NoOp ELSE @]
      resumed == IF o = HeadOp(area)
                   THEN ResumeWithDeferredConflict(removed, expired)
                   ELSE removed
  IN  IF resumed.phase = Conflict(o)
        THEN [resumed EXCEPT !.phase = Ready] ELSE resumed

-----------------------------------------------------------------------------
\* Folding the queue over a fetched document.

\* doc.log: the edits the document holds; doc.broken: the edits whose
\* preconditions another client's edit has invalidated.
Applies(area, i, doc) ==
  LET o == area.queue[i]
      present == { doc.log[j] : j \in 1..Len(doc.log) }
      folded == { area.queue[j] : j \in 1..(i - 1) }
  IN  /\ o \notin doc.broken
      /\ Needs[o] \subseteq present \cup folded
      /\ o \in Creates => o \notin present

\* The first queued edit that does not apply, in order; NoOp when all do.
FirstFailed(area, doc) ==
  LET failing == { i \in 1..Len(area.queue) : ~Applies(area, i, doc) }
  IN  IF failing = {} THEN NoOp
      ELSE area.queue[CHOOSE i \in failing : \A j \in failing : i <= j]

\* replay_pending_over_locked: the document is adopted as it is, its revision
\* backward too, then the queue is folded over it.
Adopt(area, doc) ==
  [area EXCEPT !.confirmed = doc.rev, !.view = doc.broken, !.token = doc.rev]

\* Mutated ReplayOver: the revision is adopted, the queue not checked.
ReplayOver_AdoptsOnly(area, doc) == Adopt(area, doc)

ReplayOver(area, doc) == RecordReplay(Adopt(area, doc), FirstFailed(area, doc))
=============================================================================
