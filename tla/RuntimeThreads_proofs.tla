------------------------ MODULE RuntimeThreads_proofs ------------------------
(***************************************************************************)
(* What the registry of session threads promises, for every number of ids, *)
(* runs and callers: an id it does not track has no thread left, and a     *)
(* drain that returns has seen every session reserved before it come to    *)
(* its end; the map lists what is alive, a publication that fails leaves   *)
(* nothing behind, and sessions that run know each other.  None of these   *)
(* is inductive.  The strengthening follows the right to join a thread     *)
(* from the reservation through the entry to the one caller who holds it   *)
(* as a claim, the outcome from the thread to the entry's removal, and a   *)
(* publication by the place of the one caller who carries it out.          *)
(***************************************************************************)
EXTENDS RuntimeThreads, FiniteSetTheorems, TLAPS

USE DEF Returned, Id, At, Has, Spent, Becomes, Resolving, Over

\* The places at which a caller holds neither a reservation nor a claim.
Free == {"idle", "insert", "stage", "tell", "revoke", "compensate", "join"}

\* A free caller goes on, or a caller whose claims are resolved returns.
CallerMoves(c) ==
  /\ caller[c].at \in Free \/ caller[c].claims = {}
  /\ caller[c].at \notin {"spawn", "publish", "drain", "reopen"}
  /\ \E s \in CallerStates :
       /\ s.at \in Free /\ s.claims = {} /\ s.before = {}
       /\ s.at # "idle" => s.run[1] \in Ids
       /\ s.at \notin {"idle", "join"} => s.run \in Runs
       /\ caller' = [caller EXCEPT ![c] = s]
  /\ UNCHANGED <<entry, count, drainers, completion, thread>>

\* A thread that has begun, and has not ended, goes on.
ThreadMoves(r) ==
  /\ thread[r] \in {"gated", "scripts", "leaving", "exiting"}
  /\ \E s \in {"scripts", "leaving", "exiting", "clean", "panicked"} :
       thread' = [thread EXCEPT ![r] = s]
  /\ UNCHANGED <<entry, count, drainers, completion, caller>>

\* The steps that touch the registry itself.
RegistryStep(c) ==
  \/ \E i \in Ids : Reserve(c, i)
  \/ SpawnThread(c) \/ SpawnFails(c) \/ PublishThread(c)
  \/ ClaimExact(c) \/ AskDrain(c) \/ ClaimAll(c) \/ Reopen(c)
  \/ PublishOutcome(c) \/ ForgetThread(c) \/ ObserveOutcome(c)

-----------------------------------------------------------------------------
\* The strengthening.

FreeHoldNothing ==
  \A c \in Starters : caller[c].at \in Free \cup {"spawn", "publish"} =>
    /\ caller[c].claims = {} /\ caller[c].before = {}
    /\ caller[c].at # "idle" => Id(c) \in Ids
    /\ caller[c].at \notin {"idle", "join"} => caller[c].run \in Runs

\* A reservation is resolved by the one caller who made it.
ReservationHeld ==
  \A c \in Starters : caller[c].at \in {"spawn", "publish"} =>
    /\ Id(c) \in Ids
    /\ entry[Id(c)] = "reserved" /\ caller[c].run = <<Id(c), count[Id(c)]>>
    /\ caller[c].run \in Runs
    /\ \A e \in Starters : caller[e].at \in {"spawn", "publish"} /\ Id(e) = Id(c) => e = c
    /\ caller[c].at = "spawn" =>
         thread[caller[c].run] = "unborn" /\ completion[caller[c].run] = "open"

\* What is tracked is a run, and one whose thread was never spawned is a tombstone.
EntriesTrack ==
  \A i \in Ids : entry[i] # "none" =>
    /\ <<i, count[i]>> \in Runs
    /\ entry[i] = "failed" => thread[<<i, count[i]>>] = "unborn"

\* The runs still to come are untouched.
FutureOpen ==
  \A r \in Runs : r[2] > count[r[1]] => thread[r] = "unborn" /\ completion[r] = "open"

\* The right to join the run of an entry is held by one caller.
Holds(c, r) == \E claim \in caller[c].claims : claim.run = r /\ claim.role # "observer"

ClaimsHeld ==
  \A c \in Starters : \A claim \in caller[c].claims : claim.role # "observer" =>
    /\ entry[claim.run[1]] = "joining" /\ claim.run[2] = count[claim.run[1]]
    /\ claim.role = "tombstone" => thread[claim.run] = "unborn"
    /\ \A e \in Starters : Holds(e, claim.run) => e = c

\* An outcome is published when the run is over, and the entry removed later.
OutcomesProven ==
  /\ \A r \in Runs : completion[r] # "open" => Over(r)
  /\ \A c \in Starters : caller[c].at = "forget" =>
       caller[c].run \in Runs /\ Over(caller[c].run) /\ Holds(c, caller[c].run)

\* A drain has a claim on each run it found that is not over.
DrainHolds ==
  \A c \in Starters : \A r \in caller[c].before :
    /\ caller[c].at = "drain" => r[2] <= count[r[1]]
    /\ caller[c].at \in {"reopen", "resolve", "forget"} =>
         Over(r) \/ \E claim \in caller[c].claims : claim.run = r

Draining == {c \in Starters : caller[c].at \in {"drain", "reopen"}}
DrainersCounted == drainers = Cardinality(Draining)

\* TypeOK but for the drainers, which the count of them bounds.
Shape ==
  /\ entry \in [Ids -> {"none", "reserved", "running", "joining", "failed"}]
  /\ count \in [Ids -> 0 .. MaxRuns]
  /\ completion \in [Runs -> Returned \cup {"open", "failed"}]
  /\ thread \in [Runs -> Returned \cup {"unborn", "gated", "scripts", "leaving", "exiting"}]
  /\ caller \in [Starters -> CallerStates]

Frame ==
  /\ gate \in [Runs -> {"shut", "prepared", "committed", "cancelled"}]
  /\ listed \in [Ids -> 0 .. MaxRuns]
  /\ asked \subseteq Runs
  /\ told \subseteq [to : Runs, kind : {"created", "destroyed"}, of : Runs]
  /\ known \in [Runs -> SUBSET Runs]
  /\ jobs \in [DOMAIN Jobs -> Nat]

RegistryInv ==
  /\ Shape /\ FreeHoldNothing /\ ReservationHeld /\ EntriesTrack /\ FutureOpen
  /\ ClaimsHeld /\ OutcomesProven /\ DrainHolds /\ AbsentMeansEnded

-----------------------------------------------------------------------------
\* Types.

LEMMA BegunTyped ==
  ASSUME NEW p \in CallerPlaces, NEW r \in (Ids \cup {0}) \X (0 .. MaxRuns),
         NEW before \in SUBSET Runs
  PROVE  Begun(p, r, before) \in CallerStates
BY DEF CallerStates, Begun

LEMMA PlaceTyped ==
  ASSUME NEW s \in CallerStates, NEW p \in CallerPlaces
  PROVE  [s EXCEPT !.at = p] \in CallerStates
BY DEF CallerStates

LEMMA GoesTyped ==
  ASSUME caller \in [Starters -> CallerStates], NEW c \in Starters,
         NEW p \in CallerPlaces, Goes(c, p)
  PROVE  caller' \in [Starters -> CallerStates]
BY PlaceTyped DEF Goes

LEMMA ReturnsTyped ==
  ASSUME caller \in [Starters -> CallerStates], ThreadsAssumption, NEW c \in Starters, Returns(c)
  PROVE  caller' \in [Starters -> CallerStates]
<1>1. Idle \in CallerStates
  BY BegunTyped DEF Idle, NoRun, CallerPlaces, ThreadsAssumption
<1> QED
  BY <1>1 DEF Returns

LEMMA ClaimsTyped ==
  ASSUME NEW s \in CallerStates, NEW p \in CallerPlaces, NEW claims \in SUBSET Claims
  PROVE  [s EXCEPT !.at = p, !.claims = claims] \in CallerStates
BY DEF CallerStates

LEMMA RunInState ==
  ASSUME ThreadsAssumption, NEW r \in Runs
  PROVE  r \in (Ids \cup {0}) \X (0 .. MaxRuns)
BY DEF Runs, ThreadsAssumption

LEMMA RunTyped ==
  ASSUME NEW s \in CallerStates, NEW p \in CallerPlaces,
         NEW r \in (Ids \cup {0}) \X (0 .. MaxRuns)
  PROVE  [s EXCEPT !.at = p, !.run = r] \in CallerStates
BY DEF CallerStates

LEMMA TargetsTyped ==
  ASSUME NEW s \in CallerStates, NEW p \in CallerPlaces,
         NEW left \in SUBSET Runs, NEW tried \in SUBSET Runs
  PROVE  /\ [s EXCEPT !.at = p, !.left = left] \in CallerStates
         /\ [s EXCEPT !.at = p, !.tried = tried] \in CallerStates
         /\ [s EXCEPT !.left = left, !.tried = tried] \in CallerStates
BY DEF CallerStates

\* The claims a caller may take are on runs.
LEMMA ClaimTyped ==
  ASSUME Shape, EntriesTrack, NEW i \in Ids, entry[i] # "none"
  PROVE  ClaimOf(i) \in Claims /\ ClaimOf(i).run = <<i, count[i]>>
<1>1. <<i, count[i]>> \in Runs
  BY DEF EntriesTrack
<1> DEFINE role == CASE entry[i] = "running" -> "owner"
                     [] entry[i] = "failed" -> "tombstone"
                     [] OTHER -> "observer"
<1>2. role \in {"owner", "tombstone", "observer"}
  OBVIOUS
<1>3. ClaimOf(i) = [run |-> <<i, count[i]>>, role |-> role]
  BY DEF ClaimOf
<1> QED
  BY <1>1, <1>2, <1>3 DEF Claims

-----------------------------------------------------------------------------
\* What the callers' own steps leave alone.

LEMMA CallerMovesAre ==
  ASSUME Shape, FreeHoldNothing, ThreadsAssumption, NEW c \in Starters,
         \/ Insert(c) \/ InsertDuplicate(c) \/ StagePeers(c) \/ TellCreated(c) \/ CommitStart(c)
         \/ Unwind(c) \/ UnwindSend(c) \/ Revoke(c) \/ Compensate(c) \/ NotTracked(c) \/ JoinDone(c)
         \/ \E i \in Ids : AskJoin(c, i)
  PROVE  CallerMoves(c)
<1> DEFINE s == caller[c]
<1>a. s \in CallerStates
  BY DEF Shape
<1>i. Idle \in CallerStates /\ Idle.at = "idle" /\ Idle.claims = {} /\ Idle.before = {}
  BY BegunTyped DEF Idle, NoRun, Begun, CallerPlaces, ThreadsAssumption
<1>h. /\ s.at \in Free => s.claims = {} /\ s.before = {}
      /\ s.at \in Free \ {"idle"} => s.run[1] \in Ids
      /\ s.at \in Free \ {"idle", "join"} => s.run \in Runs
  BY DEF FreeHoldNothing
<1>1. CASE Insert(c) \/ Unwind(c) \/ Revoke(c) \/ Compensate(c)
  <2>1. PICK p \in {"stage", "revoke", "compensate", "join"} : Goes(c, p)
    BY <1>1 DEF Insert, Unwind, Revoke, Compensate
  <2>2. s.at \in {"insert", "stage", "tell", "revoke", "compensate"}
    BY <1>1 DEF Insert, Unwind, Revoke, Compensate
  <2>3. UNCHANGED <<entry, count, drainers, completion, thread>>
    BY <1>1 DEF Insert, Unwind, Revoke, Compensate
  <2> DEFINE t == [s EXCEPT !.at = p]
  <2>4. t \in CallerStates /\ caller' = [caller EXCEPT ![c] = t]
    BY <1>a, <2>1, PlaceTyped DEF Goes, CallerPlaces
  <2>5. t.at = p /\ t.claims = {} /\ t.before = {} /\ t.run[1] \in Ids /\ t.run \in Runs
    BY <1>a, <1>h, <2>2 DEF CallerStates, Free
  <2> QED
    BY <2>1, <2>2, <2>3, <2>4, <2>5 DEF CallerMoves, Free
<1>2. CASE InsertDuplicate(c) \/ CommitStart(c) \/ NotTracked(c) \/ JoinDone(c)
  <2>1. Returns(c) /\ UNCHANGED <<entry, count, drainers, completion, thread>>
    BY <1>2 DEF InsertDuplicate, CommitStart, NotTracked, JoinDone
  <2>2. /\ s.at \in Free \/ s.claims = {}
        /\ s.at \notin {"spawn", "publish", "drain", "reopen"}
    BY <1>2 DEF InsertDuplicate, CommitStart, NotTracked, JoinDone, Free
  <2> QED
    BY <1>i, <2>1, <2>2 DEF CallerMoves, Returns, Free
<1>3. CASE StagePeers(c)
  <2> DEFINE t == [s EXCEPT !.at = "tell", !.left = Listed]
  <2>1. t \in CallerStates
    BY <1>a, TargetsTyped DEF CallerPlaces, Listed
  <2>2. caller' = [caller EXCEPT ![c] = t] /\ s.at = "stage"
    BY <1>3 DEF StagePeers
  <2>3. t.at = "tell" /\ t.claims = {} /\ t.before = {} /\ t.run[1] \in Ids /\ t.run \in Runs
    BY <1>a, <1>h, <2>2 DEF CallerStates, Free
  <2> QED
    BY <1>3, <2>1, <2>2, <2>3 DEF CallerMoves, StagePeers, Free
<1>4. CASE TellCreated(c) \/ UnwindSend(c)
  <2>1. s.at = "tell" /\ UNCHANGED <<entry, count, drainers, completion, thread>>
    BY <1>4 DEF TellCreated, UnwindSend
  <2>2. s.left \subseteq Runs /\ s.tried \subseteq Runs
    BY <1>a DEF CallerStates
  <2>3. PICK t \in s.left :
          \/ caller' = [caller EXCEPT ![c] = [s EXCEPT !.left = s.left \ {t},
                                                       !.tried = s.tried \cup {t}]]
          \/ caller' = [caller EXCEPT ![c] = [s EXCEPT !.at = "revoke",
                                                       !.tried = s.tried \cup {t}]]
    <3>1. CASE TellCreated(c)
      BY <3>1 DEF TellCreated
    <3>2. CASE UnwindSend(c)
      BY <3>2 DEF UnwindSend
    <3> QED
      BY <1>4, <3>1, <3>2
  <2> DEFINE left == s.left \ {t}
             tried == s.tried \cup {t}
             u == [s EXCEPT !.left = left, !.tried = tried]
             v == [s EXCEPT !.at = "revoke", !.tried = tried]
  <2>4. u \in CallerStates /\ v \in CallerStates
    <3>1. left \in SUBSET Runs /\ tried \in SUBSET Runs /\ "revoke" \in CallerPlaces
      BY <2>2, <2>3 DEF CallerPlaces
    <3> HIDE DEF left, tried
    <3> QED
      BY <1>a, <3>1, TargetsTyped
  <2>5. /\ u.at = "tell" /\ u.claims = {} /\ u.before = {}
        /\ v.at = "revoke" /\ v.claims = {} /\ v.before = {}
        /\ u.run[1] \in Ids /\ u.run \in Runs /\ v.run[1] \in Ids /\ v.run \in Runs
    <3> HIDE DEF left, tried
    <3> QED
      BY <1>a, <1>h, <2>1 DEF CallerStates, Free
  <2>6. caller' = [caller EXCEPT ![c] = u] \/ caller' = [caller EXCEPT ![c] = v]
    BY <2>3
  <2> HIDE DEF u, v
  <2> QED
    BY <2>1, <2>4, <2>5, <2>6 DEF CallerMoves, Free
<1>5. CASE \E i \in Ids : AskJoin(c, i)
  <2>1. PICK i \in Ids : AskJoin(c, i)
    BY <1>5
  <2> DEFINE t == Begun("join", <<i, 0>>, {})
  <2>2. t \in CallerStates /\ t.at = "join" /\ t.claims = {} /\ t.before = {} /\ t.run[1] \in Ids
    BY BegunTyped DEF Begun, CallerPlaces, ThreadsAssumption
  <2> QED
    BY <2>1, <2>2 DEF CallerMoves, AskJoin, Free
<1> QED
  BY <1>1, <1>2, <1>3, <1>4, <1>5

LEMMA ThreadMovesAre ==
  ASSUME NEW r \in Runs, ThreadStep(r) \/ Panic(r)
  PROVE  ThreadMoves(r)
BY DEF ThreadStep, Panic, ThreadMoves, LeaveGate, RunScripts, TellEnding, Unregister, Exit

\* Every step is one of the registry, one of a caller or a thread beside it, or
\* a request.
LEMMA StepKinds ==
  ASSUME Shape, FreeHoldNothing, ThreadsAssumption, [ThreadsNext]_threadVars
  PROVE  \/ \E c \in Starters : RegistryStep(c) \/ CallerMoves(c)
         \/ \E r \in Runs : ThreadMoves(r)
         \/ UNCHANGED <<entry, count, drainers, completion, thread, caller>>
<1>1. CASE UNCHANGED threadVars
  BY <1>1 DEF threadVars
<1>2. CASE \E i \in Ids : RequestShutdown(i)
  BY <1>2 DEF RequestShutdown
<1>3. CASE \E r \in Runs : ThreadStep(r) \/ Panic(r)
  BY <1>3, ThreadMovesAre
<1>4. ASSUME NEW c \in Starters,
             \/ Proceed(c) \/ SpawnFails(c) \/ Unwind(c) \/ UnwindSend(c) \/ AskDrain(c)
             \/ \E i \in Ids : AskJoin(c, i)
             \/ \E i \in Starts[c] : Reserve(c, i)
      PROVE  RegistryStep(c) \/ CallerMoves(c)
  <2>1. Starts[c] \subseteq Ids
    BY DEF ThreadsAssumption
  <2> QED
    BY <1>4, <2>1, CallerMovesAre DEF Proceed, RegistryStep
<1> QED
  BY <1>1, <1>2, <1>3, <1>4 DEF ThreadsNext

-----------------------------------------------------------------------------
\* Each step preserves the strengthening: first the steps beside the registry.

LEMMA RegistryStutters ==
  ASSUME RegistryInv, UNCHANGED <<entry, count, drainers, completion, thread, caller>>
  PROVE  RegistryInv'
BY DEF RegistryInv, Shape, FreeHoldNothing, ReservationHeld, EntriesTrack, FutureOpen,
       ClaimsHeld, Holds, OutcomesProven, DrainHolds, AbsentMeansEnded

LEMMA CallerMovesPreserves ==
  ASSUME RegistryInv, NEW c \in Starters, CallerMoves(c)
  PROVE  RegistryInv'
<1>1. PICK t \in CallerStates :
        /\ t.at \in Free /\ t.claims = {} /\ t.before = {}
        /\ t.at # "idle" => t.run[1] \in Ids
        /\ t.at \notin {"idle", "join"} => t.run \in Runs
        /\ caller' = [caller EXCEPT ![c] = t]
  BY DEF CallerMoves
<1>2. \A e \in Starters : caller'[e] = IF e = c THEN t ELSE caller[e]
  BY <1>1 DEF RegistryInv, Shape
<1>3. UNCHANGED <<entry, count, drainers, completion, thread>>
  BY DEF CallerMoves
<1>4. Shape'
  BY <1>1, <1>3 DEF RegistryInv, Shape
<1>5. FreeHoldNothing'
  BY <1>1, <1>2 DEF RegistryInv, FreeHoldNothing
<1>6. ReservationHeld'
  BY <1>1, <1>2, <1>3 DEF RegistryInv, ReservationHeld, Free
<1>7. EntriesTrack' /\ FutureOpen' /\ AbsentMeansEnded'
  BY <1>3 DEF RegistryInv, EntriesTrack, FutureOpen, AbsentMeansEnded
<1>8. ClaimsHeld'
  BY <1>1, <1>2, <1>3 DEF RegistryInv, ClaimsHeld, Holds
<1>9. OutcomesProven'
  BY <1>1, <1>2, <1>3 DEF RegistryInv, OutcomesProven, Holds, Free
<1>10. DrainHolds'
  BY <1>1, <1>2, <1>3 DEF RegistryInv, DrainHolds
<1> QED
  BY <1>4, <1>5, <1>6, <1>7, <1>8, <1>9, <1>10 DEF RegistryInv

LEMMA ThreadMovesPreserves ==
  ASSUME RegistryInv, NEW r \in Runs, ThreadMoves(r)
  PROVE  RegistryInv'
<1>1. PICK s \in {"scripts", "leaving", "exiting", "clean", "panicked"} :
        thread' = [thread EXCEPT ![r] = s]
  BY DEF ThreadMoves
<1>2. \A q \in Runs : thread'[q] = IF q = r THEN s ELSE thread[q]
  BY <1>1 DEF RegistryInv, Shape
<1>3. thread[r] \in {"gated", "scripts", "leaving", "exiting"}
  BY DEF ThreadMoves
<1>4. UNCHANGED <<entry, count, drainers, completion, caller>>
  BY DEF ThreadMoves
<1>5. \A q \in Runs : Over(q) => Over(q)'
  BY <1>2, <1>3, <1>4
<1>6. \A q \in Runs : thread[q] = "unborn" => thread'[q] = "unborn"
  BY <1>2, <1>3
<1>7. Shape'
  BY <1>1, <1>4 DEF RegistryInv, Shape
<1>8. FreeHoldNothing' /\ EntriesTrack' /\ FutureOpen'
  BY <1>4, <1>6 DEF RegistryInv, FreeHoldNothing, EntriesTrack, FutureOpen
<1>9. ReservationHeld'
  BY <1>4, <1>6 DEF RegistryInv, ReservationHeld
<1>10. ClaimsHeld'
  <2>1. \A e \in Starters : \A claim \in caller[e].claims : claim.run \in Runs
    BY DEF RegistryInv, Shape, CallerStates, Claims
  <2> QED
    BY <1>4, <1>6, <2>1 DEF RegistryInv, ClaimsHeld, Holds
<1>11. OutcomesProven' /\ AbsentMeansEnded'
  BY <1>4, <1>5 DEF RegistryInv, OutcomesProven, AbsentMeansEnded, Holds
<1>12. DrainHolds'
  <2>1. \A e \in Starters : caller[e].before \subseteq Runs
    BY DEF RegistryInv, Shape, CallerStates
  <2> QED
    BY <1>4, <1>5, <2>1 DEF RegistryInv, DrainHolds
<1> QED
  BY <1>7, <1>8, <1>9, <1>10, <1>11, <1>12 DEF RegistryInv

-----------------------------------------------------------------------------
\* Then those of a start.

LEMMA ReservePreserves ==
  ASSUME RegistryInv, ThreadsAssumption, NEW c \in Starters, NEW i \in Ids, Reserve(c, i)
  PROVE  RegistryInv'
<1> DEFINE r == <<i, count[i] + 1>>
           t == Begun("spawn", r, {})
<1>1. /\ entry[i] = "none" /\ count[i] \in 0 .. MaxRuns /\ count[i] + 1 \in 1 .. MaxRuns
      /\ r \in Runs
  BY DEF Reserve, RegistryInv, Shape, Runs, ThreadsAssumption
<1>2. t \in CallerStates /\ t.at = "spawn" /\ t.run = r /\ t.claims = {} /\ t.before = {}
  BY <1>1, BegunTyped, RunInState DEF Begun, CallerPlaces
<1>3. /\ entry' = [entry EXCEPT ![i] = "reserved"] /\ count' = [count EXCEPT ![i] = count[i] + 1]
      /\ caller' = [caller EXCEPT ![c] = t]
      /\ UNCHANGED <<completion, thread>>
  BY DEF Reserve
<1> HIDE DEF t
<1>4. /\ \A j \in Ids : entry'[j] = IF j = i THEN "reserved" ELSE entry[j]
      /\ \A j \in Ids : count'[j] = IF j = i THEN count[i] + 1 ELSE count[j]
      /\ \A j \in Ids : count[j] \in Nat
      /\ \A e \in Starters : caller'[e] = IF e = c THEN t ELSE caller[e]
  BY <1>3 DEF RegistryInv, Shape
<1>5. \A q \in Runs : q[1] \in Ids /\ q[2] \in Nat /\ q = <<q[1], q[2]>>
  BY DEF Runs
<1>6. thread[r] = "unborn" /\ completion[r] = "open"
  BY <1>1, <1>5 DEF RegistryInv, FutureOpen
<1>7. Shape'
  BY <1>1, <1>2, <1>3 DEF RegistryInv, Shape
<1>8. FreeHoldNothing'
  BY <1>1, <1>2, <1>4 DEF RegistryInv, FreeHoldNothing
<1>9. ReservationHeld'
  <2>1. \A e \in Starters \ {c} : caller[e].at \in {"spawn", "publish"} => Id(e) # i /\ Id(e) \in Ids
    BY <1>1 DEF RegistryInv, ReservationHeld
  <2>2. SUFFICES ASSUME NEW e \in Starters, caller'[e].at \in {"spawn", "publish"}
                 PROVE  (/\ Id(e) \in Ids
                         /\ entry[Id(e)] = "reserved" /\ caller[e].run = <<Id(e), count[Id(e)]>>
                         /\ caller[e].run \in Runs
                         /\ \A f \in Starters :
                              caller[f].at \in {"spawn", "publish"} /\ Id(f) = Id(e) => f = e
                         /\ caller[e].at = "spawn" =>
                              thread[caller[e].run] = "unborn" /\ completion[caller[e].run] = "open")'
    BY DEF ReservationHeld
  <2>3. CASE e = c
    BY <1>1, <1>2, <1>3, <1>4, <1>6, <2>1, <2>3
  <2>4. CASE e # c
    <3>1. caller'[e] = caller[e] /\ Id(e) # i /\ Id(e) \in Ids
      BY <1>4, <2>1, <2>2, <2>4
    <3>2. entry'[Id(e)] = entry[Id(e)] /\ count'[Id(e)] = count[Id(e)]
      BY <1>4, <3>1
    <3>3. \A f \in Starters : caller'[f].at \in {"spawn", "publish"} /\ Id(f)' = Id(e) => f = e
      BY <1>2, <1>4, <2>2, <2>4, <3>1 DEF RegistryInv, ReservationHeld
    <3> QED
      BY <1>3, <2>2, <3>1, <3>2, <3>3 DEF RegistryInv, ReservationHeld
  <2> QED
    BY <2>3, <2>4
<1>10. EntriesTrack' /\ FutureOpen' /\ AbsentMeansEnded'
  BY <1>1, <1>3, <1>4, <1>5 DEF RegistryInv, EntriesTrack, FutureOpen, AbsentMeansEnded
<1>11. ClaimsHeld'
  <2>1. \A e \in Starters : \A claim \in caller[e].claims : claim.run[1] \in Ids
    BY DEF RegistryInv, Shape, CallerStates, Claims, Runs
  <2> QED
    BY <1>1, <1>2, <1>3, <1>4, <2>1 DEF RegistryInv, ClaimsHeld, Holds
<1>12. OutcomesProven'
  BY <1>2, <1>3, <1>4 DEF RegistryInv, OutcomesProven, Holds
<1>13. DrainHolds'
  <2>1. \A e \in Starters : caller[e].before \subseteq Runs
    BY DEF RegistryInv, Shape, CallerStates
  <2> QED
    BY <1>2, <1>3, <1>4, <1>5, <2>1 DEF RegistryInv, DrainHolds
<1> QED
  BY <1>7, <1>8, <1>9, <1>10, <1>11, <1>12, <1>13 DEF RegistryInv

LEMMA SpawnThreadPreserves ==
  ASSUME RegistryInv, NEW c \in Starters, SpawnThread(c)
  PROVE  RegistryInv'
<1> DEFINE r == caller[c].run
           t == [caller[c] EXCEPT !.at = "publish"]
<1>1. /\ caller[c] \in CallerStates /\ caller[c].at = "spawn"
      /\ r \in Runs /\ entry[r[1]] = "reserved" /\ r[2] = count[r[1]] /\ r[1] \in Ids
      /\ thread[r] = "unborn" /\ completion[r] = "open"
  BY DEF SpawnThread, RegistryInv, Shape, ReservationHeld
<1>2. t \in CallerStates
  BY <1>1, PlaceTyped DEF CallerPlaces
<1>3. t.at = "publish" /\ t.run = r /\ t.claims = caller[c].claims /\ t.before = caller[c].before
  BY <1>1 DEF CallerStates
<1>4. t.claims = {} /\ t.before = {}
  BY <1>1, <1>3 DEF RegistryInv, FreeHoldNothing
<1>5. /\ caller' = [caller EXCEPT ![c] = t] /\ thread' = [thread EXCEPT ![r] = "gated"]
      /\ UNCHANGED <<entry, count, completion>>
  BY DEF SpawnThread, Goes
<1> HIDE DEF t
<1>6. /\ \A q \in Runs : thread'[q] = IF q = r THEN "gated" ELSE thread[q]
      /\ \A e \in Starters : caller'[e] = IF e = c THEN t ELSE caller[e]
      /\ \A i \in Ids : count[i] \in Nat
  BY <1>5 DEF RegistryInv, Shape
<1>7. \A q \in Runs : Over(q) => Over(q)'
  BY <1>1, <1>5, <1>6
<1>8. Shape'
  BY <1>1, <1>2, <1>5 DEF RegistryInv, Shape
<1>9. FreeHoldNothing'
  BY <1>1, <1>3, <1>4, <1>6 DEF RegistryInv, FreeHoldNothing
<1>10. ReservationHeld'
  BY <1>1, <1>3, <1>5, <1>6 DEF RegistryInv, ReservationHeld
<1>11. EntriesTrack'
  BY <1>1, <1>5, <1>6 DEF RegistryInv, EntriesTrack
<1>12. FutureOpen'
  BY <1>1, <1>5, <1>6 DEF RegistryInv, FutureOpen
<1>13. AbsentMeansEnded'
  BY <1>5, <1>7 DEF RegistryInv, AbsentMeansEnded
<1>14. ClaimsHeld'
  <2>1. \A e \in Starters : \A claim \in caller[e].claims : claim.run \in Runs
    BY DEF RegistryInv, Shape, CallerStates, Claims
  <2> QED
    BY <1>1, <1>4, <1>5, <1>6, <2>1 DEF RegistryInv, ClaimsHeld, Holds
<1>15. OutcomesProven'
  BY <1>3, <1>5, <1>6, <1>7 DEF RegistryInv, OutcomesProven, Holds
<1>16. DrainHolds'
  <2>1. \A e \in Starters : caller[e].before \subseteq Runs
    BY DEF RegistryInv, Shape, CallerStates
  <2> QED
    BY <1>4, <1>5, <1>6, <1>7, <2>1 DEF RegistryInv, DrainHolds
<1> QED
  BY <1>8, <1>9, <1>10, <1>11, <1>12, <1>13, <1>14, <1>15, <1>16 DEF RegistryInv

\* Both of them resolve the reservation, as a thread or as a tombstone.
LEMMA ReservationResolves ==
  ASSUME RegistryInv, ThreadsAssumption, NEW c \in Starters, SpawnFails(c) \/ PublishThread(c)
  PROVE  RegistryInv'
<1> DEFINE i == Id(c)
<1>1. PICK t \in CallerStates, what \in {"failed", "running"} :
        /\ t.at \in Free /\ t.claims = {} /\ t.before = {}
        /\ t.at # "idle" => t.run[1] \in Ids
        /\ t.at \notin {"idle", "join"} => t.run \in Runs
        /\ caller' = [caller EXCEPT ![c] = t] /\ entry' = [entry EXCEPT ![i] = what]
        /\ what = "failed" => caller[c].at = "spawn"
  <2>1. CASE SpawnFails(c)
    <3>1. Idle \in CallerStates /\ Idle.at = "idle" /\ Idle.claims = {} /\ Idle.before = {}
      BY BegunTyped DEF Idle, NoRun, Begun, CallerPlaces, ThreadsAssumption
    <3> QED
      BY <2>1, <3>1 DEF SpawnFails, Returns, Free
  <2>2. CASE PublishThread(c)
    <3> DEFINE t == [caller[c] EXCEPT !.at = "insert"]
    <3>1. /\ caller[c] \in CallerStates /\ caller[c].claims = {} /\ caller[c].before = {}
          /\ Id(c) \in Ids /\ caller[c].run \in Runs
      BY <2>2 DEF PublishThread, RegistryInv, Shape, FreeHoldNothing
    <3>2. t \in CallerStates
      BY <3>1, PlaceTyped DEF CallerPlaces
    <3>3. /\ t.at = "insert" /\ t.claims = {} /\ t.before = {} /\ t.run[1] \in Ids
          /\ t.run \in Runs
      BY <3>1 DEF CallerStates
    <3>4. caller' = [caller EXCEPT ![c] = t] /\ entry' = [entry EXCEPT ![i] = "running"]
      BY <2>2 DEF PublishThread, Goes
    <3> QED
      BY <3>2, <3>3, <3>4 DEF Free
  <2> QED
    BY <2>1, <2>2
<1>2. caller[c].at \in {"spawn", "publish"} /\ UNCHANGED <<count, completion, thread>>
  BY DEF SpawnFails, PublishThread
<1>3. /\ i \in Ids /\ entry[i] = "reserved" /\ <<i, count[i]>> \in Runs
      /\ what = "failed" => thread[<<i, count[i]>>] = "unborn"
      /\ \A e \in Starters : caller[e].at \in {"spawn", "publish"} /\ Id(e) = i => e = c
  BY <1>1, <1>2 DEF RegistryInv, ReservationHeld
<1>4. /\ \A j \in Ids : entry'[j] = IF j = i THEN what ELSE entry[j]
      /\ \A e \in Starters : caller'[e] = IF e = c THEN t ELSE caller[e]
  BY <1>1 DEF RegistryInv, Shape
<1>5. Shape'
  BY <1>1, <1>2 DEF RegistryInv, Shape
<1>6. FreeHoldNothing'
  BY <1>1, <1>4 DEF RegistryInv, FreeHoldNothing
<1>7. ReservationHeld'
  BY <1>1, <1>2, <1>3, <1>4 DEF RegistryInv, ReservationHeld, Free
<1>8. EntriesTrack'
  <2>1. \A j \in Ids \ {i} : entry'[j] = entry[j]
    BY <1>4
  <2>2. entry'[i] = what
    BY <1>3, <1>4
  <2>3. \A j \in Ids \ {i} : entry[j] # "none" =>
          /\ <<j, count[j]>> \in Runs
          /\ entry[j] = "failed" => thread[<<j, count[j]>>] = "unborn"
    BY DEF RegistryInv, EntriesTrack
  <2> QED
    BY <1>2, <1>3, <2>1, <2>2, <2>3 DEF EntriesTrack
<1>9. FutureOpen'
  BY <1>2 DEF RegistryInv, FutureOpen
<1>10. AbsentMeansEnded'
  <2>1. \A r \in Runs : r[1] \in Ids
    BY DEF Runs
  <2>2. SUFFICES ASSUME NEW r \in Runs,
                        r[2] < count[r[1]] \/ (r[2] = count[r[1]] /\ entry'[r[1]] = "none")
                 PROVE  Over(r)
    BY <1>2 DEF AbsentMeansEnded
  <2>3. r[2] < count[r[1]] \/ (r[2] = count[r[1]] /\ entry[r[1]] = "none")
    BY <1>1, <1>4, <2>1, <2>2
  <2> QED
    BY <2>3 DEF RegistryInv, AbsentMeansEnded
<1>11. ClaimsHeld'
  <2>1. \A e \in Starters : \A claim \in caller[e].claims : claim.run[1] \in Ids
    BY DEF RegistryInv, Shape, CallerStates, Claims, Runs
  <2> QED
    BY <1>1, <1>2, <1>3, <1>4, <2>1 DEF RegistryInv, ClaimsHeld, Holds
<1>12. OutcomesProven'
  BY <1>1, <1>2, <1>4 DEF RegistryInv, OutcomesProven, Holds, Free
<1>13. DrainHolds'
  BY <1>1, <1>2, <1>4 DEF RegistryInv, DrainHolds
<1> QED
  BY <1>5, <1>6, <1>7, <1>8, <1>9, <1>10, <1>11, <1>12, <1>13 DEF RegistryInv

-----------------------------------------------------------------------------
\* Those of a join.

LEMMA ClaimRoles ==
  ASSUME NEW i \in Ids
  PROVE  /\ ClaimOf(i).run = <<i, count[i]>>
         /\ ClaimOf(i).role # "observer" => entry[i] \in {"running", "failed"}
         /\ ClaimOf(i).role = "tombstone" => entry[i] = "failed"
BY DEF ClaimOf

\* A caller takes a claim on each id of T.
LEMMA TakingPreserves ==
  ASSUME RegistryInv, NEW c \in Starters, NEW T \in SUBSET Ids, NEW t \in CallerStates,
         \A i \in T : entry[i] \in {"running", "failed", "joining"},
         caller[c].at \in {"join", "drain"},
         caller[c].at = "drain" => \A i \in Ids \ T : entry[i] = "none",
         t.at \in {"resolve", "reopen"}, t.claims = {ClaimOf(i) : i \in T},
         t.before = caller[c].before,
         caller' = [caller EXCEPT ![c] = t],
         entry' = [i \in Ids |-> IF i \in T THEN "joining" ELSE entry[i]],
         UNCHANGED <<count, completion, thread>>
  PROVE  RegistryInv'
<1>1. /\ \A i \in T : entry'[i] = "joining"
      /\ \A i \in Ids \ T : entry'[i] = entry[i]
      /\ \A e \in Starters : caller'[e] = IF e = c THEN t ELSE caller[e]
  BY DEF RegistryInv, Shape
<1>2. \A e \in Starters : \A claim \in caller[e].claims : claim.run \in Runs /\ claim.run[1] \in Ids
  BY DEF RegistryInv, Shape, CallerStates, Claims, Runs
<1>3. \A claim \in t.claims : \E i \in T :
        /\ claim.run = <<i, count[i]>>
        /\ claim.role # "observer" => entry[i] \in {"running", "failed"}
        /\ claim.role = "tombstone" => entry[i] = "failed"
  BY ClaimRoles
<1>4. Shape'
  <2>1. entry' \in [Ids -> {"none", "reserved", "running", "joining", "failed"}]
    BY DEF RegistryInv, Shape
  <2> QED
    BY <2>1 DEF RegistryInv, Shape
<1>5. FreeHoldNothing'
  BY <1>1 DEF RegistryInv, FreeHoldNothing, Free
<1>6. ReservationHeld'
  BY <1>1 DEF RegistryInv, ReservationHeld
<1>7. EntriesTrack' /\ FutureOpen'
  BY <1>1 DEF RegistryInv, EntriesTrack, FutureOpen
<1>8. AbsentMeansEnded'
  <2>1. \A r \in Runs : r[1] \in Ids
    BY DEF Runs
  <2> QED
    BY <1>1, <2>1 DEF RegistryInv, AbsentMeansEnded
<1>9. ClaimsHeld'
  <2>1. SUFFICES ASSUME NEW e \in Starters, NEW claim \in caller'[e].claims,
                        claim.role # "observer"
                 PROVE  /\ entry'[claim.run[1]] = "joining" /\ claim.run[2] = count[claim.run[1]]
                        /\ claim.role = "tombstone" => thread[claim.run] = "unborn"
                        /\ \A f \in Starters : Holds(f, claim.run)' => f = e
    BY DEF ClaimsHeld
  <2>2. \A f \in Starters : \A other \in caller[f].claims : other.role # "observer" =>
          entry[other.run[1]] = "joining"
    BY DEF RegistryInv, ClaimsHeld
  <2>3. CASE e = c
    <3>1. PICK i \in T : /\ claim.run = <<i, count[i]>> /\ entry[i] \in {"running", "failed"}
                         /\ claim.role = "tombstone" => entry[i] = "failed"
      BY <1>1, <1>3, <2>1, <2>3
    <3>2. claim.role = "tombstone" => thread[claim.run] = "unborn"
      BY <3>1 DEF RegistryInv, EntriesTrack
    <3>3. ASSUME NEW f \in Starters, Holds(f, claim.run)' PROVE f = e
      <4>1. CASE f # c
        <5>1. PICK other \in caller[f].claims : other.run = claim.run /\ other.role # "observer"
          BY <1>1, <3>3, <4>1 DEF Holds
        <5> QED
          BY <2>2, <3>1, <5>1
      <4> QED
        BY <2>3, <4>1
    <3> QED
      BY <1>1, <3>1, <3>2, <3>3
  <2>4. CASE e # c
    <3>1. claim \in caller[e].claims
      BY <1>1, <2>1, <2>4
    <3>2. /\ entry[claim.run[1]] = "joining" /\ claim.run[2] = count[claim.run[1]]
          /\ claim.role = "tombstone" => thread[claim.run] = "unborn"
          /\ \A f \in Starters : Holds(f, claim.run) => f = e
      BY <2>1, <3>1 DEF RegistryInv, ClaimsHeld
    <3>3. ASSUME NEW f \in Starters, Holds(f, claim.run)' PROVE f = e
      <4>1. PICK other \in caller'[f].claims : other.run = claim.run /\ other.role # "observer"
        BY <3>3 DEF Holds
      <4>2. CASE f = c
        <5>1. PICK i \in T : other.run = <<i, count[i]>> /\ entry[i] \in {"running", "failed"}
          BY <1>1, <1>3, <4>1, <4>2
        <5> QED
          BY <3>2, <4>1, <5>1
      <4>3. CASE f # c
        BY <1>1, <3>2, <4>1, <4>3 DEF Holds
      <4> QED
        BY <4>2, <4>3
    <3>4. entry'[claim.run[1]] = "joining"
      BY <1>1, <1>2, <3>1, <3>2
    <3> QED
      BY <3>2, <3>3, <3>4
  <2> QED
    BY <2>3, <2>4
<1>10. OutcomesProven'
  BY <1>1 DEF RegistryInv, OutcomesProven, Holds
<1>11. DrainHolds'
  <2>1. SUFFICES ASSUME NEW e \in Starters, NEW r \in caller'[e].before
                 PROVE  /\ caller'[e].at = "drain" => r[2] <= count[r[1]]
                        /\ caller'[e].at \in {"reopen", "resolve", "forget"} =>
                             Over(r) \/ \E claim \in caller'[e].claims : claim.run = r
    BY DEF DrainHolds
  <2>2. CASE e # c
    BY <1>1, <2>1, <2>2 DEF RegistryInv, DrainHolds
  <2>3. CASE e = c /\ caller[c].at = "join"
    BY <1>1, <2>1, <2>3 DEF RegistryInv, FreeHoldNothing, Free
  <2>4. CASE e = c /\ caller[c].at = "drain"
    <3>1. r \in caller[c].before /\ r \in Runs /\ r[1] \in Ids /\ r = <<r[1], r[2]>> /\ r[2] \in Nat
      BY <1>1, <2>1, <2>4 DEF RegistryInv, Shape, CallerStates, Runs
    <3>2. r[2] <= count[r[1]] /\ count[r[1]] \in Nat
      BY <2>4, <3>1 DEF RegistryInv, DrainHolds, Shape
    <3>3. CASE r[2] < count[r[1]] \/ entry[r[1]] = "none"
      <4>1. Over(r)
        BY <3>1, <3>2, <3>3 DEF RegistryInv, AbsentMeansEnded
      <4> QED
        BY <1>1, <2>4, <4>1
    <3>4. CASE r[2] = count[r[1]] /\ entry[r[1]] # "none"
      <4>1. r[1] \in T
        BY <2>4, <3>1, <3>4
      <4>2. ClaimOf(r[1]) \in t.claims /\ ClaimOf(r[1]).run = r
        BY <3>1, <3>4, <4>1, ClaimRoles
      <4> QED
        BY <1>1, <2>4, <4>2
    <3> QED
      BY <3>1, <3>2, <3>3, <3>4
  <2> QED
    BY <2>2, <2>3, <2>4
<1> QED
  BY <1>4, <1>5, <1>6, <1>7, <1>8, <1>9, <1>10, <1>11 DEF RegistryInv

LEMMA ClaimExactPreserves ==
  ASSUME RegistryInv, NEW c \in Starters, ClaimExact(c)
  PROVE  RegistryInv'
<1> DEFINE i == Id(c)
           claims == {ClaimOf(j) : j \in {i}}
           t == [caller[c] EXCEPT !.at = "resolve", !.claims = claims]
<1>1. /\ caller[c] \in CallerStates /\ caller[c].at = "join" /\ i \in Ids
      /\ entry[i] \in {"running", "failed", "joining"}
      /\ UNCHANGED <<count, completion, thread>>
  BY DEF ClaimExact, RegistryInv, Shape, FreeHoldNothing, Free
<1>2. claims \in SUBSET Claims /\ claims = {ClaimOf(i)}
  BY <1>1, ClaimTyped DEF RegistryInv
<1>3. /\ caller' = [caller EXCEPT ![c] = t]
      /\ entry' = [entry EXCEPT ![i] = "joining"]
  BY <1>2 DEF ClaimExact
<1>4. entry' = [j \in Ids |-> IF j \in {i} THEN "joining" ELSE entry[j]]
  BY <1>1, <1>3 DEF RegistryInv, Shape
<1> HIDE DEF claims
<1>5. t \in CallerStates
  BY <1>1, <1>2, ClaimsTyped DEF CallerPlaces
<1>6. t.at = "resolve" /\ t.claims = claims /\ t.before = caller[c].before
  BY <1>1 DEF CallerStates
<1> HIDE DEF t
<1>7. {i} \in SUBSET Ids /\ t.claims = {ClaimOf(j) : j \in {i}}
  BY <1>1, <1>6 DEF claims
<1> QED
  BY <1>1, <1>3, <1>4, <1>5, <1>6, <1>7, TakingPreserves

LEMMA ClaimAllPreserves ==
  ASSUME RegistryInv, NEW c \in Starters, ClaimAll(c)
  PROVE  RegistryInv'
<1> DEFINE T == {i \in Ids : entry[i] # "none"}
           claims == {ClaimOf(j) : j \in T}
           t == [caller[c] EXCEPT !.at = "reopen", !.claims = claims]
<1>1. /\ caller[c] \in CallerStates /\ caller[c].at = "drain"
      /\ \A i \in T : entry[i] \in {"running", "failed", "joining"}
      /\ UNCHANGED <<count, completion, thread>>
  BY DEF ClaimAll, RegistryInv, Shape
<1>2. claims \in SUBSET Claims
  BY ClaimTyped DEF RegistryInv
<1>3. /\ caller' = [caller EXCEPT ![c] = t]
      /\ entry' = [j \in Ids |-> IF j \in T THEN "joining" ELSE "none"]
  BY DEF ClaimAll
<1>4. entry' = [j \in Ids |-> IF j \in T THEN "joining" ELSE entry[j]]
  BY <1>3
<1> HIDE DEF claims
<1>5. t \in CallerStates
  BY <1>1, <1>2, ClaimsTyped DEF CallerPlaces
<1>6. t.at = "reopen" /\ t.claims = claims /\ t.before = caller[c].before
  BY <1>1 DEF CallerStates
<1> HIDE DEF t
<1>7. T \in SUBSET Ids /\ t.claims = {ClaimOf(j) : j \in T} /\ \A i \in Ids \ T : entry[i] = "none"
  BY <1>6 DEF claims
<1> HIDE DEF T
<1> QED
  BY <1>1, <1>3, <1>4, <1>5, <1>6, <1>7, TakingPreserves

LEMMA AskDrainPreserves ==
  ASSUME RegistryInv, ThreadsAssumption, NEW c \in Starters, AskDrain(c)
  PROVE  RegistryInv'
<1> DEFINE before == {<<i, count[i]>> : i \in {j \in Ids : entry[j] # "none"}}
           t == Begun("drain", NoRun, before)
<1>1. before \in SUBSET Runs /\ \A r \in before : r[2] <= count[r[1]]
  BY DEF RegistryInv, EntriesTrack, Shape
<1>2. t \in CallerStates /\ t.at = "drain" /\ t.claims = {} /\ t.before = before
  <2> HIDE DEF before
  <2>1. NoRun \in (Ids \cup {0}) \X (0 .. MaxRuns) /\ "drain" \in CallerPlaces
    BY DEF NoRun, CallerPlaces, ThreadsAssumption
  <2> QED
    BY <1>1, <2>1, BegunTyped DEF Begun
<1>3. caller' = [caller EXCEPT ![c] = t] /\ UNCHANGED <<entry, count, completion, thread>>
  BY DEF AskDrain
<1> HIDE DEF t, before
<1>4. \A e \in Starters : caller'[e] = IF e = c THEN t ELSE caller[e]
  BY <1>3 DEF RegistryInv, Shape
<1>5. Shape'
  BY <1>2, <1>3 DEF RegistryInv, Shape
<1>6. FreeHoldNothing'
  BY <1>2, <1>4 DEF RegistryInv, FreeHoldNothing, Free
<1>7. ReservationHeld'
  BY <1>2, <1>3, <1>4 DEF RegistryInv, ReservationHeld
<1>8. EntriesTrack' /\ FutureOpen' /\ AbsentMeansEnded'
  BY <1>3 DEF RegistryInv, EntriesTrack, FutureOpen, AbsentMeansEnded
<1>9. ClaimsHeld'
  BY <1>2, <1>3, <1>4 DEF RegistryInv, ClaimsHeld, Holds
<1>10. OutcomesProven'
  BY <1>2, <1>3, <1>4 DEF RegistryInv, OutcomesProven, Holds
<1>11. DrainHolds'
  BY <1>1, <1>2, <1>3, <1>4 DEF RegistryInv, DrainHolds
<1> QED
  BY <1>5, <1>6, <1>7, <1>8, <1>9, <1>10, <1>11 DEF RegistryInv

LEMMA ReopenPreserves ==
  ASSUME RegistryInv, NEW c \in Starters, Reopen(c)
  PROVE  RegistryInv'
<1> DEFINE t == [caller[c] EXCEPT !.at = "resolve"]
<1>1. caller[c] \in CallerStates /\ caller[c].at = "reopen"
  BY DEF Reopen, RegistryInv, Shape
<1>2. t \in CallerStates
  BY <1>1, PlaceTyped DEF CallerPlaces
<1>3. t.at = "resolve" /\ t.claims = caller[c].claims /\ t.before = caller[c].before
  BY <1>1 DEF CallerStates
<1>4. caller' = [caller EXCEPT ![c] = t] /\ UNCHANGED <<entry, count, completion, thread>>
  BY DEF Reopen, Goes
<1> HIDE DEF t
<1>5. \A e \in Starters : caller'[e] = IF e = c THEN t ELSE caller[e]
  BY <1>4 DEF RegistryInv, Shape
<1>6. Shape'
  BY <1>2, <1>4 DEF RegistryInv, Shape
<1>7. FreeHoldNothing'
  BY <1>3, <1>5 DEF RegistryInv, FreeHoldNothing, Free
<1>8. ReservationHeld'
  BY <1>3, <1>4, <1>5 DEF RegistryInv, ReservationHeld
<1>9. EntriesTrack' /\ FutureOpen' /\ AbsentMeansEnded'
  BY <1>4 DEF RegistryInv, EntriesTrack, FutureOpen, AbsentMeansEnded
<1>10. ClaimsHeld'
  BY <1>3, <1>4, <1>5 DEF RegistryInv, ClaimsHeld, Holds
<1>11. OutcomesProven'
  BY <1>3, <1>4, <1>5 DEF RegistryInv, OutcomesProven, Holds
<1>12. DrainHolds'
  BY <1>1, <1>3, <1>4, <1>5 DEF RegistryInv, DrainHolds
<1> QED
  BY <1>6, <1>7, <1>8, <1>9, <1>10, <1>11, <1>12 DEF RegistryInv

LEMMA PublishOutcomePreserves ==
  ASSUME RegistryInv, NEW c \in Starters, PublishOutcome(c)
  PROVE  RegistryInv'
<1>1. PICK claim \in caller[c].claims :
        /\ \/ /\ claim.role = "owner" /\ thread[claim.run] \in Returned
              /\ completion' = [completion EXCEPT ![claim.run] = thread[claim.run]]
           \/ /\ claim.role = "tombstone"
              /\ completion' = [completion EXCEPT ![claim.run] = "failed"]
        /\ caller[c].at = "resolve"
        /\ caller' = [caller EXCEPT ![c].at = "forget", ![c].run = claim.run]
  BY DEF PublishOutcome
<1> DEFINE r == claim.run
           t == [caller[c] EXCEPT !.at = "forget", !.run = r]
<1>2. caller[c] \in CallerStates /\ claim \in Claims /\ r \in Runs /\ r[1] \in Ids
  BY DEF RegistryInv, Shape, CallerStates, Claims, Runs
<1>3. r \in (Ids \cup {0}) \X (0 .. MaxRuns)
  BY <1>2 DEF Runs
<1>4. t \in CallerStates
  <2> HIDE DEF r
  <2> QED
    BY <1>2, <1>3, RunTyped DEF CallerPlaces
<1>5. t.at = "forget" /\ t.run = r /\ t.claims = caller[c].claims /\ t.before = caller[c].before
  <2> HIDE DEF r
  <2> QED
    BY <1>2 DEF CallerStates
<1>6. caller' = [caller EXCEPT ![c] = t] /\ UNCHANGED <<entry, count, thread>>
  BY <1>1 DEF PublishOutcome
<1> HIDE DEF t
<1>7. \A e \in Starters : caller'[e] = IF e = c THEN t ELSE caller[e]
  BY <1>6 DEF RegistryInv, Shape
<1>8. /\ entry[r[1]] = "joining" /\ r[2] = count[r[1]] /\ Holds(c, r)
      /\ claim.role = "tombstone" => thread[r] = "unborn"
  BY <1>1 DEF RegistryInv, ClaimsHeld, Holds
<1>9. PICK what \in Returned \cup {"failed"} :
        /\ completion' = [completion EXCEPT ![r] = what]
        /\ thread[r] \in Returned \/ (thread[r] = "unborn" /\ what = "failed")
  BY <1>1, <1>8
<1>10. \A q \in Runs : completion'[q] = IF q = r THEN what ELSE completion[q]
  BY <1>9 DEF RegistryInv, Shape
<1>11. /\ \A q \in Runs : Over(q) => Over(q)'
       /\ Over(r)'
  BY <1>2, <1>6, <1>9, <1>10
<1>12. Shape'
  BY <1>2, <1>4, <1>6, <1>9 DEF RegistryInv, Shape
<1>13. FreeHoldNothing'
  BY <1>5, <1>7 DEF RegistryInv, FreeHoldNothing, Free
<1>14. ReservationHeld'
  BY <1>5, <1>6, <1>7, <1>8, <1>10 DEF RegistryInv, ReservationHeld
<1>15. EntriesTrack'
  BY <1>6 DEF RegistryInv, EntriesTrack
<1>16. FutureOpen'
  <2>1. count[r[1]] \in Nat
    BY <1>2 DEF RegistryInv, Shape
  <2> QED
    BY <1>6, <1>8, <1>10, <2>1 DEF RegistryInv, FutureOpen
<1>17. AbsentMeansEnded'
  BY <1>6, <1>11 DEF RegistryInv, AbsentMeansEnded
<1>18. ClaimsHeld'
  BY <1>5, <1>6, <1>7 DEF RegistryInv, ClaimsHeld, Holds
<1>19. OutcomesProven'
  <2>1. \A q \in Runs : completion'[q] # "open" => Over(q)'
    BY <1>10, <1>11 DEF RegistryInv, OutcomesProven
  <2>2. ASSUME NEW e \in Starters, caller'[e].at = "forget"
        PROVE  (caller[e].run \in Runs /\ Over(caller[e].run) /\ Holds(e, caller[e].run))'
    <3>1. CASE e = c
      BY <1>2, <1>5, <1>7, <1>8, <1>11, <3>1 DEF Holds
    <3>2. CASE e # c
      <4>1. caller'[e] = caller[e] /\ caller[e].at = "forget"
        BY <1>7, <2>2, <3>2
      <4>2. caller[e].run \in Runs /\ Over(caller[e].run) /\ Holds(e, caller[e].run)
        BY <4>1 DEF RegistryInv, OutcomesProven
      <4>3. Over(caller[e].run)'
        BY <1>11, <4>1, <4>2
      <4> QED
        BY <4>1, <4>2, <4>3 DEF Holds
    <3> QED
      BY <3>1, <3>2
  <2> QED
    BY <2>1, <2>2 DEF OutcomesProven
<1>20. DrainHolds'
  <2>1. \A e \in Starters : caller[e].before \subseteq Runs
    BY DEF RegistryInv, Shape, CallerStates
  <2>2. SUFFICES ASSUME NEW e \in Starters, NEW q \in caller'[e].before
                 PROVE  /\ caller'[e].at = "drain" => q[2] <= count'[q[1]]
                        /\ caller'[e].at \in {"reopen", "resolve", "forget"} =>
                             Over(q)' \/ \E other \in caller'[e].claims : other.run = q
    BY DEF DrainHolds
  <2>3. q \in caller[e].before /\ caller'[e].claims = caller[e].claims
    BY <1>5, <1>7, <2>2
  <2>4. q \in Runs /\ (Over(q) => Over(q)')
    BY <1>11, <2>1, <2>3
  <2>5. CASE e = c
    <3>1. Over(q) \/ \E other \in caller[c].claims : other.run = q
      BY <1>1, <2>3, <2>5 DEF RegistryInv, DrainHolds
    <3> QED
      BY <1>5, <1>7, <2>3, <2>4, <2>5, <3>1
  <2>6. CASE e # c
    <3>1. caller'[e] = caller[e]
      BY <1>7, <2>6
    <3>2. /\ caller[e].at = "drain" => q[2] <= count[q[1]]
          /\ caller[e].at \in {"reopen", "resolve", "forget"} =>
               Over(q) \/ \E other \in caller[e].claims : other.run = q
      BY <2>3 DEF RegistryInv, DrainHolds
    <3> QED
      BY <1>6, <2>4, <3>1, <3>2
  <2> QED
    BY <2>5, <2>6
<1> QED
  BY <1>12, <1>13, <1>14, <1>15, <1>16, <1>17, <1>18, <1>19, <1>20 DEF RegistryInv

LEMMA ForgetThreadPreserves ==
  ASSUME RegistryInv, NEW c \in Starters, ForgetThread(c)
  PROVE  RegistryInv'
<1> DEFINE r == caller[c].run
           i == r[1]
           claims == {claim \in caller[c].claims : claim.run # r}
           t == [caller[c] EXCEPT !.at = "resolve", !.claims = claims]
<1>1. /\ caller[c] \in CallerStates /\ caller[c].at = "forget"
      /\ r \in Runs /\ i \in Ids /\ r = <<i, r[2]>> /\ Over(r) /\ Holds(c, r)
  BY DEF ForgetThread, RegistryInv, Shape, OutcomesProven, Runs
<1>2. /\ entry[i] = "joining" /\ r[2] = count[i]
      /\ \A e \in Starters : Holds(e, r) => e = c
  BY <1>1 DEF RegistryInv, ClaimsHeld, Holds
<1>3. claims \in SUBSET Claims
  BY <1>1 DEF CallerStates
<1>4. /\ caller' = [caller EXCEPT ![c] = t] /\ entry' = [entry EXCEPT ![i] = "none"]
      /\ UNCHANGED <<count, completion, thread>>
  BY DEF ForgetThread
<1>5. t \in CallerStates
  <2> HIDE DEF claims
  <2> QED
    BY <1>1, <1>3, ClaimsTyped DEF CallerPlaces
<1>6. t.at = "resolve" /\ t.claims = claims /\ t.before = caller[c].before
  <2> HIDE DEF claims
  <2> QED
    BY <1>1 DEF CallerStates
<1> HIDE DEF t
<1>7. /\ \A e \in Starters : caller'[e] = IF e = c THEN t ELSE caller[e]
      /\ \A j \in Ids : entry'[j] = IF j = i THEN "none" ELSE entry[j]
  BY <1>4 DEF RegistryInv, Shape
<1>8. Shape'
  BY <1>4, <1>5 DEF RegistryInv, Shape
<1>9. FreeHoldNothing'
  BY <1>6, <1>7 DEF RegistryInv, FreeHoldNothing, Free
<1>10. ReservationHeld'
  BY <1>2, <1>4, <1>6, <1>7 DEF RegistryInv, ReservationHeld
<1>11. EntriesTrack' /\ FutureOpen'
  BY <1>4, <1>7 DEF RegistryInv, EntriesTrack, FutureOpen
<1>12. AbsentMeansEnded'
  <2>1. SUFFICES ASSUME NEW q \in Runs,
                        q[2] < count[q[1]] \/ (q[2] = count[q[1]] /\ entry'[q[1]] = "none")
                 PROVE  Over(q)
    BY <1>4 DEF AbsentMeansEnded
  <2>2. q[1] \in Ids /\ q = <<q[1], q[2]>>
    BY DEF Runs
  <2>3. CASE q[1] = i /\ q[2] = count[i]
    BY <1>1, <1>2, <2>2, <2>3
  <2>4. CASE ~(q[1] = i /\ q[2] = count[i])
    BY <1>7, <2>1, <2>2, <2>4 DEF RegistryInv, AbsentMeansEnded
  <2> QED
    BY <2>3, <2>4
<1>13. ClaimsHeld'
  <2>1. SUFFICES ASSUME NEW e \in Starters, NEW claim \in caller'[e].claims,
                        claim.role # "observer"
                 PROVE  /\ entry'[claim.run[1]] = "joining" /\ claim.run[2] = count[claim.run[1]]
                        /\ claim.role = "tombstone" => thread[claim.run] = "unborn"
                        /\ \A f \in Starters : Holds(f, claim.run)' => f = e
    BY <1>4 DEF ClaimsHeld
  <2>2. \A f \in Starters : caller'[f].claims \subseteq caller[f].claims
    BY <1>6, <1>7
  <2>3. claim \in caller[e].claims /\ claim.run \in Runs
    BY <2>1, <2>2 DEF RegistryInv, Shape, CallerStates, Claims
  <2>4. /\ entry[claim.run[1]] = "joining" /\ claim.run[2] = count[claim.run[1]]
        /\ claim.role = "tombstone" => thread[claim.run] = "unborn"
        /\ \A f \in Starters : Holds(f, claim.run) => f = e
    BY <2>1, <2>3 DEF RegistryInv, ClaimsHeld
  <2>5. \A f \in Starters : Holds(f, claim.run)' => Holds(f, claim.run)
    BY <2>2 DEF Holds
  <2>6. claim.run # r
    <3> HIDE DEF r, i
    <3>1. Holds(e, claim.run)
      BY <2>1, <2>3 DEF Holds
    <3>2. CASE e = c
      <4>1. claim \in claims
        BY <1>6, <1>7, <2>1, <3>2
      <4> QED
        BY <4>1
    <3>3. CASE e # c
      BY <1>2, <3>1, <3>3
    <3> QED
      BY <3>2, <3>3
  <2>7. claim.run[1] \in Ids /\ claim.run[1] # i
    BY <1>1, <1>2, <2>3, <2>4, <2>6 DEF Runs
  <2> QED
    BY <1>7, <2>4, <2>5, <2>7
<1>14. OutcomesProven'
  <2>1. ASSUME NEW e \in Starters, caller'[e].at = "forget" PROVE e # c /\ caller'[e] = caller[e]
    BY <1>6, <1>7, <2>1
  <2> QED
    BY <1>4, <2>1 DEF RegistryInv, OutcomesProven, Holds
<1>15. DrainHolds'
  <2>1. SUFFICES ASSUME NEW e \in Starters, NEW q \in caller'[e].before
                 PROVE  /\ caller'[e].at = "drain" => q[2] <= count[q[1]]
                        /\ caller'[e].at \in {"reopen", "resolve", "forget"} =>
                             Over(q) \/ \E other \in caller'[e].claims : other.run = q
    BY <1>4 DEF DrainHolds
  <2>2. CASE e # c
    BY <1>7, <2>1, <2>2 DEF RegistryInv, DrainHolds
  <2>3. CASE e = c
    <3>1. Over(q) \/ \E other \in caller[c].claims : other.run = q
      BY <1>1, <1>6, <1>7, <2>1, <2>3 DEF RegistryInv, DrainHolds
    <3>2. (\E other \in caller[c].claims : other.run = q) =>
            q = r \/ \E other \in claims : other.run = q
      OBVIOUS
    <3> QED
      BY <1>1, <1>6, <1>7, <2>3, <3>1, <3>2
  <2> QED
    BY <2>2, <2>3
<1> QED
  BY <1>8, <1>9, <1>10, <1>11, <1>12, <1>13, <1>14, <1>15 DEF RegistryInv

LEMMA ObserveOutcomePreserves ==
  ASSUME RegistryInv, NEW c \in Starters, ObserveOutcome(c)
  PROVE  RegistryInv'
<1>1. PICK claim \in caller[c].claims :
        /\ caller[c].at = "resolve" /\ completion[claim.run] # "open"
        /\ caller' = [caller EXCEPT ![c].claims = @ \ {claim}]
  BY DEF ObserveOutcome
<1> DEFINE claims == caller[c].claims \ {claim}
           t == [caller[c] EXCEPT !.claims = claims]
<1>2. caller[c] \in CallerStates /\ claim.run \in Runs /\ claims \in SUBSET Claims
  BY <1>1 DEF RegistryInv, Shape, CallerStates, Claims
<1>3. /\ caller' = [caller EXCEPT ![c] = t]
      /\ UNCHANGED <<entry, count, completion, thread>>
  BY <1>1 DEF ObserveOutcome
<1>4. t \in CallerStates /\ t.at = "resolve" /\ t.claims = claims /\ t.before = caller[c].before
  <2> HIDE DEF claims
  <2> QED
    BY <1>1, <1>2 DEF CallerStates
<1> HIDE DEF t
<1>5. /\ \A e \in Starters : caller'[e] = IF e = c THEN t ELSE caller[e]
      /\ \A e \in Starters : caller'[e].claims \subseteq caller[e].claims
  BY <1>3, <1>4 DEF RegistryInv, Shape
<1>6. Over(claim.run)
  BY <1>1, <1>2 DEF RegistryInv, OutcomesProven
<1>7. Shape'
  BY <1>3, <1>4 DEF RegistryInv, Shape
<1>8. FreeHoldNothing'
  BY <1>4, <1>5 DEF RegistryInv, FreeHoldNothing, Free
<1>9. ReservationHeld'
  BY <1>3, <1>4, <1>5 DEF RegistryInv, ReservationHeld
<1>10. EntriesTrack' /\ FutureOpen' /\ AbsentMeansEnded'
  BY <1>3 DEF RegistryInv, EntriesTrack, FutureOpen, AbsentMeansEnded
<1>11. ClaimsHeld'
  BY <1>3, <1>5 DEF RegistryInv, ClaimsHeld, Holds
<1>12. OutcomesProven'
  <2>1. ASSUME NEW e \in Starters, caller'[e].at = "forget" PROVE e # c /\ caller'[e] = caller[e]
    BY <1>4, <1>5, <2>1
  <2> QED
    BY <1>3, <2>1 DEF RegistryInv, OutcomesProven, Holds
<1>13. DrainHolds'
  <2>1. SUFFICES ASSUME NEW e \in Starters, NEW q \in caller'[e].before
                 PROVE  /\ caller'[e].at = "drain" => q[2] <= count[q[1]]
                        /\ caller'[e].at \in {"reopen", "resolve", "forget"} =>
                             Over(q) \/ \E other \in caller'[e].claims : other.run = q
    BY <1>3 DEF DrainHolds
  <2>2. CASE e # c
    BY <1>5, <2>1, <2>2 DEF RegistryInv, DrainHolds
  <2>3. CASE e = c
    <3>1. Over(q) \/ \E other \in caller[c].claims : other.run = q
      BY <1>1, <1>4, <1>5, <2>1, <2>3 DEF RegistryInv, DrainHolds
    <3>2. (\E other \in caller[c].claims : other.run = q) =>
            q = claim.run \/ \E other \in claims : other.run = q
      OBVIOUS
    <3> QED
      BY <1>4, <1>5, <1>6, <2>3, <3>1, <3>2
  <2> QED
    BY <2>2, <2>3
<1> QED
  BY <1>7, <1>8, <1>9, <1>10, <1>11, <1>12, <1>13 DEF RegistryInv

-----------------------------------------------------------------------------
\* The drainers are counted.

LEMMA DrainersOfStep ==
  ASSUME Shape, ThreadsAssumption, FreeHoldNothing, NEW c \in Starters,
         RegistryStep(c) \/ CallerMoves(c)
  PROVE  /\ \A e \in Starters \ {c} : caller'[e] = caller[e]
         /\ \/ AskDrain(c) /\ caller[c].at = "idle" /\ caller'[c].at = "drain"
            \/ Reopen(c) /\ caller[c].at = "reopen" /\ caller'[c].at = "resolve"
            \/ /\ UNCHANGED drainers
               /\ caller[c].at \in {"drain", "reopen"} <=> caller'[c].at \in {"drain", "reopen"}
<1>1. caller[c] \in CallerStates
  BY DEF Shape
<1>2. CASE CallerMoves(c)
  BY <1>2 DEF CallerMoves, Shape, Free
<1>3. CASE AskDrain(c)
  BY <1>3 DEF AskDrain, Begun, Shape
<1>4. CASE Reopen(c)
  BY <1>1, <1>4 DEF Reopen, Goes, Shape, CallerStates
<1>5. CASE \E i \in Ids : Reserve(c, i)
  BY <1>5 DEF Reserve, Begun, Shape
<1>6. CASE SpawnThread(c) \/ PublishThread(c)
  BY <1>1, <1>6 DEF SpawnThread, PublishThread, Goes, Shape, CallerStates
<1>7. CASE SpawnFails(c)
  BY <1>7 DEF SpawnFails, Returns, Idle, Begun, Shape
<1>8. CASE ClaimExact(c)
  BY <1>1, <1>8 DEF ClaimExact, Shape, CallerStates
<1>9. CASE ClaimAll(c)
  BY <1>1, <1>9 DEF ClaimAll, Shape, CallerStates
<1>10. CASE PublishOutcome(c)
  BY <1>1, <1>10 DEF PublishOutcome, Shape, CallerStates
<1>11. CASE ForgetThread(c)
  BY <1>1, <1>11 DEF ForgetThread, Shape, CallerStates
<1>12. CASE ObserveOutcome(c)
  BY <1>1, <1>12 DEF ObserveOutcome, Shape, CallerStates
<1> QED
  BY <1>2, <1>3, <1>4, <1>5, <1>6, <1>7, <1>8, <1>9, <1>10, <1>11, <1>12 DEF RegistryStep

LEMMA DrainersCount ==
  ASSUME Shape, ThreadsAssumption, FreeHoldNothing, DrainersCounted, [ThreadsNext]_threadVars
  PROVE  DrainersCounted'
<1>1. IsFiniteSet(Draining) /\ Draining \subseteq Starters
  BY FS_Subset DEF Draining, ThreadsAssumption
<1>2. ASSUME NEW c \in Starters, RegistryStep(c) \/ CallerMoves(c)
      PROVE  DrainersCounted'
  <2>1. CASE AskDrain(c) /\ caller[c].at = "idle" /\ caller'[c].at = "drain"
    <3>1. Draining' = Draining \cup {c} /\ c \notin Draining
      BY <1>2, <2>1, DrainersOfStep DEF Draining
    <3>2. Cardinality(Draining') = Cardinality(Draining) + 1
      BY <1>1, <3>1, FS_AddElement
    <3> QED
      BY <2>1, <3>2 DEF DrainersCounted, AskDrain
  <2>2. CASE Reopen(c) /\ caller[c].at = "reopen" /\ caller'[c].at = "resolve"
    <3>1. Draining' = Draining \ {c} /\ c \in Draining
      BY <1>2, <2>2, DrainersOfStep DEF Draining
    <3>2. Cardinality(Draining') = Cardinality(Draining) - 1
      BY <1>1, <3>1, FS_RemoveElement
    <3> QED
      BY <2>2, <3>2 DEF DrainersCounted, Reopen
  <2>3. CASE /\ UNCHANGED drainers
             /\ caller[c].at \in {"drain", "reopen"} <=> caller'[c].at \in {"drain", "reopen"}
    <3>1. Draining' = Draining
      BY <1>2, <2>3, DrainersOfStep DEF Draining
    <3> QED
      BY <2>3, <3>1 DEF DrainersCounted
  <2> QED
    BY <1>2, <2>1, <2>2, <2>3, DrainersOfStep
<1>3. CASE UNCHANGED <<drainers, caller>>
  BY <1>3 DEF DrainersCounted, Draining
<1> QED
  BY <1>2, <1>3, StepKinds DEF ThreadMoves

-----------------------------------------------------------------------------
\* The types of what the proof says nothing of.

LEMMA JobSpent ==
  ASSUME Frame, NEW job \in DOMAIN Jobs, Has(job), Spent(job)
  PROVE  jobs' \in [DOMAIN Jobs -> Nat]
BY DEF Frame

LEMMA FrameOfCaller ==
  ASSUME Shape, Frame, FreeHoldNothing, ThreadsAssumption, NEW c \in Starters,
         \/ Proceed(c) \/ SpawnFails(c) \/ Unwind(c) \/ UnwindSend(c) \/ AskDrain(c)
         \/ \E i \in Ids : AskJoin(c, i) \/ Reserve(c, i)
  PROVE  Frame'
<1>1. DOMAIN Jobs = {"start", "wait", "fault"}
  BY DEF ThreadsAssumption
<1>2. caller[c] \in CallerStates
  BY DEF Shape
<1>3. caller[c].at \in {"tell", "compensate"} => caller[c].run \in Runs
  BY DEF FreeHoldNothing, Free
<1>4. CASE SpawnFails(c) \/ Unwind(c)
  BY <1>1, <1>4, JobSpent DEF SpawnFails, Unwind, Frame
<1>5. CASE UnwindSend(c)
  <2>1. PICK t \in caller[c].left : told' \in {told, told \cup {Event(t, "created", caller[c].run)}}
    BY <1>5 DEF UnwindSend
  <2>2. Event(t, "created", caller[c].run) \in [to : Runs, kind : {"created", "destroyed"}, of : Runs]
    BY <1>2, <1>3, <1>5 DEF UnwindSend, CallerStates, Event
  <2>3. jobs' \in [DOMAIN Jobs -> Nat]
    BY <1>1, <1>5, JobSpent DEF UnwindSend
  <2> QED
    BY <1>5, <2>1, <2>2, <2>3 DEF UnwindSend, Frame
<1>6. CASE TellCreated(c)
  <2>1. PICK t \in caller[c].left : told' = told \cup {Event(t, "created", caller[c].run)}
    BY <1>6 DEF TellCreated
  <2>2. Event(t, "created", caller[c].run) \in [to : Runs, kind : {"created", "destroyed"}, of : Runs]
    BY <1>2, <1>3, <1>6 DEF TellCreated, CallerStates, Event
  <2> QED
    BY <1>6, <2>1, <2>2 DEF TellCreated, Frame
<1>7. CASE Compensate(c)
  <2>1. \A t \in caller[c].tried : Event(t, "destroyed", caller[c].run) \in
          [to : Runs, kind : {"created", "destroyed"}, of : Runs]
    BY <1>2, <1>3, <1>7 DEF Compensate, CallerStates, Event
  <2> QED
    BY <1>7, <2>1 DEF Compensate, Frame
<1>8. CASE AskDrain(c) \/ \E i \in Ids : AskJoin(c, i) \/ Reserve(c, i)
  BY <1>1, <1>8, JobSpent DEF AskDrain, AskJoin, Reserve, Frame
<1>9. CASE InsertDuplicate(c) \/ StagePeers(c) \/ CommitStart(c)
  BY <1>9 DEF InsertDuplicate, StagePeers, CommitStart, Frame
<1>10. CASE Insert(c)
  <2>1. caller[c].run[2] \in 0 .. MaxRuns
    BY <1>2 DEF CallerStates
  <2> QED
    BY <1>10, <2>1 DEF Insert, Frame
<1>11. CASE Revoke(c)
  <2>1. Nobody \in 0 .. MaxRuns
    BY DEF Nobody, ThreadsAssumption
  <2> QED
    BY <1>11, <2>1 DEF Revoke, Frame
<1>12. CASE \/ SpawnThread(c) \/ PublishThread(c) \/ ClaimExact(c) \/ NotTracked(c) \/ ClaimAll(c)
            \/ Reopen(c) \/ PublishOutcome(c) \/ ForgetThread(c) \/ ObserveOutcome(c) \/ JoinDone(c)
  BY <1>12 DEF SpawnThread, PublishThread, ClaimExact, NotTracked, ClaimAll, Reopen,
     PublishOutcome, ForgetThread, ObserveOutcome, JoinDone, Frame
<1> QED
  BY <1>4, <1>5, <1>6, <1>7, <1>8, <1>9, <1>10, <1>11, <1>12 DEF Proceed

LEMMA FrameNext ==
  ASSUME Shape, Frame, FreeHoldNothing, ThreadsAssumption, [ThreadsNext]_threadVars
  PROVE  Frame'
<1>1. CASE UNCHANGED threadVars
  BY <1>1 DEF threadVars, Frame
<1>2. ASSUME NEW i \in Ids, RequestShutdown(i) PROVE Frame'
  <2>1. <<i, listed[i]>> \in Runs
    BY <1>2 DEF RequestShutdown, Frame, Runs, Nobody, ThreadsAssumption
  <2> QED
    BY <1>2, <2>1 DEF RequestShutdown, Frame
<1>3. ASSUME NEW r \in Runs, ThreadStep(r) \/ Panic(r) PROVE Frame'
  <2>1. CASE LeaveGate(r) \/ Exit(r)
    BY <2>1 DEF LeaveGate, Exit, Frame
  <2>2. CASE RunScripts(r)
    BY <2>2 DEF RunScripts, Frame, Listed
  <2>3. CASE Panic(r)
    BY <2>3, JobSpent DEF Panic, Frame, ThreadsAssumption
  <2>4. CASE TellEnding(r)
    <3>1. \A t \in Listed : Event(t, "destroyed", r) \in
            [to : Runs, kind : {"created", "destroyed"}, of : Runs]
      BY DEF Listed, Event
    <3> QED
      BY <2>4, <3>1 DEF TellEnding, Frame
  <2>5. CASE Unregister(r)
    <3>1. Nobody \in 0 .. MaxRuns
      BY DEF Nobody, ThreadsAssumption
    <3> QED
      BY <2>5, <3>1 DEF Unregister, Frame
  <2> QED
    BY <1>3, <2>1, <2>2, <2>3, <2>4, <2>5 DEF ThreadStep
<1>4. \A c \in Starters : Starts[c] \subseteq Ids
  BY DEF ThreadsAssumption
<1> QED
  BY <1>1, <1>2, <1>3, <1>4, FrameOfCaller DEF ThreadsNext

-----------------------------------------------------------------------------
\* The theorems.

Inv == RegistryInv /\ Frame /\ DrainersCounted

LEMMA InvInit == ThreadsAssumption /\ ThreadsInit => Inv
<1> SUFFICES ASSUME ThreadsAssumption, ThreadsInit PROVE Inv
  OBVIOUS
<1> USE DEF ThreadsInit
<1>1. \A c \in Starters : caller[c].at = "idle" /\ caller[c].claims = {} /\ caller[c].before = {}
  BY DEF Idle, Begun
<1>2. \A r \in Runs : r[1] \in Ids /\ r[2] \in Nat /\ r[2] > 0
  BY DEF Runs
<1>3. Shape
  <2>1. Idle \in CallerStates
    BY BegunTyped DEF Idle, NoRun, CallerPlaces, ThreadsAssumption
  <2> QED
    BY <2>1 DEF Shape, ThreadsAssumption
<1>4. FreeHoldNothing /\ ReservationHeld /\ ClaimsHeld /\ DrainHolds
  BY <1>1 DEF FreeHoldNothing, ReservationHeld, ClaimsHeld, DrainHolds
<1>5. EntriesTrack /\ FutureOpen /\ OutcomesProven
  BY <1>1 DEF EntriesTrack, FutureOpen, OutcomesProven
<1>6. AbsentMeansEnded
  BY <1>2 DEF AbsentMeansEnded
<1>7. Frame
  BY DEF Frame, Nobody, ThreadsAssumption
<1>8. DrainersCounted
  <2>1. Draining = {}
    BY <1>1 DEF Draining
  <2> QED
    BY <2>1, FS_EmptySet DEF DrainersCounted
<1> QED
  BY <1>3, <1>4, <1>5, <1>6, <1>7, <1>8 DEF Inv, RegistryInv

LEMMA InvNext == ThreadsAssumption /\ Inv /\ [ThreadsNext]_threadVars => Inv'
<1> SUFFICES ASSUME ThreadsAssumption, Inv, [ThreadsNext]_threadVars PROVE Inv'
  OBVIOUS
<1>1. Shape /\ FreeHoldNothing /\ Frame /\ DrainersCounted /\ RegistryInv
  BY DEF Inv, RegistryInv
<1>2. RegistryInv'
  <2>1. ASSUME NEW c \in Starters, RegistryStep(c) PROVE RegistryInv'
    BY <1>1, <2>1, ReservePreserves, SpawnThreadPreserves, ReservationResolves, ClaimExactPreserves,
       AskDrainPreserves, ClaimAllPreserves, ReopenPreserves, PublishOutcomePreserves,
       ForgetThreadPreserves, ObserveOutcomePreserves DEF RegistryStep
  <2>2. CASE UNCHANGED <<entry, count, drainers, completion, thread, caller>>
    BY <1>1, <2>2, RegistryStutters
  <2> QED
    BY <1>1, <2>1, <2>2, StepKinds, CallerMovesPreserves, ThreadMovesPreserves
<1> QED
  BY <1>1, <1>2, FrameNext, DrainersCount DEF Inv

\* The registry, the callers and the threads stay in step, in every state of any
\* behaviour: the invariant the theorems below follow from.
THEOREM InvHolds == ThreadsSpec => []Inv
BY ThreadsAssumption, InvInit, InvNext, PTL DEF ThreadsSpec

\* Every variable stays in its type; the count of drains needs the strengthening.
THEOREM ThreadsTyped == ThreadsSpec => []ThreadsTypeOK
<1>1. Inv => ThreadsTypeOK
  <2> SUFFICES ASSUME Inv PROVE ThreadsTypeOK
    OBVIOUS
  <2>1. IsFiniteSet(Draining)
    BY ThreadsAssumption, FS_Subset DEF Draining, ThreadsAssumption
  <2>2. drainers \in Nat
    BY <2>1, FS_CardinalityType DEF Inv, DrainersCounted
  <2> QED
    BY <2>2 DEF Inv, RegistryInv, Shape, Frame, ThreadsTypeOK
<1> QED
  BY <1>1, InvHolds, PTL

\* An id that the registry does not track has no thread left, however starts,
\* failures, joins and drains interleave: join_exact may answer that there is
\* nothing to join, and reserve may give the id away again.
THEOREM AbsentEnded == ThreadsSpec => []AbsentMeansEnded
<1>1. Inv => AbsentMeansEnded
  BY DEF Inv, RegistryInv
<1> QED
  BY <1>1, InvHolds, PTL

\* A drain returns only when every session reserved before it began is over, and
\* the gate on new starts counts exactly the drains that still take claims.
THEOREM DrainsCover == ThreadsSpec => []DrainCovers
<1>1. Inv => DrainCovers
  BY DEF Inv, RegistryInv, DrainHolds, DrainersCounted, Draining, DrainCovers
<1> QED
  BY <1>1, InvHolds, PTL
-----------------------------------------------------------------------------
\* The publication of a session: who builds a run, what its gates and its thread
\* are by then, who has been told of it and who can list it.

Building == {"spawn", "publish", "insert", "stage", "tell", "revoke", "compensate"}

\* One caller builds a run, which has been reserved.
Built ==
  \A c \in Starters : caller[c].at \in Building =>
    /\ caller[c].run \in Runs /\ caller[c].run[2] <= count[caller[c].run[1]]
    /\ \A e \in Starters :
         caller[e].at \in Building /\ caller[e].run = caller[c].run => e = c

\* Where a caller is in the start of a run tells how far the run is.
StagedAt(c) ==
  LET r == caller[c].run IN
  /\ caller[c].at = "spawn" => thread[r] = "unborn" /\ gate[r] = "shut" /\ r \notin Listed
  /\ caller[c].at \in {"publish", "insert"} =>
       thread[r] = "gated" /\ gate[r] = "shut" /\ r \notin Listed
  /\ caller[c].at = "stage" => thread[r] = "gated" /\ gate[r] = "shut" /\ r \in Listed
  /\ caller[c].at = "tell" => thread[r] = "gated" /\ gate[r] = "prepared" /\ r \in Listed
  /\ caller[c].at = "revoke" =>
       thread[r] = "gated" /\ gate[r] \in {"shut", "prepared"} /\ r \in Listed
  /\ caller[c].at = "compensate" => gate[r] = "cancelled"

\* The gates of a run, its place in the map and its thread.
GateOf(r) ==
  /\ r \in Listed =>
       thread[r] \in {"gated", "scripts", "leaving", "panicked"} /\ gate[r] # "cancelled"
  /\ thread[r] \in {"scripts", "leaving", "exiting", "panicked"} => gate[r] = "committed"
  /\ gate[r] = "committed" /\ thread[r] \in {"gated", "scripts", "leaving"} => r \in Listed
  /\ gate[r] = "cancelled" => thread[r] \in {"gated", "clean"}

\* The runs still to come are not published.
Untouched ==
  \A r \in Runs : r[2] > count[r[1]] => gate[r] = "shut" /\ r \notin Listed

\* Who was told of a creation is told of the end of what did not come to be.
Tracks(c, t, r) ==
  caller[c].run = r /\ caller[c].at \in {"tell", "revoke", "compensate"} /\ t \in caller[c].tried

Answered(t, r) ==
  Event(t, "created", r) \in told =>
    \/ gate[r] = "committed"
    \/ Event(t, "destroyed", r) \in told
    \/ \E c \in Starters : Tracks(c, t, r)

\* A run with scripts knows, or will be told, what is listed beside it.
Pending(c, r, s) ==
  /\ caller[c].run = s
  /\ caller[c].at \in {"stage", "revoke"} \/ (caller[c].at = "tell" /\ r \in caller[c].left)

Found(r, s) ==
  thread[r] = "scripts" /\ s \in Listed =>
    \/ s \in known[r]
    \/ Event(r, "created", s) \in told
    \/ \E c \in Starters : Pending(c, r, s)

PublicationInv ==
  /\ Built /\ Untouched
  /\ \A c \in Starters : StagedAt(c)
  /\ \A r \in Runs : GateOf(r)
  /\ \A t, r \in Runs : Answered(t, r)
  /\ \A r, s \in Runs : r # s => Found(r, s)

LEMMA RunPair ==
  ASSUME NEW r \in Runs, ThreadsAssumption
  PROVE  /\ r = <<r[1], r[2]>> /\ r[1] \in Ids /\ r[2] \in 1 .. MaxRuns
         /\ r[2] \in Nat /\ r[2] # Nobody
         /\ r \in Listed <=> listed[r[1]] = r[2]
BY DEF Runs, Listed, Nobody, ThreadsAssumption

\* A caller who builds no run goes where no run is built, and touches none.
LEMMA PublicationKept ==
  ASSUME PublicationInv, Shape, NEW c \in Starters,
         \A e \in Starters \ {c} : caller'[e] = caller[e],
         caller'[c].at \notin Building,
         caller[c].at \notin {"stage", "tell", "revoke", "compensate"},
         UNCHANGED <<thread, gate, listed, told, known, count>>
  PROVE  PublicationInv'
<1>1. Listed' = Listed
  BY DEF Listed
<1>2. Built' /\ Untouched'
  BY <1>1 DEF PublicationInv, Built, Untouched
<1>3. ASSUME NEW e \in Starters PROVE StagedAt(e)'
  <2>1. CASE e = c
    BY <2>1 DEF StagedAt, Building
  <2>2. CASE e # c
    BY <1>1, <2>2 DEF PublicationInv, StagedAt
  <2> QED
    BY <2>1, <2>2
<1>4. \A r \in Runs : GateOf(r)'
  BY <1>1 DEF PublicationInv, GateOf
<1>5. ASSUME NEW t \in Runs, NEW r \in Runs PROVE Answered(t, r)'
  <2>1. \A e \in Starters : Tracks(e, t, r) => Tracks(e, t, r)'
    BY DEF Tracks
  <2> QED
    BY <2>1 DEF PublicationInv, Answered
<1>6. ASSUME NEW r \in Runs, NEW s \in Runs, r # s PROVE Found(r, s)'
  <2>1. \A e \in Starters : Pending(e, r, s) => Pending(e, r, s)'
    BY DEF Pending
  <2> QED
    BY <1>1, <1>6, <2>1 DEF PublicationInv, Found
<1> QED
  BY <1>2, <1>3, <1>4, <1>5, <1>6 DEF PublicationInv

\* A caller goes on with the run it builds, and no other run is touched: it is
\* enough to look at that run.
LEMMA OwnRun ==
  ASSUME PublicationInv, Shape, NEW c \in Starters, NEW r \in Runs,
         caller[c].at \in Building, caller[c].run = r,
         caller'[c].at \in Building => caller'[c].run = r,
         \A e \in Starters \ {c} : caller'[e] = caller[e],
         count' = count, known' = known,
         \A q \in Runs \ {r} : /\ thread'[q] = thread[q] /\ gate'[q] = gate[q]
                               /\ q \in Listed' <=> q \in Listed,
         told \subseteq told',
         \A t, q \in Runs : q # r /\ Event(t, "created", q) \in told' =>
           Event(t, "created", q) \in told,
         thread'[r] # "scripts",
         StagedAt(c)', GateOf(r)',
         \A t \in Runs : Answered(t, r)',
         \A q \in Runs : q # r => Found(q, r)'
  PROVE  PublicationInv'
<1>1. /\ r[2] <= count[r[1]]
      /\ \A e \in Starters \ {c} : caller[e].at \in Building => caller[e].run # r
  BY DEF PublicationInv, Built
<1>2. Built'
  <2>1. SUFFICES ASSUME NEW e \in Starters, caller'[e].at \in Building
                 PROVE  /\ caller'[e].run \in Runs
                        /\ caller'[e].run[2] <= count[caller'[e].run[1]]
                        /\ \A f \in Starters :
                             caller'[f].at \in Building /\ caller'[f].run = caller'[e].run => f = e
    BY DEF Built
  <2>2. \A f \in Starters : caller'[f].at \in Building => caller'[f].run = caller[f].run
    OBVIOUS
  <2>3. \A f \in Starters : caller'[f].at \in Building => caller[f].at \in Building
    OBVIOUS
  <2> QED
    BY <2>1, <2>2, <2>3 DEF PublicationInv, Built
<1>3. Untouched'
  <2>1. SUFFICES ASSUME NEW q \in Runs, q[2] > count[q[1]] PROVE gate'[q] = "shut" /\ q \notin Listed'
    BY DEF Untouched
  <2>2. count[r[1]] \in Nat /\ r[2] \in Nat
    BY ThreadsAssumption, RunPair DEF Shape, ThreadsAssumption
  <2>3. q # r
    BY <1>1, <2>1, <2>2
  <2> QED
    BY <2>1, <2>3 DEF PublicationInv, Untouched
<1>4. ASSUME NEW e \in Starters PROVE StagedAt(e)'
  <2>1. CASE e = c
    BY <2>1
  <2>2. CASE e # c
    <3>1. caller[e].at \in Building => caller[e].run \in Runs \ {r}
      BY <1>1, <2>2 DEF PublicationInv, Built
    <3>2. caller'[e] = caller[e] /\ StagedAt(e)
      BY <2>2 DEF PublicationInv
    <3> QED
      BY <3>1, <3>2 DEF StagedAt, Building
  <2> QED
    BY <2>1, <2>2
<1>5. ASSUME NEW q \in Runs PROVE GateOf(q)'
  BY DEF PublicationInv, GateOf
<1>6. ASSUME NEW t \in Runs, NEW q \in Runs PROVE Answered(t, q)'
  <2>1. CASE q = r
    BY <2>1
  <2>2. CASE q # r
    <3>1. \A e \in Starters : Tracks(e, t, q) => Tracks(e, t, q)'
      BY <2>2 DEF Tracks
    <3>2. Answered(t, q) /\ gate'[q] = gate[q]
      BY <2>2 DEF PublicationInv
    <3>3. Event(t, "created", q) \in told' => Event(t, "created", q) \in told
      BY <2>2
    <3> QED
      BY <3>1, <3>2, <3>3 DEF Answered
  <2> QED
    BY <2>1, <2>2
<1>7. ASSUME NEW q \in Runs, NEW s \in Runs, q # s PROVE Found(q, s)'
  <2>1. CASE s = r
    BY <1>7, <2>1
  <2>2. CASE s # r /\ q = r
    BY <2>2 DEF Found
  <2>3. CASE s # r /\ q # r
    <3>1. \A e \in Starters : Pending(e, q, s) => Pending(e, q, s)'
      BY <2>3 DEF Pending
    <3>2. Found(q, s)
      BY <1>7 DEF PublicationInv
    <3> QED
      BY <2>3, <3>1, <3>2 DEF Found
  <2> QED
    BY <2>1, <2>2, <2>3
<1> QED
  BY <1>2, <1>3, <1>4, <1>5, <1>6, <1>7 DEF PublicationInv

\* Where a step leaves its caller.
LEMMA GoesTo ==
  ASSUME Shape, NEW c \in Starters, NEW p \in CallerPlaces, Goes(c, p)
  PROVE  /\ \A e \in Starters \ {c} : caller'[e] = caller[e]
         /\ caller'[c].at = p /\ caller'[c].run = caller[c].run
         /\ caller'[c].left = caller[c].left /\ caller'[c].tried = caller[c].tried
BY DEF Goes, Shape, CallerStates

LEMMA ReturnsTo ==
  ASSUME Shape, NEW c \in Starters, Returns(c)
  PROVE  /\ \A e \in Starters \ {c} : caller'[e] = caller[e]
         /\ caller'[c].at = "idle"
BY DEF Returns, Idle, Begun, Shape

\* Nobody else builds the run, so nobody else owes an answer or a notice of it.
LEMMA OnlyBuilder ==
  ASSUME PublicationInv, NEW c \in Starters, caller[c].at \in Building
  PROVE  /\ caller[c].run \in Runs /\ StagedAt(c) /\ GateOf(caller[c].run)
         /\ \A e \in Starters, t \in Runs : Tracks(e, t, caller[c].run) => e = c
         /\ \A e \in Starters, t \in Runs : Pending(e, t, caller[c].run) => e = c
<1>1. /\ caller[c].run \in Runs
      /\ \A e \in Starters : caller[e].at \in Building /\ caller[e].run = caller[c].run => e = c
  BY DEF PublicationInv, Built
<1> QED
  BY <1>1 DEF PublicationInv, Tracks, Pending, Building

\* Before the first peer is told, nobody has been told of the run.
LEMMA Untold ==
  ASSUME PublicationInv, NEW c \in Starters,
         caller[c].at \in {"spawn", "publish", "insert", "stage"}, NEW t \in Runs
  PROVE  Event(t, "created", caller[c].run) \in told => Event(t, "destroyed", caller[c].run) \in told
<1>1. caller[c].at \in Building
  BY DEF Building
<1>2. ~\E e \in Starters : Tracks(e, t, caller[c].run)
  BY <1>1, OnlyBuilder DEF Tracks
<1>3. gate[caller[c].run] = "shut"
  BY <1>1, OnlyBuilder DEF StagedAt
<1> QED
  BY <1>1, <1>2, <1>3, OnlyBuilder DEF PublicationInv, Answered

LEMMA PublishesReserve ==
  ASSUME PublicationInv, Shape, FutureOpen, ThreadsAssumption,
         NEW c \in Starters, NEW i \in Ids, Reserve(c, i)
  PROVE  PublicationInv'
<1> DEFINE r == <<i, count[i] + 1>>
<1>1. /\ count[i] \in Nat /\ r \in Runs /\ r[1] = i /\ r[2] = count[i] + 1
      /\ \A j \in Ids : count[j] \in Nat /\ count'[j] = IF j = i THEN count[i] + 1 ELSE count[j]
  BY DEF Reserve, Shape, Runs, ThreadsAssumption
<1>2. /\ thread[r] = "unborn" /\ gate[r] = "shut" /\ r \notin Listed
      /\ \A e \in Starters : caller[e].at \in Building => caller[e].run # r
  BY <1>1 DEF PublicationInv, Built, Untouched, FutureOpen
<1>3. /\ caller[c].at = "idle"
      /\ caller'[c].at = "spawn" /\ caller'[c].run = r
      /\ \A e \in Starters \ {c} : caller'[e] = caller[e]
  BY DEF Reserve, Begun, Shape
<1>4. Listed' = Listed /\ UNCHANGED <<thread, gate, told, known>>
  BY DEF Reserve, Listed
<1> HIDE DEF r
<1>5. Built'
  <2>1. SUFFICES ASSUME NEW e \in Starters, caller'[e].at \in Building
                 PROVE  /\ caller'[e].run \in Runs
                        /\ caller'[e].run[2] <= count'[caller'[e].run[1]]
                        /\ \A f \in Starters :
                             caller'[f].at \in Building /\ caller'[f].run = caller'[e].run => f = e
    BY DEF Built
  <2>2. CASE e = c
    BY <1>1, <1>2, <1>3, <2>2
  <2>3. CASE e # c
    <3>1. /\ caller[e].run \in Runs /\ caller[e].run[2] <= count[caller[e].run[1]]
          /\ \A f \in Starters :
               caller[f].at \in Building /\ caller[f].run = caller[e].run => f = e
      BY <1>3, <2>1, <2>3 DEF PublicationInv, Built
    <3>2. caller[e].run[1] \in Ids /\ caller[e].run[2] \in Nat
      BY <3>1, RunPair
    <3>3. caller[e].run[2] <= count'[caller[e].run[1]]
      <4>1. \A j \in Ids : count[j] \in Nat /\ count'[j] \in Nat /\ count[j] <= count'[j]
        <5>1. ASSUME NEW j \in Ids, j = i
              PROVE  count[j] \in Nat /\ count'[j] \in Nat /\ count[j] <= count'[j]
          BY <1>1, <5>1
        <5>2. ASSUME NEW j \in Ids, j # i
              PROVE  count[j] \in Nat /\ count'[j] \in Nat /\ count[j] <= count'[j]
          BY <1>1, <5>2
        <5> QED
          BY <5>1, <5>2
      <4> DEFINE j == caller[e].run[1]
                 n == caller[e].run[2]
      <4>2. j \in Ids /\ n \in Nat /\ n <= count[j]
        BY <3>1, <3>2
      <4> HIDE DEF j, n
      <4>3. n <= count'[j]
        BY <4>1, <4>2
      <4> QED
        BY <4>3 DEF j, n
    <3> QED
      BY <1>2, <1>3, <2>1, <2>3, <3>1, <3>3
  <2> QED
    BY <2>2, <2>3
<1>6. Untouched'
  <2>1. SUFFICES ASSUME NEW q \in Runs, q[2] > count'[q[1]] PROVE gate[q] = "shut" /\ q \notin Listed
    BY <1>4 DEF Untouched
  <2>2. q[2] > count[q[1]]
    BY <1>1, <2>1, RunPair
  <2> QED
    BY <2>2 DEF PublicationInv, Untouched
<1>7. ASSUME NEW e \in Starters PROVE StagedAt(e)'
  <2>1. CASE e = c
    BY <1>2, <1>3, <1>4, <2>1 DEF StagedAt
  <2>2. CASE e # c
    BY <1>3, <1>4, <2>2 DEF PublicationInv, StagedAt
  <2> QED
    BY <2>1, <2>2
<1>8. \A q \in Runs : GateOf(q)'
  BY <1>4 DEF PublicationInv, GateOf
<1>9. ASSUME NEW t \in Runs, NEW q \in Runs PROVE Answered(t, q)'
  <2>1. \A e \in Starters : Tracks(e, t, q) => Tracks(e, t, q)'
    BY <1>3 DEF Tracks
  <2> QED
    BY <1>4, <2>1 DEF PublicationInv, Answered
<1>10. ASSUME NEW q \in Runs, NEW s \in Runs, q # s PROVE Found(q, s)'
  <2>1. \A e \in Starters : Pending(e, q, s) => Pending(e, q, s)'
    BY <1>3 DEF Pending
  <2> QED
    BY <1>4, <1>10, <2>1 DEF PublicationInv, Found
<1> QED
  BY <1>5, <1>6, <1>7, <1>8, <1>9, <1>10 DEF PublicationInv

\* The thread is spawned and published; the run is not in the map yet.
LEMMA PublishesSpawn ==
  ASSUME PublicationInv, Shape, NEW c \in Starters, SpawnThread(c) \/ PublishThread(c)
  PROVE  PublicationInv'
<1>1. caller[c].at \in {"spawn", "publish"} /\ caller[c].at \in Building
  BY DEF SpawnThread, PublishThread, Building
<1>2. PICK r \in Runs : r = caller[c].run /\ StagedAt(c) /\ GateOf(r)
  BY <1>1, OnlyBuilder
<1>3. /\ \A e \in Starters \ {c} : caller'[e] = caller[e]
      /\ caller'[c].at \in {"publish", "insert"} /\ caller'[c].run = r
  BY <1>2, GoesTo DEF SpawnThread, PublishThread, CallerPlaces
<1>4. Listed' = Listed /\ UNCHANGED <<gate, told, known, count>>
  BY DEF SpawnThread, PublishThread, Listed
<1>5. /\ thread'[r] = "gated" /\ gate[r] = "shut" /\ r \notin Listed
      /\ \A q \in Runs \ {r} : thread'[q] = thread[q]
  BY <1>1, <1>2 DEF SpawnThread, PublishThread, StagedAt, Shape
<1>6. \A t \in Runs : Answered(t, r)'
  BY <1>1, <1>2, <1>4, Untold DEF Answered
<1>7. StagedAt(c)' /\ GateOf(r)' /\ \A q \in Runs : Found(q, r)'
  BY <1>3, <1>4, <1>5 DEF StagedAt, GateOf, Found
<1> QED
  BY <1>1, <1>2, <1>3, <1>4, <1>5, <1>6, <1>7, OwnRun

LEMMA PublishesInsert ==
  ASSUME PublicationInv, Shape, Frame, ThreadsAssumption, NEW c \in Starters, Insert(c)
  PROVE  PublicationInv'
<1>1. caller[c].at = "insert" /\ caller[c].at \in Building
  BY DEF Insert, Building
<1>2. PICK r \in Runs : r = caller[c].run /\ StagedAt(c) /\ GateOf(r)
  BY <1>1, OnlyBuilder
<1>3. /\ \A e \in Starters \ {c} : caller'[e] = caller[e]
      /\ caller'[c].at = "stage" /\ caller'[c].run = r
  BY <1>2, GoesTo DEF Insert, CallerPlaces
<1>4. UNCHANGED <<thread, gate, told, known, count>>
  BY DEF Insert
<1>5. thread[r] = "gated" /\ gate[r] = "shut"
  BY <1>1, <1>2 DEF StagedAt
<1>6. /\ listed[r[1]] = Nobody
      /\ \A j \in Ids : listed'[j] = IF j = r[1] THEN r[2] ELSE listed[j]
  BY <1>2, RunPair DEF Insert, Frame
<1>7. ASSUME NEW q \in Runs PROVE q \in Listed' <=> q \in Listed \/ q = r
  <2>1. /\ q[1] \in Ids /\ q[2] # Nobody /\ q = <<q[1], q[2]>>
        /\ r[1] \in Ids /\ r = <<r[1], r[2]>>
        /\ q \in Listed <=> listed[q[1]] = q[2]
    BY <1>2, RunPair
  <2>2. q \in Listed' <=> listed'[q[1]] = q[2]
    BY DEF Listed
  <2> QED
    BY <1>6, <2>1, <2>2
<1>8. \A t \in Runs : Answered(t, r)'
  BY <1>1, <1>2, <1>4, Untold DEF Answered
<1>9. \A q \in Runs : Found(q, r)'
  BY <1>3 DEF Found, Pending
<1>10. StagedAt(c)' /\ GateOf(r)'
  BY <1>2, <1>3, <1>4, <1>5, <1>7 DEF StagedAt, GateOf
<1> QED
  BY <1>1, <1>2, <1>3, <1>4, <1>5, <1>7, <1>8, <1>9, <1>10, OwnRun

\* The id is taken by a live session: the run is given up before it was told of.
LEMMA PublishesDuplicate ==
  ASSUME PublicationInv, Shape, Frame, NEW c \in Starters, InsertDuplicate(c)
  PROVE  PublicationInv'
<1>1. caller[c].at = "insert" /\ caller[c].at \in Building
  BY DEF InsertDuplicate, Building
<1>2. PICK r \in Runs : r = caller[c].run /\ StagedAt(c) /\ GateOf(r)
  BY <1>1, OnlyBuilder
<1>3. /\ \A e \in Starters \ {c} : caller'[e] = caller[e]
      /\ caller'[c].at = "idle"
  BY ReturnsTo DEF InsertDuplicate
<1>4. Listed' = Listed /\ UNCHANGED <<thread, told, known, count>>
  BY DEF InsertDuplicate, Listed
<1>5. thread[r] = "gated" /\ r \notin Listed
  BY <1>1, <1>2 DEF StagedAt
<1>6. gate'[r] = "cancelled" /\ \A q \in Runs \ {r} : gate'[q] = gate[q]
  BY <1>2 DEF InsertDuplicate, Frame
<1>7. \A t \in Runs : Answered(t, r)'
  BY <1>1, <1>2, <1>4, Untold DEF Answered
<1>8. StagedAt(c)' /\ GateOf(r)' /\ \A q \in Runs : Found(q, r)'
  BY <1>3, <1>4, <1>5, <1>6 DEF StagedAt, GateOf, Found
<1> QED
  BY <1>1, <1>2, <1>3, <1>4, <1>5, <1>6, <1>7, <1>8, OwnRun DEF Building

\* Every run with scripts is listed, and will be told.
LEMMA PublishesStage ==
  ASSUME PublicationInv, Shape, Frame, NEW c \in Starters, StagePeers(c)
  PROVE  PublicationInv'
<1>1. caller[c].at = "stage" /\ caller[c].at \in Building
  BY DEF StagePeers, Building
<1>2. PICK r \in Runs : r = caller[c].run /\ StagedAt(c) /\ GateOf(r)
  BY <1>1, OnlyBuilder
<1>3. /\ \A e \in Starters \ {c} : caller'[e] = caller[e]
      /\ caller'[c].at = "tell" /\ caller'[c].run = r /\ caller'[c].left = Listed
  BY <1>2 DEF StagePeers, Shape, CallerStates
<1>4. Listed' = Listed /\ UNCHANGED <<thread, told, known, count>>
  BY DEF StagePeers, Listed
<1>5. thread[r] = "gated" /\ r \in Listed
  BY <1>1, <1>2 DEF StagedAt
<1>6. gate'[r] = "prepared" /\ \A q \in Runs \ {r} : gate'[q] = gate[q]
  BY <1>2 DEF StagePeers, Frame
<1>7. \A t \in Runs : Answered(t, r)'
  BY <1>1, <1>2, <1>4, Untold DEF Answered
<1>8. ASSUME NEW q \in Runs PROVE Found(q, r)'
  <2>1. thread[q] = "scripts" => q \in Listed
    BY DEF PublicationInv, GateOf
  <2> QED
    BY <1>3, <1>4, <2>1 DEF Found, Pending
<1>9. StagedAt(c)' /\ GateOf(r)'
  BY <1>3, <1>4, <1>5, <1>6 DEF StagedAt, GateOf
<1> QED
  BY <1>1, <1>2, <1>3, <1>4, <1>5, <1>6, <1>7, <1>8, <1>9, OwnRun

\* A peer is told of the run, or a send to it unwinds; it counts as tried.
LEMMA PublishesTell ==
  ASSUME PublicationInv, Shape, NEW c \in Starters, TellCreated(c) \/ UnwindSend(c)
  PROVE  PublicationInv'
<1>1. caller[c].at = "tell" /\ caller[c].at \in Building /\ caller[c] \in CallerStates
  BY DEF TellCreated, UnwindSend, Building, Shape
<1>2. PICK r \in Runs : r = caller[c].run /\ StagedAt(c) /\ GateOf(r)
  BY <1>1, OnlyBuilder
<1>3. PICK t \in caller[c].left :
        /\ told' \in {told, told \cup {Event(t, "created", r)}}
        /\ \A e \in Starters \ {c} : caller'[e] = caller[e]
        /\ caller'[c].run = r /\ caller'[c].tried = caller[c].tried \cup {t}
        /\ \/ caller'[c].at = "revoke"
           \/ /\ caller'[c].at = "tell" /\ caller'[c].left = caller[c].left \ {t}
              /\ Event(t, "created", r) \in told'
  <2>1. CASE TellCreated(c)
    <3>1. PICK t \in caller[c].left :
            /\ caller' = [caller EXCEPT ![c].left = @ \ {t}, ![c].tried = @ \cup {t}]
            /\ told' = told \cup {Event(t, "created", r)}
      BY <1>2, <2>1 DEF TellCreated
    <3> QED
      BY <1>1, <1>2, <3>1 DEF Shape, CallerStates
  <2>2. CASE UnwindSend(c)
    <3>1. PICK t \in caller[c].left :
            /\ caller' = [caller EXCEPT ![c].at = "revoke", ![c].tried = @ \cup {t}]
            /\ told' \in {told, told \cup {Event(t, "created", r)}}
      BY <1>2, <2>2 DEF UnwindSend
    <3> QED
      BY <1>1, <1>2, <3>1 DEF Shape, CallerStates
  <2> QED
    BY <2>1, <2>2
<1>4. Listed' = Listed /\ UNCHANGED <<thread, gate, known, count>>
  BY DEF TellCreated, UnwindSend, Listed
<1>5. thread[r] = "gated" /\ gate[r] = "prepared" /\ r \in Listed
  BY <1>1, <1>2 DEF StagedAt
<1>6. told \subseteq told'
  BY <1>3
<1>7. ASSUME NEW u \in Runs, NEW q \in Runs, Event(u, "created", q) \in told',
             Event(u, "created", q) \notin told
      PROVE  q = r /\ u = t
  BY <1>3, <1>7 DEF Event
<1>8. ASSUME NEW u \in Runs PROVE Answered(u, r)'
  <2>1. SUFFICES ASSUME Event(u, "created", r) \in told',
                        Event(u, "destroyed", r) \notin told'
                 PROVE  Tracks(c, u, r)'
    BY DEF Answered
  <2>2. u = t \/ Tracks(c, u, r)
    <3>1. CASE Event(u, "created", r) \in told
      BY <1>1, <1>2, <1>5, <1>6, <2>1, <3>1, OnlyBuilder DEF PublicationInv, Answered
    <3>2. CASE Event(u, "created", r) \notin told
      BY <1>2, <1>7, <2>1, <3>2
    <3> QED
      BY <3>1, <3>2
  <2> QED
    BY <1>3, <2>2 DEF Tracks
<1>9. ASSUME NEW q \in Runs, q # r PROVE Found(q, r)'
  <2>1. SUFFICES ASSUME thread[q] = "scripts", r \notin known[q],
                        Event(q, "created", r) \notin told'
                 PROVE  Pending(c, q, r)'
    BY <1>4 DEF Found
  <2>2. Pending(c, q, r)
    BY <1>1, <1>2, <1>5, <1>6, <1>9, <2>1, OnlyBuilder DEF PublicationInv, Found
  <2>3. q \in caller[c].left
    BY <1>1, <2>2 DEF Pending
  <2> QED
    BY <1>3, <2>1, <2>3 DEF Pending
<1>10. StagedAt(c)' /\ GateOf(r)'
  BY <1>2, <1>3, <1>4, <1>5 DEF StagedAt, GateOf
<1> QED
  BY <1>1, <1>2, <1>3, <1>4, <1>5, <1>6, <1>7, <1>8, <1>9, <1>10, OwnRun

\* Everybody left to tell has been told when the run may begin.
LEMMA PublishesCommit ==
  ASSUME PublicationInv, Shape, Frame, NEW c \in Starters, CommitStart(c)
  PROVE  PublicationInv'
<1>1. caller[c].at = "tell" /\ caller[c].left = {} /\ caller[c].at \in Building
  BY DEF CommitStart, Building
<1>2. PICK r \in Runs : r = caller[c].run /\ StagedAt(c) /\ GateOf(r)
  BY <1>1, OnlyBuilder
<1>3. /\ \A e \in Starters \ {c} : caller'[e] = caller[e]
      /\ caller'[c].at = "idle"
  BY ReturnsTo DEF CommitStart
<1>4. Listed' = Listed /\ UNCHANGED <<thread, told, known, count>>
  BY DEF CommitStart, Listed
<1>5. thread[r] = "gated" /\ r \in Listed
  BY <1>1, <1>2 DEF StagedAt
<1>6. gate'[r] = "committed" /\ \A q \in Runs \ {r} : gate'[q] = gate[q]
  BY <1>2 DEF CommitStart, Frame
<1>7. \A t \in Runs : Answered(t, r)'
  BY <1>6 DEF Answered
<1>8. ASSUME NEW q \in Runs, q # r PROVE Found(q, r)'
  <2>1. ~\E e \in Starters : Pending(e, q, r)
    BY <1>1, <1>2, OnlyBuilder DEF Pending
  <2>2. Found(q, r)
    BY <1>2, <1>8 DEF PublicationInv
  <2> QED
    BY <1>4, <2>1, <2>2 DEF Found
<1>9. StagedAt(c)' /\ GateOf(r)'
  BY <1>3, <1>4, <1>5, <1>6 DEF StagedAt, GateOf
<1> QED
  BY <1>1, <1>2, <1>3, <1>4, <1>5, <1>6, <1>7, <1>8, <1>9, OwnRun DEF Building

LEMMA PublishesUnwind ==
  ASSUME PublicationInv, Shape, NEW c \in Starters, Unwind(c)
  PROVE  PublicationInv'
<1>1. caller[c].at \in {"stage", "tell"} /\ caller[c].at \in Building
  BY DEF Unwind, Building
<1>2. PICK r \in Runs : r = caller[c].run /\ StagedAt(c) /\ GateOf(r)
  BY <1>1, OnlyBuilder
<1>3. /\ \A e \in Starters \ {c} : caller'[e] = caller[e]
      /\ caller'[c].at = "revoke" /\ caller'[c].run = r /\ caller'[c].tried = caller[c].tried
  BY <1>2, GoesTo DEF Unwind, CallerPlaces
<1>4. Listed' = Listed /\ UNCHANGED <<thread, gate, told, known, count>>
  BY DEF Unwind, Listed
<1>5. thread[r] = "gated" /\ gate[r] \in {"shut", "prepared"} /\ r \in Listed
  BY <1>1, <1>2 DEF StagedAt
<1>6. ASSUME NEW t \in Runs PROVE Answered(t, r)'
  <2>1. \A e \in Starters : Tracks(e, t, r) => Tracks(e, t, r)'
    BY <1>3 DEF Tracks
  <2> QED
    BY <1>2, <1>4, <2>1 DEF PublicationInv, Answered
<1>7. \A q \in Runs : Found(q, r)'
  BY <1>3 DEF Found, Pending
<1>8. StagedAt(c)' /\ GateOf(r)'
  BY <1>2, <1>3, <1>4, <1>5 DEF StagedAt, GateOf
<1> QED
  BY <1>1, <1>2, <1>3, <1>4, <1>5, <1>6, <1>7, <1>8, OwnRun

LEMMA PublishesRevoke ==
  ASSUME PublicationInv, Shape, Frame, ThreadsAssumption, NEW c \in Starters, Revoke(c)
  PROVE  PublicationInv'
<1>1. caller[c].at = "revoke" /\ caller[c].at \in Building
  BY DEF Revoke, Building
<1>2. PICK r \in Runs : r = caller[c].run /\ StagedAt(c) /\ GateOf(r)
  BY <1>1, OnlyBuilder
<1>3. /\ \A e \in Starters \ {c} : caller'[e] = caller[e]
      /\ caller'[c].at = "compensate" /\ caller'[c].run = r
      /\ caller'[c].tried = caller[c].tried
  BY <1>2, GoesTo DEF Revoke, CallerPlaces
<1>4. UNCHANGED <<thread, told, known, count>>
  BY DEF Revoke
<1>5. thread[r] = "gated"
  BY <1>1, <1>2 DEF StagedAt
<1>6. gate'[r] = "cancelled" /\ \A q \in Runs \ {r} : gate'[q] = gate[q]
  BY <1>2 DEF Revoke, Frame
<1>7. /\ listed[r[1]] = r[2]
      /\ \A j \in Ids : listed'[j] = IF j = r[1] THEN Nobody ELSE listed[j]
  BY <1>2, RunPair DEF Revoke, Frame
<1>8. ASSUME NEW q \in Runs PROVE q \in Listed' <=> q \in Listed /\ q # r
  <2>1. /\ q[1] \in Ids /\ q[2] # Nobody /\ q = <<q[1], q[2]>>
        /\ r[1] \in Ids /\ r = <<r[1], r[2]>>
        /\ q \in Listed <=> listed[q[1]] = q[2]
    BY RunPair
  <2>2. q \in Listed' <=> listed'[q[1]] = q[2]
    BY DEF Listed
  <2> QED
    BY <1>7, <2>1, <2>2
<1>9. ASSUME NEW t \in Runs PROVE Answered(t, r)'
  <2>1. \A e \in Starters : Tracks(e, t, r) => Tracks(e, t, r)'
    BY <1>3 DEF Tracks
  <2>2. gate[r] # "committed"
    BY <1>1, <1>2 DEF StagedAt
  <2> QED
    BY <1>2, <1>4, <2>1, <2>2 DEF PublicationInv, Answered
<1>10. \A q \in Runs : Found(q, r)'
  BY <1>8 DEF Found
<1>11. StagedAt(c)' /\ GateOf(r)'
  BY <1>2, <1>3, <1>4, <1>5, <1>6, <1>8 DEF StagedAt, GateOf
<1> QED
  BY <1>1, <1>2, <1>3, <1>4, <1>5, <1>6, <1>8, <1>9, <1>10, <1>11, OwnRun

\* All who were tried are told of the end, and the caller turns to the join.
LEMMA PublishesCompensate ==
  ASSUME PublicationInv, Shape, NEW c \in Starters, Compensate(c)
  PROVE  PublicationInv'
<1>1. caller[c].at = "compensate" /\ caller[c].at \in Building
  BY DEF Compensate, Building
<1>2. PICK r \in Runs : r = caller[c].run /\ StagedAt(c) /\ GateOf(r)
  BY <1>1, OnlyBuilder
<1>3. /\ \A e \in Starters \ {c} : caller'[e] = caller[e]
      /\ caller'[c].at = "join"
  BY GoesTo DEF Compensate, CallerPlaces
<1>4. Listed' = Listed /\ UNCHANGED <<thread, gate, known, count>>
  BY DEF Compensate, Listed
<1>5. gate[r] = "cancelled" /\ thread[r] # "scripts" /\ r \notin Listed
  BY <1>1, <1>2 DEF StagedAt, GateOf
<1>6. told' = told \cup {Event(t, "destroyed", r) : t \in caller[c].tried}
  BY <1>2 DEF Compensate
<1>7. ASSUME NEW t \in Runs, NEW q \in Runs, Event(t, "created", q) \in told'
      PROVE  Event(t, "created", q) \in told
  <2>1. \A u \in caller[c].tried : Event(t, "created", q) # Event(u, "destroyed", r)
    BY DEF Event
  <2> QED
    BY <1>6, <1>7, <2>1
<1>8. ASSUME NEW t \in Runs PROVE Answered(t, r)'
  <2>1. SUFFICES ASSUME Event(t, "created", r) \in told
                 PROVE  Event(t, "destroyed", r) \in told'
    BY <1>7 DEF Answered
  <2>2. Event(t, "destroyed", r) \in told \/ Tracks(c, t, r)
    BY <1>1, <1>2, <1>5, <2>1, OnlyBuilder DEF PublicationInv, Answered
  <2> QED
    BY <1>6, <2>2 DEF Tracks
<1>9. StagedAt(c)' /\ GateOf(r)' /\ \A q \in Runs : Found(q, r)'
  BY <1>2, <1>3, <1>4, <1>5 DEF StagedAt, GateOf, Found
<1>10. told \subseteq told'
  BY <1>6
<1> QED
  BY <1>1, <1>2, <1>3, <1>4, <1>5, <1>7, <1>8, <1>9, <1>10, OwnRun DEF Building

\* What a thread does concerns its own run, which nobody builds any more, and
\* whoever begins knows all that is listed.
LEMMA PublishesThread ==
  ASSUME PublicationInv, Shape, Frame, ThreadsAssumption,
         NEW r \in Runs, ThreadStep(r) \/ Panic(r)
  PROVE  PublicationInv'
<1>0. GateOf(r) /\ \A q \in Runs : GateOf(q)
  BY DEF PublicationInv
<1>1. UNCHANGED <<caller, count, gate>>
  BY DEF ThreadStep, LeaveGate, RunScripts, TellEnding, Unregister, Exit, Panic
<1>2. \A q \in Runs \ {r} : thread'[q] = thread[q]
  BY DEF ThreadStep, LeaveGate, RunScripts, TellEnding, Unregister, Exit, Panic, Shape
<1>3. \A q \in Runs \ {r} : known'[q] = known[q]
  BY DEF ThreadStep, LeaveGate, RunScripts, TellEnding, Unregister, Exit, Panic, Frame
<1>4. ASSUME NEW q \in Runs PROVE q \in Listed' <=> q \in Listed /\ ~(Unregister(r) /\ q = r)
  <2>1. CASE Unregister(r)
    <3>1. thread[r] = "leaving" /\ r \in Listed
      BY <1>0, <2>1 DEF Unregister, GateOf
    <3>2. \A j \in Ids : listed'[j] = IF j = r[1] THEN Nobody ELSE listed[j]
      BY <2>1, RunPair DEF Unregister, Frame
    <3>3. /\ q[1] \in Ids /\ q[2] # Nobody /\ q = <<q[1], q[2]>>
          /\ r[1] \in Ids /\ r = <<r[1], r[2]>>
          /\ q \in Listed <=> listed[q[1]] = q[2]
          /\ r \in Listed <=> listed[r[1]] = r[2]
      BY RunPair
    <3>4. q \in Listed' <=> listed'[q[1]] = q[2]
      BY DEF Listed
    <3> QED
      BY <2>1, <3>1, <3>2, <3>3, <3>4
  <2>2. CASE ~Unregister(r)
    <3>1. listed' = listed
      BY <2>2 DEF ThreadStep, LeaveGate, RunScripts, TellEnding, Exit, Panic
    <3> QED
      BY <2>2, <3>1 DEF Listed
  <2> QED
    BY <2>1, <2>2
<1>5. gate[r] \in {"committed", "cancelled"}
  BY <1>0 DEF ThreadStep, LeaveGate, RunScripts, TellEnding, Unregister, Exit, Panic, GateOf
<1>6. told \subseteq told'
  BY DEF ThreadStep, LeaveGate, RunScripts, TellEnding, Unregister, Exit, Panic
<1>7. ASSUME NEW t \in Runs, NEW q \in Runs, Event(t, "created", q) \in told'
      PROVE  Event(t, "created", q) \in told
  <2>1. \A u \in Runs : Event(t, "created", q) # Event(u, "destroyed", r)
    BY DEF Event
  <2>2. Listed \subseteq Runs
    BY DEF Listed
  <2> QED
    BY <1>7, <2>1, <2>2 DEF ThreadStep, LeaveGate, RunScripts, TellEnding, Unregister, Exit, Panic
<1>8. Built'
  BY <1>1 DEF PublicationInv, Built
<1>9. Untouched'
  BY <1>1, <1>4 DEF PublicationInv, Untouched
<1>10. ASSUME NEW e \in Starters PROVE StagedAt(e)'
  <2>1. StagedAt(e) /\ (caller[e].at \in Building => caller[e].run \in Runs)
    BY DEF PublicationInv, Built
  <2>2. caller[e].at \in Building \ {"compensate"} => caller[e].run \in Runs \ {r}
    BY <1>5, <2>1 DEF StagedAt, Building
  <2>3. caller[e].at \in Building \ {"compensate"} =>
          /\ thread'[caller[e].run] = thread[caller[e].run]
          /\ caller[e].run \in Listed' <=> caller[e].run \in Listed
    BY <1>2, <1>4, <2>2
  <2> QED
    BY <1>1, <2>1, <2>3 DEF StagedAt, Building
<1>11. ASSUME NEW q \in Runs PROVE GateOf(q)'
  <2>1. CASE q # r
    BY <1>0, <1>1, <1>2, <1>4, <2>1 DEF GateOf
  <2>2. CASE q = r
    <3>1. thread' = [thread EXCEPT ![r] = thread'[r]]
      BY DEF ThreadStep, LeaveGate, RunScripts, TellEnding, Unregister, Exit, Panic, Shape
    <3>2. CASE LeaveGate(r)
      <4>1. gate[r] = "cancelled" /\ thread'[r] = "clean" /\ r \notin Listed
        BY <1>0, <3>2 DEF LeaveGate, Shape, GateOf
      <4> QED
        BY <1>1, <1>4, <2>2, <4>1 DEF GateOf
    <3>3. CASE RunScripts(r)
      <4>1. gate[r] = "committed" /\ thread'[r] = "scripts" /\ r \in Listed /\ ~Unregister(r)
        BY <1>0, <3>3 DEF RunScripts, Unregister, Shape, GateOf
      <4> QED
        BY <1>1, <1>4, <2>2, <4>1 DEF GateOf
    <3>4. CASE Panic(r) \/ TellEnding(r)
      <4>1. /\ gate[r] = "committed" /\ thread'[r] \in {"panicked", "leaving"}
            /\ r \in Listed /\ ~Unregister(r)
        BY <1>0, <3>4 DEF Panic, TellEnding, Unregister, Shape, GateOf
      <4> QED
        BY <1>1, <1>4, <2>2, <4>1 DEF GateOf
    <3>5. CASE Unregister(r) \/ Exit(r)
      <4>1. /\ gate[r] = "committed" /\ thread'[r] \in {"exiting", "clean"}
            /\ Unregister(r) \/ r \notin Listed
        BY <1>0, <3>5 DEF Unregister, Exit, Shape, GateOf
      <4> QED
        BY <1>1, <1>4, <2>2, <4>1 DEF GateOf
    <3> QED
      BY <3>2, <3>3, <3>4, <3>5 DEF ThreadStep
  <2> QED
    BY <2>1, <2>2
<1>12. ASSUME NEW t \in Runs, NEW q \in Runs PROVE Answered(t, q)'
  <2>1. \A e \in Starters : Tracks(e, t, q) => Tracks(e, t, q)'
    BY <1>1 DEF Tracks
  <2> QED
    BY <1>1, <1>6, <1>7, <2>1 DEF PublicationInv, Answered
<1>13. ASSUME NEW q \in Runs, NEW s \in Runs, q # s PROVE Found(q, s)'
  <2>1. CASE q # r
    <3>1. \A e \in Starters : Pending(e, q, s) => Pending(e, q, s)'
      BY <1>1 DEF Pending
    <3>2. Found(q, s)
      BY <1>13 DEF PublicationInv
    <3> QED
      BY <1>2, <1>3, <1>4, <1>6, <2>1, <3>1, <3>2 DEF Found
  <2>2. CASE q = r
    <3>1. thread'[r] = "scripts" => RunScripts(r)
      BY DEF ThreadStep, LeaveGate, TellEnding, Unregister, Exit, Panic, Shape
    <3>2. RunScripts(r) => known'[r] = Listed
      BY DEF RunScripts, Frame
    <3> QED
      BY <1>4, <2>2, <3>1, <3>2 DEF Found
  <2> QED
    BY <2>1, <2>2
<1> QED
  BY <1>8, <1>9, <1>10, <1>11, <1>12, <1>13 DEF PublicationInv

LEMMA PublicationStutters ==
  ASSUME PublicationInv, UNCHANGED <<thread, gate, listed, told, known, count, caller>>
  PROVE  PublicationInv'
BY DEF PublicationInv, Built, Untouched, StagedAt, GateOf, Answered, Tracks, Found, Pending, Listed

\* The steps at which nothing is published.
LEMMA PublishesNothing ==
  ASSUME PublicationInv, Shape, ThreadsAssumption, NEW c \in Starters,
         \/ SpawnFails(c) \/ ClaimExact(c) \/ NotTracked(c) \/ ClaimAll(c) \/ Reopen(c)
         \/ PublishOutcome(c) \/ ForgetThread(c) \/ ObserveOutcome(c) \/ JoinDone(c)
         \/ AskDrain(c) \/ \E i \in Ids : AskJoin(c, i)
  PROVE  PublicationInv'
<1>1. UNCHANGED <<thread, gate, listed, told, known, count>>
  BY DEF SpawnFails, ClaimExact, NotTracked, ClaimAll, Reopen, PublishOutcome, ForgetThread,
     ObserveOutcome, JoinDone, AskDrain, AskJoin
<1>2. caller[c].at \notin {"stage", "tell", "revoke", "compensate"}
  BY DEF SpawnFails, ClaimExact, NotTracked, ClaimAll, Reopen, PublishOutcome, ForgetThread,
     ObserveOutcome, JoinDone, AskDrain, AskJoin
<1>3. caller[c] \in CallerStates
  BY DEF Shape
<1>4. /\ \A e \in Starters \ {c} : caller'[e] = caller[e]
      /\ caller'[c].at \notin Building
  <2>1. CASE SpawnFails(c) \/ NotTracked(c) \/ JoinDone(c)
    BY <2>1, ReturnsTo DEF SpawnFails, NotTracked, JoinDone, Building
  <2>2. CASE Reopen(c)
    BY <2>2, GoesTo DEF Reopen, CallerPlaces, Building
  <2>3. CASE AskDrain(c) \/ \E i \in Ids : AskJoin(c, i)
    BY <2>3 DEF AskDrain, AskJoin, Begun, Shape, Building
  <2>4. CASE ClaimExact(c) \/ ClaimAll(c)
    BY <1>3, <2>4 DEF ClaimExact, ClaimAll, Shape, CallerStates, Building
  <2>5. CASE PublishOutcome(c)
    <3>1. PICK claim \in caller[c].claims :
            caller' = [caller EXCEPT ![c].at = "forget", ![c].run = claim.run]
      BY <2>5 DEF PublishOutcome
    <3> QED
      BY <1>3, <3>1 DEF Shape, CallerStates, Building
  <2>6. CASE ForgetThread(c)
    BY <1>3, <2>6 DEF ForgetThread, Shape, CallerStates, Building
  <2>7. CASE ObserveOutcome(c)
    BY <1>3, <2>7 DEF ObserveOutcome, Shape, CallerStates, Building
  <2> QED
    BY <2>1, <2>2, <2>3, <2>4, <2>5, <2>6, <2>7
<1> QED
  BY <1>1, <1>2, <1>4, PublicationKept

LEMMA PublicationInit == ThreadsAssumption /\ ThreadsInit => PublicationInv
<1> SUFFICES ASSUME ThreadsAssumption, ThreadsInit PROVE PublicationInv
  OBVIOUS
<1>1. \A c \in Starters : caller[c].at = "idle"
  BY DEF ThreadsInit, Idle, Begun
<1>2. \A r \in Runs : /\ gate[r] = "shut" /\ thread[r] = "unborn" /\ r \notin Listed
                      /\ r[1] \in Ids
  BY RunPair DEF ThreadsInit
<1>3. told = {}
  BY DEF ThreadsInit
<1> QED
  BY <1>1, <1>2, <1>3 DEF PublicationInv, Built, Untouched, StagedAt, GateOf, Answered,
     Found, Building

LEMMA PublicationNext ==
  ThreadsAssumption /\ Inv /\ PublicationInv /\ [ThreadsNext]_threadVars => PublicationInv'
<1> SUFFICES ASSUME ThreadsAssumption, Inv, PublicationInv, [ThreadsNext]_threadVars
             PROVE  PublicationInv'
  OBVIOUS
<1>1. Shape /\ Frame /\ FutureOpen
  BY DEF Inv, RegistryInv
<1>2. ASSUME NEW c \in Starters, Proceed(c) PROVE PublicationInv'
  BY <1>1, <1>2, PublishesSpawn, PublishesInsert, PublishesDuplicate, PublishesStage,
     PublishesTell, PublishesCommit, PublishesRevoke, PublishesCompensate, PublishesNothing
     DEF Proceed
<1>3. ASSUME NEW c \in Starters,
             \/ SpawnFails(c) \/ Unwind(c) \/ UnwindSend(c) \/ AskDrain(c)
             \/ \E i \in Ids : AskJoin(c, i)
             \/ \E i \in Starts[c] : Reserve(c, i)
      PROVE  PublicationInv'
  <2>1. Starts[c] \subseteq Ids
    BY DEF ThreadsAssumption
  <2> QED
    BY <1>1, <1>3, <2>1, PublishesUnwind, PublishesTell, PublishesNothing, PublishesReserve
<1>4. ASSUME NEW r \in Runs, ThreadStep(r) \/ Panic(r) PROVE PublicationInv'
  BY <1>1, <1>4, PublishesThread
<1>5. CASE (\E i \in Ids : RequestShutdown(i)) \/ UNCHANGED threadVars
  BY <1>5, PublicationStutters DEF RequestShutdown, threadVars
<1> QED
  BY <1>2, <1>3, <1>4, <1>5 DEF ThreadsNext

LEMMA PublicationHolds == ThreadsSpec => []PublicationInv
BY ThreadsAssumption, InvHolds, PublicationInit, PublicationNext, PTL DEF ThreadsSpec

\* The map of live sessions names exactly the runs that may be talked to, however
\* starts, rollbacks and ends of runs of one id follow each other.
THEOREM ListsTheLive == ThreadsSpec => []ListedWhileLive
<1>1. PublicationInv => ListedWhileLive
  <2> SUFFICES ASSUME PublicationInv PROVE ListedWhileLive
    OBVIOUS
  <2>1. \A r \in Runs : GateOf(r)
    BY DEF PublicationInv
  <2>2. Listed \subseteq Runs
    BY DEF Listed
  <2> QED
    BY <2>1, <2>2 DEF ListedWhileLive, GateOf
<1> QED
  BY <1>1, PublicationHolds, PTL

\* Whoever was told of a session whose publication failed is told of its end.
THEOREM RollsBack == ThreadsSpec => []RolledBack
<1>1. PublicationInv => RolledBack
  <2> SUFFICES ASSUME PublicationInv, NEW r \in Runs, gate[r] = "cancelled"
               PROVE  /\ thread[r] \in {"gated", "clean"}
                      /\ \A t \in Runs :
                           Event(t, "created", r) \in told =>
                             \/ Event(t, "destroyed", r) \in told
                             \/ \E c \in Starters : caller[c].run = r /\ caller[c].at = "compensate"
    BY DEF RolledBack
  <2>1. GateOf(r) /\ \A t \in Runs : Answered(t, r)
    BY DEF PublicationInv
  <2>2. \A c \in Starters, t \in Runs : Tracks(c, t, r) => caller[c].at = "compensate"
    BY DEF PublicationInv, StagedAt, Tracks
  <2> QED
    BY <2>1, <2>2 DEF GateOf, Answered, Tracks
<1> QED
  BY <1>1, PublicationHolds, PTL

\* Of two sessions with scripts each could list the other or was told of it,
\* whichever way their starts were interleaved.
THEOREM PeersDiscover == ThreadsSpec => []PeersDiscovered
<1>1. PublicationInv => PeersDiscovered
  <2> SUFFICES ASSUME PublicationInv, NEW r \in Runs, NEW s \in Runs,
                      r # s, thread[r] = "scripts", thread[s] = "scripts"
               PROVE  s \in known[r] \/ Event(r, "created", s) \in told
    BY DEF PeersDiscovered
  <2>1. s \in Listed /\ gate[s] = "committed" /\ Found(r, s)
    BY DEF PublicationInv, GateOf
  <2>2. ~\E c \in Starters : Pending(c, r, s)
    BY <2>1 DEF PublicationInv, StagedAt, Pending
  <2> QED
    BY <2>1, <2>2 DEF Found
<1> QED
  BY <1>1, PublicationHolds, PTL

===============================================================================
