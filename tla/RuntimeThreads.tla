---------------------------- MODULE RuntimeThreads ----------------------------
(***************************************************************************)
(* The threads of the sessions: the registry that lends out the right to   *)
(* join them, the transaction that publishes a session to its peers before *)
(* its scripts may run, and the thread itself.  A start may fail or unwind  *)
(* at every step, while others join one session or drain all of them.      *)
(*                                                                         *)
(* All sessions are on one configured server, whose peers hear of them.    *)
(***************************************************************************)
EXTENDS Naturals, FiniteSets

CONSTANTS Ids,      \* session ids
          MaxRuns,  \* bound: how often one id is started
          Starters, \* the threads that start and join sessions
          Starts,   \* bound: the ids each of them starts
          Jobs      \* bound: how many starts, joins or drains, and faults there are

ASSUME ThreadsAssumption ==
  /\ Ids \subseteq Nat \ {0} /\ MaxRuns \in Nat
  /\ IsFiniteSet(Starters)
  /\ Starts \in [Starters -> SUBSET Ids]
  /\ Jobs \in [{"start", "wait", "fault"} -> Nat]

VARIABLES entry,       \* RuntimeThreadRegistry::entries
          count,       \* how often each id was reserved: it names the run
          drainers,    \* RuntimeThreadRegistryState::drainers
          completion,  \* the outcome of each run's join
          thread,      \* what the thread of each run is doing
          gate,        \* the two start barriers of each run
          listed,      \* SESSION_REGISTRY: the run under each id, or none
          asked,       \* the runs that were asked to shut down
          told,        \* the lifecycle events queued for each run
          known,       \* history: the peers a run could list when it began
          caller,      \* what each caller is doing
          jobs         \* what is left of Jobs

threadVars == <<entry, count, drainers, completion, thread, gate, listed, asked,
                told, known, caller, jobs>>

Runs == Ids \X (1 .. MaxRuns)
Nobody == 0
Listed == {r \in Runs : listed[r[1]] = r[2]}
Returned == {"clean", "panicked"}

NoRun == <<0, 0>>
Begun(where, run, before) ==
  [at |-> where, run |-> run, left |-> {}, tried |-> {}, claims |-> {}, before |-> before]
Idle == Begun("idle", NoRun, {})

ThreadsInit ==
  /\ entry = [i \in Ids |-> "none"]
  /\ count = [i \in Ids |-> 0]
  /\ drainers = 0
  /\ completion = [r \in Runs |-> "open"]
  /\ thread = [r \in Runs |-> "unborn"]
  /\ gate = [r \in Runs |-> "shut"]
  /\ listed = [i \in Ids |-> Nobody]
  /\ asked = {}
  /\ told = {}
  /\ known = [r \in Runs |-> {}]
  /\ caller = [c \in Starters |-> Idle]
  /\ jobs = Jobs

Has(job) == jobs[job] > 0
Spent(job) == jobs' = [jobs EXCEPT ![job] = @ - 1]

At(c, where) == caller[c].at = where
Id(c) == caller[c].run[1]
Goes(c, where) == caller' = [caller EXCEPT ![c].at = where]
Returns(c) == caller' = [caller EXCEPT ![c] = Idle]

Event(to, kind, of) == [to |-> to, kind |-> kind, of |-> of]

-------------------------------------------------------------------------------
(* Starting a session. *)

\* reserve, of an id that is free; it waits for the drains to take their claims.
Reserve(c, i) ==
  /\ At(c, "idle") /\ Has("start") /\ Spent("start")
  /\ drainers = 0 /\ entry[i] = "none" /\ count[i] < MaxRuns
  /\ entry' = [entry EXCEPT ![i] = "reserved"]
  /\ count' = [count EXCEPT ![i] = @ + 1]
  /\ caller' = [caller EXCEPT ![c] = Begun("spawn", <<i, count[i] + 1>>, {})]
  /\ UNCHANGED <<drainers, completion, thread, gate, listed, asked, told, known>>

\* Mutant: the thread is spawned only when no drain is under way.
SpawnThread_Waits(c) ==
  /\ At(c, "spawn") /\ drainers = 0 /\ Goes(c, "publish")
  /\ thread' = [thread EXCEPT ![caller[c].run] = "gated"]
  /\ UNCHANGED <<entry, count, drainers, completion, gate, listed, asked, told, known, jobs>>

SpawnThread(c) ==
  /\ At(c, "spawn") /\ Goes(c, "publish")
  /\ thread' = [thread EXCEPT ![caller[c].run] = "gated"]
  /\ UNCHANGED <<entry, count, drainers, completion, gate, listed, asked, told, known, jobs>>

\* fail, or the reservation is dropped: a tombstone stays for a join to find.
SpawnFails(c) ==
  /\ At(c, "spawn") /\ Has("fault") /\ Spent("fault")
  /\ entry' = [entry EXCEPT ![Id(c)] = "failed"]
  /\ Returns(c)
  /\ UNCHANGED <<count, drainers, completion, thread, gate, listed, asked, told, known>>

PublishThread(c) ==
  /\ At(c, "publish") /\ Goes(c, "insert")
  /\ entry' = [entry EXCEPT ![Id(c)] = "running"]
  /\ UNCHANGED <<count, drainers, completion, thread, gate, listed, asked, told, known, jobs>>

Insert(c) ==
  /\ At(c, "insert") /\ listed[Id(c)] = Nobody
  /\ listed' = [listed EXCEPT ![Id(c)] = caller[c].run[2]]
  /\ Goes(c, "stage")
  /\ UNCHANGED <<entry, count, drainers, completion, thread, gate, asked, told, known, jobs>>

\* DuplicateSession: nothing is rolled back, and the start gate goes with the
\* handle of the runtime.
InsertDuplicate(c) ==
  /\ At(c, "insert") /\ listed[Id(c)] # Nobody
  /\ gate' = [gate EXCEPT ![caller[c].run] = "cancelled"]
  /\ Returns(c)
  /\ UNCHANGED <<entry, count, drainers, completion, thread, listed, asked, told, known, jobs>>

\* prepare_lifecycle_publication, to the peers listed now, itself among them;
\* then the worker moves to the second barrier.
StagePeers(c) ==
  /\ At(c, "stage")
  /\ caller' = [caller EXCEPT ![c].at = "tell", ![c].left = Listed]
  /\ gate' = [gate EXCEPT ![caller[c].run] = "prepared"]
  /\ UNCHANGED <<entry, count, drainers, completion, thread, listed, asked, told, known, jobs>>

TellCreated(c) ==
  /\ At(c, "tell")
  /\ \E t \in caller[c].left :
       /\ caller' = [caller EXCEPT ![c].left = @ \ {t}, ![c].tried = @ \cup {t}]
       /\ told' = told \cup {Event(t, "created", caller[c].run)}
  /\ UNCHANGED <<entry, count, drainers, completion, thread, gate, listed, asked, known, jobs>>

\* Mutant: the worker is admitted before every peer was told.
CommitStart_Early(c) ==
  /\ At(c, "tell")
  /\ gate' = [gate EXCEPT ![caller[c].run] = "committed"]
  /\ Returns(c)
  /\ UNCHANGED <<entry, count, drainers, completion, thread, listed, asked, told, known, jobs>>

CommitStart(c) ==
  /\ At(c, "tell") /\ caller[c].left = {}
  /\ gate' = [gate EXCEPT ![caller[c].run] = "committed"]
  /\ Returns(c)
  /\ UNCHANGED <<entry, count, drainers, completion, thread, listed, asked, told, known, jobs>>

-------------------------------------------------------------------------------
(* A step between the insertion and the commit fails or unwinds. *)

Unwind(c) ==
  /\ caller[c].at \in {"stage", "tell"} /\ Goes(c, "revoke")
  /\ Has("fault") /\ Spent("fault")
  /\ UNCHANGED <<entry, count, drainers, completion, thread, gate, listed, asked, told, known>>

\* Mutant: a peer is counted when its send returns.
UnwindSend_CountsAfter(c) ==
  /\ At(c, "tell") /\ Goes(c, "revoke")
  /\ Has("fault") /\ Spent("fault")
  /\ \E t \in caller[c].left : told' = told \cup {Event(t, "created", caller[c].run)}
  /\ UNCHANGED <<entry, count, drainers, completion, thread, gate, listed, asked, known>>

\* A send that unwinds counts as attempted, whether or not it queued the event.
UnwindSend(c) ==
  /\ At(c, "tell") /\ Has("fault") /\ Spent("fault")
  /\ \E t \in caller[c].left :
       /\ caller' = [caller EXCEPT ![c].at = "revoke", ![c].tried = @ \cup {t}]
       /\ told' \in {told, told \cup {Event(t, "created", caller[c].run)}}
  /\ UNCHANGED <<entry, count, drainers, completion, thread, gate, listed, asked, known>>

\* Mutant: the entry stays in the map.
Revoke_Leaves(c) ==
  /\ At(c, "revoke") /\ Goes(c, "compensate")
  /\ gate' = [gate EXCEPT ![caller[c].run] = "cancelled"]
  /\ UNCHANGED <<entry, count, drainers, completion, thread, listed, asked, told, known, jobs>>

\* rollback: the exact entry is removed and both barriers are closed.
Revoke(c) ==
  /\ At(c, "revoke") /\ Goes(c, "compensate")
  /\ listed[Id(c)] = caller[c].run[2]
  /\ listed' = [listed EXCEPT ![Id(c)] = Nobody]
  /\ gate' = [gate EXCEPT ![caller[c].run] = "cancelled"]
  /\ UNCHANGED <<entry, count, drainers, completion, thread, asked, told, known, jobs>>

\* publish_rollback: every attempted peer is told, then the run is joined.
Compensate(c) ==
  /\ At(c, "compensate") /\ Goes(c, "join")
  /\ told' = told \cup {Event(t, "destroyed", caller[c].run) : t \in caller[c].tried}
  /\ UNCHANGED <<entry, count, drainers, completion, thread, gate, listed, asked, known, jobs>>

-------------------------------------------------------------------------------
(* Joining. *)

\* request_runtime_shutdown; before its scripts run, the request waits in the
\* run's inbox, and is left out.
RequestShutdown(i) ==
  /\ listed[i] # Nobody /\ thread[<<i, listed[i]>>] = "scripts"
  /\ asked' = asked \cup {<<i, listed[i]>>}
  /\ UNCHANGED <<entry, count, drainers, completion, thread, gate, listed, told, known, caller, jobs>>

AskJoin(c, i) ==
  /\ At(c, "idle") /\ Has("wait") /\ Spent("wait")
  /\ caller' = [caller EXCEPT ![c] = Begun("join", <<i, 0>>, {})]
  /\ UNCHANGED <<entry, count, drainers, completion, thread, gate, listed, asked, told, known>>

\* The claim on an entry that is not reserved: the right to join it, its
\* tombstone, or a view of the join of another.
ClaimOf(i) ==
  [run |-> <<i, count[i]>>,
   role |-> CASE entry[i] = "running" -> "owner"
              [] entry[i] = "failed" -> "tombstone"
              [] OTHER -> "observer"]

\* Mutant: the entry is taken out of the map by the one who joins.
ClaimExact_Takes(c) ==
  /\ At(c, "join") /\ entry[Id(c)] \in {"running", "failed", "joining"}
  /\ caller' = [caller EXCEPT ![c].at = "resolve", ![c].claims = {ClaimOf(Id(c))}]
  /\ entry' = [entry EXCEPT ![Id(c)] = "none"]
  /\ UNCHANGED <<count, drainers, completion, thread, gate, listed, asked, told, known, jobs>>

\* join_exact; a reservation is waited for.
ClaimExact(c) ==
  /\ At(c, "join") /\ entry[Id(c)] \in {"running", "failed", "joining"}
  /\ caller' = [caller EXCEPT ![c].at = "resolve", ![c].claims = {ClaimOf(Id(c))}]
  /\ entry' = [entry EXCEPT ![Id(c)] = "joining"]
  /\ UNCHANGED <<count, drainers, completion, thread, gate, listed, asked, told, known, jobs>>

NotTracked(c) ==
  /\ At(c, "join") /\ entry[Id(c)] = "none" /\ Returns(c)
  /\ UNCHANGED <<entry, count, drainers, completion, thread, gate, listed, asked, told, known, jobs>>

\* Mutant: new reservations are not held back.
AskDrain_Open(c) ==
  /\ At(c, "idle") /\ Has("wait") /\ Spent("wait")
  /\ caller' = [caller EXCEPT ![c] =
       Begun("drain", NoRun, {<<i, count[i]>> : i \in {j \in Ids : entry[j] # "none"}})]
  /\ UNCHANGED <<entry, count, drainers, completion, thread, gate, listed, asked, told, known>>

\* join_all
AskDrain(c) ==
  /\ At(c, "idle") /\ Has("wait") /\ Spent("wait")
  /\ drainers' = drainers + 1
  /\ caller' = [caller EXCEPT ![c] =
       Begun("drain", NoRun, {<<i, count[i]>> : i \in {j \in Ids : entry[j] # "none"}})]
  /\ UNCHANGED <<entry, count, completion, thread, gate, listed, asked, told, known>>

\* Mutant: the snapshot passes over the reservations.
ClaimAll_Early(c) ==
  /\ At(c, "drain")
  /\ LET tracked == {i \in Ids : entry[i] \notin {"none", "reserved"}} IN
       /\ caller' = [caller EXCEPT ![c].at = "reopen", ![c].claims = {ClaimOf(i) : i \in tracked}]
       /\ entry' = [i \in Ids |-> IF i \in tracked THEN "joining" ELSE entry[i]]
  /\ UNCHANGED <<count, drainers, completion, thread, gate, listed, asked, told, known, jobs>>

\* The snapshot, once every reservation is resolved.
ClaimAll(c) ==
  /\ At(c, "drain") /\ \A i \in Ids : entry[i] # "reserved"
  /\ LET tracked == {i \in Ids : entry[i] # "none"} IN
       /\ caller' = [caller EXCEPT ![c].at = "reopen", ![c].claims = {ClaimOf(i) : i \in tracked}]
       /\ entry' = [i \in Ids |-> IF i \in tracked THEN "joining" ELSE "none"]
  /\ UNCHANGED <<count, drainers, completion, thread, gate, listed, asked, told, known, jobs>>

Reopen(c) ==
  /\ At(c, "reopen") /\ Goes(c, "resolve")
  /\ drainers' = drainers - 1
  /\ UNCHANGED <<entry, count, completion, thread, gate, listed, asked, told, known, jobs>>

\* The claims are resolved in the order of their ids.
Resolving(c, claim) ==
  /\ At(c, "resolve") /\ claim \in caller[c].claims
  /\ \A other \in caller[c].claims : claim.run[1] <= other.run[1]

\* The owner publishes the outcome before it gives the entry up.
PublishOutcome(c) ==
  /\ \E claim \in caller[c].claims :
       /\ Resolving(c, claim)
       /\ \/ /\ claim.role = "owner" /\ thread[claim.run] \in Returned
             /\ completion' = [completion EXCEPT ![claim.run] = thread[claim.run]]
          \/ /\ claim.role = "tombstone"
             /\ completion' = [completion EXCEPT ![claim.run] = "failed"]
       /\ caller' = [caller EXCEPT ![c].at = "forget", ![c].run = claim.run]
  /\ UNCHANGED <<entry, count, drainers, thread, gate, listed, asked, told, known, jobs>>

\* remove_joining
ForgetThread(c) ==
  /\ At(c, "forget")
  /\ entry' = [entry EXCEPT ![Id(c)] = "none"]
  /\ caller' = [caller EXCEPT ![c].at = "resolve",
                              ![c].claims = {claim \in @ : claim.run # caller[c].run}]
  /\ UNCHANGED <<count, drainers, completion, thread, gate, listed, asked, told, known, jobs>>

ObserveOutcome(c) ==
  /\ \E claim \in caller[c].claims :
       /\ Resolving(c, claim) /\ claim.role = "observer" /\ completion[claim.run] # "open"
       /\ caller' = [caller EXCEPT ![c].claims = @ \ {claim}]
  /\ UNCHANGED <<entry, count, drainers, completion, thread, gate, listed, asked, told, known, jobs>>

JoinDone(c) ==
  /\ At(c, "resolve") /\ caller[c].claims = {} /\ Returns(c)
  /\ UNCHANGED <<entry, count, drainers, completion, thread, gate, listed, asked, told, known, jobs>>

-------------------------------------------------------------------------------
(* The thread of a run. *)

Becomes(r, what) == thread' = [thread EXCEPT ![r] = what]

\* A closed barrier ends the thread before it built anything.
LeaveGate(r) ==
  /\ thread[r] = "gated" /\ gate[r] = "cancelled" /\ Becomes(r, "clean")
  /\ UNCHANGED <<entry, count, drainers, completion, gate, listed, asked, told, known, caller, jobs>>

RunScripts(r) ==
  /\ thread[r] = "gated" /\ gate[r] = "committed" /\ Becomes(r, "scripts")
  /\ known' = [known EXCEPT ![r] = Listed]
  /\ UNCHANGED <<entry, count, drainers, completion, gate, listed, asked, told, caller, jobs>>

\* A panic leaves the session listed, and tells nobody.
Panic(r) ==
  /\ thread[r] = "scripts" /\ Becomes(r, "panicked")
  /\ Has("fault") /\ Spent("fault")
  /\ UNCHANGED <<entry, count, drainers, completion, gate, listed, asked, told, known, caller>>

\* unregister_session: everyone listed now is told, then the entry is removed.
TellEnding(r) ==
  /\ thread[r] = "scripts" /\ r \in asked /\ Becomes(r, "leaving")
  /\ told' = told \cup {Event(t, "destroyed", r) : t \in Listed}
  /\ UNCHANGED <<entry, count, drainers, completion, gate, listed, asked, known, caller, jobs>>

Unregister(r) ==
  /\ thread[r] = "leaving" /\ Becomes(r, "exiting")
  /\ listed' = [listed EXCEPT ![r[1]] = Nobody]
  /\ UNCHANGED <<entry, count, drainers, completion, gate, asked, told, known, caller, jobs>>

Exit(r) ==
  /\ thread[r] = "exiting" /\ Becomes(r, "clean")
  /\ UNCHANGED <<entry, count, drainers, completion, gate, listed, asked, told, known, caller, jobs>>

-------------------------------------------------------------------------------
\* What a caller does once it has begun.
Proceed(c) ==
  \/ SpawnThread(c) \/ PublishThread(c) \/ Insert(c) \/ InsertDuplicate(c)
  \/ StagePeers(c) \/ TellCreated(c) \/ CommitStart(c)
  \/ Revoke(c) \/ Compensate(c)
  \/ ClaimExact(c) \/ NotTracked(c) \/ ClaimAll(c) \/ Reopen(c)
  \/ PublishOutcome(c) \/ ForgetThread(c) \/ ObserveOutcome(c) \/ JoinDone(c)

\* What a thread does by itself.
ThreadStep(r) ==
  LeaveGate(r) \/ RunScripts(r) \/ TellEnding(r) \/ Unregister(r) \/ Exit(r)

ThreadsNext ==
  \/ \E c \in Starters :
       \/ Proceed(c) \/ SpawnFails(c) \/ Unwind(c) \/ UnwindSend(c) \/ AskDrain(c)
       \/ \E i \in Ids : AskJoin(c, i)
       \/ \E i \in Starts[c] : Reserve(c, i)
  \/ \E i \in Ids : RequestShutdown(i)
  \/ \E r \in Runs : ThreadStep(r) \/ Panic(r)

ThreadsFairness ==
  /\ \A c \in Starters : WF_threadVars(Proceed(c))
  /\ \A r \in Runs : WF_threadVars(ThreadStep(r))

ThreadsSpec == ThreadsInit /\ [][ThreadsNext]_threadVars /\ ThreadsFairness

-------------------------------------------------------------------------------
(* Properties. *)

CallerPlaces ==
  {"idle", "spawn", "publish", "insert", "stage", "tell", "revoke", "compensate",
   "join", "drain", "reopen", "resolve", "forget"}
Claims == [run : Runs, role : {"owner", "tombstone", "observer"}]
CallerStates ==
  [at : CallerPlaces, run : (Ids \cup {0}) \X (0 .. MaxRuns), left : SUBSET Runs,
   tried : SUBSET Runs, claims : SUBSET Claims, before : SUBSET Runs]

\* Every variable stays in its type.
ThreadsTypeOK ==
  /\ entry \in [Ids -> {"none", "reserved", "running", "joining", "failed"}]
  /\ count \in [Ids -> 0 .. MaxRuns]
  /\ drainers \in Nat
  /\ completion \in [Runs -> Returned \cup {"open", "failed"}]
  /\ thread \in [Runs -> Returned \cup {"unborn", "gated", "scripts", "leaving", "exiting"}]
  /\ gate \in [Runs -> {"shut", "prepared", "committed", "cancelled"}]
  /\ listed \in [Ids -> 0 .. MaxRuns]
  /\ asked \subseteq Runs
  /\ told \subseteq [to : Runs, kind : {"created", "destroyed"}, of : Runs]
  /\ known \in [Runs -> SUBSET Runs]
  /\ caller \in [Starters -> CallerStates]
  /\ jobs \in [DOMAIN Jobs -> Nat]

Over(r) == thread[r] \in Returned \/ (thread[r] = "unborn" /\ completion[r] = "failed")

\* An id the registry does not track has no thread left, and every run before
\* the one it tracks is over: a join reports absence, and a start reuses the id,
\* only when the thread it was for has returned ("No observer may report
\* missing/already-joined until this proof is published"; NotTracked, Joining).
AbsentMeansEnded ==
  \A r \in Runs :
    r[2] < count[r[1]] \/ (r[2] = count[r[1]] /\ entry[r[1]] = "none") => Over(r)

\* The map of live sessions names exactly the run that may be talked to: a run
\* with scripts is listed until it takes itself out, so neither a rollback nor
\* a late unregister removes the session that reuses its id, and one that was
\* rolled back or has returned is not listed.
ListedWhileLive ==
  /\ \A r \in Runs : thread[r] \in {"scripts", "leaving"} => r \in Listed
  /\ \A r \in Listed :
       /\ thread[r] \in {"gated", "scripts", "leaving", "panicked"}
       /\ gate[r] # "cancelled"

\* Nobody remembers a session whose publication failed: whoever was told of its
\* creation is told of its end (publish_rollback compensates exactly the
\* attempted targets), and its scripts never ran.
RolledBack ==
  \A r \in Runs : gate[r] = "cancelled" =>
    /\ thread[r] \in {"gated", "clean"}
    /\ \A t \in Runs :
         Event(t, "created", r) \in told =>
           \/ Event(t, "destroyed", r) \in told
           \/ \E c \in Starters : caller[c].run = r /\ At(c, "compensate")

\* Of two sessions whose scripts run, each has learned of the other: it could
\* list it when it began, or its creation was queued for it.  The order of
\* insert, StagePeers, TellCreated and CommitStart is what two starts at once
\* depend on.
PeersDiscovered ==
  \A r, s \in Runs :
    r # s /\ thread[r] = "scripts" /\ thread[s] = "scripts" =>
      s \in known[r] \/ Event(r, "created", s) \in told

\* A drain that returns has seen every session reserved before it began come to
\* its end, those still being started included, and holds starts back exactly
\* while it takes its claims (join_all_runtime_threads: "every runtime thread
\* whose reservation preceded this call").
DrainCovers ==
  /\ drainers = Cardinality({c \in Starters : caller[c].at \in {"drain", "reopen"}})
  /\ \A c \in Starters :
       At(c, "resolve") /\ caller[c].claims = {} => \A r \in caller[c].before : Over(r)

\* Again and again every start and every join is over, unless somebody joins a
\* session that runs and that nobody has asked to stop: starts, joins, drains
\* and rollbacks do not wait for each other in a circle.
JoinsReturn ==
  []<>(\/ \A c \in Starters : At(c, "idle")
       \/ \E c \in Starters : \E claim \in caller[c].claims :
            thread[claim.run] = "scripts" /\ claim.run \notin asked)
===============================================================================
