# TLA+ models of smudgy's map editing queue and session runtime

Smudgy is a client for text games (MUDs). Two parts of it can lose a user's work or
leave a session stuck, and both are concurrent; these modules model, check and prove
about them.

* **The mapper.** A player edits maps that live in a cloud service while playing: the
  edit shows on screen at once, is written to a journal on disk, and travels to the
  service when it can. That path crosses a single-threaded worker, a sync engine, user
  reviews of conflicts, account switches, crashes and deletions of whole maps.
* **The session runtime.** Every session is a thread with an inbox and a script engine
  that a reload replaces. Sessions call each other's scripts, post to them, learn of
  each other when they start and end, and each owns a connection whose attempts
  replace one another.

Sources are given as `file:line`, relative to `src/`. `pending.rs`,
`mapper.rs`, `sync_engine.rs` and `recovery.rs` stand for
`cloud/src/mapper/pending.rs`, `cloud/src/mapper.rs`,
`cloud/src/mapper/sync_engine.rs` and `cloud/src/mapper/recovery.rs`; `runtime.rs`,
`registry.rs` and `connection.rs` for those files under `core/src/session/`;
`dispatch.rs`, `procedure_calls.rs`, `message_bus.rs`, `action.rs` and `ops.rs` for those
under `core/src/session/runtime/` (`ops.rs` in its `script_engine/`); `session_store.rs`
for `ui/src/session_store.rs`.

## 1. Inventory

| Part | State it keeps | Operations | How it interacts | What is hard | What makes it correct |
|---|---|---|---|---|---|
| Pending-edit queue (`pending.rs`, `mapper.rs`) | one lane per map: queue, phase, confirmed revision, deferred review, fences; attempts, active viewer, pause | stage, publish, take, acknowledge, back off, park, review, cancel, retry, discard, activate | called by the editor, the worker, the engine and deletions under one state lock; a mutation gate spans longer sections | every await is an interleaving; verdicts arrive late; reviews meet requests on the wire | applied once and in order, nothing dropped, nothing overwritten unseen, phases agree with tasks, counters with queues |
| Journal of pending edits (`pending.rs`) | records, commit markers, acknowledged and retired records, delete intents and tombstones | write a batch, load, retire, mark a deletion, recover | written before an edit is queued; read by an activation | crashes between file operations, failed renames, age of a record | replays what is unsettled and nothing else |
| Worker (`mapper.rs` 6027-6348) | the request in hand, deadlines | send, route a verdict, refetch after a conflict, retire again, sleep | woken by every change of the queue; talks to the service | lost wakes, timeouts that race answers | something deliverable is eventually delivered |
| Sync engine (`sync_engine.rs`) | last proven credential, last rows | tick, identity, rows, refetch, adopt | activates a viewer's journal; adopts documents; settles ambiguous deletes | documents that are older than the screen; credentials that change under way | only checked documents become preconditions |
| Reviews and rebuilds (`mapper.rs` 6452-6601) | rebuilds under way | keep mine, keep theirs, cancel, retry, discard | fetch a document, fold the queue over it | the queue moves on meanwhile | a review decides about exactly what was shown |
| Map deletion (`mapper.rs` 1626-1718, 4564-4665) | a fence, an intent, a tombstone | fence, wait, ask, confirm, abort, leave open | with the queue, the journal, the engine | an answer that never comes, a crash, another's deletion | no edit of a deleted map returns, none of a kept one is lost |
| Save status (`mapper.rs` 5330-5390) | sent, succeeded, failed; unsettled edits per map | count at each step | gates refetches | counted once however an edit ends | sums agree with the queues |
| Local lane (`local_projection.rs`) | decided edits waiting for publication | publish, reload, external change | journals of device maps | races between publication and reload | what was decided is shown |
| Initial load (`loading.rs`) | maps being read | load, retry | the engine, the queue | a queue restored meanwhile | a shown map has its queue folded in |
| Merge, move, relocation (`merge.rs`, `relocation.rs`) | fences over several maps, a journal | stage, execute, recover | every queue of the maps involved | fences held over awaits | all or nothing |
| Secrets (`secrets.rs`) | visibility per map | write, purge | ordered before queued edits | stale visibility | no document shows what was purged |
| Local storage (`backends/local.rs`) | map files and their journal | append, compact, recover | the local lane | crashes | a prefix of the edits survives |
| Telnet negotiation (`protocol/src/telnet.rs`) | option states | negotiate, decode | the connection | loops of negotiation | it ends |
| Procedure calls (`procedure_calls.rs`, `dispatch.rs`, `ops.rs`) | per session a broker: pending calls, invocations, deadlines, budgets, ids; the promises of the engine's heap | call, nested call, answer, cancel, expire, reset | requests and replies are actions in the inboxes of two sessions; a timer thread fires deadlines into the inbox | a reload, a timeout, a cancellation or the end of either session overtakes the answer | every call ends once, at both ends; nothing leaks |
| Message bus (`message_bus.rs`) | implementations of the engine, a bounded buffer of posts | post, buffer, register and drain, deliver | posts from the own scripts and from other sessions | posts that arrive while modules load or an engine is rebuilt; actions that name functions of the old one | no post twice, none unaccounted for, no call into the wrong engine |
| Session threads and registry (`runtime.rs`, `registry.rs`) | reservations, join handles, claims; the live sessions; start gates | reserve, spawn, publish to peers, roll back, join one, drain all | window, other sessions, the thread itself | a start fails half way while others join; two starts at once; drains against joins | absence means ended, a drain covers what came before, peers find each other, failed starts are forgotten |
| Connection (`connection.rs`, `dispatch.rs`, `session_store.rs`) | per session: the live attempt, the dial awaited, intent, deferred login, notices; per attempt a socket task; the daemon's intent | connect, disconnect, fail, tear down, send, redial | the session asks the daemon, which alone can start an attempt; a socket task reports to the session's inbox | messages of replaced attempts; redials; clicks that cross with requests | no ghost connection, no lost dial, one login for its own connection, one redial at a time |
| Runtime dispatch (`runtime.rs`, `dispatch.rs`) | an expansion of spawned actions, an inbox | take, expand, pump scripts, reload, close | everything above is an action of it | order of expansion and inbox | in the modules above |
| Scripts, triggers, storage, audio, interface, themes, tools | | | | pure data, rendering or external engines | |

`PROJECT.json` lists all 33 components with what is modelled of each and why the
others are not, and 40 hazards at the line where they bite.

## 2. The modules

| Module | What it is |
|---|---|
| `AreaQueue` | One lane as a value: the record `AreaQueue` and `AreaPhase` (`pending.rs` 192-417) and the methods that change it under the state lock. No variables. |
| `PendingQueue` | The composition: editor, rebuilds, worker, sync engine, deletion, map service, process. One action per critical section. |
| `EditLedger` | The abstract specification: accepted, open, withdrawn, applied. No phases, revisions, credentials or crashes. |
| `MCPendingQueue` | Instances for TLC: which edit is in which map, which depends on which, which events occur how often. |
| `WalJournal` | The files of the journal: records, commit markers, tombstones, and every way a batch, a retirement or a load can be cut short. |
| `MCWalJournal` | An instance for TLC: a batch that spans the device's directory and a viewer's, and one more of the viewer's. |
| `ProcedureCalls` | Calls between sessions: inbox, expansion and reload of each session, its broker and its promises. |
| `ProcedurePosts` | The message bus of one session: the buffer, the registration, and posts as actions across reloads. |
| `RuntimeThreads` | Session threads: reservations, joins and drains, publication to the peers and its rollback. |
| `ConnectionLifecycle` | The connection: the session's thread, a socket task for each attempt, the daemon. |
| `MCSession` | One instance of these four for TLC; a behaviour exercises one of them. |
| `PendingQueue_proofs` | Facts about the operators of `AreaQueue`; type correctness of `PendingQueue`. Edits travel only with their own account's credential; phases and tasks agree; the counts of pending edits are exact. |
| `PendingJournal_proofs` | Queue and journal: what is kept, what stays withdrawn, what a deletion leaves; the order in which edits travel and are applied; the refinement of `EditLedger`. |
| `PendingReview_proofs` | Deletions and reviews: the queue pauses for a DELETE and no edit travels beside one; no edit replaces another client's unseen; the save status counts what is open. |
| `EditLedger_proofs` | The ledger keeps its promises. |
| `WalJournal_proofs` | The journal replays exactly what it should, in order. |
| `Procedures_proofs` | Posts: no call into a replaced engine, no post lost unseen. Calls: exact brokers, promises accounted for, answers in sight, expiries bounded. |
| `RuntimeThreads_proofs` | Types; absence means ended; drains cover. |
| `ConnectionLifecycle_proofs` | Dials are tracked; no ghost connection. |

### State

| Variables | Code |
|---|---|
| `areas[a]` | `AreaQueue` of map `a`: `queue`, `phase`, `confirmed` (the source's confirmed revision), `deferred` (`deferred_conflict`), `needsBase` (`requires_recovery_base`), `baseFailed`; with it the projection of the map on screen: `view` (edits the document rules out) and `token` (its projection token) |
| `staged` | envelopes queued with `published: false` |
| `attempts`, `expired`, `gen` | `attempts`, `expired` and `auth_generation` of an envelope |
| `deleting`, `intents` | `State::deletes` and `delete_intents` |
| `paused`, `active`, `shown` | `upgrade_required`, the active viewer's generation, the atlas cache |
| `wal`, `owner` | a record of the journal: none, replayable, gone; whose it is |
| `intentFiles`, `tombstones`, `aged` | delete markers on disk; records older than the receipt retention |
| `unsettled`, `marks`, `accounted` | sent - succeeded - failed of `SyncStats`; `pending_by_area`; `accounted` of an envelope |
| `worker` | where `spawn_mutation_worker` is, the request in hand, its answer, the deadlines it sleeps on |
| `engine` | where `Engine::tick` is, its credential and the last proven one, rows, maps still to fetch |
| `rebuilds`, `del` | display rebuilds and the delete under way |
| `wake`, `syncWake` | the `Notify` of the worker and of the engine |
| `srv`, `revoked`, `receipts`, `net`, `netDel` | the map service and the requests on their way to it |
| `sent`, `cancelled`, `discarded`, `kept`, `overwrote`, `entombed` | history, for the properties only; `entombed` are the edits accepted in a map whose deletion the account's journal had recorded |

`WalJournal` looks closer at one part of this. `rec[o]`, `marker[b]` and `tombs` say where
the file of a record, a batch's commit marker or a tombstone is: `tmp` is a temporary
file, `json` and `commit` are the replayable names, `ack` and `retired` are names nothing
is replayed from, `quarantine` is where a load moves what it does not trust. `seq` and
`nextSeq` are the numbers records are named with. `phase`, `next` and `staged` are how far
`enqueue_many_staged` has got, `cleanup` and `leaving` what a deletion and
a retirement have still to tidy up. `PendingQueue` keeps of all this only `wal`: its
`Replayable` is what `ReplaysExactly` says of the files. `accepted`, `settled` and `entombed`
are history.

### Actions

One action is one hold of the state lock, or of the mutation gate, with what its
caller does before it next awaits. Where the code awaits, the model has a
separate action, so everything that other tasks can do in between happens
somewhere.

* **Editor.** `mutate_batches_locked` validates, journals and queues an edit under
  the gate (`Stage`) and publishes it (`Publish`); between the two the edit is in
  the queue, but the worker may not take it. `Cancel`, `Retry`, `Discard`,
  `KeepTheirs` and `KeepMine` are the user's decisions.
* **Rebuilds.** A cancel or a resolution spawns a task that fetches the document
  (`RebuildFetch`) and folds the queue over it under the gate (`RebuildApply`).
* **Worker.** `WorkerRetire` and `WorkerRetireFails` (retry of a retirement),
  `WorkerTake` (`take_ready` and the request), `WorkerIdle` / `WorkerWake` /
  `WorkerTimer` (its `select!`), then one action per verdict. A conflict is
  refetched (`ConflictFetch`) and folded (`ConflictApply`).
* **Engine.** `EngineTick`, `ActivateLoad` and `ActivateInstall` (the identity is
  proven, the journal is read, the queues are swapped; two steps because the code
  reads the files before it takes the state lock), `EngineAsk`, `EngineRows`,
  `EngineFetch`, `EngineAdopt`, `EngineDone`, and `EngineFail`.
* **Deletion.** `DeleteBegin` fences, `DeletePrepare` waits for the request on the
  wire and records the intent, then `DeleteSucceeds`, `DeleteAmbiguous` or
  `DeleteAbandon`. `DeleteSucceeds` is `commit_delete` with the count that follows it
  (counts of other tasks commute with it): the tombstone is written and the fence lifted.
  The map stays on screen until `publish_committed` has had the mutation gate
  (`DeleteLeaves`), or for good if the credential has changed by then
  (`mapper.rs` 4659-4661); until then edits are staged in it as in any other map.
* **Service** (external). An envelope is applied if its revision is the map's and
  the edit is valid; a known operation id echoes its receipt. Other answers, lost
  and late requests, other clients' edits, withdrawn access.
* **Process** (external). `Crash` keeps the journal and what is already on its way.
  `Outage` keeps the program closed until the service has forgotten its receipts.

`WalJournal` has one action per file operation: `StageBatch`, `WriteRecord`,
`CommitBatch`, `RollBack` and `RejectBatch` write a batch or give it up, with or without a
tombstone of its map, which `enqueue_many_staged` does not look for; `Acknowledge` and
`Discard` rename a record out of the replay namespace; `RetireMarker` follows when no
record of the batch is left; `DeleteArea` writes the tombstone and `RetireDeleted` moves the
records behind it; `ActivateViewer` and `Restart` load a directory; `Crash` comes between
any two. A rename may fail and leave a temporary file, a removal may fail and leave the
renamed one, and a load may fail to move any of the files it wants to move.

The session runtime:

| Variables | Code |
|---|---|
| `stage`, `inbox`, `expansion`, `kept` | what the session's thread does, its action channel, its action stack, what a reload has drained (`runtime.rs` 4192-4740, 1987-2400) |
| `broker`, `awaiting`, `fired` | `ProcedureCalls` (`procedure_calls.rs` 250-273), unresolved promises, what `deadline_worker` fired last |
| `postStage`, `queue`, `frame`, `aside` | the same loop, for posts |
| `implemented`, `buffered`, `fate` | a registered receiver, the pending buffer; what became of each post (history) |
| `entry`, `drainers`, `completion` | `RuntimeThreadRegistryState` and the outcome of a join (`runtime.rs` 724-820) |
| `gate`, `thread`, `listed`, `told`, `known` | the two start barriers, the thread, `SESSION_REGISTRY`, lifecycle events, the peers a script could list |
| `link` | the session's own view: `dial`, `connection_generation`, `connected`, `pending_send_on_connect`, `connect_intent`, `auto_redial_spent`, a notice that waits |
| `socket`, `toldToStop`, `mail` | the task of each attempt, its disconnect signal, the session's inbox |
| `daemon`, `uiMail`, `todo` | `auto_connect` and `connected` of the window, events for it, messages it sent itself |

In these modules one action is the handling of one message by one thread, or one
critical section of a lock. A turn of a script is chosen among what scripts can do there:
call, answer, post, register, send, ask for a reload. What a handler emits is expanded
before the rest; what a timer or a promise emits goes behind the inbox, as in the loop
(`runtime.rs` 4425-4509). A reload is several actions, because other threads send in
between. A start is one action for each step that may fail. The daemon's
`Task::done(Message)` is a message of its own (`todo`), because other messages may be
handled first.

The service's validity rule is the data of an edit: `Needs[o]` are earlier edits
whose rooms it uses, `Creates` those that claim a vacant room number, and `broken`
the edits whose preconditions another client's edit has invalidated. Documents,
rooms and wording are not modelled beyond that.

## 3. What the runs check

| Run | Instance | Distinct states | Depth | Shows |
|---|---|---|---|---|
| `Conflicts` | 3 edits of one map, the third needs the first; two foreign edits, one timeout, one Keep mine; fair | 127,734 | 37 | `TypeOK`, `AppliedInOrder`, `NoSilentOverwrite`, `DrainingDrains` |
| `Crashes` | 2 edits, 2 accounts; a crash, an outage, a timeout, two failed retirements, a discard, a sync | 897,762 | 51 | `JournalMatchesQueue`, `OwnCredential`, `LedgerSpec` |
| `Deletion` | 2 edits; two deletes, a crash, access lost twice and given back, a timeout, an upgrade and a hold | 1,365,011 | 50 | `NothingLost`, `DeleteAlone`, `DeletedStaysDeleted` |
| `Reviews` | 3 edits in a cloud and a session map; refusal, cancel, discard, retry, Keep theirs, foreign edit, timeout | 721,226 | 44 | `PhaseOwned`, `MarksMatchQueue`, `CountsBalance`, `LeftUnsentStaysUnsent` |
| `Journal` | 3 edits in two batches over two directories; two crashes, any rename or removal failing | 247,984 | 25 | `ReplaysExactly`, `QueueMatchesJournal`, `ReplayOrder` |
| `Session` | two sessions and two calls with a reload or a shutdown; three posts, a buffer of one, two reloads; two ids, two starts, a join or drain and a fault; four attempts, two events of the outside; fair | 556,283 | 35 | the 23 properties below |

The properties, in words:

* `AppliedInOrder`: the service holds each edit at most once, those of one account in
  the order they were made. A timed-out request may be applied after its resend was
  sent, or never.
* `NoSilentOverwrite`: an edit that another client's edit has invalidated is applied
  only if a review kept it. The client alone can prevent this; the service's revision
  check helps only if the revision sent is one the queue was folded over.
* `DrainingDrains`: what `is_draining` promises is delivered, or comes to a phase
  that waits for a user.
* `JournalMatchesQueue`: a crash now would restore the queues as they are.
* `OwnCredential`: an edit never travels under another account.
* `LedgerSpec`: every step is a step of `EditLedger` or leaves it as it is.
* `NothingLost`: an accepted edit of a cloud map is replayable, applied or let go by the
  user. `DeletedStaysDeleted`: no edit made before a deletion was recorded is queued in the
  map after it, whatever restarts and sign-ins follow. Both except `entombed`, the edits
  the code accepts behind a recorded deletion and loses (section 4), and no others.
* `DeleteAlone`: no edit of a map is on the wire beside its DELETE.
* `PhaseOwned`: an in-flight head is what the worker holds; a park, a retirement or
  a review names an edit that is where it should be.
* `MarksMatchQueue`, `CountsBalance`: the counters that gate refetches and show the
  save status equal what they count.
* `LeftUnsentStaysUnsent`: what the user took back before it was sent is not sent.
* `ReplaysExactly`: what the disk would replay is what was accepted and not settled, for
  batches as a whole; `entombed` edits are accepted and not replayed.
* `QueueMatchesJournal`: while the process runs, its queue is the replayable edits of the
  device and of the active viewer. An `entombed` edit is queued beside them, with a record
  that is not replayed, until it is settled or the process ends.
* `ReplayOrder`: the names of a directory's records sort as their edits were made.

Of `Session`, beside one type invariant for each module:

* `PromisesAccounted`, `AnswerInSight`, `EveryCallEnds`: a promise is tracked or about to be
  settled, exactly once; until it is, somebody has its request, its reply or its
  invocation, unless the target has ended; and every call ends at both ends.
* `BrokerConsistent`, `ExpiriesBounded`: budgets, indexes and the timer agree with what is
  tracked, and a late session is not flooded with expiries.
* `PostsAccounted`, `CallsOfThisEngine`: a post is in one place or has one fate; no function
  id of a replaced engine reaches the loop.
* `AbsentMeansEnded`, `DrainCovers`, `JoinsReturn`: what the registry does not track has
  ended, a drain waits for all that was reserved before it, and nobody waits in a circle.
* `ListedWhileLive`, `RolledBack`, `PeersDiscovered`: the list of sessions names the run
  that may be talked to, a failed start is compensated, two starts find each other.
* `NoGhostConnection`, `DialTracked`: "connected" and "dialing" are true, or a message that
  ends them is on its way.
* `LoginOwn`: a login line goes once, to a connection that has spoken.
* `RedialPaced`, `RowsSettle`, `IntentCurrent`: one redial until the user or a success
  intervenes; no notice waits for ever; the session's copy of the intent is never
  "online" alone once all is delivered.

Each property has a mutant in `PROJECT.json`: a definition changed the way a bug
would change the code, under which TLC finds the property violated.

**Bounds.** `MaxOps` 2 or 3: an order needs two edits of a lane; three give a
follower behind a reviewed head, or a second map. `MaxTransportAttempts` 2 (8 in the
code): one back-off and one park. `MaxRebuilds` 1: a second rebuild is started only
after the first; two at once are not explored. `MaxGen` 1 or 2: an account switch. A
budget says how often each event of the environment occurs, at least once for every
event some run is about; edits, sign-ins, wakes, sends and ticks are bounded only by
what they do. `Deletion` has
two deletes, one after the other, and access lost twice, so that a map can be deleted,
lost and shown again, be edited under its tombstone, and be lost or deleted anew; it has one
credential, since with a second one `DeleteAlone` fails over an account switch and
`DeletedStaysDeleted` over a retirement during the reading of a journal (section 5). So the
return of a deletion whose credential changed (an alternative in `DeleteSucceeds` and
`DeleteLeaves`) is taken in no run; the theorems of section 5 cover it. In `Journal`
`MaxCrashes` 2 lets a restart itself be cut short and its leftovers be found by the next; a
batch of two and a batch of one give a marker that outlives its first record, a batch that
spans directories of which one is dormant, and a record numbered by a later process.
`RowsCarryRevisions` is true, as in the rows of the service.
`CHECK_DEADLOCK FALSE`: with its budgets spent and its edits settled, or parked for a
user, an instance has nothing left to do; the system does the same until the next
event.

In `Session`: `MaxPending` 1 lets a second call be refused;
`MaxId` 3 leaves room for the calls and invocations of a session and is reached, as the
code's counter may be; `Timeouts` {2} and `Horizon` 3 let a call be made, nested with the
rest of its time, and expire, with a tick to spare; `Budget` and `Callers` bound what
scripts begin. `Cap` 1 makes the
buffer overflow at the second post. `MaxRuns` 2 lets an id be reused, `Jobs` gives two
starts at once with one join or drain and one fault among them. `MaxAttempts` 4 is more
than two events (`MaxStimuli`, `Stimuli`) and the restored intent lead to, so no behaviour
is cut off by it; two events are a replaced attempt with a line or a script in between.
`SendsDuringReload` FALSE leaves the window of a reload out (section 4). The four components
share no variable in the models, and in the code they meet only in the loop, which
`ProcedureCalls` and `ProcedurePosts` each contain for their actions; so a behaviour
exercises one of them, chosen in `Init`.

**Fairness** (`FairSpec`, used where a run checks `DrainingDrains`). The runtime polls
a task that was woken, and timers fire: weak fairness of the worker, the engine,
the rebuilds and `Publish`, which is the tail of a function that has begun. The HTTP
client has a deadline, so a request is answered: weak fairness of `ServiceHandles`.
Nothing is assumed of users, of foreign edits or of failures. In the session runtime: the
loop of a session and the daemon's are always polled, the clock and the deadline timer go
on (`EveryCallEnds`), a start, a join and a thread take their next step when nothing
blocks it (`JoinsReturn`), an attempt ends within `CONNECT_TIMEOUT` and a task told to stop
stops (`RowsSettle`). Scripts and implementations need do nothing: a call that is never
answered ends by its deadline.

## 4. Where the code and what it says differ

Six runs each state what a comment of the repository says and end in a violation.
`findings` in `PROJECT.json` quotes the comment and outlines the run.

* `KeepTheirs` - after Keep theirs the worker may send the next edit before the
  rebuild has checked it against the adopted document (`pending.rs:2999`).
* `SyncRows` - a row's revision is used to send before the queue was folded over that
  document (`sync_engine.rs:590`).
* `DeleteDuringSync` - a document asked for before a DELETE lifts that live delete's
  fence (`sync_engine.rs:657`).
* `RestartWakes` - after a restart whose base loads at the first attempt nobody wakes
  the worker (`pending.rs:2136`).
* `CancelDuringSignIn` - an edit cancelled while a sign-in reads the journal is
  restored and sent (`pending.rs:1818`).
* `JournalUnread` - if the commit markers cannot be listed, a load takes every record of its
  directory for uncommitted and moves it to quarantine (`pending.rs:1028`).

The passing runs leave out the event that leads to each of these (`Conflicts`: no
Keep theirs, no requested sync, no crash; `Deletion`: no requested sync; `Reviews`:
one sign-in; `Journal`: markers
can be listed), so they say what holds otherwise. `Crashes` has syncs, and its
properties hold with them.

Read in the code while modelling, not shown by a run:

* A review deferred behind a request is not looked at when that request backs off
  and is sent again.
* Retry (`resolve_failure`, `pending.rs` 3050-3056) makes the lane ready without looking at
  `deferred_conflict`: a parked head whose own review a sync put off while it was in flight
  is sent again, and accepted, with the review unanswered. The model behaves so too (in 21
  states, with one each of `foreign`, `sync`, `refused` and `retry`); `Conflicts`, which
  checks `NoSilentOverwrite`, has neither a sync nor a refusal.
* A rebuild may apply a document that is older than the one on screen. `rebuild_after_removal`
  and `rebuild_keeping_pending` (`mapper.rs` 6497-6526) fetch outside the mutation gate, and
  `replay_pending_over_locked` adopts the fetched revision (`mapper.rs:6430`,
  `adopt_confirmed_rev`) having checked only the identity. In the model: a discard's rebuild
  fetches document 1; another client's edit makes document 2, a conflict adopts it, and the
  edit it rules out, second in the queue, is put up for review behind the head that is sent
  again; the rebuild's document 1 then forgets that review and takes the second edit for
  valid; and the head's acknowledgement raises the revision again, for which the second edit
  is sent and accepted unseen.
* A head that awaits retirement and fails a replay hides the failing edits behind it.
* A head that expired parks without Retry (`park_expired_head`; the documentation calls it
  never retryable); a failed base fetch parks it again with Retry
  (`recovery_base_unavailable`). If it is then retried, an edit whose receipt the service
  has dropped is sent again, and may be applied twice: the shortest behaviour of the model
  has 24 steps (applied, crash, access withdrawn, an outage past the retention, restart,
  the failed recovery, Retry, access given back). It is what `Remembered` excludes in
  section 5.
* A restored record can also return through `WorkerRetire` between the two steps of
  an activation.
* An upgrade verdict stops the session lane too, while `is_draining` stays true.
* A parked edit whose map is deleted is counted as failed twice, and `CountsBalance`
  is not kept across account switches, whose queues leave without a count.
* A head that is parked for its base and discarded leaves `recovery_base_failed` set
  (`resolve_failure` clears it on Retry, `pending.rs:3055`, and not on Discard). When the
  base loads, `recovery_base_loaded` (`pending.rs:2120`) reopens the head of the queue, which
  nothing parked, and the save status shows one edit too many for the rest of the session.
* A base that fails under a head that is parked already (`recovery_base_unavailable`,
  `pending.rs:2150-2157`) is counted as a second failure. It takes a head refused behind
  the fence of a deletion that then stays ambiguous and is given up.
* A base that fails and then loads reopens a parked head without resetting its
  attempts.
* An edit may be accepted and journaled in a map whose tombstone is written, and then no
  restart replays it. `enqueue_many_staged` checks fences and intents, which the tombstone
  has replaced, and no tombstones (`pending.rs` 731-745). Such a map is on screen
    * between `commit_delete` and the gate of `publish_committed` (`pending.rs` 3194-3203,
      `mapper.rs` 4657-4664);
    * after a deletion during which the credential changed, which returns without taking
      the map off the screen (`mapper.rs` 4659-4661);
    * when access was withdrawn while a deletion with unknown outcome was unresolved, which
      `recover_unavailable_area` then commits, and is given back;
    * when a display rebuild, fetched before the deletion, is applied after it.

  `pending.rs` 719-722 says of a batch with a manifest that "a reset after it recovers every
  still-active member", and the test at `mapper.rs` 8840 that "a fenced or tombstoned area
  would refuse this enqueue outright". Without the exception of `entombed`, TLC violates
  `NothingLost` in `Deletion` and `ReplaysExactly` in `Journal`. The edit is not always
  lost: if the map still exists, the worker may deliver it before the process ends.
* The initial load ignores the result of its replay (`loading.rs` 603-666).
* `pause_for_upgrade` stops lanes that `is_draining` still promises (`pending.rs:2937`).
* An abort derives the intent files to remove from the queue; if the last edit has
  left meanwhile, a file stays.

In the session runtime:

* A post that found its implementation is an action, and a reload purges it
  (`runtime.rs:2082`), though CHANGELOG.md promises that an ask posted during a reload is
  held and delivered. The buffered ones do survive. `ProcedurePosts` records the purge as
  the fate of such a post.
* A send between the drain and the requeue of a reload overtakes what was drained. The
  comment at `runtime.rs:2085` accepts that for lines; but a `Disconnected` that overtakes
  its `Connected` leaves the session "connected" without a socket, where
  `connection.rs` 1925 calls the events strictly paired. `SendsDuringReload` TRUE shows it.
* `Connected` names no attempt, so a replaced attempt's ends the wait for the live dial
  (`dispatch.rs:1666`; `runtime.rs:2722` says every ending is stamped). A
  `session.connect()` then dials again over a dial that is under way.
* A disconnect handled between the daemon's answer to a redial and its own `Reconnect` is
  overturned (`session_store.rs` 2910-2926).
* A configuration that cannot be read declines the dial while `auto_connect` stays true.
* Without any connection object a send counts as succeeded (`runtime.rs` 3932).
* A task that finds the lock of its sender poisoned returns without an ending.
* After a reload a cancellation may overtake the call it cancels; the orphaned invocation
  runs to its deadline.
* A join of a session that has ended may wait behind a live one, when a drain owns both
  and resolves them in the order of their ids.
* `unregister_session` announces the end before it removes the entry: a session that
  lists in between keeps a peer that is gone; so does one that lists a session whose
  publication is rolled back later.
* A session whose thread panicked stays listed; a start under its id is refused as a
  duplicate.

## 5. What is proved

TLAPS proves these for all values of the constants that satisfy `QueueAssumption` and
`PendingAssumption` (`LedgerAssumption` for the ledger, `PostsAssumption`,
`CallsAssumption`, `ThreadsAssumption` and `ConnectionAssumption` for the session runtime): any number of
edits, maps, accounts, sign-ins, posts, sessions, attempts and events.

* `PendingQueueTyped`: `Spec => [](TypeOK /\ InHand)`. `TypeOK` is not inductive by
  itself: a verdict is filed under the map of the request in hand, an adopted document
  under the map it was asked for. `InHand` says that a worker, an engine and a delete
  that are in such a state have an edit and a map. One lemma per action shows the parts
  the action disturbs; the transitions of a lane are lemmas of the same module;
  `InOrderExists` shows by least counterexample that any set of records can be listed
  in order, which an activation relies on.
* `EditsKeepTheirAccount`: `Spec => []OwnCredential`. The inductive invariant `Own`
  follows an edit's account along its way: the journal holds only edits that were
  made; what an activation has read belongs to the account of its tick, while other
  tasks act before it installs; the credential of an edit in memory is one of its
  account; a message carries that credential. `OwnKept` covers the actions that touch
  none of these.
* `PhasesAreOwned`, `MarksAreExact`: `Arranged` says what a queue is: sorted, of edits
  made in its map, with a phase that fits it, and with a journal that holds cloud edits
  only. `Flight` follows a head through the worker: a map in flight is the worker's, an
  edit that awaits retirement, that was answered "ok" or that has a receipt was applied.
  `Counted` adds that every queued edit is in `accounted`, without which a deletion would
  take too little from `pending_by_area`.
* `JournalIsOnScreen`: the invariant `Held` has a part for each place
  where journal and queue meet. `JournalQueued`: the edits of a queue are of one account, and
  all records of that account in the map are queued with them; `LoadedHolds`: what an
  activation has read still covers the journal; `ActiveHeld`: the queues are the active
  account's and hold all its records. Without the second, an edit staged by the old account
  could fall between the reading and the installing of a journal.
* `EditsAreKept` (`NothingLost`), without conditions: the invariant `QueueRecorded` says that
  a queued edit of a cloud map is replayable or `entombed`, so that whatever takes an edit
  from the queue, or a record from the journal, finds the other one.
* `DeletionsAreFinal` (`DeletedStaysDeleted`) and `WithdrawnStayUnsent`
  (`LeftUnsentStaysUnsent`), under `ReadHolds`: nothing retires a record between the reading
  of a journal and its installation. `CancelDuringSignIn` is the counterexample.
* `QueuesMatchJournal` (`JournalMatchesQueue`), under `ReadHolds` and `EditsSpareDeleted`: no
  edit is staged in a map that the active account's journal holds a tombstone of, that is,
  `entombed` stays empty. The conditions are stated as `[][...]_vars`, because the code
  does not enforce them (section 4).
* `EarlierEditsGoFirst`, without conditions: no request travels, and no edit has been
  applied, ahead of an edit of the same account and map that the client may still send.
  `Candidate` names what may still be sent: an edit the journal replays, one in a queue, or
  one that an activation has read. Only staging adds a candidate, and it is the newest of
  its lane; the head of a queue that may send leads its lane (`HeadLeads`), for which the
  identities must not run ahead of the credential (`Seats`).
* `EditsApplyInOrder`, under `[]Remembered`: an edit whose request is on its way and that was
  applied before has its receipt. A late request carries a revision of the map's past
  (`Dated`: the client never knows a revision that the service has not reached), so one
  that would still be applied is of the last edit of its lane (`NetLast`).
  `OrderWithinRetention` discharges the condition for every behaviour without an outage
  longer than the retention of receipts; section 4 says how it fails with one.
* `QueueImplementsLedger`: under `EditsSpareDeleted`, `ReadHolds` and `Remembered`, every step of
  `PendingQueue` is a step of `EditLedger` or leaves it as it is. Staging accepts the edit
  for the active account (`StageLedger`); the service's application is `Apply`, whose
  guards are what `LaneOrder` and `Remembered` give (`LedgerApplies`); an edit that leaves
  its queue is settled or withdrawn (`ResolvedLedger`); a deletion withdraws the map's
  queue at once (`DeletedLedger`); all else is a stutter. `QueueLeavesNoGaps` takes the
  ledger's promises back to the queue: an applied edit has no gap before it.
* `DeletesPauseTheQueue`, `DeletesAreAlone` (`DeleteAlone`). While a DELETE is out its map is
  fenced and nothing of its queue is under way; and, since a request on the wire is always
  awaited by its queue (`RequestAwaited`), nothing of it is on the wire. `RequestsOpen` is
  the part that is inductive: an in-flight map has its base and no delete, of this process
  or an earlier one, is to be settled in it. The conditions: `SyncSparesDelete`, no sync
  settles a delete this process waits for (`DeleteDuringSync` is the counterexample); and,
  for the second only, `SwitchesBetweenRequests`, an activation swaps the queues only while
  no request is on the wire. Otherwise the old account's request is still out when the new
  account deletes the map.
* `NothingSilentlyOverwritten` (`NoSilentOverwrite`). The service accepts an edit only for
  its own revision, so what must hold is that a map at the service's revision shows the
  service's document, and that every queued edit this document rules out was kept or is
  behind a review (`Informed`: `Sound` for what is shown, `Known` for what may already be on
  its way). `Reviewing` adds what this rests on: a document that was fetched rules out what
  the service does as long as only the own queue moved on (`Docs`), an edit that has a
  receipt is the head that awaits it (`Receipts`), a fetched document does not fall behind
  what its head was sent for (`Fetched`), only cloud maps have other clients
  (`SessionWhole`), and a request that would still be applied is of an edit that is valid or
  kept (`NetClean`). There are four conditions, one for each step by which the code lets an
  overwrite through:
    * `RowsBringNoNews`: the rows of a sync change no revision of a map that has its base
      (`SyncRows`);
    * `ReviewsStand`: a review ends, or its edit leaves, only when the other edits that are
      ruled out were kept (`KeepTheirs`);
    * `ReviewsFirst`: a head with a deferred review of its own is not sent (Retry, section 4);
    * `DocumentsAdvance`: no document is adopted that is older than the last one (the older
      rebuild, section 4).

  None can be spared: without any one of them, the other three kept, TLC finds an overwrite
  in an instance with two or three edits of one map.
* `SaveStatusBalanced` (`CountsBalance`): `Balanced` says that the changes sent and not
  settled are as many as `OpenEdits`, what is queued less each map's own parked head, and
  the delete on the wire. It uses the exact counts (`Counted`) and that an edit is queued in
  its own map only (`Arranged`). Each action moves the two sides alike: an edit leaves and is
  settled (`BalanceLeaves`), is parked and counted as failed (`BalanceParks`), is reopened and
  counted again (`BalanceReopens`), or is added (`BalanceGains`); `CommitBalanced` empties a
  deleted map, `InstallBalanced` swaps the queues of a sign-in. There are five conditions:
    * `NothingExpires`: no record is replayed that is older than the service's receipts
      (it parks at the head unseen by the count);
    * `SignInsCarryOver`: a sign-in brings back exactly the uncounted edits of what leaves,
      and finds no parked head (another account's queue leaves without a count);
    * `DeletesSpareParked`: no deletion is committed while the map's head is parked (it is
      counted twice);
    * `BasesParked`: a map whose base failed is parked until the base is there (Discard,
      section 4);
    * `BasesFailOnce`: a base fails under a head that is not parked (section 4).

  Here too none can be spared: with any one dropped and the other four kept, TLC finds a
  count that is wrong, after 7 to 32 steps.
* `LedgerKeepsItsPromises`: `EditLedger` drops no edit, applies each at most once and
  in order, and leaves no gap. The invariants lean on each other: `Conserved` is what
  makes an application keep `NoGaps`, and that logs hold only accepted edits is what
  keeps a new edit out of every log.
* `JournalReplaysExactly`, `QueueIsTheJournal`, `ReplaysInOrder`: under `JournalAssumption` and
  `Faultless` (the commit markers can be listed; without it `JournalUnread` is a
  counterexample). The three properties are proved together, as `Inv`: a load that lost a
  record would unbalance the queue, and a queue that missed one would not have raised
  the sequence. `Inv` adds how far the batch in hand has got (`WriterOK`: its records
  exist, come in order and belong to directories the process may write to), that only a
  marker makes a batch accepted (`MarkersOK`), and that what a deletion has still to tidy
  up is suppressed and settled already (`FilesOK`). A batch may be staged behind a tombstone,
  and a tombstone may be written for a map with such edits queued; they stay apart as
  `entombed`, in the invariant as in the properties. `LoadKeeps` is the heart: a load, wherever it
  fails, leaves the set of replayable records as it was.

* `PostsTyped`, `NoStaleCalls`: the invariant `PostsInv` adds that a reload has emptied the
  expansion and the inbox and that what is put back names no engine (`ReloadClean`);
  without it a requeued call could meet the rebuilt engine.
* `PostsKept`: `PostsSpec => []PostsAccounted`. Each step is weighed by what it moves: the members of
  a sequence that bear a post add up over concatenation (`CountConcat`), a spawn adds what it
  spawned, the loop takes one action and adds its own. `Tidy` adds what a reload relies on: the
  expansion it discards holds no post of another session, and nothing is aside outside a reload.
* `ThreadsTyped`, `AbsentEnded`, `DrainsCover` (`Inv`): the argument follows the right to join
  a thread. A reservation is resolved by the one caller who made it (`ReservationHeld`); an
  entry that is being joined has at most one caller with the right to end it
  (`ClaimsHeld`); an outcome is published only when the run is over, and the entry removed
  only later (`OutcomesProven`); a drain has a claim on each run it found that is not over
  (`DrainHolds`). `drainers` stays a natural number because it counts the drains that have
  not reopened the gate (`DrainersCounted`).
* `DialsTracked`: `DialInv` adds that the dial awaited is that of the last attempt, that no later
  attempt has a task yet, and that only a reload holds messages back. It holds with sends during a reload.
* `NoGhost`, for `~SendsDuringReload`: the invariant is about the order of the inbox. In
  the line of held and waiting messages a `Connected` of an ended attempt is followed by a
  `Disconnected`, so whoever reads them in order ends up right; a message that overtakes
  would break just that.
* `ListsTheLive`, `RollsBack`, `PeersDiscover` (`PublicationInv`): one caller builds a run (`Built`),
  and where that caller is says how far thread, gate and map have come (`StagedAt`); the gate
  bounds the rest (`GateOf`). A creation that was told is answered for: its gate is
  committed, its end is told, or its caller still has the target among those it tried
  (`Answered`). A run with scripts knows what is listed, or was told, or is among those the
  caller has still to tell (`Found`): that is where the order insert, stage, tell, commit counts.
* `ConnectionTyped` (`ConnTyped` with `DialInv`): tasks and messages belong to attempts that have begun
  (`Begun`), and a new attempt finds all earlier ones told to stop once it stops the live one
  (`Stopped`).
* `RedialsPaced` (`PacedInv`): a redial leaves `spent` set, and only what resets the count clears it.
* `LoginsOwn` (`LoginInv`): a packet on its way names an attempt whose server spoke, and a
  connection that had its login line is not waiting for one.
* `IntentsCurrent`, for `~SendsDuringReload`: if the last message of the daemon in the line says
  connect, or there is none and the session means to be online, the daemon means it too
  (`LastWord`). A message that overtakes in a reload would make an older word the last.

* `CallsTyped`, `BrokersConsistent` (`CallsInv`): beside the types, `Brokered` ties a broker's
  budgets, indexes and ids to the calls it tracks, `Staged` says which queues are empty in
  each stage of a session, and `Posted` what the waiting messages may still say: a
  cancellation is of a call nobody waits for, an answer of the call its ticket was given to.
* `PromisesKept` (`Accounted`): a promise is tracked by the broker or its settlement is in
  the expansion, and not both, whatever reloads, times out, is cancelled or answered late.
* `AnswersInSight` (`Sighted`): of a tracked call, somebody has the request, the reply or the
  invocation, or the target has ended. Each step is weighed by the messages it takes away
  (`Touched`).
* `ExpiriesKeptApart` (`Timed`): `fired` is the tick of the last expiry, and no deadline of a
  live session lies before it; so of each engine's timer at most one expiry per instant waits
  in the inbox.

The assumptions on constants are what a build fixes: two disjoint sets of maps, a map for
each edit, at least one credential, accounts that are told apart from "no account"
(`NoGen \notin Viewers`), natural budgets; `CallsAssumption` likewise for calls.

Only model-checked:

* Liveness: `DrainingDrains`, `EveryCallEnds`, `JoinsReturn`, `RowsSettle`.
* The journal properties, the order, `DeleteAlone`, `NoSilentOverwrite` and `CountsBalance`
  without their conditions: see above. On the instances of the runs they hold.

## 6. What is not modelled, and the plan

Left out of `WalJournal`: the intents of a deletion (they are in `PendingQueue`), checksums
and formats, an error in reading a single file or the directory of records or tombstones,
power loss before a directory is synced, a rename that takes effect and then
reports an error (`durable_rename` when the sync of the directory fails), and retirements
that fall into a load (`PendingQueue`: `ActivateLoad` and `ActivateInstall`). The second
validation of a batch cannot fail: the mutation gate keeps sign-ins and deletions out
between the two.

Left out of `ProcedureCalls`: payloads and byte budgets, capability checks, error codes,
the isolates of one engine (taken together), the limit of nested actions. Left out of
`ProcedurePosts`: several procedures, the package of a procedure being removed. Left out of
`RuntimeThreads`: sessions of other servers, the inspector, renames, a shutdown request
before the scripts run, a second fault inside the compensation of a failed start
(`registry.rs` 564-575: `Compensate` tells every peer it tried), a window that closes while its session starts. Left out of
`ConnectionLifecycle`: the bytes, a full outbound queue, the notice after `Disconnected`
and the wording of rows, a `Connect` link in a settled notice, several lines in one rescue
scope, the preference that turns redials off, a profile without a login line.

Left out of `PendingQueue`: several sources of one map (one document per map here),
the lane of device maps (`AwaitingPublication`), secrets and `purge_first`, refetches
for unknown exits, the initial load, moves and merges, delays (a deadline has passed
or not), the saturation of counters, a record that ages while the program runs, and a
sign-out without a new sign-in.

The plan, the most important first:

1. *Done*: `AreaQueue`, `EditLedger`, `PendingQueue`, their runs and the theorems above.
2. *Done*: `WalJournal`, its runs and theorems. Left of it: delete intents, a rename that
   takes effect and reports an error, and a refinement of `PendingQueue`'s `wal`.
3. `LocalLane`: `AwaitingPublication`, publication and reload (`local_projection.rs`).
4. The initial load and several sources of a map, joined with the engine.
5. Fences of moves and merges over two maps; then the relocation journal.
6. *Done*: `ProcedureCalls`, `ProcedurePosts`, `RuntimeThreads`, `ConnectionLifecycle`, their run
   and theorems. Left of them: the dispatch loop as a module that the others instantiate,
   so that a reload is described once; telnet negotiation; the session store.
7. *Done*: proofs of `PhaseOwned`, `MarksMatchQueue`, `AppliedInOrder`, `DeleteAlone`,
   `NoSilentOverwrite`, `CountsBalance`, the refinement of `EditLedger`, and the safety of
   `ProcedureCalls`: every invariant that a run checks has a theorem.
