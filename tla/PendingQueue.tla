----------------------------- MODULE PendingQueue -----------------------------
(***************************************************************************)
(* The mapper's pending-edit queue and everything that touches it while an *)
(* edit travels from the screen to the map service:                        *)
(*                                                                         *)
(*   editor    mutate_batches_locked stages an edit and publishes it; the  *)
(*             user cancels, retries, discards, keeps mine or theirs, and  *)
(*             deletes a map;                                              *)
(*   worker    spawn_mutation_worker / dispatch_envelope: one task that    *)
(*             sends one envelope at a time and routes its verdict;        *)
(*   engine    sync_engine: proves the viewer's identity, activates the    *)
(*             viewer's journal, fetches areas and folds the queue over    *)
(*             what it fetched;                                            *)
(*   rebuilds  the display rebuilds that follow a cancel or a resolution;  *)
(*   service   the map service: compare-and-swap on the area's revision,   *)
(*             idempotency receipts, another client's edits, deletion;     *)
(*   process   a crash loses memory, keeps the journal; a restart replays. *)
(*                                                                         *)
(* One action is one critical section of the code (a hold of the state     *)
(* lock, or of the mutation gate) together with the accounting its caller  *)
(* does before it next awaits.  Every await is a place where the other     *)
(* tasks act.  The journal is abstract: a record is replayable or not.     *)
(***************************************************************************)
EXTENDS AreaQueue

CONSTANTS
  CloudAreas, SessionAreas, \* maps of the two lanes
  NoArea,
  AreaOf,                   \* AreaOf[o]: the map edit o is made in
  MaxGen, ViewerOf,         \* credential generations and their viewers
  RowsCarryRevisions,       \* whether /sync rows carry source revisions
  MaxRebuilds,              \* bound: display rebuilds under way at once
  Budget                    \* bound: how often each environment event occurs

Areas == CloudAreas \cup SessionAreas
Gens == 1..MaxGen
NoGen == 0
Viewers == { ViewerOf[g] : g \in Gens }
Events == { "foreign", "timeout", "held", "refused", "upgrade", "cancel",
            "theirs", "mine", "discard", "retry", "ackfail", "crash",
            "outage", "sync", "vanish", "delete" }

ASSUME PendingAssumption ==
  /\ CloudAreas \cap SessionAreas = {}
  /\ NoArea \notin Areas
  /\ AreaOf \in [Ops -> Areas]
  /\ MaxGen \in Nat \ {0} /\ NoGen \notin Viewers
  /\ RowsCarryRevisions \in BOOLEAN
  /\ Budget \in [Events -> Nat]

VARIABLES
  up, cred, nextOp, left,
  areas, staged, attempts, expired, gen,        \* State and its envelopes
  deleting, intents, paused, active, shown,
  wal, owner, intentFiles, tombstones, aged,    \* the journal on disk
  unsettled, marks, accounted,                  \* SyncStats and counters
  worker, wake, engine, syncWake, rebuilds, del,\* tasks and their wakeups
  srv, revoked, receipts, net, netDel,          \* the map service
  sent, cancelled, discarded, kept, overwrote,  \* history
  entombed                                      \* history: see Stage

envVars == << up, left >>
queueVars == << areas, staged, attempts, expired, gen >>
fenceVars == << deleting, intents >>
viewerVars == << active, cred, shown >>
markerVars == << intentFiles, tombstones >>
diskVars == << wal, owner, markerVars, aged >>
statVars == << unsettled, marks, accounted >>
taskVars == << worker, engine, rebuilds, del >>
wakeVars == << wake, syncWake >>
serverVars == << srv, revoked, receipts, net, netDel >>
historyVars == << sent, cancelled, discarded, kept, overwrote, entombed >>
vars == << envVars, queueVars, fenceVars, viewerVars, diskVars, statVars,
           taskVars, wakeVars, serverVars, historyVars, nextOp, paused >>

-----------------------------------------------------------------------------
\* Initial states of the tasks and the memory of a fresh process.

NoDoc == [rev |-> NoRev, log |-> << >>, broken |-> {}]
Doc(a) == [rev |-> srv[a].rev, log |-> srv[a].log, broken |-> srv[a].broken]

IdleWorker ==
  [at |-> "run", area |-> NoArea, op |-> NoOp, gen |-> NoGen,
   reply |-> "none", rev |-> NoRev, doc |-> NoDoc, until |-> {}, due |-> {}]

NoRows == [a \in CloudAreas |-> NoRev]

\* seen: the rows whose areas have been refetched (prev_rows); rows: this
\* tick's; listed: the maps on screen when they were asked for; todo, late:
\* maps still to fetch, maps put off; before, token: what was confirmed and on
\* screen when a document was asked for.
IdleEngine(g) ==
  [at |-> "idle", gen |-> g, tick |-> NoGen, seen |-> NoRows, rows |-> NoRows,
   listed |-> {}, todo |-> {}, late |-> {}, loaded |-> {}, frozen |-> {},
   area |-> NoArea, doc |-> NoDoc, before |-> NoRev, token |-> NoRev]

NoDelete == [at |-> "none", area |-> NoArea, gen |-> NoGen, reply |-> "none"]

\* A session that has signed in, synced and loaded every map.
Init ==
  /\ up = TRUE /\ cred = 1 /\ nextOp = 1 /\ left = Budget
  /\ areas = [a \in Areas |-> [EmptyArea EXCEPT !.confirmed = 1, !.token = 1]]
  /\ staged = {} /\ expired = {}
  /\ attempts = [o \in Ops |-> 0] /\ gen = [o \in Ops |-> NoGen]
  /\ deleting = {} /\ intents = {} /\ paused = FALSE /\ active = 1
  /\ shown = Areas
  /\ wal = [o \in Ops |-> "none"] /\ owner = [o \in Ops |-> NoGen]
  /\ intentFiles = {} /\ tombstones = {} /\ aged = {}
  /\ unsettled = 0 /\ marks = [a \in Areas |-> 0] /\ accounted = {}
  /\ worker = IdleWorker /\ wake = FALSE
  /\ engine = [IdleEngine(1) EXCEPT !.seen = [a \in CloudAreas |-> 1]]
  /\ syncWake = FALSE
  /\ rebuilds = {} /\ del = NoDelete
  /\ srv = [a \in Areas |->
             [exists |-> TRUE, rev |-> 1, log |-> << >>, broken |-> {}]]
  /\ revoked = {} /\ receipts = [o \in Ops |-> NoRev]
  /\ net = {} /\ netDel = {}
  /\ sent = {} /\ cancelled = {} /\ discarded = {}
  /\ kept = {} /\ overwrote = {} /\ entombed = {}

-----------------------------------------------------------------------------
\* Helpers.

Spend(e) == left[e] > 0 /\ left' = [left EXCEPT ![e] = @ - 1]
Least(m, n) == IF m < n THEN m ELSE n
\* Mutated Lower: the count goes with its first settlement.
Lower_Forgets(n, m) == IF m = 0 THEN n ELSE 0

Lower(n, m) == IF n > m THEN n - m ELSE 0        \* saturating_sub
IsCloud(o) == AreaOf[o] \in CloudAreas
Fenced(a) == a \in deleting \cup intents
Visible(a) == srv[a].exists /\ a \notin revoked

\* A set of edits in the order of their sequence numbers.
InOrder(S) ==
  CHOOSE q \in [1..Cardinality(S) -> S] :
    \A i, j \in DOMAIN q : i < j => q[i] < q[j]

\* area_identity: the credential of a queue's head, if there is one.
HeadGen(area) == IF area.queue = << >> THEN NoGen ELSE gen[area.queue[1]]

\* The mutation gate: held from staging to publication, and by the engine
\* across a viewer activation, which reads the journal under it.
GateFree == staged = {} /\ engine.at # "activating"

SetArea(a, area) == areas' = [areas EXCEPT ![a] = area]

\* The identity a display rebuild was asked for is still the current one.
IdentityActive(g) == g = NoGen \/ (cred = g /\ active = g)

\* A record a restart would replay: durable, and not of a deleted map.
Replayable(o) == wal[o] = "json" /\ << AreaOf[o], owner[o] >> \notin tombstones

\* Mutated Retire: the record stays where a restart replays it.
Retire_Nothing(S) == UNCHANGED wal

\* retire_journal: out of the replay namespace.
Retire(S) ==
  wal' = [o \in Ops |-> IF o \in S /\ wal[o] = "json" THEN "gone" ELSE wal[o]]

-----------------------------------------------------------------------------
\* The editor.

\* mutate_batches_locked up to publication: validated, written to the journal
\* with its commit marker, queued unpublished, accounted.  A fence or an intent
\* refuses it, a tombstone does not: entombed remembers the edits accepted in a
\* map whose deletion the account's journal has recorded.
Stage ==
  LET o == nextOp  a == AreaOf[o] IN
  /\ up /\ GateFree /\ nextOp \in Ops
  /\ a \in shown /\ ~Fenced(a)
  /\ o \notin areas[a].view
  /\ IsCloud(o) => active # NoGen
  /\ nextOp' = nextOp + 1
  /\ areas' = [areas EXCEPT ![a].queue = Append(@, o)]
  /\ staged' = {o}
  /\ gen' = [gen EXCEPT ![o] = IF IsCloud(o) THEN active ELSE NoGen]
  /\ wal' = [wal EXCEPT ![o] = IF IsCloud(o) THEN "json" ELSE @]
  /\ owner' = [owner EXCEPT ![o] = IF IsCloud(o) THEN ViewerOf[active] ELSE @]
  /\ unsettled' = unsettled + 1
  /\ marks' = [marks EXCEPT ![a] = @ + 1]
  /\ accounted' = accounted \cup {o}
  /\ entombed' = entombed \cup { p \in {o} :
                   IsCloud(p) /\ << a, ViewerOf[active] >> \in tombstones }
  /\ UNCHANGED << envVars, attempts, expired, fenceVars, viewerVars,
                  markerVars, aged, taskVars, wakeVars, serverVars, sent,
                  cancelled, discarded, kept, overwrote, paused >>

\* publish_staged: the worker may now see the edit.
Publish ==
  /\ up /\ staged # {}
  /\ staged' = {}
  /\ wake' = TRUE
  /\ UNCHANGED << envVars, areas, attempts, expired, gen, fenceVars,
                  viewerVars, diskVars, statVars, taskVars, syncWake,
                  serverVars, historyVars, nextOp, paused >>

\* A display rebuild follows; two at once is the bound.
Rebuild(a, g, keep) ==
  /\ Cardinality(rebuilds) < MaxRebuilds
  /\ rebuilds' = rebuilds \cup
       {[at |-> "fetch", area |-> a, gen |-> g, keep |-> keep, doc |-> NoDoc]}

\* cancel_pending: a queued edit leaves without an outcome.
Cancel(o) ==
  LET a == AreaOf[o] IN
  /\ up /\ Spend("cancel") /\ o \notin staged
  /\ Cancellable(areas[a], o)
  /\ SetArea(a, CancelIn(areas[a], o, expired))
  /\ Retire({o})
  /\ unsettled' = unsettled - 1
  /\ marks' = [marks EXCEPT ![a] = Lower(@, 1)]
  /\ wake' = TRUE
  /\ Rebuild(a, gen[o], FALSE)
  /\ cancelled' = cancelled \cup {o}
  /\ UNCHANGED << up, staged, attempts, expired, gen, fenceVars, viewerVars,
                  owner, markerVars, aged, accounted, worker, engine, del,
                  syncWake, serverVars, sent, discarded, kept, overwrote, entombed,
                  nextOp, paused >>

\* resolve_failed(retry): the parked head may send again.
Retry(a) ==
  LET area == areas[a] IN
  /\ up /\ area.phase.kind = "Failed" /\ area.phase.retryable /\ Spend("retry")
  /\ SetArea(a, [area EXCEPT !.phase = Ready, !.baseFailed = FALSE])
  /\ attempts' = [attempts EXCEPT ![area.phase.op] = 0]
  /\ unsettled' = unsettled + 1
  /\ wake' = TRUE /\ syncWake' = TRUE
  /\ UNCHANGED << up, staged, expired, gen, fenceVars, viewerVars,
                  diskVars, marks, accounted, taskVars, serverVars,
                  historyVars, nextOp, paused >>

\* resolve_failed(discard): the parked edit leaves; its end was counted when
\* it was parked.
Discard(a) ==
  LET area == areas[a]  o == area.phase.op IN
  /\ up /\ area.phase.kind = "Failed" /\ o \in Queued(area) /\ Spend("discard")
  /\ Retire({o})
  /\ SetArea(a, ResumeWithDeferredConflict(
                  [area EXCEPT !.queue = Remove(@, o)], expired))
  /\ marks' = [marks EXCEPT ![a] = Lower(@, 1)]
  /\ wake' = TRUE
  /\ Rebuild(a, HeadGen(area), FALSE)
  /\ discarded' = discarded \cup {o}
  /\ UNCHANGED << up, staged, attempts, expired, gen, fenceVars,
                  viewerVars, owner, markerVars, aged, unsettled, accounted,
                  worker, engine, del, syncWake, serverVars, sent, cancelled,
                  kept, overwrote, entombed, nextOp, paused >>

\* resolve_conflict(keep theirs): the conflicted edit leaves.
KeepTheirs(a) ==
  LET area == areas[a]  o == area.phase.op IN
  /\ up /\ area.phase.kind = "Conflict" /\ o \in Queued(area) /\ Spend("theirs")
  /\ Retire({o})
  /\ SetArea(a, [area EXCEPT !.phase = Ready, !.queue = Remove(@, o)])
  /\ unsettled' = unsettled - 1
  /\ marks' = [marks EXCEPT ![a] = Lower(@, 1)]
  /\ wake' = TRUE
  /\ Rebuild(a, HeadGen(area), FALSE)
  /\ discarded' = discarded \cup {o}
  /\ UNCHANGED << up, staged, attempts, expired, gen, fenceVars,
                  viewerVars, owner, markerVars, aged, accounted, worker, engine,
                  del, syncWake, serverVars, sent, cancelled, kept,
                  overwrote, entombed, nextOp, paused >>

\* resolve_conflict(keep mine): the queue stays paused for the rebuild.
KeepMine(a) ==
  /\ up /\ areas[a].phase.kind = "Conflict" /\ Spend("mine")
  /\ Rebuild(a, HeadGen(areas[a]), TRUE)
  /\ kept' = kept \cup Queued(areas[a])
  /\ UNCHANGED << up, queueVars, fenceVars, viewerVars, diskVars,
                  statVars, worker, engine, del, wakeVars, serverVars, sent,
                  cancelled, discarded, overwrote, entombed, nextOp, paused >>

-----------------------------------------------------------------------------
\* Display rebuilds.

\* ready_resend, which ends a keep-mine rebuild whatever became of it.
ReadyResend(area, keep) ==
  IF keep /\ area.phase.kind = "Conflict"
    THEN [area EXCEPT !.phase = Ready] ELSE area

\* refetch_confirmed: the document, or nothing when the identity moved on or
\* the fetch failed.
RebuildFetch(r) ==
  /\ up /\ r \in rebuilds /\ r.at = "fetch"
  /\ \/ /\ IdentityActive(r.gen) /\ Visible(r.area)
        /\ rebuilds' = (rebuilds \ {r}) \cup
                          {[r EXCEPT !.at = "got", !.doc = Doc(r.area)]}
        /\ UNCHANGED << left, areas, wake >>
     \/ /\ IF IdentityActive(r.gen) /\ Visible(r.area)
             THEN Spend("timeout") ELSE UNCHANGED left
        /\ rebuilds' = rebuilds \ {r}
        /\ SetArea(r.area, ReadyResend(areas[r.area], r.keep))
        /\ wake' = (wake \/ r.keep)
  /\ UNCHANGED << up, staged, attempts, expired, gen, fenceVars, viewerVars,
                  diskVars, statVars, worker, engine, del, syncWake,
                  serverVars, historyVars, nextOp, paused >>

\* rebuild_after_removal / rebuild_keeping_pending, under the gate.  Keep mine
\* keeps every edit queued by then.
RebuildApply(r) ==
  LET area == areas[r.area]
      folded == IF ~IdentityActive(r.gen) THEN area
                ELSE IF r.keep THEN Adopt(area, r.doc)
                ELSE ReplayOver(area, r.doc)
  IN
  /\ up /\ GateFree /\ r \in rebuilds /\ r.at = "got"
  /\ rebuilds' = rebuilds \ {r}
  /\ SetArea(r.area, ReadyResend(folded, r.keep))
  /\ shown' = IF IdentityActive(r.gen) THEN shown \cup {r.area} ELSE shown
  /\ wake' = (wake \/ r.keep)
  /\ kept' = IF r.keep THEN kept \cup Queued(area) ELSE kept
  /\ UNCHANGED << envVars, staged, attempts, expired, gen, fenceVars,
                  active, cred, diskVars, statVars, worker, engine, del,
                  syncWake, serverVars, sent, cancelled, discarded, overwrote,
                  entombed, nextOp, paused >>

-----------------------------------------------------------------------------
\* The worker: one loop, one request at a time.

Sendable(a) ==
  LET o == HeadOp(areas[a]) IN
  /\ ~paused /\ ~Fenced(a) /\ ~areas[a].needsBase
  /\ areas[a].phase.kind \in {"Ready", "Backoff"}
  /\ o # NoOp /\ o \notin staged
  /\ IsCloud(o) => gen[o] = active

Retiring(a) == ~Fenced(a) /\ areas[a].phase.kind = "AwaitingRetirement"

\* Mutated Waiting: a back-off's deadline is not reported.
Waiting_RetirementsOnly == { a \in Areas : Retiring(a) }

\* Areas with a deadline that take_ready or retry_ready_retirement reports.
Waiting ==
  { a \in Areas :
      \/ Retiring(a)
      \/ /\ ~paused /\ ~Fenced(a) /\ ~areas[a].needsBase
         /\ areas[a].phase = Backoff }

\* The request is still the one the queue is waiting for.
Current ==
  /\ areas[worker.area].phase = InFlight
  /\ HeadOp(areas[worker.area]) = worker.op
  /\ gen[worker.op] = worker.gen
  /\ IsCloud(worker.op) => active = worker.gen

WorkerDone == worker' = IdleWorker

\* retry_ready_retirement: only the journal's `.json` -> `.ack` transition is
\* retried, never the request.
WorkerRetire(a) ==
  LET o == areas[a].phase.op IN
  /\ up /\ worker.at = "run" /\ Retiring(a)
  /\ SetArea(a, PopAcknowledged(areas[a], areas[a].phase.rev, expired))
  /\ Retire({o})
  /\ IF o \in accounted
       THEN /\ unsettled' = unsettled - 1
            /\ marks' = [marks EXCEPT ![a] = Lower(@, 1)]
       ELSE UNCHANGED << unsettled, marks >>
  /\ accounted' = accounted \ {o}
  /\ wake' = TRUE
  /\ worker' = [worker EXCEPT !.due = @ \ {a}]
  /\ UNCHANGED << envVars, staged, attempts, expired, gen, fenceVars,
                  viewerVars, owner, markerVars, aged, engine, rebuilds, del,
                  syncWake, serverVars, historyVars, nextOp, paused >>

\* The transition failed again: a new deadline.
WorkerRetireFails(a) ==
  /\ up /\ worker.at = "run" /\ Retiring(a) /\ Spend("ackfail")
  /\ worker' = [worker EXCEPT !.due = @ \ {a}]
  /\ UNCHANGED << up, queueVars, fenceVars, viewerVars, diskVars, statVars,
                  engine, rebuilds, del, wakeVars, serverVars, historyVars,
                  nextOp, paused >>

\* take_ready and the start of dispatch_envelope: the head's precondition is
\* the area's confirmed revision.  The backend refuses to send under another
\* credential than the one the edit was activated with.
WorkerTake(a) ==
  LET o == HeadOp(areas[a])
      rev == IF areas[a].confirmed = NoRev THEN 0 ELSE areas[a].confirmed
      dropped == IsCloud(o) /\ cred # gen[o]
  IN
  /\ up /\ worker.at = "run" /\ Sendable(a)
  /\ \A b \in worker.due : ~Retiring(b)
  /\ SetArea(a, [areas[a] EXCEPT !.phase = InFlight])
  /\ worker' = [IdleWorker EXCEPT
                 !.at = "wire", !.area = a, !.op = o, !.gen = gen[o],
                 !.rev = rev,
                 !.reply = IF dropped THEN "credential" ELSE "none"]
  /\ IF dropped THEN UNCHANGED << net, sent >>
     ELSE /\ net' = net \cup {[op |-> o, rev |-> rev, gen |-> gen[o]]}
          /\ sent' = sent \cup {o}
  /\ UNCHANGED << envVars, staged, attempts, expired, gen, fenceVars,
                  viewerVars, diskVars, statVars, engine, rebuilds, del,
                  wakeVars, srv, revoked, receipts, netDel, cancelled,
                  discarded, kept, overwrote, entombed, nextOp, paused >>

\* Nothing to send or retire: sleep until a wake or the earliest deadline.  A
\* passed back-off whose head may not send is only reopened.
WorkerIdle ==
  /\ up /\ worker.at = "run"
  /\ \A a \in Areas : Sendable(a) => areas[a].phase = Backoff /\ a \notin worker.due
  /\ \A a \in worker.due : ~Retiring(a)
  /\ \E S \in SUBSET { a \in Waiting : areas[a].phase = Backoff /\ ~Sendable(a) } :
       /\ worker.due \cap { a \in Waiting : areas[a].phase = Backoff } \subseteq S
       /\ areas' = [a \in Areas |->
                     IF a \in S THEN [areas[a] EXCEPT !.phase = Ready] ELSE areas[a]]
       /\ worker' = [IdleWorker EXCEPT !.at = "idle", !.until = Waiting \ S]
  /\ UNCHANGED << envVars, staged, attempts, expired, gen, fenceVars,
                  viewerVars, diskVars, statVars, engine, rebuilds, del,
                  wakeVars, serverVars, historyVars, nextOp, paused >>

WorkerWake ==
  /\ up /\ worker.at = "idle" /\ wake
  /\ wake' = FALSE
  /\ WorkerDone
  /\ UNCHANGED << envVars, queueVars, fenceVars, viewerVars, diskVars,
                  statVars, engine, rebuilds, del, syncWake, serverVars,
                  historyVars, nextOp, paused >>

\* A deadline the sleep was armed with has passed.
WorkerTimer(a) ==
  /\ up /\ worker.at = "idle" /\ a \in worker.until
  /\ worker' = [IdleWorker EXCEPT !.due = {a}]
  /\ UNCHANGED << envVars, queueVars, fenceVars, viewerVars, diskVars,
                  statVars, engine, rebuilds, del, wakeVars, serverVars,
                  historyVars, nextOp, paused >>

-----------------------------------------------------------------------------
\* dispatch_envelope's verdicts.

Verdict(reply) == up /\ worker.at = "wire" /\ worker.reply = reply

\* What no verdict touches.
verdictFrame == << up, staged, expired, gen, fenceVars, cred, owner, markerVars,
                   aged, accounted, engine, rebuilds, del, serverVars,
                   historyVars, nextOp >>

\* The queue was removed or reopened meanwhile: the verdict is dropped.
VerdictStale ==
  /\ up /\ worker.at = "wire" /\ worker.reply # "none" /\ ~Current
  /\ WorkerDone
  /\ UNCHANGED << verdictFrame, left, areas, attempts, active, shown, wal,
                  unsettled, marks, wakeVars, paused >>

\* acknowledge, under the gate; a journal that cannot retire the record keeps
\* the head for retry_ready_retirement.
VerdictOk ==
  LET a == worker.area  o == worker.op IN
  /\ Verdict("ok") /\ Current /\ GateFree
  /\ \/ /\ SetArea(a, PopAcknowledged(areas[a], worker.rev, expired))
        /\ Retire({o})
        /\ unsettled' = unsettled - 1
        /\ marks' = [marks EXCEPT ![a] = Lower(@, 1)]
        /\ UNCHANGED left
     \/ /\ IsCloud(o) /\ Spend("ackfail")
        /\ SetArea(a, [areas[a] EXCEPT !.phase = AwaitingRetirement(o, worker.rev)])
        /\ UNCHANGED << wal, unsettled, marks >>
  /\ wake' = TRUE
  /\ WorkerDone
  /\ UNCHANGED << verdictFrame, attempts, active, shown, syncWake, paused >>

\* credential_changed and the sync it asks for.
CredentialChanged ==
  LET a == worker.area
      owned == areas[a].phase = InFlight /\ HeadOp(areas[a]) = worker.op
  IN
  /\ active' = IF owned /\ active = worker.gen THEN NoGen ELSE active
  /\ areas' = IF owned THEN [areas EXCEPT ![a].phase = Ready] ELSE areas
  /\ syncWake' = TRUE
  /\ WorkerDone
  /\ UNCHANGED << verdictFrame, left, attempts, shown, wal, unsettled, marks,
                  wake, paused >>

VerdictCredential ==
  /\ Verdict("credential") /\ Current
  /\ CredentialChanged

\* Mutated TransportFailure: the next edit goes first meanwhile.
TransportFailure_Rotates ==
  LET a == worker.area  o == worker.op  q == areas[a].queue IN
  /\ attempts' = [attempts EXCEPT ![o] = @ + 1]
  /\ SetArea(a, [areas[a] EXCEPT
       !.phase = Backoff,
       !.queue = IF HeadOp(areas[a]) = o THEN Append(Tail(q), o) ELSE q])
  /\ wake' = TRUE
  /\ UNCHANGED unsettled

\* transport_failure: back off, or park once the attempts are spent.
TransportFailure ==
  LET a == worker.area  o == worker.op  parked == attempts[o] + 1 >= MaxTransportAttempts IN
  IF areas[a].phase = InFlight /\ HeadOp(areas[a]) = o
    THEN /\ attempts' = [attempts EXCEPT ![o] = @ + 1]
         /\ SetArea(a, [areas[a] EXCEPT
              !.phase = IF parked THEN Failed(o, TRUE) ELSE Backoff])
         /\ unsettled' = IF parked THEN unsettled - 1 ELSE unsettled
         /\ wake' = TRUE
    ELSE /\ wake' = (wake \/ areas[a].queue = << >>)
         /\ UNCHANGED << attempts, areas, unsettled >>

VerdictTransport ==
  /\ Verdict("transport") /\ Current
  /\ TransportFailure
  /\ WorkerDone
  /\ UNCHANGED << verdictFrame, left, active, shown, wal, marks, syncWake, paused >>

\* service_unavailable: the service asks to wait; no attempt is spent.
VerdictHeld ==
  /\ Verdict("held") /\ Current
  /\ SetArea(worker.area, [areas[worker.area] EXCEPT !.phase = Backoff])
  /\ wake' = TRUE
  /\ WorkerDone
  /\ UNCHANGED << verdictFrame, left, attempts, active, shown, wal, unsettled,
                  marks, syncWake, paused >>

\* permanent_failure: a refusal parks the edit for Retry or Discard.
VerdictRefused ==
  /\ Verdict("refused") /\ Current
  /\ SetArea(worker.area, [areas[worker.area] EXCEPT !.phase = Failed(worker.op, TRUE)])
  /\ unsettled' = unsettled - 1
  /\ WorkerDone
  /\ UNCHANGED << verdictFrame, left, attempts, active, shown, wal, marks,
                  wakeVars, paused >>

\* pause_for_upgrade: nothing is sent any more.
VerdictUpgrade ==
  /\ Verdict("upgrade") /\ Current
  /\ paused' = TRUE
  /\ areas' = [a \in Areas |->
                IF areas[a].phase = InFlight /\ a \in CloudAreas
                  THEN [areas[a] EXCEPT !.phase = Ready] ELSE areas[a]]
  /\ WorkerDone
  /\ UNCHANGED << verdictFrame, left, attempts, active, shown, wal, unsettled,
                  marks, wakeVars >>

\* reconcile_conflict refetches, unless the credential has moved on.
VerdictConflict ==
  /\ Verdict("conflict") /\ Current
  /\ IF IsCloud(worker.op) /\ cred # worker.gen THEN CredentialChanged
     ELSE /\ worker' = [worker EXCEPT !.at = "refetch", !.reply = "none"]
          /\ UNCHANGED << verdictFrame, left, areas, attempts, active, shown,
                          wal, unsettled, marks, wakeVars, paused >>

ConflictFetch ==
  LET stale == IsCloud(worker.op) /\ cred # worker.gen
      fetched == [worker EXCEPT !.doc = Doc(worker.area), !.reply = "doc"]
  IN
  /\ up /\ worker.at = "refetch" /\ worker.reply = "none"
  /\ \/ stale /\ CredentialChanged
     \/ /\ ~stale /\ Visible(worker.area)
        /\ worker' = fetched
        /\ UNCHANGED << verdictFrame, left, areas, attempts, active, shown,
                        wal, unsettled, marks, wakeVars, paused >>
     \/ /\ ~stale
        /\ IF Visible(worker.area) THEN Spend("timeout") ELSE UNCHANGED left
        /\ TransportFailure
        /\ WorkerDone
        /\ UNCHANGED << verdictFrame, active, shown, wal, marks, syncWake, paused >>

\* Under the gate: the document is adopted, the queue folded over it, and the
\* head released to send again, or the first edit that no longer applies put
\* up for review.
ConflictApply ==
  LET a == worker.area
      replayed == ReplayOver([areas[a] EXCEPT !.phase = Ready], worker.doc)
  IN
  /\ up /\ worker.at = "refetch" /\ worker.reply = "doc" /\ GateFree
  /\ IF IsCloud(worker.op) /\ cred # worker.gen THEN CredentialChanged
     ELSE /\ IF Current
               THEN /\ SetArea(a, replayed)
                    /\ shown' = shown \cup {a}
                    /\ wake' = TRUE
               ELSE UNCHANGED << areas, shown, wake >>
          /\ WorkerDone
          /\ UNCHANGED << verdictFrame, left, attempts, active, wal, unsettled,
                          marks, syncWake, paused >>

-----------------------------------------------------------------------------
\* The sync engine.

EngineIdle == engine' = IdleEngine(engine.gen)

\* A tick that gives up after the rows were taken forgets them (prev_rows).
engineFrame == << up, attempts, staged, gen, cred, aged, worker, rebuilds, del,
                  srv, revoked, receipts, net, netDel, sent, cancelled, kept,
                  overwrote, entombed, nextOp, paused, owner >>

\* A tick starts: another credential than the last proven one hides the cloud
\* maps before its identity is resolved.
EngineTick ==
  /\ up /\ engine.at = "idle" /\ syncWake
  /\ syncWake' = FALSE
  /\ IF engine.gen # cred
       THEN /\ shown' = shown \ CloudAreas
            /\ engine' = [IdleEngine(engine.gen) EXCEPT !.at = "identity", !.tick = cred]
       ELSE /\ engine' = [engine EXCEPT !.at = "rows", !.tick = cred]
            /\ UNCHANGED shown
  /\ UNCHANGED << engineFrame, discarded, left, areas, expired, fenceVars, active, wal,
                  markerVars, statVars, wake >>

\* The service does not answer: the engine schedules another tick.
EngineFail ==
  /\ up /\ engine.at \in {"identity", "rows"} /\ Spend("timeout")
  /\ engine' = [IdleEngine(engine.gen) EXCEPT !.seen = engine.seen]
  /\ syncWake' = TRUE
  /\ UNCHANGED << engineFrame, discarded, areas, expired, fenceVars, active, shown, wal,
                  markerVars, statVars, wake >>

\* Mutated Loadable: another account's records, or those of deleted maps.
Loadable_OfAnyone(viewer) == { o \in Ops : Replayable(o) }
Loadable_IgnoresTombstones(viewer) == { o \in Ops : wal[o] = "json" /\ owner[o] = viewer }

\* load_viewer_records: what the viewer's journal replays.
Loadable(viewer) == { o \in Ops : Replayable(o) /\ owner[o] = viewer }

\* activate_pending_viewer takes the gate; activate_viewer reads the viewer's
\* journal before it takes the state lock.  Records of deleted maps are retired.
ActivateLoad ==
  LET viewer == ViewerOf[engine.tick]
      live == Loadable(viewer)
  IN
  /\ up /\ engine.at = "identity" /\ staged = {}
  /\ IF cred # engine.tick
       THEN EngineIdle /\ UNCHANGED wal
     ELSE IF active = engine.tick
       THEN /\ engine' = [engine EXCEPT !.at = "rows", !.gen = engine.tick]
            /\ UNCHANGED wal
     ELSE /\ engine' = [engine EXCEPT
               !.at = "activating", !.loaded = live,
               !.frozen = { AreaOf[o] : o \in
                 { p \in live : << AreaOf[p], viewer >> \in intentFiles } }]
          /\ Retire({ o \in Ops : owner[o] = viewer } \ live)
  /\ UNCHANGED << engineFrame, discarded, left, areas, expired, fenceVars, active, shown,
                  markerVars, statVars, wakeVars >>

\* Then it swaps the queues: every cloud queue leaves, the viewer's records
\* return in journal order behind a base that must be fetched first.
ActivateInstall ==
  LET gone == { a \in CloudAreas : areas[a].queue # << >> }
      remaining(a) == IF a \in gone THEN GoneArea(areas[a]) ELSE areas[a]
      restored(a) == InOrder({ o \in engine.loaded : AreaOf[o] = a })
      old == expired \cup (engine.loaded \cap aged)
      newly == engine.loaded \ accounted
  IN
  /\ up /\ engine.at = "activating"
  /\ areas' = [a \in Areas |->
       IF restored(a) # << >>
         THEN ParkExpiredHead([remaining(a) EXCEPT !.queue = restored(a),
                                              !.needsBase = TRUE], old)
         ELSE remaining(a)]
  /\ expired' = old
  /\ gen' = [o \in Ops |-> IF o \in engine.loaded THEN engine.tick ELSE gen[o]]
  /\ attempts' = [o \in Ops |-> IF o \in engine.loaded THEN 0 ELSE attempts[o]]
  /\ intents' = (intents \ gone) \cup engine.frozen
  /\ active' = engine.tick
  /\ unsettled' = unsettled + Cardinality(newly) - Cardinality(newly \cap aged)
  /\ accounted' = accounted \cup engine.loaded
  /\ marks' = [a \in Areas |->
       Lower(marks[a], IF a \in gone THEN Len(areas[a].queue) ELSE 0)
         + Len(restored(a))]
  /\ wake' = TRUE
  /\ engine' = [engine EXCEPT !.at = "rows", !.gen = engine.tick,
                              !.loaded = {}, !.frozen = {}]
  /\ UNCHANGED << envVars, staged, deleting, cred, shown, diskVars, worker,
                  rebuilds, del, syncWake, serverVars, historyVars, nextOp,
                  paused >>

Recovering == { a \in CloudAreas : areas[a].needsBase }

\* The service lists the maps the viewer sees.
EngineAsk ==
  /\ up /\ engine.at = "rows"
  /\ engine' = [engine EXCEPT
       !.at = "asked", !.listed = shown \cap CloudAreas,
       !.rows = [a \in CloudAreas |-> IF Visible(a) THEN srv[a].rev ELSE NoRev]]
  /\ UNCHANGED << engineFrame, discarded, left, areas, expired, fenceVars, active,
                  shown, wal, markerVars, statVars, wakeVars >>

\* The rows arrive: their revisions are noted at once, maps they no longer
\* list leave the screen, changed ones and those waiting for a base are to be
\* fetched.
EngineRows ==
  LET rows == engine.rows
      present == { a \in CloudAreas : rows[a] # NoRev }
      known == engine.listed \cup { a \in CloudAreas : engine.seen[a] # NoRev }
  IN
  /\ up /\ engine.at = "asked"
  /\ IF cred # engine.tick
       THEN /\ engine' = [IdleEngine(engine.gen) EXCEPT !.seen = engine.seen]
            /\ UNCHANGED << areas, shown >>
       ELSE /\ areas' = [a \in Areas |->
                 IF RowsCarryRevisions /\ a \in present
                   THEN Confirm(areas[a], rows[a]) ELSE areas[a]]
            /\ shown' = shown \ (known \ present)
            /\ engine' = [engine EXCEPT
                 !.at = "rest", !.listed = {},
                 !.todo = Recovering \cup
                            { a \in present : rows[a] # engine.seen[a] }]
  /\ UNCHANGED << engineFrame, discarded, left, expired, fenceVars, active, wal,
                  markerVars, statVars, wakeVars >>

\* The projection token on screen.
Token(a) == IF a \in shown THEN areas[a].token ELSE NoRev

EngineSkips(a) == [engine EXCEPT !.todo = @ \ {a}, !.late = @ \cup {a}]

\* commit_delete and account_deleted_pending: the area is gone and so are its
\* edits; the tombstone is the commit point, whatever becomes of the records.
CommitDelete(a, tracked) ==
  LET ops == Queued(areas[a])  counted == Cardinality(ops \cap accounted)
      scopes == { << a, owner[o] >> : o \in { p \in ops : IsCloud(p) } }
  IN
  /\ tombstones' = tombstones \cup scopes
  /\ intentFiles' = intentFiles \ scopes
  /\ deleting' = deleting \ {a} /\ intents' = intents \ {a}
  /\ SetArea(a, GoneArea(areas[a]))
  /\ \E S \in SUBSET ops : Retire(S)
  /\ accounted' = accounted \ ops
  /\ discarded' = discarded \cup ops
  /\ wake' = TRUE
  /\ unsettled' = unsettled - counted - tracked
  /\ marks' = [marks EXCEPT ![a] = Lower(Lower(@, counted), tracked)]

\* Mutated AbortDelete: the intent becomes a tombstone, as if committed.
AbortDelete_Commits(a) ==
  LET scopes == { << a, owner[o] >> : o \in { p \in Queued(areas[a]) : IsCloud(p) } } IN
  /\ tombstones' = tombstones \cup scopes /\ intentFiles' = intentFiles \ scopes
  /\ deleting' = deleting \ {a} /\ intents' = intents \ {a}

\* abort_delete: the intent file goes first, then both fences.
AbortDelete(a) ==
  LET scopes == { << a, owner[o] >> : o \in { p \in Queued(areas[a]) : IsCloud(p) } } IN
  /\ intentFiles' = intentFiles \ scopes /\ UNCHANGED tombstones
  /\ deleting' = deleting \ {a} /\ intents' = intents \ {a}

\* recover_unavailable_area: a restored delete is settled, or the restored
\* queue parks until its map can be read again.
RecoverUnavailable(a) ==
  LET area == areas[a] IN
  IF a \in intents
    THEN CommitDelete(a, 0)
    ELSE /\ IF area.needsBase /\ ~area.baseFailed /\ area.queue # << >>
              THEN /\ SetArea(a, [area EXCEPT
                        !.baseFailed = TRUE, !.phase = Failed(HeadOp(area), TRUE)])
                   /\ unsettled' = unsettled - 1
              ELSE UNCHANGED << areas, unsettled >>
         /\ UNCHANGED << fenceVars, wal, markerVars, marks, accounted,
                         discarded, wake >>

\* One area of the tick: put off while it has unsettled writes on screen, or
\* its document requested.
EngineFetch(a) ==
  LET listed == engine.rows[a] # NoRev
      busy == listed /\ marks[a] > 0 /\ a \in shown /\ ~areas[a].needsBase
      nothing == << areas, fenceVars, wal, markerVars, statVars, discarded, wake >>
  IN
  /\ up /\ engine.at = "rest" /\ a \in engine.todo
  /\ \/ /\ busy
        /\ engine' = EngineSkips(a)
        /\ UNCHANGED << nothing, left, syncWake >>
     \/ /\ ~busy /\ cred # engine.tick
        /\ EngineIdle
        /\ UNCHANGED << nothing, left, syncWake >>
     \/ /\ ~busy /\ cred = engine.tick /\ Visible(a)
        /\ engine' = [engine EXCEPT !.at = "fetched", !.area = a, !.doc = Doc(a),
                                    !.before = areas[a].confirmed, !.token = Token(a)]
        /\ UNCHANGED << nothing, left, syncWake >>
     \/ /\ ~busy /\ cred = engine.tick /\ Visible(a) /\ Spend("timeout")
        /\ engine' = EngineSkips(a)
        /\ syncWake' = TRUE
        /\ UNCHANGED nothing
     \/ /\ ~busy /\ cred = engine.tick /\ ~Visible(a) /\ listed
        /\ engine' = EngineSkips(a)
        /\ UNCHANGED << nothing, left, syncWake >>
     \/ /\ ~busy /\ cred = engine.tick /\ ~Visible(a) /\ ~listed
        /\ engine' = [engine EXCEPT !.todo = @ \ {a}]
        /\ RecoverUnavailable(a)
        /\ UNCHANGED << left, syncWake >>
  /\ UNCHANGED << engineFrame, expired, active, shown >>

\* Another document reached the screen during the request, or a revision was
\* confirmed that this one is older than.
Outdated(a) ==
  \/ Token(a) # engine.token /\ Token(a) # engine.doc.rev
  \/ /\ areas[a].confirmed > engine.before
     /\ engine.doc.rev < areas[a].confirmed

\* recovery_base_loaded: only a queue that had parked for its base wakes the
\* worker and reopens the count that the park closed.
BaseLoaded(area) ==
  LET opened == [area EXCEPT !.needsBase = FALSE, !.baseFailed = FALSE] IN
  IF area.baseFailed /\ area.phase.kind = "Failed"
    THEN ResumeWithDeferredConflict(opened, expired) ELSE opened

\* refetch_area's adoption, under the gate: the area is there, so a recovered
\* delete is aborted; the document is adopted unless outdated, the queue folded
\* over it, the base released.
EngineAdopt ==
  LET a == engine.area
      aborts == a \in intents
      replayed == ReplayOver(areas[a], engine.doc)
      reopens == areas[a].baseFailed /\ areas[a].queue # << >>
      rested == [engine EXCEPT !.at = "rest", !.area = NoArea, !.doc = NoDoc,
                   !.before = NoRev, !.token = NoRev, !.todo = @ \ {a},
                   !.late = IF Outdated(a) THEN @ \cup {a} ELSE @]
  IN
  /\ up /\ engine.at = "fetched" /\ staged = {}
  /\ IF cred # engine.tick
       THEN /\ EngineIdle
            /\ UNCHANGED << areas, fenceVars, markerVars, shown, unsettled, wake >>
       ELSE /\ engine' = rested
            /\ IF aborts THEN AbortDelete(a) ELSE UNCHANGED << fenceVars, markerVars >>
            /\ IF Outdated(a)
                 THEN UNCHANGED << areas, shown, unsettled >>
                 ELSE /\ SetArea(a, BaseLoaded(replayed))
                      /\ shown' = shown \cup {a}
                      /\ unsettled' = unsettled + (IF reopens THEN 1 ELSE 0)
            /\ wake' = (wake \/ aborts \/ (~Outdated(a) /\ reopens))
  /\ UNCHANGED << engineFrame, discarded, left, expired, active, wal, marks, accounted,
                  syncWake >>

EngineDone ==
  /\ up /\ engine.at = "rest" /\ engine.todo = {}
  /\ engine' = [IdleEngine(engine.gen) EXCEPT
       !.seen = [a \in CloudAreas |->
         IF a \in engine.late THEN engine.seen[a] ELSE engine.rows[a]]]
  /\ UNCHANGED << engineFrame, discarded, left, areas, expired, fenceVars, active, shown,
                  wal, markerVars, statVars, wakeVars >>

\* A user, or the account page, asks for a sync.
RequestSync ==
  /\ up /\ Spend("sync")
  /\ syncWake' = TRUE
  /\ UNCHANGED << up, queueVars, fenceVars, viewerVars, diskVars, statVars,
                  taskVars, wake, serverVars, historyVars, nextOp, paused >>

\* Another credential: a new sign-in, of the same account or another.
Login ==
  /\ up /\ cred < MaxGen
  /\ cred' = cred + 1 /\ syncWake' = TRUE
  /\ UNCHANGED << envVars, queueVars, fenceVars, active, shown, diskVars,
                  statVars, taskVars, wake, serverVars, historyVars, nextOp,
                  paused >>

-----------------------------------------------------------------------------
\* Deleting a map: fence, wait for the request on the wire, record the
\* intent, ask the service, settle.

deleteFrame == << up, staged, attempts, expired, gen, active, cred, owner, aged,
                  worker, engine, rebuilds, srv, revoked, receipts, net,
                  sent, cancelled, kept, overwrote, entombed, nextOp, paused >>

\* begin_delete, under the gate; maps with edits under review are refused.
DeleteBegin(a) ==
  /\ up /\ del = NoDelete /\ GateFree /\ Spend("delete")
  /\ a \in CloudAreas \cap shown /\ ~Fenced(a)
  /\ areas[a].queue # << >> => areas[a].phase.kind \notin {"Conflict", "Failed"}
  /\ deleting' = deleting \cup {a}
  /\ wake' = TRUE
  /\ del' = [NoDelete EXCEPT !.at = "fenced", !.area = a, !.gen = cred]
  /\ UNCHANGED << deleteFrame, discarded, areas, intents, shown, wal, markerVars,
                  statVars, syncWake, netDel >>

\* Mutated Quiescent: the request on the wire is not waited for.
Quiescent_Always(a) == TRUE

\* wait_until_delete_quiescent
Quiescent(a) == areas[a].phase # InFlight

\* prepare_delete, once the queue is quiescent, and the request.
DeletePrepare ==
  LET a == del.area
      scopes == { << a, owner[o] >> : o \in { p \in Queued(areas[a]) : IsCloud(p) } }
  IN
  /\ up /\ del.at = "fenced" /\ a \in deleting
  /\ Quiescent(a)
  /\ intentFiles' = intentFiles \cup (scopes \ tombstones)
  /\ intents' = intents \cup {a}
  /\ unsettled' = unsettled + 1
  /\ marks' = [marks EXCEPT ![a] = @ + 1]
  /\ IF cred = del.gen
       THEN netDel' = netDel \cup {a} /\ del' = [del EXCEPT !.at = "wire"]
       ELSE UNCHANGED netDel /\ del' = [del EXCEPT !.at = "wire", !.reply = "error"]
  /\ UNCHANGED << deleteFrame, discarded, left, areas, deleting, shown, wal, tombstones,
                  accounted, wakeVars >>

\* The service confirms: the deletion is committed and counted while the map
\* is still on screen, where it stays if the credential has changed.
DeleteSucceeds ==
  /\ up /\ del.at = "wire" /\ del.reply = "ok"
  /\ CommitDelete(del.area, 1)
  /\ del' = IF cred = del.gen THEN [del EXCEPT !.at = "committed"] ELSE NoDelete
  /\ UNCHANGED << deleteFrame, left, shown, syncWake, netDel >>

\* publish_committed waits for the gate and takes the map off the screen, unless
\* the credential was seen to have changed before that.
DeleteLeaves ==
  /\ up /\ del.at = "committed"
  /\ \/ GateFree /\ shown' = shown \ {del.area}
     \/ cred # del.gen /\ UNCHANGED shown
  /\ del' = NoDelete
  /\ UNCHANGED << deleteFrame, discarded, left, areas, fenceVars, wal, markerVars,
                  statVars, wakeVars, netDel >>

\* mark_delete_ambiguous: an error, or a caller that is gone, proves nothing.
DeleteAmbiguous ==
  LET a == del.area  failed == del.reply = "error" IN
  /\ up /\ del.at = "wire"
  /\ failed \/ Spend("timeout")
  /\ failed => UNCHANGED left
  /\ deleting' = deleting \ {a} /\ intents' = intents \cup {a}
  /\ SetArea(a, [areas[a] EXCEPT !.needsBase = TRUE])
  /\ unsettled' = unsettled - 1
  /\ marks' = [marks EXCEPT ![a] = Lower(@, 1)]
  /\ wake' = TRUE /\ syncWake' \in IF failed THEN {TRUE} ELSE {TRUE, syncWake}
  /\ del' = NoDelete
  /\ UNCHANGED << deleteFrame, discarded, shown, wal, markerVars, accounted, netDel >>

\* Dropped before the request: nothing was asked, the area reopens.
DeleteAbandon ==
  /\ up /\ del.at = "fenced" /\ Spend("timeout")
  /\ AbortDelete(del.area)
  /\ wake' = TRUE
  /\ del' = NoDelete
  /\ UNCHANGED << deleteFrame, discarded, areas, shown, wal, statVars, syncWake,
                  netDel >>

-----------------------------------------------------------------------------
\* The map service.

serviceFrame == << up, queueVars, fenceVars, viewerVars, diskVars, statVars,
                   engine, rebuilds, wakeVars, nextOp, paused >>

\* The answer reaches the worker that still waits for it.
Answer(m, reply, rev) ==
  worker' = IF worker.at = "wire" /\ worker.reply = "none" /\ worker.op = m.op
                 /\ worker.rev = m.rev /\ worker.gen = m.gen
              THEN [worker EXCEPT !.reply = reply,
                                  !.rev = IF reply = "ok" THEN rev ELSE @]
              ELSE worker

\* An envelope: a known operation echoes its receipt; another revision than
\* the expected one is a conflict; an edit that cannot apply is refused.  Only
\* the client can tell that an edit would overwrite another client's.
ServiceHandles(m) ==
  LET o == m.op  a == AreaOf[o]
      present == { srv[a].log[i] : i \in 1..Len(srv[a].log) }
      valid == Needs[o] \subseteq present /\ (o \in Creates => o \notin present)
      applies == Visible(a) /\ receipts[o] = NoRev /\ m.rev = srv[a].rev /\ valid
  IN
  /\ m \in net
  /\ net' = net \ {m}
  /\ IF applies
       THEN /\ srv' = [srv EXCEPT ![a].rev = @ + 1, ![a].log = Append(@, o)]
            /\ receipts' = [receipts EXCEPT ![o] = srv[a].rev + 1]
            /\ overwrote' = overwrote \cup ({o} \cap srv[a].broken)
            /\ Answer(m, "ok", srv[a].rev + 1)
       ELSE /\ UNCHANGED << srv, receipts, overwrote >>
            /\ IF ~Visible(a) THEN Answer(m, "refused", NoRev)
               ELSE IF receipts[o] # NoRev THEN Answer(m, "ok", receipts[o])
               ELSE IF m.rev # srv[a].rev THEN Answer(m, "conflict", NoRev)
               ELSE Answer(m, "refused", NoRev)
  /\ UNCHANGED << serviceFrame, left, del, revoked, netDel, sent, cancelled,
                  discarded, kept, entombed >>

\* Verdicts the service may give to any envelope.
ServiceRefuses(m, e) ==
  /\ m \in net /\ m.op # NoOp /\ AreaOf[m.op] \in CloudAreas
  /\ e \in {"held", "refused", "upgrade"} /\ Spend(e)
  /\ net' = net \ {m}
  /\ Answer(m, e, NoRev)
  /\ UNCHANGED << serviceFrame, historyVars, del, srv, revoked, receipts, netDel >>

\* The request times out: lost, still on its way, or answered too late.
RequestTimesOut ==
  /\ up /\ worker.at = "wire" /\ worker.reply \notin {"credential", "transport"}
  /\ IsCloud(worker.op) /\ Spend("timeout")
  /\ worker' = [worker EXCEPT !.reply = "transport"]
  /\ net' \in { net, { m \in net : m.op # worker.op } }
  /\ UNCHANGED << serviceFrame, historyVars, del, srv, revoked, receipts, netDel >>

ServiceDeletes(a) ==
  /\ a \in netDel
  /\ netDel' = netDel \ {a}
  /\ srv' = [srv EXCEPT ![a].exists = @ /\ ~Visible(a)]
  /\ del' = IF del.at = "wire" /\ del.area = a /\ del.reply = "none"
              THEN [del EXCEPT !.reply = IF Visible(a) THEN "ok" ELSE "error"]
              ELSE del
  /\ UNCHANGED << serviceFrame, historyVars, left, worker, revoked, receipts, net >>

\* Another client edits the map: some queued edits may no longer apply.
ForeignEdit(a) ==
  /\ a \in CloudAreas /\ srv[a].exists /\ Spend("foreign")
  /\ \E B \in SUBSET { o \in Ops : AreaOf[o] = a } :
       srv' = [srv EXCEPT ![a].rev = @ + 1, ![a].broken = B]
  /\ UNCHANGED << serviceFrame, historyVars, worker, del, revoked, receipts, net, netDel >>

\* Access is withdrawn, or given back.
AccessChanges(a) ==
  /\ a \in CloudAreas /\ srv[a].exists /\ Spend("vanish")
  /\ revoked' = IF a \in revoked THEN revoked \ {a} ELSE revoked \cup {a}
  /\ UNCHANGED << serviceFrame, historyVars, worker, del, srv, receipts, net, netDel >>

-----------------------------------------------------------------------------
\* The process.

\* Memory goes, with the maps of the session; the journal and the requests on
\* their way stay.
Crash ==
  /\ up /\ Spend("crash")
  /\ up' = FALSE
  /\ areas' = [a \in Areas |-> EmptyArea]
  /\ staged' = {} /\ expired' = {}
  /\ attempts' = [o \in Ops |-> 0] /\ gen' = [o \in Ops |-> NoGen]
  /\ deleting' = {} /\ intents' = {} /\ paused' = FALSE
  /\ active' = NoGen /\ shown' = {}
  /\ unsettled' = 0 /\ marks' = [a \in Areas |-> 0] /\ accounted' = {}
  /\ worker' = IdleWorker /\ engine' = IdleEngine(NoGen)
  /\ rebuilds' = {} /\ del' = NoDelete
  /\ wake' = FALSE /\ syncWake' = FALSE
  /\ srv' = [a \in Areas |->
              IF a \in SessionAreas THEN [srv[a] EXCEPT !.exists = FALSE] ELSE srv[a]]
  /\ net' = { m \in net : IsCloud(m.op) }
  /\ UNCHANGED << cred, diskVars, revoked, receipts, netDel, historyVars, nextOp >>

Restart ==
  /\ ~up
  /\ up' = TRUE /\ syncWake' = TRUE
  /\ UNCHANGED << left, queueVars, fenceVars, viewerVars, diskVars, statVars,
                  taskVars, wake, serverVars, historyVars, nextOp, paused >>

\* The program stays closed past the service's receipt retention.
Outage ==
  /\ ~up /\ Spend("outage")
  /\ aged' = aged \cup { o \in Ops : wal[o] = "json" }
  /\ receipts' = [o \in Ops |-> NoRev]
  /\ net' = {} /\ netDel' = {}
  /\ UNCHANGED << up, queueVars, fenceVars, viewerVars, wal, owner, markerVars,
                  statVars, taskVars, wakeVars, srv, revoked, historyVars,
                  nextOp, paused >>

-----------------------------------------------------------------------------
Editor ==
  \/ Stage \/ Publish
  \/ \E o \in Ops : Cancel(o)
  \/ \E a \in Areas : Retry(a) \/ Discard(a) \/ KeepTheirs(a) \/ KeepMine(a)

Rebuilds == \E r \in rebuilds : RebuildFetch(r) \/ RebuildApply(r)

Verdicts ==
  \/ VerdictStale \/ VerdictOk \/ VerdictCredential \/ VerdictTransport
  \/ VerdictHeld \/ VerdictRefused \/ VerdictUpgrade \/ VerdictConflict
  \/ ConflictFetch \/ ConflictApply

Worker ==
  \/ \E a \in Areas :
       WorkerRetire(a) \/ WorkerRetireFails(a) \/ WorkerTake(a) \/ WorkerTimer(a)
  \/ WorkerIdle \/ WorkerWake \/ Verdicts

Engine ==
  \/ EngineTick \/ EngineFail \/ ActivateLoad \/ ActivateInstall
  \/ EngineAsk \/ EngineRows \/ EngineAdopt \/ EngineDone
  \/ \E a \in CloudAreas : EngineFetch(a)

Deletion ==
  \/ \E a \in CloudAreas : DeleteBegin(a)
  \/ DeletePrepare \/ DeleteSucceeds \/ DeleteLeaves
  \/ DeleteAmbiguous \/ DeleteAbandon

Service ==
  \/ \E m \in net :
       ServiceHandles(m) \/ \E e \in Events : ServiceRefuses(m, e)
  \/ RequestTimesOut
  \/ \E a \in CloudAreas : ServiceDeletes(a) \/ ForeignEdit(a) \/ AccessChanges(a)

Process == Crash \/ Restart \/ Outage \/ RequestSync \/ Login

Next == Editor \/ Rebuilds \/ Worker \/ Engine \/ Deletion \/ Service \/ Process

Spec == Init /\ [][Next]_vars

-----------------------------------------------------------------------------
\* Fairness: the runtime polls every woken task and timers fire; the service
\* answers a request that stays on its way.
Fairness ==
  /\ WF_vars(Publish)
  /\ WF_vars(Worker)
  /\ WF_vars(Engine)
  /\ WF_vars(Rebuilds)
  /\ WF_vars(\E m \in net : ServiceHandles(m))

FairSpec == Spec /\ Fairness

-----------------------------------------------------------------------------
\* Types.

WorkerType ==
  [at : {"run", "idle", "wire", "refetch"}, area : Areas \cup {NoArea},
   op : Ops \cup {NoOp}, gen : Gens \cup {NoGen},
   reply : {"none", "ok", "conflict", "refused", "held", "upgrade",
            "transport", "credential", "doc"},
   rev : Revs, doc : DocType, until : SUBSET Areas, due : SUBSET Areas]

EngineType ==
  [at : {"idle", "identity", "activating", "rows", "asked", "rest", "fetched"},
   gen : Gens \cup {NoGen}, tick : Gens \cup {NoGen},
   seen : [CloudAreas -> Revs], rows : [CloudAreas -> Revs],
   listed : SUBSET CloudAreas, todo : SUBSET CloudAreas, late : SUBSET CloudAreas,
   loaded : SUBSET Ops, frozen : SUBSET CloudAreas,
   area : CloudAreas \cup {NoArea}, doc : DocType, before : Revs, token : Revs]

RebuildType ==
  [at : {"fetch", "got"}, area : Areas, gen : Gens \cup {NoGen},
   keep : BOOLEAN, doc : DocType]

DeleteType ==
  [at : {"none", "fenced", "wire", "committed"}, area : CloudAreas \cup {NoArea},
   gen : Gens \cup {NoGen}, reply : {"none", "ok", "error"}]

EnvType ==
  /\ up \in BOOLEAN /\ cred \in Gens /\ nextOp \in 1..(MaxOps + 1)
  /\ left \in [Events -> Nat]

QueueType ==
  /\ areas \in [Areas -> AreaType]
  /\ staged \in SUBSET Ops /\ expired \in SUBSET Ops
  /\ attempts \in [Ops -> Nat] /\ gen \in [Ops -> Gens \cup {NoGen}]

ViewerType ==
  /\ deleting \in SUBSET Areas /\ intents \in SUBSET Areas /\ shown \in SUBSET Areas
  /\ paused \in BOOLEAN /\ active \in Gens \cup {NoGen}

Scopes == CloudAreas \X (Viewers \cup {NoGen})
DiskType ==
  /\ wal \in [Ops -> {"none", "json", "gone"}]
  /\ owner \in [Ops -> Viewers \cup {NoGen}]
  /\ intentFiles \in SUBSET Scopes /\ tombstones \in SUBSET Scopes
  /\ aged \in SUBSET Ops

StatType ==
  /\ unsettled \in Int /\ marks \in [Areas -> Nat] /\ accounted \in SUBSET Ops

TaskType ==
  /\ worker \in WorkerType /\ engine \in EngineType
  /\ wake \in BOOLEAN /\ syncWake \in BOOLEAN
  /\ rebuilds \in SUBSET RebuildType /\ del \in DeleteType

ServiceType ==
  /\ srv \in [Areas -> [exists : BOOLEAN, rev : Revs, log : Seq(Ops),
                        broken : SUBSET Ops]]
  /\ revoked \in SUBSET CloudAreas /\ netDel \in SUBSET CloudAreas
  /\ receipts \in [Ops -> Revs]
  /\ net \in SUBSET [op : Ops, rev : Revs, gen : Gens \cup {NoGen}]

HistoryType ==
  /\ sent \in SUBSET Ops /\ cancelled \in SUBSET Ops /\ discarded \in SUBSET Ops
  /\ kept \in SUBSET Ops /\ overwrote \in SUBSET Ops
  /\ entombed \in SUBSET Ops

\* Every variable keeps the shape its Rust counterpart has; among others, a
\* phase that names an edit (a park, a review, a retirement) names a real one.
TypeOK ==
  /\ EnvType /\ QueueType /\ ViewerType /\ DiskType
  /\ StatType /\ TaskType /\ ServiceType /\ HistoryType

-----------------------------------------------------------------------------
\* Safety.

Accepted == 1..(nextOp - 1)
Applied(o) == \E i \in DOMAIN srv[AreaOf[o]].log : srv[AreaOf[o]].log[i] = o

\* The service holds each edit of a map at most once, and those of an account
\* in the order they were made, whatever was resent, reordered or restarted (the
\* queue sends one head per area; a retried envelope keeps its operation id).
AppliedInOrder ==
  \A a \in Areas : LET log == srv[a].log IN
    \A i, j \in DOMAIN log :
      i < j /\ owner[log[i]] = owner[log[j]] => log[i] < log[j]

\* An accepted cloud edit is on the service, or in the journal, or the user
\* let it go: no verdict, conflict, account switch, delete or crash drops it.
\* The edits the code does drop are exactly excepted: those it accepted in a map
\* whose committed deletion the account's journal already held.
NothingLost ==
  \A o \in Accepted : IsCloud(o) =>
    \/ Replayable(o) \/ Applied(o)
    \/ o \in cancelled \cup discarded \cup entombed

\* An edit that another client's edit has invalidated replaces it only after
\* a review kept it (Keep mine): the revision precondition and the replay over
\* every adopted document together prevent a silent overwrite.
NoSilentOverwrite == overwrote \subseteq kept

\* The phase of an area and the tasks agree: an in-flight head is the one the
\* worker holds, an edit awaiting retirement is the head and was applied, and
\* a review or a park points at an edit that is still queued.
PhaseOwned ==
  \A a \in Areas : LET phase == areas[a].phase IN
    /\ phase = InFlight =>
         /\ worker.at \in {"wire", "refetch"} /\ worker.area = a
         /\ worker.op = HeadOp(areas[a])
    /\ phase.kind = "AwaitingRetirement" =>
         phase.op = HeadOp(areas[a]) /\ Applied(phase.op)
    /\ phase.kind = "Failed" => phase.op = HeadOp(areas[a])
    /\ phase.kind = "Conflict" => phase.op \in Queued(areas[a])

\* What the journal would replay and what the queue holds are the same edits
\* of the active account, in the same order: a crash loses nothing the user
\* sees and brings nothing back.
JournalMatchesQueue ==
  up /\ active # NoGen /\ engine.at # "activating" =>
    \A a \in CloudAreas :
      areas[a].queue =
        InOrder({ o \in Loadable(ViewerOf[active]) : AreaOf[o] = a })

\* pending_by_area, which defers a refetch while it is not zero, counts the
\* queue and the outstanding delete.
MarksMatchQueue ==
  \A a \in Areas :
    marks[a] = Len(areas[a].queue)
                 + (IF del.at = "wire" /\ del.area = a THEN 1 ELSE 0)

\* sent - succeeded - failed: exactly the queued edits that have no terminal
\* count yet; a parked head and an expired edit were counted when they parked.
ParkedEdits ==
  { areas[a].phase.op : a \in { b \in Areas : areas[b].phase.kind = "Failed" } }
CountsBalance ==
  unsettled =
    Cardinality((UNION { Queued(areas[a]) : a \in Areas }) \ (ParkedEdits \cup expired))
      + (IF del.at = "wire" THEN 1 ELSE 0)

\* An edit is only ever sent with a credential of the account that made it.
OwnCredential ==
  \A m \in net : IsCloud(m.op) => ViewerOf[m.gen] = owner[m.op]

\* No edit of a map travels to the service while its DELETE is outstanding:
\* the fence holds back followers until the answer is in.
DeleteAlone ==
  del.at = "wire" /\ del.reply = "none" =>
    \A o \in Ops : worker.at = "wire" /\ worker.op = o => AreaOf[o] # del.area

\* A committed deletion takes every edit of the map with it for good: one made
\* before it is neither left in the queue nor brought back by a later sign-in or
\* restart.  Only an edit accepted after it can be queued under its tombstone.
DeletedStaysDeleted ==
  \A o \in Ops : \A a \in CloudAreas :
    o \in Queued(areas[a]) /\ << a, owner[o] >> \in tombstones => o \in entombed

\* An edit that left the queue unsent is never sent afterwards.
LeftUnsentStaysUnsent ==
  [][\A o \in cancelled \cup discarded : o \in sent' => o \in sent]_vars

-----------------------------------------------------------------------------
\* Liveness.

\* is_draining: queued work in a phase that moves without the user.
IsDraining(a) ==
  /\ ~Fenced(a) /\ areas[a].queue # << >> /\ ~areas[a].needsBase
  /\ areas[a].phase.kind \in {"Ready", "InFlight", "Backoff", "AwaitingRetirement"}

\* An area that is draining stops draining: delivered, or waiting for a user.
DrainingDrains == \A a \in Areas : IsDraining(a) ~> ~IsDraining(a)

-----------------------------------------------------------------------------
\* The queue implements the ledger: an edit is open while the journal would
\* replay it, and withdrawn when the user let it go.
CloudOps == { o \in Ops : IsCloud(o) }

Ledger == INSTANCE EditLedger WITH
  Edits <- CloudOps,
  Maps <- CloudAreas,
  MapOf <- [o \in CloudOps |-> AreaOf[o]],
  Accounts <- Viewers,
  NoAccount <- NoGen,
  account <- [o \in CloudOps |-> owner[o]],
  open <- { o \in CloudOps : Replayable(o) },
  withdrawn <- CloudOps \cap (cancelled \cup discarded),
  ledger <- [a \in CloudAreas |-> srv[a].log]

\* Every step of the editor, the worker, the engine, the service and a crash is
\* a step of the ledger or leaves it as it is.
LedgerSpec == Ledger!Spec
=============================================================================
