---------------------------- MODULE ProcedureCalls ----------------------------
(***************************************************************************)
(* Procedure calls between the sessions of one process.  Each session is a *)
(* thread with an inbox, a stack of actions being expanded, a script       *)
(* engine that a reload replaces, and a broker that tracks the calls its   *)
(* scripts wait for and the calls its implementations serve.  A call and   *)
(* its answer are ordinary actions: a reload, a timeout, a cancellation or *)
(* the end of a session may overtake either at any point.                  *)
(*                                                                         *)
(* Left out: payloads and the byte budgets that may refuse one, capability *)
(* checks, and which error code a caller sees.  The isolates of an engine  *)
(* are taken together, as one heap.                                        *)
(***************************************************************************)
EXTENDS Integers, Sequences, FiniteSets

CONSTANTS Sessions,    \* the live sessions of one configured server
          MaxId,       \* the last value of a broker's counter of ids
          MaxHops,     \* MAX_CALL_HOPS
          MaxPending,  \* MAX_PER_SESSION, per session and direction
          Timeouts,    \* the timeouts scripts ask for
          Horizon,     \* bound: the clock stops here
          Reach,       \* the sessions a session's scripts call
          Callers,     \* bound: the sessions that call outside of an invocation
          Budget       \* bound: how many calls, reloads and shutdowns there are

ASSUME CallsAssumption ==
  /\ MaxId \in [Sessions -> Nat \ {0}] /\ MaxHops \in Nat
  /\ MaxPending \in [Sessions -> Nat]
  /\ Timeouts \subseteq Nat \ {0} /\ Horizon \in Nat
  /\ Reach \in [Sessions -> SUBSET Sessions]
  /\ Callers \subseteq Sessions
  /\ Budget \in [{"call", "disruption"} -> Nat]

VARIABLES clock,      \* Instant::now(), the same on every thread
          stage,      \* what each session's thread is doing
          engine,     \* the number of the session's script engine
          inbox,      \* the session's action channel
          expansion,  \* the actions spawned by the one being handled
          kept,       \* what a reload has taken out of the inbox
          broker,     \* MessageBus::calls
          awaiting,   \* the unresolved promises of the engine's heap
          budget,     \* what is left of Budget
          fired       \* the deadline after which deadline_worker last fired

callVars ==
  <<clock, stage, engine, inbox, expansion, kept, broker, awaiting, budget, fired>>

NoDeadline == 0
Stages == {"running", "expiring", "reloading", "closing", "closed"}

Live(s) == stage[s] \notin {"closing", "closed"}

-------------------------------------------------------------------------------
(* The broker. *)

Key(r) == <<r.from, r.heap, r.id>>

NewBroker(id) ==
  [ready |-> TRUE, nextId |-> id, pending |-> {}, invocations |-> {},
   incomingKeys |-> {}, deadlines |-> {}, outgoing |-> 0, incoming |-> 0,
   watch |-> NoDeadline]

NextDeadline(b) ==
  IF b.deadlines = {} THEN NoDeadline
  ELSE CHOOSE at \in {d.at : d \in b.deadlines} :
         \A d \in b.deadlines : at <= d.at

Publish(b) ==
  [b EXCEPT !.watch = NextDeadline(b)]

\* Mutant: the deadline is recorded, and the timer not told.
InsertCall_Silent(b, r) ==
  [b EXCEPT !.nextId = @ + 1,
            !.outgoing = @ + 1,
            !.pending = @ \cup {r},
            !.deadlines = @ \cup {[at |-> r.deadline, of |-> "call", id |-> r.id]}]

\* insert_call, after allocate_id: an id is spent even when the budget refuses.
InsertCall(b, r) ==
  Publish([b EXCEPT !.nextId = @ + 1,
                    !.outgoing = @ + 1,
                    !.pending = @ \cup {r},
                    !.deadlines = @ \cup {[at |-> r.deadline, of |-> "call", id |-> r.id]}])

\* Mutant: the entry is read, not taken out.
RemoveCall_Keeps(b, r) ==
  Publish([b EXCEPT !.outgoing = @ - 1,
                    !.deadlines = @ \ {[at |-> r.deadline, of |-> "call", id |-> r.id]}])

RemoveCall(b, r) ==
  Publish([b EXCEPT !.outgoing = @ - 1,
                    !.pending = @ \ {r},
                    !.deadlines = @ \ {[at |-> r.deadline, of |-> "call", id |-> r.id]}])

StartInvocation(b, r, heap) ==
  Publish([b EXCEPT
    !.nextId = @ + 1,
    !.incoming = @ + 1,
    !.invocations = @ \cup {[ticket |-> b.nextId, heap |-> heap, req |-> r, prepared |-> FALSE]},
    !.incomingKeys = @ \cup {<<Key(r), b.nextId>>},
    !.deadlines = @ \cup {[at |-> r.deadline, of |-> "invocation", id |-> b.nextId]}])

\* Mutant: the charge is taken off the budget of the other direction.
RemoveInvocation_WrongBudget(b, v) ==
  Publish([b EXCEPT
    !.outgoing = @ - 1,
    !.invocations = @ \ {v},
    !.incomingKeys = {k \in @ : k[1] # Key(v.req)},
    !.deadlines = @ \ {[at |-> v.req.deadline, of |-> "invocation", id |-> v.ticket]}])

RemoveInvocation(b, v) ==
  Publish([b EXCEPT
    !.incoming = @ - 1,
    !.invocations = @ \ {v},
    !.incomingKeys = {k \in @ : k[1] # Key(v.req)},
    !.deadlines = @ \ {[at |-> v.req.deadline, of |-> "invocation", id |-> v.ticket]}])

\* Mutant: the invocation ends when its answer is queued.
PrepareReply_Ends(b, v) == RemoveInvocation(b, v)

\* The invocation stays until the answer is forwarded.
PrepareReply(b, v) ==
  [b EXCEPT !.invocations = (@ \ {v}) \cup {[v EXCEPT !.prepared = TRUE]}]

-------------------------------------------------------------------------------
(* Messages.  A send to a session that has ended is ignored. *)

Forward(r) == [kind |-> "forward", req |-> r]
Call(r) == [kind |-> "call", req |-> r]
Cancel(r) == [kind |-> "cancel", req |-> r]
Reply(r) == [kind |-> "reply", req |-> r]
Settle(r) == [kind |-> "settle", req |-> r]
Invoke(r, t) == [kind |-> "invoke", req |-> r, ticket |-> t]
Answer(v) == [kind |-> "answer", req |-> v.req, ticket |-> v.ticket, heap |-> v.heap]
Reload == [kind |-> "reload"]
Expire == [kind |-> "expire"]

Sent(box, to, m) == IF Live(to) THEN [box EXCEPT ![to] = Append(@, m)] ELSE box

-------------------------------------------------------------------------------
(* What one turn of a session's scripts may do: the broker it leaves, the  *)
(* actions it spawns and the promises it creates.                          *)

Turn(cost, b, spawned, promises) ==
  [cost |-> cost, b |-> b, spawned |-> spawned, promises |-> promises]

Affordable(cost) == budget[cost] > 0

ReloadTurns(b) ==
  IF Affordable("disruption") THEN {Turn("disruption", b, <<Reload>>, {})} ELSE {}

\* The ancestors a call may name: none, or an invocation not yet answered.
Parents(s, b) == {v \in b.invocations : v.heap = engine[s] /\ ~v.prepared /\ v.req.deadline > clock}

\* A nested call ends no later than the call it is part of.
Request(s, b, target, timeout, depth, limit) ==
  [from |-> s, heap |-> engine[s], id |-> b.nextId, target |-> target, hops |-> depth + 1,
   deadline |-> IF limit < clock + timeout THEN limit ELSE clock + timeout]

Called(s, b, r) ==
  IF Cardinality(b.pending) < MaxPending[s]
    THEN Turn("call", InsertCall(b, r), <<Forward(r)>>, {r.id})
    ELSE Turn("call", [b EXCEPT !.nextId = @ + 1], <<>>, {})

\* op_smudgy_procedure_call at a dispatch depth, as part of the parents' calls
\* or, outside of any, with nothing but its own timeout.
CallTurns(s, b, depth, parents, alone) ==
  LET timeouts == {k \in Timeouts : clock + k <= Horizon}
      targets == {t \in Reach[s] : Live(t)}
      allowed(hops) == Affordable("call") /\ b.ready /\ b.nextId < MaxId[s] /\ hops < MaxHops
      deepest(v) == IF v.req.hops > depth THEN v.req.hops ELSE depth
  IN {Called(s, b, Request(s, b, t, k, depth, clock + k)) :
        t \in {u \in targets : alone /\ allowed(depth)}, k \in timeouts}
     \cup UNION {{Called(s, b, Request(s, b, t, k, deepest(v), v.req.deadline)) :
        t \in {u \in targets : allowed(deepest(v))}, k \in timeouts} : v \in parents}

\* op_smudgy_procedure_reply, by the heap that runs the invocation.
AnswerTurns(s, b, tickets) ==
  {Turn("none", PrepareReply(b, v), <<Answer(v)>>, {}) :
     v \in {u \in b.invocations : u.ticket \in tickets /\ u.heap = engine[s] /\ ~u.prepared}}

\* An implementation may answer at once, also behind a reload it has asked for,
\* call on behalf of its caller, or leave the answer for later.
ImplementationTurns(s, b, m) ==
  LET answers == AnswerTurns(s, b, {m.ticket}) IN
  {Turn("none", b, <<>>, {})} \cup ReloadTurns(b) \cup answers
  \cup {[a EXCEPT !.cost = "disruption", !.spawned = <<Reload>> \o @] :
           a \in {u \in answers : Affordable("disruption")}}
  \cup CallTurns(s, b, m.req.hops, {v \in Parents(s, b) : v.ticket = m.ticket}, FALSE)

-------------------------------------------------------------------------------
CallsInit ==
  /\ clock = 0
  /\ stage = [s \in Sessions |-> "running"]
  /\ engine = [s \in Sessions |-> 1]
  /\ inbox = [s \in Sessions |-> <<>>]
  /\ expansion = [s \in Sessions |-> <<>>]
  /\ kept = [s \in Sessions |-> <<>>]
  /\ broker = [s \in Sessions |-> NewBroker(1)]
  /\ awaiting = [s \in Sessions |-> {}]
  /\ budget = Budget
  /\ fired = [s \in Sessions |-> NoDeadline]

-------------------------------------------------------------------------------
(* The scripts' own turns. *)

Spend(cost) == budget' = [e \in DOMAIN budget |-> IF e = cost THEN budget[e] - 1 ELSE budget[e]]

TakeTurn(s, t) ==
  /\ Spend(t.cost)
  /\ broker' = [broker EXCEPT ![s] = t.b]
  /\ awaiting' = [awaiting EXCEPT ![s] = @ \cup t.promises]

\* A handler of a line or a command; what it spawns is expanded at once.
RunHandler(s) ==
  /\ stage[s] = "running" /\ expansion[s] = <<>>
  /\ \E t \in ReloadTurns(broker[s]) \cup CallTurns(s, broker[s], 0, {}, s \in Callers) :
       /\ TakeTurn(s, t)
       /\ expansion' = [expansion EXCEPT ![s] = t.spawned]
  /\ UNCHANGED <<clock, stage, engine, inbox, kept, fired>>

\* A timer or a promise continues; what it spawns goes behind the inbox, and
\* so does a reload that the user or another session asks for.
PumpScripts(s) ==
  /\ stage[s] = "running" /\ expansion[s] = <<>>
  /\ \E t \in ReloadTurns(broker[s])
               \cup CallTurns(s, broker[s], 0, Parents(s, broker[s]), s \in Callers)
               \cup AnswerTurns(s, broker[s], 1 .. MaxId[s]) :
       /\ TakeTurn(s, t)
       /\ inbox' = [inbox EXCEPT ![s] = @ \o t.spawned]
  /\ UNCHANGED <<clock, stage, engine, expansion, kept, fired>>

-------------------------------------------------------------------------------
(* The session's loop: the expansion first, then the inbox. *)

Busy(s) == stage[s] = "running" /\ (expansion[s] # <<>> \/ inbox[s] # <<>>)
Current(s) == IF expansion[s] # <<>> THEN Head(expansion[s]) ELSE Head(inbox[s])
Rest(s) == IF expansion[s] # <<>> THEN Tail(expansion[s]) ELSE <<>>
Taken(s) == IF expansion[s] # <<>> THEN inbox ELSE [inbox EXCEPT ![s] = Tail(@)]

Handling(s, kind) == Busy(s) /\ Current(s).kind = kind

Expand(s, spawned) == expansion' = [expansion EXCEPT ![s] = spawned \o Rest(s)]

SetBroker(s, b) == broker' = [broker EXCEPT ![s] = b]

\* A session that is ending may still take the call into an inbox nobody reads.
ForwardProcedureCall(s) ==
  /\ Handling(s, "forward")
  /\ LET r == Current(s).req IN
       \/ /\ Live(r.target)
          /\ inbox' = Sent(Taken(s), r.target, Call(r))
       \/ /\ ~Live(r.target)
          /\ inbox' = Sent(Taken(s), s, Reply(r))
       \/ /\ stage[r.target] = "closing"
          /\ inbox' = Taken(s)
  /\ Expand(s, <<>>)
  /\ UNCHANGED <<budget, clock, stage, engine, kept, broker, awaiting, fired>>

\* deliver_procedure_call, of a caller that is gone.
DropProcedureCall(s) ==
  /\ Handling(s, "call") /\ ~Live(Current(s).req.from)
  /\ inbox' = Taken(s)
  /\ Expand(s, <<>>)
  /\ UNCHANGED <<budget, clock, stage, engine, kept, broker, awaiting, fired>>

CanStart(s, b, r) ==
  b.ready /\ r.deadline > clock /\ b.nextId < MaxId[s] /\ ~\E k \in b.incomingKeys : k[1] = Key(r)

\* No implementation, or an invocation that is refused; over the budget, the
\* id is spent.
RefuseProcedureCall(s) ==
  /\ Handling(s, "call") /\ stage[Current(s).req.from] # "closed"
  /\ LET r == Current(s).req
         b == broker[s]
     IN /\ inbox' = Sent(Taken(s), r.from, Reply(r))
        /\ \/ UNCHANGED broker
           \/ /\ CanStart(s, b, r) /\ Cardinality(b.invocations) >= MaxPending[s]
              /\ SetBroker(s, [b EXCEPT !.nextId = @ + 1])
  /\ Expand(s, <<>>)
  /\ UNCHANGED <<budget, clock, stage, engine, kept, awaiting, fired>>

StartProcedureCall(s) ==
  /\ Handling(s, "call") /\ stage[Current(s).req.from] # "closed"
  /\ LET r == Current(s).req
         b == broker[s]
     IN /\ CanStart(s, b, r) /\ Cardinality(b.invocations) < MaxPending[s]
        /\ SetBroker(s, StartInvocation(b, r, engine[s]))
        /\ Expand(s, <<Invoke(r, b.nextId)>>)
  /\ inbox' = Taken(s)
  /\ UNCHANGED <<budget, clock, stage, engine, kept, awaiting, fired>>

\* The implementation runs.
InvokeImplementation(s) ==
  /\ Handling(s, "invoke")
  /\ \E t \in ImplementationTurns(s, broker[s], Current(s)) :
       TakeTurn(s, t) /\ Expand(s, t.spawned)
  /\ inbox' = Taken(s)
  /\ UNCHANGED <<clock, stage, engine, kept, fired>>

\* The answer is passed on while its invocation is still tracked.
ForwardProcedureReply(s) ==
  /\ Handling(s, "answer")
  /\ LET m == Current(s)
         accepted == {v \in broker[s].invocations :
                        v.ticket = m.ticket /\ v.heap = m.heap /\ v.prepared}
     IN \/ /\ accepted = {}
           /\ inbox' = Taken(s) /\ UNCHANGED broker
        \/ \E v \in accepted :
             /\ SetBroker(s, RemoveInvocation(broker[s], v))
             /\ inbox' = Sent(Taken(s), m.req.from, Reply(m.req))
  /\ Expand(s, <<>>)
  /\ UNCHANGED <<budget, clock, stage, engine, kept, awaiting, fired>>

\* complete: only the call the reply is for, in the heap that made it.
ProcedureReply(s) ==
  /\ Handling(s, "reply")
  /\ LET r == Current(s).req
         waiting == {p \in broker[s].pending : p.id = r.id /\ Key(p) = Key(r)}
     IN \/ /\ waiting = {}
           /\ Expand(s, <<>>) /\ UNCHANGED broker
        \/ \E p \in waiting :
             /\ SetBroker(s, RemoveCall(broker[s], p))
             /\ Expand(s, <<Settle(p)>>)
  /\ inbox' = Taken(s)
  /\ UNCHANGED <<budget, clock, stage, engine, kept, awaiting, fired>>

\* The settler of the heap resolves the promise, if it is still there.
SettlePromise(s) ==
  /\ Handling(s, "settle")
  /\ awaiting' = [awaiting EXCEPT ![s] = @ \ {Current(s).req.id}]
  /\ inbox' = Taken(s)
  /\ Expand(s, <<>>)
  /\ UNCHANGED <<budget, clock, stage, engine, kept, broker, fired>>

CancelProcedureCall(s) ==
  /\ Handling(s, "cancel")
  /\ LET tickets == {k[2] : k \in {j \in broker[s].incomingKeys : j[1] = Key(Current(s).req)}}
         found == {v \in broker[s].invocations : v.ticket \in tickets}
     IN \/ found = {} /\ UNCHANGED broker
        \/ \E v \in found : SetBroker(s, RemoveInvocation(broker[s], v))
  /\ inbox' = Taken(s)
  /\ Expand(s, <<>>)
  /\ UNCHANGED <<budget, clock, stage, engine, kept, awaiting, fired>>

-------------------------------------------------------------------------------
(* Deadlines.  The clock is read once for a batch of expired entries, so it *)
(* stands still until the batch is done.                                    *)

ExpireProcedureCalls(s) ==
  /\ Handling(s, "expire")
  /\ stage' = [stage EXCEPT ![s] = "expiring"]
  /\ inbox' = Taken(s)
  /\ Expand(s, <<>>)
  /\ UNCHANGED <<budget, clock, engine, kept, broker, awaiting, fired>>

Due(b) == {d \in b.deadlines : d.at <= clock /\ d.at = NextDeadline(b)}

\* The caller's entry tells the target to stop and rejects the promise; the
\* target's entry tells the caller.
ExpireOne(s) ==
  /\ stage[s] = "expiring"
  /\ \E d \in Due(broker[s]) :
       LET b == [broker[s] EXCEPT !.deadlines = @ \ {d}] IN
       \/ \E r \in b.pending :
            /\ d.of = "call" /\ d.id = r.id
            /\ SetBroker(s, RemoveCall(b, r))
            /\ inbox' = Sent(inbox, r.target, Cancel(r))
            /\ expansion' = [expansion EXCEPT ![s] = Append(@, Settle(r))]
       \/ \E v \in b.invocations :
            /\ d.of = "invocation" /\ d.id = v.ticket
            /\ SetBroker(s, RemoveInvocation(b, v))
            /\ inbox' = Sent(inbox, v.req.from, Reply(v.req))
            /\ UNCHANGED expansion
  /\ UNCHANGED <<budget, clock, stage, engine, kept, awaiting, fired>>

ExpireDone(s) ==
  /\ stage[s] = "expiring" /\ Due(broker[s]) = {}
  /\ stage' = [stage EXCEPT ![s] = "running"]
  /\ UNCHANGED <<budget, clock, engine, inbox, expansion, kept, broker, awaiting, fired>>

\* Mutant: once it has fired it looks at the same deadline again.
FireDeadline_Again(s) ==
  /\ stage[s] = "running"
  /\ broker[s].watch # NoDeadline /\ broker[s].watch <= clock
  /\ inbox' = Sent(inbox, s, Expire)
  /\ UNCHANGED <<budget, clock, stage, engine, expansion, kept, broker, awaiting, fired>>

\* deadline_worker sleeps until the published deadline, prefers a change of it
\* to its passing, and once it has fired waits for a change.
FireDeadline(s) ==
  /\ stage[s] = "running"
  /\ broker[s].watch \notin {NoDeadline, fired[s]} /\ broker[s].watch <= clock
  /\ inbox' = Sent(inbox, s, Expire)
  /\ fired' = [fired EXCEPT ![s] = broker[s].watch]
  /\ UNCHANGED <<budget, clock, stage, engine, expansion, kept, broker, awaiting>>

Tick ==
  /\ clock < Horizon
  /\ \A s \in Sessions : stage[s] # "expiring"
  /\ clock' = clock + 1
  /\ UNCHANGED <<budget, stage, engine, inbox, expansion, kept, broker, awaiting, fired>>

-------------------------------------------------------------------------------
(* Reload: the expansion is dropped, the inbox is taken out and put back    *)
(* while others go on sending, the old engine is dropped, and a new one is  *)
(* built.  The inbox holds none of this component's actions that name the   *)
(* old engine's functions, which the reload would leave out.                *)

BeginReload(s) ==
  /\ Handling(s, "reload")
  /\ stage' = [stage EXCEPT ![s] = "reloading"]
  /\ kept' = [kept EXCEPT ![s] = Taken(s)[s]]
  /\ inbox' = [inbox EXCEPT ![s] = <<>>]
  /\ expansion' = [expansion EXCEPT ![s] = <<>>]
  /\ UNCHANGED <<budget, clock, engine, broker, awaiting, fired>>

Requeue(s) ==
  /\ stage[s] = "reloading" /\ kept[s] # <<>>
  /\ kept' = [kept EXCEPT ![s] = Tail(@)]
  /\ inbox' = Sent(inbox, s, Head(kept[s]))
  /\ UNCHANGED <<budget, clock, stage, engine, expansion, broker, awaiting, fired>>

\* reset: the targets of the engine's calls are told to stop, then the callers
\* of its invocations are told it is gone.
ResetOne(s) ==
  /\ stage[s] \in {"reloading", "closing"} /\ kept[s] = <<>>
  /\ \/ \E r \in broker[s].pending :
         /\ inbox' = Sent(inbox, r.target, Cancel(r))
         /\ SetBroker(s, [broker[s] EXCEPT !.pending = @ \ {r}])
     \/ \E v \in broker[s].invocations :
         /\ broker[s].pending = {}
         /\ inbox' = Sent(inbox, v.req.from, Reply(v.req))
         /\ SetBroker(s, [broker[s] EXCEPT !.invocations = @ \ {v}])
  /\ UNCHANGED <<budget, clock, stage, engine, expansion, kept, awaiting, fired>>

\* Mutant: the charges of the dropped calls stay.
ResetBroker_KeepsBudget(b) == [NewBroker(b.nextId) EXCEPT !.outgoing = b.outgoing]

\* What reset leaves: no tracking, and a counter that never goes back.
ResetBroker(b) == NewBroker(b.nextId)

DropEngine(s) ==
  /\ kept[s] = <<>> /\ broker[s].pending = {} /\ broker[s].invocations = {}
  /\ SetBroker(s, ResetBroker(broker[s]))
  /\ awaiting' = [awaiting EXCEPT ![s] = {}]
  /\ fired' = [fired EXCEPT ![s] = NoDeadline]

Rebuild(s) ==
  /\ stage[s] = "reloading"
  /\ DropEngine(s)
  /\ stage' = [stage EXCEPT ![s] = "running"]
  /\ engine' = [engine EXCEPT ![s] = @ + 1]
  /\ UNCHANGED <<budget, clock, inbox, expansion, kept>>

\* The session ends: its channel closes, its engine is dropped.
Shutdown(s) ==
  /\ stage[s] = "running" /\ Affordable("disruption")
  /\ Spend("disruption")
  /\ stage' = [stage EXCEPT ![s] = "closing"]
  /\ inbox' = [inbox EXCEPT ![s] = <<>>]
  /\ expansion' = [expansion EXCEPT ![s] = <<>>]
  /\ UNCHANGED <<clock, engine, kept, broker, awaiting, fired>>

Ended(s) ==
  /\ stage[s] = "closing"
  /\ DropEngine(s)
  /\ stage' = [stage EXCEPT ![s] = "closed"]
  /\ UNCHANGED <<budget, clock, engine, inbox, expansion, kept>>

-------------------------------------------------------------------------------
\* What the session's thread does by itself.
CallLoop(s) ==
  \/ ForwardProcedureCall(s) \/ DropProcedureCall(s) \/ RefuseProcedureCall(s)
  \/ StartProcedureCall(s) \/ InvokeImplementation(s) \/ ForwardProcedureReply(s)
  \/ ProcedureReply(s) \/ SettlePromise(s) \/ CancelProcedureCall(s)
  \/ ExpireProcedureCalls(s) \/ ExpireOne(s) \/ ExpireDone(s)
  \/ BeginReload(s) \/ Requeue(s) \/ ResetOne(s) \/ Rebuild(s) \/ Ended(s)

CallsNext ==
  \/ Tick
  \/ \E s \in Sessions :
       RunHandler(s) \/ PumpScripts(s) \/ Shutdown(s) \/ CallLoop(s) \/ FireDeadline(s)

CallsFairness ==
  /\ WF_callVars(Tick)
  /\ \A s \in Sessions : WF_callVars(CallLoop(s)) /\ WF_callVars(FireDeadline(s))

CallsSpec == CallsInit /\ [][CallsNext]_callVars /\ CallsFairness

-------------------------------------------------------------------------------
(* Properties. *)

Requests ==
  [from : Sessions, heap : Nat, id : Nat, target : Sessions, hops : Nat, deadline : Nat]
Invocations ==
  [ticket : Nat, heap : Nat, req : Requests, prepared : BOOLEAN]
Messages ==
  [kind : {"forward", "call", "cancel", "reply", "settle"}, req : Requests]
  \cup [kind : {"invoke"}, req : Requests, ticket : Nat]
  \cup [kind : {"answer"}, req : Requests, ticket : Nat, heap : Nat]
  \cup {Reload, Expire}
Keys == Sessions \X Nat \X Nat
Brokers ==
  [ready : BOOLEAN, nextId : Nat, pending : SUBSET Requests,
   invocations : SUBSET Invocations, incomingKeys : SUBSET (Keys \X Nat),
   deadlines : SUBSET [at : Nat, of : {"call", "invocation"}, id : Nat],
   outgoing : Nat, incoming : Nat, watch : Nat]

\* Every variable stays in its type.
CallsTypeOK ==
  /\ clock \in Nat
  /\ stage \in [Sessions -> Stages]
  /\ engine \in [Sessions -> Nat]
  /\ inbox \in [Sessions -> Seq(Messages)]
  /\ expansion \in [Sessions -> Seq(Messages)]
  /\ kept \in [Sessions -> Seq(Messages)]
  /\ broker \in [Sessions -> Brokers]
  /\ awaiting \in [Sessions -> SUBSET Nat]
  /\ budget \in [{"call", "disruption"} -> Int]
  /\ fired \in [Sessions -> Nat]

Settling(s) ==
  {i \in DOMAIN expansion[s] : expansion[s][i].kind = "settle"}

\* A promise of the live heap is either tracked by the broker, with the request
\* it was made for, or about to be settled, and never both nor twice: no reply,
\* timeout, cancellation or reload loses it, and none settles the promise of
\* another call or of an earlier heap (complete, expire, reset).
PromisesAccounted ==
  \A s \in Sessions : stage[s] \in {"running", "expiring"} =>
    /\ awaiting[s] = {r.id : r \in broker[s].pending}
                     \cup {expansion[s][i].req.id : i \in Settling(s)}
    /\ \A r \in broker[s].pending : r.from = s /\ r.heap = engine[s]
    /\ \A i \in Settling(s) :
         LET r == expansion[s][i].req IN
         /\ r.from = s /\ r.heap = engine[s]
         /\ ~\E p \in broker[s].pending : p.id = r.id
         /\ \A j \in Settling(s) : expansion[s][j].req.id = r.id => i = j

Queued(s, m) ==
  \E q \in {inbox[s], expansion[s], kept[s]} : \E i \in DOMAIN q : q[i] = m

\* Somebody still answers every call a live heap waits for, without help from
\* its deadline: the request or its reply is in a queue, or the target tracks
\* it.  So an answer prepared behind a reload, a reload of the target and an
\* expiry at the target all reach the caller (the reason prepare_reply keeps
\* the invocation until dispatch).  Only the end of the target takes it away.
AnswerInSight ==
  \A s \in Sessions : stage[s] \in {"running", "expiring"} =>
    \A r \in broker[s].pending :
      \/ Queued(s, Forward(r)) \/ Queued(s, Reply(r))
      \/ Queued(r.target, Call(r))
      \/ \E v \in broker[r.target].invocations : v.req = r
      \/ ~Live(r.target)

\* The indexes and the budgets of a broker describe exactly the calls and the
\* invocations it tracks, and the deadline its host timer was given is the
\* earliest of them: nothing leaks across a timeout, a cancellation or a
\* reload, and no deadline is left without a timer.
BrokerConsistent ==
  \A s \in Sessions : stage[s] \in {"running", "expiring"} =>
    LET b == broker[s] IN
    /\ b.outgoing = Cardinality(b.pending)
    /\ b.incoming = Cardinality(b.invocations)
    /\ b.incomingKeys = {<<Key(v.req), v.ticket>> : v \in b.invocations}
    /\ b.deadlines =
         {[at |-> r.deadline, of |-> "call", id |-> r.id] : r \in b.pending}
         \cup {[at |-> v.req.deadline, of |-> "invocation", id |-> v.ticket] : v \in b.invocations}
    /\ b.watch = NextDeadline(b)

\* While a fired deadline waits behind other input, the timer does not queue
\* it again (deadline_worker): no more expiries wait than deadlines passed.
ExpiriesBounded ==
  \A s \in Sessions :
    Cardinality({i \in DOMAIN inbox[s] : inbox[s][i] = Expire}) <= clock * engine[s]

\* Scripts call finitely often in a behaviour of the model, so every promise is
\* settled or gone with its heap, and every invocation is answered, cancelled,
\* expired or dropped with its engine, exactly when all of them are again and
\* again: whatever the target does, its deadline ends a call at both ends.
EveryCallEnds ==
  []<>(\A s \in Sessions : awaiting[s] = {} /\ broker[s].invocations = {})
===============================================================================
