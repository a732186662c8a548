---------------------------- MODULE ProcedurePosts ----------------------------
(***************************************************************************)
(* The message bus of one session: posts to one procedure, from the        *)
(* session's own scripts and from other sessions.  A post that finds no    *)
(* implementation waits in a bounded buffer until one registers, across    *)
(* reloads.  A post that finds one becomes an action that names a function *)
(* of the engine, and a reload drops those.                                *)
(***************************************************************************)
EXTENDS Naturals, Sequences, FiniteSets

CONSTANTS Posts,          \* the posts scripts make, each once
          Cap,            \* PENDING_POST_CAP
          MaxPostReloads  \* bound: how often the session is asked to reload

ASSUME PostsAssumption == Cap \in Nat \ {0} /\ MaxPostReloads \in Nat

VARIABLES postStage,      \* what the session's thread is doing
          postEngine,     \* the number of its script engine
          implemented,    \* an implementation is registered
          buffered,       \* MessageBus::pending of the procedure
          queue,          \* the session's inbox
          frame,          \* the actions spawned by the one being handled
          aside,          \* what a reload has taken out of the inbox
          reloads,        \* how often a reload has been asked for
          fate            \* history: what became of each post

postVars ==
  <<postStage, postEngine, implemented, buffered, queue, frame, aside, reloads, fate>>

Incoming(p) == [kind |-> "post", post |-> p]
Invocation(p) == [kind |-> "call", post |-> p, engine |-> postEngine]
ReloadAction == [kind |-> "reload"]

\* references_engine_state
NamesEngine(m) == m.kind = "call"

PostsInit ==
  /\ postStage = "loading"
  /\ postEngine = 1
  /\ implemented = FALSE
  /\ buffered = <<>> /\ queue = <<>> /\ frame = <<>> /\ aside = <<>>
  /\ reloads = 0
  /\ fate = [p \in Posts |-> "unsent"]

Fares(p, f) == fate' = [fate EXCEPT ![p] = f]

-------------------------------------------------------------------------------
(* A turn of the session's scripts.  While modules load, what they spawn is *)
(* kept for later; a handler's is expanded at once, ahead of the rest of    *)
(* the expansion; a continuation's goes behind the inbox.                   *)

ScriptsTurn == postStage = "loading" \/ postStage = "running"

Spawned(actions) ==
  \/ /\ postStage = "loading"
     /\ frame' = frame \o actions /\ UNCHANGED queue
  \/ /\ postStage = "running"
     /\ frame' = actions \o frame /\ UNCHANGED queue
  \/ /\ postStage = "running" /\ frame = <<>>
     /\ queue' = queue \o actions /\ UNCHANGED frame

\* Mutant: the buffer makes room one post too late.
Buffer_OffByOne(p) ==
  IF Len(buffered) > Cap
    THEN /\ buffered' = Append(Tail(buffered), p)
         /\ fate' = [fate EXCEPT ![Head(buffered)] = "overflowed", ![p] = "underway"]
    ELSE /\ buffered' = Append(buffered, p)
         /\ Fares(p, "underway")

\* push_pending: the oldest post makes room.
Buffer(p) ==
  IF Len(buffered) >= Cap
    THEN /\ buffered' = Append(Tail(buffered), p)
         /\ fate' = [fate EXCEPT ![Head(buffered)] = "overflowed", ![p] = "underway"]
    ELSE /\ buffered' = Append(buffered, p)
         /\ Fares(p, "underway")

\* op_smudgy_procedure_post to the own session.
PostHere(p) ==
  /\ fate[p] = "unsent"
  /\ \/ /\ implemented
        /\ Spawned(<<Invocation(p)>>)
        /\ Fares(p, "underway") /\ UNCHANGED buffered
     \/ /\ ~implemented /\ ScriptsTurn
        /\ Buffer(p) /\ UNCHANGED <<queue, frame>>
  /\ UNCHANGED <<postStage, postEngine, implemented, aside, reloads>>

\* ForwardProcedurePost of another session, at any moment.
PostFromElsewhere(p) ==
  /\ fate[p] = "unsent"
  /\ queue' = Append(queue, Incoming(p))
  /\ Fares(p, "underway")
  /\ UNCHANGED <<postStage, postEngine, implemented, buffered, frame, aside, reloads>>

\* Mutant: subscribe leaves what it hands out in the buffer.
Register_Keeps ==
  /\ Spawned([i \in 1 .. Len(buffered) |-> Invocation(buffered[i])])
  /\ implemented' = TRUE
  /\ UNCHANGED <<postStage, postEngine, buffered, aside, reloads, fate>>

\* op_smudgy_procedure_on: the buffered posts are taken in order, and dropped
\* when the registration itself runs at the cap of nested handlers.
Register ==
  /\ LET drained == [i \in 1 .. Len(buffered) |-> Invocation(buffered[i])] IN
     \/ /\ Spawned(drained)
        /\ UNCHANGED fate
     \/ /\ postStage = "running" /\ buffered # <<>>
        /\ fate' = [p \in Posts |->
             IF \E i \in DOMAIN buffered : buffered[i] = p THEN "dropped" ELSE fate[p]]
        /\ UNCHANGED <<queue, frame>>
  /\ implemented' = TRUE
  /\ buffered' = <<>>
  /\ UNCHANGED <<postStage, postEngine, aside, reloads>>

AskReload ==
  /\ reloads < MaxPostReloads
  /\ Spawned(<<ReloadAction>>)
  /\ reloads' = reloads + 1
  /\ UNCHANGED <<postStage, postEngine, implemented, buffered, aside, fate>>

-------------------------------------------------------------------------------
(* The session's loop. *)

Active == postStage = "running" /\ (frame # <<>> \/ queue # <<>>)
Action == IF frame # <<>> THEN Head(frame) ELSE Head(queue)
Handled(spawned) ==
  IF frame # <<>>
    THEN frame' = spawned \o Tail(frame) /\ UNCHANGED queue
    ELSE frame' = spawned /\ queue' = Tail(queue)

\* deliver_procedure_post, of a procedure whose package is installed.
DeliverPost ==
  /\ Active /\ Action.kind = "post"
  /\ \/ /\ implemented
        /\ Handled(<<Invocation(Action.post)>>)
        /\ UNCHANGED <<buffered, fate>>
     \/ /\ ~implemented
        /\ Handled(<<>>)
        /\ Buffer(Action.post)
  /\ UNCHANGED <<postStage, postEngine, implemented, aside, reloads>>

RunImplementation ==
  /\ Active /\ Action.kind = "call"
  /\ Fares(Action.post, "heard")
  /\ Handled(<<>>)
  /\ UNCHANGED <<postStage, postEngine, implemented, buffered, aside, reloads>>

Carried(q) == {q[i].post : i \in {j \in DOMAIN q : NamesEngine(q[j])}}

\* The frame is discarded, and with it the posts in it.
StartReload ==
  /\ Active /\ Action = ReloadAction
  /\ postStage' = "reloading"
  /\ aside' = IF frame # <<>> THEN queue ELSE Tail(queue)
  /\ queue' = <<>> /\ frame' = <<>>
  /\ fate' = [p \in Posts |-> IF p \in Carried(frame) THEN "purged" ELSE fate[p]]
  /\ UNCHANGED <<postEngine, implemented, buffered, reloads>>

\* Mutant: the inbox is put back as it is.
PutBack_All ==
  /\ postStage = "reloading" /\ aside # <<>>
  /\ aside' = Tail(aside)
  /\ queue' = Append(queue, Head(aside))
  /\ UNCHANGED <<postStage, postEngine, implemented, buffered, frame, reloads, fate>>

\* What names the engine is left out.
PutBack ==
  /\ postStage = "reloading" /\ aside # <<>>
  /\ aside' = Tail(aside)
  /\ IF NamesEngine(Head(aside))
       THEN Fares(Head(aside).post, "purged") /\ UNCHANGED queue
       ELSE queue' = Append(queue, Head(aside)) /\ UNCHANGED fate
  /\ UNCHANGED <<postStage, postEngine, implemented, buffered, frame, reloads>>

\* reset_engine_state drops the implementation, not the buffer.
BuildEngine ==
  /\ postStage = "reloading" /\ aside = <<>>
  /\ postStage' = "loading"
  /\ postEngine' = postEngine + 1
  /\ implemented' = FALSE
  /\ UNCHANGED <<buffered, queue, frame, aside, reloads, fate>>

Loaded ==
  /\ postStage = "loading"
  /\ postStage' = "running"
  /\ UNCHANGED <<postEngine, implemented, buffered, queue, frame, aside, reloads, fate>>

-------------------------------------------------------------------------------
PostsNext ==
  \/ \E p \in Posts : PostHere(p) \/ PostFromElsewhere(p)
  \/ Register \/ AskReload
  \/ DeliverPost \/ RunImplementation
  \/ StartReload \/ PutBack \/ BuildEngine \/ Loaded

PostsSpec == PostsInit /\ [][PostsNext]_postVars

-------------------------------------------------------------------------------
(* Properties. *)

Fates == {"unsent", "underway", "heard", "overflowed", "dropped", "purged"}
Actions ==
  [kind : {"post"}, post : Posts] \cup [kind : {"call"}, post : Posts, engine : Nat]
  \cup {ReloadAction}

\* Every variable stays in its type, and the buffer within its cap.
PostsTypeOK ==
  /\ postStage \in {"loading", "running", "reloading"}
  /\ postEngine \in Nat /\ reloads \in Nat
  /\ implemented \in BOOLEAN
  /\ buffered \in Seq(Posts) /\ Len(buffered) <= Cap
  /\ queue \in Seq(Actions) /\ frame \in Seq(Actions) /\ aside \in Seq(Actions)
  /\ fate \in [Posts -> Fates]

Bearing(q, p) == {i \in DOMAIN q : q[i] # ReloadAction /\ q[i].post = p}
Waiting(p) == {i \in DOMAIN buffered : buffered[i] = p}
PlacesOf(p) ==
  Cardinality(Waiting(p)) + Cardinality(Bearing(queue, p))
  + Cardinality(Bearing(frame, p)) + Cardinality(Bearing(aside, p))

\* A post whose fate is open is in exactly one place, and a post that was heard
\* or given up is in none: the drain at a registration, a delivery and the
\* requeue of a reload neither double a post nor leave it unaccounted for.  And
\* no post waits for an implementation that is there (subscribe).
PostsAccounted ==
  /\ \A p \in Posts : PlacesOf(p) = IF fate[p] = "underway" THEN 1 ELSE 0
  /\ implemented => buffered = <<>>

\* No action that names a function of an earlier engine is in reach of the loop
\* once the engine is rebuilt, where its id would name some other function
\* (references_engine_state).
CallsOfThisEngine ==
  \A q \in {queue, frame} : \A i \in DOMAIN q : NamesEngine(q[i]) => q[i].engine = postEngine
===============================================================================
