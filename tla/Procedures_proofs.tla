-------------------------- MODULE Procedures_proofs --------------------------
(***************************************************************************)
(* The message bus and the calls between sessions, for every set of posts  *)
(* and of sessions, every cap, limit and clock, and any number of calls,   *)
(* reloads and shutdowns.                                                  *)
(*                                                                         *)
(* The posts.  The buffer stays within its cap, and no action that names a *)
(* function of an earlier engine is left for the loop.  The latter needs   *)
(* to be known of the reload in progress, too: what it has put back names  *)
(* no engine at all, and nothing is being expanded (PostsInv).  And every  *)
(* post that a script made is in one place or has one fate (PostsKept):    *)
(* each step is weighed by what it moves from one sequence to another.     *)
(*                                                                         *)
(* The calls.  None of the properties is inductive; all rest on CallsInv:  *)
(*                                                                         *)
(*   Brokered   numbers tell the calls and the invocations of a broker     *)
(*              apart; its indexes, budgets and timer are exact while the  *)
(*              session runs; its calls are of the live heap;              *)
(*   Staged     which queues a session has in which stage;                 *)
(*   Posted     what may wait in them: a cancellation names a call nobody  *)
(*              waits for, an answer is to the request of its invocation.  *)
(*                                                                         *)
(* Accounted strengthens the account of the promises by what a queue of    *)
(* actions may hold (PromisesKept).  Sighted follows the evidence that an  *)
(* answer is on its way: a step that removes one piece leaves another      *)
(* (AnswersInSight).  Timed bounds the expiries that wait by the engines   *)
(* and the instants a timer had (ExpiriesKeptApart).                       *)
(***************************************************************************)
EXTENDS ProcedurePosts, ProcedureCalls, FiniteSetTheorems, SequenceTheorems, TLAPS

-----------------------------------------------------------------------------
\* The posts.

\* What the loop of engine e may find, and what every engine may find.
OfEngine(e) == {a \in Actions : NamesEngine(a) => a.engine = e}
Unbound == {a \in Actions : ~NamesEngine(a)}

ReloadClean ==
  /\ queue \in Seq(OfEngine(postEngine)) /\ frame \in Seq(OfEngine(postEngine))
  /\ postStage = "reloading" => frame = <<>> /\ queue \in Seq(Unbound)

PostsInv == PostsTypeOK /\ ReloadClean

-----------------------------------------------------------------------------
\* The kinds of actions.

LEMMA KindsApart ==
  ASSUME NEW p \in Posts, postEngine \in Nat
  PROVE  /\ Incoming(p) \in Unbound /\ ReloadAction \in Unbound
         /\ Invocation(p) \in OfEngine(postEngine)
         /\ Incoming(p).kind = "post" /\ Incoming(p).post = p
<1>1. Incoming(p) \in Actions /\ ReloadAction \in Actions /\ Invocation(p) \in Actions
  BY DEF Incoming, ReloadAction, Invocation, Actions
<1>2. ~NamesEngine(Incoming(p)) /\ ~NamesEngine(ReloadAction) /\ Invocation(p).engine = postEngine
  BY DEF Incoming, ReloadAction, Invocation, NamesEngine
<1>3. Incoming(p).kind = "post" /\ Incoming(p).post = p
  BY DEF Incoming
<1> QED
  BY <1>1, <1>2, <1>3 DEF Unbound, OfEngine

LEMMA BearsPost ==
  ASSUME NEW a \in Actions, a.kind \in {"post", "call"}
  PROVE  a.post \in Posts
BY DEF Actions, ReloadAction

LEMMA UnboundOfEngine ==
  ASSUME NEW e, NEW q \in Seq(Unbound)
  PROVE  q \in Seq(OfEngine(e))
<1>1. Unbound \subseteq OfEngine(e)
  BY DEF Unbound, OfEngine
<1> QED
  BY <1>1

LEMMA OfEngineActions ==
  ASSUME NEW e, NEW q \in Seq(OfEngine(e))
  PROVE  q \in Seq(Actions)
<1>1. OfEngine(e) \subseteq Actions
  BY DEF OfEngine
<1> QED
  BY <1>1

LEMMA InvocationsTyped ==
  ASSUME NEW q \in Seq(Posts), postEngine \in Nat
  PROVE  [i \in 1 .. Len(q) |-> Invocation(q[i])] \in Seq(OfEngine(postEngine))
<1>1. \A i \in 1 .. Len(q) : Invocation(q[i]) \in OfEngine(postEngine)
  BY KindsApart
<1>2. Len(q) \in Nat
  OBVIOUS
<1> QED
  BY <1>1, <1>2

-----------------------------------------------------------------------------
\* What a turn of the scripts adds, and what the loop takes.

LEMMA SpawnedClean ==
  ASSUME PostsInv, NEW actions \in Seq(OfEngine(postEngine)), Spawned(actions)
  PROVE  /\ queue' \in Seq(OfEngine(postEngine)) /\ frame' \in Seq(OfEngine(postEngine))
         /\ postStage # "reloading"
<1> DEFINE S == OfEngine(postEngine)
<1>1. queue \in Seq(S) /\ frame \in Seq(S) /\ actions \in Seq(S)
  BY DEF PostsInv, ReloadClean
<1> HIDE DEF S
<1>2. frame \o actions \in Seq(S) /\ actions \o frame \in Seq(S) /\ queue \o actions \in Seq(S)
  BY <1>1, ConcatProperties
<1>3. queue' \in Seq(S) /\ frame' \in Seq(S) /\ postStage # "reloading"
  BY <1>1, <1>2 DEF Spawned
<1> QED
  BY <1>3 DEF S

LEMMA TheAction ==
  ASSUME PostsInv, Active
  PROVE  Action \in OfEngine(postEngine) /\ Action \in Actions
BY DEF PostsInv, ReloadClean, Active, Action, OfEngine

LEMMA HandledClean ==
  ASSUME PostsInv, Active, NEW actions \in Seq(OfEngine(postEngine)), Handled(actions)
  PROVE  queue' \in Seq(OfEngine(postEngine)) /\ frame' \in Seq(OfEngine(postEngine))
<1> DEFINE S == OfEngine(postEngine)
<1>1. queue \in Seq(S) /\ frame \in Seq(S) /\ actions \in Seq(S)
  BY DEF PostsInv, ReloadClean
<1> HIDE DEF S
<1>2. CASE frame # <<>>
  <2>1. Tail(frame) \in Seq(S)
    BY <1>1, <1>2
  <2>2. actions \o Tail(frame) \in Seq(S)
    BY <1>1, <2>1, ConcatProperties
  <2> QED
    BY <1>1, <1>2, <2>2 DEF Handled, S
<1>3. CASE frame = <<>>
  <2>1. queue # <<>>
    BY <1>3 DEF Active
  <2>2. Tail(queue) \in Seq(S)
    BY <1>1, <2>1
  <2> QED
    BY <1>1, <1>3, <2>2 DEF Handled, S
<1> QED
  BY <1>2, <1>3

LEMMA BufferTyped ==
  ASSUME PostsInv, PostsAssumption, NEW p \in Posts, Buffer(p)
  PROVE  /\ buffered' \in Seq(Posts) /\ Len(buffered') <= Cap
         /\ fate' \in [Posts -> Fates]
<1>1. buffered \in Seq(Posts) /\ Len(buffered) <= Cap /\ fate \in [Posts -> Fates] /\ Cap \in Nat \ {0}
  BY DEF PostsInv, PostsTypeOK, PostsAssumption
<1>2. CASE Len(buffered) >= Cap
  <2>1. buffered # <<>> /\ Len(buffered) = Cap
    BY <1>1, <1>2
  <2>2. Tail(buffered) \in Seq(Posts) /\ Len(Tail(buffered)) = Len(buffered) - 1
    BY <1>1, <2>1
  <2>3. buffered' = Append(Tail(buffered), p)
    BY <1>2 DEF Buffer
  <2>4. buffered' \in Seq(Posts) /\ Len(buffered') = Cap
    BY <1>1, <2>1, <2>2, <2>3
  <2>5. fate' \in [Posts -> Fates]
    BY <1>1, <1>2 DEF Buffer, Fates
  <2> QED
    BY <1>1, <2>4, <2>5
<1>3. CASE ~(Len(buffered) >= Cap)
  <2>1. buffered' = Append(buffered, p) /\ fate' = [fate EXCEPT ![p] = "underway"]
    BY <1>3 DEF Buffer, Fares
  <2> QED
    BY <1>1, <1>3, <2>1 DEF Fates
<1> QED
  BY <1>2, <1>3

-----------------------------------------------------------------------------
\* Each step preserves the invariant.

LEMMA PostsInvNext == PostsAssumption /\ PostsInv /\ [PostsNext]_postVars => PostsInv'
<1> SUFFICES ASSUME PostsAssumption, PostsInv, [PostsNext]_postVars PROVE PostsInv'
  OBVIOUS
<1>a. PostsTypeOK /\ ReloadClean /\ postEngine \in Nat /\ fate \in [Posts -> Fates]
  BY DEF PostsInv, PostsTypeOK
<1>e. <<>> \in Seq(OfEngine(postEngine)) /\ <<>> \in Seq(Unbound)
  OBVIOUS
<1>f. \A p \in Posts : \A f \in Fates : [fate EXCEPT ![p] = f] \in [Posts -> Fates]
  BY <1>a
<1>1. ASSUME NEW p \in Posts, PostHere(p) PROVE PostsInv'
  <2>1. CASE implemented /\ Spawned(<<Invocation(p)>>) /\ Fares(p, "underway") /\ UNCHANGED buffered
    <3>1. <<Invocation(p)>> \in Seq(OfEngine(postEngine))
      BY <1>a, KindsApart
    <3>2. /\ queue' \in Seq(OfEngine(postEngine)) /\ frame' \in Seq(OfEngine(postEngine))
          /\ postStage # "reloading"
      BY <2>1, <3>1, SpawnedClean
    <3>3. fate' \in [Posts -> Fates]
      BY <1>f, <2>1 DEF Fares, Fates
    <3>4. queue' \in Seq(Actions) /\ frame' \in Seq(Actions)
      BY <3>2, OfEngineActions
    <3> QED
      BY <1>1, <1>a, <2>1, <3>2, <3>3, <3>4 DEF PostHere, PostsInv, PostsTypeOK, ReloadClean
  <2>2. CASE Buffer(p) /\ UNCHANGED <<queue, frame>>
    <3>1. buffered' \in Seq(Posts) /\ Len(buffered') <= Cap /\ fate' \in [Posts -> Fates]
      BY <2>2, BufferTyped
    <3> QED
      BY <1>1, <1>a, <2>2, <3>1 DEF PostHere, PostsInv, PostsTypeOK, ReloadClean
  <2> QED
    BY <1>1, <2>1, <2>2 DEF PostHere
<1>2. ASSUME NEW p \in Posts, PostFromElsewhere(p) PROVE PostsInv'
  <2>1. Incoming(p) \in Unbound /\ Incoming(p) \in OfEngine(postEngine) /\ Incoming(p) \in Actions
    BY <1>a, KindsApart DEF Unbound, OfEngine
  <2>2. /\ queue' \in Seq(OfEngine(postEngine)) /\ queue' \in Seq(Actions)
        /\ postStage = "reloading" => queue' \in Seq(Unbound)
    BY <1>2, <1>a, <2>1 DEF PostFromElsewhere, ReloadClean, PostsTypeOK
  <2>3. fate' \in [Posts -> Fates]
    BY <1>2, <1>f DEF PostFromElsewhere, Fares, Fates
  <2> QED
    BY <1>2, <1>a, <2>2, <2>3 DEF PostFromElsewhere, PostsInv, PostsTypeOK, ReloadClean
<1>3. CASE Register
  <2> DEFINE drained == [i \in 1 .. Len(buffered) |-> Invocation(buffered[i])]
  <2>1. drained \in Seq(OfEngine(postEngine))
    BY <1>a, InvocationsTyped DEF PostsTypeOK
  <2> HIDE DEF drained
  <2>2. /\ queue' \in Seq(OfEngine(postEngine)) /\ frame' \in Seq(OfEngine(postEngine))
        /\ postStage # "reloading" /\ fate' \in [Posts -> Fates]
    <3>1. CASE Spawned(drained) /\ UNCHANGED fate
      BY <1>a, <2>1, <3>1, SpawnedClean
    <3>2. CASE /\ postStage = "running" /\ UNCHANGED <<queue, frame>>
               /\ fate' = [p \in Posts |->
                    IF \E i \in DOMAIN buffered : buffered[i] = p THEN "dropped" ELSE fate[p]]
      BY <1>a, <3>2 DEF ReloadClean, Fates
    <3> QED
      BY <1>3, <3>1, <3>2 DEF Register, drained
  <2>3. queue' \in Seq(Actions) /\ frame' \in Seq(Actions)
    BY <2>2, OfEngineActions
  <2>4. /\ implemented' = TRUE /\ buffered' = <<>>
        /\ UNCHANGED <<postStage, postEngine, aside, reloads>>
    BY <1>3 DEF Register
  <2> QED
    BY <1>a, <2>2, <2>3, <2>4, PostsAssumption
       DEF PostsInv, PostsTypeOK, ReloadClean, PostsAssumption
<1>4. CASE AskReload
  <2>1. <<ReloadAction>> \in Seq(OfEngine(postEngine))
    BY DEF ReloadAction, OfEngine, Actions, NamesEngine
  <2>2. /\ queue' \in Seq(OfEngine(postEngine)) /\ frame' \in Seq(OfEngine(postEngine))
        /\ postStage # "reloading"
    BY <1>4, <2>1, SpawnedClean DEF AskReload
  <2>3. queue' \in Seq(Actions) /\ frame' \in Seq(Actions)
    BY <2>2, OfEngineActions
  <2> QED
    BY <1>4, <1>a, <2>2, <2>3 DEF AskReload, PostsInv, PostsTypeOK, ReloadClean
<1>5. CASE DeliverPost
  <2>1. Action.post \in Posts
    BY <1>5, TheAction, BearsPost DEF DeliverPost
  <2>2. <<Invocation(Action.post)>> \in Seq(OfEngine(postEngine))
    BY <1>a, <2>1, KindsApart
  <2>3. /\ queue' \in Seq(OfEngine(postEngine)) /\ frame' \in Seq(OfEngine(postEngine))
        /\ buffered' \in Seq(Posts) /\ Len(buffered') <= Cap /\ fate' \in [Posts -> Fates]
    <3>1. CASE Handled(<<Invocation(Action.post)>>) /\ UNCHANGED <<buffered, fate>>
      BY <1>5, <1>a, <2>2, <3>1, HandledClean DEF DeliverPost, PostsTypeOK
    <3>2. CASE Handled(<<>>) /\ Buffer(Action.post)
      BY <1>5, <1>e, <2>1, <3>2, HandledClean, BufferTyped DEF DeliverPost
    <3> QED
      BY <1>5, <3>1, <3>2 DEF DeliverPost
  <2>4. queue' \in Seq(Actions) /\ frame' \in Seq(Actions)
    BY <2>3, OfEngineActions
  <2>5. postStage = "running" /\ UNCHANGED <<postStage, postEngine, implemented, aside, reloads>>
    BY <1>5 DEF DeliverPost, Active
  <2> QED
    BY <1>a, <2>3, <2>4, <2>5 DEF PostsInv, PostsTypeOK, ReloadClean
<1>6. CASE RunImplementation
  <2>1. Action.post \in Posts
    BY <1>6, TheAction, BearsPost DEF RunImplementation
  <2>2. queue' \in Seq(OfEngine(postEngine)) /\ frame' \in Seq(OfEngine(postEngine))
    BY <1>6, <1>e, HandledClean DEF RunImplementation
  <2>3. queue' \in Seq(Actions) /\ frame' \in Seq(Actions)
    BY <2>2, OfEngineActions
  <2>4. fate' \in [Posts -> Fates]
    BY <1>6, <1>f, <2>1 DEF RunImplementation, Fares, Fates
  <2>5. /\ postStage = "running"
        /\ UNCHANGED <<postStage, postEngine, implemented, buffered, aside, reloads>>
    BY <1>6 DEF RunImplementation, Active
  <2> QED
    BY <1>a, <2>2, <2>3, <2>4, <2>5 DEF PostsInv, PostsTypeOK, ReloadClean
<1>7. CASE StartReload
  <2>1. aside' \in Seq(Actions)
    BY <1>7, <1>a DEF StartReload, Active, PostsTypeOK
  <2>2. fate' \in [Posts -> Fates]
    BY <1>7, <1>a DEF StartReload, Fates
  <2>3. /\ postStage' = "reloading" /\ queue' = <<>> /\ frame' = <<>>
        /\ UNCHANGED <<postEngine, implemented, buffered, reloads>>
    BY <1>7 DEF StartReload
  <2> QED
    BY <1>a, <2>1, <2>2, <2>3 DEF PostsInv, PostsTypeOK, ReloadClean
<1>8. CASE PutBack
  <2>1. /\ postStage = "reloading" /\ aside # <<>> /\ aside \in Seq(Actions)
        /\ queue \in Seq(Unbound) /\ queue \in Seq(Actions) /\ frame = <<>>
    BY <1>8, <1>a DEF PutBack, PostsTypeOK, ReloadClean
  <2>2. Head(aside) \in Actions /\ aside' \in Seq(Actions)
    BY <1>8, <2>1 DEF PutBack
  <2>3. UNCHANGED <<postStage, postEngine, implemented, buffered, frame, reloads>>
    BY <1>8 DEF PutBack
  <2>4. CASE NamesEngine(Head(aside))
    <3>1. fate' \in [Posts -> Fates] /\ queue' = queue
      BY <1>8, <1>f, <2>2, <2>4, BearsPost DEF PutBack, Fares, Fates, NamesEngine
    <3> QED
      BY <1>a, <2>2, <2>3, <3>1 DEF PostsInv, PostsTypeOK, ReloadClean
  <2>5. CASE ~NamesEngine(Head(aside))
    <3>1. Head(aside) \in Unbound
      BY <2>2, <2>5 DEF Unbound
    <3>2. /\ queue' = Append(queue, Head(aside)) /\ fate' = fate
          /\ queue' \in Seq(Unbound) /\ queue' \in Seq(Actions)
      <4>1. queue' = Append(queue, Head(aside)) /\ fate' = fate
        BY <1>8, <2>5 DEF PutBack
      <4> QED
        BY <2>1, <2>2, <3>1, <4>1, AppendProperties
    <3>3. queue' \in Seq(OfEngine(postEngine))
      BY <3>2, UnboundOfEngine
    <3> QED
      BY <1>a, <2>1, <2>2, <2>3, <3>2, <3>3 DEF PostsInv, PostsTypeOK, ReloadClean
  <2> QED
    BY <2>4, <2>5
<1>9. CASE BuildEngine
  <2>1. queue \in Seq(Unbound) /\ frame = <<>>
    BY <1>9, <1>a DEF BuildEngine, ReloadClean
  <2>2. queue \in Seq(OfEngine(postEngine')) /\ frame \in Seq(OfEngine(postEngine'))
    BY <2>1, UnboundOfEngine
  <2>3. /\ postStage' = "loading" /\ postEngine' = postEngine + 1 /\ implemented' = FALSE
        /\ UNCHANGED <<buffered, queue, frame, aside, reloads, fate>>
        /\ implemented' \in BOOLEAN
    BY <1>9 DEF BuildEngine
  <2>4. PostsTypeOK'
    <3>1. postEngine' \in Nat
      BY <1>a, <2>3
    <3> QED
      BY <1>a, <2>3, <3>1 DEF PostsTypeOK
  <2>5. ReloadClean'
    BY <2>2, <2>3 DEF ReloadClean
  <2> QED
    BY <2>4, <2>5 DEF PostsInv
<1>10. CASE Loaded
  BY <1>10, <1>a DEF Loaded, PostsInv, PostsTypeOK, ReloadClean
<1>11. CASE UNCHANGED postVars
  BY <1>11, <1>a DEF postVars, PostsInv, PostsTypeOK, ReloadClean
<1> QED
  BY <1>1, <1>2, <1>3, <1>4, <1>5, <1>6, <1>7, <1>8, <1>9, <1>10, <1>11 DEF PostsNext

LEMMA PostsInvInit == PostsAssumption /\ PostsInit => PostsInv
<1> SUFFICES ASSUME PostsAssumption, PostsInit PROVE PostsInv
  OBVIOUS
<1>1. fate \in [Posts -> Fates]
  BY DEF PostsInit, Fates
<1>2. PostsTypeOK
  <2>1. implemented \in BOOLEAN
    BY DEF PostsInit
  <2>2. buffered = <<>> /\ queue = <<>> /\ frame = <<>> /\ aside = <<>>
    BY DEF PostsInit
  <2>3. <<>> \in Seq(Posts) /\ <<>> \in Seq(Actions) /\ Len(<<>>) = 0 /\ Cap >= 0
    BY DEF PostsAssumption
  <2>4. postStage = "loading" /\ postEngine = 1 /\ reloads = 0
    BY DEF PostsInit
  <2> QED
    BY <1>1, <2>1, <2>2, <2>3, <2>4 DEF PostsTypeOK
<1>3. ReloadClean
  BY DEF PostsInit, ReloadClean
<1> QED
  BY <1>2, <1>3 DEF PostsInv

LEMMA PostsInvHolds == PostsSpec => []PostsInv
BY PostsAssumption, PostsInvInit, PostsInvNext, PTL DEF PostsSpec

\* The buffer of posts never grows past its cap, and every variable keeps its
\* type, for every cap and any number of reloads.
THEOREM PostsTyped == PostsSpec => []PostsTypeOK
<1>1. PostsInv => PostsTypeOK
  BY DEF PostsInv
<1> QED
  BY <1>1, PostsInvHolds, PTL

\* No action that names a function of an earlier engine reaches the loop.
THEOREM NoStaleCalls == PostsSpec => []CallsOfThisEngine
<1>1. PostsInv => CallsOfThisEngine
  BY DEF PostsInv, ReloadClean, CallsOfThisEngine, OfEngine
<1> QED
  BY <1>1, PostsInvHolds, PTL

-----------------------------------------------------------------------------
\* Counting the members of a sequence.

Hits(s, S) == {i \in 1 .. Len(s) : s[i] \in S}
Count(s, S) == Cardinality(Hits(s, S))
One(x, S) == IF x \in S THEN 1 ELSE 0

LEMMA CountNat ==
  ASSUME NEW X, NEW s \in Seq(X), NEW S
  PROVE  /\ IsFiniteSet(Hits(s, S)) /\ Count(s, S) \in Nat
         /\ Count(s, S) = 0 <=> \A i \in 1 .. Len(s) : s[i] \notin S
<1>1. IsFiniteSet(1 .. Len(s)) /\ Hits(s, S) \subseteq 1 .. Len(s)
  BY FS_Interval DEF Hits
<1>2. IsFiniteSet(Hits(s, S)) /\ Cardinality(Hits(s, S)) \in Nat
  BY <1>1, FS_Subset, FS_CardinalityType
<1>3. Cardinality(Hits(s, S)) = 0 <=> Hits(s, S) = {}
  BY <1>2, FS_EmptySet
<1> QED
  BY <1>2, <1>3 DEF Count, Hits

LEMMA CountEmpty ==
  ASSUME NEW S
  PROVE  Count(<<>>, S) = 0
<1>1. Hits(<<>>, S) = {}
  BY DEF Hits
<1> QED
  BY <1>1, FS_EmptySet DEF Count

LEMMA CountConcat ==
  ASSUME NEW X, NEW s \in Seq(X), NEW t \in Seq(X), NEW S
  PROVE  Count(s \o t, S) = Count(s, S) + Count(t, S)
<1> DEFINE n == Len(s)
           back == {i \in n + 1 .. n + Len(t) : (s \o t)[i] \in S}
           shift == [i \in Hits(t, S) |-> i + n]
<1>1. /\ n \in Nat /\ Len(t) \in Nat /\ Len(s \o t) = n + Len(t)
      /\ \A i \in 1 .. n : (s \o t)[i] = s[i]
      /\ \A i \in 1 .. Len(t) : (s \o t)[i + n] = t[i]
  <2>1. Len(s \o t) = n + Len(t) /\ n \in Nat /\ Len(t) \in Nat
    BY ConcatProperties
  <2>2. \A i \in 1 .. n : (s \o t)[i] = s[i]
    BY <2>1, ConcatProperties
  <2>3. ASSUME NEW i \in 1 .. Len(t) PROVE (s \o t)[i + n] = t[i]
    <3>1. i + n \in 1 .. n + Len(t) /\ ~(i + n <= n) /\ (i + n) - n = i
      BY <2>1
    <3> QED
      BY <3>1, ConcatProperties
  <2> QED
    BY <2>1, <2>2, <2>3
<1> HIDE DEF n
<1>2. Hits(s \o t, S) = Hits(s, S) \cup back /\ Hits(s, S) \cap back = {}
  BY <1>1 DEF Hits, n
<1>3. shift \in Bijection(Hits(t, S), back)
  <2>1. shift \in [Hits(t, S) -> back]
    BY <1>1 DEF Hits
  <2>2. ASSUME NEW i \in Hits(t, S), NEW j \in Hits(t, S), shift[i] = shift[j] PROVE i = j
    BY <1>1, <2>2 DEF Hits
  <2>3. ASSUME NEW i \in back PROVE \E j \in Hits(t, S) : shift[j] = i
    <3>1. i - n \in 1 .. Len(t) /\ (i - n) + n = i
      BY <1>1
    <3>2. (s \o t)[i] \in S /\ (s \o t)[(i - n) + n] = t[i - n]
      BY <1>1, <3>1
    <3>3. i - n \in Hits(t, S)
      BY <3>1, <3>2 DEF Hits
    <3> QED
      BY <3>1, <3>3
  <2> QED
    BY <2>1, <2>2, <2>3 DEF Bijection, Injection, Surjection, IsInjective
<1>4. IsFiniteSet(back) /\ Cardinality(back) = Count(t, S)
  <2>1. ExistsBijection(Hits(t, S), back)
    BY <1>3 DEF ExistsBijection
  <2> QED
    BY <2>1, CountNat, FS_Bijection DEF Count
<1>5. Cardinality(Hits(s, S) \cup back)
        = Cardinality(Hits(s, S)) + Cardinality(back) - Cardinality(Hits(s, S) \cap back)
  BY <1>4, CountNat, FS_Union
<1>6. Cardinality(Hits(s, S) \cap back) = 0
  BY <1>2, FS_EmptySet
<1>7. Count(s, S) \in Nat /\ Count(t, S) \in Nat
  BY CountNat
<1> HIDE DEF back
<1>8. Cardinality(Hits(s, S) \cup back) = Count(s, S) + Count(t, S)
  <2>1. Cardinality(Hits(s, S)) = Count(s, S)
    BY DEF Count
  <2> QED
    BY <1>4, <1>5, <1>6, <1>7, <2>1
<1>9. Count(s \o t, S) = Cardinality(Hits(s, S) \cup back)
  BY <1>2 DEF Count
<1> QED
  BY <1>8, <1>9

LEMMA CountOne ==
  ASSUME NEW x, NEW S
  PROVE  Count(<<x>>, S) = One(x, S)
<1>1. CASE x \in S
  <2>1. Hits(<<x>>, S) = {1}
    BY <1>1 DEF Hits
  <2> QED
    BY <1>1, <2>1, FS_Singleton DEF Count, One
<1>2. CASE x \notin S
  <2>1. Hits(<<x>>, S) = {}
    BY <1>2 DEF Hits
  <2> QED
    BY <1>2, <2>1, FS_EmptySet DEF Count, One
<1> QED
  BY <1>1, <1>2

LEMMA CountAppend ==
  ASSUME NEW X, NEW s \in Seq(X), NEW x \in X, NEW S
  PROVE  Count(Append(s, x), S) = Count(s, S) + One(x, S)
<1>1. <<x>> \in Seq(X) /\ Append(s, x) = s \o <<x>>
  OBVIOUS
<1>2. Count(s \o <<x>>, S) = Count(s, S) + Count(<<x>>, S)
  BY <1>1, CountConcat
<1> QED
  BY <1>1, <1>2, CountOne

LEMMA CountHead ==
  ASSUME NEW X, NEW s \in Seq(X), s # <<>>, NEW S
  PROVE  Count(s, S) = One(Head(s), S) + Count(Tail(s), S)
<1>1. /\ Head(s) \in X /\ Tail(s) \in Seq(X) /\ <<Head(s)>> \in Seq(X)
      /\ s = <<Head(s)>> \o Tail(s)
  OBVIOUS
<1> HIDE DEF Count
<1>2. Count(<<Head(s)>> \o Tail(s), S) = Count(<<Head(s)>>, S) + Count(Tail(s), S)
  BY <1>1, CountConcat
<1> QED
  BY <1>1, <1>2, CountOne

-----------------------------------------------------------------------------
\* Where a post is, counted.

Bears(p) == {a \in Actions : a # ReloadAction /\ a.post = p}
InLoop(p) == Count(queue, Bears(p)) + Count(frame, Bears(p))
Total(p) == Count(buffered, {p}) + InLoop(p) + Count(aside, Bears(p))

\* What a turn of the scripts spawns: a reload and calls, but never a post.
Spawnable == {a \in Actions : a.kind # "post"}

Tidy ==
  /\ implemented => buffered = <<>>
  /\ postStage # "reloading" => aside = <<>>
  /\ frame \in Seq(Spawnable)

Accounts == \A p \in Posts : Total(p) = IF fate[p] = "underway" THEN 1 ELSE 0

AccountInv == Tidy /\ Accounts

LEMMA PlacesCounted ==
  ASSUME PostsTypeOK, NEW p \in Posts
  PROVE  PlacesOf(p) = Total(p)
<1>1. ASSUME NEW q \in Seq(Actions) PROVE Bearing(q, p) = Hits(q, Bears(p))
  BY DEF Bearing, Hits, Bears
<1>2. Bearing(queue, p) = Hits(queue, Bears(p)) /\ Bearing(frame, p) = Hits(frame, Bears(p))
      /\ Bearing(aside, p) = Hits(aside, Bears(p))
  BY <1>1 DEF PostsTypeOK
<1>3. Waiting(p) = Hits(buffered, {p})
  BY DEF Waiting, Hits, PostsTypeOK
<1>4. /\ Count(buffered, {p}) \in Nat /\ Count(queue, Bears(p)) \in Nat
      /\ Count(frame, Bears(p)) \in Nat /\ Count(aside, Bears(p)) \in Nat
  BY CountNat DEF PostsTypeOK
<1>5. PlacesOf(p) = Count(buffered, {p}) + Count(queue, Bears(p)) + Count(frame, Bears(p))
                      + Count(aside, Bears(p))
  BY <1>2, <1>3 DEF PlacesOf, Count
<1> QED
  BY <1>4, <1>5 DEF Total, InLoop

LEMMA CountsNat ==
  ASSUME PostsTypeOK, NEW p \in Posts
  PROVE  /\ Count(buffered, {p}) \in Nat /\ Count(aside, Bears(p)) \in Nat
         /\ Count(queue, Bears(p)) \in Nat /\ Count(frame, Bears(p)) \in Nat /\ InLoop(p) \in Nat
<1>1. /\ Count(buffered, {p}) \in Nat /\ Count(aside, Bears(p)) \in Nat
      /\ Count(queue, Bears(p)) \in Nat /\ Count(frame, Bears(p)) \in Nat
  BY CountNat DEF PostsTypeOK
<1> QED
  BY <1>1 DEF InLoop

LEMMA Bearers ==
  ASSUME NEW p \in Posts, NEW x \in Posts, postEngine \in Nat
  PROVE  /\ One(Invocation(x), Bears(p)) = One(x, {p})
         /\ One(Incoming(x), Bears(p)) = One(x, {p})
         /\ One(ReloadAction, Bears(p)) = 0
<1>1. /\ Invocation(x) \in Actions /\ Incoming(x) \in Actions /\ ReloadAction \in Actions
      /\ Invocation(x).kind = "call" /\ ReloadAction.kind = "reload" /\ Incoming(x).kind = "post"
      /\ Invocation(x).post = x /\ Incoming(x).post = x
  BY DEF Invocation, Incoming, ReloadAction, Actions
<1>2. Invocation(x) # ReloadAction /\ Incoming(x) # ReloadAction
  BY <1>1
<1> QED
  BY <1>1, <1>2 DEF One, Bears, Spawnable

LEMMA CallsSpawnable ==
  ASSUME NEW x \in Posts, postEngine \in Nat
  PROVE  /\ Invocation(x) \in Spawnable /\ <<Invocation(x)>> \in Seq(Spawnable)
         /\ <<Invocation(x)>> \in Seq(Actions) /\ Incoming(x) \in Actions
<1>1. /\ Invocation(x) \in Actions /\ Incoming(x) \in Actions
      /\ Invocation(x).kind = "call"
  BY DEF Invocation, Incoming, Actions
<1> QED
  BY <1>1 DEF Spawnable

LEMMA BearsItsPost ==
  ASSUME NEW p \in Posts, NEW a \in Actions, a.kind \in {"post", "call"}
  PROVE  One(a, Bears(p)) = One(a.post, {p}) /\ a.post \in Posts
<1>1. a # ReloadAction
  BY DEF ReloadAction
<1> QED
  BY <1>1, BearsPost DEF One, Bears

LEMMA DrainedCounted ==
  ASSUME NEW q \in Seq(Posts), NEW p \in Posts, postEngine \in Nat
  PROVE  /\ [i \in 1 .. Len(q) |-> Invocation(q[i])] \in Seq(Spawnable)
         /\ Count([i \in 1 .. Len(q) |-> Invocation(q[i])], Bears(p)) = Count(q, {p})
<1> DEFINE d == [i \in 1 .. Len(q) |-> Invocation(q[i])]
<1>1. Len(q) \in Nat /\ \A i \in 1 .. Len(q) : q[i] \in Posts
  OBVIOUS
<1>2. \A i \in 1 .. Len(q) : /\ Invocation(q[i]) \in Spawnable
                             /\ Invocation(q[i]) \in Bears(p) <=> q[i] \in {p}
  BY <1>1, Bearers, CallsSpawnable DEF One
<1>3. d \in Seq(Spawnable) /\ Len(d) = Len(q)
  BY <1>1, <1>2
<1>4. Hits(d, Bears(p)) = Hits(q, {p})
  BY <1>2, <1>3 DEF Hits
<1> QED
  BY <1>3, <1>4 DEF Count

\* A turn of the scripts adds what it spawned.
LEMMA SpawnedCounts ==
  ASSUME PostsInv, NEW actions \in Seq(Actions), Spawned(actions), NEW p \in Posts
  PROVE  InLoop(p)' = InLoop(p) + Count(actions, Bears(p)) /\ postStage # "reloading"
<1> DEFINE B == Bears(p)
<1>1. queue \in Seq(Actions) /\ frame \in Seq(Actions)
  BY DEF PostsInv, PostsTypeOK
<1>2. /\ Count(frame \o actions, B) = Count(frame, B) + Count(actions, B)
      /\ Count(actions \o frame, B) = Count(actions, B) + Count(frame, B)
      /\ Count(queue \o actions, B) = Count(queue, B) + Count(actions, B)
  BY <1>1, CountConcat
<1>3. Count(queue, B) \in Nat /\ Count(frame, B) \in Nat /\ Count(actions, B) \in Nat
  BY <1>1, CountNat
<1>4. InLoop(p)' = Count(queue', B) + Count(frame', B)
  BY DEF InLoop, Bears, Actions, ReloadAction
<1>5. InLoop(p) = Count(queue, B) + Count(frame, B)
  BY DEF InLoop
<1> HIDE DEF B
<1>6. /\ \/ frame' = frame \o actions /\ queue' = queue
         \/ frame' = actions \o frame /\ queue' = queue
         \/ queue' = queue \o actions /\ frame' = frame
      /\ postStage # "reloading"
  BY DEF Spawned
<1>7. Count(queue', B) + Count(frame', B) = Count(queue, B) + Count(frame, B) + Count(actions, B)
  <2>1. CASE frame' = frame \o actions /\ queue' = queue
    BY <1>2, <1>3, <2>1
  <2>2. CASE frame' = actions \o frame /\ queue' = queue
    BY <1>2, <1>3, <2>2
  <2>3. CASE queue' = queue \o actions /\ frame' = frame
    BY <1>2, <1>3, <2>3
  <2> QED
    BY <1>6, <2>1, <2>2, <2>3
<1> QED
  BY <1>4, <1>5, <1>6, <1>7 DEF B

\* The loop takes the action it handles, and adds what that spawned.
LEMMA HandledCounts ==
  ASSUME PostsInv, Active, NEW actions \in Seq(Actions), Handled(actions), NEW p \in Posts
  PROVE  InLoop(p)' + One(Action, Bears(p)) = InLoop(p) + Count(actions, Bears(p))
<1> DEFINE B == Bears(p)
<1>1. queue \in Seq(Actions) /\ frame \in Seq(Actions)
  BY DEF PostsInv, PostsTypeOK
<1>2. Count(queue, B) \in Nat /\ Count(frame, B) \in Nat /\ Count(actions, B) \in Nat
  BY <1>1, CountNat
<1>3. InLoop(p)' = Count(queue', B) + Count(frame', B)
  BY DEF InLoop, Bears, Actions, ReloadAction
<1>4. InLoop(p) = Count(queue, B) + Count(frame, B)
  BY DEF InLoop
<1>5. One(Action, B) \in Nat
  BY DEF One
<1> HIDE DEF B
<1>6. CASE frame # <<>>
  <2>1. Count(frame, B) = One(Head(frame), B) + Count(Tail(frame), B)
    BY <1>1, <1>6, CountHead
  <2>2. Tail(frame) \in Seq(Actions)
    BY <1>1, <1>6
  <2>3. Count(actions \o Tail(frame), B) = Count(actions, B) + Count(Tail(frame), B)
    BY <2>2, CountConcat
  <2>4. Count(Tail(frame), B) \in Nat
    BY <2>2, CountNat
  <2>5. Action = Head(frame) /\ frame' = actions \o Tail(frame) /\ queue' = queue
    BY <1>6 DEF Action, Handled
  <2> QED
    BY <1>2, <1>3, <1>4, <1>5, <2>1, <2>3, <2>4, <2>5 DEF B
<1>7. CASE frame = <<>>
  <2>1. queue # <<>> /\ Action = Head(queue) /\ frame' = actions /\ queue' = Tail(queue)
    BY <1>7 DEF Active, Action, Handled
  <2>2. Count(queue, B) = One(Head(queue), B) + Count(Tail(queue), B)
    BY <1>1, <2>1, CountHead
  <2>3. Tail(queue) \in Seq(Actions)
    BY <1>1, <2>1
  <2>4. Count(Tail(queue), B) \in Nat /\ Count(frame, B) = 0
    BY <1>7, <2>3, CountNat, CountEmpty
  <2>5. InLoop(p)' = Count(Tail(queue), B) + Count(actions, B)
    BY <1>3, <2>1
  <2>6. InLoop(p) = One(Action, B) + Count(Tail(queue), B)
    BY <1>4, <1>5, <2>1, <2>2, <2>4
  <2> QED
    BY <1>2, <1>5, <2>4, <2>5, <2>6 DEF B
<1> QED
  BY <1>6, <1>7

\* The buffer gains the post, and gives up at most its oldest.
LEMMA BufferCounts ==
  ASSUME PostsInv, PostsAssumption, NEW p \in Posts, Buffer(p), Count(buffered, {p}) = 0,
         NEW t \in Posts
  PROVE  /\ t = p => Count(buffered', {t}) = 1 /\ fate'[t] = "underway"
         /\ t # p => \/ Count(buffered', {t}) = Count(buffered, {t}) /\ fate'[t] = fate[t]
                     \/ /\ Count(buffered, {t}) = Count(buffered', {t}) + 1
                        /\ fate'[t] = "overflowed"
<1>1. buffered \in Seq(Posts) /\ fate \in [Posts -> Fates] /\ Cap \in Nat \ {0}
  BY DEF PostsInv, PostsTypeOK, PostsAssumption
<1>2. Count(buffered, {t}) \in Nat
  BY <1>1, CountNat
<1>3. One(p, {t}) = IF t = p THEN 1 ELSE 0
  BY DEF One
<1>4. CASE Len(buffered) >= Cap
  <2> DEFINE h == Head(buffered)
             r == Tail(buffered)
  <2>1. buffered # <<>> /\ h \in Posts /\ r \in Seq(Posts)
    <3>1. buffered # <<>>
      BY <1>1, <1>4
    <3> QED
      BY <1>1, <3>1, HeadTailProperties
  <2>2. /\ Count(buffered, {t}) = One(h, {t}) + Count(r, {t})
        /\ Count(buffered, {p}) = One(h, {p}) + Count(r, {p})
        /\ Count(Append(r, p), {t}) = Count(r, {t}) + One(p, {t})
        /\ Count(r, {t}) \in Nat /\ Count(r, {p}) \in Nat
    <3>1. ASSUME NEW x \in Posts
          PROVE  Count(buffered, {x}) = One(h, {x}) + Count(r, {x}) /\ Count(r, {x}) \in Nat
      BY <1>1, <2>1, CountHead, CountNat
    <3> HIDE DEF h, r
    <3>2. Count(Append(r, p), {t}) = Count(r, {t}) + One(p, {t})
      BY <2>1, CountAppend
    <3> QED
      BY <3>1, <3>2
  <2>3. One(h, {t}) = (IF h = t THEN 1 ELSE 0) /\ One(h, {p}) = IF h = p THEN 1 ELSE 0
    BY DEF One
  <2>4. /\ buffered' = Append(r, p)
        /\ fate' = [fate EXCEPT ![h] = "overflowed", ![p] = "underway"]
    BY <1>4 DEF Buffer
  <2> HIDE DEF h, r
  <2>5. h # p /\ Count(r, {p}) = 0
    BY <2>2, <2>3
  <2>6. CASE t = p
    BY <1>1, <1>3, <2>2, <2>4, <2>5, <2>6
  <2>7. CASE t # p
    BY <1>1, <1>3, <2>1, <2>2, <2>3, <2>4, <2>5, <2>7
  <2> QED
    BY <2>6, <2>7
<1>5. CASE ~(Len(buffered) >= Cap)
  <2>1. buffered' = Append(buffered, p) /\ fate' = [fate EXCEPT ![p] = "underway"]
    BY <1>5 DEF Buffer, Fares
  <2>2. Count(Append(buffered, p), {t}) = Count(buffered, {t}) + One(p, {t})
    BY <1>1, CountAppend
  <2>3. Count(buffered', {t}) = Count(buffered, {t}) + One(p, {t})
    BY <2>1, <2>2
  <2>4. CASE t = p
    <3>1. Count(buffered, {t}) = 0 /\ One(p, {t}) = 1
      BY <1>3, <2>4
    <3>2. Count(buffered', {t}) = 1 /\ fate'[t] = "underway"
      BY <1>1, <2>1, <2>3, <2>4, <3>1
    <3> QED
      BY <2>4, <3>2
  <2>5. CASE t # p
    <3>1. Count(buffered', {t}) = Count(buffered, {t}) /\ fate'[t] = fate[t]
      BY <1>1, <1>2, <1>3, <2>1, <2>3, <2>5
    <3> QED
      BY <2>5, <3>1
  <2> QED
    BY <2>4, <2>5
<1> QED
  BY <1>4, <1>5

-----------------------------------------------------------------------------
\* Each step keeps every post in one place.

LEMMA FrameTidy ==
  ASSUME PostsInv, Tidy, NEW actions \in Seq(Spawnable),
         Spawned(actions) \/ (Active /\ Handled(actions))
  PROVE  frame' \in Seq(Spawnable) /\ actions \in Seq(Actions)
<1> DEFINE S == Spawnable
<1>1. frame \in Seq(S) /\ actions \in Seq(S)
  BY DEF Tidy
<1>2. actions \in Seq(Actions)
  <2>1. S \subseteq Actions
    BY DEF Spawnable
  <2> QED
    BY <1>1, <2>1
<1> HIDE DEF S
<1>3. frame \o actions \in Seq(S) /\ actions \o frame \in Seq(S)
  BY <1>1, ConcatProperties
<1>4. CASE Spawned(actions)
  <2>1. frame' \in Seq(S)
    BY <1>1, <1>3, <1>4 DEF Spawned
  <2> QED
    BY <1>2, <2>1 DEF S
<1>5. CASE Handled(actions)
  <2>1. CASE frame # <<>>
    <3>1. Tail(frame) \in Seq(S)
      BY <1>1, <2>1
    <3>2. actions \o Tail(frame) \in Seq(S)
      BY <1>1, <3>1, ConcatProperties
    <3> QED
      BY <1>2, <1>5, <2>1, <3>2 DEF Handled, S
  <2>2. CASE frame = <<>>
    BY <1>1, <1>2, <1>5, <2>2 DEF Handled, S
  <2> QED
    BY <2>1, <2>2
<1> QED
  BY <1>4, <1>5

LEMMA TidyNext == PostsInv /\ Tidy /\ [PostsNext]_postVars => Tidy'
<1> SUFFICES ASSUME PostsInv, Tidy, [PostsNext]_postVars PROVE Tidy'
  OBVIOUS
<1>a. /\ buffered \in Seq(Posts) /\ postEngine \in Nat /\ frame \in Seq(Spawnable)
      /\ implemented => buffered = <<>>
      /\ postStage # "reloading" => aside = <<>>
      /\ queue \in Seq(Actions) /\ <<>> \in Seq(Spawnable)
  BY DEF PostsInv, PostsTypeOK, Tidy
<1>1. ASSUME NEW p \in Posts, PostHere(p) PROVE Tidy'
  <2>1. CASE implemented /\ Spawned(<<Invocation(p)>>) /\ UNCHANGED buffered
    <3>1. <<Invocation(p)>> \in Seq(Spawnable)
      BY <1>a, CallsSpawnable
    <3>2. frame' \in Seq(Spawnable)
      BY <2>1, <3>1, FrameTidy
    <3> QED
      BY <1>1, <1>a, <2>1, <3>2 DEF PostHere, Tidy
  <2>2. CASE ~implemented /\ UNCHANGED <<queue, frame>>
    BY <1>1, <1>a, <2>2 DEF PostHere, Tidy
  <2> QED
    BY <1>1, <2>1, <2>2 DEF PostHere
<1>2. ASSUME NEW p \in Posts, PostFromElsewhere(p) PROVE Tidy'
  BY <1>2, <1>a DEF PostFromElsewhere, Tidy
<1>3. CASE Register
  <2> DEFINE drained == [i \in 1 .. Len(buffered) |-> Invocation(buffered[i])]
  <2>1. Spawned(drained) \/ UNCHANGED <<queue, frame>>
    BY <1>3 DEF Register
  <2>2. drained \in Seq(Spawnable)
    <3>1. \A i \in 1 .. Len(buffered) : Invocation(buffered[i]) \in Spawnable
      BY <1>a, CallsSpawnable
    <3> QED
      BY <1>a, <3>1
  <2> HIDE DEF drained
  <2>3. frame' \in Seq(Spawnable)
    BY <1>a, <2>1, <2>2, FrameTidy
  <2> QED
    BY <1>3, <1>a, <2>3 DEF Register, Tidy
<1>4. CASE AskReload
  <2>1. <<ReloadAction>> \in Seq(Spawnable)
    BY DEF Spawnable, Actions, ReloadAction
  <2>2. frame' \in Seq(Spawnable)
    BY <1>4, <2>1, FrameTidy DEF AskReload
  <2> QED
    BY <1>4, <1>a, <2>2 DEF AskReload, Tidy
<1>5. CASE DeliverPost
  <2>1. Action.post \in Posts
    BY <1>5, TheAction, BearsPost DEF DeliverPost
  <2>2. <<Invocation(Action.post)>> \in Seq(Spawnable)
    BY <1>a, <2>1, CallsSpawnable
  <2>3. frame' \in Seq(Spawnable)
    BY <1>5, <1>a, <2>2, FrameTidy DEF DeliverPost
  <2> QED
    BY <1>5, <1>a, <2>3 DEF DeliverPost, Tidy
<1>6. CASE RunImplementation
  <2>1. frame' \in Seq(Spawnable)
    BY <1>6, <1>a, FrameTidy DEF RunImplementation
  <2> QED
    BY <1>6, <1>a, <2>1 DEF RunImplementation, Tidy
<1>7. CASE StartReload
  BY <1>7, <1>a DEF StartReload, Tidy
<1>8. CASE PutBack
  BY <1>8, <1>a DEF PutBack, Tidy
<1>9. CASE BuildEngine
  BY <1>9, <1>a DEF BuildEngine, Tidy
<1>10. CASE Loaded
  BY <1>10, <1>a DEF Loaded, Tidy
<1>11. CASE UNCHANGED postVars
  BY <1>11, <1>a DEF postVars, Tidy
<1> QED
  BY <1>1, <1>2, <1>3, <1>4, <1>5, <1>6, <1>7, <1>8, <1>9, <1>10, <1>11 DEF PostsNext

\* A post to the own session is called, or waits.
LEMMA PostHereAccounted ==
  ASSUME PostsAssumption, PostsInv, AccountInv, NEW p \in Posts, PostHere(p)
  PROVE  Accounts'
<1> SUFFICES ASSUME NEW t \in Posts
             PROVE  Total(t)' = IF fate'[t] = "underway" THEN 1 ELSE 0
  BY DEF Accounts
<1>1. /\ PostsTypeOK /\ postEngine \in Nat /\ fate \in [Posts -> Fates]
      /\ fate[p] = "unsent" /\ Total(p) = 0 /\ UNCHANGED aside
      /\ Total(t) = IF fate[t] = "underway" THEN 1 ELSE 0
  BY DEF PostHere, PostsInv, PostsTypeOK, AccountInv, Accounts
<1>2. /\ Count(buffered, {t}) \in Nat /\ Count(aside, Bears(t)) \in Nat /\ InLoop(t) \in Nat
      /\ Count(buffered, {p}) \in Nat /\ Count(aside, Bears(p)) \in Nat /\ InLoop(p) \in Nat
  BY <1>1, CountsNat
<1>3. /\ Total(t)' = Count(buffered', {t}) + InLoop(t)' + Count(aside', Bears(t))
      /\ Total(t) = Count(buffered, {t}) + InLoop(t) + Count(aside, Bears(t))
      /\ Total(p) = Count(buffered, {p}) + InLoop(p) + Count(aside, Bears(p))
  BY DEF Total, Bears, Actions, ReloadAction
<1>4. CASE Spawned(<<Invocation(p)>>) /\ Fares(p, "underway") /\ UNCHANGED buffered
  <2>1. <<Invocation(p)>> \in Seq(Actions)
    BY <1>1, CallsSpawnable
  <2>2. InLoop(t)' = InLoop(t) + Count(<<Invocation(p)>>, Bears(t))
    BY <1>4, <2>1, SpawnedCounts
  <2>3. Count(<<Invocation(p)>>, Bears(t)) = IF t = p THEN 1 ELSE 0
    BY <1>1, CountOne, Bearers DEF One
  <2>4. Total(t)' = Total(t) + IF t = p THEN 1 ELSE 0
    BY <1>1, <1>2, <1>3, <1>4, <2>2, <2>3
  <2>5. fate'[t] = IF t = p THEN "underway" ELSE fate[t]
    BY <1>1, <1>4 DEF Fares
  <2> QED
    BY <1>1, <2>4, <2>5
<1>5. CASE Buffer(p) /\ UNCHANGED <<queue, frame>>
  <2>1. Count(buffered, {p}) = 0
    BY <1>1, <1>2, <1>3
  <2>2. /\ t = p => Count(buffered', {t}) = 1 /\ fate'[t] = "underway"
        /\ t # p => \/ Count(buffered', {t}) = Count(buffered, {t}) /\ fate'[t] = fate[t]
                    \/ /\ Count(buffered, {t}) = Count(buffered', {t}) + 1
                       /\ fate'[t] = "overflowed"
    BY <1>5, <2>1, BufferCounts
  <2>3. InLoop(t)' = InLoop(t)
    BY <1>5 DEF InLoop, Bears, Actions, ReloadAction
  <2>4. Count(buffered', {t}) \in Nat
    <3>1. buffered' \in Seq(Posts)
      BY <1>5, BufferTyped
    <3> QED
      BY <3>1, CountNat
  <2>5. CASE t = p
    <3>1. InLoop(t) = 0 /\ Count(aside, Bears(t)) = 0
      BY <1>1, <1>2, <1>3, <2>5
    <3>2. Total(t)' = 1
      BY <1>1, <1>3, <2>2, <2>3, <2>5, <3>1
    <3> QED
      BY <2>2, <2>5, <3>2
  <2>6. CASE t # p
    <3>1. CASE Count(buffered', {t}) = Count(buffered, {t}) /\ fate'[t] = fate[t]
      BY <1>1, <1>3, <2>3, <3>1
    <3>2. CASE Count(buffered, {t}) = Count(buffered', {t}) + 1 /\ fate'[t] = "overflowed"
      <4>1. Total(t) = Total(t)' + 1 /\ Total(t)' \in Nat
        BY <1>1, <1>2, <1>3, <2>3, <2>4, <3>2
      <4> QED
        BY <1>1, <3>2, <4>1
    <3> QED
      BY <2>2, <2>6, <3>1, <3>2
  <2> QED
    BY <2>5, <2>6
<1> QED
  BY <1>4, <1>5 DEF PostHere

LEMMA FromElsewhereAccounted ==
  ASSUME PostsInv, AccountInv, NEW p \in Posts, PostFromElsewhere(p)
  PROVE  Accounts'
<1> SUFFICES ASSUME NEW t \in Posts
             PROVE  Total(t)' = IF fate'[t] = "underway" THEN 1 ELSE 0
  BY DEF Accounts
<1>1. /\ PostsTypeOK /\ postEngine \in Nat /\ fate \in [Posts -> Fates] /\ queue \in Seq(Actions)
      /\ fate[p] = "unsent" /\ Total(p) = 0
      /\ Total(t) = IF fate[t] = "underway" THEN 1 ELSE 0
  BY DEF PostFromElsewhere, PostsInv, PostsTypeOK, AccountInv, Accounts
<1>2. /\ Count(buffered, {t}) \in Nat /\ Count(aside, Bears(t)) \in Nat
      /\ Count(queue, Bears(t)) \in Nat /\ Count(frame, Bears(t)) \in Nat
  BY <1>1, CountsNat
<1>3. /\ queue' = Append(queue, Incoming(p)) /\ UNCHANGED <<buffered, frame, aside>>
      /\ fate'[t] = IF t = p THEN "underway" ELSE fate[t]
  BY <1>1 DEF PostFromElsewhere, Fares
<1>4. Count(queue', Bears(t)) = Count(queue, Bears(t)) + IF t = p THEN 1 ELSE 0
  <2>1. Incoming(p) \in Actions /\ One(Incoming(p), Bears(t)) = One(p, {t})
    BY <1>1, Bearers, CallsSpawnable
  <2>2. Count(Append(queue, Incoming(p)), Bears(t)) = Count(queue, Bears(t)) + One(p, {t})
    BY <1>1, <2>1, CountAppend
  <2>3. One(p, {t}) = IF t = p THEN 1 ELSE 0
    BY DEF One
  <2> QED
    BY <1>3, <2>2, <2>3
<1>5. /\ Total(t)' = Count(buffered', {t}) + (Count(queue', Bears(t)) + Count(frame', Bears(t)))
                       + Count(aside', Bears(t))
      /\ Total(t) = Count(buffered, {t}) + (Count(queue, Bears(t)) + Count(frame, Bears(t)))
                      + Count(aside, Bears(t))
  BY DEF Total, InLoop, Bears, Actions, ReloadAction
<1>6. Total(t)' = Total(t) + IF t = p THEN 1 ELSE 0
  BY <1>2, <1>3, <1>4, <1>5
<1> QED
  BY <1>1, <1>3, <1>6

\* A registration turns the posts that wait into calls, or drops them all.
LEMMA RegisterAccounted ==
  ASSUME PostsInv, AccountInv, Register
  PROVE  Accounts'
<1> DEFINE drained == [i \in 1 .. Len(buffered) |-> Invocation(buffered[i])]
<1> SUFFICES ASSUME NEW t \in Posts
             PROVE  Total(t)' = IF fate'[t] = "underway" THEN 1 ELSE 0
  BY DEF Accounts
<1>1. /\ PostsTypeOK /\ postEngine \in Nat /\ fate \in [Posts -> Fates]
      /\ buffered \in Seq(Posts)
      /\ Total(t) = IF fate[t] = "underway" THEN 1 ELSE 0
  BY DEF PostsInv, PostsTypeOK, AccountInv, Accounts
<1>2. /\ Count(buffered, {t}) \in Nat /\ Count(aside, Bears(t)) \in Nat /\ InLoop(t) \in Nat
  BY <1>1, CountsNat
<1>3. /\ Total(t)' = Count(buffered', {t}) + InLoop(t)' + Count(aside', Bears(t))
      /\ Total(t) = Count(buffered, {t}) + InLoop(t) + Count(aside, Bears(t))
  BY DEF Total, Bears, Actions, ReloadAction
<1>4. Count(buffered', {t}) = 0 /\ UNCHANGED aside
  BY CountEmpty DEF Register
<1>5. CASE Spawned(drained) /\ UNCHANGED fate
  <2>1. drained \in Seq(Spawnable) /\ Count(drained, Bears(t)) = Count(buffered, {t})
    BY <1>1, DrainedCounted
  <2> HIDE DEF drained
  <2>2. drained \in Seq(Actions)
    BY <1>5, <2>1, FrameTidy DEF AccountInv
  <2>3. InLoop(t)' = InLoop(t) + Count(drained, Bears(t))
    BY <1>5, <2>2, SpawnedCounts
  <2> QED
    BY <1>1, <1>2, <1>3, <1>4, <1>5, <2>1, <2>3
<1>6. CASE /\ UNCHANGED <<queue, frame>>
           /\ fate' = [p \in Posts |->
                IF \E i \in DOMAIN buffered : buffered[i] = p THEN "dropped" ELSE fate[p]]
  <2>1. InLoop(t)' = InLoop(t)
    BY <1>6 DEF InLoop, Bears, Actions, ReloadAction
  <2>2. Count(buffered, {t}) = 0 <=> ~\E i \in DOMAIN buffered : buffered[i] = t
    <3>1. Count(buffered, {t}) = 0 <=> \A i \in 1 .. Len(buffered) : buffered[i] \notin {t}
      BY <1>1, CountNat
    <3> QED
      BY <1>1, <3>1
  <2>3. CASE Count(buffered, {t}) = 0
    <3>1. fate'[t] = fate[t]
      BY <1>6, <2>2, <2>3
    <3> QED
      BY <1>1, <1>2, <1>3, <1>4, <2>1, <2>3, <3>1
  <2>4. CASE Count(buffered, {t}) # 0
    <3>1. fate'[t] = "dropped"
      BY <1>6, <2>2, <2>4
    <3>2. InLoop(t) = 0 /\ Count(aside, Bears(t)) = 0
      BY <1>1, <1>2, <1>3, <2>4
    <3> QED
      BY <1>3, <1>4, <2>1, <3>1, <3>2
  <2> QED
    BY <2>3, <2>4
<1> QED
  BY <1>5, <1>6 DEF Register

LEMMA AskAccounted ==
  ASSUME PostsInv, AccountInv, AskReload
  PROVE  Accounts'
<1> SUFFICES ASSUME NEW t \in Posts
             PROVE  Total(t)' = IF fate'[t] = "underway" THEN 1 ELSE 0
  BY DEF Accounts
<1>1. PostsTypeOK /\ postEngine \in Nat /\ Total(t) = IF fate[t] = "underway" THEN 1 ELSE 0
  BY DEF PostsInv, PostsTypeOK, AccountInv, Accounts
<1>2. InLoop(t) \in Nat
  BY <1>1, CountsNat
<1>3. /\ Total(t)' = Count(buffered', {t}) + InLoop(t)' + Count(aside', Bears(t))
      /\ Total(t) = Count(buffered, {t}) + InLoop(t) + Count(aside, Bears(t))
  BY DEF Total, Bears, Actions, ReloadAction
<1>4. <<ReloadAction>> \in Seq(Actions) /\ Count(<<ReloadAction>>, Bears(t)) = 0
  <2>1. ReloadAction \in Actions /\ One(ReloadAction, Bears(t)) = 0
    BY DEF Actions, One, Bears
  <2> QED
    BY <2>1, CountOne
<1>5. InLoop(t)' = InLoop(t) + Count(<<ReloadAction>>, Bears(t))
  BY <1>4, SpawnedCounts DEF AskReload
<1> QED
  BY <1>1, <1>2, <1>3, <1>4, <1>5 DEF AskReload

\* A delivery makes the post a call, or has it wait.
LEMMA DeliverAccounted ==
  ASSUME PostsAssumption, PostsInv, AccountInv, DeliverPost
  PROVE  Accounts'
<1> SUFFICES ASSUME NEW t \in Posts
             PROVE  Total(t)' = IF fate'[t] = "underway" THEN 1 ELSE 0
  BY DEF Accounts
<1>1. /\ PostsTypeOK /\ postEngine \in Nat /\ fate \in [Posts -> Fates]
      /\ Active /\ Action \in Actions /\ Action.kind = "post" /\ UNCHANGED aside
  BY TheAction DEF DeliverPost, PostsInv, PostsTypeOK
<1>a. PICK p \in Posts : p = Action.post
  BY <1>1, BearsItsPost
<1>2. One(Action, Bears(t)) = One(p, {t}) /\ One(Action, Bears(p)) = One(p, {p})
  BY <1>1, <1>a, BearsItsPost
<1>3. /\ Count(buffered, {t}) \in Nat /\ Count(aside, Bears(t)) \in Nat /\ InLoop(t) \in Nat
      /\ Count(buffered, {p}) \in Nat /\ Count(aside, Bears(p)) \in Nat /\ InLoop(p) \in Nat
  BY <1>1, <1>2, CountsNat
<1>4. /\ Total(t)' = Count(buffered', {t}) + InLoop(t)' + Count(aside', Bears(t))
      /\ Total(t) = Count(buffered, {t}) + InLoop(t) + Count(aside, Bears(t))
      /\ Total(p) = Count(buffered, {p}) + InLoop(p) + Count(aside, Bears(p))
  BY DEF Total, Bears, Actions, ReloadAction
<1>5. /\ Total(t) = IF fate[t] = "underway" THEN 1 ELSE 0
      /\ Total(p) = IF fate[p] = "underway" THEN 1 ELSE 0
  BY <1>2 DEF AccountInv, Accounts
<1>6. One(p, {t}) = (IF t = p THEN 1 ELSE 0) /\ One(p, {p}) = 1
  BY DEF One
<1>7. CASE Handled(<<Invocation(p)>>) /\ UNCHANGED <<buffered, fate>>
  <2>1. <<Invocation(p)>> \in Seq(Actions)
    BY <1>1, <1>2, CallsSpawnable
  <2>2. InLoop(t)' + One(Action, Bears(t)) = InLoop(t) + Count(<<Invocation(p)>>, Bears(t))
    BY <1>1, <1>7, <2>1, HandledCounts
  <2>3. Count(<<Invocation(p)>>, Bears(t)) = One(p, {t})
    BY <1>1, <1>2, CountOne, Bearers
  <2>4. InLoop(t)' \in Nat
    <3>1. queue' \in Seq(Actions) /\ frame' \in Seq(Actions)
      <4>1. <<Invocation(p)>> \in Seq(OfEngine(postEngine))
        BY <1>1, <1>2, KindsApart
      <4> QED
        BY <1>1, <1>7, <4>1, HandledClean, OfEngineActions
    <3>2. Count(queue', Bears(t)) \in Nat /\ Count(frame', Bears(t)) \in Nat
      BY <3>1, CountNat
    <3> QED
      BY <3>2 DEF InLoop, Bears, Actions, ReloadAction
  <2>5. InLoop(t)' = InLoop(t)
    BY <1>2, <1>3, <1>6, <2>2, <2>3, <2>4
  <2> QED
    BY <1>1, <1>4, <1>5, <1>7, <2>5
<1>8. CASE Handled(<<>>) /\ Buffer(p)
  <2>1. /\ InLoop(t)' + One(p, {t}) = InLoop(t)
        /\ InLoop(p)' + 1 = InLoop(p)
    <3>1. <<>> \in Seq(Actions) /\ \A S : Count(<<>>, S) = 0
      BY CountEmpty
    <3>2. ASSUME NEW x \in Posts PROVE InLoop(x)' + One(Action, Bears(x)) = InLoop(x) + 0
      BY <1>1, <1>8, <3>1, HandledCounts
    <3> QED
      BY <1>2, <1>3, <1>6, <3>2
  <2>2. InLoop(t)' \in Nat /\ InLoop(p)' \in Nat
    <3>1. queue' \in Seq(Actions) /\ frame' \in Seq(Actions)
      <4>1. <<>> \in Seq(OfEngine(postEngine))
        OBVIOUS
      <4> QED
        BY <1>1, <1>8, <4>1, HandledClean, OfEngineActions
    <3>2. /\ Count(queue', Bears(t)) \in Nat /\ Count(frame', Bears(t)) \in Nat
          /\ Count(queue', Bears(p)) \in Nat /\ Count(frame', Bears(p)) \in Nat
      BY <3>1, CountNat
    <3>3. /\ InLoop(t)' = Count(queue', Bears(t)) + Count(frame', Bears(t))
          /\ InLoop(p)' = Count(queue', Bears(p)) + Count(frame', Bears(p))
      BY DEF InLoop, Bears, Actions, ReloadAction
    <3> QED
      BY <3>2, <3>3
  <2>3. Count(buffered, {p}) = 0 /\ InLoop(p) = 1 /\ Count(aside, Bears(p)) = 0
    <3>1. InLoop(p) >= 1
      BY <1>3, <2>1, <2>2
    <3>2. Total(p) \in {0, 1}
      BY <1>5
    <3> QED
      BY <1>3, <1>4, <3>1, <3>2
  <2>4. /\ t = p => Count(buffered', {t}) = 1 /\ fate'[t] = "underway"
        /\ t # p => \/ Count(buffered', {t}) = Count(buffered, {t}) /\ fate'[t] = fate[t]
                    \/ /\ Count(buffered, {t}) = Count(buffered', {t}) + 1
                       /\ fate'[t] = "overflowed"
    BY <1>2, <1>8, <2>3, BufferCounts
  <2>5. Count(buffered', {t}) \in Nat
    <3>1. buffered' \in Seq(Posts)
      BY <1>2, <1>8, BufferTyped
    <3> QED
      BY <3>1, CountNat
  <2>6. CASE t = p
    BY <1>1, <1>4, <2>1, <2>2, <2>3, <2>4, <2>6
  <2>7. CASE t # p
    <3>1. InLoop(t)' = InLoop(t)
      BY <1>3, <1>6, <2>1, <2>2, <2>7
    <3>2. CASE Count(buffered', {t}) = Count(buffered, {t}) /\ fate'[t] = fate[t]
      BY <1>1, <1>4, <1>5, <3>1, <3>2
    <3>3. CASE Count(buffered, {t}) = Count(buffered', {t}) + 1 /\ fate'[t] = "overflowed"
      <4>1. Total(t) = Total(t)' + 1 /\ Total(t)' \in Nat
        BY <1>1, <1>3, <1>4, <2>5, <3>1, <3>3
      <4> QED
        BY <1>5, <3>3, <4>1
    <3> QED
      BY <2>4, <2>7, <3>2, <3>3
  <2> QED
    BY <2>6, <2>7
<1> QED
  BY <1>a, <1>7, <1>8 DEF DeliverPost

LEMMA RunAccounted ==
  ASSUME PostsInv, AccountInv, RunImplementation
  PROVE  Accounts'
<1> SUFFICES ASSUME NEW t \in Posts
             PROVE  Total(t)' = IF fate'[t] = "underway" THEN 1 ELSE 0
  BY DEF Accounts
<1>1. /\ PostsTypeOK /\ postEngine \in Nat /\ fate \in [Posts -> Fates]
      /\ Active /\ Action \in Actions /\ Action.kind = "call" /\ UNCHANGED <<aside, buffered>>
  BY TheAction DEF RunImplementation, PostsInv, PostsTypeOK
<1>2. PICK p \in Posts : p = Action.post
  BY <1>1, BearsItsPost
<1>3. One(Action, Bears(t)) = IF t = p THEN 1 ELSE 0
  BY <1>1, <1>2, BearsItsPost DEF One
<1>4. /\ Count(buffered, {t}) \in Nat /\ Count(aside, Bears(t)) \in Nat /\ InLoop(t) \in Nat
  BY <1>1, CountsNat
<1>5. /\ Total(t)' = Count(buffered', {t}) + InLoop(t)' + Count(aside', Bears(t))
      /\ Total(t) = Count(buffered, {t}) + InLoop(t) + Count(aside, Bears(t))
  BY DEF Total, Bears, Actions, ReloadAction
<1>6. Total(t) = IF fate[t] = "underway" THEN 1 ELSE 0
  BY DEF AccountInv, Accounts
<1>7. InLoop(t)' \in Nat
  <2>1. <<>> \in Seq(OfEngine(postEngine))
    OBVIOUS
  <2>2. queue' \in Seq(Actions) /\ frame' \in Seq(Actions)
    BY <1>1, <2>1, HandledClean, OfEngineActions DEF RunImplementation
  <2>3. Count(queue', Bears(t)) \in Nat /\ Count(frame', Bears(t)) \in Nat
    BY <2>2, CountNat
  <2> QED
    BY <2>3 DEF InLoop, Bears, Actions, ReloadAction
<1>8. InLoop(t)' + One(Action, Bears(t)) = InLoop(t)
  <2>1. <<>> \in Seq(Actions) /\ Count(<<>>, Bears(t)) = 0
    BY CountEmpty
  <2>2. InLoop(t)' + One(Action, Bears(t)) = InLoop(t) + 0
    BY <1>1, <2>1, HandledCounts DEF RunImplementation
  <2> QED
    BY <1>4, <2>2
<1>9. fate'[t] = IF t = p THEN "heard" ELSE fate[t]
  BY <1>1, <1>2 DEF RunImplementation, Fares
<1>10. Total(t) = Total(t)' + (IF t = p THEN 1 ELSE 0) /\ Total(t)' \in Nat
  BY <1>1, <1>3, <1>4, <1>5, <1>7, <1>8
<1>11. CASE t = p
  <2>1. Total(t)' = 0
    BY <1>6, <1>10, <1>11
  <2> QED
    BY <1>9, <1>11, <2>1
<1>12. CASE t # p
  BY <1>6, <1>9, <1>10, <1>12
<1> QED
  BY <1>11, <1>12

\* The frame that a reload discards holds calls and reloads only.
LEMMA FrameCarries ==
  ASSUME Tidy, NEW t \in Posts
  PROVE  t \in Carried(frame) <=> Count(frame, Bears(t)) # 0
<1>1. frame \in Seq(Spawnable) /\ frame \in Seq(Actions)
  <2>1. Spawnable \subseteq Actions
    BY DEF Spawnable
  <2> QED
    BY <2>1 DEF Tidy
<1>2. Count(frame, Bears(t)) = 0 <=> \A i \in 1 .. Len(frame) : frame[i] \notin Bears(t)
  BY <1>1, CountNat
<1>3. ASSUME NEW i \in 1 .. Len(frame)
      PROVE  frame[i] \in Bears(t) <=> NamesEngine(frame[i]) /\ frame[i].post = t
  <2>1. frame[i] \in Spawnable
    BY <1>1
  <2>2. frame[i] # ReloadAction <=> frame[i].kind = "call"
    BY <2>1 DEF Spawnable, Actions, ReloadAction
  <2> QED
    BY <2>1, <2>2 DEF Bears, Spawnable, NamesEngine
<1>4. t \in Carried(frame) <=>
        \E i \in 1 .. Len(frame) : NamesEngine(frame[i]) /\ frame[i].post = t
  BY <1>1 DEF Carried
<1> QED
  BY <1>2, <1>3, <1>4

\* A reload takes the inbox aside and gives up what the frame carries.
LEMMA StartAccounted ==
  ASSUME PostsInv, AccountInv, StartReload
  PROVE  Accounts'
<1> SUFFICES ASSUME NEW t \in Posts
             PROVE  Total(t)' = IF fate'[t] = "underway" THEN 1 ELSE 0
  BY DEF Accounts
<1>1. /\ PostsTypeOK /\ fate \in [Posts -> Fates]
      /\ queue \in Seq(Actions) /\ frame \in Seq(Actions)
      /\ Active /\ Action = ReloadAction /\ postStage = "running"
      /\ aside = <<>> /\ queue' = <<>> /\ frame' = <<>> /\ buffered' = buffered
      /\ aside' = IF frame # <<>> THEN queue ELSE Tail(queue)
  BY DEF StartReload, Active, PostsInv, PostsTypeOK, AccountInv, Tidy
<1>2. /\ Count(buffered, {t}) \in Nat /\ Count(queue, Bears(t)) \in Nat
      /\ Count(frame, Bears(t)) \in Nat
      /\ Count(aside, Bears(t)) = 0 /\ Count(queue', Bears(t)) = 0 /\ Count(frame', Bears(t)) = 0
  BY <1>1, CountsNat, CountEmpty
<1>3. /\ Total(t)' = Count(buffered', {t}) + (Count(queue', Bears(t)) + Count(frame', Bears(t)))
                       + Count(aside', Bears(t))
      /\ Total(t) = Count(buffered, {t}) + (Count(queue, Bears(t)) + Count(frame, Bears(t)))
                      + Count(aside, Bears(t))
  BY DEF Total, InLoop, Bears, Actions, ReloadAction
<1>4. Total(t) = IF fate[t] = "underway" THEN 1 ELSE 0
  BY DEF AccountInv, Accounts
<1>5. Count(aside', Bears(t)) = Count(queue, Bears(t))
  <2>1. CASE frame # <<>>
    BY <1>1, <2>1
  <2>2. CASE frame = <<>>
    <3>1. queue # <<>> /\ Head(queue) = ReloadAction
      BY <1>1, <2>2 DEF Active, Action
    <3>2. Count(queue, Bears(t)) = One(Head(queue), Bears(t)) + Count(Tail(queue), Bears(t))
      BY <1>1, <3>1, CountHead
    <3>3. One(Head(queue), Bears(t)) = 0
      BY <3>1 DEF One, Bears
    <3>4. Count(Tail(queue), Bears(t)) \in Nat
      <4>1. Tail(queue) \in Seq(Actions)
        BY <1>1, <3>1
      <4> QED
        BY <4>1, CountNat
    <3>5. Count(queue, Bears(t)) = Count(Tail(queue), Bears(t))
      BY <3>2, <3>3, <3>4
    <3> QED
      BY <1>1, <2>2, <3>5
  <2> QED
    BY <2>1, <2>2
<1>6. fate'[t] = IF t \in Carried(frame) THEN "purged" ELSE fate[t]
  BY DEF StartReload
<1>7. t \in Carried(frame) <=> Count(frame, Bears(t)) # 0
  BY FrameCarries DEF AccountInv
<1>8. Total(t)' = Count(buffered, {t}) + Count(queue, Bears(t))
  BY <1>1, <1>2, <1>3, <1>5
<1>9. Total(t) = Total(t)' + Count(frame, Bears(t)) /\ Total(t)' \in Nat
  BY <1>2, <1>3, <1>8
<1>10. CASE t \in Carried(frame)
  <2>1. Total(t)' = 0
    BY <1>2, <1>4, <1>7, <1>9, <1>10
  <2> QED
    BY <1>6, <1>10, <2>1
<1>11. CASE t \notin Carried(frame)
  BY <1>4, <1>6, <1>7, <1>9, <1>11
<1> QED
  BY <1>10, <1>11

\* What names the engine is given up, the rest goes back into the inbox.
LEMMA PutBackAccounted ==
  ASSUME PostsInv, AccountInv, PutBack
  PROVE  Accounts'
<1> SUFFICES ASSUME NEW t \in Posts
             PROVE  Total(t)' = IF fate'[t] = "underway" THEN 1 ELSE 0
  BY DEF Accounts
<1>1. /\ PostsTypeOK /\ fate \in [Posts -> Fates]
      /\ queue \in Seq(Actions) /\ aside \in Seq(Actions) /\ aside # <<>>
      /\ aside' = Tail(aside) /\ UNCHANGED <<buffered, frame>>
  BY DEF PutBack, PostsInv, PostsTypeOK
<1> DEFINE B == Bears(t)
<1>2. /\ Total(t)' = Count(buffered', {t}) + (Count(queue', B) + Count(frame', B)) + Count(aside', B)
      /\ Total(t) = Count(buffered, {t}) + (Count(queue, B) + Count(frame, B)) + Count(aside, B)
  BY DEF Total, InLoop, Bears, Actions, ReloadAction
<1>3. Head(aside) \in Actions /\ Tail(aside) \in Seq(Actions)
  BY <1>1
<1>4. /\ Count(buffered, {t}) \in Nat /\ Count(queue, B) \in Nat /\ Count(frame, B) \in Nat
      /\ Count(aside, B) = One(Head(aside), B) + Count(Tail(aside), B)
      /\ Count(Tail(aside), B) \in Nat
  BY <1>1, <1>3, CountsNat, CountHead, CountNat
<1>5. Total(t) = IF fate[t] = "underway" THEN 1 ELSE 0
  BY DEF AccountInv, Accounts
<1>6. CASE NamesEngine(Head(aside))
  <2>1. PICK p \in Posts : p = Head(aside).post /\ One(Head(aside), B) = One(p, {t})
    BY <1>3, <1>6, BearsItsPost DEF NamesEngine
  <2>2. One(Head(aside), B) = IF t = p THEN 1 ELSE 0
    BY <2>1 DEF One
  <2>3. queue' = queue /\ fate'[t] = IF t = p THEN "purged" ELSE fate[t]
    BY <1>1, <1>6, <2>1 DEF PutBack, Fares
  <2> HIDE DEF B
  <2>4. Total(t) = Total(t)' + (IF t = p THEN 1 ELSE 0) /\ Total(t)' \in Nat
    BY <1>1, <1>2, <1>4, <2>2, <2>3
  <2>5. CASE t = p
    <3>1. Total(t)' = 0
      BY <1>5, <2>4, <2>5
    <3> QED
      BY <2>3, <2>5, <3>1
  <2>6. CASE t # p
    BY <1>5, <2>3, <2>4, <2>6
  <2> QED
    BY <2>5, <2>6
<1>7. CASE ~NamesEngine(Head(aside))
  <2>1. queue' = Append(queue, Head(aside)) /\ fate' = fate
    BY <1>7 DEF PutBack
  <2>2. Count(queue', B) = Count(queue, B) + One(Head(aside), B)
    BY <1>1, <1>3, <2>1, CountAppend
  <2>3. One(Head(aside), B) \in Nat
    BY DEF One
  <2> HIDE DEF B
  <2>4. Total(t)' = Total(t)
    BY <1>1, <1>2, <1>4, <2>2, <2>3
  <2> QED
    BY <1>5, <2>1, <2>4
<1> QED
  BY <1>6, <1>7

LEMMA AccountNext ==
  PostsAssumption /\ PostsInv /\ AccountInv /\ [PostsNext]_postVars => AccountInv'
<1> SUFFICES ASSUME PostsAssumption, PostsInv, AccountInv, [PostsNext]_postVars
             PROVE  AccountInv'
  OBVIOUS
<1>1. Tidy'
  BY TidyNext DEF AccountInv
<1>2. CASE BuildEngine \/ Loaded \/ UNCHANGED postVars
  <2>1. UNCHANGED <<buffered, queue, frame, aside, fate>>
    BY <1>2 DEF BuildEngine, Loaded, postVars
  <2>2. Accounts'
    BY <2>1 DEF AccountInv, Accounts, Total, InLoop, Bears, Actions, ReloadAction
  <2> QED
    BY <1>1, <2>2 DEF AccountInv
<1>3. ASSUME ~(BuildEngine \/ Loaded \/ UNCHANGED postVars) PROVE Accounts'
  BY <1>3, PostHereAccounted, FromElsewhereAccounted, RegisterAccounted, AskAccounted,
     DeliverAccounted, RunAccounted, StartAccounted, PutBackAccounted DEF PostsNext
<1> QED
  BY <1>1, <1>2, <1>3 DEF AccountInv

LEMMA AccountInit == PostsInit => AccountInv
<1> SUFFICES ASSUME PostsInit PROVE AccountInv
  OBVIOUS
<1>1. buffered = <<>> /\ queue = <<>> /\ frame = <<>> /\ aside = <<>>
  BY DEF PostsInit
<1>2. ASSUME NEW p \in Posts PROVE Total(p) = 0 /\ fate[p] = "unsent"
  BY <1>1, CountEmpty DEF Total, InLoop, PostsInit
<1>3. Tidy
  <2>1. <<>> \in Seq(Spawnable)
    OBVIOUS
  <2> QED
    BY <1>1, <2>1 DEF Tidy
<1> QED
  BY <1>2, <1>3 DEF AccountInv, Accounts

\* A post is in one place or has one fate, whatever registrations, overflows
\* and reloads come between: none is doubled, and none lost without a trace.
THEOREM PostsKept == PostsSpec => []PostsAccounted
<1>1. PostsSpec => []AccountInv
  BY PostsAssumption, PostsInvHolds, AccountInit, AccountNext, PTL DEF PostsSpec
<1>2. PostsInv /\ AccountInv => PostsAccounted
  BY PlacesCounted DEF PostsInv, AccountInv, Accounts, Tidy, PostsAccounted
<1> QED
  BY <1>1, <1>2, PostsInvHolds, PTL

-----------------------------------------------------------------------------
\* The calls: what is known of a broker and of the messages under way.

Up(s) == stage[s] \in {"running", "expiring"}

\* Calls and invocations are told apart by the numbers they were given.
Distinct(b) ==
  /\ IsFiniteSet(b.pending) /\ IsFiniteSet(b.invocations)
  /\ \A p \in b.pending : p.id < b.nextId
  /\ \A p, q \in b.pending : p.id = q.id => p = q
  /\ \A v \in b.invocations : v.ticket < b.nextId
  /\ \A v, w \in b.invocations :
       v.ticket = w.ticket \/ Key(v.req) = Key(w.req) => v = w

CallEntry(r) == [at |-> r.deadline, of |-> "call", id |-> r.id]
InvocationEntry(v) == [at |-> v.req.deadline, of |-> "invocation", id |-> v.ticket]

Tracked(b) ==
  /\ b.outgoing = Cardinality(b.pending)
  /\ b.incoming = Cardinality(b.invocations)
  /\ b.incomingKeys = {<<Key(v.req), v.ticket>> : v \in b.invocations}
  /\ b.deadlines = {CallEntry(r) : r \in b.pending} \cup {InvocationEntry(v) : v \in b.invocations}
  /\ b.watch = NextDeadline(b)

Brokered ==
  \A s \in Sessions :
    /\ Distinct(broker[s])
    /\ Up(s) => Tracked(broker[s])
    /\ \A r \in broker[s].pending : r.from = s /\ r.heap = engine[s]
    /\ \A i \in awaiting[s] : i < broker[s].nextId

\* What a session does in each stage with its queues.
Staged ==
  \A s \in Sessions :
    /\ ~Up(s) => expansion[s] = <<>>
    /\ stage[s] # "reloading" => kept[s] = <<>>
    /\ ~Live(s) => inbox[s] = <<>>

Mail(q) == {q[i] : i \in DOMAIN q}
Waits(s) == Mail(inbox[s]) \cup Mail(expansion[s]) \cup Mail(kept[s])

\* A cancellation names a call that its caller waits for no longer.
CancelSpent(m) ==
  LET b == broker[m.req.from] IN
  m.req.id < b.nextId /\ \A p \in b.pending : Key(p) # Key(m.req)

\* An answer is to the request that its invocation serves.
AnswerMatches(s, m) ==
  LET b == broker[s] IN
  m.ticket < b.nextId /\ \A v \in b.invocations : v.ticket = m.ticket => v.req = m.req

Posted ==
  \A s \in Sessions :
    /\ \A m \in Mail(expansion[s]) :
         m.kind \in {"forward", "settle", "invoke", "answer", "reload"}
    /\ \A m \in Mail(inbox[s]) \cup Mail(kept[s]) : m.kind # "settle"
    /\ \A m \in Waits(s) :
         /\ m.kind = "cancel" => CancelSpent(m)
         /\ m.kind = "answer" => AnswerMatches(s, m)

CallsInv == CallsTypeOK /\ Brokered /\ Staged /\ Posted

-----------------------------------------------------------------------------
\* The messages in a queue.

LEMMA MailEmpty == Mail(<<>>) = {}
BY DEF Mail

LEMMA MailAppend ==
  ASSUME NEW X, NEW q \in Seq(X), NEW m \in X
  PROVE  Mail(Append(q, m)) = Mail(q) \cup {m}
<1>1. /\ DOMAIN Append(q, m) = 1 .. Len(q) + 1 /\ DOMAIN q = 1 .. Len(q)
      /\ \A i \in 1 .. Len(q) : Append(q, m)[i] = q[i]
      /\ Append(q, m)[Len(q) + 1] = m
      /\ Len(q) \in Nat
  OBVIOUS
<1>2. ASSUME NEW x \in Mail(Append(q, m)) PROVE x \in Mail(q) \cup {m}
  <2>1. PICK i \in DOMAIN Append(q, m) : x = Append(q, m)[i]
    BY DEF Mail
  <2>2. CASE i \in 1 .. Len(q)
    BY <1>1, <2>1, <2>2 DEF Mail
  <2>3. CASE i = Len(q) + 1
    BY <1>1, <2>1, <2>3
  <2> QED
    BY <1>1, <2>1, <2>2, <2>3
<1>3. ASSUME NEW x \in Mail(q) PROVE x \in Mail(Append(q, m))
  <2>1. PICK i \in DOMAIN q : x = q[i]
    BY DEF Mail
  <2> QED
    BY <1>1, <2>1 DEF Mail
<1>4. m \in Mail(Append(q, m))
  BY <1>1 DEF Mail
<1> QED
  BY <1>2, <1>3, <1>4

LEMMA MailConcat ==
  ASSUME NEW X, NEW q \in Seq(X), NEW r \in Seq(X)
  PROVE  Mail(q \o r) = Mail(q) \cup Mail(r)
<1>1. /\ DOMAIN (q \o r) = 1 .. Len(q) + Len(r)
      /\ DOMAIN q = 1 .. Len(q) /\ DOMAIN r = 1 .. Len(r)
      /\ \A i \in 1 .. Len(q) + Len(r) :
           (q \o r)[i] = IF i <= Len(q) THEN q[i] ELSE r[i - Len(q)]
      /\ Len(q) \in Nat /\ Len(r) \in Nat
  BY ConcatProperties
<1>2. ASSUME NEW x \in Mail(q \o r) PROVE x \in Mail(q) \cup Mail(r)
  <2>1. PICK i \in DOMAIN (q \o r) : x = (q \o r)[i]
    BY DEF Mail
  <2>2. CASE i <= Len(q)
    <3>1. i \in 1 .. Len(q) /\ x = q[i]
      BY <1>1, <2>1, <2>2
    <3> QED
      BY <1>1, <3>1 DEF Mail
  <2>3. CASE ~(i <= Len(q))
    <3>1. i - Len(q) \in 1 .. Len(r) /\ x = r[i - Len(q)]
      BY <1>1, <2>1, <2>3
    <3> QED
      BY <1>1, <3>1 DEF Mail
  <2> QED
    BY <2>2, <2>3
<1>3. ASSUME NEW x \in Mail(q) PROVE x \in Mail(q \o r)
  <2>1. PICK i \in 1 .. Len(q) : x = q[i]
    BY <1>1 DEF Mail
  <2>2. i \in DOMAIN (q \o r) /\ (q \o r)[i] = q[i]
    BY <1>1, <2>1
  <2> QED
    BY <2>1, <2>2 DEF Mail
<1>4. ASSUME NEW x \in Mail(r) PROVE x \in Mail(q \o r)
  <2>1. PICK i \in 1 .. Len(r) : x = r[i]
    BY <1>1 DEF Mail
  <2>2. i + Len(q) \in 1 .. Len(q) + Len(r) /\ ~(i + Len(q) <= Len(q)) /\ (i + Len(q)) - Len(q) = i
    BY <1>1, <2>1
  <2>3. i + Len(q) \in DOMAIN (q \o r) /\ (q \o r)[i + Len(q)] = r[i]
    BY <1>1, <2>2
  <2> QED
    BY <2>1, <2>3 DEF Mail
<1> QED
  BY <1>2, <1>3, <1>4

LEMMA MailHead ==
  ASSUME NEW X, NEW q \in Seq(X), q # <<>>
  PROVE  /\ Head(q) \in X /\ Tail(q) \in Seq(X)
         /\ Mail(q) = {Head(q)} \cup Mail(Tail(q))
<1>1. Head(q) \in X /\ Tail(q) \in Seq(X) /\ q = <<Head(q)>> \o Tail(q)
  OBVIOUS
<1>2. Mail(<<Head(q)>> \o Tail(q)) = Mail(<<Head(q)>>) \cup Mail(Tail(q))
  <2> DEFINE h == <<Head(q)>>
             t == Tail(q)
  <2>1. h \in Seq(X) /\ t \in Seq(X)
    BY <1>1
  <2> HIDE DEF h, t
  <2>2. Mail(h \o t) = Mail(h) \cup Mail(t)
    BY <2>1, MailConcat
  <2> QED
    BY <2>2 DEF h, t
<1>3. Mail(<<Head(q)>>) = {Head(q)}
  BY DEF Mail
<1> QED
  BY <1>1, <1>2, <1>3

LEMMA MailTyped ==
  ASSUME NEW X, NEW q \in Seq(X)
  PROVE  Mail(q) \subseteq X
BY DEF Mail

LEMMA QueuedIsWaiting ==
  ASSUME NEW s, NEW m
  PROVE  Queued(s, m) <=> m \in Waits(s)
<1> DEFINE held(q) == \E i \in DOMAIN q : q[i] = m
<1>1. \A q : held(q) <=> m \in Mail(q)
  BY DEF Mail
<1>2. Queued(s, m) <=> held(inbox[s]) \/ held(expansion[s]) \/ held(kept[s])
  BY DEF Queued
<1> HIDE DEF held
<1> QED
  BY <1>1, <1>2 DEF Waits

-----------------------------------------------------------------------------
\* The operators of a broker.

LEMMA EarliestOf ==
  ASSUME NEW T, T \subseteq Nat, T # {}
  PROVE  \E m \in T : \A n \in T : m <= n
<1>1. IsWellFoundedOn(OpToRel(<, Nat), Nat)
  BY NatLessThanWellFounded
<1>2. PICK m \in T : \A n \in T : ~ (<< n, m >> \in OpToRel(<, Nat))
  BY <1>1, WFMin
<1>3. \A n \in T : ~ (n < m)
  BY <1>2 DEF OpToRel
<1> QED
  BY <1>3

LEMMA DeadlineFound ==
  ASSUME NEW b, b.deadlines \subseteq [at : Nat, of : {"call", "invocation"}, id : Nat]
  PROVE  /\ NextDeadline(b) \in Nat
         /\ b.deadlines # {} =>
              /\ \E d \in b.deadlines : NextDeadline(b) = d.at
              /\ \A d \in b.deadlines : NextDeadline(b) <= d.at
<1>1. CASE b.deadlines = {}
  BY <1>1 DEF NextDeadline, NoDeadline
<1>2. CASE b.deadlines # {}
  <2> DEFINE T == {d.at : d \in b.deadlines}
             least(at) == \A d \in b.deadlines : at <= d.at
  <2>1. T \subseteq Nat /\ T # {}
    BY <1>2
  <2>2. PICK m \in T : \A n \in T : m <= n
    <3> HIDE DEF T
    <3> QED
      BY <2>1, EarliestOf
  <2>3. \E at \in T : least(at)
    BY <2>2
  <2>4. NextDeadline(b) = CHOOSE at \in T : least(at)
    BY <1>2 DEF NextDeadline
  <2>5. NextDeadline(b) \in T /\ least(NextDeadline(b))
    <3> HIDE DEF T, least
    <3> QED
      BY <2>3, <2>4
  <2> QED
    BY <2>1, <2>5
<1> QED
  BY <1>1, <1>2

LEMMA EntriesTyped ==
  ASSUME NEW r \in Requests, NEW v \in Invocations
  PROVE  /\ CallEntry(r) \in [at : Nat, of : {"call", "invocation"}, id : Nat]
         /\ InvocationEntry(v) \in [at : Nat, of : {"call", "invocation"}, id : Nat]
         /\ CallEntry(r).of = "call" /\ CallEntry(r).id = r.id /\ CallEntry(r).at = r.deadline
         /\ InvocationEntry(v).of = "invocation" /\ InvocationEntry(v).id = v.ticket
         /\ InvocationEntry(v).at = v.req.deadline
         /\ Key(r) \in Keys /\ v.req \in Requests
         /\ CallEntry(r) # InvocationEntry(v)
BY DEF CallEntry, InvocationEntry, Requests, Invocations, Key, Keys

\* A broker as its operators leave it, before the timer is told.
LEMMA PublishKeeps ==
  ASSUME NEW b \in Brokers
  PROVE  /\ Publish(b) \in Brokers
         /\ Publish(b).watch = NextDeadline(Publish(b))
         /\ Publish(b).pending = b.pending /\ Publish(b).invocations = b.invocations
         /\ Publish(b).nextId = b.nextId /\ Publish(b).ready = b.ready
         /\ Publish(b).incomingKeys = b.incomingKeys /\ Publish(b).deadlines = b.deadlines
         /\ Publish(b).outgoing = b.outgoing /\ Publish(b).incoming = b.incoming
<1>1. NextDeadline(b) \in Nat
  BY DeadlineFound DEF Brokers
<1>2. [b EXCEPT !.watch = NextDeadline(b)] \in Brokers
  <2> DEFINE n == NextDeadline(b)
  <2>1. n \in Nat
    BY <1>1
  <2> HIDE DEF n
  <2>2. [b EXCEPT !.watch = n] \in Brokers
    BY <2>1 DEF Brokers
  <2> QED
    BY <2>2 DEF n
<1>3. /\ Publish(b).pending = b.pending /\ Publish(b).invocations = b.invocations
      /\ Publish(b).nextId = b.nextId /\ Publish(b).ready = b.ready
      /\ Publish(b).incomingKeys = b.incomingKeys /\ Publish(b).deadlines = b.deadlines
      /\ Publish(b).outgoing = b.outgoing /\ Publish(b).incoming = b.incoming
      /\ Publish(b).watch = NextDeadline(b)
  BY DEF Publish, Brokers
<1>4. NextDeadline(Publish(b)) = NextDeadline(b)
  BY <1>3 DEF NextDeadline
<1> QED
  BY <1>2, <1>3, <1>4 DEF Publish

Good(b) == b \in Brokers /\ Distinct(b) /\ Tracked(b)

LEMMA InsertCallFields ==
  ASSUME NEW b \in Brokers, NEW r \in Requests
  PROVE  /\ InsertCall(b, r) \in Brokers
         /\ InsertCall(b, r).watch = NextDeadline(InsertCall(b, r))
         /\ InsertCall(b, r).pending = b.pending \cup {r}
         /\ InsertCall(b, r).nextId = b.nextId + 1
         /\ InsertCall(b, r).outgoing = b.outgoing + 1
         /\ InsertCall(b, r).deadlines = b.deadlines \cup {CallEntry(r)}
         /\ InsertCall(b, r).invocations = b.invocations /\ InsertCall(b, r).incoming = b.incoming
         /\ InsertCall(b, r).incomingKeys = b.incomingKeys
<1> DEFINE e == CallEntry(r)
           c == [b EXCEPT !.nextId = @ + 1, !.outgoing = @ + 1, !.pending = @ \cup {r},
                          !.deadlines = @ \cup {e}]
<1>1. e \in [at : Nat, of : {"call", "invocation"}, id : Nat]
  BY DEF CallEntry, Requests
<1>2. InsertCall(b, r) = Publish(c)
  BY DEF InsertCall, CallEntry
<1> HIDE DEF e
<1>3. /\ c \in Brokers
      /\ c.pending = b.pending \cup {r} /\ c.nextId = b.nextId + 1 /\ c.outgoing = b.outgoing + 1
      /\ c.deadlines = b.deadlines \cup {e} /\ c.invocations = b.invocations
      /\ c.incoming = b.incoming /\ c.incomingKeys = b.incomingKeys
  <2>1. /\ b.nextId + 1 \in Nat /\ b.outgoing + 1 \in Nat
        /\ b.pending \cup {r} \in SUBSET Requests
        /\ b.deadlines \cup {e} \in SUBSET [at : Nat, of : {"call", "invocation"}, id : Nat]
    BY <1>1 DEF Brokers
  <2>2. c \in Brokers
    BY <2>1 DEF Brokers
  <2> QED
    BY <2>2 DEF Brokers
<1> HIDE DEF c
<1> QED
  BY <1>2, <1>3, PublishKeeps DEF e

LEMMA InsertCallKeeps ==
  ASSUME NEW b, Good(b), NEW r \in Requests, r.id = b.nextId
  PROVE  Good(InsertCall(b, r))
<1> DEFINE c == InsertCall(b, r)
<1>0. b \in Brokers /\ b.nextId \in Nat
  BY DEF Good, Brokers
<1>1. /\ c \in Brokers /\ c.watch = NextDeadline(c)
      /\ c.pending = b.pending \cup {r} /\ c.nextId = b.nextId + 1 /\ c.outgoing = b.outgoing + 1
      /\ c.deadlines = b.deadlines \cup {CallEntry(r)} /\ c.invocations = b.invocations
      /\ c.incoming = b.incoming /\ c.incomingKeys = b.incomingKeys
  BY <1>0, InsertCallFields
<1> HIDE DEF c
<1>2. \A p \in b.pending : p.id \in Nat /\ p.id < b.nextId
  BY <1>0 DEF Good, Distinct, Brokers, Requests
<1>3. r \notin b.pending /\ \A p \in b.pending : p.id # r.id
  BY <1>0, <1>2
<1>4. IsFiniteSet(c.pending) /\ Cardinality(c.pending) = Cardinality(b.pending) + 1
  <2>1. IsFiniteSet(b.pending)
    BY DEF Good, Distinct
  <2>2. /\ IsFiniteSet(b.pending \cup {r})
        /\ Cardinality(b.pending \cup {r}) = Cardinality(b.pending) + 1
    BY <1>3, <2>1, FS_AddElement
  <2> QED
    BY <1>1, <2>2
<1>5. Distinct(c)
  <2>1. \A p \in c.pending : p.id < c.nextId
    BY <1>0, <1>1, <1>2
  <2>2. \A p, q \in c.pending : p.id = q.id => p = q
    BY <1>1, <1>3 DEF Good, Distinct
  <2>3. \A v \in c.invocations : v.ticket < c.nextId
    <3>1. \A v \in b.invocations : v.ticket \in Nat /\ v.ticket < b.nextId
      BY <1>0 DEF Good, Distinct, Brokers, Invocations
    <3> QED
      BY <1>0, <1>1, <3>1
  <2> QED
    BY <1>1, <1>4, <2>1, <2>2, <2>3 DEF Good, Distinct
<1>6. Tracked(c)
  <2>1. {CallEntry(p) : p \in c.pending} = {CallEntry(p) : p \in b.pending} \cup {CallEntry(r)}
    BY <1>1
  <2>2. c.deadlines = {CallEntry(p) : p \in c.pending} \cup {InvocationEntry(v) : v \in c.invocations}
    <3>1. b.deadlines = {CallEntry(p) : p \in b.pending} \cup {InvocationEntry(v) : v \in b.invocations}
      BY DEF Good, Tracked
    <3> QED
      BY <1>1, <2>1, <3>1
  <2>3. c.outgoing = Cardinality(c.pending) /\ c.incoming = Cardinality(c.invocations)
        /\ c.incomingKeys = {<<Key(v.req), v.ticket>> : v \in c.invocations}
    BY <1>1, <1>4 DEF Good, Tracked
  <2> QED
    BY <1>1, <2>2, <2>3 DEF Tracked
<1> QED
  BY <1>1, <1>5, <1>6 DEF Good, c

\* An id that a refused call or invocation spends.
LEMMA SpendIdKeeps ==
  ASSUME NEW b, Good(b)
  PROVE  /\ Good([b EXCEPT !.nextId = @ + 1])
         /\ [b EXCEPT !.nextId = @ + 1].pending = b.pending
         /\ [b EXCEPT !.nextId = @ + 1].invocations = b.invocations
         /\ [b EXCEPT !.nextId = @ + 1].deadlines = b.deadlines
         /\ [b EXCEPT !.nextId = @ + 1].nextId = b.nextId + 1
<1> DEFINE c == [b EXCEPT !.nextId = @ + 1]
<1>0. b \in Brokers
  BY DEF Good
<1>1. /\ c \in Brokers /\ c.pending = b.pending /\ c.invocations = b.invocations
      /\ c.deadlines = b.deadlines /\ c.nextId = b.nextId + 1
      /\ c.outgoing = b.outgoing /\ c.incoming = b.incoming
      /\ c.incomingKeys = b.incomingKeys /\ c.watch = b.watch
  BY <1>0 DEF Brokers
<1> HIDE DEF c
<1>2. /\ b.nextId \in Nat
      /\ \A v \in b.invocations : v.ticket \in Nat /\ v.ticket < b.nextId
      /\ \A p \in b.pending : p.id \in Nat /\ p.id < b.nextId
  BY <1>0 DEF Good, Distinct, Brokers, Invocations, Requests
<1>3. /\ \A v \in b.invocations : v.ticket < c.nextId
      /\ \A p \in b.pending : p.id < c.nextId
  BY <1>1, <1>2
<1>4. Distinct(c)
  BY <1>1, <1>3 DEF Good, Distinct
<1>5. NextDeadline(c) = NextDeadline(b)
  BY <1>1 DEF NextDeadline
<1>6. Tracked(c)
  BY <1>1, <1>5 DEF Good, Tracked
<1> QED
  BY <1>1, <1>4, <1>6 DEF Good, c

LEMMA RemoveCallFields ==
  ASSUME NEW b \in Brokers, NEW r \in Requests, b.outgoing # 0
  PROVE  /\ RemoveCall(b, r) \in Brokers
         /\ RemoveCall(b, r).watch = NextDeadline(RemoveCall(b, r))
         /\ RemoveCall(b, r).pending = b.pending \ {r}
         /\ RemoveCall(b, r).nextId = b.nextId
         /\ RemoveCall(b, r).outgoing = b.outgoing - 1
         /\ RemoveCall(b, r).deadlines = b.deadlines \ {CallEntry(r)}
         /\ RemoveCall(b, r).invocations = b.invocations /\ RemoveCall(b, r).incoming = b.incoming
         /\ RemoveCall(b, r).incomingKeys = b.incomingKeys
<1> DEFINE e == CallEntry(r)
           c == [b EXCEPT !.outgoing = @ - 1, !.deadlines = @ \ {e}, !.pending = @ \ {r}]
<1>2. RemoveCall(b, r) = Publish(c)
  BY DEF RemoveCall, CallEntry
<1> HIDE DEF e
<1>3. /\ c \in Brokers
      /\ c.pending = b.pending \ {r} /\ c.nextId = b.nextId /\ c.outgoing = b.outgoing - 1
      /\ c.deadlines = b.deadlines \ {e} /\ c.invocations = b.invocations
      /\ c.incoming = b.incoming /\ c.incomingKeys = b.incomingKeys
  <2>1. b.outgoing - 1 \in Nat
    BY DEF Brokers
  <2> QED
    BY <2>1 DEF Brokers
<1> HIDE DEF c
<1> QED
  BY <1>2, <1>3, PublishKeeps DEF e

LEMMA RemoveCallKeeps ==
  ASSUME NEW b, Good(b), NEW r \in b.pending
  PROVE  /\ Good(RemoveCall(b, r))
         /\ RemoveCall(b, r).pending = b.pending \ {r}
         /\ RemoveCall(b, r).nextId = b.nextId
         /\ RemoveCall(b, r).deadlines = b.deadlines \ {CallEntry(r)}
         /\ RemoveCall(b, r).invocations = b.invocations
<1> DEFINE c == RemoveCall(b, r)
<1>0. b \in Brokers /\ r \in Requests /\ b.pending \subseteq Requests /\ b.invocations \subseteq Invocations
  BY DEF Good, Brokers
<1>1. IsFiniteSet(b.pending) /\ Cardinality(b.pending) \in Nat /\ Cardinality(b.pending) # 0
  <2>1. IsFiniteSet(b.pending)
    BY DEF Good, Distinct
  <2> QED
    BY <2>1, FS_CardinalityType, FS_EmptySet
<1>2. /\ c \in Brokers /\ c.watch = NextDeadline(c)
      /\ c.pending = b.pending \ {r} /\ c.nextId = b.nextId /\ c.outgoing = b.outgoing - 1
      /\ c.deadlines = b.deadlines \ {CallEntry(r)} /\ c.invocations = b.invocations
      /\ c.incoming = b.incoming /\ c.incomingKeys = b.incomingKeys
  <2>1. b.outgoing # 0
    BY <1>1 DEF Good, Tracked
  <2> QED
    BY <1>0, <2>1, RemoveCallFields
<1> HIDE DEF c
<1>3. IsFiniteSet(c.pending) /\ Cardinality(c.pending) = Cardinality(b.pending) - 1
  <2>1. /\ IsFiniteSet(b.pending \ {r})
        /\ Cardinality(b.pending \ {r}) = Cardinality(b.pending) - 1
    BY <1>1, FS_RemoveElement
  <2> QED
    BY <1>2, <2>1
<1>4. Distinct(c)
  BY <1>2, <1>3 DEF Good, Distinct
<1>5. Tracked(c)
  <2>1. b.deadlines = {CallEntry(p) : p \in b.pending} \cup {InvocationEntry(v) : v \in b.invocations}
    BY DEF Good, Tracked
  <2>2. \A p \in b.pending : CallEntry(p) = CallEntry(r) => p = r
    <3>1. \A p \in b.pending : CallEntry(p).id = p.id
      BY DEF CallEntry
    <3> QED
      BY <3>1 DEF Good, Distinct
  <2>3. \A v \in b.invocations : CallEntry(r) # InvocationEntry(v)
    BY <1>0, EntriesTyped
  <2>4. {CallEntry(p) : p \in b.pending \ {r}} = {CallEntry(p) : p \in b.pending} \ {CallEntry(r)}
    BY <2>2
  <2>5. c.deadlines = {CallEntry(p) : p \in c.pending} \cup {InvocationEntry(v) : v \in c.invocations}
    BY <1>2, <2>1, <2>3, <2>4
  <2>6. c.outgoing = Cardinality(c.pending) /\ c.incoming = Cardinality(c.invocations)
        /\ c.incomingKeys = {<<Key(v.req), v.ticket>> : v \in c.invocations}
    BY <1>2, <1>3 DEF Good, Tracked
  <2> QED
    BY <1>2, <2>5, <2>6 DEF Tracked
<1> QED
  BY <1>2, <1>4, <1>5 DEF Good, c

NewInvocation(b, r, heap) == [ticket |-> b.nextId, heap |-> heap, req |-> r, prepared |-> FALSE]

LEMMA StartInvocationKeeps ==
  ASSUME NEW b, Good(b), NEW r \in Requests, NEW heap \in Nat,
         ~\E k \in b.incomingKeys : k[1] = Key(r)
  PROVE  LET v == NewInvocation(b, r, heap)
             c == StartInvocation(b, r, heap)
         IN /\ Good(c)
            /\ c.pending = b.pending
            /\ c.nextId = b.nextId + 1
            /\ c.invocations = b.invocations \cup {v}
            /\ c.deadlines = b.deadlines \cup {InvocationEntry(v)}
            /\ v.req = r /\ v.ticket = b.nextId
<1> DEFINE v == NewInvocation(b, r, heap)
           e == InvocationEntry(v)
           k == <<Key(r), b.nextId>>
           c == StartInvocation(b, r, heap)
           d == [b EXCEPT !.nextId = @ + 1, !.incoming = @ + 1, !.invocations = @ \cup {v},
                          !.incomingKeys = @ \cup {k}, !.deadlines = @ \cup {e}]
<1>0. /\ b \in Brokers /\ b.nextId \in Nat /\ b.incoming \in Nat
      /\ b.pending \subseteq Requests /\ b.invocations \subseteq Invocations
  BY DEF Good, Brokers
<1>1. /\ v \in Invocations /\ v.req = r /\ v.ticket = b.nextId
      /\ e \in [at : Nat, of : {"call", "invocation"}, id : Nat]
      /\ k \in Keys \X Nat
  BY <1>0 DEF NewInvocation, Invocations, InvocationEntry, Requests, Key, Keys
<1>2. c = Publish(d)
  BY <1>1 DEF StartInvocation, InvocationEntry, NewInvocation
<1> HIDE DEF v, e, k
<1>3. /\ d \in Brokers
      /\ d.pending = b.pending /\ d.nextId = b.nextId + 1 /\ d.incoming = b.incoming + 1
      /\ d.outgoing = b.outgoing /\ d.invocations = b.invocations \cup {v}
      /\ d.incomingKeys = b.incomingKeys \cup {k} /\ d.deadlines = b.deadlines \cup {e}
  <2>1. /\ b.nextId + 1 \in Nat /\ b.incoming + 1 \in Nat
        /\ b.invocations \cup {v} \in SUBSET Invocations
        /\ b.incomingKeys \cup {k} \in SUBSET (Keys \X Nat)
        /\ b.deadlines \cup {e} \in SUBSET [at : Nat, of : {"call", "invocation"}, id : Nat]
    BY <1>0, <1>1 DEF Brokers
  <2>2. d \in Brokers
    BY <1>0, <2>1 DEF Brokers
  <2> QED
    BY <1>0, <2>2 DEF Brokers
<1> HIDE DEF d
<1>4. /\ c \in Brokers /\ c.watch = NextDeadline(c)
      /\ c.pending = b.pending /\ c.nextId = b.nextId + 1 /\ c.incoming = b.incoming + 1
      /\ c.outgoing = b.outgoing /\ c.invocations = b.invocations \cup {v}
      /\ c.incomingKeys = b.incomingKeys \cup {k} /\ c.deadlines = b.deadlines \cup {e}
  BY <1>2, <1>3, PublishKeeps
<1> HIDE DEF c
<1>5. \A w \in b.invocations : w.ticket \in Nat /\ w.ticket < b.nextId /\ Key(w.req) # Key(r)
  <2>1. \A w \in b.invocations : w.ticket \in Nat /\ w.ticket < b.nextId
    BY <1>0 DEF Good, Distinct, Invocations
  <2>2. ASSUME NEW w \in b.invocations PROVE Key(w.req) # Key(r)
    <3>1. <<Key(w.req), w.ticket>> \in b.incomingKeys
      BY DEF Good, Tracked
    <3>2. <<Key(w.req), w.ticket>>[1] = Key(w.req)
      OBVIOUS
    <3> QED
      BY <3>1, <3>2
  <2> QED
    BY <2>1, <2>2
<1>6. v \notin b.invocations
  BY <1>0, <1>1, <1>5
<1>7. IsFiniteSet(c.invocations) /\ Cardinality(c.invocations) = Cardinality(b.invocations) + 1
  <2>1. IsFiniteSet(b.invocations)
    BY DEF Good, Distinct
  <2>2. /\ IsFiniteSet(b.invocations \cup {v})
        /\ Cardinality(b.invocations \cup {v}) = Cardinality(b.invocations) + 1
    BY <1>6, <2>1, FS_AddElement
  <2> QED
    BY <1>4, <2>2
<1>8. Distinct(c)
  <2>1. \A p \in c.pending : p.id < c.nextId
    <3>1. \A p \in b.pending : p.id \in Nat /\ p.id < b.nextId
      BY <1>0 DEF Good, Distinct, Requests
    <3> QED
      BY <1>0, <1>4, <3>1
  <2>2. \A w \in c.invocations : w.ticket < c.nextId
    BY <1>0, <1>1, <1>4, <1>5
  <2>3. \A w, x \in c.invocations : w.ticket = x.ticket \/ Key(w.req) = Key(x.req) => w = x
    <3>1. \A w, x \in b.invocations : w.ticket = x.ticket \/ Key(w.req) = Key(x.req) => w = x
      BY DEF Good, Distinct
    <3>2. \A w \in b.invocations : w.ticket # v.ticket /\ Key(w.req) # Key(v.req)
      BY <1>0, <1>1, <1>5
    <3> QED
      BY <1>4, <3>1, <3>2
  <2> QED
    BY <1>4, <1>7, <2>1, <2>2, <2>3 DEF Good, Distinct
<1>9. Tracked(c)
  <2>1. {InvocationEntry(w) : w \in c.invocations}
          = {InvocationEntry(w) : w \in b.invocations} \cup {e}
    BY <1>4 DEF e
  <2>2. {<<Key(w.req), w.ticket>> : w \in c.invocations}
          = {<<Key(w.req), w.ticket>> : w \in b.invocations} \cup {k}
    BY <1>1, <1>4 DEF k
  <2>3. c.deadlines = {CallEntry(p) : p \in c.pending} \cup {InvocationEntry(w) : w \in c.invocations}
    <3>1. b.deadlines = {CallEntry(p) : p \in b.pending} \cup {InvocationEntry(w) : w \in b.invocations}
      BY DEF Good, Tracked
    <3> QED
      BY <1>4, <2>1, <3>1
  <2>4. c.incomingKeys = {<<Key(w.req), w.ticket>> : w \in c.invocations}
    BY <1>4, <2>2 DEF Good, Tracked
  <2>5. c.outgoing = Cardinality(c.pending) /\ c.incoming = Cardinality(c.invocations)
    BY <1>4, <1>7 DEF Good, Tracked
  <2> QED
    BY <1>4, <2>3, <2>4, <2>5 DEF Tracked
<1> QED
  BY <1>1, <1>4, <1>8, <1>9 DEF Good, c, v, e

LEMMA RemoveInvocationKeeps ==
  ASSUME NEW b, Good(b), NEW v \in b.invocations
  PROVE  LET c == RemoveInvocation(b, v) IN
         /\ Good(c)
         /\ c.pending = b.pending
         /\ c.nextId = b.nextId
         /\ c.invocations = b.invocations \ {v}
         /\ c.deadlines = b.deadlines \ {InvocationEntry(v)}
<1> DEFINE e == InvocationEntry(v)
           keys == {k \in b.incomingKeys : k[1] # Key(v.req)}
           c == RemoveInvocation(b, v)
           d == [b EXCEPT !.incoming = @ - 1, !.invocations = @ \ {v},
                          !.incomingKeys = keys, !.deadlines = @ \ {e}]
<1>0. /\ b \in Brokers /\ b.pending \subseteq Requests /\ b.invocations \subseteq Invocations
      /\ keys \subseteq b.incomingKeys
  BY DEF Good, Brokers
<1>1. IsFiniteSet(b.invocations) /\ Cardinality(b.invocations) \in Nat /\ Cardinality(b.invocations) # 0
  <2>1. IsFiniteSet(b.invocations)
    BY DEF Good, Distinct
  <2> QED
    BY <2>1, FS_CardinalityType, FS_EmptySet
<1>2. c = Publish(d)
  BY DEF RemoveInvocation, InvocationEntry
<1>10. \A k : k \in keys <=> k \in b.incomingKeys /\ k[1] # Key(v.req)
  OBVIOUS
<1> HIDE DEF e, keys
<1>3. /\ d \in Brokers
      /\ d.pending = b.pending /\ d.nextId = b.nextId /\ d.incoming = b.incoming - 1
      /\ d.outgoing = b.outgoing /\ d.invocations = b.invocations \ {v}
      /\ d.incomingKeys = keys /\ d.deadlines = b.deadlines \ {e}
  <2>1. b.incoming - 1 \in Nat
    BY <1>1 DEF Good, Tracked
  <2>2. keys \in SUBSET (Keys \X Nat)
    BY <1>0 DEF Brokers
  <2>3. d \in Brokers
    BY <1>0, <2>1, <2>2 DEF Brokers
  <2> QED
    BY <1>0, <2>3 DEF Brokers
<1> HIDE DEF d
<1>4. /\ c \in Brokers /\ c.watch = NextDeadline(c)
      /\ c.pending = b.pending /\ c.nextId = b.nextId /\ c.incoming = b.incoming - 1
      /\ c.outgoing = b.outgoing /\ c.invocations = b.invocations \ {v}
      /\ c.incomingKeys = keys /\ c.deadlines = b.deadlines \ {e}
  BY <1>2, <1>3, PublishKeeps
<1> HIDE DEF c
<1>5. IsFiniteSet(c.invocations) /\ Cardinality(c.invocations) = Cardinality(b.invocations) - 1
  <2>1. /\ IsFiniteSet(b.invocations \ {v})
        /\ Cardinality(b.invocations \ {v}) = Cardinality(b.invocations) - 1
    BY <1>1, FS_RemoveElement
  <2> QED
    BY <1>4, <2>1
<1>6. Distinct(c)
  BY <1>4, <1>5 DEF Good, Distinct
<1>7. Tracked(c)
  <2>1. \A w \in b.invocations : InvocationEntry(w) = e => w = v
    <3>1. \A w \in b.invocations : InvocationEntry(w).id = w.ticket
      BY DEF InvocationEntry
    <3>2. e.id = v.ticket
      BY DEF e, InvocationEntry
    <3> QED
      BY <3>1, <3>2 DEF Good, Distinct
  <2>2. \A p \in b.pending : CallEntry(p) # e
    BY <1>0, EntriesTyped DEF e
  <2>3. {InvocationEntry(w) : w \in b.invocations \ {v}}
          = {InvocationEntry(w) : w \in b.invocations} \ {e}
    <3>1. e = InvocationEntry(v)
      BY DEF e
    <3> QED
      BY <2>1, <3>1
  <2>4. c.deadlines = {CallEntry(p) : p \in c.pending} \cup {InvocationEntry(w) : w \in c.invocations}
    <3>1. b.deadlines = {CallEntry(p) : p \in b.pending} \cup {InvocationEntry(w) : w \in b.invocations}
      BY DEF Good, Tracked
    <3> QED
      BY <1>4, <2>2, <2>3, <3>1
  <2>5. c.incomingKeys = {<<Key(w.req), w.ticket>> : w \in c.invocations}
    <3>1. b.incomingKeys = {<<Key(w.req), w.ticket>> : w \in b.invocations}
      BY DEF Good, Tracked
    <3>2. \A w \in b.invocations : <<Key(w.req), w.ticket>>[1] = Key(w.req)
      OBVIOUS
    <3>3. \A w \in b.invocations : Key(w.req) # Key(v.req) <=> w # v
      BY DEF Good, Distinct
    <3>4. ASSUME NEW k \in c.incomingKeys PROVE k \in {<<Key(w.req), w.ticket>> : w \in c.invocations}
      <4>1. k \in b.incomingKeys /\ k[1] # Key(v.req)
        BY <1>4, <1>10
      <4>2. PICK w \in b.invocations : k = <<Key(w.req), w.ticket>>
        BY <3>1, <4>1
      <4> QED
        BY <1>4, <3>2, <3>3, <4>1, <4>2
    <3>5. ASSUME NEW w \in c.invocations PROVE <<Key(w.req), w.ticket>> \in c.incomingKeys
      <4>1. w \in b.invocations /\ w # v
        BY <1>4
      <4>2. <<Key(w.req), w.ticket>> \in b.incomingKeys /\ <<Key(w.req), w.ticket>>[1] # Key(v.req)
        BY <3>1, <3>2, <3>3, <4>1
      <4> QED
        BY <1>4, <1>10, <4>2
    <3> QED
      BY <3>4, <3>5
  <2>6. c.outgoing = Cardinality(c.pending) /\ c.incoming = Cardinality(c.invocations)
    BY <1>4, <1>5 DEF Good, Tracked
  <2> QED
    BY <1>4, <2>4, <2>5, <2>6 DEF Tracked
<1> QED
  BY <1>4, <1>6, <1>7 DEF Good, c, e

LEMMA PrepareReplyKeeps ==
  ASSUME NEW b, Good(b), NEW v \in b.invocations
  PROVE  LET c == PrepareReply(b, v) IN
         /\ Good(c)
         /\ c.pending = b.pending
         /\ c.nextId = b.nextId
         /\ c.deadlines = b.deadlines
         /\ \A w \in c.invocations : \E x \in b.invocations : w.ticket = x.ticket /\ w.req = x.req
         /\ \A x \in b.invocations : \E w \in c.invocations : w.ticket = x.ticket /\ w.req = x.req
<1> DEFINE n == [v EXCEPT !.prepared = TRUE]
           c == PrepareReply(b, v)
<1>0. /\ b \in Brokers /\ b.invocations \subseteq Invocations
  BY DEF Good, Brokers
<1>1. n \in Invocations /\ n.ticket = v.ticket /\ n.req = v.req
  BY <1>0 DEF Invocations
<1>2. c = [b EXCEPT !.invocations = (b.invocations \ {v}) \cup {n}]
  BY DEF PrepareReply
<1> HIDE DEF n, c
<1>3. /\ c \in Brokers /\ c.pending = b.pending /\ c.nextId = b.nextId
      /\ c.deadlines = b.deadlines /\ c.outgoing = b.outgoing /\ c.incoming = b.incoming
      /\ c.incomingKeys = b.incomingKeys /\ c.watch = b.watch
      /\ c.invocations = (b.invocations \ {v}) \cup {n}
  <2>1. (b.invocations \ {v}) \cup {n} \in SUBSET Invocations
    BY <1>0, <1>1
  <2> QED
    BY <1>0, <1>2, <2>1 DEF Brokers
<1>4. \A w, x \in b.invocations : w.ticket = x.ticket \/ Key(w.req) = Key(x.req) => w = x
  BY DEF Good, Distinct
<1>5. IsFiniteSet(c.invocations) /\ Cardinality(c.invocations) = Cardinality(b.invocations)
  <2>1. IsFiniteSet(b.invocations) /\ Cardinality(b.invocations) \in Nat
    BY FS_CardinalityType DEF Good, Distinct
  <2>2. /\ IsFiniteSet(b.invocations \ {v})
        /\ Cardinality(b.invocations \ {v}) = Cardinality(b.invocations) - 1
    BY <2>1, FS_RemoveElement
  <2>3. n \notin b.invocations \ {v}
    BY <1>1, <1>4
  <2>4. /\ IsFiniteSet((b.invocations \ {v}) \cup {n})
        /\ Cardinality((b.invocations \ {v}) \cup {n}) = Cardinality(b.invocations \ {v}) + 1
    BY <2>2, <2>3, FS_AddElement
  <2> QED
    BY <1>3, <2>1, <2>2, <2>4
<1>6. /\ \A w \in c.invocations : \E x \in b.invocations : w.ticket = x.ticket /\ w.req = x.req
      /\ \A x \in b.invocations : \E w \in c.invocations : w.ticket = x.ticket /\ w.req = x.req
  BY <1>1, <1>3
<1>7. Distinct(c)
  <2>1. \A w, x \in c.invocations : w.ticket = x.ticket \/ Key(w.req) = Key(x.req) => w = x
    BY <1>1, <1>3, <1>4
  <2>2. \A w \in c.invocations : w.ticket < c.nextId
    <3>1. \A w \in b.invocations : w.ticket < b.nextId
      BY DEF Good, Distinct
    <3> QED
      BY <1>3, <1>6, <3>1
  <2> QED
    BY <1>3, <1>5, <2>1, <2>2 DEF Good, Distinct
<1>8. Tracked(c)
  <2>1. {InvocationEntry(w) : w \in c.invocations} = {InvocationEntry(w) : w \in b.invocations}
    <3>1. \A w, x : w.ticket = x.ticket /\ w.req = x.req => InvocationEntry(w) = InvocationEntry(x)
      BY DEF InvocationEntry
    <3> QED
      BY <1>6, <3>1
  <2>2. {<<Key(w.req), w.ticket>> : w \in c.invocations}
          = {<<Key(w.req), w.ticket>> : w \in b.invocations}
    <3>1. \A w, x : w.ticket = x.ticket /\ w.req = x.req
                      => <<Key(w.req), w.ticket>> = <<Key(x.req), x.ticket>>
      OBVIOUS
    <3> QED
      BY <1>6, <3>1
  <2>3. NextDeadline(c) = NextDeadline(b)
    BY <1>3 DEF NextDeadline
  <2>4. c.deadlines = {CallEntry(p) : p \in c.pending} \cup {InvocationEntry(w) : w \in c.invocations}
    BY <1>3, <2>1 DEF Good, Tracked
  <2>5. c.incomingKeys = {<<Key(w.req), w.ticket>> : w \in c.invocations}
    BY <1>3, <2>2 DEF Good, Tracked
  <2> QED
    BY <1>3, <1>5, <2>3, <2>4, <2>5 DEF Good, Tracked
<1> QED
  BY <1>3, <1>6, <1>7, <1>8 DEF Good, c

\* The expiry of an entry removes it twice, to the same effect.
LEMMA ExpiredCall ==
  ASSUME NEW b \in Brokers, NEW r
  PROVE  RemoveCall([b EXCEPT !.deadlines = @ \ {CallEntry(r)}], r) = RemoveCall(b, r)
<1> DEFINE e == CallEntry(r)
           x == [b EXCEPT !.deadlines = @ \ {e}]
           c(y) == [y EXCEPT !.outgoing = @ - 1, !.pending = @ \ {r}, !.deadlines = @ \ {e}]
<1>1. /\ RemoveCall(x, r) = Publish(c(x)) /\ RemoveCall(b, r) = Publish(c(b))
  BY DEF RemoveCall, CallEntry
<1> HIDE DEF e
<1>2. c(x) = c(b)
  <2>1. (b.deadlines \ {e}) \ {e} = b.deadlines \ {e}
    OBVIOUS
  <2> QED
    BY <2>1 DEF Brokers
<1> QED
  BY <1>1, <1>2 DEF e

LEMMA ExpiredInvocation ==
  ASSUME NEW b \in Brokers, NEW v
  PROVE  RemoveInvocation([b EXCEPT !.deadlines = @ \ {InvocationEntry(v)}], v) = RemoveInvocation(b, v)
<1> DEFINE e == InvocationEntry(v)
           x == [b EXCEPT !.deadlines = @ \ {e}]
           keys(y) == {k \in y.incomingKeys : k[1] # Key(v.req)}
           c(y) == [y EXCEPT !.incoming = @ - 1, !.invocations = @ \ {v},
                             !.incomingKeys = keys(y), !.deadlines = @ \ {e}]
<1>1. /\ RemoveInvocation(x, v) = Publish(c(x)) /\ RemoveInvocation(b, v) = Publish(c(b))
  BY DEF RemoveInvocation, InvocationEntry
<1> HIDE DEF e
<1>2. keys(x) = keys(b)
  BY DEF Brokers
<1> HIDE DEF keys
<1>3. c(x) = c(b)
  <2>1. (b.deadlines \ {e}) \ {e} = b.deadlines \ {e}
    OBVIOUS
  <2> QED
    BY <1>2, <2>1 DEF Brokers
<1> QED
  BY <1>1, <1>3 DEF e

LEMMA NewBrokerGood ==
  ASSUME NEW id \in Nat
  PROVE  /\ Good(NewBroker(id)) /\ NewBroker(id).pending = {} /\ NewBroker(id).invocations = {}
         /\ NewBroker(id).deadlines = {} /\ NewBroker(id).nextId = id
<1> DEFINE b == NewBroker(id)
<1>1. /\ b.pending = {} /\ b.invocations = {} /\ b.deadlines = {} /\ b.nextId = id
      /\ b.incomingKeys = {} /\ b.outgoing = 0 /\ b.incoming = 0 /\ b.watch = 0
  BY DEF NewBroker, NoDeadline
<1>2. b \in Brokers
  BY DEF NewBroker, NoDeadline, Brokers
<1> HIDE DEF b
<1>3. NextDeadline(b) = 0
  BY <1>1 DEF NextDeadline, NoDeadline
<1>4. Distinct(b)
  BY <1>1, FS_EmptySet DEF Distinct
<1>5. Tracked(b)
  BY <1>1, <1>3, FS_EmptySet DEF Tracked
<1> QED
  BY <1>1, <1>2, <1>4, <1>5 DEF Good, b

\* A broker that is being reset forgets its calls one by one.
LEMMA ForgetKeeps ==
  ASSUME NEW b \in Brokers, Distinct(b), NEW x
  PROVE  LET c == [b EXCEPT !.pending = @ \ {x}]
             d == [b EXCEPT !.invocations = @ \ {x}]
         IN /\ c \in Brokers /\ Distinct(c) /\ d \in Brokers /\ Distinct(d)
            /\ c.pending = b.pending \ {x} /\ c.nextId = b.nextId /\ c.invocations = b.invocations
            /\ d.invocations = b.invocations \ {x} /\ d.nextId = b.nextId /\ d.pending = b.pending
<1> DEFINE c == [b EXCEPT !.pending = @ \ {x}]
           d == [b EXCEPT !.invocations = @ \ {x}]
<1>1. /\ c \in Brokers /\ c.pending = b.pending \ {x} /\ c.nextId = b.nextId
      /\ c.invocations = b.invocations
  BY DEF Brokers
<1>2. /\ d \in Brokers /\ d.invocations = b.invocations \ {x} /\ d.nextId = b.nextId
      /\ d.pending = b.pending
  BY DEF Brokers
<1> HIDE DEF c, d
<1>3. IsFiniteSet(b.pending \ {x}) /\ IsFiniteSet(b.invocations \ {x})
  BY FS_RemoveElement DEF Distinct
<1>4. Distinct(c)
  BY <1>1, <1>3 DEF Distinct
<1>5. Distinct(d)
  BY <1>2, <1>3 DEF Distinct
<1> QED
  BY <1>1, <1>2, <1>4, <1>5 DEF c, d

-----------------------------------------------------------------------------
\* What a turn of the scripts amounts to.

Idles(s, t) ==
  /\ t.b = broker[s] /\ t.promises = {}
  /\ t.spawned \in {<<>>, <<Reload>>}

Answers(s, t, v) ==
  /\ t.b = PrepareReply(broker[s], v) /\ t.promises = {}
  /\ t.spawned \in {<<Answer(v)>>, <<Reload, Answer(v)>>}

Calling(s, t, r) ==
  /\ r.id = broker[s].nextId /\ r.from = s /\ r.heap = engine[s] /\ r.deadline > clock
  /\ t.b = InsertCall(broker[s], r) /\ t.promises = {r.id} /\ t.spawned = <<Forward(r)>>

IsRefused(s, t) ==
  /\ t.b = [broker[s] EXCEPT !.nextId = @ + 1] /\ t.promises = {} /\ t.spawned = <<>>

TurnForm(s, t) ==
  \/ Idles(s, t) \/ IsRefused(s, t)
  \/ \E v \in broker[s].invocations : Answers(s, t, v)
  \/ \E r \in Requests : Calling(s, t, r)

LEMMA RequestForm ==
  ASSUME CallsTypeOK, CallsAssumption, NEW s \in Sessions, NEW u \in Sessions,
         NEW k \in Timeouts, NEW depth \in Nat, NEW limit \in Nat, limit > clock
  PROVE  LET r == Request(s, broker[s], u, k, depth, limit) IN
         /\ r \in Requests /\ r.id = broker[s].nextId /\ r.from = s /\ r.heap = engine[s]
         /\ r.deadline > clock
<1>1. /\ clock \in Nat /\ k \in Nat \ {0} /\ engine[s] \in Nat
      /\ broker[s].nextId \in Nat
  BY DEF CallsTypeOK, CallsAssumption, Brokers
<1> DEFINE at == IF limit < clock + k THEN limit ELSE clock + k
<1>2. at \in Nat /\ at > clock
  BY <1>1
<1>3. Request(s, broker[s], u, k, depth, limit)
        = [from |-> s, heap |-> engine[s], id |-> broker[s].nextId, target |-> u,
           hops |-> depth + 1, deadline |-> at]
  BY DEF Request
<1> HIDE DEF at
<1> QED
  BY <1>1, <1>2, <1>3 DEF Requests

LEMMA CalledForm ==
  ASSUME CallsTypeOK, CallsAssumption, NEW s \in Sessions, NEW u \in Sessions,
         NEW k \in Timeouts, NEW depth \in Nat, NEW limit \in Nat, limit > clock
  PROVE  TurnForm(s, Called(s, broker[s], Request(s, broker[s], u, k, depth, limit)))
<1> DEFINE r == Request(s, broker[s], u, k, depth, limit)
           t == Called(s, broker[s], r)
<1>1. /\ r \in Requests /\ r.id = broker[s].nextId /\ r.from = s /\ r.heap = engine[s]
      /\ r.deadline > clock
  BY RequestForm
<1> HIDE DEF r
<1>2. CASE Cardinality(broker[s].pending) < MaxPending[s]
  <2>1. Calling(s, t, r)
    BY <1>1, <1>2 DEF Called, Turn, Calling
  <2> QED
    BY <1>1, <2>1 DEF TurnForm, r
<1>3. CASE ~(Cardinality(broker[s].pending) < MaxPending[s])
  <2>1. IsRefused(s, t)
    BY <1>3 DEF Called, Turn, IsRefused
  <2> QED
    BY <2>1 DEF TurnForm, r
<1> QED
  BY <1>2, <1>3

LEMMA CallTurnForm ==
  ASSUME CallsTypeOK, CallsAssumption, NEW s \in Sessions, NEW depth \in Nat,
         NEW parents \in SUBSET Parents(s, broker[s]), NEW alone,
         NEW t \in CallTurns(s, broker[s], depth, parents, alone)
  PROVE  TurnForm(s, t)
<1> DEFINE b == broker[s]
           timeouts == {k \in Timeouts : clock + k <= Horizon}
           targets == {u \in Reach[s] : Live(u)}
           allowed(hops) == Affordable("call") /\ b.ready /\ b.nextId < MaxId[s] /\ hops < MaxHops
           deepest(v) == IF v.req.hops > depth THEN v.req.hops ELSE depth
           single == {Called(s, b, Request(s, b, u, k, depth, clock + k)) :
                        u \in {w \in targets : alone /\ allowed(depth)}, k \in timeouts}
           nested(v) == {Called(s, b, Request(s, b, u, k, deepest(v), v.req.deadline)) :
                        u \in {w \in targets : allowed(deepest(v))}, k \in timeouts}
<1>1. t \in single \/ \E v \in parents : t \in nested(v)
  BY DEF CallTurns
<1>2. /\ targets \subseteq Sessions /\ timeouts \subseteq Timeouts
      /\ clock \in Nat /\ \A k \in Timeouts : k \in Nat \ {0}
  BY DEF CallsTypeOK, CallsAssumption
<1>3. CASE t \in single
  <2>1. PICK u \in targets, k \in timeouts : t = Called(s, b, Request(s, b, u, k, depth, clock + k))
    BY <1>3
  <2>2. u \in Sessions /\ k \in Timeouts /\ clock + k \in Nat /\ clock + k > clock
    BY <1>2
  <2> QED
    BY <2>1, <2>2, CalledForm
<1>4. ASSUME NEW v \in parents, t \in nested(v) PROVE TurnForm(s, t)
  <2>1. PICK u \in targets, k \in timeouts :
          t = Called(s, b, Request(s, b, u, k, deepest(v), v.req.deadline))
    BY <1>4
  <2>2. v \in Invocations /\ v.req.deadline > clock
    BY DEF Parents, CallsTypeOK, Brokers
  <2>3. deepest(v) \in Nat /\ v.req.deadline \in Nat
    BY <2>2 DEF Invocations, Requests
  <2>4. u \in Sessions /\ k \in Timeouts
    BY <1>2
  <2> HIDE DEF deepest
  <2> QED
    BY <2>1, <2>2, <2>3, <2>4, CalledForm
<1> QED
  BY <1>1, <1>3, <1>4

LEMMA ReloadTurnForm ==
  ASSUME NEW s, NEW t \in ReloadTurns(broker[s])
  PROVE  TurnForm(s, t)
BY DEF ReloadTurns, Turn, TurnForm, Idles

LEMMA PairConcat ==
  ASSUME NEW x, NEW y
  PROVE  <<x>> \o <<y>> = <<x, y>>
<1> DEFINE S == {x, y}
           q == <<x>> \o <<y>>
           p == <<x, y>>
<1>1. <<x>> \in Seq(S) /\ <<y>> \in Seq(S)
  OBVIOUS
<1>2. q \in Seq(S) /\ Len(q) = 2 /\ q[1] = x /\ q[2] = y
  <2>1. /\ q \in Seq(S) /\ Len(q) = Len(<<x>>) + Len(<<y>>)
        /\ \A i \in 1 .. Len(<<x>>) + Len(<<y>>) :
             q[i] = IF i <= Len(<<x>>) THEN <<x>>[i] ELSE <<y>>[i - Len(<<x>>)]
    BY <1>1, ConcatProperties
  <2>2. Len(<<x>>) = 1 /\ Len(<<y>>) = 1 /\ <<x>>[1] = x /\ <<y>>[1] = y
    OBVIOUS
  <2> HIDE DEF q
  <2> QED
    BY <2>1, <2>2
<1>3. p \in Seq(S) /\ Len(p) = 2 /\ p[1] = x /\ p[2] = y
  OBVIOUS
<1> HIDE DEF p, q
<1>4. \A i \in 1 .. Len(q) : q[i] = p[i]
  BY <1>2, <1>3
<1>5. q = p
  BY <1>2, <1>3, <1>4, SeqEqual
<1> QED
  BY <1>5 DEF p, q

LEMMA ImplementationTurnForm ==
  ASSUME CallsTypeOK, CallsAssumption, NEW s \in Sessions, NEW m, m.req \in Requests,
         NEW t \in ImplementationTurns(s, broker[s], m)
  PROVE  TurnForm(s, t)
<1> DEFINE answers == AnswerTurns(s, broker[s], {m.ticket})
           parents == {v \in Parents(s, broker[s]) : v.ticket = m.ticket}
<1>1. \/ t = Turn("none", broker[s], <<>>, {})
      \/ t \in ReloadTurns(broker[s])
      \/ t \in answers
      \/ \E a \in answers : t = [a EXCEPT !.cost = "disruption", !.spawned = <<Reload>> \o @]
      \/ t \in CallTurns(s, broker[s], m.req.hops, parents, FALSE)
  BY DEF ImplementationTurns
<1>2. CASE t = Turn("none", broker[s], <<>>, {})
  BY <1>2 DEF Turn, TurnForm, Idles
<1>3. CASE t \in ReloadTurns(broker[s])
  BY <1>3, ReloadTurnForm
<1>4. CASE t \in answers
  <2>1. PICK v \in broker[s].invocations :
          t.b = PrepareReply(broker[s], v) /\ t.promises = {} /\ t.spawned = <<Answer(v)>>
    BY <1>4 DEF AnswerTurns, Turn
  <2> QED
    BY <2>1 DEF TurnForm, Answers
<1>5. ASSUME NEW a \in answers, t = [a EXCEPT !.cost = "disruption", !.spawned = <<Reload>> \o @]
      PROVE  TurnForm(s, t)
  <2>1. PICK v \in broker[s].invocations :
          a = Turn("none", PrepareReply(broker[s], v), <<Answer(v)>>, {})
    BY <1>5 DEF AnswerTurns
  <2>2. /\ t.b = PrepareReply(broker[s], v) /\ t.promises = {}
        /\ t.spawned = <<Reload>> \o <<Answer(v)>>
    BY <1>5, <2>1 DEF Turn
  <2>3. <<Reload>> \o <<Answer(v)>> = <<Reload, Answer(v)>>
    BY PairConcat
  <2> QED
    BY <2>2, <2>3 DEF TurnForm, Answers
<1>6. CASE t \in CallTurns(s, broker[s], m.req.hops, parents, FALSE)
  <2>1. m.req.hops \in Nat /\ parents \in SUBSET Parents(s, broker[s])
    BY DEF Requests
  <2> QED
    BY <1>6, <2>1, CallTurnForm
<1> QED
  BY <1>1, <1>2, <1>3, <1>4, <1>5, <1>6

-----------------------------------------------------------------------------
\* How a broker may change: its counter only grows, and what is new in it is
\* numbered afresh.

Grows(b, c) ==
  /\ b.nextId <= c.nextId
  /\ \A p \in c.pending : p \in b.pending \/ p.id >= b.nextId
  /\ \A w \in c.invocations :
       w.ticket >= b.nextId \/ \E x \in b.invocations : w.ticket = x.ticket /\ w.req = x.req

Fits(s, c) ==
  /\ Good(c) /\ Grows(broker[s], c)
  /\ \A p \in c.pending : p.from = s /\ p.heap = engine[s]

LEMMA GrowsRefl ==
  ASSUME NEW b \in Brokers
  PROVE  Grows(b, b)
BY DEF Grows, Brokers

LEMMA BrokerOf ==
  ASSUME CallsTypeOK, Brokered, NEW s \in Sessions
  PROVE  /\ broker[s] \in Brokers /\ Distinct(broker[s])
         /\ Up(s) => Fits(s, broker[s])
         /\ broker[s].nextId \in Nat
         /\ broker[s].pending \subseteq Requests /\ broker[s].invocations \subseteq Invocations
         /\ broker[s].deadlines \subseteq [at : Nat, of : {"call", "invocation"}, id : Nat]
<1>1. broker[s] \in Brokers
  BY DEF CallsTypeOK
<1> QED
  BY <1>1, GrowsRefl DEF Brokered, Fits, Good, Brokers

LEMMA SpendIdFits ==
  ASSUME CallsTypeOK, Brokered, NEW s \in Sessions, Up(s)
  PROVE  /\ Fits(s, [broker[s] EXCEPT !.nextId = @ + 1])
         /\ [broker[s] EXCEPT !.nextId = @ + 1].pending = broker[s].pending
         /\ [broker[s] EXCEPT !.nextId = @ + 1].invocations = broker[s].invocations
         /\ [broker[s] EXCEPT !.nextId = @ + 1].deadlines = broker[s].deadlines
<1> DEFINE b == broker[s]
           c == [b EXCEPT !.nextId = @ + 1]
<1>1. Fits(s, b) /\ b.nextId \in Nat
  BY BrokerOf
<1> HIDE DEF b
<1>2. /\ Good(c) /\ c.pending = b.pending /\ c.invocations = b.invocations
      /\ c.deadlines = b.deadlines /\ c.nextId = b.nextId + 1
  BY <1>1, SpendIdKeeps DEF Fits
<1> HIDE DEF c
<1>3. Grows(b, c)
  BY <1>1, <1>2 DEF Grows
<1>4. \A p \in c.pending : p.from = s /\ p.heap = engine[s]
  BY <1>1, <1>2 DEF Fits
<1> QED
  BY <1>2, <1>3, <1>4 DEF Fits, b, c

LEMMA InsertCallFits ==
  ASSUME CallsTypeOK, Brokered, NEW s \in Sessions, Up(s), NEW r \in Requests,
         r.id = broker[s].nextId, r.from = s, r.heap = engine[s]
  PROVE  LET c == InsertCall(broker[s], r) IN
         /\ Fits(s, c) /\ c.pending = broker[s].pending \cup {r}
         /\ c.nextId = broker[s].nextId + 1
         /\ c.invocations = broker[s].invocations
         /\ c.deadlines = broker[s].deadlines \cup {CallEntry(r)}
<1> DEFINE b == broker[s]
           c == InsertCall(b, r)
<1>1. Fits(s, b) /\ b.nextId \in Nat /\ b \in Brokers
  BY BrokerOf
<1>2. r.id = b.nextId
  OBVIOUS
<1> HIDE DEF b
<1>3. /\ Good(c) /\ c.pending = b.pending \cup {r} /\ c.invocations = b.invocations
      /\ c.deadlines = b.deadlines \cup {CallEntry(r)} /\ c.nextId = b.nextId + 1
  BY <1>1, <1>2, InsertCallKeeps, InsertCallFields DEF Fits
<1> HIDE DEF c
<1>4. Grows(b, c)
  BY <1>1, <1>2, <1>3 DEF Grows
<1>5. \A p \in c.pending : p.from = s /\ p.heap = engine[s]
  BY <1>1, <1>3 DEF Fits
<1> QED
  BY <1>3, <1>4, <1>5 DEF Fits, b, c

LEMMA RemoveCallFits ==
  ASSUME CallsTypeOK, Brokered, NEW s \in Sessions, Up(s), NEW r \in broker[s].pending
  PROVE  LET c == RemoveCall(broker[s], r) IN
         /\ Fits(s, c) /\ c.pending = broker[s].pending \ {r}
         /\ c.invocations = broker[s].invocations
         /\ c.deadlines \subseteq broker[s].deadlines /\ c.nextId = broker[s].nextId
<1> DEFINE b == broker[s]
           c == RemoveCall(b, r)
<1>1. Fits(s, b) /\ b.nextId \in Nat /\ r \in b.pending
  BY BrokerOf
<1> HIDE DEF b
<1>2. /\ Good(c) /\ c.pending = b.pending \ {r} /\ c.invocations = b.invocations
      /\ c.deadlines \subseteq b.deadlines /\ c.nextId = b.nextId
  BY <1>1, RemoveCallKeeps DEF Fits
<1> HIDE DEF c
<1>3. Grows(b, c)
  BY <1>1, <1>2 DEF Grows
<1>4. \A p \in c.pending : p.from = s /\ p.heap = engine[s]
  BY <1>1, <1>2 DEF Fits
<1> QED
  BY <1>2, <1>3, <1>4 DEF Fits, b, c

LEMMA StartInvocationFits ==
  ASSUME CallsTypeOK, Brokered, NEW s \in Sessions, Up(s), NEW r \in Requests,
         CanStart(s, broker[s], r)
  PROVE  LET c == StartInvocation(broker[s], r, engine[s]) IN
         /\ Fits(s, c) /\ c.pending = broker[s].pending
         /\ \E v : /\ c.invocations = broker[s].invocations \cup {v} /\ v.req = r
                   /\ v.ticket = broker[s].nextId
                   /\ c.deadlines = broker[s].deadlines \cup {InvocationEntry(v)}
         /\ r.deadline > clock
<1> DEFINE b == broker[s]
           heap == engine[s]
           c == StartInvocation(b, r, heap)
           v == NewInvocation(b, r, heap)
<1>1. /\ Fits(s, b) /\ b.nextId \in Nat /\ heap \in Nat
      /\ ~\E k \in b.incomingKeys : k[1] = Key(r)
  BY BrokerOf DEF CallsTypeOK, CanStart
<1>5. r.deadline > clock
  BY DEF CanStart
<1> HIDE DEF b, heap
<1>2. /\ Good(c) /\ c.pending = b.pending /\ c.invocations = b.invocations \cup {v}
      /\ c.deadlines = b.deadlines \cup {InvocationEntry(v)} /\ c.nextId = b.nextId + 1
      /\ v.req = r /\ v.ticket = b.nextId
  BY <1>1, StartInvocationKeeps DEF Fits
<1> HIDE DEF c, v
<1>3. Grows(b, c)
  BY <1>1, <1>2 DEF Grows
<1>4. \A p \in c.pending : p.from = s /\ p.heap = engine[s]
  BY <1>1, <1>2 DEF Fits
<1> QED
  BY <1>2, <1>3, <1>4, <1>5 DEF Fits, b, c, heap

LEMMA RemoveInvocationFits ==
  ASSUME CallsTypeOK, Brokered, NEW s \in Sessions, Up(s), NEW v \in broker[s].invocations
  PROVE  LET c == RemoveInvocation(broker[s], v) IN
         /\ Fits(s, c) /\ c.pending = broker[s].pending
         /\ c.invocations = broker[s].invocations \ {v}
         /\ c.deadlines \subseteq broker[s].deadlines /\ c.nextId = broker[s].nextId
<1> DEFINE b == broker[s]
           c == RemoveInvocation(b, v)
<1>1. Fits(s, b) /\ b.nextId \in Nat /\ v \in b.invocations
  BY BrokerOf
<1> HIDE DEF b
<1>2. /\ Good(c) /\ c.pending = b.pending /\ c.invocations = b.invocations \ {v}
      /\ c.deadlines \subseteq b.deadlines /\ c.nextId = b.nextId
  BY <1>1, RemoveInvocationKeeps DEF Fits
<1> HIDE DEF c
<1>3. Grows(b, c)
  BY <1>1, <1>2 DEF Grows
<1>4. \A p \in c.pending : p.from = s /\ p.heap = engine[s]
  BY <1>1, <1>2 DEF Fits
<1> QED
  BY <1>2, <1>3, <1>4 DEF Fits, b, c

LEMMA PrepareReplyFits ==
  ASSUME CallsTypeOK, Brokered, NEW s \in Sessions, Up(s), NEW v \in broker[s].invocations
  PROVE  LET c == PrepareReply(broker[s], v) IN
         /\ Fits(s, c) /\ c.pending = broker[s].pending
         /\ c.deadlines = broker[s].deadlines /\ c.nextId = broker[s].nextId
         /\ \A w \in c.invocations :
              \E x \in broker[s].invocations : w.ticket = x.ticket /\ w.req = x.req
         /\ \A x \in broker[s].invocations :
              \E w \in c.invocations : w.ticket = x.ticket /\ w.req = x.req
<1> DEFINE b == broker[s]
           c == PrepareReply(b, v)
<1>1. Fits(s, b) /\ b.nextId \in Nat /\ v \in b.invocations
  BY BrokerOf
<1> HIDE DEF b
<1>2. /\ Good(c) /\ c.pending = b.pending /\ c.deadlines = b.deadlines /\ c.nextId = b.nextId
      /\ \A w \in c.invocations : \E x \in b.invocations : w.ticket = x.ticket /\ w.req = x.req
      /\ \A x \in b.invocations : \E w \in c.invocations : w.ticket = x.ticket /\ w.req = x.req
  BY <1>1, PrepareReplyKeeps DEF Fits
<1> HIDE DEF c
<1>3. Grows(b, c)
  BY <1>1, <1>2 DEF Grows
<1>4. \A p \in c.pending : p.from = s /\ p.heap = engine[s]
  BY <1>1, <1>2 DEF Fits
<1> QED
  BY <1>2, <1>3, <1>4 DEF Fits, b, c

-----------------------------------------------------------------------------
\* Sending and taking messages.

LEMMA MessageForms ==
  ASSUME NEW r \in Requests, NEW v \in Invocations, NEW n \in Nat
  PROVE  /\ Forward(r) \in Messages /\ Forward(r).kind = "forward" /\ Forward(r).req = r
         /\ Call(r) \in Messages /\ Call(r).kind = "call" /\ Call(r).req = r
         /\ Cancel(r) \in Messages /\ Cancel(r).kind = "cancel" /\ Cancel(r).req = r
         /\ Reply(r) \in Messages /\ Reply(r).kind = "reply" /\ Reply(r).req = r
         /\ Settle(r) \in Messages /\ Settle(r).kind = "settle" /\ Settle(r).req = r
         /\ Invoke(r, n) \in Messages /\ Invoke(r, n).kind = "invoke"
         /\ Answer(v) \in Messages /\ Answer(v).kind = "answer" /\ Answer(v).req = v.req
         /\ Answer(v).ticket = v.ticket
         /\ Reload \in Messages /\ Reload.kind = "reload"
         /\ Expire \in Messages /\ Expire.kind = "expire"
         /\ v.req \in Requests
BY DEF Messages, Forward, Call, Cancel, Reply, Settle, Invoke, Answer, Reload, Expire, Invocations

LEMMA MessageRequest ==
  ASSUME NEW m \in Messages,
         m.kind \in {"forward", "call", "cancel", "reply", "settle", "invoke", "answer"}
  PROVE  /\ m.req \in Requests
         /\ m.req.from \in Sessions /\ m.req.target \in Sessions /\ m.req.id \in Nat
         /\ m.kind = "forward" => m = Forward(m.req)
         /\ m.kind = "call" => m = Call(m.req)
         /\ m.kind = "reply" => m = Reply(m.req)
         /\ m.kind = "settle" => m = Settle(m.req)
         /\ m.kind = "answer" => m.ticket \in Nat
<1>1. m.req \in Requests /\ m.kind = "answer" => m.ticket \in Nat
  BY DEF Messages, Reload, Expire
<1>2. m.req \in Requests
  BY DEF Messages, Reload, Expire
<1>3. CASE m.kind \in {"forward", "call", "cancel", "reply", "settle"}
  <2>1. m \in [kind : {"forward", "call", "cancel", "reply", "settle"}, req : Requests]
    BY <1>3 DEF Messages, Reload, Expire
  <2>2. m = [kind |-> m.kind, req |-> m.req]
    BY <2>1
  <2> QED
    BY <1>1, <1>2, <1>3, <2>2 DEF Requests, Forward, Call, Reply, Settle
<1>4. CASE m.kind \in {"invoke", "answer"}
  BY <1>1, <1>2, <1>4 DEF Requests
<1> QED
  BY <1>3, <1>4

LEMMA SentMail ==
  ASSUME NEW box \in [Sessions -> Seq(Messages)], NEW to \in Sessions, NEW m \in Messages,
         NEW after, after = Sent(box, to, m)
  PROVE  /\ after \in [Sessions -> Seq(Messages)]
         /\ \A u \in Sessions : u # to \/ ~Live(to) => after[u] = box[u]
         /\ \A u \in Sessions : ~Live(u) => after[u] = box[u]
         /\ Live(to) => after[to] = Append(box[to], m)
<1>1. CASE Live(to)
  <2>1. after = [box EXCEPT ![to] = Append(box[to], m)]
    BY <1>1 DEF Sent
  <2>2. box[to] \in Seq(Messages)
    OBVIOUS
  <2>3. Mail(Append(box[to], m)) = Mail(box[to]) \cup {m} /\ Append(box[to], m) \in Seq(Messages)
    BY <2>2, MailAppend, AppendProperties
  <2>4. /\ after[to] = Append(box[to], m)
        /\ \A u \in Sessions : u # to => after[u] = box[u]
        /\ after \in [Sessions -> Seq(Messages)]
    <3> DEFINE q == Append(box[to], m)
    <3>1. q \in Seq(Messages) /\ after = [box EXCEPT ![to] = q]
      BY <2>1, <2>3
    <3> HIDE DEF q
    <3>2. /\ after[to] = q
          /\ \A u \in Sessions : u # to => after[u] = box[u]
          /\ after \in [Sessions -> Seq(Messages)]
      BY <3>1
    <3> QED
      BY <3>2 DEF q
  <2>5. Mail(after[to]) = Mail(box[to]) \cup {m}
    BY <2>3, <2>4
  <2> QED
    BY <1>1, <2>4, <2>5
<1>2. CASE ~Live(to)
  <2>1. after = box
    BY <1>2 DEF Sent
  <2> QED
    BY <1>2, <2>1
<1> QED
  BY <1>1, <1>2

LEMMA SentNew ==
  ASSUME NEW box \in [Sessions -> Seq(Messages)], NEW to \in Sessions, NEW m \in Messages,
         NEW after, after = Sent(box, to, m)
  PROVE  \A u \in Sessions : Mail(after[u]) \subseteq Mail(box[u]) \cup {m}
<1> SUFFICES ASSUME NEW u \in Sessions, NEW n \in Mail(after[u]) PROVE n \in Mail(box[u]) \/ n = m
  OBVIOUS
<1>1. CASE after[u] = box[u]
  BY <1>1
<1>2. CASE after[u] # box[u]
  <2>1. u = to /\ Live(to)
    BY <1>2, SentMail
  <2>2. after[to] = Append(box[to], m) /\ box[to] \in Seq(Messages)
    BY <2>1, SentMail
  <2>3. Mail(Append(box[to], m)) = Mail(box[to]) \cup {m}
    BY <2>2, MailAppend
  <2>4. n \in Mail(Append(box[to], m))
    BY <2>1, <2>2
  <2> QED
    BY <2>1, <2>3, <2>4
<1> QED
  BY <1>1, <1>2

LEMMA SentOld ==
  ASSUME NEW box \in [Sessions -> Seq(Messages)], NEW to \in Sessions, NEW m \in Messages,
         NEW after, after = Sent(box, to, m)
  PROVE  /\ \A u \in Sessions : Mail(box[u]) \subseteq Mail(after[u])
         /\ Live(to) => m \in Mail(after[to])
<1>1. box[to] \in Seq(Messages)
  OBVIOUS
<1>2. Mail(Append(box[to], m)) = Mail(box[to]) \cup {m}
  BY <1>1, MailAppend
<1>3. Live(to) => after[to] = Append(box[to], m)
  BY SentMail
<1>4. \A u \in Sessions : u # to \/ ~Live(to) => after[u] = box[u]
  BY SentMail
<1>5. ASSUME NEW u \in Sessions PROVE Mail(box[u]) \subseteq Mail(after[u])
  <2>1. CASE u # to \/ ~Live(to)
    BY <1>4, <2>1
  <2>2. CASE u = to /\ Live(to)
    <3>1. Mail(after[to]) = Mail(box[to]) \cup {m}
      BY <1>2, <1>3, <2>2
    <3> QED
      BY <2>2, <3>1
  <2> QED
    BY <2>1, <2>2
<1>6. ASSUME Live(to) PROVE m \in Mail(after[to])
  <2>1. Mail(after[to]) = Mail(box[to]) \cup {m}
    BY <1>2, <1>3, <1>6
  <2> QED
    BY <2>1
<1> QED
  BY <1>5, <1>6

LEMMA TakenMail ==
  ASSUME CallsTypeOK, NEW s \in Sessions, Busy(s)
  PROVE  /\ Taken(s) \in [Sessions -> Seq(Messages)] /\ Rest(s) \in Seq(Messages)
         /\ Current(s) \in Messages /\ Current(s) \in Waits(s)
         /\ \A u \in Sessions : u # s => Taken(s)[u] = inbox[u]
         /\ Mail(Taken(s)[s]) \subseteq Mail(inbox[s]) /\ Mail(Rest(s)) \subseteq Mail(expansion[s])
         /\ expansion[s] # <<>> =>
              /\ Taken(s)[s] = inbox[s] /\ Current(s) = Head(expansion[s])
              /\ Rest(s) = Tail(expansion[s])
              /\ Mail(expansion[s]) = {Current(s)} \cup Mail(Rest(s))
              /\ Current(s) \in Mail(expansion[s])
         /\ expansion[s] = <<>> =>
              /\ Rest(s) = <<>> /\ Current(s) = Head(inbox[s]) /\ inbox[s] # <<>>
              /\ Taken(s)[s] = Tail(inbox[s])
              /\ Mail(inbox[s]) = {Current(s)} \cup Mail(Taken(s)[s])
              /\ Current(s) \in Mail(inbox[s])
         /\ Waits(s) = {Current(s)} \cup Mail(Taken(s)[s]) \cup Mail(Rest(s)) \cup Mail(kept[s])
<1>1. /\ inbox \in [Sessions -> Seq(Messages)] /\ inbox[s] \in Seq(Messages)
      /\ expansion[s] \in Seq(Messages)
  BY DEF CallsTypeOK
<1>2. CASE expansion[s] # <<>>
  <2>1. Taken(s) = inbox /\ Current(s) = Head(expansion[s]) /\ Rest(s) = Tail(expansion[s])
    BY <1>2 DEF Taken, Current, Rest
  <2>2. /\ Head(expansion[s]) \in Messages /\ Tail(expansion[s]) \in Seq(Messages)
        /\ Mail(expansion[s]) = {Head(expansion[s])} \cup Mail(Tail(expansion[s]))
    BY <1>1, <1>2, MailHead
  <2> QED
    BY <1>1, <1>2, <2>1, <2>2 DEF Waits
<1>3. CASE expansion[s] = <<>>
  <2>1. /\ Taken(s) = [inbox EXCEPT ![s] = Tail(inbox[s])] /\ Current(s) = Head(inbox[s])
        /\ Rest(s) = <<>> /\ inbox[s] # <<>>
    BY <1>3 DEF Taken, Current, Rest, Busy
  <2>2. /\ Head(inbox[s]) \in Messages /\ Tail(inbox[s]) \in Seq(Messages)
        /\ Mail(inbox[s]) = {Head(inbox[s])} \cup Mail(Tail(inbox[s]))
    BY <1>1, <2>1, MailHead
  <2>3. Mail(<<>>) = {}
    BY MailEmpty
  <2>4. <<>> \in Seq(Messages)
    OBVIOUS
  <2>5. /\ Taken(s) \in [Sessions -> Seq(Messages)] /\ Taken(s)[s] = Tail(inbox[s])
        /\ \A u \in Sessions : u # s => Taken(s)[u] = inbox[u]
    <3> DEFINE q == Tail(inbox[s])
    <3>1. q \in Seq(Messages) /\ Taken(s) = [inbox EXCEPT ![s] = q]
      BY <2>1, <2>2
    <3> HIDE DEF q
    <3>2. /\ Taken(s) \in [Sessions -> Seq(Messages)] /\ Taken(s)[s] = q
          /\ \A u \in Sessions : u # s => Taken(s)[u] = inbox[u]
      BY <1>1, <3>1
    <3> QED
      BY <3>2 DEF q
  <2> QED
    BY <1>3, <2>1, <2>2, <2>3, <2>4, <2>5 DEF Waits
<1> QED
  BY <1>2, <1>3

LEMMA Expanded ==
  ASSUME CallsTypeOK, NEW s \in Sessions, Busy(s), NEW q \in Seq(Messages), Expand(s, q)
  PROVE  /\ expansion' \in [Sessions -> Seq(Messages)]
         /\ Mail(expansion'[s]) = Mail(q) \cup Mail(Rest(s))
         /\ expansion'[s] = q \o Rest(s)
         /\ \A u \in Sessions : u # s => expansion'[u] = expansion[u]
<1>1. Rest(s) \in Seq(Messages) /\ expansion \in [Sessions -> Seq(Messages)]
  BY TakenMail DEF CallsTypeOK
<1> DEFINE e == q \o Rest(s)
<1>2. e \in Seq(Messages) /\ Mail(e) = Mail(q) \cup Mail(Rest(s))
  BY <1>1, MailConcat, ConcatProperties
<1>3. expansion' = [expansion EXCEPT ![s] = e]
  BY DEF Expand
<1> HIDE DEF e
<1>4. /\ expansion' \in [Sessions -> Seq(Messages)] /\ expansion'[s] = e
      /\ \A u \in Sessions : u # s => expansion'[u] = expansion[u]
  BY <1>1, <1>2, <1>3
<1> QED
  BY <1>2, <1>4 DEF e

LEMMA BrokerSet ==
  ASSUME CallsTypeOK, NEW s \in Sessions, NEW c \in Brokers, SetBroker(s, c)
  PROVE  /\ broker' \in [Sessions -> Brokers] /\ broker'[s] = c
         /\ \A u \in Sessions : u # s => broker'[u] = broker[u]
BY DEF CallsTypeOK, SetBroker

-----------------------------------------------------------------------------
\* What keeps the parts of the invariant.

LEMMA BrokeredKept ==
  ASSUME CallsTypeOK, Brokered, NEW s \in Sessions,
         Fits(s, broker'[s]),
         \A u \in Sessions : u # s => broker'[u] = broker[u] /\ awaiting'[u] = awaiting[u]
                                      /\ (Up(u)' => Up(u)),
         engine' = engine,
         \A i \in awaiting'[s] : i \in awaiting[s] \/ i < broker'[s].nextId
  PROVE  Brokered'
<1>1. /\ Good(broker'[s]) /\ broker[s].nextId <= broker'[s].nextId
      /\ \A p \in broker'[s].pending : p.from = s /\ p.heap = engine[s]
  BY DEF Fits, Grows
<1>2. broker[s].nextId \in Nat /\ broker'[s].nextId \in Nat /\ awaiting[s] \subseteq Nat
  BY <1>1, BrokerOf DEF Good, Brokers, CallsTypeOK
<1>3. ASSUME NEW u \in Sessions
      PROVE  /\ Distinct(broker'[u]) /\ (Up(u)' => Tracked(broker'[u]))
             /\ \A r \in broker'[u].pending : r.from = u /\ r.heap = engine'[u]
             /\ \A i \in awaiting'[u] : i < broker'[u].nextId
  <2>1. CASE u = s
    <3>1. \A i \in awaiting'[s] : i < broker'[s].nextId
      BY <1>1, <1>2 DEF Brokered
    <3> QED
      BY <1>1, <2>1, <3>1 DEF Good
  <2>2. CASE u # s
    BY <2>2 DEF Brokered
  <2> QED
    BY <2>1, <2>2
<1>4. \A u \in Sessions : 
             /\ Distinct(broker[u])' /\ (Up(u)' => Tracked(broker[u])')
             /\ \A r \in broker'[u].pending : r.from = u /\ r.heap = engine'[u]
             /\ \A i \in awaiting'[u] : i < broker'[u].nextId
  BY <1>3 DEF Distinct, Tracked, NextDeadline
<1> QED
  BY <1>4 DEF Brokered

LEMMA SpentKept ==
  ASSUME NEW b \in Brokers, NEW c \in Brokers, Grows(b, c), NEW m, m.req \in Requests,
         m.req.id < b.nextId, \A p \in b.pending : Key(p) # Key(m.req)
  PROVE  m.req.id < c.nextId /\ \A p \in c.pending : Key(p) # Key(m.req)
<1>1. m.req.id \in Nat /\ b.nextId \in Nat /\ c.nextId \in Nat /\ b.nextId <= c.nextId
  BY DEF Requests, Brokers, Grows
<1>2. ASSUME NEW p \in c.pending, p.id >= b.nextId PROVE Key(p) # Key(m.req)
  <2>1. p.id \in Nat
    BY DEF Brokers, Requests
  <2>2. p.id # m.req.id
    BY <1>1, <1>2, <2>1
  <2> QED
    BY <2>2 DEF Key
<1> QED
  BY <1>1, <1>2 DEF Grows

LEMMA MatchKept ==
  ASSUME NEW b \in Brokers, NEW c \in Brokers, Grows(b, c), NEW m, m.ticket \in Nat,
         m.ticket < b.nextId, \A v \in b.invocations : v.ticket = m.ticket => v.req = m.req
  PROVE  m.ticket < c.nextId /\ \A v \in c.invocations : v.ticket = m.ticket => v.req = m.req
<1>1. b.nextId \in Nat /\ c.nextId \in Nat /\ b.nextId <= c.nextId
  BY DEF Brokers, Grows
<1>2. ASSUME NEW v \in c.invocations, v.ticket = m.ticket PROVE v.req = m.req
  <2>1. ~(v.ticket >= b.nextId)
    BY <1>1, <1>2
  <2>2. PICK x \in b.invocations : v.ticket = x.ticket /\ v.req = x.req
    BY <2>1 DEF Grows
  <2> QED
    BY <1>2, <2>2
<1> QED
  BY <1>1, <1>2

NewMail(u, m) ==
  /\ m.kind = "cancel" => CancelSpent(m)
  /\ m.kind = "answer" => AnswerMatches(u, m)

LEMMA PostedKept ==
  ASSUME CallsTypeOK, Posted, CallsTypeOK',
         \A u \in Sessions : Grows(broker[u], broker'[u]),
         \A u \in Sessions : \A m \in Mail(expansion'[u]) :
            \/ m \in Mail(expansion[u])
            \/ /\ m.kind \in {"forward", "settle", "invoke", "answer", "reload"}
               /\ m.kind = "answer" => AnswerMatches(u, m)',
         \A u \in Sessions : \A m \in Mail(inbox'[u]) \cup Mail(kept'[u]) :
            \/ m \in Mail(inbox[u]) \cup Mail(kept[u])
            \/ m.kind # "settle" /\ NewMail(u, m)'
  PROVE  Posted'
<1>1. \A u \in Sessions : broker[u] \in Brokers /\ broker'[u] \in Brokers
  BY DEF CallsTypeOK
<1>2. ASSUME NEW u \in Sessions, NEW m \in Waits(u)
      PROVE  NewMail(u, m)'
  <2>1. m \in Messages
    BY MailTyped DEF Waits, CallsTypeOK
  <2>2. ASSUME m.kind = "cancel" PROVE CancelSpent(m)'
    <3>1. m.req \in Requests /\ m.req.from \in Sessions
      BY <2>1, <2>2, MessageRequest
    <3>2. CancelSpent(m)
      BY <2>2 DEF Posted
    <3>3. m.req.id < broker'[m.req.from].nextId
          /\ \A p \in broker'[m.req.from].pending : Key(p) # Key(m.req)
      BY <1>1, <3>1, <3>2, SpentKept DEF CancelSpent
    <3> QED
      BY <3>3 DEF CancelSpent
  <2>3. ASSUME m.kind = "answer" PROVE AnswerMatches(u, m)'
    <3>1. m.ticket \in Nat
      BY <2>1, <2>3, MessageRequest
    <3>2. AnswerMatches(u, m)
      BY <2>3 DEF Posted
    <3>3. m.ticket < broker'[u].nextId
          /\ \A v \in broker'[u].invocations : v.ticket = m.ticket => v.req = m.req
      BY <1>1, <3>1, <3>2, MatchKept DEF AnswerMatches
    <3> QED
      BY <3>3 DEF AnswerMatches
  <2> QED
    BY <2>2, <2>3 DEF NewMail
<1>3. ASSUME NEW u \in Sessions, NEW m \in Mail(expansion'[u])
      PROVE  m.kind \in {"forward", "settle", "invoke", "answer", "reload"} /\ NewMail(u, m)'
  <2>1. CASE m \in Mail(expansion[u])
    BY <1>2, <2>1 DEF Posted, Waits
  <2>2. CASE m \notin Mail(expansion[u])
    BY <2>2 DEF NewMail
  <2> QED
    BY <2>1, <2>2
<1>4. ASSUME NEW u \in Sessions, NEW m \in Mail(inbox'[u]) \cup Mail(kept'[u])
      PROVE  m.kind # "settle" /\ NewMail(u, m)'
  <2>1. CASE m \in Mail(inbox[u]) \cup Mail(kept[u])
    BY <1>2, <2>1 DEF Posted, Waits
  <2>2. CASE m \notin Mail(inbox[u]) \cup Mail(kept[u])
    BY <2>2
  <2> QED
    BY <2>1, <2>2
<1>5. \A u \in Sessions : \A m \in Waits(u)' : NewMail(u, m)'
  BY <1>3, <1>4 DEF Waits, Mail
<1>6. /\ \A u \in Sessions : \A m \in Mail(expansion[u])' :
            m.kind \in {"forward", "settle", "invoke", "answer", "reload"}
      /\ \A u \in Sessions : \A m \in (Mail(inbox[u]) \cup Mail(kept[u]))' : m.kind # "settle"
  BY <1>3, <1>4 DEF Mail
<1> QED
  BY <1>5, <1>6 DEF Posted, NewMail

\* A step of a session that is up, as far as the invariant can tell.
Steps(s) ==
  /\ inbox' \in [Sessions -> Seq(Messages)] /\ expansion' \in [Sessions -> Seq(Messages)]
  /\ broker' \in [Sessions -> Brokers] /\ awaiting' \in [Sessions -> SUBSET Nat]
  /\ budget' \in [{"call", "disruption"} -> Int]
  /\ stage' \in [Sessions -> Stages] /\ fired' \in [Sessions -> Nat]
  /\ clock' = clock /\ engine' = engine /\ kept' = kept
  /\ stage'[s] \in {"running", "expiring"}
  /\ \A u \in Sessions : u # s =>
       /\ expansion'[u] = expansion[u] /\ broker'[u] = broker[u]
       /\ awaiting'[u] = awaiting[u] /\ stage'[u] = stage[u]
  /\ \A u \in Sessions : ~Live(u) => inbox'[u] = inbox[u]
  /\ Fits(s, broker'[s])
  /\ \A i \in awaiting'[s] : i \in awaiting[s] \/ i < broker'[s].nextId

LEMMA StepKeeps ==
  ASSUME CallsInv, NEW s \in Sessions, Up(s), Steps(s),
         \A m \in Mail(expansion'[s]) :
            \/ m \in Mail(expansion[s])
            \/ /\ m.kind \in {"forward", "settle", "invoke", "answer", "reload"}
               /\ m.kind = "answer" => AnswerMatches(s, m)',
         \A u \in Sessions : \A m \in Mail(inbox'[u]) :
            m \in Mail(inbox[u]) \/ (m.kind # "settle" /\ NewMail(u, m)')
  PROVE  CallsInv'
<1>1. CallsTypeOK /\ Brokered /\ Staged /\ Posted
  BY DEF CallsInv
<1>2. CallsTypeOK'
  BY <1>1 DEF CallsTypeOK, Steps
<1>3. \A u \in Sessions : broker[u] \in Brokers
  BY <1>1 DEF CallsTypeOK
<1>4. \A u \in Sessions : u # s => Up(u)' = Up(u) /\ Live(u)' = Live(u)
  BY DEF Steps, Up, Live
<1>5. Up(s)' /\ Live(s)' /\ Live(s) /\ stage[s] # "reloading" /\ stage'[s] # "reloading"
  BY DEF Steps, Up, Live
<1>6. Brokered'
  <2>1. \A u \in Sessions : u # s => broker'[u] = broker[u] /\ awaiting'[u] = awaiting[u]
                                      /\ (Up(u)' => Up(u))
    BY <1>4 DEF Steps
  <2> QED
    BY <1>1, <2>1, BrokeredKept DEF Steps
<1>7. Staged'
  <2>1. ASSUME NEW u \in Sessions
        PROVE  /\ ~Up(u)' => expansion'[u] = <<>>
               /\ stage'[u] # "reloading" => kept'[u] = <<>>
               /\ ~Live(u)' => inbox'[u] = <<>>
    <3>1. CASE u = s
      BY <1>1, <1>5, <3>1 DEF Staged, Steps
    <3>2. CASE u # s
      BY <1>1, <1>4, <3>2 DEF Staged, Steps
    <3> QED
      BY <3>1, <3>2
  <2> QED
    BY <2>1 DEF Staged
<1>8. Posted'
  <2>1. \A u \in Sessions : Grows(broker[u], broker'[u])
    BY <1>3, GrowsRefl DEF Steps, Fits
  <2>2. \A u \in Sessions : \A m \in Mail(expansion'[u]) :
            \/ m \in Mail(expansion[u])
            \/ /\ m.kind \in {"forward", "settle", "invoke", "answer", "reload"}
               /\ m.kind = "answer" => AnswerMatches(u, m)'
    BY DEF Steps
  <2>3. \A u \in Sessions : \A m \in Mail(inbox'[u]) \cup Mail(kept'[u]) :
            \/ m \in Mail(inbox[u]) \cup Mail(kept[u])
            \/ m.kind # "settle" /\ NewMail(u, m)'
    BY DEF Steps
  <2> QED
    BY <1>1, <1>2, <2>1, <2>2, <2>3, PostedKept
<1> QED
  BY <1>2, <1>6, <1>7, <1>8 DEF CallsInv

\* A message that brings no obligation along.
Plain(m) == m.kind \in {"forward", "call", "reply", "invoke", "reload", "expire"}

\* An action that takes one message, puts the actions q in its place and sends
\* at most one.
Handles(s, q) ==
  /\ Busy(s) /\ Expand(s, q)
  /\ \/ inbox' = Taken(s)
     \/ \E u \in Sessions, m \in Messages : inbox' = Sent(Taken(s), u, m) /\ Plain(m)
  /\ UNCHANGED <<clock, engine, kept, fired>>

LEMMA PlainSent ==
  ASSUME NEW box \in [Sessions -> Seq(Messages)], NEW u \in Sessions, NEW m \in Messages,
         inbox' = Sent(box, u, m)
  PROVE  /\ inbox' \in [Sessions -> Seq(Messages)]
         /\ \A v \in Sessions : \A n \in Mail(inbox'[v]) : n \in Mail(box[v]) \/ n = m
         /\ \A v \in Sessions : ~Live(v) => inbox'[v] = box[v]
<1>1. inbox' \in [Sessions -> Seq(Messages)] /\ \A v \in Sessions : ~Live(v) => inbox'[v] = box[v]
  BY SentMail
<1>2. \A v \in Sessions : Mail(inbox'[v]) \subseteq Mail(box[v]) \cup {m}
  BY SentNew
<1> QED
  BY <1>1, <1>2

LEMMA HandledKeeps ==
  ASSUME CallsInv, NEW s \in Sessions, NEW q \in Seq(Messages), Handles(s, q),
         \A m \in Mail(q) :
               /\ m.kind \in {"forward", "settle", "invoke", "answer", "reload"}
               /\ m.kind = "answer" => AnswerMatches(s, m)',
         NEW c \in Brokers, Fits(s, c), SetBroker(s, c) \/ (UNCHANGED broker /\ c = broker[s]),
         stage' \in [Sessions -> Stages], stage'[s] \in {"running", "expiring"},
         \A u \in Sessions : u # s => stage'[u] = stage[u] /\ awaiting'[u] = awaiting[u],
         awaiting' \in [Sessions -> SUBSET Nat],
         \A i \in awaiting'[s] : i \in awaiting[s] \/ i < c.nextId,
         budget' \in [{"call", "disruption"} -> Int]
  PROVE  CallsInv'
<1>1. CallsTypeOK
  BY DEF CallsInv
<1>2. Busy(s) /\ Up(s) /\ Live(s)
  BY DEF Handles, Busy, Up, Live
<1>3. /\ Taken(s) \in [Sessions -> Seq(Messages)]
      /\ Mail(Taken(s)[s]) \subseteq Mail(inbox[s]) /\ Mail(Rest(s)) \subseteq Mail(expansion[s])
      /\ \A u \in Sessions : u # s => Taken(s)[u] = inbox[u]
  BY <1>1, <1>2, TakenMail
<1>4. /\ expansion' \in [Sessions -> Seq(Messages)]
      /\ Mail(expansion'[s]) = Mail(q) \cup Mail(Rest(s))
      /\ \A u \in Sessions : u # s => expansion'[u] = expansion[u]
  BY <1>1, <1>2, Expanded DEF Handles
<1>5. /\ inbox' \in [Sessions -> Seq(Messages)]
      /\ \A u \in Sessions : \A m \in Mail(inbox'[u]) : m \in Mail(inbox[u]) \/ Plain(m)
      /\ \A u \in Sessions : ~Live(u) => inbox'[u] = inbox[u]
  <2>1. CASE inbox' = Taken(s)
    BY <1>2, <1>3, <2>1
  <2>2. ASSUME NEW v \in Sessions, NEW n \in Messages, inbox' = Sent(Taken(s), v, n), Plain(n)
        PROVE <1>5!1 /\ <1>5!2 /\ <1>5!3
    <3>1. PICK box \in [Sessions -> Seq(Messages)] : box = Taken(s) /\ inbox' = Sent(box, v, n)
      BY <1>3, <2>2
    <3>2. /\ inbox' \in [Sessions -> Seq(Messages)]
          /\ \A u \in Sessions : \A m \in Mail(inbox'[u]) : m \in Mail(box[u]) \/ m = n
          /\ \A u \in Sessions : ~Live(u) => inbox'[u] = box[u]
      BY <3>1, PlainSent
    <3> QED
      BY <1>2, <1>3, <2>2, <3>1, <3>2
  <2> QED
    BY <2>1, <2>2 DEF Handles
<1>6. /\ broker' \in [Sessions -> Brokers] /\ broker'[s] = c
      /\ \A u \in Sessions : u # s => broker'[u] = broker[u]
  BY <1>1, BrokerSet DEF CallsTypeOK
<1>7. Steps(s)
  BY <1>1, <1>4, <1>5, <1>6 DEF Steps, Handles, CallsTypeOK
<1>8. \A u \in Sessions : \A m \in Mail(inbox'[u]) :
            m \in Mail(inbox[u]) \/ (m.kind # "settle" /\ NewMail(u, m)')
  BY <1>5 DEF Plain, NewMail
<1>9. \A m \in Mail(expansion'[s]) :
            \/ m \in Mail(expansion[s])
            \/ /\ m.kind \in {"forward", "settle", "invoke", "answer", "reload"}
               /\ m.kind = "answer" => AnswerMatches(s, m)'
  BY <1>3, <1>4
<1> QED
  BY <1>2, <1>7, <1>8, <1>9, StepKeeps

\* What a turn leaves behind.
Leaves(s, t) ==
  /\ Fits(s, t.b) /\ t.spawned \in Seq(Messages)
  /\ t.promises \subseteq Nat /\ \A i \in t.promises : i < t.b.nextId
  /\ \A m \in Mail(t.spawned) :
       /\ m.kind \in {"forward", "answer", "reload"}
       /\ m.kind = "answer" =>
            /\ m.ticket < t.b.nextId
            /\ \A v \in t.b.invocations : v.ticket = m.ticket => v.req = m.req

LEMMA TurnLeaves ==
  ASSUME CallsInv, NEW s \in Sessions, Up(s), NEW t, TurnForm(s, t)
  PROVE  Leaves(s, t)
<1>1. CallsTypeOK /\ Brokered
  BY DEF CallsInv
<1>2. Fits(s, broker[s]) /\ broker[s] \in Brokers /\ broker[s].invocations \subseteq Invocations
  BY <1>1, BrokerOf
<1>3. Mail(<<>>) = {} /\ <<>> \in Seq(Messages)
  BY MailEmpty
<1>4. Reload \in Messages /\ Reload.kind = "reload" /\ <<Reload>> \in Seq(Messages)
      /\ Mail(<<Reload>>) = {Reload}
  BY DEF Reload, Messages, Mail
<1>5. CASE Idles(s, t)
  BY <1>2, <1>3, <1>4, <1>5 DEF Idles, Leaves
<1>6. CASE IsRefused(s, t)
  <2>1. Fits(s, t.b)
    BY <1>1, <1>6, SpendIdFits DEF IsRefused
  <2> QED
    BY <1>3, <1>6, <2>1 DEF IsRefused, Leaves
<1>7. ASSUME NEW v \in broker[s].invocations, Answers(s, t, v) PROVE Leaves(s, t)
  <2>1. Fits(s, t.b) /\ t.b.nextId = broker[s].nextId
        /\ \A w \in t.b.invocations :
              \E x \in broker[s].invocations : w.ticket = x.ticket /\ w.req = x.req
    <3> DEFINE c == PrepareReply(broker[s], v)
    <3>1. /\ Fits(s, c) /\ c.nextId = broker[s].nextId
          /\ \A w \in c.invocations :
               \E x \in broker[s].invocations : w.ticket = x.ticket /\ w.req = x.req
      BY <1>1, PrepareReplyFits
    <3>2. t.b = c
      BY <1>7 DEF Answers
    <3> HIDE DEF c
    <3> QED
      BY <3>1, <3>2
  <2>2. /\ Answer(v) \in Messages /\ Answer(v).kind = "answer" /\ Answer(v).req = v.req
        /\ Answer(v).ticket = v.ticket
    BY <1>2 DEF Answer, Messages, Invocations
  <2>3. t.spawned \in Seq(Messages) /\ Mail(t.spawned) \subseteq {Reload, Answer(v)}
    <3> DEFINE a == Answer(v)
    <3>1. a \in Messages /\ t.spawned \in {<<a>>, <<Reload, a>>}
      BY <1>7, <2>2 DEF Answers
    <3> HIDE DEF a
    <3>2. <<a>> \in Seq(Messages) /\ Mail(<<a>>) = {a}
      BY <3>1 DEF Mail
    <3>3. <<Reload, a>> \in Seq(Messages) /\ Mail(<<Reload, a>>) \subseteq {Reload, a}
      BY <1>4, <3>1 DEF Mail
    <3> QED
      BY <3>1, <3>2, <3>3 DEF a
  <2>4. v.ticket < broker[s].nextId
        /\ \A w \in broker[s].invocations : w.ticket = v.ticket => w.req = v.req
    BY <1>2 DEF Fits, Good, Distinct
  <2>5. \A w \in t.b.invocations : w.ticket = v.ticket => w.req = v.req
    BY <2>1, <2>4
  <2>6. t.promises = {}
    BY <1>7 DEF Answers
  <2> QED
    BY <1>4, <2>1, <2>2, <2>3, <2>4, <2>5, <2>6 DEF Leaves
<1>8. ASSUME NEW r \in Requests, Calling(s, t, r) PROVE Leaves(s, t)
  <2>1. Fits(s, t.b) /\ t.b.nextId = broker[s].nextId + 1
    BY <1>1, <1>8, InsertCallFits DEF Calling
  <2>2. Forward(r) \in Messages /\ Forward(r).kind = "forward"
    BY DEF Forward, Messages
  <2>3. t.spawned \in Seq(Messages) /\ Mail(t.spawned) = {Forward(r)}
    <3> DEFINE f == Forward(r)
    <3>1. f \in Messages /\ t.spawned = <<f>>
      BY <1>8, <2>2 DEF Calling
    <3> HIDE DEF f
    <3> QED
      BY <3>1 DEF Mail, f
  <2>4. t.promises = {broker[s].nextId} /\ broker[s].nextId \in Nat
    BY <1>1, <1>8, BrokerOf DEF Calling
  <2> QED
    BY <2>1, <2>2, <2>3, <2>4 DEF Leaves
<1> QED
  BY <1>5, <1>6, <1>7, <1>8 DEF TurnForm

LEMMA SpendTyped ==
  ASSUME CallsTypeOK, NEW cost, Spend(cost)
  PROVE  budget' \in [{"call", "disruption"} -> Int]
BY DEF CallsTypeOK, Spend

LEMMA TurnTaken ==
  ASSUME CallsInv, NEW s \in Sessions, Up(s), NEW t, TurnForm(s, t), TakeTurn(s, t)
  PROVE  /\ SetBroker(s, t.b) /\ t.b \in Brokers
         /\ awaiting' \in [Sessions -> SUBSET Nat]
         /\ \A u \in Sessions : u # s => awaiting'[u] = awaiting[u]
         /\ awaiting'[s] = awaiting[s] \cup t.promises
         /\ \A i \in awaiting'[s] : i \in awaiting[s] \/ i < t.b.nextId
         /\ budget' \in [{"call", "disruption"} -> Int]
<1>1. Fits(s, t.b) /\ t.promises \subseteq Nat /\ \A i \in t.promises : i < t.b.nextId
  BY TurnLeaves DEF Leaves
<1>2. CallsTypeOK
  BY DEF CallsInv
<1>3. budget' \in [{"call", "disruption"} -> Int]
  BY <1>2, SpendTyped DEF TakeTurn
<1>4. /\ awaiting \in [Sessions -> SUBSET Nat]
      /\ awaiting' = [awaiting EXCEPT ![s] = awaiting[s] \cup t.promises]
  BY <1>2 DEF CallsTypeOK, TakeTurn
<1> QED
  BY <1>1, <1>3, <1>4 DEF Fits, Good, TakeTurn, SetBroker

-----------------------------------------------------------------------------
\* The invariant is kept.

LEMMA RunHandlerKeeps ==
  ASSUME CallsAssumption, CallsInv, NEW s \in Sessions, RunHandler(s) PROVE CallsInv'
<1>1. CallsTypeOK /\ Up(s) /\ Live(s) /\ stage[s] = "running" /\ expansion[s] = <<>>
  BY DEF CallsInv, RunHandler, Up, Live
<1>2. PICK t : /\ t \in ReloadTurns(broker[s]) \cup CallTurns(s, broker[s], 0, {}, s \in Callers)
               /\ TakeTurn(s, t) /\ expansion' = [expansion EXCEPT ![s] = t.spawned]
  BY DEF RunHandler
<1>3. TurnForm(s, t)
  BY <1>1, <1>2, ReloadTurnForm, CallTurnForm
<1>4. /\ SetBroker(s, t.b) /\ t.b \in Brokers
      /\ awaiting' \in [Sessions -> SUBSET Nat]
      /\ \A u \in Sessions : u # s => awaiting'[u] = awaiting[u]
      /\ \A i \in awaiting'[s] : i \in awaiting[s] \/ i < t.b.nextId
      /\ budget' \in [{"call", "disruption"} -> Int]
  BY <1>1, <1>2, <1>3, TurnTaken
<1>5. /\ Fits(s, t.b) /\ t.spawned \in Seq(Messages)
      /\ \A m \in Mail(t.spawned) :
              /\ m.kind \in {"forward", "answer", "reload"}
              /\ m.kind = "answer" =>
                   /\ m.ticket < t.b.nextId
                   /\ \A v \in t.b.invocations : v.ticket = m.ticket => v.req = m.req
  BY <1>1, <1>3, TurnLeaves DEF Leaves
<1>6. /\ broker' \in [Sessions -> Brokers] /\ broker'[s] = t.b
      /\ \A u \in Sessions : u # s => broker'[u] = broker[u]
  BY <1>1, <1>4, BrokerSet
<1>7. /\ expansion' \in [Sessions -> Seq(Messages)] /\ expansion'[s] = t.spawned
      /\ \A u \in Sessions : u # s => expansion'[u] = expansion[u]
  BY <1>1, <1>2, <1>5 DEF CallsTypeOK
<1>8. UNCHANGED <<clock, stage, engine, inbox, kept, fired>>
  BY DEF RunHandler
<1>9. Steps(s)
  BY <1>1, <1>4, <1>5, <1>6, <1>7, <1>8 DEF Steps, CallsTypeOK
<1>10. \A m \in Mail(expansion'[s]) :
            \/ m \in Mail(expansion[s])
            \/ /\ m.kind \in {"forward", "settle", "invoke", "answer", "reload"}
               /\ m.kind = "answer" => AnswerMatches(s, m)'
  BY <1>5, <1>6, <1>7 DEF AnswerMatches
<1> QED
  BY <1>1, <1>8, <1>9, <1>10, StepKeeps

LEMMA PumpScriptsKeeps ==
  ASSUME CallsAssumption, CallsInv, NEW s \in Sessions, PumpScripts(s) PROVE CallsInv'
<1>1. CallsTypeOK /\ Up(s) /\ Live(s) /\ stage[s] = "running"
  BY DEF CallsInv, PumpScripts, Up, Live
<1>2. PICK t : /\ t \in ReloadTurns(broker[s])
                         \cup CallTurns(s, broker[s], 0, Parents(s, broker[s]), s \in Callers)
                         \cup AnswerTurns(s, broker[s], 1 .. MaxId[s])
               /\ TakeTurn(s, t) /\ inbox' = [inbox EXCEPT ![s] = @ \o t.spawned]
  BY DEF PumpScripts
<1>3. TurnForm(s, t)
  <2>1. CASE t \in ReloadTurns(broker[s])
    BY <2>1, ReloadTurnForm
  <2>2. CASE t \in CallTurns(s, broker[s], 0, Parents(s, broker[s]), s \in Callers)
    BY <1>1, <2>2, CallTurnForm
  <2>3. CASE t \in AnswerTurns(s, broker[s], 1 .. MaxId[s])
    <3>1. PICK v \in broker[s].invocations :
            t.b = PrepareReply(broker[s], v) /\ t.promises = {} /\ t.spawned = <<Answer(v)>>
      BY <2>3 DEF AnswerTurns, Turn
    <3> QED
      BY <3>1 DEF TurnForm, Answers
  <2> QED
    BY <1>2, <2>1, <2>2, <2>3
<1>4. /\ SetBroker(s, t.b) /\ t.b \in Brokers
      /\ awaiting' \in [Sessions -> SUBSET Nat]
      /\ \A u \in Sessions : u # s => awaiting'[u] = awaiting[u]
      /\ \A i \in awaiting'[s] : i \in awaiting[s] \/ i < t.b.nextId
      /\ budget' \in [{"call", "disruption"} -> Int]
  BY <1>1, <1>2, <1>3, TurnTaken
<1>5. /\ Fits(s, t.b) /\ t.spawned \in Seq(Messages)
      /\ \A m \in Mail(t.spawned) :
              /\ m.kind \in {"forward", "answer", "reload"}
              /\ m.kind = "answer" =>
                   /\ m.ticket < t.b.nextId
                   /\ \A v \in t.b.invocations : v.ticket = m.ticket => v.req = m.req
  BY <1>1, <1>3, TurnLeaves DEF Leaves
<1>6. /\ broker' \in [Sessions -> Brokers] /\ broker'[s] = t.b
      /\ \A u \in Sessions : u # s => broker'[u] = broker[u]
  BY <1>1, <1>4, BrokerSet
<1>7. /\ inbox' \in [Sessions -> Seq(Messages)]
      /\ Mail(inbox'[s]) = Mail(inbox[s]) \cup Mail(t.spawned)
      /\ \A u \in Sessions : u # s => inbox'[u] = inbox[u]
  <2> DEFINE q == inbox[s] \o t.spawned
  <2>1. inbox \in [Sessions -> Seq(Messages)] /\ inbox[s] \in Seq(Messages)
    BY <1>1 DEF CallsTypeOK
  <2>2. q \in Seq(Messages) /\ Mail(q) = Mail(inbox[s]) \cup Mail(t.spawned)
    BY <1>5, <2>1, MailConcat, ConcatProperties
  <2>3. inbox' = [inbox EXCEPT ![s] = q]
    BY <1>2
  <2> HIDE DEF q
  <2> QED
    BY <2>1, <2>2, <2>3
<1>8. UNCHANGED <<clock, stage, engine, expansion, kept, fired>>
  BY DEF PumpScripts
<1>9. Steps(s)
  BY <1>1, <1>4, <1>5, <1>6, <1>7, <1>8 DEF Steps, CallsTypeOK
<1>10. \A u \in Sessions : \A m \in Mail(inbox'[u]) :
            m \in Mail(inbox[u]) \/ (m.kind # "settle" /\ NewMail(u, m)')
  <2>1. \A m \in Mail(t.spawned) : m.kind # "settle" /\ NewMail(s, m)'
    BY <1>5, <1>6 DEF NewMail, AnswerMatches
  <2> QED
    BY <1>7, <2>1
<1> QED
  BY <1>1, <1>8, <1>9, <1>10, StepKeeps

\* The message in hand.
LEMMA InHandTyped ==
  ASSUME CallsInv, NEW s \in Sessions, NEW kind, Handling(s, kind),
         kind \in {"forward", "call", "cancel", "reply", "settle", "invoke", "answer"}
  PROVE  /\ CallsTypeOK /\ Brokered /\ Busy(s) /\ Up(s) /\ Live(s) /\ stage[s] = "running"
         /\ Current(s) \in Messages /\ Current(s) \in Waits(s)
         /\ Current(s).kind = kind /\ Current(s).req \in Requests
         /\ Current(s).req.from \in Sessions /\ Current(s).req.target \in Sessions
         /\ Current(s).req.id \in Nat
<1>1. CallsTypeOK /\ Brokered /\ Busy(s) /\ Current(s).kind = kind
  BY DEF CallsInv, Handling
<1>2. Up(s) /\ Live(s) /\ stage[s] = "running"
  BY <1>1 DEF Busy, Up, Live
<1>3. Current(s) \in Messages /\ Current(s) \in Waits(s)
  BY <1>1, TakenMail
<1> QED
  BY <1>1, <1>2, <1>3, MessageRequest

\* An action that only takes its message, and may send one.
LEMMA TakingKeeps ==
  ASSUME CallsInv, NEW s \in Sessions, Busy(s), Handles(s, <<>>),
         NEW c \in Brokers, Fits(s, c), SetBroker(s, c) \/ (UNCHANGED broker /\ c = broker[s]),
         UNCHANGED <<stage, awaiting, budget>>
  PROVE  CallsInv'
<1>1. CallsTypeOK /\ stage[s] = "running"
  BY DEF CallsInv, Busy
<1>2. /\ stage' \in [Sessions -> Stages] /\ stage'[s] \in {"running", "expiring"}
      /\ \A u \in Sessions : u # s => stage'[u] = stage[u] /\ awaiting'[u] = awaiting[u]
      /\ awaiting' \in [Sessions -> SUBSET Nat]
      /\ \A i \in awaiting'[s] : i \in awaiting[s] \/ i < c.nextId
      /\ budget' \in [{"call", "disruption"} -> Int]
  BY <1>1 DEF CallsTypeOK
<1>3. <<>> \in Seq(Messages) /\ \A m \in Mail(<<>>) : FALSE
  BY MailEmpty
<1> QED
  BY <1>2, <1>3, HandledKeeps

LEMMA BrokerFits ==
  ASSUME CallsInv, NEW s \in Sessions, Up(s)
  PROVE  broker[s] \in Brokers /\ Fits(s, broker[s])
BY BrokerOf DEF CallsInv

LEMMA ForwardProcedureCallKeeps ==
  ASSUME CallsInv, NEW s \in Sessions, ForwardProcedureCall(s) PROVE CallsInv'
<1>1. /\ Busy(s) /\ Up(s) /\ Current(s).req \in Requests /\ Current(s).req.target \in Sessions
  BY InHandTyped DEF ForwardProcedureCall
<1> DEFINE r == Current(s).req
<1>2. /\ Call(r) \in Messages /\ Plain(Call(r)) /\ Reply(r) \in Messages /\ Plain(Reply(r))
  BY <1>1 DEF Call, Reply, Messages, Plain
<1>3. Handles(s, <<>>)
  BY <1>1, <1>2 DEF ForwardProcedureCall, Handles
<1>4. UNCHANGED <<stage, awaiting, budget, broker>>
  BY DEF ForwardProcedureCall
<1> QED
  BY <1>1, <1>3, <1>4, BrokerFits, TakingKeeps

LEMMA DropProcedureCallKeeps ==
  ASSUME CallsInv, NEW s \in Sessions, DropProcedureCall(s) PROVE CallsInv'
<1>1. Busy(s) /\ Up(s)
  BY InHandTyped DEF DropProcedureCall
<1>2. Handles(s, <<>>)
  BY <1>1 DEF DropProcedureCall, Handles
<1>3. UNCHANGED <<stage, awaiting, budget, broker>>
  BY DEF DropProcedureCall
<1> QED
  BY <1>1, <1>2, <1>3, BrokerFits, TakingKeeps

LEMMA RefuseProcedureCallKeeps ==
  ASSUME CallsInv, NEW s \in Sessions, RefuseProcedureCall(s) PROVE CallsInv'
<1>1. /\ Busy(s) /\ Up(s) /\ CallsTypeOK /\ Brokered
      /\ Current(s).req \in Requests /\ Current(s).req.from \in Sessions
  BY InHandTyped DEF RefuseProcedureCall
<1> DEFINE r == Current(s).req
           b == [broker[s] EXCEPT !.nextId = @ + 1]
<1>2. Reply(r) \in Messages /\ Plain(Reply(r))
  BY <1>1 DEF Reply, Messages, Plain
<1>3. Handles(s, <<>>)
  BY <1>1, <1>2 DEF RefuseProcedureCall, Handles
<1>4. UNCHANGED <<stage, awaiting, budget>> /\ (UNCHANGED broker \/ SetBroker(s, b))
  BY DEF RefuseProcedureCall
<1>5. Fits(s, b) /\ b \in Brokers
  BY <1>1, SpendIdFits DEF Fits, Good
<1> HIDE DEF b
<1> QED
  BY <1>1, <1>3, <1>4, <1>5, BrokerFits, TakingKeeps

LEMMA StartProcedureCallKeeps ==
  ASSUME CallsInv, NEW s \in Sessions, StartProcedureCall(s) PROVE CallsInv'
<1>1. /\ Busy(s) /\ Up(s) /\ CallsTypeOK /\ Brokered /\ stage[s] = "running"
      /\ Current(s).req \in Requests
  BY InHandTyped DEF StartProcedureCall
<1> DEFINE r == Current(s).req
           b == broker[s]
           c == StartInvocation(b, r, engine[s])
           q == <<Invoke(r, b.nextId)>>
<1>2. /\ CanStart(s, b, r) /\ SetBroker(s, c) /\ Expand(s, q) /\ inbox' = Taken(s)
      /\ UNCHANGED <<budget, clock, stage, engine, kept, awaiting, fired>>
  BY DEF StartProcedureCall
<1>3. Fits(s, c) /\ c \in Brokers
  BY <1>1, <1>2, StartInvocationFits DEF Fits, Good
<1>4. q \in Seq(Messages) /\ \A m \in Mail(q) : m.kind = "invoke"
  <2> DEFINE n == Invoke(r, b.nextId)
  <2>1. n \in Messages /\ n.kind = "invoke"
    BY <1>1, BrokerOf DEF Invoke, Messages
  <2> HIDE DEF n
  <2>2. <<n>> \in Seq(Messages) /\ Mail(<<n>>) = {n}
    BY <2>1 DEF Mail
  <2> QED
    BY <2>1, <2>2 DEF n
<1>5. Handles(s, q)
  BY <1>1, <1>2 DEF Handles
<1> HIDE DEF c, q
<1>6. /\ stage' \in [Sessions -> Stages] /\ stage'[s] \in {"running", "expiring"}
      /\ \A u \in Sessions : u # s => stage'[u] = stage[u] /\ awaiting'[u] = awaiting[u]
      /\ awaiting' \in [Sessions -> SUBSET Nat]
      /\ \A i \in awaiting'[s] : i \in awaiting[s] \/ i < c.nextId
      /\ budget' \in [{"call", "disruption"} -> Int]
  BY <1>1, <1>2 DEF CallsTypeOK
<1> QED
  BY <1>2, <1>3, <1>4, <1>5, <1>6, HandledKeeps

LEMMA InvokeImplementationKeeps ==
  ASSUME CallsAssumption, CallsInv, NEW s \in Sessions, InvokeImplementation(s) PROVE CallsInv'
<1>1. /\ Busy(s) /\ Up(s) /\ CallsTypeOK /\ stage[s] = "running"
      /\ Current(s).req \in Requests
  BY InHandTyped DEF InvokeImplementation
<1>2. PICK t : /\ t \in ImplementationTurns(s, broker[s], Current(s))
               /\ TakeTurn(s, t) /\ Expand(s, t.spawned)
  BY DEF InvokeImplementation
<1>3. TurnForm(s, t)
  BY <1>1, <1>2, ImplementationTurnForm
<1>4. /\ SetBroker(s, t.b) /\ t.b \in Brokers
      /\ awaiting' \in [Sessions -> SUBSET Nat]
      /\ \A u \in Sessions : u # s => awaiting'[u] = awaiting[u]
      /\ \A i \in awaiting'[s] : i \in awaiting[s] \/ i < t.b.nextId
      /\ budget' \in [{"call", "disruption"} -> Int]
  BY <1>1, <1>2, <1>3, TurnTaken
<1>5. Leaves(s, t)
  BY <1>1, <1>3, TurnLeaves
<1>6. inbox' = Taken(s) /\ UNCHANGED <<clock, stage, engine, kept, fired>>
  BY DEF InvokeImplementation
<1>7. Handles(s, t.spawned)
  BY <1>1, <1>2, <1>6 DEF Handles
<1>8. broker'[s] = t.b
  BY <1>1, <1>4, BrokerSet
<1>9. \A m \in Mail(t.spawned) :
        /\ m.kind \in {"forward", "settle", "invoke", "answer", "reload"}
        /\ m.kind = "answer" => AnswerMatches(s, m)'
  BY <1>5, <1>8 DEF Leaves, AnswerMatches
<1>10. /\ stage' \in [Sessions -> Stages] /\ stage'[s] \in {"running", "expiring"}
       /\ \A u \in Sessions : u # s => stage'[u] = stage[u]
  BY <1>1, <1>6 DEF CallsTypeOK
<1>11. Fits(s, t.b) /\ t.spawned \in Seq(Messages)
  BY <1>5 DEF Leaves
<1> QED
  BY <1>4, <1>7, <1>9, <1>10, <1>11, HandledKeeps

LEMMA ForwardProcedureReplyKeeps ==
  ASSUME CallsInv, NEW s \in Sessions, ForwardProcedureReply(s) PROVE CallsInv'
<1>1. /\ Busy(s) /\ Up(s) /\ CallsTypeOK /\ Brokered
      /\ Current(s).req \in Requests /\ Current(s).req.from \in Sessions
  BY InHandTyped DEF ForwardProcedureReply
<1> DEFINE r == Current(s).req
<1>2. Reply(r) \in Messages /\ Plain(Reply(r))
  BY <1>1 DEF Reply, Messages, Plain
<1>3. UNCHANGED <<stage, awaiting, budget>> /\ Handles(s, <<>>)
  BY <1>1, <1>2 DEF ForwardProcedureReply, Handles
<1>4. UNCHANGED broker \/ \E v \in broker[s].invocations : SetBroker(s, RemoveInvocation(broker[s], v))
  BY DEF ForwardProcedureReply
<1>5. CASE UNCHANGED broker
  BY <1>1, <1>3, <1>5, BrokerFits, TakingKeeps
<1>6. ASSUME NEW v \in broker[s].invocations, SetBroker(s, RemoveInvocation(broker[s], v))
      PROVE  CallsInv'
  <2> DEFINE c == RemoveInvocation(broker[s], v)
  <2>1. Fits(s, c) /\ c \in Brokers
    BY <1>1, RemoveInvocationFits DEF Fits, Good
  <2>2. SetBroker(s, c)
    BY <1>6
  <2> HIDE DEF c
  <2> QED
    BY <1>1, <1>3, <2>1, <2>2, TakingKeeps
<1> QED
  BY <1>4, <1>5, <1>6

LEMMA CancelProcedureCallKeeps ==
  ASSUME CallsInv, NEW s \in Sessions, CancelProcedureCall(s) PROVE CallsInv'
<1>1. Busy(s) /\ Up(s) /\ CallsTypeOK /\ Brokered
  BY InHandTyped DEF CancelProcedureCall
<1>3. UNCHANGED <<stage, awaiting, budget>> /\ Handles(s, <<>>)
  BY <1>1 DEF CancelProcedureCall, Handles
<1>4. UNCHANGED broker \/ \E v \in broker[s].invocations : SetBroker(s, RemoveInvocation(broker[s], v))
  BY DEF CancelProcedureCall
<1>5. CASE UNCHANGED broker
  BY <1>1, <1>3, <1>5, BrokerFits, TakingKeeps
<1>6. ASSUME NEW v \in broker[s].invocations, SetBroker(s, RemoveInvocation(broker[s], v))
      PROVE  CallsInv'
  <2> DEFINE c == RemoveInvocation(broker[s], v)
  <2>1. Fits(s, c) /\ c \in Brokers
    BY <1>1, RemoveInvocationFits DEF Fits, Good
  <2>2. SetBroker(s, c)
    BY <1>6
  <2> HIDE DEF c
  <2> QED
    BY <1>1, <1>3, <2>1, <2>2, TakingKeeps
<1> QED
  BY <1>4, <1>5, <1>6

LEMMA SettleTyped ==
  ASSUME NEW r \in Requests
  PROVE  <<Settle(r)>> \in Seq(Messages) /\ Mail(<<Settle(r)>>) = {Settle(r)}
         /\ Settle(r).kind = "settle" /\ Settle(r) \in Messages
<1> DEFINE n == Settle(r)
<1>1. n \in Messages /\ n.kind = "settle"
  BY DEF Settle, Messages
<1> HIDE DEF n
<1>2. <<n>> \in Seq(Messages) /\ Mail(<<n>>) = {n}
  BY <1>1 DEF Mail
<1> QED
  BY <1>1, <1>2 DEF n

LEMMA ProcedureReplyKeeps ==
  ASSUME CallsInv, NEW s \in Sessions, ProcedureReply(s) PROVE CallsInv'
<1>1. Busy(s) /\ Up(s) /\ CallsTypeOK /\ Brokered /\ stage[s] = "running"
  BY InHandTyped DEF ProcedureReply
<1>2. /\ inbox' = Taken(s)
      /\ UNCHANGED <<budget, clock, stage, engine, kept, awaiting, fired>>
      /\ \/ Expand(s, <<>>) /\ UNCHANGED broker
         \/ \E p \in broker[s].pending :
              SetBroker(s, RemoveCall(broker[s], p)) /\ Expand(s, <<Settle(p)>>)
  BY DEF ProcedureReply
<1>3. CASE Expand(s, <<>>) /\ UNCHANGED broker
  <2>1. Handles(s, <<>>)
    BY <1>1, <1>2, <1>3 DEF Handles
  <2> QED
    BY <1>1, <1>2, <1>3, <2>1, BrokerFits, TakingKeeps
<1>4. ASSUME NEW p \in broker[s].pending,
             SetBroker(s, RemoveCall(broker[s], p)) /\ Expand(s, <<Settle(p)>>)
      PROVE  CallsInv'
  <2> DEFINE c == RemoveCall(broker[s], p)
             q == <<Settle(p)>>
  <2>1. Fits(s, c) /\ c \in Brokers
    BY <1>1, RemoveCallFits DEF Fits, Good
  <2>2. q \in Seq(Messages) /\ \A m \in Mail(q) : m.kind = "settle"
    BY <1>1, BrokerOf, SettleTyped
  <2>3. SetBroker(s, c) /\ Handles(s, q)
    BY <1>1, <1>2, <1>4 DEF Handles
  <2> HIDE DEF c, q
  <2>4. /\ stage' \in [Sessions -> Stages] /\ stage'[s] \in {"running", "expiring"}
        /\ \A u \in Sessions : u # s => stage'[u] = stage[u] /\ awaiting'[u] = awaiting[u]
        /\ awaiting' \in [Sessions -> SUBSET Nat]
        /\ \A i \in awaiting'[s] : i \in awaiting[s] \/ i < c.nextId
        /\ budget' \in [{"call", "disruption"} -> Int]
    BY <1>1, <1>2 DEF CallsTypeOK
  <2> QED
    BY <2>1, <2>2, <2>3, <2>4, HandledKeeps
<1> QED
  BY <1>2, <1>3, <1>4

LEMMA SettlePromiseKeeps ==
  ASSUME CallsInv, NEW s \in Sessions, SettlePromise(s) PROVE CallsInv'
<1>1. Busy(s) /\ Up(s) /\ CallsTypeOK /\ stage[s] = "running"
  BY InHandTyped DEF SettlePromise
<1>2. /\ awaiting' = [awaiting EXCEPT ![s] = awaiting[s] \ {Current(s).req.id}]
      /\ UNCHANGED <<broker, stage, budget>> /\ Handles(s, <<>>)
  BY <1>1 DEF SettlePromise, Handles
<1>3. /\ awaiting' \in [Sessions -> SUBSET Nat] /\ awaiting'[s] \subseteq awaiting[s]
      /\ \A u \in Sessions : u # s => awaiting'[u] = awaiting[u]
  BY <1>1, <1>2 DEF CallsTypeOK
<1>4. stage' \in [Sessions -> Stages] /\ stage'[s] \in {"running", "expiring"}
      /\ budget' \in [{"call", "disruption"} -> Int]
  BY <1>1, <1>2 DEF CallsTypeOK
<1>5. <<>> \in Seq(Messages) /\ \A m \in Mail(<<>>) : FALSE
  BY MailEmpty
<1> QED
  BY <1>1, <1>2, <1>3, <1>4, <1>5, BrokerFits, HandledKeeps

LEMMA ExpireProcedureCallsKeeps ==
  ASSUME CallsInv, NEW s \in Sessions, ExpireProcedureCalls(s) PROVE CallsInv'
<1>1. Busy(s) /\ Up(s) /\ CallsTypeOK
  BY DEF ExpireProcedureCalls, Handling, Busy, Up, CallsInv
<1>2. /\ UNCHANGED <<broker, awaiting, budget>> /\ Handles(s, <<>>)
      /\ stage' = [stage EXCEPT ![s] = "expiring"]
  BY <1>1 DEF ExpireProcedureCalls, Handles
<1>3. /\ stage' \in [Sessions -> Stages] /\ stage'[s] \in {"running", "expiring"}
      /\ \A u \in Sessions : u # s => stage'[u] = stage[u] /\ awaiting'[u] = awaiting[u]
      /\ awaiting' \in [Sessions -> SUBSET Nat] /\ budget' \in [{"call", "disruption"} -> Int]
  BY <1>1, <1>2 DEF CallsTypeOK, Stages
<1>4. <<>> \in Seq(Messages) /\ \A m \in Mail(<<>>) : FALSE
  BY MailEmpty
<1>5. \A i \in awaiting'[s] : i \in awaiting[s] \/ i < broker[s].nextId
  BY <1>2
<1> QED
  BY <1>1, <1>2, <1>3, <1>4, <1>5, BrokerFits, HandledKeeps

\* Which entry has come due, and what becomes of it.
LEMMA ExpireOneForm ==
  ASSUME CallsInv, NEW s \in Sessions, ExpireOne(s)
  PROVE  \/ \E r \in broker[s].pending :
              /\ SetBroker(s, RemoveCall(broker[s], r))
              /\ inbox' = Sent(inbox, r.target, Cancel(r))
              /\ expansion' = [expansion EXCEPT ![s] = Append(@, Settle(r))]
         \/ \E v \in broker[s].invocations :
              /\ SetBroker(s, RemoveInvocation(broker[s], v))
              /\ inbox' = Sent(inbox, v.req.from, Reply(v.req))
              /\ UNCHANGED expansion
<1>1. CallsTypeOK /\ Brokered /\ Up(s)
  BY DEF CallsInv, ExpireOne, Up
<1>2. PICK d \in Due(broker[s]) :
        \/ \E r \in broker[s].pending :
             /\ d.of = "call" /\ d.id = r.id
             /\ SetBroker(s, RemoveCall([broker[s] EXCEPT !.deadlines = @ \ {d}], r))
             /\ inbox' = Sent(inbox, r.target, Cancel(r))
             /\ expansion' = [expansion EXCEPT ![s] = Append(@, Settle(r))]
        \/ \E v \in broker[s].invocations :
             /\ d.of = "invocation" /\ d.id = v.ticket
             /\ SetBroker(s, RemoveInvocation([broker[s] EXCEPT !.deadlines = @ \ {d}], v))
             /\ inbox' = Sent(inbox, v.req.from, Reply(v.req))
             /\ UNCHANGED expansion
  <2>1. broker[s] \in Brokers
    BY <1>1 DEF CallsTypeOK
  <2>2. \A d : [broker[s] EXCEPT !.deadlines = @ \ {d}].pending = broker[s].pending
               /\ [broker[s] EXCEPT !.deadlines = @ \ {d}].invocations = broker[s].invocations
    BY <2>1 DEF Brokers
  <2> QED
    BY <2>2 DEF ExpireOne
<1>3. /\ broker[s] \in Brokers /\ Distinct(broker[s]) /\ Tracked(broker[s])
      /\ broker[s].pending \subseteq Requests /\ broker[s].invocations \subseteq Invocations
  BY <1>1, BrokerOf DEF Fits, Good
<1>4. \/ \E p \in broker[s].pending : d = CallEntry(p)
      \/ \E v \in broker[s].invocations : d = InvocationEntry(v)
  BY <1>3 DEF Tracked, Due
<1>5. ASSUME NEW r \in broker[s].pending, d.of = "call", d.id = r.id PROVE d = CallEntry(r)
  <2>1. PICK p \in broker[s].pending : d = CallEntry(p)
    BY <1>4, <1>5 DEF InvocationEntry
  <2>2. p.id = r.id
    BY <1>5, <2>1 DEF CallEntry
  <2> QED
    BY <1>3, <2>1, <2>2 DEF Distinct
<1>6. ASSUME NEW v \in broker[s].invocations, d.of = "invocation", d.id = v.ticket
      PROVE  d = InvocationEntry(v)
  <2>1. PICK w \in broker[s].invocations : d = InvocationEntry(w)
    BY <1>4, <1>6 DEF CallEntry
  <2>2. w.ticket = v.ticket
    BY <1>6, <2>1 DEF InvocationEntry
  <2> QED
    BY <1>3, <2>1, <2>2 DEF Distinct
<1>7. \A r : RemoveCall([broker[s] EXCEPT !.deadlines = @ \ {CallEntry(r)}], r) = RemoveCall(broker[s], r)
  BY <1>3, ExpiredCall
<1>8. \A v : RemoveInvocation([broker[s] EXCEPT !.deadlines = @ \ {InvocationEntry(v)}], v)
               = RemoveInvocation(broker[s], v)
  BY <1>3, ExpiredInvocation
<1> QED
  BY <1>2, <1>5, <1>6, <1>7, <1>8

LEMMA CancelForms ==
  ASSUME NEW r \in Requests
  PROVE  Cancel(r) \in Messages /\ Cancel(r).kind = "cancel" /\ Cancel(r).req = r
         /\ Reply(r) \in Messages /\ Reply(r).kind = "reply"
BY DEF Cancel, Reply, Messages

\* Once a call has left its broker, a cancellation of it is spent.
LEMMA RemovedIsSpent ==
  ASSUME CallsInv, NEW s \in Sessions, NEW r \in broker[s].pending,
         broker'[s].pending = broker[s].pending \ {r}, broker'[s].nextId = broker[s].nextId
  PROVE  CancelSpent(Cancel(r))'
<1>1. CallsTypeOK /\ Brokered
  BY DEF CallsInv
<1>2. r \in Requests /\ r.from = s /\ Distinct(broker[s])
  BY <1>1, BrokerOf DEF Brokered
<1>3. Cancel(r).req = r
  BY <1>2, CancelForms
<1>4. r.id < broker[s].nextId
  BY <1>2 DEF Distinct
<1>5. \A p \in broker'[s].pending : Key(p) # Key(r)
  BY <1>2 DEF Distinct, Key
<1> QED
  BY <1>2, <1>3, <1>4, <1>5 DEF CancelSpent

LEMMA InboxSent ==
  ASSUME CallsTypeOK, NEW to \in Sessions, NEW m \in Messages, inbox' = Sent(inbox, to, m)
  PROVE  /\ inbox' \in [Sessions -> Seq(Messages)]
         /\ \A u \in Sessions : ~Live(u) => inbox'[u] = inbox[u]
         /\ \A u \in Sessions : u # to => inbox'[u] = inbox[u]
         /\ Live(to) => inbox'[to] = Append(inbox[to], m) /\ m \in Mail(inbox'[to])
         /\ \A u \in Sessions : Mail(inbox[u]) \subseteq Mail(inbox'[u])
         /\ \A u \in Sessions : Mail(inbox'[u]) \subseteq Mail(inbox[u]) \cup {m}
<1>1. inbox \in [Sessions -> Seq(Messages)]
  BY DEF CallsTypeOK
<1>2. /\ inbox' \in [Sessions -> Seq(Messages)]
      /\ \A u \in Sessions : ~Live(u) => inbox'[u] = inbox[u]
      /\ \A u \in Sessions : u # to \/ ~Live(to) => inbox'[u] = inbox[u]
      /\ Live(to) => inbox'[to] = Append(inbox[to], m)
  BY <1>1, SentMail
<1>3. \A u \in Sessions : Mail(inbox'[u]) \subseteq Mail(inbox[u]) \cup {m}
  BY <1>1, SentNew
<1>4. /\ \A u \in Sessions : Mail(inbox[u]) \subseteq Mail(inbox'[u])
      /\ Live(to) => m \in Mail(inbox'[to])
  BY <1>1, SentOld
<1> QED
  BY <1>2, <1>3, <1>4

LEMMA ExpireOneKeeps ==
  ASSUME CallsInv, NEW s \in Sessions, ExpireOne(s) PROVE CallsInv'
<1>1. CallsTypeOK /\ Brokered /\ Up(s) /\ stage[s] = "expiring"
  BY DEF CallsInv, ExpireOne, Up
<1>2. UNCHANGED <<budget, clock, stage, engine, kept, awaiting, fired>>
  BY DEF ExpireOne
<1>3. broker[s].pending \subseteq Requests /\ broker[s].invocations \subseteq Invocations
  BY <1>1, BrokerOf
<1>4. ASSUME NEW r \in broker[s].pending,
             SetBroker(s, RemoveCall(broker[s], r)),
             inbox' = Sent(inbox, r.target, Cancel(r)),
             expansion' = [expansion EXCEPT ![s] = Append(@, Settle(r))]
      PROVE  CallsInv'
  <2> DEFINE c == RemoveCall(broker[s], r)
  <2>1. /\ Fits(s, c) /\ c \in Brokers /\ c.pending = broker[s].pending \ {r}
        /\ c.nextId = broker[s].nextId
    BY <1>1, RemoveCallFits DEF Fits, Good
  <2>2. SetBroker(s, c)
    BY <1>4
  <2> HIDE DEF c
  <2>3. /\ broker' \in [Sessions -> Brokers] /\ broker'[s] = c
        /\ \A u \in Sessions : u # s => broker'[u] = broker[u]
    BY <1>1, <2>1, <2>2, BrokerSet
  <2>4. r \in Requests /\ r.target \in Sessions
    BY <1>3 DEF Requests
  <2>5. Cancel(r) \in Messages /\ Cancel(r).kind = "cancel"
    BY <2>4, CancelForms
  <2>6. /\ inbox' \in [Sessions -> Seq(Messages)]
        /\ \A u \in Sessions : ~Live(u) => inbox'[u] = inbox[u]
        /\ \A u \in Sessions : Mail(inbox'[u]) \subseteq Mail(inbox[u]) \cup {Cancel(r)}
    BY <1>1, <1>4, <2>4, <2>5, InboxSent
  <2>7. /\ expansion' \in [Sessions -> Seq(Messages)]
        /\ Mail(expansion'[s]) = Mail(expansion[s]) \cup {Settle(r)}
        /\ \A u \in Sessions : u # s => expansion'[u] = expansion[u]
    <3> DEFINE q == Append(expansion[s], Settle(r))
    <3>1. expansion \in [Sessions -> Seq(Messages)] /\ expansion[s] \in Seq(Messages)
      BY <1>1 DEF CallsTypeOK
    <3>2. q \in Seq(Messages) /\ Mail(q) = Mail(expansion[s]) \cup {Settle(r)}
      <4> DEFINE n == Settle(r)
                 e == expansion[s]
      <4>1. n \in Messages /\ e \in Seq(Messages)
        BY <2>4, <3>1, SettleTyped
      <4> HIDE DEF n, e
      <4>2. Append(e, n) \in Seq(Messages) /\ Mail(Append(e, n)) = Mail(e) \cup {n}
        BY <4>1, MailAppend, AppendProperties
      <4> QED
        BY <4>2 DEF n, e
    <3>3. expansion' = [expansion EXCEPT ![s] = q]
      BY <1>4
    <3> HIDE DEF q
    <3> QED
      BY <3>1, <3>2, <3>3
  <2>8. Steps(s)
    BY <1>1, <1>2, <2>1, <2>3, <2>6, <2>7 DEF Steps, CallsTypeOK
  <2>9. CancelSpent(Cancel(r))'
    BY <2>1, <2>3, RemovedIsSpent
  <2>10. \A u \in Sessions : \A m \in Mail(inbox'[u]) :
            m \in Mail(inbox[u]) \/ (m.kind # "settle" /\ NewMail(u, m)')
    BY <2>5, <2>6, <2>9 DEF NewMail
  <2>11. \A m \in Mail(expansion'[s]) :
            \/ m \in Mail(expansion[s])
            \/ /\ m.kind \in {"forward", "settle", "invoke", "answer", "reload"}
               /\ m.kind = "answer" => AnswerMatches(s, m)'
    BY <2>4, <2>7, SettleTyped
  <2> QED
    BY <1>1, <2>8, <2>10, <2>11, StepKeeps
<1>5. ASSUME NEW v \in broker[s].invocations,
             SetBroker(s, RemoveInvocation(broker[s], v)),
             inbox' = Sent(inbox, v.req.from, Reply(v.req)),
             UNCHANGED expansion
      PROVE  CallsInv'
  <2> DEFINE c == RemoveInvocation(broker[s], v)
  <2>1. Fits(s, c) /\ c \in Brokers /\ c.nextId = broker[s].nextId
    BY <1>1, RemoveInvocationFits DEF Fits, Good
  <2>2. SetBroker(s, c)
    BY <1>5
  <2> HIDE DEF c
  <2>3. /\ broker' \in [Sessions -> Brokers] /\ broker'[s] = c
        /\ \A u \in Sessions : u # s => broker'[u] = broker[u]
    BY <1>1, <2>1, <2>2, BrokerSet
  <2>4. v.req \in Requests /\ v.req.from \in Sessions
    BY <1>3 DEF Requests, Invocations
  <2>5. Reply(v.req) \in Messages /\ Reply(v.req).kind = "reply"
    BY <2>4, CancelForms
  <2>6. /\ inbox' \in [Sessions -> Seq(Messages)]
        /\ \A u \in Sessions : ~Live(u) => inbox'[u] = inbox[u]
        /\ \A u \in Sessions : Mail(inbox'[u]) \subseteq Mail(inbox[u]) \cup {Reply(v.req)}
    BY <1>1, <1>5, <2>4, <2>5, InboxSent
  <2>7. Steps(s)
    BY <1>1, <1>2, <1>5, <2>1, <2>3, <2>6 DEF Steps, CallsTypeOK
  <2>8. \A u \in Sessions : \A m \in Mail(inbox'[u]) :
            m \in Mail(inbox[u]) \/ (m.kind # "settle" /\ NewMail(u, m)')
    BY <2>5, <2>6 DEF NewMail
  <2> QED
    BY <1>1, <1>5, <2>7, <2>8, StepKeeps
<1> QED
  BY <1>4, <1>5, ExpireOneForm

LEMMA ExpireDoneKeeps ==
  ASSUME CallsInv, NEW s \in Sessions, ExpireDone(s) PROVE CallsInv'
<1>1. CallsTypeOK /\ Brokered /\ Up(s) /\ stage[s] = "expiring"
  BY DEF CallsInv, ExpireDone, Up
<1>2. /\ stage' = [stage EXCEPT ![s] = "running"]
      /\ UNCHANGED <<budget, clock, engine, inbox, expansion, kept, broker, awaiting, fired>>
  BY DEF ExpireDone
<1>3. Fits(s, broker[s])
  BY <1>1, BrokerOf
<1>4. Steps(s)
  BY <1>1, <1>2, <1>3 DEF Steps, CallsTypeOK, Stages
<1> QED
  BY <1>1, <1>2, <1>4, StepKeeps

LEMMA FireDeadlineKeeps ==
  ASSUME CallsInv, NEW s \in Sessions, FireDeadline(s) PROVE CallsInv'
<1>1. CallsTypeOK /\ Brokered /\ Up(s) /\ stage[s] = "running"
  BY DEF CallsInv, FireDeadline, Up
<1>2. /\ inbox' = Sent(inbox, s, Expire) /\ fired' = [fired EXCEPT ![s] = broker[s].watch]
      /\ UNCHANGED <<budget, clock, stage, engine, expansion, kept, broker, awaiting>>
  BY DEF FireDeadline
<1>3. Fits(s, broker[s]) /\ broker[s].watch \in Nat
  BY <1>1, BrokerOf DEF Brokers
<1>4. Expire \in Messages /\ Expire.kind = "expire"
  BY DEF Expire, Messages
<1>5. /\ inbox' \in [Sessions -> Seq(Messages)]
      /\ \A u \in Sessions : ~Live(u) => inbox'[u] = inbox[u]
      /\ \A u \in Sessions : Mail(inbox'[u]) \subseteq Mail(inbox[u]) \cup {Expire}
  BY <1>1, <1>2, <1>4, InboxSent
<1>6. fired' \in [Sessions -> Nat]
  BY <1>1, <1>2, <1>3 DEF CallsTypeOK
<1>7. Steps(s)
  BY <1>1, <1>2, <1>3, <1>5, <1>6 DEF Steps, CallsTypeOK
<1>8. \A u \in Sessions : \A m \in Mail(inbox'[u]) :
            m \in Mail(inbox[u]) \/ (m.kind # "settle" /\ NewMail(u, m)')
  BY <1>4, <1>5 DEF NewMail
<1> QED
  BY <1>1, <1>2, <1>7, <1>8, StepKeeps

\* While brokers, engines and promises stay, so does what is known of them.
LEMMA BrokeredSame ==
  ASSUME Brokered, UNCHANGED <<broker, engine, awaiting>>,
         \A u \in Sessions : Up(u)' => Up(u)
  PROVE  Brokered'
<1>1. ASSUME NEW u \in Sessions
      PROVE  /\ Distinct(broker'[u]) /\ (Up(u)' => Tracked(broker'[u]))
             /\ \A r \in broker'[u].pending : r.from = u /\ r.heap = engine'[u]
             /\ \A i \in awaiting'[u] : i < broker'[u].nextId
  BY DEF Brokered
<1>2. \A u \in Sessions :
        /\ Distinct(broker[u])' /\ (Up(u)' => Tracked(broker[u])')
        /\ \A r \in broker'[u].pending : r.from = u /\ r.heap = engine'[u]
        /\ \A i \in awaiting'[u] : i < broker'[u].nextId
  BY <1>1 DEF Distinct, Tracked, NextDeadline
<1> QED
  BY <1>2 DEF Brokered

LEMMA SameGrows ==
  ASSUME CallsTypeOK, UNCHANGED broker
  PROVE  \A u \in Sessions : Grows(broker[u], broker'[u])
BY GrowsRefl DEF CallsTypeOK

LEMMA TickKeeps == ASSUME CallsInv, Tick PROVE CallsInv'
<1>1. /\ clock' = clock + 1
      /\ UNCHANGED <<budget, stage, engine, inbox, expansion, kept, broker, awaiting, fired>>
      /\ CallsTypeOK /\ Brokered /\ Staged /\ Posted
  BY DEF Tick, CallsInv
<1>2. CallsTypeOK'
  BY <1>1 DEF CallsTypeOK
<1>3. \A u \in Sessions : Up(u)' = Up(u) /\ Live(u)' = Live(u)
  BY <1>1 DEF Up, Live
<1>4. Brokered'
  BY <1>1, <1>3, BrokeredSame
<1>5. Staged'
  BY <1>1, <1>3 DEF Staged
<1>6. \A u \in Sessions : Grows(broker[u], broker'[u])
  BY <1>1, SameGrows
<1>7. Posted'
  BY <1>1, <1>2, <1>6, PostedKept
<1> QED
  BY <1>2, <1>4, <1>5, <1>7 DEF CallsInv

LEMMA BeginReloadKeeps ==
  ASSUME CallsInv, NEW s \in Sessions, BeginReload(s) PROVE CallsInv'
<1>1. /\ CallsTypeOK /\ Brokered /\ Staged /\ Posted /\ Busy(s)
      /\ stage' = [stage EXCEPT ![s] = "reloading"]
      /\ kept' = [kept EXCEPT ![s] = Taken(s)[s]]
      /\ inbox' = [inbox EXCEPT ![s] = <<>>]
      /\ expansion' = [expansion EXCEPT ![s] = <<>>]
      /\ UNCHANGED <<budget, clock, engine, broker, awaiting, fired>>
  BY DEF CallsInv, BeginReload, Handling
<1>2. /\ Taken(s) \in [Sessions -> Seq(Messages)] /\ Mail(Taken(s)[s]) \subseteq Mail(inbox[s])
  BY <1>1, TakenMail
<1>3. /\ stage' \in [Sessions -> Stages] /\ stage'[s] = "reloading"
      /\ \A u \in Sessions : u # s => stage'[u] = stage[u]
  BY <1>1 DEF CallsTypeOK, Stages
<1>4. /\ kept' \in [Sessions -> Seq(Messages)] /\ kept'[s] = Taken(s)[s]
      /\ \A u \in Sessions : u # s => kept'[u] = kept[u]
  <2>1. PICK q \in Seq(Messages) : q = Taken(s)[s]
    BY <1>2
  <2>2. kept \in [Sessions -> Seq(Messages)] /\ kept' = [kept EXCEPT ![s] = q]
    BY <1>1, <2>1 DEF CallsTypeOK
  <2>3. /\ kept' \in [Sessions -> Seq(Messages)] /\ kept'[s] = q
        /\ \A u \in Sessions : u # s => kept'[u] = kept[u]
    BY <2>2
  <2> QED
    BY <2>1, <2>3
<1>5. /\ inbox' \in [Sessions -> Seq(Messages)] /\ inbox'[s] = <<>>
      /\ expansion' \in [Sessions -> Seq(Messages)] /\ expansion'[s] = <<>>
      /\ \A u \in Sessions : u # s => inbox'[u] = inbox[u] /\ expansion'[u] = expansion[u]
  BY <1>1 DEF CallsTypeOK
<1>6. CallsTypeOK'
  BY <1>1, <1>3, <1>4, <1>5 DEF CallsTypeOK
<1>7. \A u \in Sessions : u # s => Up(u)' = Up(u) /\ Live(u)' = Live(u)
  BY <1>3 DEF Up, Live
<1>8. ~Up(s)' /\ Live(s)'
  BY <1>3 DEF Up, Live
<1>9. Brokered'
  BY <1>1, <1>7, <1>8, BrokeredSame
<1>10. Staged'
  <2>1. ASSUME NEW u \in Sessions
        PROVE  /\ ~Up(u)' => expansion'[u] = <<>>
               /\ stage'[u] # "reloading" => kept'[u] = <<>>
               /\ ~Live(u)' => inbox'[u] = <<>>
    <3>1. CASE u = s
      BY <1>3, <1>5, <3>1
    <3>2. CASE u # s
      BY <1>1, <1>3, <1>4, <1>5, <1>7, <3>2 DEF Staged
    <3> QED
      BY <3>1, <3>2
  <2> QED
    BY <2>1 DEF Staged
<1>11. Posted'
  <2>1. \A u \in Sessions : Grows(broker[u], broker'[u])
    BY <1>1, SameGrows
  <2>2. Mail(<<>>) = {}
    BY MailEmpty
  <2>3. \A u \in Sessions : Mail(expansion'[u]) \subseteq Mail(expansion[u])
    BY <1>5, <2>2
  <2>4. \A u \in Sessions : Mail(inbox'[u]) \cup Mail(kept'[u]) \subseteq Mail(inbox[u]) \cup Mail(kept[u])
    <3>1. ASSUME NEW u \in Sessions
          PROVE Mail(inbox'[u]) \cup Mail(kept'[u]) \subseteq Mail(inbox[u]) \cup Mail(kept[u])
      <4>1. CASE u = s
        BY <1>2, <1>4, <1>5, <2>2, <4>1
      <4>2. CASE u # s
        BY <1>4, <1>5, <4>2
      <4> QED
        BY <4>1, <4>2
    <3> QED
      BY <3>1
  <2> QED
    BY <1>1, <1>6, <2>1, <2>3, <2>4, PostedKept
<1> QED
  BY <1>6, <1>9, <1>10, <1>11 DEF CallsInv

LEMMA RequeueForm ==
  ASSUME CallsTypeOK, NEW s \in Sessions, Requeue(s)
  PROVE  /\ kept' \in [Sessions -> Seq(Messages)] /\ kept'[s] = Tail(kept[s])
         /\ \A u \in Sessions : u # s => kept'[u] = kept[u]
         /\ kept[s] \in Seq(Messages) /\ kept[s] # <<>> /\ Head(kept[s]) \in Messages
         /\ Mail(kept[s]) = {Head(kept[s])} \cup Mail(Tail(kept[s]))
         /\ stage[s] = "reloading" /\ Live(s)
         /\ inbox' \in [Sessions -> Seq(Messages)]
         /\ inbox'[s] = Append(inbox[s], Head(kept[s]))
         /\ \A u \in Sessions : u # s => inbox'[u] = inbox[u]
         /\ \A u \in Sessions : Mail(inbox[u]) \subseteq Mail(inbox'[u])
         /\ Head(kept[s]) \in Mail(inbox'[s])
         /\ \A u \in Sessions : Mail(inbox'[u]) \subseteq Mail(inbox[u]) \cup {Head(kept[s])}
<1>1. /\ kept \in [Sessions -> Seq(Messages)] /\ kept[s] \in Seq(Messages) /\ kept[s] # <<>>
      /\ kept' = [kept EXCEPT ![s] = Tail(@)] /\ inbox' = Sent(inbox, s, Head(kept[s]))
      /\ stage[s] = "reloading" /\ Live(s)
  BY DEF CallsTypeOK, Requeue, Live
<1>2. /\ Head(kept[s]) \in Messages /\ Tail(kept[s]) \in Seq(Messages)
      /\ Mail(kept[s]) = {Head(kept[s])} \cup Mail(Tail(kept[s]))
  BY <1>1, MailHead
<1>3. PICK h \in Messages, q \in Seq(Messages) : h = Head(kept[s]) /\ q = Tail(kept[s])
  BY <1>2
<1>4. /\ kept' \in [Sessions -> Seq(Messages)] /\ kept'[s] = q
      /\ \A u \in Sessions : u # s => kept'[u] = kept[u]
  BY <1>1, <1>3
<1>5. /\ inbox' \in [Sessions -> Seq(Messages)] /\ inbox'[s] = Append(inbox[s], h)
      /\ \A u \in Sessions : u # s => inbox'[u] = inbox[u]
      /\ \A u \in Sessions : Mail(inbox[u]) \subseteq Mail(inbox'[u])
      /\ h \in Mail(inbox'[s])
      /\ \A u \in Sessions : Mail(inbox'[u]) \subseteq Mail(inbox[u]) \cup {h}
  BY <1>1, <1>3, InboxSent
<1> QED
  BY <1>1, <1>2, <1>3, <1>4, <1>5

LEMMA RequeueKeeps ==
  ASSUME CallsInv, NEW s \in Sessions, Requeue(s) PROVE CallsInv'
<1>1. /\ CallsTypeOK /\ Brokered /\ Staged /\ Posted
      /\ UNCHANGED <<budget, clock, stage, engine, expansion, broker, awaiting, fired>>
  BY DEF CallsInv, Requeue
<1>2. /\ kept' \in [Sessions -> Seq(Messages)] /\ kept'[s] = Tail(kept[s])
      /\ \A u \in Sessions : u # s => kept'[u] = kept[u]
      /\ Mail(kept[s]) = {Head(kept[s])} \cup Mail(Tail(kept[s]))
      /\ stage[s] = "reloading" /\ Live(s)
      /\ inbox' \in [Sessions -> Seq(Messages)]
      /\ \A u \in Sessions : u # s => inbox'[u] = inbox[u]
      /\ \A u \in Sessions : Mail(inbox'[u]) \subseteq Mail(inbox[u]) \cup {Head(kept[s])}
  BY <1>1, RequeueForm
<1>3. CallsTypeOK'
  BY <1>1, <1>2 DEF CallsTypeOK
<1>4. \A u \in Sessions : Up(u)' = Up(u) /\ Live(u)' = Live(u)
  BY <1>1 DEF Up, Live
<1>5. Brokered'
  BY <1>1, <1>4, BrokeredSame
<1>6. Staged'
  <2>1. ASSUME NEW u \in Sessions
        PROVE  /\ ~Up(u)' => expansion'[u] = <<>>
               /\ stage'[u] # "reloading" => kept'[u] = <<>>
               /\ ~Live(u)' => inbox'[u] = <<>>
    <3>1. CASE u = s
      BY <1>1, <1>2, <1>4, <3>1 DEF Staged
    <3>2. CASE u # s
      BY <1>1, <1>2, <1>4, <3>2 DEF Staged
    <3> QED
      BY <3>1, <3>2
  <2> QED
    BY <2>1 DEF Staged
<1>7. Posted'
  <2>1. \A u \in Sessions : Grows(broker[u], broker'[u])
    BY <1>1, SameGrows
  <2>2. ASSUME NEW u \in Sessions
        PROVE Mail(inbox'[u]) \cup Mail(kept'[u]) \subseteq Mail(inbox[u]) \cup Mail(kept[u])
    <3>1. CASE u = s
      BY <1>2, <3>1
    <3>2. CASE u # s
      BY <1>2, <3>2
    <3> QED
      BY <3>1, <3>2
  <2> QED
    BY <1>1, <1>3, <2>1, <2>2, PostedKept
<1> QED
  BY <1>3, <1>5, <1>6, <1>7 DEF CallsInv

\* A session that is down, or comes up, with no call but those it had.
LEMMA BrokeredDown ==
  ASSUME CallsTypeOK, Brokered, NEW s \in Sessions,
         Distinct(broker'[s]), Up(s)' => Tracked(broker'[s]),
         broker'[s].pending \subseteq broker[s].pending, broker'[s].nextId = broker[s].nextId,
         broker'[s].pending = {} \/ engine'[s] = engine[s], awaiting'[s] \subseteq awaiting[s],
         \A u \in Sessions : u # s => broker'[u] = broker[u] /\ awaiting'[u] = awaiting[u]
                                      /\ engine'[u] = engine[u] /\ (Up(u)' => Up(u))
  PROVE  Brokered'
<1>1. ASSUME NEW u \in Sessions
      PROVE  /\ Distinct(broker'[u]) /\ (Up(u)' => Tracked(broker'[u]))
             /\ \A r \in broker'[u].pending : r.from = u /\ r.heap = engine'[u]
             /\ \A i \in awaiting'[u] : i < broker'[u].nextId
  <2>1. CASE u = s
    BY <2>1 DEF Brokered
  <2>2. CASE u # s
    BY <2>2 DEF Brokered
  <2> QED
    BY <2>1, <2>2
<1>2. \A u \in Sessions :
        /\ Distinct(broker[u])' /\ (Up(u)' => Tracked(broker[u])')
        /\ \A r \in broker'[u].pending : r.from = u /\ r.heap = engine'[u]
        /\ \A i \in awaiting'[u] : i < broker'[u].nextId
  BY <1>1 DEF Distinct, Tracked, NextDeadline
<1> QED
  BY <1>2 DEF Brokered

LEMMA ForgetGrows ==
  ASSUME NEW b \in Brokers, NEW c \in Brokers, c.nextId = b.nextId,
         c.pending \subseteq b.pending, c.invocations \subseteq b.invocations
  PROVE  Grows(b, c)
BY DEF Grows, Brokers

\* A session forgets a call or an invocation while it is down, and tells the
\* other end.
LEMMA ForgottenKeeps ==
  ASSUME CallsInv, NEW s \in Sessions, ~Up(s),
         UNCHANGED <<budget, clock, stage, engine, expansion, kept, awaiting, fired>>,
         NEW c \in Brokers, SetBroker(s, c), Distinct(c), c.nextId = broker[s].nextId,
         c.pending \subseteq broker[s].pending, c.invocations \subseteq broker[s].invocations,
         NEW u \in Sessions, NEW m \in Messages, inbox' = Sent(inbox, u, m),
         m.kind \in {"cancel", "reply"}, m.kind = "cancel" => CancelSpent(m)'
  PROVE  CallsInv'
<1>1. CallsTypeOK /\ Brokered /\ Staged /\ Posted
  BY DEF CallsInv
<1>2. /\ broker' \in [Sessions -> Brokers] /\ broker'[s] = c
      /\ \A v \in Sessions : v # s => broker'[v] = broker[v]
  BY <1>1, BrokerSet
<1>3. /\ inbox' \in [Sessions -> Seq(Messages)]
      /\ \A v \in Sessions : ~Live(v) => inbox'[v] = inbox[v]
      /\ \A v \in Sessions : Mail(inbox'[v]) \subseteq Mail(inbox[v]) \cup {m}
  BY <1>1, InboxSent
<1>4. CallsTypeOK'
  BY <1>1, <1>2, <1>3 DEF CallsTypeOK
<1>5. \A v \in Sessions : Up(v)' = Up(v) /\ Live(v)' = Live(v)
  BY DEF Up, Live
<1>6. Brokered'
  BY <1>1, <1>2, <1>5, BrokeredDown
<1>7. Staged'
  BY <1>1, <1>3, <1>5 DEF Staged
<1>8. \A v \in Sessions : Grows(broker[v], broker'[v])
  <2>1. Grows(broker[s], c)
    BY <1>1, BrokerOf, ForgetGrows
  <2>2. \A v \in Sessions : Grows(broker[v], broker[v])
    BY <1>1, BrokerOf, GrowsRefl
  <2> QED
    BY <1>2, <2>1, <2>2
<1>9. \A v \in Sessions : \A n \in Mail(inbox'[v]) \cup Mail(kept'[v]) :
         \/ n \in Mail(inbox[v]) \cup Mail(kept[v])
         \/ n.kind # "settle" /\ NewMail(v, n)'
  BY <1>3 DEF NewMail
<1>10. Posted'
  BY <1>1, <1>4, <1>8, <1>9, PostedKept
<1> QED
  BY <1>4, <1>6, <1>7, <1>10 DEF CallsInv

LEMMA ResetOneKeeps ==
  ASSUME CallsInv, NEW s \in Sessions, ResetOne(s) PROVE CallsInv'
<1>1. /\ CallsTypeOK /\ Brokered /\ ~Up(s)
      /\ UNCHANGED <<budget, clock, stage, engine, expansion, kept, awaiting, fired>>
  BY DEF CallsInv, ResetOne, Up
<1>2. broker[s] \in Brokers /\ Distinct(broker[s])
      /\ broker[s].pending \subseteq Requests /\ broker[s].invocations \subseteq Invocations
  BY <1>1, BrokerOf
<1>3. ASSUME NEW r \in broker[s].pending,
             inbox' = Sent(inbox, r.target, Cancel(r)),
             SetBroker(s, [broker[s] EXCEPT !.pending = @ \ {r}])
      PROVE  CallsInv'
  <2> DEFINE c == [broker[s] EXCEPT !.pending = @ \ {r}]
  <2>1. /\ c \in Brokers /\ Distinct(c) /\ c.nextId = broker[s].nextId
        /\ c.pending = broker[s].pending \ {r} /\ c.invocations = broker[s].invocations
    BY <1>2, ForgetKeeps
  <2>2. SetBroker(s, c)
    BY <1>3
  <2> HIDE DEF c
  <2>3. r \in Requests /\ r.target \in Sessions
    BY <1>2 DEF Requests
  <2>4. Cancel(r) \in Messages /\ Cancel(r).kind = "cancel"
    BY <2>3, CancelForms
  <2>5. CancelSpent(Cancel(r))'
    BY <1>1, <2>1, <2>2, BrokerSet, RemovedIsSpent
  <2> QED
    BY <1>1, <1>3, <2>1, <2>2, <2>3, <2>4, <2>5, ForgottenKeeps
<1>4. ASSUME NEW v \in broker[s].invocations,
             inbox' = Sent(inbox, v.req.from, Reply(v.req)),
             SetBroker(s, [broker[s] EXCEPT !.invocations = @ \ {v}])
      PROVE  CallsInv'
  <2> DEFINE c == [broker[s] EXCEPT !.invocations = @ \ {v}]
  <2>1. /\ c \in Brokers /\ Distinct(c) /\ c.nextId = broker[s].nextId
        /\ c.pending = broker[s].pending /\ c.invocations = broker[s].invocations \ {v}
    BY <1>2, ForgetKeeps
  <2>2. SetBroker(s, c)
    BY <1>4
  <2> HIDE DEF c
  <2>3. v.req \in Requests /\ v.req.from \in Sessions
    BY <1>2 DEF Requests, Invocations
  <2>4. Reply(v.req) \in Messages /\ Reply(v.req).kind = "reply"
    BY <2>3, CancelForms
  <2> QED
    BY <1>1, <1>4, <2>1, <2>2, <2>3, <2>4, ForgottenKeeps
<1> QED
  BY <1>3, <1>4 DEF ResetOne

\* The engine of a session is gone; what comes next is another one or none.
LEMMA DropEngineForm ==
  ASSUME CallsTypeOK, Brokered, NEW s \in Sessions, DropEngine(s)
  PROVE  /\ kept[s] = <<>> /\ broker[s].pending = {} /\ broker[s].invocations = {}
         /\ broker' \in [Sessions -> Brokers] /\ broker'[s] = NewBroker(broker[s].nextId)
         /\ \A u \in Sessions : u # s => broker'[u] = broker[u] /\ awaiting'[u] = awaiting[u]
                                         /\ fired'[u] = fired[u]
         /\ awaiting' \in [Sessions -> SUBSET Nat] /\ awaiting'[s] = {}
         /\ fired' \in [Sessions -> Nat] /\ fired'[s] = 0
         /\ Good(broker'[s]) /\ broker'[s].pending = {} /\ broker'[s].invocations = {}
         /\ broker'[s].deadlines = {} /\ broker'[s].nextId = broker[s].nextId
         /\ \A u \in Sessions : Grows(broker[u], broker'[u])
<1>1. \A u \in Sessions : broker[u] \in Brokers /\ broker[u].nextId \in Nat
  BY BrokerOf
<1> DEFINE c == NewBroker(broker[s].nextId)
<1>2. /\ Good(c) /\ c.pending = {} /\ c.invocations = {} /\ c.deadlines = {}
      /\ c.nextId = broker[s].nextId
  BY <1>1, NewBrokerGood
<1>3. SetBroker(s, c) /\ c \in Brokers
  BY <1>2 DEF DropEngine, ResetBroker, Good
<1> HIDE DEF c
<1>4. /\ broker' \in [Sessions -> Brokers] /\ broker'[s] = c
      /\ \A u \in Sessions : u # s => broker'[u] = broker[u]
  BY <1>3, BrokerSet
<1>5. /\ awaiting' \in [Sessions -> SUBSET Nat] /\ awaiting'[s] = {}
      /\ \A u \in Sessions : u # s => awaiting'[u] = awaiting[u]
  BY DEF DropEngine, CallsTypeOK
<1>6. /\ fired' \in [Sessions -> Nat] /\ fired'[s] = 0
      /\ \A u \in Sessions : u # s => fired'[u] = fired[u]
  BY DEF DropEngine, CallsTypeOK, NoDeadline
<1>7. kept[s] = <<>> /\ broker[s].pending = {} /\ broker[s].invocations = {}
  BY DEF DropEngine
<1>8. \A u \in Sessions : Grows(broker[u], broker'[u])
  <2>1. Grows(broker[s], c)
    BY <1>1, <1>2, <1>3, ForgetGrows
  <2>2. \A u \in Sessions : Grows(broker[u], broker[u])
    BY <1>1, GrowsRefl
  <2> QED
    BY <1>4, <2>1, <2>2
<1> QED
  BY <1>2, <1>4, <1>5, <1>6, <1>7, <1>8 DEF c

LEMMA DroppedKeeps ==
  ASSUME CallsInv, NEW s \in Sessions, DropEngine(s), stage[s] \in {"reloading", "closing"},
         NEW x, stage' = [stage EXCEPT ![s] = x],
         (stage[s] = "reloading" /\ x = "running") \/ (stage[s] = "closing" /\ x = "closed"),
         engine' \in [Sessions -> Nat], \A u \in Sessions : u # s => engine'[u] = engine[u],
         UNCHANGED <<budget, clock, inbox, expansion, kept>>
  PROVE  CallsInv'
<1>1. CallsTypeOK /\ Brokered /\ Staged /\ Posted
  BY DEF CallsInv
<1>2. /\ stage' \in [Sessions -> Stages] /\ stage'[s] = x
      /\ \A u \in Sessions : u # s => stage'[u] = stage[u]
  BY <1>1 DEF CallsTypeOK, Stages
<1>3. \A u \in Sessions : u # s => Up(u)' = Up(u) /\ Live(u)' = Live(u)
  BY <1>2 DEF Up, Live
<1>4. ~Up(s) /\ (Live(s)' = Live(s))
  BY <1>2 DEF Up, Live
<1>5. CallsTypeOK'
  BY <1>1, <1>2, DropEngineForm DEF CallsTypeOK
<1>6. Brokered'
  <2>1. /\ Distinct(broker'[s]) /\ Tracked(broker'[s]) /\ broker'[s].pending = {}
        /\ broker'[s].nextId = broker[s].nextId /\ awaiting'[s] = {}
        /\ \A u \in Sessions : u # s => broker'[u] = broker[u] /\ awaiting'[u] = awaiting[u]
    BY <1>1, DropEngineForm DEF Good
  <2> QED
    BY <1>1, <1>3, <2>1, BrokeredDown
<1>7. Staged'
  <2>1. kept[s] = <<>>
    BY <1>1, DropEngineForm
  <2>2. ASSUME NEW u \in Sessions
        PROVE  /\ ~Up(u)' => expansion'[u] = <<>>
               /\ stage'[u] # "reloading" => kept'[u] = <<>>
               /\ ~Live(u)' => inbox'[u] = <<>>
    <3>1. CASE u = s
      BY <1>1, <1>4, <2>1, <3>1 DEF Staged
    <3>2. CASE u # s
      BY <1>1, <1>2, <1>3, <3>2 DEF Staged
    <3> QED
      BY <3>1, <3>2
  <2> QED
    BY <2>2 DEF Staged
<1>8. Posted'
  <2>1. \A u \in Sessions : Grows(broker[u], broker'[u])
    BY <1>1, DropEngineForm
  <2> QED
    BY <1>1, <1>5, <2>1, PostedKept
<1> QED
  BY <1>5, <1>6, <1>7, <1>8 DEF CallsInv

LEMMA RebuildKeeps ==
  ASSUME CallsInv, NEW s \in Sessions, Rebuild(s) PROVE CallsInv'
<1>1. /\ DropEngine(s) /\ stage[s] = "reloading" /\ stage' = [stage EXCEPT ![s] = "running"]
      /\ engine' = [engine EXCEPT ![s] = @ + 1]
      /\ UNCHANGED <<budget, clock, inbox, expansion, kept>>
  BY DEF Rebuild
<1>2. engine' \in [Sessions -> Nat] /\ \A u \in Sessions : u # s => engine'[u] = engine[u]
  BY <1>1 DEF CallsInv, CallsTypeOK
<1> QED
  BY <1>1, <1>2, DroppedKeeps

LEMMA EndedKeeps ==
  ASSUME CallsInv, NEW s \in Sessions, Ended(s) PROVE CallsInv'
<1>1. /\ DropEngine(s) /\ stage[s] = "closing" /\ stage' = [stage EXCEPT ![s] = "closed"]
      /\ UNCHANGED <<budget, clock, engine, inbox, expansion, kept>>
  BY DEF Ended
<1>2. engine' \in [Sessions -> Nat]
  BY <1>1 DEF CallsInv, CallsTypeOK
<1> QED
  BY <1>1, <1>2, DroppedKeeps

LEMMA ShutdownKeeps ==
  ASSUME CallsInv, NEW s \in Sessions, Shutdown(s) PROVE CallsInv'
<1>1. /\ CallsTypeOK /\ Brokered /\ Staged /\ Posted /\ stage[s] = "running"
      /\ Spend("disruption")
      /\ stage' = [stage EXCEPT ![s] = "closing"]
      /\ inbox' = [inbox EXCEPT ![s] = <<>>]
      /\ expansion' = [expansion EXCEPT ![s] = <<>>]
      /\ UNCHANGED <<clock, engine, kept, broker, awaiting, fired>>
  BY DEF CallsInv, Shutdown
<1>2. budget' \in [{"call", "disruption"} -> Int]
  BY <1>1, SpendTyped
<1>3. /\ stage' \in [Sessions -> Stages] /\ stage'[s] = "closing"
      /\ \A u \in Sessions : u # s => stage'[u] = stage[u]
  BY <1>1 DEF CallsTypeOK, Stages
<1>4. /\ inbox' \in [Sessions -> Seq(Messages)] /\ inbox'[s] = <<>>
      /\ expansion' \in [Sessions -> Seq(Messages)] /\ expansion'[s] = <<>>
      /\ \A u \in Sessions : u # s => inbox'[u] = inbox[u] /\ expansion'[u] = expansion[u]
  BY <1>1 DEF CallsTypeOK
<1>5. CallsTypeOK'
  BY <1>1, <1>2, <1>3, <1>4 DEF CallsTypeOK
<1>6. \A u \in Sessions : u # s => Up(u)' = Up(u) /\ Live(u)' = Live(u)
  BY <1>3 DEF Up, Live
<1>7. ~Up(s)' /\ Up(s)
  BY <1>1, <1>3 DEF Up
<1>8. Brokered'
  BY <1>1, <1>6, <1>7, BrokeredSame
<1>9. Staged'
  <2>1. ASSUME NEW u \in Sessions
        PROVE  /\ ~Up(u)' => expansion'[u] = <<>>
               /\ stage'[u] # "reloading" => kept'[u] = <<>>
               /\ ~Live(u)' => inbox'[u] = <<>>
    <3>1. CASE u = s
      BY <1>1, <1>4, <3>1 DEF Staged
    <3>2. CASE u # s
      BY <1>1, <1>3, <1>4, <1>6, <3>2 DEF Staged
    <3> QED
      BY <3>1, <3>2
  <2> QED
    BY <2>1 DEF Staged
<1>10. Posted'
  <2>1. \A u \in Sessions : Grows(broker[u], broker'[u])
    BY <1>1, SameGrows
  <2>2. \A u \in Sessions : Mail(expansion'[u]) \subseteq Mail(expansion[u])
                            /\ Mail(inbox'[u]) \subseteq Mail(inbox[u])
    BY <1>4, MailEmpty
  <2> QED
    BY <1>1, <1>5, <2>1, <2>2, PostedKept
<1> QED
  BY <1>5, <1>8, <1>9, <1>10 DEF CallsInv

LEMMA CallsInvInit ==
  ASSUME CallsAssumption, CallsInit PROVE CallsInv
<1>1. /\ Good(NewBroker(1)) /\ NewBroker(1).pending = {} /\ NewBroker(1).invocations = {}
      /\ NewBroker(1).nextId = 1
  BY NewBrokerGood
<1>2. \A s \in Sessions : broker[s] = NewBroker(1) /\ awaiting[s] = {} /\ stage[s] = "running"
        /\ inbox[s] = <<>> /\ expansion[s] = <<>> /\ kept[s] = <<>>
  BY DEF CallsInit
<1>3. CallsTypeOK
  <2>1. budget \in [{"call", "disruption"} -> Int]
    BY DEF CallsInit, CallsAssumption
  <2>2. broker \in [Sessions -> Brokers]
    <3> DEFINE b == NewBroker(1)
    <3>1. b \in Brokers /\ broker = [s \in Sessions |-> b]
      BY <1>1 DEF CallsInit, Good
    <3> HIDE DEF b
    <3> QED
      BY <3>1
  <2> QED
    BY <2>1, <2>2 DEF CallsInit, CallsTypeOK, Stages, NoDeadline
<1>4. Brokered
  BY <1>1, <1>2 DEF Brokered, Good
<1>5. Staged
  BY <1>2 DEF Staged
<1>6. Posted
  BY <1>2, MailEmpty DEF Posted, Waits
<1> QED
  BY <1>3, <1>4, <1>5, <1>6 DEF CallsInv

LEMMA CallLoopKeeps ==
  ASSUME CallsAssumption, CallsInv, NEW s \in Sessions, CallLoop(s) PROVE CallsInv'
<1>1. CASE ForwardProcedureCall(s) BY <1>1, ForwardProcedureCallKeeps
<1>2. CASE DropProcedureCall(s) BY <1>2, DropProcedureCallKeeps
<1>3. CASE RefuseProcedureCall(s) BY <1>3, RefuseProcedureCallKeeps
<1>4. CASE StartProcedureCall(s) BY <1>4, StartProcedureCallKeeps
<1>5. CASE InvokeImplementation(s) BY <1>5, InvokeImplementationKeeps
<1>6. CASE ForwardProcedureReply(s) BY <1>6, ForwardProcedureReplyKeeps
<1>7. CASE ProcedureReply(s) BY <1>7, ProcedureReplyKeeps
<1>8. CASE SettlePromise(s) BY <1>8, SettlePromiseKeeps
<1>9. CASE CancelProcedureCall(s) BY <1>9, CancelProcedureCallKeeps
<1>10. CASE ExpireProcedureCalls(s) BY <1>10, ExpireProcedureCallsKeeps
<1>11. CASE ExpireOne(s) BY <1>11, ExpireOneKeeps
<1>12. CASE ExpireDone(s) BY <1>12, ExpireDoneKeeps
<1>13. CASE BeginReload(s) BY <1>13, BeginReloadKeeps
<1>14. CASE Requeue(s) BY <1>14, RequeueKeeps
<1>15. CASE ResetOne(s) BY <1>15, ResetOneKeeps
<1>16. CASE Rebuild(s) BY <1>16, RebuildKeeps
<1>17. CASE Ended(s) BY <1>17, EndedKeeps
<1> QED
  BY <1>1, <1>2, <1>3, <1>4, <1>5, <1>6, <1>7, <1>8, <1>9, <1>10, <1>11, <1>12, <1>13,
     <1>14, <1>15, <1>16, <1>17 DEF CallLoop

LEMMA CallsInvStutter ==
  ASSUME CallsInv, UNCHANGED callVars PROVE CallsInv'
<1>1. /\ CallsTypeOK /\ Brokered /\ Staged /\ Posted
      /\ UNCHANGED <<clock, stage, engine, inbox, expansion, kept, broker, awaiting, budget, fired>>
  BY DEF CallsInv, callVars
<1>2. CallsTypeOK'
  BY <1>1 DEF CallsTypeOK
<1>3. \A u \in Sessions : Up(u)' = Up(u) /\ Live(u)' = Live(u)
  BY <1>1 DEF Up, Live
<1>4. Brokered'
  BY <1>1, <1>3, BrokeredSame
<1>5. Staged'
  BY <1>1, <1>3 DEF Staged
<1>6. \A u \in Sessions : Grows(broker[u], broker'[u])
  BY <1>1, SameGrows
<1>7. Posted'
  BY <1>1, <1>2, <1>6, PostedKept
<1> QED
  BY <1>2, <1>4, <1>5, <1>7 DEF CallsInv

LEMMA CallsInvNext ==
  ASSUME CallsAssumption, CallsInv, [CallsNext]_callVars PROVE CallsInv'
<1>1. CASE Tick
  BY <1>1, TickKeeps
<1>2. ASSUME NEW s \in Sessions, RunHandler(s) PROVE CallsInv'
  BY <1>2, RunHandlerKeeps
<1>3. ASSUME NEW s \in Sessions, PumpScripts(s) PROVE CallsInv'
  BY <1>3, PumpScriptsKeeps
<1>4. ASSUME NEW s \in Sessions, Shutdown(s) PROVE CallsInv'
  BY <1>4, ShutdownKeeps
<1>5. ASSUME NEW s \in Sessions, CallLoop(s) PROVE CallsInv'
  BY <1>5, CallLoopKeeps
<1>6. ASSUME NEW s \in Sessions, FireDeadline(s) PROVE CallsInv'
  BY <1>6, FireDeadlineKeeps
<1>7. CASE UNCHANGED callVars
  BY <1>7, CallsInvStutter
<1> QED
  BY <1>1, <1>2, <1>3, <1>4, <1>5, <1>6, <1>7 DEF CallsNext

LEMMA CallsInvHolds == CallsSpec => []CallsInv
<1>1. CallsInit => CallsInv
  BY CallsInvInit, CallsAssumption
<1>2. CallsInv /\ [CallsNext]_callVars => CallsInv'
  BY CallsInvNext, CallsAssumption
<1> QED
  BY <1>1, <1>2, PTL DEF CallsSpec

\* The variables of the calls stay in their types.
THEOREM CallsTyped == CallsSpec => []CallsTypeOK
<1>1. CallsInv => CallsTypeOK
  BY DEF CallsInv
<1> QED
  BY <1>1, CallsInvHolds, PTL

\* While a session runs, the indexes and the budgets of its broker describe
\* exactly the calls and the invocations it tracks, and its timer was given the
\* earliest of their deadlines.
THEOREM BrokersConsistent == CallsSpec => []BrokerConsistent
<1>1. CallsInv => BrokerConsistent
  BY DEF CallsInv, Brokered, BrokerConsistent, Up, Tracked, CallEntry, InvocationEntry
<1> QED
  BY <1>1, CallsInvHolds, PTL

-----------------------------------------------------------------------------
\* The promises.  A promise that has an answer is not tracked any longer, and
\* is settled by one action of the expansion.

Unsettled(q) == {m \in Mail(q) : m.kind = "settle"}

OnceEach(q) ==
  \A i, j \in DOMAIN q :
    q[i].kind = "settle" /\ q[j].kind = "settle" /\ q[i].req.id = q[j].req.id => i = j

AccountedFor(s, promises, pending, q, heap) ==
  /\ promises = {r.id : r \in pending} \cup {m.req.id : m \in Unsettled(q)}
  /\ \A m \in Unsettled(q) :
       m.req.from = s /\ m.req.heap = heap /\ \A p \in pending : p.id # m.req.id
  /\ OnceEach(q)

Accounted ==
  \A s \in Sessions :
    Up(s) => AccountedFor(s, awaiting[s], broker[s].pending, expansion[s], engine[s])

Elsewhere(s) ==
  \A u \in Sessions : u # s =>
    /\ broker'[u] = broker[u] /\ awaiting'[u] = awaiting[u]
    /\ expansion'[u] = expansion[u] /\ engine'[u] = engine[u]
    /\ (Up(u)' => Up(u))

LEMMA UnsettledConcat ==
  ASSUME NEW q \in Seq(Messages), NEW r \in Seq(Messages)
  PROVE  Unsettled(q \o r) = Unsettled(q) \cup Unsettled(r)
BY MailConcat DEF Unsettled

LEMMA OnceConcat ==
  ASSUME NEW q \in Seq(Messages), NEW r \in Seq(Messages), OnceEach(q), OnceEach(r),
         \A m \in Unsettled(q), n \in Unsettled(r) : m.req.id # n.req.id
  PROVE  OnceEach(q \o r)
<1>1. Len(q) \in Nat /\ Len(r) \in Nat /\ DOMAIN q = 1..Len(q) /\ DOMAIN r = 1..Len(r)
  OBVIOUS
<1>2. DOMAIN (q \o r) = 1 .. (Len(q) + Len(r))
  BY ConcatProperties
<1>3. ASSUME NEW i \in DOMAIN (q \o r)
      PROVE  \/ i \in DOMAIN q /\ (q \o r)[i] = q[i]
             \/ i - Len(q) \in DOMAIN r /\ (q \o r)[i] = r[i - Len(q)] /\ i \notin DOMAIN q
  <2>1. CASE i <= Len(q)
    BY <1>1, <1>2, <1>3, <2>1, ConcatProperties
  <2>2. CASE i > Len(q)
    BY <1>1, <1>2, <1>3, <2>2, ConcatProperties
  <2> QED
    BY <1>1, <1>2, <1>3, <2>1, <2>2
<1>4. \A i \in DOMAIN q : q[i].kind = "settle" => q[i] \in Unsettled(q)
  BY DEF Unsettled, Mail
<1>5. \A i \in DOMAIN r : r[i].kind = "settle" => r[i] \in Unsettled(r)
  BY DEF Unsettled, Mail
<1> DEFINE qr == q \o r
<1>6. ASSUME NEW i \in DOMAIN qr, NEW j \in DOMAIN qr,
             qr[i].kind = "settle", qr[j].kind = "settle", qr[i].req.id = qr[j].req.id
      PROVE  i = j
  <2>1. i \in Nat /\ j \in Nat
    BY <1>1, <1>2
  <2> HIDE DEF qr
  <2>2. \/ i \in DOMAIN q /\ qr[i] = q[i]
        \/ i - Len(q) \in DOMAIN r /\ qr[i] = r[i - Len(q)]
    BY <1>3 DEF qr
  <2>3. \/ j \in DOMAIN q /\ qr[j] = q[j]
        \/ j - Len(q) \in DOMAIN r /\ qr[j] = r[j - Len(q)]
    BY <1>3 DEF qr
  <2>4. CASE i \in DOMAIN q /\ qr[i] = q[i]
    <3>1. q[i] \in Unsettled(q)
      BY <1>4, <1>6, <2>4
    <3>2. CASE j \in DOMAIN q /\ qr[j] = q[j]
      BY <1>6, <2>4, <3>2 DEF OnceEach
    <3>3. CASE j - Len(q) \in DOMAIN r /\ qr[j] = r[j - Len(q)]
      <4>1. r[j - Len(q)] \in Unsettled(r)
        BY <1>5, <1>6, <3>3
      <4> QED
        BY <1>6, <2>4, <3>1, <3>3, <4>1
    <3> QED
      BY <2>3, <3>2, <3>3
  <2>5. CASE i - Len(q) \in DOMAIN r /\ qr[i] = r[i - Len(q)]
    <3>1. r[i - Len(q)] \in Unsettled(r)
      BY <1>5, <1>6, <2>5
    <3>2. CASE j \in DOMAIN q /\ qr[j] = q[j]
      <4>1. q[j] \in Unsettled(q)
        BY <1>4, <1>6, <3>2
      <4> QED
        BY <1>6, <2>5, <3>1, <3>2, <4>1
    <3>3. CASE j - Len(q) \in DOMAIN r /\ qr[j] = r[j - Len(q)]
      <4>1. i - Len(q) = j - Len(q)
        BY <1>6, <2>5, <3>3 DEF OnceEach
      <4> QED
        BY <1>1, <2>1, <4>1
    <3> QED
      BY <2>3, <3>2, <3>3
  <2> QED
    BY <2>2, <2>4, <2>5
<1> QED
  BY <1>6 DEF OnceEach

LEMMA OnceTail ==
  ASSUME NEW q \in Seq(Messages), q # <<>>, OnceEach(q)
  PROVE  /\ OnceEach(Tail(q))
         /\ Head(q).kind = "settle" => \A m \in Unsettled(Tail(q)) : m.req.id # Head(q).req.id
<1>1. /\ Len(q) \in Nat \ {0} /\ DOMAIN q = 1..Len(q)
      /\ DOMAIN Tail(q) = 1..(Len(q) - 1) /\ \A i \in DOMAIN Tail(q) : Tail(q)[i] = q[i + 1]
  OBVIOUS
<1>2. \A i \in DOMAIN Tail(q) : i + 1 \in DOMAIN q
  BY <1>1
<1>3. OnceEach(Tail(q))
  BY <1>1, <1>2 DEF OnceEach
<1>4. ASSUME Head(q).kind = "settle", NEW m \in Unsettled(Tail(q)), m.req.id = Head(q).req.id
      PROVE  FALSE
  <2>1. PICK i \in DOMAIN Tail(q) : m = Tail(q)[i]
    BY <1>4 DEF Unsettled, Mail
  <2>2. m = q[i + 1] /\ m.kind = "settle" /\ i + 1 \in DOMAIN q
    BY <1>1, <1>2, <1>4, <2>1 DEF Unsettled
  <2>3. Head(q) = q[1] /\ 1 \in DOMAIN q
    BY <1>1
  <2>4. i + 1 = 1
    BY <1>4, <2>2, <2>3 DEF OnceEach
  <2> QED
    BY <1>1, <2>1, <2>4
<1> QED
  BY <1>3, <1>4

LEMMA PlainOnce ==
  ASSUME NEW q, Unsettled(q) = {}
  PROVE  OnceEach(q)
BY DEF OnceEach, Unsettled, Mail

LEMMA SingleOnce ==
  ASSUME NEW m
  PROVE  OnceEach(<<m>>) /\ Mail(<<m>>) = {m}
BY DEF OnceEach, Mail

\* What is left of the expansion once its first action is taken.
LEMMA RestAccounted ==
  ASSUME CallsInv, Accounted, NEW s \in Sessions, Busy(s)
  PROVE  /\ Rest(s) \in Seq(Messages) /\ OnceEach(Rest(s)) /\ Up(s)
         /\ Current(s).kind # "settle" => Unsettled(Rest(s)) = Unsettled(expansion[s])
         /\ Current(s).kind = "settle" =>
              /\ Unsettled(expansion[s]) = Unsettled(Rest(s)) \cup {Current(s)}
              /\ \A m \in Unsettled(Rest(s)) : m.req.id # Current(s).req.id
<1>1. CallsTypeOK /\ Posted /\ Up(s) /\ expansion[s] \in Seq(Messages)
  BY DEF CallsInv, CallsTypeOK, Busy, Up
<1>2. OnceEach(expansion[s])
  BY <1>1 DEF Accounted, AccountedFor
<1>3. CASE expansion[s] = <<>>
  <2>1. Rest(s) = <<>> /\ Current(s) \in Mail(inbox[s])
    BY <1>1, <1>3, TakenMail
  <2>2. Current(s).kind # "settle"
    BY <1>1, <2>1 DEF Posted
  <2>3. Unsettled(<<>>) = {}
    BY MailEmpty DEF Unsettled
  <2> QED
    BY <1>1, <1>3, <2>1, <2>2, <2>3, PlainOnce
<1>4. CASE expansion[s] # <<>>
  <2>1. /\ Rest(s) = Tail(expansion[s]) /\ Current(s) = Head(expansion[s])
        /\ Rest(s) \in Seq(Messages)
        /\ Mail(expansion[s]) = {Current(s)} \cup Mail(Rest(s))
    BY <1>1, <1>4, TakenMail
  <2>2. /\ OnceEach(Rest(s))
        /\ Current(s).kind = "settle" =>
             \A m \in Unsettled(Rest(s)) : m.req.id # Current(s).req.id
    BY <1>1, <1>2, <1>4, <2>1, OnceTail
  <2> QED
    BY <1>1, <2>1, <2>2 DEF Unsettled
<1> QED
  BY <1>3, <1>4

LEMMA AccountedKept ==
  ASSUME Accounted, NEW s \in Sessions, Elsewhere(s),
         Up(s)' => AccountedFor(s, awaiting'[s], broker'[s].pending, expansion'[s], engine'[s])
  PROVE  Accounted'
<1>1. ASSUME NEW u \in Sessions, Up(u)'
      PROVE  AccountedFor(u, awaiting'[u], broker'[u].pending, expansion'[u], engine'[u])
  <2>1. CASE u = s
    BY <1>1, <2>1
  <2>2. CASE u # s
    BY <1>1, <2>2 DEF Accounted, Elsewhere
  <2> QED
    BY <2>1, <2>2
<1>2. \A u \in Sessions :
        Up(u)' => AccountedFor(u, awaiting[u], broker[u].pending, expansion[u], engine[u])'
  BY <1>1 DEF AccountedFor, Unsettled, OnceEach, Mail
<1> QED
  BY <1>2 DEF Accounted

\* Only the promises that are made and those that are answered make a
\* difference.
LEMMA QuietAccounted ==
  ASSUME Accounted, NEW s \in Sessions, Elsewhere(s), Up(s)' => Up(s),
         awaiting'[s] = awaiting[s], broker'[s].pending = broker[s].pending,
         engine'[s] = engine[s],
         Unsettled(expansion'[s]) = Unsettled(expansion[s]), OnceEach(expansion'[s])
  PROVE  Accounted'
<1>1. Up(s)' => AccountedFor(s, awaiting'[s], broker'[s].pending, expansion'[s], engine'[s])
  BY DEF Accounted, AccountedFor
<1> QED
  BY <1>1, AccountedKept

LEMMA StillAccounted ==
  ASSUME Accounted, NEW s \in Sessions, Elsewhere(s), Up(s)' => Up(s),
         awaiting'[s] = awaiting[s], broker'[s].pending = broker[s].pending,
         engine'[s] = engine[s], expansion'[s] = expansion[s]
  PROVE  Accounted'
<1>1. Up(s)' => AccountedFor(s, awaiting'[s], broker'[s].pending, expansion'[s], engine'[s])
  BY DEF Accounted
<1> QED
  BY <1>1, AccountedKept

\* An action that takes its message and makes or answers no promise.
LEMMA HandledAccounted ==
  ASSUME CallsInv, Accounted, NEW s \in Sessions, Busy(s), Current(s).kind # "settle",
         NEW q \in Seq(Messages), Unsettled(q) = {}, Expand(s, q), Elsewhere(s),
         awaiting'[s] = awaiting[s], broker'[s].pending = broker[s].pending,
         engine'[s] = engine[s]
  PROVE  Accounted'
<1>1. /\ Rest(s) \in Seq(Messages) /\ OnceEach(Rest(s)) /\ Up(s)
      /\ Unsettled(Rest(s)) = Unsettled(expansion[s])
  BY RestAccounted
<1>2. expansion'[s] = q \o Rest(s)
  BY Expanded DEF CallsInv
<1>3. OnceEach(q \o Rest(s)) /\ Unsettled(q \o Rest(s)) = Unsettled(expansion[s])
  <2> DEFINE r == Rest(s)
  <2>1. r \in Seq(Messages) /\ OnceEach(r) /\ Unsettled(r) = Unsettled(expansion[s])
    BY <1>1
  <2> HIDE DEF r
  <2>2. OnceEach(q \o r)
    BY <2>1, OnceConcat, PlainOnce
  <2>3. Unsettled(q \o r) = Unsettled(q) \cup Unsettled(r)
    BY <2>1, UnsettledConcat
  <2> QED
    BY <2>1, <2>2, <2>3 DEF r
<1> QED
  BY <1>1, <1>2, <1>3, QuietAccounted

\* An action of one session's thread leaves the others' brokers, promises and
\* expansions alone.
LEMMA OneSession ==
  ASSUME CallsTypeOK, NEW s \in Sessions,
         RunHandler(s) \/ PumpScripts(s) \/ Shutdown(s) \/ CallLoop(s) \/ FireDeadline(s)
  PROVE  Elsewhere(s)
<1> DEFINE Others(f, g) == \A u \in Sessions : u # s => g[u] = f[u]
<1>1. ASSUME NEW f, NEW x, f \in [Sessions -> SUBSET Nat] \/ f \in [Sessions -> Brokers]
               \/ f \in [Sessions -> Seq(Messages)] \/ f \in [Sessions -> Nat]
               \/ f \in [Sessions -> Stages]
      PROVE  Others(f, [f EXCEPT ![s] = x])
  BY <1>1
<1>2. /\ broker \in [Sessions -> Brokers] /\ awaiting \in [Sessions -> SUBSET Nat]
      /\ expansion \in [Sessions -> Seq(Messages)] /\ engine \in [Sessions -> Nat]
      /\ stage \in [Sessions -> Stages]
  BY DEF CallsTypeOK
<1>3. Others(broker, broker')
  <2>1. UNCHANGED broker \/ \E c : broker' = [broker EXCEPT ![s] = c]
    BY DEF RunHandler, PumpScripts, Shutdown, FireDeadline, CallLoop, TakeTurn, SetBroker,
       ForwardProcedureCall, DropProcedureCall, RefuseProcedureCall, StartProcedureCall,
       InvokeImplementation, ForwardProcedureReply, ProcedureReply, SettlePromise,
       CancelProcedureCall, ExpireProcedureCalls, ExpireOne, ExpireDone, BeginReload, Requeue,
       ResetOne, Rebuild, Ended, DropEngine
  <2> QED
    BY <1>1, <1>2, <2>1
<1>4. Others(awaiting, awaiting')
  <2>1. UNCHANGED awaiting \/ \E c : awaiting' = [awaiting EXCEPT ![s] = c]
    BY DEF RunHandler, PumpScripts, Shutdown, FireDeadline, CallLoop, TakeTurn,
       ForwardProcedureCall, DropProcedureCall, RefuseProcedureCall, StartProcedureCall,
       InvokeImplementation, ForwardProcedureReply, ProcedureReply, SettlePromise,
       CancelProcedureCall, ExpireProcedureCalls, ExpireOne, ExpireDone, BeginReload, Requeue,
       ResetOne, Rebuild, Ended, DropEngine
  <2> QED
    BY <1>1, <1>2, <2>1
<1>5. Others(expansion, expansion')
  <2>1. UNCHANGED expansion \/ \E c : expansion' = [expansion EXCEPT ![s] = c]
    BY DEF RunHandler, PumpScripts, Shutdown, FireDeadline, CallLoop, Expand,
       ForwardProcedureCall, DropProcedureCall, RefuseProcedureCall, StartProcedureCall,
       InvokeImplementation, ForwardProcedureReply, ProcedureReply, SettlePromise,
       CancelProcedureCall, ExpireProcedureCalls, ExpireOne, ExpireDone, BeginReload, Requeue,
       ResetOne, Rebuild, Ended
  <2> QED
    BY <1>1, <1>2, <2>1
<1>6. Others(engine, engine')
  <2>1. UNCHANGED engine \/ \E c : engine' = [engine EXCEPT ![s] = c]
    BY DEF RunHandler, PumpScripts, Shutdown, FireDeadline, CallLoop,
       ForwardProcedureCall, DropProcedureCall, RefuseProcedureCall, StartProcedureCall,
       InvokeImplementation, ForwardProcedureReply, ProcedureReply, SettlePromise,
       CancelProcedureCall, ExpireProcedureCalls, ExpireOne, ExpireDone, BeginReload, Requeue,
       ResetOne, Rebuild, Ended
  <2> QED
    BY <1>1, <1>2, <2>1
<1>7. Others(stage, stage')
  <2>1. UNCHANGED stage \/ \E c : stage' = [stage EXCEPT ![s] = c]
    BY DEF RunHandler, PumpScripts, Shutdown, FireDeadline, CallLoop,
       ForwardProcedureCall, DropProcedureCall, RefuseProcedureCall, StartProcedureCall,
       InvokeImplementation, ForwardProcedureReply, ProcedureReply, SettlePromise,
       CancelProcedureCall, ExpireProcedureCalls, ExpireOne, ExpireDone, BeginReload, Requeue,
       ResetOne, Rebuild, Ended
  <2> QED
    BY <1>1, <1>2, <2>1
<1> QED
  BY <1>3, <1>4, <1>5, <1>6, <1>7 DEF Elsewhere, Up

\* The promise a turn makes is that of the call it makes.
LEMMA TurnPromises ==
  ASSUME CallsInv, NEW s \in Sessions, Up(s), NEW t, TurnForm(s, t)
  PROVE  /\ \A m \in Mail(t.spawned) : m.kind # "settle"
         /\ \/ t.promises = {} /\ t.b.pending = broker[s].pending
            \/ \E r \in Requests :
                 /\ r.id = broker[s].nextId /\ r.from = s /\ r.heap = engine[s]
                 /\ t.promises = {r.id} /\ t.b.pending = broker[s].pending \cup {r}
<1>1. CallsTypeOK /\ Brokered
  BY DEF CallsInv
<1>2. \A m \in Mail(t.spawned) : m.kind # "settle"
  BY TurnLeaves DEF Leaves
<1>3. CASE Idles(s, t)
  BY <1>2, <1>3 DEF Idles
<1>4. CASE IsRefused(s, t)
  <2>1. t.b.pending = broker[s].pending
    BY <1>1, <1>4, SpendIdFits DEF IsRefused
  <2> QED
    BY <1>2, <1>4, <2>1 DEF IsRefused
<1>5. ASSUME NEW v \in broker[s].invocations, Answers(s, t, v)
      PROVE  t.promises = {} /\ t.b.pending = broker[s].pending
  BY <1>1, <1>5, PrepareReplyFits DEF Answers
<1>6. ASSUME NEW r \in Requests, Calling(s, t, r)
      PROVE  /\ r.id = broker[s].nextId /\ r.from = s /\ r.heap = engine[s]
             /\ t.promises = {r.id} /\ t.b.pending = broker[s].pending \cup {r}
  BY <1>1, <1>6, InsertCallFits DEF Calling
<1> QED
  BY <1>2, <1>3, <1>4, <1>5, <1>6 DEF TurnForm

\* A turn of the scripts, whatever becomes of the expansion.
LEMMA TurnAccounted ==
  ASSUME CallsInv, Accounted, NEW s \in Sessions, Up(s), NEW t, TurnForm(s, t), TakeTurn(s, t),
         Elsewhere(s), engine'[s] = engine[s],
         Unsettled(expansion'[s]) = Unsettled(expansion[s]), OnceEach(expansion'[s])
  PROVE  Accounted'
<1>1. CallsTypeOK /\ Brokered
  BY DEF CallsInv
<1>2. broker'[s] = t.b /\ awaiting'[s] = awaiting[s] \cup t.promises
  BY <1>1, TurnTaken, BrokerSet
<1>3. CASE t.promises = {} /\ t.b.pending = broker[s].pending
  BY <1>2, <1>3, QuietAccounted
<1>4. ASSUME NEW r \in Requests,
             r.id = broker[s].nextId, r.from = s, r.heap = engine[s],
             t.promises = {r.id}, t.b.pending = broker[s].pending \cup {r}
      PROVE  Accounted'
  <2>1. AccountedFor(s, awaiting[s], broker[s].pending, expansion[s], engine[s])
    BY DEF Accounted
  <2>2. \A m \in Unsettled(expansion[s]) : m.req.id \in awaiting[s]
    BY <2>1 DEF AccountedFor
  <2>3. \A i \in awaiting[s] : i # r.id
    <3>1. \A i \in awaiting[s] : i \in Nat /\ i < broker[s].nextId
      BY <1>1 DEF Brokered, CallsTypeOK
    <3> QED
      BY <1>4, <3>1 DEF Requests
  <2>4. AccountedFor(s, awaiting'[s], broker'[s].pending, expansion'[s], engine'[s])
    <3>1. PICK U : U = Unsettled(expansion[s]) /\ U = Unsettled(expansion'[s])
      OBVIOUS
    <3>2. /\ awaiting[s] = {p.id : p \in broker[s].pending} \cup {m.req.id : m \in U}
          /\ \A m \in U : m.req.from = s /\ m.req.heap = engine[s] /\ m.req.id # r.id
                          /\ \A p \in broker[s].pending : p.id # m.req.id
      BY <2>1, <2>2, <2>3, <3>1 DEF AccountedFor
    <3>3. awaiting'[s] = {p.id : p \in broker'[s].pending} \cup {m.req.id : m \in U}
      BY <1>2, <1>4, <3>2
    <3>4. \A m \in U : m.req.from = s /\ m.req.heap = engine'[s]
                       /\ \A p \in broker'[s].pending : p.id # m.req.id
      BY <1>2, <1>4, <3>2
    <3> QED
      BY <3>1, <3>3, <3>4 DEF AccountedFor
  <2> QED
    BY <2>4, AccountedKept
<1> QED
  BY <1>3, <1>4, TurnPromises

LEMMA RunHandlerAccounted ==
  ASSUME CallsAssumption, CallsInv, Accounted, NEW s \in Sessions, RunHandler(s) PROVE Accounted'
<1>1. CallsTypeOK /\ Up(s) /\ expansion[s] = <<>> /\ engine' = engine
  BY DEF CallsInv, RunHandler, Up
<1>2. PICK t : /\ t \in ReloadTurns(broker[s]) \cup CallTurns(s, broker[s], 0, {}, s \in Callers)
               /\ TakeTurn(s, t) /\ expansion' = [expansion EXCEPT ![s] = t.spawned]
  BY DEF RunHandler
<1>3. TurnForm(s, t)
  BY <1>1, <1>2, ReloadTurnForm, CallTurnForm
<1>4. expansion'[s] = t.spawned
  BY <1>1, <1>2 DEF CallsTypeOK
<1>5. Unsettled(expansion'[s]) = {} /\ Unsettled(expansion[s]) = {}
  BY <1>1, <1>3, <1>4, TurnPromises, MailEmpty DEF Unsettled
<1>6. Elsewhere(s)
  BY <1>1, OneSession
<1> QED
  BY <1>1, <1>2, <1>3, <1>5, <1>6, PlainOnce, TurnAccounted

LEMMA PumpScriptsAccounted ==
  ASSUME CallsAssumption, CallsInv, Accounted, NEW s \in Sessions, PumpScripts(s) PROVE Accounted'
<1>1. CallsTypeOK /\ Up(s) /\ expansion' = expansion /\ engine' = engine
  BY DEF CallsInv, PumpScripts, Up
<1>2. \E t : TurnForm(s, t) /\ TakeTurn(s, t)
  <2>1. PICK t : /\ t \in ReloadTurns(broker[s])
                       \cup CallTurns(s, broker[s], 0, Parents(s, broker[s]), s \in Callers)
                       \cup AnswerTurns(s, broker[s], 1 .. MaxId[s])
                 /\ TakeTurn(s, t)
    BY DEF PumpScripts
  <2>2. CASE t \in ReloadTurns(broker[s])
    BY <2>1, <2>2, ReloadTurnForm
  <2>3. CASE t \in CallTurns(s, broker[s], 0, Parents(s, broker[s]), s \in Callers)
    BY <1>1, <2>1, <2>3, CallTurnForm
  <2>4. CASE t \in AnswerTurns(s, broker[s], 1 .. MaxId[s])
    BY <2>1, <2>4 DEF AnswerTurns, TurnForm, Answers, Turn
  <2> QED
    BY <2>1, <2>2, <2>3, <2>4
<1>3. OnceEach(expansion[s])
  BY <1>1 DEF Accounted, AccountedFor
<1>4. Elsewhere(s)
  BY <1>1, OneSession
<1> QED
  BY <1>1, <1>2, <1>3, <1>4, TurnAccounted

LEMMA InvokeImplementationAccounted ==
  ASSUME CallsAssumption, CallsInv, Accounted, NEW s \in Sessions, InvokeImplementation(s)
  PROVE  Accounted'
<1>1. /\ CallsTypeOK /\ Busy(s) /\ Up(s) /\ engine' = engine /\ Current(s).kind = "invoke"
      /\ Current(s).req \in Requests
  BY InHandTyped DEF InvokeImplementation
<1>2. PICK t : /\ t \in ImplementationTurns(s, broker[s], Current(s))
               /\ TakeTurn(s, t) /\ Expand(s, t.spawned)
  BY DEF InvokeImplementation
<1>3. TurnForm(s, t)
  BY <1>1, <1>2, ImplementationTurnForm
<1>4. t.spawned \in Seq(Messages) /\ Unsettled(t.spawned) = {}
  BY <1>1, <1>3, TurnLeaves, TurnPromises DEF Leaves, Unsettled
<1>5. /\ Rest(s) \in Seq(Messages) /\ OnceEach(Rest(s))
      /\ Unsettled(Rest(s)) = Unsettled(expansion[s])
  BY <1>1, RestAccounted
<1>6. expansion'[s] = t.spawned \o Rest(s)
  BY <1>1, <1>2, <1>4, Expanded
<1>7. Unsettled(expansion'[s]) = Unsettled(expansion[s]) /\ OnceEach(expansion'[s])
  <2> DEFINE r == Rest(s)
             q == t.spawned
  <2>1. /\ r \in Seq(Messages) /\ OnceEach(r) /\ Unsettled(r) = Unsettled(expansion[s])
        /\ q \in Seq(Messages) /\ Unsettled(q) = {} /\ expansion'[s] = q \o r
    BY <1>4, <1>5, <1>6
  <2> HIDE DEF r, q
  <2>2. OnceEach(q \o r) /\ Unsettled(q \o r) = Unsettled(q) \cup Unsettled(r)
    BY <2>1, OnceConcat, PlainOnce, UnsettledConcat
  <2> QED
    BY <2>1, <2>2
<1>8. Elsewhere(s)
  BY <1>1, OneSession DEF CallLoop
<1> QED
  BY <1>1, <1>2, <1>3, <1>7, <1>8, TurnAccounted

LEMMA TakenAccounted ==
  ASSUME CallsInv, Accounted, NEW s \in Sessions, Busy(s), Current(s).kind # "settle",
         Expand(s, <<>>), Elsewhere(s),
         awaiting'[s] = awaiting[s], broker'[s].pending = broker[s].pending,
         engine'[s] = engine[s]
  PROVE  Accounted'
<1> <<>> \in Seq(Messages)
  OBVIOUS
<1>1. PICK q \in Seq(Messages) : q = <<>>
  OBVIOUS
<1>2. Unsettled(q) = {} /\ Expand(s, q)
  BY <1>1, MailEmpty DEF Unsettled
<1> QED
  BY <1>2, HandledAccounted

LEMMA ForwardProcedureCallAccounted ==
  ASSUME CallsInv, Accounted, NEW s \in Sessions, ForwardProcedureCall(s) PROVE Accounted'
<1>1. /\ CallsTypeOK /\ Busy(s) /\ Current(s).kind # "settle" /\ Expand(s, <<>>)
      /\ UNCHANGED <<engine, awaiting, broker>>
  BY DEF CallsInv, ForwardProcedureCall, Handling
<1>2. Elsewhere(s)
  BY <1>1, OneSession DEF CallLoop
<1> QED
  BY <1>1, <1>2, TakenAccounted

LEMMA DropProcedureCallAccounted ==
  ASSUME CallsInv, Accounted, NEW s \in Sessions, DropProcedureCall(s) PROVE Accounted'
<1>1. /\ CallsTypeOK /\ Busy(s) /\ Current(s).kind # "settle" /\ Expand(s, <<>>)
      /\ UNCHANGED <<engine, awaiting, broker>>
  BY DEF CallsInv, DropProcedureCall, Handling
<1>2. Elsewhere(s)
  BY <1>1, OneSession DEF CallLoop
<1> QED
  BY <1>1, <1>2, TakenAccounted

LEMMA RefuseProcedureCallAccounted ==
  ASSUME CallsInv, Accounted, NEW s \in Sessions, RefuseProcedureCall(s) PROVE Accounted'
<1>1. /\ CallsTypeOK /\ Brokered /\ Busy(s) /\ Up(s) /\ Current(s).kind # "settle"
      /\ Expand(s, <<>>) /\ UNCHANGED <<engine, awaiting>>
      /\ UNCHANGED broker \/ SetBroker(s, [broker[s] EXCEPT !.nextId = @ + 1])
  BY DEF CallsInv, RefuseProcedureCall, Handling, Busy, Up
<1>2. broker'[s].pending = broker[s].pending
  <2>1. CASE SetBroker(s, [broker[s] EXCEPT !.nextId = @ + 1])
    BY <1>1, <2>1, SpendIdFits, BrokerSet DEF Fits, Good
  <2> QED
    BY <1>1, <2>1
<1>3. Elsewhere(s)
  BY <1>1, OneSession DEF CallLoop
<1> QED
  BY <1>1, <1>2, <1>3, TakenAccounted

LEMMA StartProcedureCallAccounted ==
  ASSUME CallsInv, Accounted, NEW s \in Sessions, StartProcedureCall(s) PROVE Accounted'
<1>1. /\ CallsTypeOK /\ Brokered /\ Busy(s) /\ Up(s) /\ Current(s).kind = "call"
      /\ Current(s).req \in Requests
  BY InHandTyped DEF StartProcedureCall
<1> DEFINE r == Current(s).req
<1>2. /\ CanStart(s, broker[s], r) /\ SetBroker(s, StartInvocation(broker[s], r, engine[s]))
      /\ Expand(s, <<Invoke(r, broker[s].nextId)>>) /\ UNCHANGED <<engine, awaiting>>
  BY DEF StartProcedureCall
<1>3. broker'[s].pending = broker[s].pending
  BY <1>1, <1>2, StartInvocationFits, BrokerSet DEF Fits, Good
<1>4. Elsewhere(s)
  BY <1>1, OneSession DEF CallLoop
<1>5. PICK m \in Messages : m = Invoke(r, broker[s].nextId) /\ m.kind = "invoke"
  <2>1. broker[s].nextId \in Nat
    BY <1>1, BrokerOf
  <2>2. /\ Invoke(r, broker[s].nextId) \in Messages
        /\ Invoke(r, broker[s].nextId).kind = "invoke"
    BY <1>1, <2>1 DEF Messages, Invoke
  <2> QED
    BY <2>2
<1>6. <<m>> \in Seq(Messages) /\ Unsettled(<<m>>) = {}
  BY <1>5, SingleOnce DEF Unsettled
<1> QED
  BY <1>1, <1>2, <1>3, <1>4, <1>5, <1>6, HandledAccounted

LEMMA ForwardProcedureReplyAccounted ==
  ASSUME CallsInv, Accounted, NEW s \in Sessions, ForwardProcedureReply(s) PROVE Accounted'
<1>1. /\ CallsTypeOK /\ Brokered /\ Busy(s) /\ Up(s) /\ Current(s).kind # "settle"
      /\ Expand(s, <<>>) /\ UNCHANGED <<engine, awaiting>>
      /\ UNCHANGED broker
         \/ \E v \in broker[s].invocations : SetBroker(s, RemoveInvocation(broker[s], v))
  BY DEF CallsInv, ForwardProcedureReply, Handling, Busy, Up
<1>2. broker'[s].pending = broker[s].pending
  BY <1>1, RemoveInvocationFits, BrokerSet DEF Fits, Good
<1>3. Elsewhere(s)
  BY <1>1, OneSession DEF CallLoop
<1> QED
  BY <1>1, <1>2, <1>3, TakenAccounted

LEMMA CancelProcedureCallAccounted ==
  ASSUME CallsInv, Accounted, NEW s \in Sessions, CancelProcedureCall(s) PROVE Accounted'
<1>1. /\ CallsTypeOK /\ Brokered /\ Busy(s) /\ Up(s) /\ Current(s).kind # "settle"
      /\ Expand(s, <<>>) /\ UNCHANGED <<engine, awaiting>>
      /\ UNCHANGED broker
         \/ \E v \in broker[s].invocations : SetBroker(s, RemoveInvocation(broker[s], v))
  BY DEF CallsInv, CancelProcedureCall, Handling, Busy, Up
<1>2. broker'[s].pending = broker[s].pending
  BY <1>1, RemoveInvocationFits, BrokerSet DEF Fits, Good
<1>3. Elsewhere(s)
  BY <1>1, OneSession DEF CallLoop
<1> QED
  BY <1>1, <1>2, <1>3, TakenAccounted

LEMMA ExpireProcedureCallsAccounted ==
  ASSUME CallsInv, Accounted, NEW s \in Sessions, ExpireProcedureCalls(s) PROVE Accounted'
<1>1. /\ CallsTypeOK /\ Busy(s) /\ Current(s).kind # "settle" /\ Expand(s, <<>>)
      /\ UNCHANGED <<engine, awaiting, broker>>
  BY DEF CallsInv, ExpireProcedureCalls, Handling
<1>2. Elsewhere(s)
  BY <1>1, OneSession DEF CallLoop
<1> QED
  BY <1>1, <1>2, TakenAccounted

\* A call is answered: its promise, now to be settled, is nobody else's.
LEMMA AnsweredAccounted ==
  ASSUME CallsInv, Accounted, NEW s \in Sessions, Up(s), Elsewhere(s),
         NEW p \in broker[s].pending, broker'[s].pending = broker[s].pending \ {p},
         awaiting'[s] = awaiting[s], engine'[s] = engine[s],
         Unsettled(expansion'[s]) = Unsettled(expansion[s]) \cup {Settle(p)},
         OnceEach(expansion'[s])
  PROVE  Accounted'
<1>1. AccountedFor(s, awaiting[s], broker[s].pending, expansion[s], engine[s])
  BY DEF Accounted
<1> PICK n : n = Settle(p)
  OBVIOUS
<1>2. n = Settle(p) /\ n.req = p
  BY DEF Settle
<1>3. p.from = s /\ p.heap = engine[s] /\ \A r \in broker[s].pending : r.id = p.id => r = p
  BY DEF CallsInv, Brokered, Distinct
<1>4. PICK U, V : /\ U = Unsettled(expansion[s]) /\ V = Unsettled(expansion'[s])
                  /\ V = U \cup {n}
  BY <1>2
<1>5. /\ awaiting[s] = {r.id : r \in broker[s].pending} \cup {m.req.id : m \in U}
      /\ \A m \in U : m.req.from = s /\ m.req.heap = engine[s]
                      /\ \A r \in broker[s].pending : r.id # m.req.id
  BY <1>1, <1>4 DEF AccountedFor
<1>6. awaiting'[s] = {r.id : r \in broker'[s].pending} \cup {m.req.id : m \in V}
  BY <1>2, <1>4, <1>5
<1>7. \A m \in V : m.req.from = s /\ m.req.heap = engine'[s]
                   /\ \A r \in broker'[s].pending : r.id # m.req.id
  BY <1>2, <1>3, <1>4, <1>5
<1>8. AccountedFor(s, awaiting'[s], broker'[s].pending, expansion'[s], engine'[s])
  BY <1>4, <1>6, <1>7 DEF AccountedFor
<1> QED
  BY <1>8, AccountedKept

LEMMA PendingUnsettled ==
  ASSUME CallsInv, Accounted, NEW s \in Sessions, Up(s), NEW p \in broker[s].pending
  PROVE  /\ Settle(p) \in Messages /\ Settle(p).kind = "settle" /\ Settle(p).req = p
         /\ \A m \in Unsettled(expansion[s]) : m.req.id # p.id
<1>1. p \in Requests
  BY BrokerOf DEF CallsInv
<1>2. \A m \in Unsettled(expansion[s]) : m.req.id # p.id
  BY DEF Accounted, AccountedFor
<1> QED
  BY <1>1, <1>2 DEF Settle, Messages

LEMMA ProcedureReplyAccounted ==
  ASSUME CallsInv, Accounted, NEW s \in Sessions, ProcedureReply(s) PROVE Accounted'
<1>1. Busy(s) /\ Up(s) /\ CallsTypeOK /\ Brokered /\ Current(s).kind = "reply"
  BY InHandTyped DEF ProcedureReply
<1>2. /\ UNCHANGED <<engine, awaiting>>
      /\ \/ Expand(s, <<>>) /\ UNCHANGED broker
         \/ \E p \in broker[s].pending :
              SetBroker(s, RemoveCall(broker[s], p)) /\ Expand(s, <<Settle(p)>>)
  BY DEF ProcedureReply
<1>3. Elsewhere(s)
  BY <1>1, OneSession DEF CallLoop
<1>4. CASE Expand(s, <<>>) /\ UNCHANGED broker
  BY <1>1, <1>2, <1>3, <1>4, TakenAccounted
<1>5. ASSUME NEW p \in broker[s].pending,
             SetBroker(s, RemoveCall(broker[s], p)), Expand(s, <<Settle(p)>>)
      PROVE  Accounted'
  <2>1. broker'[s].pending = broker[s].pending \ {p}
    BY <1>1, <1>5, RemoveCallFits, BrokerSet DEF Fits, Good
  <2>2. PICK n \in Messages : n = Settle(p)
    BY <1>1, PendingUnsettled
  <2>3. /\ n.kind = "settle" /\ n.req = p
        /\ \A m \in Unsettled(expansion[s]) : m.req.id # p.id
    BY <1>1, <2>2, PendingUnsettled
  <2>4. PICK r \in Seq(Messages) : /\ r = Rest(s) /\ OnceEach(r)
                                   /\ Unsettled(r) = Unsettled(expansion[s])
    BY <1>1, RestAccounted
  <2>6. <<n>> \in Seq(Messages) /\ OnceEach(<<n>>) /\ Unsettled(<<n>>) = {n}
    BY <2>2, <2>3, SingleOnce DEF Unsettled
  <2>5. expansion'[s] = <<n>> \o r
    <3>1. PICK q \in Seq(Messages) : q = <<n>>
      BY <2>6
    <3>2. Expand(s, q)
      BY <1>5, <2>2, <3>1
    <3> QED
      BY <1>1, <2>4, <3>1, <3>2, Expanded
  <2>7. OnceEach(<<n>> \o r) /\ Unsettled(<<n>> \o r) = {n} \cup Unsettled(r)
    BY <2>3, <2>4, <2>6, OnceConcat, UnsettledConcat
  <2> QED
    BY <1>1, <1>2, <1>3, <2>1, <2>2, <2>4, <2>5, <2>7, AnsweredAccounted
<1> QED
  BY <1>2, <1>4, <1>5

LEMMA ExpireOneAccounted ==
  ASSUME CallsInv, Accounted, NEW s \in Sessions, ExpireOne(s) PROVE Accounted'
<1>1. CallsTypeOK /\ Brokered /\ Up(s) /\ UNCHANGED <<engine, awaiting, stage>>
  BY DEF CallsInv, ExpireOne, Up
<1>2. Elsewhere(s) /\ OnceEach(expansion[s]) /\ expansion[s] \in Seq(Messages)
  BY <1>1, OneSession DEF CallLoop, Accounted, AccountedFor, CallsTypeOK
<1>3. ASSUME NEW p \in broker[s].pending,
             SetBroker(s, RemoveCall(broker[s], p)),
             expansion' = [expansion EXCEPT ![s] = Append(@, Settle(p))]
      PROVE  Accounted'
  <2>1. broker'[s].pending = broker[s].pending \ {p}
    BY <1>1, <1>3, RemoveCallFits, BrokerSet DEF Fits, Good
  <2>2. PICK n \in Messages : n = Settle(p)
    BY <1>1, PendingUnsettled
  <2>3. /\ n.kind = "settle" /\ n.req = p
        /\ \A m \in Unsettled(expansion[s]) : m.req.id # p.id
    BY <1>1, <2>2, PendingUnsettled
  <2>4. PICK q \in Seq(Messages) : q = expansion[s]
    BY <1>2
  <2>5. expansion'[s] = q \o <<n>>
    BY <1>1, <1>3, <2>2, <2>4 DEF CallsTypeOK
  <2>6. <<n>> \in Seq(Messages) /\ OnceEach(<<n>>) /\ Unsettled(<<n>>) = {n}
    BY <2>2, <2>3, SingleOnce DEF Unsettled
  <2>7. OnceEach(q \o <<n>>) /\ Unsettled(q \o <<n>>) = Unsettled(q) \cup {n}
    BY <1>2, <2>3, <2>4, <2>6, OnceConcat, UnsettledConcat
  <2> QED
    BY <1>1, <1>2, <2>1, <2>2, <2>4, <2>5, <2>7, AnsweredAccounted
<1>4. ASSUME NEW v \in broker[s].invocations,
             SetBroker(s, RemoveInvocation(broker[s], v)), UNCHANGED expansion
      PROVE  Accounted'
  <2>1. broker'[s].pending = broker[s].pending
    BY <1>1, <1>4, RemoveInvocationFits, BrokerSet DEF Fits, Good
  <2> QED
    BY <1>1, <1>2, <1>4, <2>1, StillAccounted
<1> QED
  BY <1>3, <1>4, ExpireOneForm

LEMMA SettlePromiseAccounted ==
  ASSUME CallsInv, Accounted, NEW s \in Sessions, SettlePromise(s) PROVE Accounted'
<1>1. /\ Busy(s) /\ Up(s) /\ CallsTypeOK /\ Current(s).kind = "settle"
      /\ Current(s).req.id \in Nat
  BY InHandTyped DEF SettlePromise
<1>2. /\ awaiting' = [awaiting EXCEPT ![s] = @ \ {Current(s).req.id}]
      /\ Expand(s, <<>>) /\ UNCHANGED <<engine, broker>>
  BY DEF SettlePromise
<1>3. Elsewhere(s)
  BY <1>1, OneSession DEF CallLoop
<1>4. PICK r \in Seq(Messages), m \in Messages : r = Rest(s) /\ m = Current(s)
  BY <1>1, TakenMail
<1>5. /\ OnceEach(r) /\ Unsettled(expansion[s]) = Unsettled(r) \cup {m}
      /\ \A n \in Unsettled(r) : n.req.id # m.req.id
  BY <1>1, <1>4, RestAccounted
<1>6. expansion'[s] = r
  <2> <<>> \in Seq(Messages)
    OBVIOUS
  <2>1. PICK q \in Seq(Messages) : q = <<>>
    OBVIOUS
  <2>2. expansion'[s] = q \o r
    BY <1>1, <1>2, <1>4, <2>1, Expanded
  <2> QED
    BY <1>4, <2>1, <2>2
<1>7. awaiting'[s] = awaiting[s] \ {m.req.id}
  BY <1>1, <1>2, <1>4 DEF CallsTypeOK
<1>8. AccountedFor(s, awaiting[s], broker[s].pending, expansion[s], engine[s])
  BY <1>1 DEF Accounted
<1>9. AccountedFor(s, awaiting'[s], broker'[s].pending, expansion'[s], engine'[s])
  BY <1>2, <1>5, <1>6, <1>7, <1>8 DEF AccountedFor
<1> QED
  BY <1>3, <1>9, AccountedKept

\* What a session does to come up again, or to end.
LEMMA DownAccounted ==
  ASSUME CallsInv, Accounted, NEW s \in Sessions,
         BeginReload(s) \/ Requeue(s) \/ ResetOne(s) \/ Ended(s) \/ Shutdown(s)
  PROVE  Accounted'
<1>1. CallsTypeOK /\ stage'[s] \in {"reloading", "closing", "closed"}
  BY DEF CallsInv, CallsTypeOK, BeginReload, Requeue, ResetOne, Ended, Shutdown
<1>2. Elsewhere(s) /\ ~Up(s)'
  BY <1>1, OneSession DEF CallLoop, Up
<1> QED
  BY <1>2, AccountedKept

LEMMA RebuildAccounted ==
  ASSUME CallsInv, Accounted, NEW s \in Sessions, Rebuild(s) PROVE Accounted'
<1>1. /\ CallsTypeOK /\ Brokered /\ Staged /\ DropEngine(s) /\ stage[s] = "reloading"
      /\ UNCHANGED expansion
  BY DEF CallsInv, Rebuild
<1>2. Elsewhere(s)
  BY <1>1, OneSession DEF CallLoop
<1>3. awaiting'[s] = {} /\ broker'[s].pending = {} /\ expansion'[s] = <<>>
  BY <1>1, DropEngineForm DEF Staged, Up
<1>4. Unsettled(<<>>) = {}
  BY MailEmpty DEF Unsettled
<1>5. AccountedFor(s, awaiting'[s], broker'[s].pending, expansion'[s], engine'[s])
  BY <1>3, <1>4, PlainOnce DEF AccountedFor
<1> QED
  BY <1>2, <1>5, AccountedKept

LEMMA SameAccounted ==
  ASSUME Accounted, UNCHANGED <<broker, awaiting, expansion, engine>>,
         \A s \in Sessions : Up(s)' => Up(s)
  PROVE  Accounted'
<1>1. \A s \in Sessions :
        Up(s)' => AccountedFor(s, awaiting[s], broker[s].pending, expansion[s], engine[s])'
  BY DEF Accounted, AccountedFor, Unsettled, OnceEach, Mail
<1> QED
  BY <1>1 DEF Accounted

LEMMA AccountedNext ==
  ASSUME CallsAssumption, CallsInv, Accounted, [CallsNext]_callVars PROVE Accounted'
<1>1. CASE Tick \/ UNCHANGED callVars
  BY <1>1, SameAccounted DEF Tick, callVars, Up
<1>2. ASSUME NEW s \in Sessions, FireDeadline(s) \/ ExpireDone(s) PROVE Accounted'
  <2>1. /\ UNCHANGED <<broker, awaiting, expansion, engine>>
        /\ stage' \in {stage, [stage EXCEPT ![s] = "running"]}
        /\ stage[s] \in {"running", "expiring"} /\ CallsTypeOK
    BY <1>2 DEF FireDeadline, ExpireDone, CallsInv
  <2>2. \A u \in Sessions : Up(u)' => Up(u)
    BY <2>1 DEF Up, CallsTypeOK
  <2> QED
    BY <2>1, <2>2, SameAccounted
<1>3. ASSUME NEW s \in Sessions, RunHandler(s) PROVE Accounted'
  BY <1>3, RunHandlerAccounted
<1>4. ASSUME NEW s \in Sessions, PumpScripts(s) PROVE Accounted'
  BY <1>4, PumpScriptsAccounted
<1>5. ASSUME NEW s \in Sessions, Shutdown(s) PROVE Accounted'
  BY <1>5, DownAccounted
<1>6. ASSUME NEW s \in Sessions, CallLoop(s) PROVE Accounted'
  <2>1. CASE ForwardProcedureCall(s) BY <2>1, ForwardProcedureCallAccounted
  <2>2. CASE DropProcedureCall(s) BY <2>2, DropProcedureCallAccounted
  <2>3. CASE RefuseProcedureCall(s) BY <2>3, RefuseProcedureCallAccounted
  <2>4. CASE StartProcedureCall(s) BY <2>4, StartProcedureCallAccounted
  <2>5. CASE InvokeImplementation(s) BY <2>5, InvokeImplementationAccounted
  <2>6. CASE ForwardProcedureReply(s) BY <2>6, ForwardProcedureReplyAccounted
  <2>7. CASE ProcedureReply(s) BY <2>7, ProcedureReplyAccounted
  <2>8. CASE SettlePromise(s) BY <2>8, SettlePromiseAccounted
  <2>9. CASE CancelProcedureCall(s) BY <2>9, CancelProcedureCallAccounted
  <2>10. CASE ExpireProcedureCalls(s) BY <2>10, ExpireProcedureCallsAccounted
  <2>11. CASE ExpireOne(s) BY <2>11, ExpireOneAccounted
  <2>12. CASE ExpireDone(s) BY <1>2, <2>12
  <2>13. CASE BeginReload(s) \/ Requeue(s) \/ ResetOne(s) \/ Ended(s)
    BY <2>13, DownAccounted
  <2>14. CASE Rebuild(s) BY <2>14, RebuildAccounted
  <2> QED
    BY <1>6, <2>1, <2>2, <2>3, <2>4, <2>5, <2>6, <2>7, <2>8, <2>9, <2>10, <2>11, <2>12,
       <2>13, <2>14 DEF CallLoop
<1> QED
  BY <1>1, <1>2, <1>3, <1>4, <1>5, <1>6 DEF CallsNext

\* While a session runs, each promise of its live heap is either tracked by the
\* broker with the request it was made for or about to be settled, never both
\* and never twice.
THEOREM PromisesKept == CallsSpec => []PromisesAccounted
<1>1. CallsInit => Accounted
  <2> SUFFICES ASSUME CallsInit PROVE Accounted
    OBVIOUS
  <2>1. \A s \in Sessions : awaiting[s] = {} /\ broker[s].pending = {} /\ expansion[s] = <<>>
    BY NewBrokerGood DEF CallsInit
  <2>2. Unsettled(<<>>) = {}
    BY MailEmpty DEF Unsettled
  <2> QED
    BY <2>1, <2>2, PlainOnce DEF Accounted, AccountedFor
<1>2. CallsInv /\ Accounted /\ [CallsNext]_callVars => Accounted'
  BY AccountedNext, CallsAssumption
<1>3. CallsInv /\ Accounted => PromisesAccounted
  <2> SUFFICES ASSUME CallsInv, Accounted, NEW s \in Sessions, Up(s)
               PROVE  /\ awaiting[s] = {r.id : r \in broker[s].pending}
                                       \cup {expansion[s][i].req.id : i \in Settling(s)}
                      /\ \A r \in broker[s].pending : r.from = s /\ r.heap = engine[s]
                      /\ \A i \in Settling(s) :
                           LET r == expansion[s][i].req IN
                           /\ r.from = s /\ r.heap = engine[s]
                           /\ ~\E p \in broker[s].pending : p.id = r.id
                           /\ \A j \in Settling(s) : expansion[s][j].req.id = r.id => i = j
    BY DEF PromisesAccounted, Up
  <2>1. AccountedFor(s, awaiting[s], broker[s].pending, expansion[s], engine[s])
    BY DEF Accounted
  <2>2. Unsettled(expansion[s]) = {expansion[s][i] : i \in Settling(s)}
    BY DEF Unsettled, Mail, Settling
  <2>3. \A r \in broker[s].pending : r.from = s /\ r.heap = engine[s]
    BY DEF CallsInv, Brokered
  <2>4. \A i, j \in Settling(s) : expansion[s][i].req.id = expansion[s][j].req.id => i = j
    BY <2>1 DEF AccountedFor, OnceEach, Settling
  <2> QED
    BY <2>1, <2>2, <2>3, <2>4 DEF AccountedFor
<1> QED
  <2> HIDE DEF Accounted
  <2> QED
    BY <1>1, <1>2, <1>3, CallsInvHolds, PTL DEF CallsSpec

-----------------------------------------------------------------------------
\* Somebody answers every call.

InSight(s, r) ==
  \/ Forward(r) \in Waits(s) \/ Reply(r) \in Waits(s)
  \/ Call(r) \in Waits(r.target)
  \/ \E v \in broker[r.target].invocations : v.req = r
  \/ ~Live(r.target)

Sighted == \A s \in Sessions : Up(s) => \A r \in broker[s].pending : InSight(s, r)

\* A step of u that takes the messages in lost may put call r out of sight.
Touched(u, s, r, lost) ==
  \/ s = u /\ (Forward(r) \in lost \/ Reply(r) \in lost)
  \/ r.target = u /\ Call(r) \in lost
  \/ /\ r.target = u /\ \E v \in broker[u].invocations : v.req = r
     /\ \A w \in broker'[u].invocations : w.req # r

LEMMA PendingTyped ==
  ASSUME CallsTypeOK, NEW s \in Sessions, NEW r \in broker[s].pending
  PROVE  r \in Requests /\ r.target \in Sessions /\ r.from \in Sessions
<1>1. broker[s] \in Brokers
  BY DEF CallsTypeOK
<1>2. r \in Requests
  BY <1>1 DEF Brokers
<1> QED
  BY <1>2 DEF Requests

LEMMA SightedKept ==
  ASSUME CallsTypeOK, Sighted, NEW u \in Sessions, NEW lost,
         \A v \in Sessions : v # u => broker'[v] = broker[v] /\ Waits(v) \subseteq Waits(v)',
         Waits(u) \subseteq Waits(u)' \cup lost,
         \A v \in Sessions : Live(v)' => Live(v),
         \A v \in Sessions : Up(v)' => Up(v) \/ broker'[v].pending = {},
         \A s \in Sessions : \A r \in broker'[s].pending :
            /\ Up(s) /\ Up(s)'
            /\ r \notin broker[s].pending \/ Touched(u, s, r, lost)
            => InSight(s, r)'
  PROVE  Sighted'
<1> SUFFICES ASSUME NEW s \in Sessions, Up(s)', NEW r \in broker'[s].pending
             PROVE  InSight(s, r)'
  BY DEF Sighted
<1>1. Up(s)
  OBVIOUS
<1>2. CASE r \notin broker[s].pending \/ Touched(u, s, r, lost)
  BY <1>1, <1>2
<1>3. CASE r \in broker[s].pending /\ ~Touched(u, s, r, lost)
  <2>1. r.target \in Sessions /\ InSight(s, r)
    BY <1>1, <1>3, PendingTyped DEF Sighted
  <2>2. Forward(r) \in Waits(s) => Forward(r) \in Waits(s)'
    BY <1>3 DEF Touched
  <2>3. Reply(r) \in Waits(s) => Reply(r) \in Waits(s)'
    BY <1>3 DEF Touched
  <2>4. Call(r) \in Waits(r.target) => Call(r) \in Waits(r.target)'
    BY <1>3, <2>1 DEF Touched
  <2>5. (\E v \in broker[r.target].invocations : v.req = r)
        => \E v \in broker'[r.target].invocations : v.req = r
    <3>1. CASE r.target = u
      BY <1>3, <3>1 DEF Touched
    <3>2. CASE r.target # u
      BY <2>1, <3>2
    <3> QED
      BY <3>1, <3>2
  <2>6. ~Live(r.target) => ~Live(r.target)'
    BY <2>1
  <2> QED
    BY <2>1, <2>2, <2>3, <2>4, <2>5, <2>6 DEF InSight, Forward, Reply, Call
<1> QED
  BY <1>2, <1>3

\* A handled message is all that its session takes out of its queues.
LEMMA HandledWaits ==
  ASSUME CallsTypeOK, NEW s \in Sessions, NEW q \in Seq(Messages), Handles(s, q)
  PROVE  /\ \A v \in Sessions : v # s => Waits(v) \subseteq Waits(v)'
         /\ Waits(s) \subseteq Waits(s)' \cup {Current(s)}
<1>1. /\ Busy(s) /\ Expand(s, q) /\ UNCHANGED kept
      /\ \/ inbox' = Taken(s)
         \/ \E u \in Sessions, m \in Messages : inbox' = Sent(Taken(s), u, m)
  BY DEF Handles
<1>2. /\ Taken(s) \in [Sessions -> Seq(Messages)]
      /\ \A u \in Sessions : u # s => Taken(s)[u] = inbox[u]
      /\ Waits(s) = {Current(s)} \cup Mail(Taken(s)[s]) \cup Mail(Rest(s)) \cup Mail(kept[s])
  BY <1>1, TakenMail
<1>3. \A v \in Sessions : Mail(Taken(s)[v]) \subseteq Mail(inbox'[v])
  BY <1>1, <1>2, SentOld
<1>4. /\ Mail(Rest(s)) \subseteq Mail(expansion'[s])
      /\ \A u \in Sessions : u # s => expansion'[u] = expansion[u]
  BY <1>1, Expanded
<1>5. Waits(s) \subseteq Mail(inbox'[s]) \cup Mail(expansion'[s]) \cup Mail(kept'[s]) \cup {Current(s)}
  BY <1>1, <1>2, <1>3, <1>4
<1>6. \A v \in Sessions : v # s =>
        Waits(v) \subseteq Mail(inbox'[v]) \cup Mail(expansion'[v]) \cup Mail(kept'[v])
  BY <1>1, <1>2, <1>3, <1>4 DEF Waits
<1> QED
  BY <1>5, <1>6 DEF Waits, Mail

\* The session stays up while it takes a message.
LEMMA HandledSighted ==
  ASSUME CallsInv, Sighted, NEW s \in Sessions, NEW q \in Seq(Messages), Handles(s, q),
         UNCHANGED stage, \A v \in Sessions : v # s => broker'[v] = broker[v],
         \A u \in Sessions : \A r \in broker'[u].pending :
            /\ Up(u)
            /\ r \notin broker[u].pending \/ Touched(s, u, r, {Current(s)})
            => InSight(u, r)'
  PROVE  Sighted'
<1>1. /\ \A v \in Sessions : v # s => Waits(v) \subseteq Waits(v)'
      /\ Waits(s) \subseteq Waits(s)' \cup {Current(s)}
  BY HandledWaits DEF CallsInv
<1>2. \A v \in Sessions : (Up(v)' => Up(v)) /\ (Live(v)' => Live(v))
  BY DEF Up, Live
<1>3. PICK lost : lost = {Current(s)}
  OBVIOUS
<1>4. /\ Waits(s) \subseteq Waits(s)' \cup lost
      /\ \A u \in Sessions : \A r \in broker'[u].pending :
            /\ Up(u)
            /\ r \notin broker[u].pending \/ Touched(s, u, r, lost)
            => InSight(u, r)'
  BY <1>1, <1>3
<1>5. CallsTypeOK
  BY DEF CallsInv
<1> QED
  BY <1>1, <1>2, <1>4, <1>5, SightedKept

\* What a message is, for those that keep a call in sight.
LEMMA SightKinds ==
  ASSUME NEW r
  PROVE  /\ Forward(r).kind = "forward" /\ Forward(r).req = r
         /\ Reply(r).kind = "reply" /\ Reply(r).req = r
         /\ Call(r).kind = "call" /\ Call(r).req = r
<1>1. Forward(r).kind = "forward" /\ Forward(r).req = r
  BY DEF Forward
<1>2. Reply(r).kind = "reply" /\ Reply(r).req = r
  BY DEF Reply
<1>3. Call(r).kind = "call" /\ Call(r).req = r
  BY DEF Call
<1> QED
  BY <1>1, <1>2, <1>3

LEMMA CalmSighted ==
  ASSUME CallsInv, Sighted, NEW s \in Sessions, NEW q \in Seq(Messages), Handles(s, q),
         UNCHANGED stage, \A v \in Sessions : v # s => broker'[v] = broker[v],
         Current(s).kind \notin {"forward", "reply", "call"},
         broker'[s].pending \subseteq broker[s].pending,
         \A v \in broker[s].invocations : \E w \in broker'[s].invocations : w.req = v.req
  PROVE  Sighted'
<1>1. ASSUME NEW u, NEW r, Touched(s, u, r, {Current(s)}) PROVE FALSE
  <2>1. Current(s) \notin {Forward(r), Reply(r), Call(r)}
    BY SightKinds
  <2> QED
    BY <1>1, <2>1 DEF Touched
<1>2. \A u \in Sessions : broker'[u].pending \subseteq broker[u].pending
  OBVIOUS
<1> QED
  BY <1>1, <1>2, HandledSighted

LEMMA SentArrives ==
  ASSUME CallsTypeOK, NEW s \in Sessions, Busy(s), NEW to \in Sessions, Live(to),
         NEW m \in Messages, inbox' = Sent(Taken(s), to, m)
  PROVE  m \in Mail(inbox'[to])
<1>1. PICK box \in [Sessions -> Seq(Messages)] : box = Taken(s)
  BY TakenMail
<1>2. PICK after : after = Sent(box, to, m) /\ after = inbox'
  BY <1>1
<1> QED
  BY <1>1, <1>2, SentOld

LEMMA ForwardProcedureCallSighted ==
  ASSUME CallsInv, Sighted, NEW s \in Sessions, ForwardProcedureCall(s) PROVE Sighted'
<1>1. /\ CallsTypeOK /\ Busy(s) /\ Up(s) /\ Live(s) /\ Current(s).kind = "forward"
      /\ Current(s).req \in Requests /\ Current(s).req.target \in Sessions
  BY InHandTyped DEF ForwardProcedureCall
<1>2. PICK r \in Requests : r = Current(s).req /\ r.target \in Sessions
  BY <1>1
<1>3. /\ UNCHANGED <<clock, stage, engine, kept, broker, fired>> /\ Expand(s, <<>>)
      /\ \/ Live(r.target) /\ inbox' = Sent(Taken(s), r.target, Call(r))
         \/ ~Live(r.target) /\ inbox' = Sent(Taken(s), s, Reply(r))
         \/ stage[r.target] = "closing" /\ inbox' = Taken(s)
  BY <1>2 DEF ForwardProcedureCall
<1>4. /\ Call(r) \in Messages /\ Plain(Call(r)) /\ Reply(r) \in Messages /\ Plain(Reply(r))
  BY DEF Call, Reply, Messages, Plain
<1>5. PICK q \in Seq(Messages) : q = <<>>
  <2> <<>> \in Seq(Messages)
    OBVIOUS
  <2> QED
    OBVIOUS
<1>6. Handles(s, q)
  BY <1>1, <1>2, <1>3, <1>4, <1>5 DEF Handles
<1>8. \A u \in Sessions : InSight(u, r)'
  <2>1. CASE Live(r.target) /\ inbox' = Sent(Taken(s), r.target, Call(r))
    <3>1. Call(r) \in Mail(inbox'[r.target])
      BY <1>1, <1>2, <1>4, <2>1, SentArrives
    <3> QED
      BY <3>1 DEF InSight, Waits, Mail, Call
  <2>2. CASE ~Live(r.target)
    BY <1>3, <2>2 DEF InSight, Live
  <2> QED
    BY <1>3, <2>1, <2>2 DEF Live
<1>9. ASSUME NEW u \in Sessions, NEW p \in broker[u].pending, Touched(s, u, p, {Current(s)})
      PROVE  InSight(u, p)'
  <2>1. Current(s) \notin {Reply(p), Call(p)} /\ Forward(p).req = p
    BY <1>1, SightKinds
  <2>2. Current(s) = Forward(p)
    BY <1>3, <1>9, <2>1 DEF Touched
  <2>3. p = r
    BY <1>2, <2>1, <2>2
  <2> QED
    BY <1>8, <2>3
<1> QED
  BY <1>3, <1>6, <1>9, HandledSighted

LEMMA DropProcedureCallSighted ==
  ASSUME CallsInv, Sighted, NEW s \in Sessions, DropProcedureCall(s) PROVE Sighted'
<1>1. /\ CallsTypeOK /\ Brokered /\ Busy(s) /\ Up(s) /\ Current(s).kind = "call"
  BY InHandTyped DEF DropProcedureCall
<1>2. /\ ~Live(Current(s).req.from) /\ inbox' = Taken(s) /\ Expand(s, <<>>)
      /\ UNCHANGED <<clock, stage, engine, kept, broker, fired>>
  BY DEF DropProcedureCall
<1>3. PICK q \in Seq(Messages) : q = <<>>
  <2> <<>> \in Seq(Messages)
    OBVIOUS
  <2> QED
    OBVIOUS
<1>4. Handles(s, q)
  BY <1>1, <1>2, <1>3 DEF Handles
<1>5. ASSUME NEW u \in Sessions, NEW p \in broker[u].pending, Up(u),
             Touched(s, u, p, {Current(s)})
      PROVE  FALSE
  <2>1. Current(s) \notin {Reply(p), Forward(p)} /\ Call(p).req = p
    BY <1>1, SightKinds
  <2>2. Current(s) = Call(p)
    BY <1>2, <1>5, <2>1 DEF Touched
  <2>3. p.from = u
    BY <1>1 DEF Brokered
  <2> QED
    BY <1>2, <1>5, <2>1, <2>2, <2>3 DEF Up, Live
<1> QED
  BY <1>2, <1>4, <1>5, HandledSighted

LEMMA RefuseProcedureCallSighted ==
  ASSUME CallsInv, Sighted, NEW s \in Sessions, RefuseProcedureCall(s) PROVE Sighted'
<1>1. /\ CallsTypeOK /\ Brokered /\ Busy(s) /\ Up(s) /\ Current(s).kind = "call"
      /\ Current(s).req \in Requests /\ Current(s).req.from \in Sessions
  BY InHandTyped DEF RefuseProcedureCall
<1>2. PICK r \in Requests : r = Current(s).req /\ r.from \in Sessions
  BY <1>1
<1>3. /\ inbox' = Sent(Taken(s), r.from, Reply(r)) /\ Expand(s, <<>>)
      /\ UNCHANGED <<clock, stage, engine, kept, fired>>
      /\ UNCHANGED broker \/ SetBroker(s, [broker[s] EXCEPT !.nextId = @ + 1])
  BY <1>2 DEF RefuseProcedureCall
<1>4. Reply(r) \in Messages /\ Plain(Reply(r))
  BY DEF Reply, Messages, Plain
<1>5. PICK q \in Seq(Messages) : q = <<>>
  <2> <<>> \in Seq(Messages)
    OBVIOUS
  <2> QED
    OBVIOUS
<1>6. Handles(s, q)
  BY <1>1, <1>2, <1>3, <1>4, <1>5 DEF Handles
<1>7. /\ \A u \in Sessions : u # s => broker'[u] = broker[u]
      /\ broker'[s].pending = broker[s].pending /\ broker'[s].invocations = broker[s].invocations
  <2>1. CASE SetBroker(s, [broker[s] EXCEPT !.nextId = @ + 1])
    <3> DEFINE c == [broker[s] EXCEPT !.nextId = @ + 1]
    <3>1. /\ c \in Brokers /\ c.pending = broker[s].pending
          /\ c.invocations = broker[s].invocations
      BY <1>1, SpendIdFits DEF Fits, Good
    <3>2. SetBroker(s, c)
      BY <2>1
    <3> HIDE DEF c
    <3> QED
      BY <1>1, <3>1, <3>2, BrokerSet
  <2> QED
    BY <1>3, <2>1
<1>8. ASSUME NEW u \in Sessions, NEW p \in broker[u].pending, Up(u),
             Touched(s, u, p, {Current(s)})
      PROVE  InSight(u, p)'
  <2>1. Current(s) \notin {Reply(p), Forward(p)} /\ Call(p).req = p
    BY <1>1, SightKinds
  <2>2. Current(s) = Call(p)
    BY <1>7, <1>8, <2>1 DEF Touched
  <2>3. p.from = u /\ p = r /\ Live(u)
    BY <1>1, <1>2, <1>8, <2>1, <2>2 DEF Brokered, Up, Live
  <2>4. Reply(r) \in Mail(inbox'[u])
    BY <1>1, <1>2, <1>3, <1>4, <2>3, SentArrives
  <2> QED
    BY <2>3, <2>4 DEF InSight, Waits, Mail, Reply
<1>9. \A u \in Sessions : broker'[u].pending = broker[u].pending
  BY <1>7
<1>10. \A u \in Sessions : Up(u)' = Up(u)
  BY <1>3 DEF Up
<1>11. \A u \in Sessions : \A p \in broker'[u].pending :
          Up(u) /\ (p \notin broker[u].pending \/ Touched(s, u, p, {Current(s)})) => InSight(u, p)'
  BY <1>8, <1>9
<1> QED
  BY <1>3, <1>6, <1>7, <1>11, HandledSighted

LEMMA StartProcedureCallSighted ==
  ASSUME CallsInv, Sighted, NEW s \in Sessions, StartProcedureCall(s) PROVE Sighted'
<1>1. /\ CallsTypeOK /\ Brokered /\ Busy(s) /\ Up(s) /\ Current(s).kind = "call"
      /\ Current(s).req \in Requests
  BY InHandTyped DEF StartProcedureCall
<1>2. PICK r \in Requests : r = Current(s).req
  BY <1>1
<1>3. /\ CanStart(s, broker[s], r) /\ SetBroker(s, StartInvocation(broker[s], r, engine[s]))
      /\ Expand(s, <<Invoke(r, broker[s].nextId)>>) /\ inbox' = Taken(s)
      /\ UNCHANGED <<clock, stage, engine, kept, fired>>
  BY <1>2 DEF StartProcedureCall
<1>4. PICK m \in Messages : m = Invoke(r, broker[s].nextId)
  <2>1. broker[s].nextId \in Nat
    BY <1>1, BrokerOf
  <2>2. Invoke(r, broker[s].nextId) \in Messages
    BY <2>1 DEF Messages, Invoke
  <2> QED
    BY <2>2
<1>5. PICK q \in Seq(Messages) : q = <<m>>
  <2> <<m>> \in Seq(Messages)
    OBVIOUS
  <2> QED
    OBVIOUS
<1>6. Handles(s, q)
  BY <1>1, <1>3, <1>4, <1>5 DEF Handles
<1>7. /\ \A u \in Sessions : u # s => broker'[u] = broker[u]
      /\ broker'[s].pending = broker[s].pending
      /\ \E v : broker'[s].invocations = broker[s].invocations \cup {v} /\ v.req = r
  <2> DEFINE c == StartInvocation(broker[s], r, engine[s])
  <2>1. /\ Fits(s, c) /\ c.pending = broker[s].pending
        /\ \E v : c.invocations = broker[s].invocations \cup {v} /\ v.req = r
    BY <1>1, <1>3, StartInvocationFits
  <2>2. SetBroker(s, c)
    BY <1>3
  <2> HIDE DEF c
  <2>3. c \in Brokers
    BY <2>1 DEF Fits, Good
  <2> QED
    BY <1>1, <2>1, <2>2, <2>3, BrokerSet
<1>8. ASSUME NEW u \in Sessions, NEW p \in broker[u].pending,
             Touched(s, u, p, {Current(s)})
      PROVE  InSight(u, p)'
  <2>1. Current(s) \notin {Reply(p), Forward(p)} /\ Call(p).req = p
    BY <1>1, SightKinds
  <2>2. Current(s) = Call(p) /\ p.target = s
    BY <1>7, <1>8, <2>1 DEF Touched
  <2>3. p = r
    BY <1>2, <2>1, <2>2
  <2> QED
    BY <1>7, <2>2, <2>3 DEF InSight
<1>9. \A u \in Sessions : broker'[u].pending = broker[u].pending
  BY <1>7
<1> QED
  BY <1>3, <1>6, <1>7, <1>8, <1>9, HandledSighted

LEMMA ForwardProcedureReplySighted ==
  ASSUME CallsInv, Sighted, NEW s \in Sessions, ForwardProcedureReply(s) PROVE Sighted'
<1>1. /\ CallsTypeOK /\ Brokered /\ Posted /\ Busy(s) /\ Up(s) /\ Current(s).kind = "answer"
      /\ Current(s).req \in Requests /\ Current(s).req.from \in Sessions
      /\ Current(s) \in Waits(s)
  BY InHandTyped DEF ForwardProcedureReply, CallsInv
<1>2. PICK m \in Messages : m = Current(s) /\ m.req \in Requests /\ m.req.from \in Sessions
  BY <1>1, TakenMail
<1>3. Reply(m.req) \in Messages /\ Plain(Reply(m.req))
  BY <1>2 DEF Reply, Messages, Plain
<1>4. /\ Expand(s, <<>>) /\ UNCHANGED <<clock, stage, engine, kept, fired>>
      /\ \/ inbox' = Taken(s) /\ UNCHANGED broker
         \/ \E v \in broker[s].invocations :
              /\ v.ticket = m.ticket /\ SetBroker(s, RemoveInvocation(broker[s], v))
              /\ inbox' = Sent(Taken(s), m.req.from, Reply(m.req))
  BY <1>2 DEF ForwardProcedureReply
<1>5. PICK q \in Seq(Messages) : q = <<>>
  <2> <<>> \in Seq(Messages)
    OBVIOUS
  <2> QED
    OBVIOUS
<1>6. Handles(s, q)
  BY <1>1, <1>2, <1>3, <1>4, <1>5 DEF Handles
<1>7. CASE UNCHANGED broker
  <2>1. \A v \in broker[s].invocations : \E w \in broker'[s].invocations : w.req = v.req
    BY <1>7
  <2>2. /\ Current(s).kind \notin {"forward", "reply", "call"}
        /\ \A v \in Sessions : v # s => broker'[v] = broker[v]
        /\ broker'[s].pending \subseteq broker[s].pending
    BY <1>1, <1>7
  <2> QED
    BY <1>4, <1>6, <2>1, <2>2, CalmSighted
<1>8. ASSUME NEW v \in broker[s].invocations, v.ticket = m.ticket,
             SetBroker(s, RemoveInvocation(broker[s], v)),
             inbox' = Sent(Taken(s), m.req.from, Reply(m.req))
      PROVE  Sighted'
  <2>1. v.req = m.req
    BY <1>1, <1>2, <1>8 DEF Posted, AnswerMatches
  <2>2. /\ \A u \in Sessions : u # s => broker'[u] = broker[u]
        /\ broker'[s].pending = broker[s].pending
        /\ broker'[s].invocations = broker[s].invocations \ {v}
    <3> DEFINE c == RemoveInvocation(broker[s], v)
    <3>1. /\ Fits(s, c) /\ c.pending = broker[s].pending
          /\ c.invocations = broker[s].invocations \ {v}
      BY <1>1, RemoveInvocationFits
    <3>2. SetBroker(s, c)
      BY <1>8
    <3> HIDE DEF c
    <3>3. c \in Brokers
      BY <3>1 DEF Fits, Good
    <3> QED
      BY <1>1, <3>1, <3>2, <3>3, BrokerSet
  <2>3. ASSUME NEW u \in Sessions, NEW p \in broker[u].pending, Up(u),
               Touched(s, u, p, {Current(s)})
        PROVE  InSight(u, p)'
    <3>1. Current(s) \notin {Reply(p), Forward(p), Call(p)}
      BY <1>1, SightKinds
    <3>2. \E w \in broker[s].invocations : w.req = p /\ w \notin broker'[s].invocations
      BY <2>3, <3>1 DEF Touched
    <3>3. p = m.req
      BY <2>1, <2>2, <3>2
    <3>4. m.req.from = u /\ Live(u)
      BY <1>1, <2>3, <3>3 DEF Brokered, Up, Live
    <3>5. Reply(m.req) \in Mail(inbox'[u])
      BY <1>1, <1>2, <1>3, <1>8, <3>4, SentArrives
    <3> QED
      BY <3>3, <3>5 DEF InSight, Waits, Mail, Reply
  <2>4. \A u \in Sessions : broker'[u].pending = broker[u].pending
    BY <2>2
  <2> QED
    BY <1>4, <1>6, <2>2, <2>3, <2>4, HandledSighted
<1> QED
  BY <1>4, <1>7, <1>8

\* A cancellation ends no invocation whose caller still waits.
LEMMA CancelProcedureCallSighted ==
  ASSUME CallsInv, Sighted, NEW s \in Sessions, CancelProcedureCall(s) PROVE Sighted'
<1>1. /\ CallsTypeOK /\ Brokered /\ Posted /\ Busy(s) /\ Up(s) /\ Current(s).kind = "cancel"
      /\ Current(s).req \in Requests /\ Current(s).req.from \in Sessions
      /\ Current(s) \in Waits(s)
  BY InHandTyped DEF CancelProcedureCall, CallsInv
<1>2. PICK m \in Messages : m = Current(s) /\ m.req \in Requests /\ m.req.from \in Sessions
  BY <1>1, TakenMail
<1>3. /\ inbox' = Taken(s) /\ Expand(s, <<>>) /\ UNCHANGED <<clock, stage, engine, kept, fired>>
      /\ \/ UNCHANGED broker
         \/ \E v \in broker[s].invocations :
              /\ \E k \in broker[s].incomingKeys : k[1] = Key(m.req) /\ k[2] = v.ticket
              /\ SetBroker(s, RemoveInvocation(broker[s], v))
  BY <1>2 DEF CancelProcedureCall
<1>4. PICK q \in Seq(Messages) : q = <<>>
  <2> <<>> \in Seq(Messages)
    OBVIOUS
  <2> QED
    OBVIOUS
<1>5. Handles(s, q)
  BY <1>1, <1>3, <1>4 DEF Handles
<1>6. CASE UNCHANGED broker
  <2>1. \A v \in broker[s].invocations : \E w \in broker'[s].invocations : w.req = v.req
    BY <1>6
  <2>2. /\ Current(s).kind \notin {"forward", "reply", "call"}
        /\ \A v \in Sessions : v # s => broker'[v] = broker[v]
        /\ broker'[s].pending \subseteq broker[s].pending
    BY <1>1, <1>6
  <2> QED
    BY <1>3, <1>5, <2>1, <2>2, CalmSighted
<1>7. ASSUME NEW v \in broker[s].invocations,
             NEW k \in broker[s].incomingKeys, k[1] = Key(m.req), k[2] = v.ticket,
             SetBroker(s, RemoveInvocation(broker[s], v))
      PROVE  Sighted'
  <2>1. Key(v.req) = Key(m.req)
    <3>1. PICK x \in broker[s].invocations : k = <<Key(x.req), x.ticket>>
      BY <1>1 DEF Brokered, Tracked
    <3>2. x = v
      BY <1>1, <1>7, <3>1 DEF Brokered, Distinct
    <3> QED
      BY <1>7, <3>1, <3>2
  <2>2. /\ \A u \in Sessions : u # s => broker'[u] = broker[u]
        /\ broker'[s].pending = broker[s].pending
        /\ broker'[s].invocations = broker[s].invocations \ {v}
    <3> DEFINE c == RemoveInvocation(broker[s], v)
    <3>1. /\ Fits(s, c) /\ c.pending = broker[s].pending
          /\ c.invocations = broker[s].invocations \ {v}
      BY <1>1, RemoveInvocationFits
    <3>2. SetBroker(s, c)
      BY <1>7
    <3> HIDE DEF c
    <3>3. c \in Brokers
      BY <3>1 DEF Fits, Good
    <3> QED
      BY <1>1, <3>1, <3>2, <3>3, BrokerSet
  <2>3. ASSUME NEW u \in Sessions, NEW p \in broker[u].pending, Up(u),
               Touched(s, u, p, {Current(s)})
        PROVE  FALSE
    <3>1. Current(s) \notin {Reply(p), Forward(p), Call(p)}
      BY <1>1, SightKinds
    <3>2. \E w \in broker[s].invocations : w.req = p /\ w \notin broker'[s].invocations
      BY <2>3, <3>1 DEF Touched
    <3>3. p = v.req
      BY <2>2, <3>2
    <3>4. Key(p) = Key(m.req) /\ p.from = m.req.from
      BY <2>1, <3>3 DEF Key
    <3>5. p.from = u
      BY <1>1 DEF Brokered
    <3>6. \A x \in broker[m.req.from].pending : Key(x) # Key(m.req)
      BY <1>1, <1>2 DEF Posted, CancelSpent
    <3> QED
      BY <3>4, <3>5, <3>6
  <2>4. \A u \in Sessions : broker'[u].pending = broker[u].pending
    BY <2>2
  <2> QED
    BY <1>3, <1>5, <2>2, <2>3, <2>4, HandledSighted
<1> QED
  BY <1>3, <1>6, <1>7

LEMMA ProcedureReplySighted ==
  ASSUME CallsInv, Sighted, NEW s \in Sessions, ProcedureReply(s) PROVE Sighted'
<1>1. /\ CallsTypeOK /\ Brokered /\ Busy(s) /\ Up(s) /\ Current(s).kind = "reply"
      /\ Current(s).req \in Requests
  BY InHandTyped DEF ProcedureReply
<1>2. PICK r \in Requests : r = Current(s).req
  BY <1>1
<1>3. /\ inbox' = Taken(s) /\ UNCHANGED <<clock, stage, engine, kept, fired>>
      /\ \/ /\ \A p \in broker[s].pending : ~(p.id = r.id /\ Key(p) = Key(r))
            /\ Expand(s, <<>>) /\ UNCHANGED broker
         \/ \E p \in broker[s].pending :
              /\ p.id = r.id
              /\ SetBroker(s, RemoveCall(broker[s], p)) /\ Expand(s, <<Settle(p)>>)
  BY <1>2 DEF ProcedureReply
<1>4. ASSUME NEW u \in Sessions, NEW p, Touched(s, u, p, {Current(s)}),
             broker'[s].invocations = broker[s].invocations
      PROVE  u = s /\ p = r
  <2>1. Current(s) \notin {Call(p), Forward(p)} /\ Reply(p).req = p
    BY <1>1, SightKinds
  <2> QED
    BY <1>2, <1>4, <2>1 DEF Touched
<1>5. ASSUME \A p \in broker[s].pending : ~(p.id = r.id /\ Key(p) = Key(r)),
             Expand(s, <<>>), UNCHANGED broker
      PROVE  Sighted'
  <2>1. PICK q \in Seq(Messages) : q = <<>>
    <3> <<>> \in Seq(Messages)
      OBVIOUS
    <3> QED
      OBVIOUS
  <2>2. Handles(s, q)
    BY <1>1, <1>3, <1>5, <2>1 DEF Handles
  <2>3. r \notin broker[s].pending
    BY <1>5
  <2>4. ASSUME NEW u \in Sessions, NEW p \in broker[u].pending,
               Touched(s, u, p, {Current(s)})
        PROVE  FALSE
    BY <1>4, <1>5, <2>3, <2>4
  <2> QED
    BY <1>3, <1>5, <2>2, <2>4, HandledSighted
<1>6. ASSUME NEW x \in broker[s].pending, x.id = r.id,
             SetBroker(s, RemoveCall(broker[s], x)), Expand(s, <<Settle(x)>>)
      PROVE  Sighted'
  <2>1. PICK m \in Messages : m = Settle(x)
    BY <1>1, PendingTyped, SettleTyped
  <2>2. PICK q \in Seq(Messages) : q = <<m>>
    <3> <<m>> \in Seq(Messages)
      OBVIOUS
    <3> QED
      OBVIOUS
  <2>3. Handles(s, q)
    BY <1>1, <1>3, <1>6, <2>1, <2>2 DEF Handles
  <2>4. /\ \A u \in Sessions : u # s => broker'[u] = broker[u]
        /\ broker'[s].pending = broker[s].pending \ {x}
        /\ broker'[s].invocations = broker[s].invocations
    <3> DEFINE c == RemoveCall(broker[s], x)
    <3>1. /\ Fits(s, c) /\ c.pending = broker[s].pending \ {x}
          /\ c.invocations = broker[s].invocations
      BY <1>1, RemoveCallFits
    <3>2. SetBroker(s, c)
      BY <1>6
    <3> HIDE DEF c
    <3>3. c \in Brokers
      BY <3>1 DEF Fits, Good
    <3> QED
      BY <1>1, <3>1, <3>2, <3>3, BrokerSet
  <2>5. r \notin broker'[s].pending
    BY <1>1, <1>6, <2>4 DEF Brokered, Distinct
  <2>6. ASSUME NEW u \in Sessions, NEW p \in broker'[u].pending,
               Touched(s, u, p, {Current(s)})
        PROVE  FALSE
    BY <1>4, <2>4, <2>5, <2>6
  <2>7. \A u \in Sessions : broker'[u].pending \subseteq broker[u].pending
    BY <2>4
  <2> QED
    BY <1>3, <2>3, <2>4, <2>6, <2>7, HandledSighted
<1> QED
  BY <1>3, <1>5, <1>6

LEMMA SettlePromiseSighted ==
  ASSUME CallsInv, Sighted, NEW s \in Sessions, SettlePromise(s) PROVE Sighted'
<1>1. Busy(s) /\ Up(s) /\ CallsTypeOK /\ Current(s).kind = "settle"
  BY InHandTyped DEF SettlePromise
<1>2. PICK q \in Seq(Messages) : q = <<>>
  <2> <<>> \in Seq(Messages)
    OBVIOUS
  <2> QED
    OBVIOUS
<1>3. UNCHANGED <<stage, broker>> /\ Handles(s, q)
  BY <1>1, <1>2 DEF SettlePromise, Handles
<1>4. \A v \in broker[s].invocations : \E w \in broker'[s].invocations : w.req = v.req
  BY <1>3
<1>5. /\ Current(s).kind \notin {"forward", "reply", "call"}
      /\ \A v \in Sessions : v # s => broker'[v] = broker[v]
      /\ broker'[s].pending \subseteq broker[s].pending
  BY <1>1, <1>3
<1> QED
  BY <1>3, <1>4, <1>5, CalmSighted

\* A turn leaves its invocations to be found and forwards the call it makes.
LEMMA TurnSight ==
  ASSUME CallsInv, NEW s \in Sessions, Up(s), NEW t, TurnForm(s, t)
  PROVE  /\ \A v \in broker[s].invocations : \E w \in t.b.invocations : w.req = v.req
         /\ \A r \in t.b.pending : r \in broker[s].pending \/ Forward(r) \in Mail(t.spawned)
<1>1. CallsTypeOK /\ Brokered
  BY DEF CallsInv
<1>2. CASE Idles(s, t)
  BY <1>2 DEF Idles
<1>3. CASE IsRefused(s, t)
  BY <1>1, <1>3, SpendIdFits DEF IsRefused
<1>4. ASSUME NEW v \in broker[s].invocations, Answers(s, t, v)
      PROVE  /\ \A x \in broker[s].invocations : \E w \in t.b.invocations : w.req = x.req
             /\ t.b.pending = broker[s].pending
  <2> DEFINE c == PrepareReply(broker[s], v)
  <2>1. /\ c.pending = broker[s].pending
        /\ \A x \in broker[s].invocations :
              \E w \in c.invocations : w.ticket = x.ticket /\ w.req = x.req
    BY <1>1, PrepareReplyFits
  <2>2. t.b = c
    BY <1>4 DEF Answers
  <2> HIDE DEF c
  <2> QED
    BY <2>1, <2>2
<1>5. ASSUME NEW r \in Requests, Calling(s, t, r)
      PROVE  /\ t.b.invocations = broker[s].invocations
             /\ t.b.pending = broker[s].pending \cup {r} /\ Forward(r) \in Mail(t.spawned)
  <2>1. /\ t.b.invocations = broker[s].invocations
        /\ t.b.pending = broker[s].pending \cup {r}
    BY <1>1, <1>5, InsertCallFits DEF Calling
  <2>2. t.spawned = <<Forward(r)>>
    BY <1>5 DEF Calling
  <2> QED
    BY <2>1, <2>2, SingleOnce
<1> QED
  BY <1>2, <1>3, <1>4, <1>5 DEF TurnForm

\* A turn that keeps what waits, and puts what it spawns with it.
LEMMA TurnSighted ==
  ASSUME CallsInv, Sighted, NEW s \in Sessions, Up(s), NEW t, TurnForm(s, t), TakeTurn(s, t),
         UNCHANGED stage, NEW lost,
         \A v \in Sessions : v # s => Waits(v) \subseteq Waits(v)',
         Waits(s) \subseteq Waits(s)' \cup lost, Mail(t.spawned) \subseteq Waits(s)',
         \A m \in lost : m.kind \notin {"forward", "reply", "call"}
  PROVE  Sighted'
<1>1. /\ \A u \in Sessions : u # s => broker'[u] = broker[u]
      /\ broker'[s] = t.b
  BY TurnTaken, BrokerSet DEF CallsInv
<1>2. \A v \in Sessions : (Up(v)' => Up(v)) /\ (Live(v)' => Live(v))
  BY DEF Up, Live
<1>3. ASSUME NEW u \in Sessions, NEW p \in broker'[u].pending, p \notin broker[u].pending
      PROVE  InSight(u, p)'
  <2>1. u = s
    BY <1>1, <1>3
  <2>2. Forward(p) \in Waits(s)'
    BY <1>1, <1>3, <2>1, TurnSight
  <2> QED
    BY <2>1, <2>2 DEF InSight, Waits, Mail, Forward
<1>4. ASSUME NEW u \in Sessions, NEW p, Touched(s, u, p, lost) PROVE FALSE
  <2>1. Reply(p) \notin lost /\ Forward(p) \notin lost /\ Call(p) \notin lost
    BY SightKinds
  <2> QED
    BY <1>1, <1>4, <2>1, TurnSight DEF Touched
<1> QED
  BY <1>1, <1>2, <1>3, <1>4, SightedKept DEF CallsInv

LEMMA RunHandlerSighted ==
  ASSUME CallsAssumption, CallsInv, Sighted, NEW s \in Sessions, RunHandler(s) PROVE Sighted'
<1>1. CallsTypeOK /\ Up(s) /\ expansion[s] = <<>> /\ UNCHANGED <<stage, inbox, kept>>
  BY DEF CallsInv, RunHandler, Up
<1>2. PICK t : /\ t \in ReloadTurns(broker[s]) \cup CallTurns(s, broker[s], 0, {}, s \in Callers)
               /\ TakeTurn(s, t) /\ expansion' = [expansion EXCEPT ![s] = t.spawned]
  BY DEF RunHandler
<1>3. TurnForm(s, t)
  BY <1>1, <1>2, ReloadTurnForm, CallTurnForm
<1>4. /\ expansion'[s] = t.spawned
      /\ \A u \in Sessions : u # s => expansion'[u] = expansion[u]
  BY <1>1, <1>2 DEF CallsTypeOK
<1>5. /\ \A v \in Sessions : v # s => Waits(v) \subseteq Waits(v)'
      /\ Waits(s) \subseteq Waits(s)' /\ Mail(t.spawned) \subseteq Waits(s)'
  <2>1. \A v \in Sessions : v # s => Waits(v) \subseteq Waits(v)'
    BY <1>1, <1>4 DEF Waits, Mail
  <2>2. Mail(expansion[s]) = {}
    BY <1>1, MailEmpty
  <2>3. Mail(inbox[s])' = Mail(inbox[s]) /\ Mail(kept[s])' = Mail(kept[s])
    BY <1>1 DEF Mail
  <2>4. Mail(expansion[s])' = Mail(t.spawned)
    BY <1>4 DEF Mail
  <2> QED
    BY <2>1, <2>2, <2>3, <2>4 DEF Waits
<1>6. PICK lost : lost = {}
  OBVIOUS
<1>7. /\ Waits(s) \subseteq Waits(s)' \cup lost
      /\ \A m \in lost : m.kind \notin {"forward", "reply", "call"}
  BY <1>5, <1>6
<1> QED
  BY <1>1, <1>2, <1>3, <1>5, <1>7, TurnSighted

LEMMA PumpScriptsSighted ==
  ASSUME CallsAssumption, CallsInv, Sighted, NEW s \in Sessions, PumpScripts(s) PROVE Sighted'
<1>1. CallsTypeOK /\ Up(s) /\ UNCHANGED <<stage, expansion, kept>>
  BY DEF CallsInv, PumpScripts, Up
<1>2. \E t : TurnForm(s, t) /\ TakeTurn(s, t) /\ inbox' = [inbox EXCEPT ![s] = @ \o t.spawned]
  <2>1. PICK t : /\ t \in ReloadTurns(broker[s])
                       \cup CallTurns(s, broker[s], 0, Parents(s, broker[s]), s \in Callers)
                       \cup AnswerTurns(s, broker[s], 1 .. MaxId[s])
                 /\ TakeTurn(s, t) /\ inbox' = [inbox EXCEPT ![s] = @ \o t.spawned]
    BY DEF PumpScripts
  <2>2. CASE t \in ReloadTurns(broker[s])
    BY <2>1, <2>2, ReloadTurnForm
  <2>3. CASE t \in CallTurns(s, broker[s], 0, Parents(s, broker[s]), s \in Callers)
    BY <1>1, <2>1, <2>3, CallTurnForm
  <2>4. CASE t \in AnswerTurns(s, broker[s], 1 .. MaxId[s])
    BY <2>1, <2>4 DEF AnswerTurns, TurnForm, Answers, Turn
  <2> QED
    BY <2>1, <2>2, <2>3, <2>4
<1>3. PICK t : TurnForm(s, t) /\ TakeTurn(s, t) /\ inbox' = [inbox EXCEPT ![s] = @ \o t.spawned]
  BY <1>2
<1>4. PICK q \in Seq(Messages) : q = t.spawned
  BY <1>1, <1>3, TurnLeaves DEF Leaves
<1>5. PICK b \in Seq(Messages) : b = inbox[s]
  BY <1>1 DEF CallsTypeOK
<1>6. /\ inbox'[s] = b \o q /\ \A u \in Sessions : u # s => inbox'[u] = inbox[u]
  BY <1>1, <1>3, <1>4, <1>5 DEF CallsTypeOK
<1>7. Mail(inbox'[s]) = Mail(inbox[s]) \cup Mail(t.spawned)
  BY <1>4, <1>5, <1>6, MailConcat
<1>8. /\ \A v \in Sessions : v # s => Waits(v) \subseteq Waits(v)'
      /\ Waits(s) \subseteq Waits(s)' /\ Mail(t.spawned) \subseteq Waits(s)'
  BY <1>1, <1>6, <1>7 DEF Waits, Mail
<1>9. PICK lost : lost = {}
  OBVIOUS
<1>10. /\ Waits(s) \subseteq Waits(s)' \cup lost
       /\ \A m \in lost : m.kind \notin {"forward", "reply", "call"}
  BY <1>8, <1>9
<1> QED
  BY <1>1, <1>3, <1>8, <1>10, TurnSighted

LEMMA InvokeImplementationSighted ==
  ASSUME CallsAssumption, CallsInv, Sighted, NEW s \in Sessions, InvokeImplementation(s)
  PROVE  Sighted'
<1>1. /\ Busy(s) /\ Up(s) /\ CallsTypeOK /\ Current(s).kind = "invoke"
      /\ Current(s).req \in Requests
  BY InHandTyped DEF InvokeImplementation
<1>2. PICK t : /\ t \in ImplementationTurns(s, broker[s], Current(s))
               /\ TakeTurn(s, t) /\ Expand(s, t.spawned)
  BY DEF InvokeImplementation
<1>3. TurnForm(s, t)
  BY <1>1, <1>2, ImplementationTurnForm
<1>4. PICK q \in Seq(Messages) : q = t.spawned
  BY <1>1, <1>3, TurnLeaves DEF Leaves
<1>5. inbox' = Taken(s) /\ UNCHANGED <<clock, stage, engine, kept, fired>>
  BY DEF InvokeImplementation
<1>6. Handles(s, q) /\ Expand(s, q)
  BY <1>1, <1>2, <1>4, <1>5 DEF Handles
<1>7. /\ \A v \in Sessions : v # s => Waits(v) \subseteq Waits(v)'
      /\ Waits(s) \subseteq Waits(s)' \cup {Current(s)}
  BY <1>1, <1>6, HandledWaits
<1>8. Mail(t.spawned) \subseteq Waits(s)'
  <2>1. Mail(q) \subseteq Mail(expansion'[s])
    BY <1>1, <1>6, Expanded
  <2> QED
    BY <1>4, <2>1 DEF Waits, Mail
<1>9. PICK lost : lost = {Current(s)}
  OBVIOUS
<1>10. \A m \in lost : m.kind \notin {"forward", "reply", "call"}
  BY <1>1, <1>9
<1> QED
  BY <1>1, <1>2, <1>3, <1>5, <1>7, <1>8, <1>9, <1>10, TurnSighted

\* Steps that leave every broker and every queue as they are, or longer.
LEMMA IdleSighted ==
  ASSUME CallsTypeOK, Sighted, UNCHANGED broker,
         \A v \in Sessions : Waits(v) \subseteq Waits(v)',
         \A v \in Sessions : (Live(v)' => Live(v)) /\ (Up(v)' => Up(v))
  PROVE  Sighted'
<1> SUFFICES ASSUME NEW s \in Sessions, Up(s)', NEW r \in broker'[s].pending
             PROVE  InSight(s, r)'
  BY DEF Sighted
<1>1. Up(s) /\ r.target \in Sessions /\ InSight(s, r)
  BY PendingTyped DEF Sighted
<1> QED
  BY <1>1 DEF InSight, Forward, Reply, Call

LEMMA ExpireProcedureCallsSighted ==
  ASSUME CallsInv, Sighted, NEW s \in Sessions, ExpireProcedureCalls(s) PROVE Sighted'
<1>1. /\ CallsTypeOK /\ Busy(s) /\ Up(s) /\ Current(s).kind = "expire"
      /\ inbox' = Taken(s) /\ Expand(s, <<>>) /\ stage[s] = "running"
      /\ stage' = [stage EXCEPT ![s] = "expiring"]
      /\ UNCHANGED <<clock, engine, kept, broker, fired>>
  BY DEF CallsInv, ExpireProcedureCalls, Handling, Busy, Up
<1>2. PICK q \in Seq(Messages) : q = <<>>
  <2> <<>> \in Seq(Messages)
    OBVIOUS
  <2> QED
    OBVIOUS
<1>3. Handles(s, q)
  BY <1>1, <1>2 DEF Handles
<1>4. /\ \A v \in Sessions : v # s => Waits(v) \subseteq Waits(v)'
      /\ Waits(s) \subseteq Waits(s)' \cup {Current(s)}
  BY <1>1, <1>3, HandledWaits
<1>5. \A v \in Sessions : (Up(v)' => Up(v)) /\ (Live(v)' => Live(v))
  BY <1>1 DEF Up, Live, CallsTypeOK
<1>6. PICK lost : lost = {Current(s)}
  OBVIOUS
<1>7. ASSUME NEW u \in Sessions, NEW p, Touched(s, u, p, lost) PROVE FALSE
  <2>1. Reply(p) \notin lost /\ Forward(p) \notin lost /\ Call(p) \notin lost
    BY <1>1, <1>6, SightKinds
  <2> QED
    BY <1>1, <1>7, <2>1 DEF Touched
<1> QED
  BY <1>1, <1>4, <1>5, <1>6, <1>7, SightedKept

\* Something is sent, and nothing taken.
LEMMA SentWaits ==
  ASSUME CallsTypeOK, NEW u \in Sessions, NEW m \in Messages, inbox' = Sent(inbox, u, m),
         UNCHANGED kept, \A v \in Sessions : Mail(expansion[v]) \subseteq Mail(expansion'[v])
  PROVE  /\ \A v \in Sessions : Waits(v) \subseteq Waits(v)'
         /\ Live(u) => m \in Waits(u)'
<1>1. /\ \A v \in Sessions : Mail(inbox[v]) \subseteq Mail(inbox'[v])
      /\ Live(u) => m \in Mail(inbox'[u])
  BY InboxSent
<1> QED
  BY <1>1 DEF Waits, Mail

\* A session ends a call of its own, or an invocation whose caller it tells.
LEMMA ToldSighted ==
  ASSUME CallsInv, Sighted, NEW s \in Sessions, UNCHANGED stage,
         \A u \in Sessions : u # s => broker'[u] = broker[u],
         \A v \in Sessions : Waits(v) \subseteq Waits(v)',
         broker'[s].pending \subseteq broker[s].pending,
         \A v \in broker[s].invocations :
           \/ v \in broker'[s].invocations
           \/ Live(v.req.from) => Reply(v.req) \in Waits(v.req.from)'
  PROVE  Sighted'
<1>1. CallsTypeOK /\ Brokered
  BY DEF CallsInv
<1>2. \A v \in Sessions : (Up(v)' => Up(v)) /\ (Live(v)' => Live(v))
  BY DEF Up, Live
<1>3. ASSUME NEW u \in Sessions, NEW p \in broker[u].pending, Up(u), Touched(s, u, p, {})
      PROVE  InSight(u, p)'
  <2>1. PICK v \in broker[s].invocations : v.req = p /\ v \notin broker'[s].invocations
    BY <1>3 DEF Touched
  <2>2. p.from = u /\ Live(u)
    BY <1>1, <1>3 DEF Brokered, Up, Live
  <2>3. Reply(p) \in Waits(u)'
    BY <2>1, <2>2
  <2> QED
    BY <2>3 DEF InSight, Waits, Mail, Reply
<1>4. \A u \in Sessions : broker'[u].pending \subseteq broker[u].pending
  OBVIOUS
<1>5. Waits(s) \subseteq Waits(s)' \cup {}
  OBVIOUS
<1> QED
  BY <1>1, <1>2, <1>3, <1>4, <1>5, SightedKept

LEMMA ExpireOneSighted ==
  ASSUME CallsInv, Sighted, NEW s \in Sessions, ExpireOne(s) PROVE Sighted'
<1>1. CallsTypeOK /\ Brokered /\ Up(s) /\ UNCHANGED <<stage, kept>>
  BY DEF CallsInv, ExpireOne, Up
<1>2. ASSUME NEW p \in broker[s].pending,
             SetBroker(s, RemoveCall(broker[s], p)),
             inbox' = Sent(inbox, p.target, Cancel(p)),
             expansion' = [expansion EXCEPT ![s] = Append(@, Settle(p))]
      PROVE  Sighted'
  <2>1. p \in Requests /\ p.target \in Sessions
    BY <1>1, PendingTyped
  <2>2. PICK n \in Messages : n = Settle(p)
    BY <2>1, SettleTyped
  <2>3. PICK e \in Seq(Messages) : e = expansion[s]
    BY <1>1 DEF CallsTypeOK
  <2>4. expansion'[s] = Append(e, n) /\ \A v \in Sessions : v # s => expansion'[v] = expansion[v]
    BY <1>1, <1>2, <2>2, <2>3 DEF CallsTypeOK
  <2>5. \A v \in Sessions : Mail(expansion[v]) \subseteq Mail(expansion'[v])
    <3>1. Mail(Append(e, n)) = Mail(e) \cup {n}
      BY <2>2, <2>3, MailAppend
    <3>2. Mail(expansion[s]) \subseteq Mail(expansion'[s])
      BY <2>3, <2>4, <3>1
    <3>3. \A v \in Sessions : v # s => Mail(expansion[v]) \subseteq Mail(expansion'[v])
      BY <2>4
    <3> QED
      BY <3>2, <3>3
  <2>6. \A v \in Sessions : Waits(v) \subseteq Waits(v)'
    BY <1>1, <1>2, <2>1, <2>5, CancelForms, SentWaits
  <2>7. /\ \A u \in Sessions : u # s => broker'[u] = broker[u]
        /\ broker'[s].pending = broker[s].pending \ {p}
        /\ broker'[s].invocations = broker[s].invocations
    <3> DEFINE c == RemoveCall(broker[s], p)
    <3>1. /\ Fits(s, c) /\ c.pending = broker[s].pending \ {p}
          /\ c.invocations = broker[s].invocations
      BY <1>1, RemoveCallFits
    <3>2. SetBroker(s, c)
      BY <1>2
    <3> HIDE DEF c
    <3>3. c \in Brokers
      BY <3>1 DEF Fits, Good
    <3> QED
      BY <1>1, <3>1, <3>2, <3>3, BrokerSet
  <2> QED
    BY <1>1, <2>6, <2>7, ToldSighted
<1>3. ASSUME NEW v \in broker[s].invocations,
             SetBroker(s, RemoveInvocation(broker[s], v)),
             inbox' = Sent(inbox, v.req.from, Reply(v.req)),
             UNCHANGED expansion
      PROVE  Sighted'
  <2>1. v.req \in Requests /\ v.req.from \in Sessions
    BY <1>1, BrokerOf DEF Invocations, Requests
  <2>2. Reply(v.req) \in Messages
    BY <2>1, CancelForms
  <2>3. \A u \in Sessions : Mail(expansion[u]) \subseteq Mail(expansion'[u])
    BY <1>3
  <2>4. /\ \A u \in Sessions : Waits(u) \subseteq Waits(u)'
        /\ Live(v.req.from) => Reply(v.req) \in Waits(v.req.from)'
    BY <1>1, <1>3, <2>1, <2>2, <2>3, SentWaits
  <2>5. /\ \A u \in Sessions : u # s => broker'[u] = broker[u]
        /\ broker'[s].pending = broker[s].pending
        /\ broker'[s].invocations = broker[s].invocations \ {v}
    <3> DEFINE c == RemoveInvocation(broker[s], v)
    <3>1. /\ Fits(s, c) /\ c.pending = broker[s].pending
          /\ c.invocations = broker[s].invocations \ {v}
      BY <1>1, RemoveInvocationFits
    <3>2. SetBroker(s, c)
      BY <1>3
    <3> HIDE DEF c
    <3>3. c \in Brokers
      BY <3>1 DEF Fits, Good
    <3> QED
      BY <1>1, <3>1, <3>2, <3>3, BrokerSet
  <2> QED
    BY <1>1, <2>4, <2>5, ToldSighted
<1> QED
  BY <1>2, <1>3, ExpireOneForm

LEMMA ResetOneSighted ==
  ASSUME CallsInv, Sighted, NEW s \in Sessions, ResetOne(s) PROVE Sighted'
<1>1. CallsTypeOK /\ Brokered /\ UNCHANGED <<stage, kept, expansion>>
  BY DEF CallsInv, ResetOne
<1>2. broker[s] \in Brokers /\ Distinct(broker[s])
      /\ broker[s].pending \subseteq Requests /\ broker[s].invocations \subseteq Invocations
      /\ \A v \in Sessions : Mail(expansion[v]) \subseteq Mail(expansion'[v])
  BY <1>1, BrokerOf
<1>3. ASSUME NEW r \in broker[s].pending,
             inbox' = Sent(inbox, r.target, Cancel(r)),
             SetBroker(s, [broker[s] EXCEPT !.pending = @ \ {r}])
      PROVE  Sighted'
  <2> DEFINE c == [broker[s] EXCEPT !.pending = @ \ {r}]
  <2>1. /\ c \in Brokers /\ c.pending = broker[s].pending \ {r}
        /\ c.invocations = broker[s].invocations
    BY <1>2, ForgetKeeps
  <2>2. SetBroker(s, c)
    BY <1>3
  <2> HIDE DEF c
  <2>3. /\ broker'[s] = c /\ \A u \in Sessions : u # s => broker'[u] = broker[u]
    BY <1>1, <2>1, <2>2, BrokerSet
  <2>4. r \in Requests /\ r.target \in Sessions /\ Cancel(r) \in Messages
    BY <1>1, PendingTyped, CancelForms
  <2>5. \A v \in Sessions : Waits(v) \subseteq Waits(v)'
    BY <1>1, <1>2, <1>3, <2>4, SentWaits
  <2> QED
    BY <1>1, <2>1, <2>3, <2>5, ToldSighted
<1>4. ASSUME NEW v \in broker[s].invocations,
             inbox' = Sent(inbox, v.req.from, Reply(v.req)),
             SetBroker(s, [broker[s] EXCEPT !.invocations = @ \ {v}])
      PROVE  Sighted'
  <2> DEFINE c == [broker[s] EXCEPT !.invocations = @ \ {v}]
  <2>1. /\ c \in Brokers /\ c.pending = broker[s].pending
        /\ c.invocations = broker[s].invocations \ {v}
    BY <1>2, ForgetKeeps
  <2>2. SetBroker(s, c)
    BY <1>4
  <2> HIDE DEF c
  <2>3. /\ broker'[s] = c /\ \A u \in Sessions : u # s => broker'[u] = broker[u]
    BY <1>1, <2>1, <2>2, BrokerSet
  <2>4. v.req \in Requests /\ v.req.from \in Sessions
    BY <1>2 DEF Invocations, Requests
  <2>5. Reply(v.req) \in Messages
    BY <2>4, CancelForms
  <2>6. /\ \A u \in Sessions : Waits(u) \subseteq Waits(u)'
        /\ Live(v.req.from) => Reply(v.req) \in Waits(v.req.from)'
    BY <1>1, <1>2, <1>4, <2>4, <2>5, SentWaits
  <2> QED
    BY <1>1, <2>1, <2>3, <2>6, ToldSighted
<1> QED
  BY <1>3, <1>4 DEF ResetOne

\* A reload drops its expansion, where no call waits, and keeps its inbox.
LEMMA BeginReloadSighted ==
  ASSUME CallsInv, Sighted, NEW s \in Sessions, BeginReload(s) PROVE Sighted'
<1>1. /\ CallsTypeOK /\ Brokered /\ Staged /\ Posted /\ Busy(s) /\ Up(s)
      /\ stage[s] = "running" /\ Current(s).kind = "reload"
      /\ stage' = [stage EXCEPT ![s] = "reloading"]
      /\ kept' = [kept EXCEPT ![s] = Taken(s)[s]]
      /\ inbox' = [inbox EXCEPT ![s] = <<>>]
      /\ expansion' = [expansion EXCEPT ![s] = <<>>]
      /\ UNCHANGED broker
  BY DEF CallsInv, BeginReload, Handling, Busy, Up
<1>2. /\ kept'[s] = Taken(s)[s]
      /\ \A v \in Sessions : v # s => kept'[v] = kept[v] /\ inbox'[v] = inbox[v]
                                      /\ expansion'[v] = expansion[v]
  BY <1>1 DEF CallsTypeOK
<1>3. \A v \in Sessions : v # s => Waits(v) \subseteq Waits(v)'
  BY <1>2 DEF Waits, Mail
<1>4. ~Up(s)' /\ Live(s) /\ \A v \in Sessions : (Up(v)' => Up(v)) /\ (Live(v)' => Live(v))
  BY <1>1 DEF Up, Live, CallsTypeOK
<1>5. ASSUME NEW r, Call(r) \in Waits(s) PROVE Call(r) \in Waits(s)'
  <2>1. Call(r).kind = "call"
    BY SightKinds
  <2>2. Call(r) \notin Mail(expansion[s]) /\ kept[s] = <<>>
    BY <1>1, <2>1 DEF Posted, Staged
  <2>3. Call(r) \in Mail(inbox[s])
    BY <1>5, <2>2, MailEmpty DEF Waits
  <2>4. Call(r) \in Mail(Taken(s)[s])
    <3>1. CASE expansion[s] = <<>>
      <4>1. Mail(inbox[s]) = {Current(s)} \cup Mail(Taken(s)[s])
        BY <1>1, <3>1, TakenMail
      <4> QED
        BY <1>1, <2>1, <2>3, <4>1
    <3>2. CASE expansion[s] # <<>>
      <4>1. Taken(s)[s] = inbox[s]
        BY <1>1, <3>2, TakenMail
      <4> QED
        BY <2>3, <4>1
    <3> QED
      BY <3>1, <3>2
  <2>5. Call(r) \in Mail(kept'[s])
    BY <1>2, <2>4
  <2> QED
    BY <2>5 DEF Waits, Mail, Call
<1>6. PICK lost : lost = {m \in Waits(s) : m \notin Waits(s)'}
  OBVIOUS
<1>7. Waits(s) \subseteq Waits(s)' \cup lost
  BY <1>6
<1>8. ASSUME NEW u \in Sessions, NEW p, Touched(s, u, p, lost), Up(u)' PROVE FALSE
  <2>1. u # s
    BY <1>4, <1>8
  <2>2. Call(p) \notin lost
    BY <1>5, <1>6
  <2> QED
    BY <1>1, <1>8, <2>1, <2>2 DEF Touched
<1> QED
  BY <1>1, <1>3, <1>4, <1>7, <1>8, SightedKept

LEMMA RequeueSighted ==
  ASSUME CallsInv, Sighted, NEW s \in Sessions, Requeue(s) PROVE Sighted'
<1>1. CallsTypeOK /\ UNCHANGED <<stage, broker, expansion>>
  BY DEF CallsInv, Requeue
<1>2. /\ Mail(kept'[s]) \cup {Head(kept[s])} = Mail(kept[s])
      /\ \A u \in Sessions : u # s => kept'[u] = kept[u]
      /\ \A u \in Sessions : Mail(inbox[u]) \subseteq Mail(inbox'[u])
      /\ Head(kept[s]) \in Mail(inbox'[s])
  BY <1>1, RequeueForm
<1>3. ASSUME NEW v \in Sessions
      PROVE  Waits(v) \subseteq Mail(inbox'[v]) \cup Mail(expansion'[v]) \cup Mail(kept'[v])
  <2>1. CASE v = s
    BY <1>1, <1>2, <2>1 DEF Waits
  <2>2. CASE v # s
    BY <1>1, <1>2, <2>2 DEF Waits
  <2> QED
    BY <2>1, <2>2
<1>4. \A v \in Sessions : Waits(v) \subseteq Waits(v)'
  BY <1>3 DEF Waits, Mail
<1> QED
  BY <1>1, <1>4, IdleSighted DEF Live, Up

LEMMA DroppedSighted ==
  ASSUME CallsInv, Sighted, NEW s \in Sessions, DropEngine(s),
         UNCHANGED <<inbox, expansion, kept>>, \A v \in Sessions : Live(v)' => Live(v),
         \A v \in Sessions : v # s => (Up(v)' => Up(v))
  PROVE  Sighted'
<1>1. CallsTypeOK /\ Brokered
  BY DEF CallsInv
<1>2. /\ \A v \in Sessions : v # s => broker'[v] = broker[v]
      /\ broker'[s].pending = {} /\ broker[s].invocations = {}
  BY <1>1, DropEngineForm
<1>3. \A v \in Sessions : Waits(v) \subseteq Waits(v)'
  BY DEF Waits, Mail
<1>4. PICK lost : lost = {}
  OBVIOUS
<1>5. Waits(s) \subseteq Waits(s)' \cup lost
  BY <1>3
<1>6. ASSUME NEW u \in Sessions, NEW p, Touched(s, u, p, lost) PROVE FALSE
  BY <1>2, <1>4, <1>6 DEF Touched
<1>7. \A v \in Sessions : Up(v)' => Up(v) \/ broker'[v].pending = {}
  BY <1>2
<1>8. \A u \in Sessions : broker'[u].pending \subseteq broker[u].pending
  BY <1>2
<1> QED
  BY <1>1, <1>2, <1>3, <1>5, <1>6, <1>7, <1>8, SightedKept

LEMMA RebuildSighted ==
  ASSUME CallsInv, Sighted, NEW s \in Sessions, Rebuild(s) PROVE Sighted'
<1>1. /\ DropEngine(s) /\ stage[s] = "reloading" /\ stage' = [stage EXCEPT ![s] = "running"]
      /\ UNCHANGED <<inbox, expansion, kept>> /\ stage \in [Sessions -> Stages]
  BY DEF Rebuild, CallsInv, CallsTypeOK
<1>2. /\ \A v \in Sessions : Live(v)' => Live(v)
      /\ \A v \in Sessions : v # s => (Up(v)' => Up(v))
  BY <1>1 DEF Live, Up
<1> QED
  BY <1>1, <1>2, DroppedSighted

LEMMA EndedSighted ==
  ASSUME CallsInv, Sighted, NEW s \in Sessions, Ended(s) PROVE Sighted'
<1>1. /\ DropEngine(s) /\ stage[s] = "closing" /\ stage' = [stage EXCEPT ![s] = "closed"]
      /\ UNCHANGED <<inbox, expansion, kept>> /\ stage \in [Sessions -> Stages]
  BY DEF Ended, CallsInv, CallsTypeOK
<1>2. /\ \A v \in Sessions : Live(v)' => Live(v)
      /\ \A v \in Sessions : v # s => (Up(v)' => Up(v))
  BY <1>1 DEF Live, Up
<1> QED
  BY <1>1, <1>2, DroppedSighted

\* What waited in a session that ends is lost; so is the session, for those
\* that called it.
LEMMA ShutdownSighted ==
  ASSUME CallsInv, Sighted, NEW s \in Sessions, Shutdown(s) PROVE Sighted'
<1>1. /\ CallsTypeOK /\ stage[s] = "running"
      /\ stage' = [stage EXCEPT ![s] = "closing"]
      /\ inbox' = [inbox EXCEPT ![s] = <<>>]
      /\ expansion' = [expansion EXCEPT ![s] = <<>>]
      /\ UNCHANGED <<kept, broker>>
  BY DEF CallsInv, Shutdown
<1>2. \A v \in Sessions : v # s => inbox'[v] = inbox[v] /\ expansion'[v] = expansion[v]
  BY <1>1 DEF CallsTypeOK
<1>3. \A v \in Sessions : v # s => Waits(v) \subseteq Waits(v)'
  BY <1>1, <1>2 DEF Waits, Mail
<1>4. /\ ~Up(s)' /\ ~Live(s)'
      /\ \A v \in Sessions : (Up(v)' => Up(v)) /\ (Live(v)' => Live(v))
  BY <1>1 DEF Up, Live, CallsTypeOK
<1>5. PICK lost : lost = Waits(s)
  OBVIOUS
<1>6. ASSUME NEW u \in Sessions, NEW p, Touched(s, u, p, lost), Up(u)' PROVE InSight(u, p)'
  <2>1. p.target = s
    BY <1>4, <1>6 DEF Touched
  <2> QED
    BY <1>4, <2>1 DEF InSight
<1> QED
  BY <1>1, <1>3, <1>4, <1>5, <1>6, SightedKept

LEMMA SightedNext ==
  ASSUME CallsAssumption, CallsInv, Sighted, [CallsNext]_callVars PROVE Sighted'
<1>1. CASE Tick \/ UNCHANGED callVars
  <2>1. UNCHANGED <<stage, inbox, expansion, kept, broker>>
    BY <1>1 DEF Tick, callVars
  <2>2. /\ \A v \in Sessions : Waits(v) \subseteq Waits(v)'
        /\ \A v \in Sessions : (Live(v)' => Live(v)) /\ (Up(v)' => Up(v))
    BY <2>1 DEF Waits, Mail, Live, Up
  <2> QED
    BY <2>1, <2>2, IdleSighted DEF CallsInv
<1>2. ASSUME NEW s \in Sessions, FireDeadline(s) PROVE Sighted'
  <2>1. CallsTypeOK /\ inbox' = Sent(inbox, s, Expire)
        /\ UNCHANGED <<stage, expansion, kept, broker>>
    BY <1>2 DEF FireDeadline, CallsInv
  <2>2. Expire \in Messages /\ \A v \in Sessions : Mail(expansion[v]) \subseteq Mail(expansion'[v])
    BY <2>1 DEF Messages
  <2>3. \A v \in Sessions : Waits(v) \subseteq Waits(v)'
    BY <2>1, <2>2, SentWaits
  <2>4. \A v \in Sessions : (Live(v)' => Live(v)) /\ (Up(v)' => Up(v))
    BY <2>1 DEF Live, Up
  <2> QED
    BY <2>1, <2>3, <2>4, IdleSighted
<1>3. ASSUME NEW s \in Sessions, ExpireDone(s) PROVE Sighted'
  <2>1. /\ CallsTypeOK /\ stage[s] = "expiring" /\ stage' = [stage EXCEPT ![s] = "running"]
        /\ UNCHANGED <<inbox, expansion, kept, broker>>
    BY <1>3 DEF ExpireDone, CallsInv
  <2>2. \A v \in Sessions : Waits(v) \subseteq Waits(v)'
    BY <2>1 DEF Waits, Mail
  <2>3. \A v \in Sessions : (Live(v)' => Live(v)) /\ (Up(v)' => Up(v))
    BY <2>1 DEF Live, Up, CallsTypeOK
  <2> QED
    BY <2>1, <2>2, <2>3, IdleSighted
<1>4. ASSUME NEW s \in Sessions, RunHandler(s) PROVE Sighted'
  BY <1>4, RunHandlerSighted
<1>5. ASSUME NEW s \in Sessions, PumpScripts(s) PROVE Sighted'
  BY <1>5, PumpScriptsSighted
<1>6. ASSUME NEW s \in Sessions, Shutdown(s) PROVE Sighted'
  BY <1>6, ShutdownSighted
<1>7. ASSUME NEW s \in Sessions, CallLoop(s) PROVE Sighted'
  <2>1. CASE ForwardProcedureCall(s) BY <2>1, ForwardProcedureCallSighted
  <2>2. CASE DropProcedureCall(s) BY <2>2, DropProcedureCallSighted
  <2>3. CASE RefuseProcedureCall(s) BY <2>3, RefuseProcedureCallSighted
  <2>4. CASE StartProcedureCall(s) BY <2>4, StartProcedureCallSighted
  <2>5. CASE InvokeImplementation(s) BY <2>5, InvokeImplementationSighted
  <2>6. CASE ForwardProcedureReply(s) BY <2>6, ForwardProcedureReplySighted
  <2>7. CASE ProcedureReply(s) BY <2>7, ProcedureReplySighted
  <2>8. CASE SettlePromise(s) BY <2>8, SettlePromiseSighted
  <2>9. CASE CancelProcedureCall(s) BY <2>9, CancelProcedureCallSighted
  <2>10. CASE ExpireProcedureCalls(s) BY <2>10, ExpireProcedureCallsSighted
  <2>11. CASE ExpireOne(s) BY <2>11, ExpireOneSighted
  <2>12. CASE ExpireDone(s) BY <1>3, <2>12
  <2>13. CASE BeginReload(s) BY <2>13, BeginReloadSighted
  <2>14. CASE Requeue(s) BY <2>14, RequeueSighted
  <2>15. CASE ResetOne(s) BY <2>15, ResetOneSighted
  <2>16. CASE Rebuild(s) BY <2>16, RebuildSighted
  <2>17. CASE Ended(s) BY <2>17, EndedSighted
  <2> QED
    BY <1>7, <2>1, <2>2, <2>3, <2>4, <2>5, <2>6, <2>7, <2>8, <2>9, <2>10, <2>11, <2>12,
       <2>13, <2>14, <2>15, <2>16, <2>17 DEF CallLoop
<1> QED
  BY <1>1, <1>2, <1>4, <1>5, <1>6, <1>7 DEF CallsNext

\* As long as a session waits for a call and the target lives, the request or
\* its reply is in a queue or the target tracks it: no reload, expiry or
\* cancellation, at either end, takes the answer away.
THEOREM AnswersInSight == CallsSpec => []AnswerInSight
<1>1. CallsInit => Sighted
  <2> SUFFICES ASSUME CallsInit PROVE Sighted
    OBVIOUS
  <2>1. \A s \in Sessions : broker[s].pending = {}
    BY NewBrokerGood DEF CallsInit
  <2> QED
    BY <2>1 DEF Sighted
<1>2. CallsInv /\ Sighted /\ [CallsNext]_callVars => Sighted'
  BY SightedNext, CallsAssumption
<1>3. Sighted => AnswerInSight
  BY QueuedIsWaiting DEF Sighted, AnswerInSight, InSight, Up
<1> QED
  <2> HIDE DEF Sighted
  <2> QED
    BY <1>1, <1>2, <1>3, CallsInvHolds, PTL DEF CallsSpec

-----------------------------------------------------------------------------
\* The timer: how many expiries may wait.

Overdue == {Expire}

Expiries(s) == Count(inbox[s], Overdue) + Count(kept[s], Overdue)

\* Of each engine's timer no more than one expiry per instant it was awake.
TimedAt(s) ==
  /\ engine[s] >= 1 /\ fired[s] <= clock
  /\ Up(s) => \A d \in broker[s].deadlines : d.at >= fired[s]
  /\ Expiries(s) <= (engine[s] - 1) * clock + fired[s]

Timed == \A s \in Sessions : TimedAt(s)

LEMMA ExpiriesNat ==
  ASSUME CallsTypeOK, NEW s \in Sessions
  PROVE  /\ Count(inbox[s], Overdue) \in Nat /\ Count(kept[s], Overdue) \in Nat
         /\ Expiries(s) \in Nat
         /\ engine[s] \in Nat /\ fired[s] \in Nat /\ clock \in Nat
<1>1. inbox[s] \in Seq(Messages) /\ kept[s] \in Seq(Messages)
  BY DEF CallsTypeOK
<1>2. Count(inbox[s], Overdue) \in Nat /\ Count(kept[s], Overdue) \in Nat
  BY <1>1, CountNat
<1> QED
  BY <1>2 DEF Expiries, CallsTypeOK

\* A step of one session that lets no new expiry wait.
LEMMA QuietTimed ==
  ASSUME CallsTypeOK, CallsTypeOK', Timed, NEW s \in Sessions, Elsewhere(s),
         UNCHANGED <<clock, engine, fired>>,
         \A u \in Sessions : Expiries(u)' <= Expiries(u),
         Up(s)' => /\ Up(s)
                   /\ \A d \in broker'[s].deadlines : d \in broker[s].deadlines \/ d.at > clock
  PROVE  Timed'
<1> SUFFICES ASSUME NEW u \in Sessions PROVE TimedAt(u)'
  BY DEF Timed
<1>1. TimedAt(u)
  BY DEF Timed
<1>2. /\ Expiries(u) \in Nat /\ Expiries(u)' \in Nat /\ Expiries(u)' <= Expiries(u)
      /\ engine[u] \in Nat /\ fired[u] \in Nat /\ clock \in Nat
  <2>1. inbox'[u] \in Seq(Messages) /\ kept'[u] \in Seq(Messages)
    BY DEF CallsTypeOK
  <2>2. PICK q \in Seq(Messages), k \in Seq(Messages) : q = inbox'[u] /\ k = kept'[u]
    BY <2>1
  <2>3. Count(q, Overdue) + Count(k, Overdue) \in Nat
    BY CountNat
  <2>4. Expiries(u)' = Count(q, Overdue) + Count(k, Overdue)
    BY <2>2 DEF Expiries, Overdue, Expire
  <2> QED
    BY <2>3, <2>4, ExpiriesNat
<1>3. engine'[u] = engine[u] /\ fired'[u] = fired[u] /\ clock' = clock
  OBVIOUS
<1>4. Up(u)' => \A d \in broker'[u].deadlines : d.at >= fired'[u]
  <2> SUFFICES ASSUME Up(u)', NEW d \in broker'[u].deadlines PROVE d.at >= fired'[u]
    OBVIOUS
  <2>1. broker'[u].deadlines \subseteq [at : Nat, of : {"call", "invocation"}, id : Nat]
    BY DEF CallsTypeOK, Brokers
  <2>2. d.at \in Nat
    BY <2>1
  <2>3. Up(u) /\ (d \in broker[u].deadlines \/ d.at > clock)
    BY DEF Elsewhere
  <2> QED
    BY <1>1, <1>2, <1>3, <2>2, <2>3 DEF TimedAt
<1>5. Expiries(u)' <= (engine'[u] - 1) * clock' + fired'[u]
  <2>1. PICK n \in Int : n = (engine[u] - 1) * clock + fired[u]
    BY <1>2
  <2>2. Expiries(u)' <= n
    BY <1>1, <1>2, <2>1 DEF TimedAt
  <2> QED
    BY <1>3, <2>1, <2>2
<1> QED
  BY <1>1, <1>3, <1>4, <1>5 DEF TimedAt

LEMMA CountTail ==
  ASSUME NEW q \in Seq(Messages), q # <<>>
  PROVE  /\ Count(q, Overdue) \in Nat /\ Count(Tail(q), Overdue) \in Nat
         /\ Count(Tail(q), Overdue) <= Count(q, Overdue)
         /\ Head(q) # Expire => Count(Tail(q), Overdue) = Count(q, Overdue)
         /\ Head(q) = Expire => Count(Tail(q), Overdue) + 1 = Count(q, Overdue)
<1>1. Tail(q) \in Seq(Messages)
  OBVIOUS
<1>2. Count(q, Overdue) \in Nat /\ Count(Tail(q), Overdue) \in Nat
  BY <1>1, CountNat
<1>3. Count(q, Overdue) = One(Head(q), Overdue) + Count(Tail(q), Overdue)
  BY CountHead
<1>4. One(Head(q), Overdue) = IF Head(q) = Expire THEN 1 ELSE 0
  BY DEF One, Overdue
<1> QED
  BY <1>2, <1>3, <1>4

LEMMA CountSent ==
  ASSUME NEW box \in [Sessions -> Seq(Messages)], NEW to \in Sessions, NEW m \in Messages,
         m # Expire, NEW after, after = Sent(box, to, m)
  PROVE  \A u \in Sessions : Count(after[u], Overdue) = Count(box[u], Overdue)
<1> TAKE u \in Sessions
<1>1. CASE u = to /\ Live(to)
  <2>0. after[to] = Append(box[to], m)
    BY <1>1, SentMail
  <2>1. after[u] = Append(box[u], m) /\ box[u] \in Seq(Messages)
    BY <1>1, <2>0
  <2>2. Count(Append(box[u], m), Overdue) = Count(box[u], Overdue) + One(m, Overdue)
    BY <2>1, CountAppend
  <2>3. One(m, Overdue) = 0 /\ Count(box[u], Overdue) \in Nat
    BY <2>1, CountNat DEF One, Overdue
  <2> QED
    BY <2>1, <2>2, <2>3
<1>2. CASE ~(u = to /\ Live(to))
  <2>1. after[u] = box[u]
    BY <1>2, SentMail
  <2> QED
    BY <2>1
<1> QED
  BY <1>1, <1>2

\* Handling an action takes it, and sends no expiry.
LEMMA HandledExpiries ==
  ASSUME CallsTypeOK, NEW s \in Sessions, Busy(s), UNCHANGED kept, NEW u \in Sessions,
         \/ inbox' = Taken(s)
         \/ \E to \in Sessions, m \in Messages : m # Expire /\ inbox' = Sent(Taken(s), to, m)
  PROVE  Expiries(u)' <= Expiries(u)
<1>1. PICK box \in [Sessions -> Seq(Messages)] : box = Taken(s)
  BY TakenMail
<1>2. Count(inbox'[u], Overdue) = Count(box[u], Overdue)
  <2>1. CASE inbox' = box
    BY <2>1
  <2>2. ASSUME NEW to \in Sessions, NEW m \in Messages, m # Expire, inbox' = Sent(box, to, m)
        PROVE  Count(inbox'[u], Overdue) = Count(box[u], Overdue)
    <3>1. PICK after : after = inbox' /\ after = Sent(box, to, m)
      BY <2>2
    <3>2. after = Sent(box, to, m) /\ m # Expire
      BY <2>2, <3>1
    <3>3. \A v \in Sessions : Count(after[v], Overdue) = Count(box[v], Overdue)
      BY <3>2, CountSent
    <3> QED
      BY <3>1, <3>3
  <2> QED
    BY <1>1, <2>1, <2>2
<1>3. /\ Count(inbox[u], Overdue) \in Nat /\ Count(kept[u], Overdue) \in Nat
  BY ExpiriesNat
<1>4. Count(box[u], Overdue) <= Count(inbox[u], Overdue)
  <2>1. CASE u = s /\ expansion[s] = <<>>
    <3>1. box[s] = Tail(inbox[s]) /\ inbox[s] # <<>> /\ inbox[s] \in Seq(Messages)
      BY <1>1, <2>1 DEF Taken, Busy, CallsTypeOK
    <3> QED
      BY <2>1, <3>1, CountTail
  <2>2. CASE ~(u = s /\ expansion[s] = <<>>)
    <3>1. box[u] = inbox[u]
      BY <1>1, <2>2, TakenMail
    <3> QED
      BY <1>3, <3>1
  <2> QED
    BY <2>1, <2>2
<1>5. kept'[u] = kept[u] /\ Expiries(u)' = Count(inbox'[u], Overdue) + Count(kept[u], Overdue)
  BY DEF Expiries, Overdue, Expire
<1>6. Count(box[u], Overdue) \in Nat
  BY <1>1, CountNat
<1> QED
  BY <1>2, <1>3, <1>4, <1>5, <1>6 DEF Expiries

LEMMA HandledTimed ==
  ASSUME CallsInv, CallsInv', Timed, NEW s \in Sessions, Elsewhere(s), Busy(s),
         UNCHANGED <<clock, engine, kept, fired>>,
         \/ inbox' = Taken(s)
         \/ \E to \in Sessions, m \in Messages : m # Expire /\ inbox' = Sent(Taken(s), to, m),
         \A d \in broker'[s].deadlines : d \in broker[s].deadlines \/ d.at > clock
  PROVE  Timed'
<1>1. CallsTypeOK /\ CallsTypeOK' /\ Up(s)
  BY DEF CallsInv, Busy, Up
<1>2. \A u \in Sessions : Expiries(u)' <= Expiries(u)
  BY <1>1, HandledExpiries
<1> QED
  BY <1>1, <1>2, QuietTimed

\* What a turn adds to the deadlines lies ahead.
LEMMA TurnDeadlines ==
  ASSUME CallsInv, NEW s \in Sessions, Up(s), NEW t, TurnForm(s, t)
  PROVE  /\ \A d \in t.b.deadlines : d \in broker[s].deadlines \/ d.at > clock
         /\ t.spawned \in Seq(Messages) /\ Count(t.spawned, Overdue) = 0
<1>1. CallsTypeOK /\ Brokered
  BY DEF CallsInv
<1>2. ASSUME Idles(s, t) PROVE t.b.deadlines = broker[s].deadlines
  BY <1>2 DEF Idles
<1>3. ASSUME IsRefused(s, t) PROVE t.b.deadlines = broker[s].deadlines
  BY <1>1, <1>3, SpendIdFits DEF IsRefused
<1>4. ASSUME NEW v \in broker[s].invocations, Answers(s, t, v)
      PROVE  t.b.deadlines = broker[s].deadlines
  BY <1>1, <1>4, PrepareReplyFits DEF Answers
<1>5. ASSUME NEW r \in Requests, Calling(s, t, r)
      PROVE  \A d \in t.b.deadlines : d \in broker[s].deadlines \/ d.at > clock
  <2>1. t.b.deadlines = broker[s].deadlines \cup {CallEntry(r)}
    BY <1>1, <1>5, InsertCallFits DEF Calling
  <2>2. CallEntry(r).at > clock
    BY <1>5 DEF Calling, CallEntry
  <2> QED
    BY <2>1, <2>2
<1>6. \A d \in t.b.deadlines : d \in broker[s].deadlines \/ d.at > clock
  BY <1>2, <1>3, <1>4, <1>5 DEF TurnForm
<1>7. t.spawned \in Seq(Messages) /\ \A m \in Mail(t.spawned) : m.kind # "expire"
  BY TurnLeaves DEF Leaves
<1>8. \A i \in 1 .. Len(t.spawned) : t.spawned[i] \notin Overdue
  BY <1>7 DEF Mail, Overdue, Expire
<1>9. Count(t.spawned, Overdue) = 0
  <2>1. PICK q \in Seq(Messages) : q = t.spawned
    BY <1>7
  <2>2. (Count(q, Overdue) = 0) <=> \A i \in 1 .. Len(q) : q[i] \notin Overdue
    BY CountNat
  <2> QED
    BY <1>8, <2>1, <2>2
<1> QED
  BY <1>6, <1>7, <1>9

LEMMA RunHandlerTimed ==
  ASSUME CallsAssumption, CallsInv, CallsInv', Timed, NEW s \in Sessions, RunHandler(s)
  PROVE  Timed'
<1>1. /\ CallsTypeOK /\ CallsTypeOK' /\ Up(s)
      /\ UNCHANGED <<clock, stage, engine, inbox, kept, fired>>
  BY DEF CallsInv, RunHandler, Up
<1>2. PICK t : /\ t \in ReloadTurns(broker[s]) \cup CallTurns(s, broker[s], 0, {}, s \in Callers)
               /\ TakeTurn(s, t)
  BY DEF RunHandler
<1>3. TurnForm(s, t)
  BY <1>1, <1>2, ReloadTurnForm, CallTurnForm
<1>4. broker'[s] = t.b
  BY <1>2, <1>3, <1>1, TurnTaken, BrokerSet
<1>5. \A d \in broker'[s].deadlines : d \in broker[s].deadlines \/ d.at > clock
  BY <1>1, <1>3, <1>4, TurnDeadlines
<1>6. \A u \in Sessions : Expiries(u) \in Nat /\ Expiries(u)' = Expiries(u)
  BY <1>1, ExpiriesNat DEF Expiries, Overdue, Expire
<1>7. \A u \in Sessions : Expiries(u)' <= Expiries(u)
  BY <1>6
<1> QED
  BY <1>1, <1>5, <1>7, OneSession, QuietTimed

LEMMA PumpScriptsTimed ==
  ASSUME CallsAssumption, CallsInv, CallsInv', Timed, NEW s \in Sessions, PumpScripts(s)
  PROVE  Timed'
<1>1. /\ CallsTypeOK /\ CallsTypeOK' /\ Up(s)
      /\ UNCHANGED <<clock, stage, engine, kept, fired>>
  BY DEF CallsInv, PumpScripts, Up
<1>2. \E t : TurnForm(s, t) /\ TakeTurn(s, t) /\ inbox' = [inbox EXCEPT ![s] = @ \o t.spawned]
  <2>1. PICK t : /\ t \in ReloadTurns(broker[s])
                       \cup CallTurns(s, broker[s], 0, Parents(s, broker[s]), s \in Callers)
                       \cup AnswerTurns(s, broker[s], 1 .. MaxId[s])
                 /\ TakeTurn(s, t) /\ inbox' = [inbox EXCEPT ![s] = @ \o t.spawned]
    BY DEF PumpScripts
  <2>2. CASE t \in ReloadTurns(broker[s])
    BY <2>1, <2>2, ReloadTurnForm
  <2>3. CASE t \in CallTurns(s, broker[s], 0, Parents(s, broker[s]), s \in Callers)
    BY <1>1, <2>1, <2>3, CallTurnForm
  <2>4. CASE t \in AnswerTurns(s, broker[s], 1 .. MaxId[s])
    <3>1. TurnForm(s, t)
      BY <2>4 DEF AnswerTurns, Turn, TurnForm, Answers
    <3> QED
      BY <2>1, <3>1
  <2> QED
    BY <2>1, <2>2, <2>3, <2>4
<1>3. PICK t : TurnForm(s, t) /\ TakeTurn(s, t) /\ inbox' = [inbox EXCEPT ![s] = @ \o t.spawned]
  BY <1>2
<1>4. broker'[s] = t.b
  BY <1>1, <1>3, TurnTaken, BrokerSet
<1>5. \A d \in broker'[s].deadlines : d \in broker[s].deadlines \/ d.at > clock
  BY <1>1, <1>3, <1>4, TurnDeadlines
<1>6. ASSUME NEW u \in Sessions PROVE Count(inbox'[u], Overdue) = Count(inbox[u], Overdue)
  <2>1. CASE u = s
    <3>1. PICK q \in Seq(Messages), r \in Seq(Messages) :
            q = inbox[s] /\ r = t.spawned /\ Count(r, Overdue) = 0
      BY <1>1, <1>3, TurnDeadlines DEF CallsTypeOK
    <3>2. inbox'[u] = q \o r
      BY <1>1, <1>3, <2>1, <3>1 DEF CallsTypeOK
    <3>3. Count(q \o r, Overdue) = Count(q, Overdue) + Count(r, Overdue) /\ Count(q, Overdue) \in Nat
      BY CountConcat, CountNat
    <3> QED
      BY <2>1, <3>1, <3>2, <3>3
  <2>2. CASE u # s
    <3>1. inbox'[u] = inbox[u]
      BY <1>1, <1>3, <2>2 DEF CallsTypeOK
    <3> QED
      BY <3>1
  <2> QED
    BY <2>1, <2>2
<1>7. \A u \in Sessions : Expiries(u) \in Nat /\ Expiries(u)' = Expiries(u)
  BY <1>1, <1>6, ExpiriesNat DEF Expiries, Overdue, Expire
<1>8. \A u \in Sessions : Expiries(u)' <= Expiries(u)
  BY <1>7
<1> QED
  BY <1>1, <1>5, <1>8, OneSession, QuietTimed

LEMMA InvokeImplementationTimed ==
  ASSUME CallsAssumption, CallsInv, CallsInv', Timed, NEW s \in Sessions,
         InvokeImplementation(s)
  PROVE  Timed'
<1>1. /\ CallsTypeOK /\ Busy(s) /\ Up(s) /\ Current(s).req \in Requests
      /\ UNCHANGED <<clock, stage, engine, kept, fired>> /\ inbox' = Taken(s)
  BY InHandTyped DEF InvokeImplementation
<1>2. PICK t : /\ t \in ImplementationTurns(s, broker[s], Current(s)) /\ TakeTurn(s, t)
  BY DEF InvokeImplementation
<1>3. TurnForm(s, t)
  BY <1>1, <1>2, ImplementationTurnForm
<1>4. broker'[s] = t.b
  BY <1>1, <1>2, <1>3, TurnTaken, BrokerSet
<1>5. \A d \in broker'[s].deadlines : d \in broker[s].deadlines \/ d.at > clock
  BY <1>1, <1>3, <1>4, TurnDeadlines
<1>6. Elsewhere(s)
  BY <1>1, OneSession DEF CallLoop
<1> QED
  BY <1>1, <1>5, <1>6, HandledTimed

\* What one handled action takes off or adds to the deadlines.
LEMMA LaterDeadlines ==
  ASSUME CallsInv, NEW s \in Sessions, Up(s),
         \/ UNCHANGED broker
         \/ SetBroker(s, [broker[s] EXCEPT !.nextId = @ + 1])
         \/ \E v \in broker[s].invocations : SetBroker(s, RemoveInvocation(broker[s], v))
         \/ \E p \in broker[s].pending : SetBroker(s, RemoveCall(broker[s], p))
         \/ \E r \in Requests :
              CanStart(s, broker[s], r) /\ SetBroker(s, StartInvocation(broker[s], r, engine[s]))
  PROVE  \A d \in broker'[s].deadlines : d \in broker[s].deadlines \/ d.at > clock
<1>1. CallsTypeOK /\ Brokered
  BY DEF CallsInv
<1>2. ASSUME NEW c \in Brokers, SetBroker(s, c),
             \A d \in c.deadlines : d \in broker[s].deadlines \/ d.at > clock
      PROVE  \A d \in broker'[s].deadlines : d \in broker[s].deadlines \/ d.at > clock
  BY <1>1, <1>2, BrokerSet
<1>3. CASE UNCHANGED broker
  BY <1>3
<1>4. CASE SetBroker(s, [broker[s] EXCEPT !.nextId = @ + 1])
  BY <1>1, <1>2, <1>4, SpendIdFits DEF Fits, Good
<1>5. ASSUME NEW v \in broker[s].invocations, SetBroker(s, RemoveInvocation(broker[s], v))
      PROVE  \A d \in broker'[s].deadlines : d \in broker[s].deadlines \/ d.at > clock
  BY <1>1, <1>2, <1>5, RemoveInvocationFits DEF Fits, Good
<1>6. ASSUME NEW p \in broker[s].pending, SetBroker(s, RemoveCall(broker[s], p))
      PROVE  \A d \in broker'[s].deadlines : d \in broker[s].deadlines \/ d.at > clock
  BY <1>1, <1>2, <1>6, RemoveCallFits DEF Fits, Good
<1>7. ASSUME NEW r \in Requests, CanStart(s, broker[s], r),
             SetBroker(s, StartInvocation(broker[s], r, engine[s]))
      PROVE  \A d \in broker'[s].deadlines : d \in broker[s].deadlines \/ d.at > clock
  <2>1. PICK c : c = StartInvocation(broker[s], r, engine[s])
    OBVIOUS
  <2>2. /\ c \in Brokers /\ r.deadline > clock
        /\ \E v : v.req = r /\ c.deadlines = broker[s].deadlines \cup {InvocationEntry(v)}
    BY <1>1, <1>7, <2>1, StartInvocationFits DEF Fits, Good
  <2>3. PICK v : v.req = r /\ c.deadlines = broker[s].deadlines \cup {InvocationEntry(v)}
    BY <2>2
  <2>4. InvocationEntry(v).at > clock
    BY <2>2, <2>3 DEF InvocationEntry
  <2>5. \A d \in c.deadlines : d \in broker[s].deadlines \/ d.at > clock
    BY <2>3, <2>4
  <2> QED
    BY <1>2, <1>7, <2>1, <2>2, <2>5
<1> QED
  BY <1>3, <1>4, <1>5, <1>6, <1>7

LEMMA NotOverdue ==
  ASSUME NEW r
  PROVE  Call(r) # Expire /\ Reply(r) # Expire /\ Cancel(r) # Expire
BY DEF Call, Reply, Cancel, Expire

\* The actions that handle a message.
LEMMA HandlersTimed ==
  ASSUME CallsInv, CallsInv', Timed, NEW s \in Sessions,
         \/ ForwardProcedureCall(s) \/ DropProcedureCall(s) \/ RefuseProcedureCall(s)
         \/ StartProcedureCall(s) \/ ForwardProcedureReply(s) \/ ProcedureReply(s)
         \/ SettlePromise(s) \/ CancelProcedureCall(s) \/ ExpireProcedureCalls(s)
  PROVE  Timed'
<1> DEFINE Takes ==
             \/ inbox' = Taken(s)
             \/ \E to \in Sessions, m \in Messages :
                  m # Expire /\ inbox' = Sent(Taken(s), to, m)
           Leaving ==
             \/ UNCHANGED broker
             \/ SetBroker(s, [broker[s] EXCEPT !.nextId = @ + 1])
             \/ \E v \in broker[s].invocations : SetBroker(s, RemoveInvocation(broker[s], v))
             \/ \E p \in broker[s].pending : SetBroker(s, RemoveCall(broker[s], p))
             \/ \E r \in Requests :
                  CanStart(s, broker[s], r) /\ SetBroker(s, StartInvocation(broker[s], r, engine[s]))
<1>1. /\ CallsTypeOK /\ Busy(s) /\ Up(s) /\ UNCHANGED <<clock, engine, kept, fired>>
  BY DEF CallsInv, ForwardProcedureCall, DropProcedureCall, RefuseProcedureCall,
     StartProcedureCall, ForwardProcedureReply, ProcedureReply, SettlePromise,
     CancelProcedureCall, ExpireProcedureCalls, Handling, Busy, Up
<1>2. Elsewhere(s)
  BY <1>1, OneSession DEF CallLoop
<1>3. Takes /\ Leaving
  <2>1. CASE ForwardProcedureCall(s)
    <3>1. Current(s).req \in Requests /\ Current(s).req.target \in Sessions
      BY <2>1, InHandTyped DEF ForwardProcedureCall
    <3>2. Call(Current(s).req) \in Messages /\ Reply(Current(s).req) \in Messages
      BY <3>1 DEF Messages, Call, Reply
    <3> QED
      BY <2>1, <3>1, <3>2, NotOverdue DEF ForwardProcedureCall
  <2>2. CASE DropProcedureCall(s) \/ SettlePromise(s) \/ ExpireProcedureCalls(s)
    BY <2>2 DEF DropProcedureCall, SettlePromise, ExpireProcedureCalls
  <2>3. CASE RefuseProcedureCall(s)
    <3>1. Current(s).req \in Requests /\ Current(s).req.from \in Sessions
      BY <2>3, InHandTyped DEF RefuseProcedureCall
    <3>2. Reply(Current(s).req) \in Messages
      BY <3>1 DEF Messages, Reply
    <3> QED
      BY <2>3, <3>1, <3>2, NotOverdue DEF RefuseProcedureCall
  <2>4. CASE StartProcedureCall(s)
    <3>1. Current(s).req \in Requests
      BY <2>4, InHandTyped DEF StartProcedureCall
    <3> QED
      BY <2>4, <3>1 DEF StartProcedureCall
  <2>5. CASE ForwardProcedureReply(s)
    <3>1. Current(s).req \in Requests /\ Current(s).req.from \in Sessions
      BY <2>5, InHandTyped DEF ForwardProcedureReply
    <3>2. Reply(Current(s).req) \in Messages
      BY <3>1 DEF Messages, Reply
    <3> QED
      BY <2>5, <3>1, <3>2, NotOverdue DEF ForwardProcedureReply
  <2>6. CASE ProcedureReply(s)
    BY <2>6 DEF ProcedureReply
  <2>7. CASE CancelProcedureCall(s)
    BY <2>7 DEF CancelProcedureCall
  <2> QED
    BY <2>1, <2>2, <2>3, <2>4, <2>5, <2>6, <2>7
<1>4. \A d \in broker'[s].deadlines : d \in broker[s].deadlines \/ d.at > clock
  BY <1>1, <1>3, LaterDeadlines
<1> QED
  BY <1>1, <1>2, <1>3, <1>4, HandledTimed

\* An action that sends one message, and no expiry.
LEMMA SentExpiries ==
  ASSUME CallsTypeOK, UNCHANGED kept, NEW to \in Sessions, NEW m \in Messages, m # Expire,
         inbox' = Sent(inbox, to, m), NEW u \in Sessions
  PROVE  Expiries(u)' <= Expiries(u)
<1>1. PICK box \in [Sessions -> Seq(Messages)] : box = inbox
  BY DEF CallsTypeOK
<1>2. PICK after : after = inbox' /\ after = Sent(box, to, m)
  BY <1>1
<1>3. \A v \in Sessions : Count(after[v], Overdue) = Count(box[v], Overdue)
  BY <1>2, CountSent
<1>4. Count(inbox'[u], Overdue) = Count(inbox[u], Overdue)
  BY <1>1, <1>2, <1>3
<1>5. Expiries(u)' = Expiries(u) /\ Expiries(u) \in Nat
  BY <1>4, ExpiriesNat DEF Expiries, Overdue, Expire
<1> QED
  BY <1>5

LEMMA ExpireOneTimed ==
  ASSUME CallsInv, CallsInv', Timed, NEW s \in Sessions, ExpireOne(s) PROVE Timed'
<1>1. /\ CallsTypeOK /\ CallsTypeOK' /\ Brokered /\ Up(s)
      /\ UNCHANGED <<clock, stage, engine, kept, fired>>
  BY DEF CallsInv, ExpireOne, Up
<1>2. Elsewhere(s)
  BY <1>1, OneSession DEF CallLoop
<1>3. /\ broker[s].pending \subseteq Requests /\ broker[s].invocations \subseteq Invocations
  BY <1>1, BrokerOf
<1>4. /\ \A u \in Sessions : Expiries(u)' <= Expiries(u)
      /\ \A d \in broker'[s].deadlines : d \in broker[s].deadlines \/ d.at > clock
  <2>1. ASSUME NEW r \in broker[s].pending, SetBroker(s, RemoveCall(broker[s], r)),
               inbox' = Sent(inbox, r.target, Cancel(r))
        PROVE  /\ \A u \in Sessions : Expiries(u)' <= Expiries(u)
               /\ \A d \in broker'[s].deadlines : d \in broker[s].deadlines \/ d.at > clock
    <3>1. r \in Requests /\ r.target \in Sessions /\ Cancel(r) \in Messages
      BY <1>3 DEF Requests, Messages, Cancel
    <3> QED
      BY <1>1, <2>1, <3>1, NotOverdue, SentExpiries, LaterDeadlines
  <2>2. ASSUME NEW v \in broker[s].invocations, SetBroker(s, RemoveInvocation(broker[s], v)),
               inbox' = Sent(inbox, v.req.from, Reply(v.req))
        PROVE  /\ \A u \in Sessions : Expiries(u)' <= Expiries(u)
               /\ \A d \in broker'[s].deadlines : d \in broker[s].deadlines \/ d.at > clock
    <3>1. v.req.from \in Sessions /\ Reply(v.req) \in Messages
      BY <1>3 DEF Invocations, Requests, Messages, Reply
    <3> QED
      BY <1>1, <2>2, <3>1, NotOverdue, SentExpiries, LaterDeadlines
  <2> QED
    BY <2>1, <2>2, ExpireOneForm
<1> QED
  BY <1>1, <1>2, <1>4, QuietTimed

LEMMA ResetOneTimed ==
  ASSUME CallsInv, CallsInv', Timed, NEW s \in Sessions, ResetOne(s) PROVE Timed'
<1>1. /\ CallsTypeOK /\ CallsTypeOK' /\ Brokered /\ ~Up(s)'
      /\ UNCHANGED <<clock, stage, engine, kept, fired>>
  BY DEF CallsInv, ResetOne, Up
<1>2. Elsewhere(s)
  BY <1>1, OneSession DEF CallLoop
<1>3. /\ broker[s].pending \subseteq Requests /\ broker[s].invocations \subseteq Invocations
  BY <1>1, BrokerOf
<1>4. \E to \in Sessions, m \in Messages : m # Expire /\ inbox' = Sent(inbox, to, m)
  <2>1. ASSUME NEW r \in broker[s].pending, inbox' = Sent(inbox, r.target, Cancel(r))
        PROVE  \E to \in Sessions, m \in Messages : m # Expire /\ inbox' = Sent(inbox, to, m)
    <3>1. r.target \in Sessions /\ Cancel(r) \in Messages
      BY <1>3 DEF Requests, Messages, Cancel
    <3> QED
      BY <2>1, <3>1, NotOverdue
  <2>2. ASSUME NEW v \in broker[s].invocations, inbox' = Sent(inbox, v.req.from, Reply(v.req))
        PROVE  \E to \in Sessions, m \in Messages : m # Expire /\ inbox' = Sent(inbox, to, m)
    <3>1. v.req.from \in Sessions /\ Reply(v.req) \in Messages
      BY <1>3 DEF Invocations, Requests, Messages, Reply
    <3> QED
      BY <2>2, <3>1, NotOverdue
  <2> QED
    BY <2>1, <2>2 DEF ResetOne
<1>5. \A u \in Sessions : Expiries(u)' <= Expiries(u)
  BY <1>1, <1>4, SentExpiries
<1> QED
  BY <1>1, <1>2, <1>5, QuietTimed

\* A reload moves what waits, and takes only its own action out.
LEMMA BeginReloadTimed ==
  ASSUME CallsInv, CallsInv', Timed, NEW s \in Sessions, BeginReload(s) PROVE Timed'
<1>1. /\ CallsTypeOK /\ CallsTypeOK' /\ Staged /\ Busy(s) /\ stage[s] = "running"
      /\ UNCHANGED <<clock, engine, fired>> /\ stage' = [stage EXCEPT ![s] = "reloading"]
      /\ kept' = [kept EXCEPT ![s] = Taken(s)[s]] /\ inbox' = [inbox EXCEPT ![s] = <<>>]
  BY DEF CallsInv, BeginReload, Handling, Busy
<1>2. Elsewhere(s) /\ ~Up(s)'
  BY <1>1, OneSession DEF CallLoop, Up, CallsTypeOK
<1>3. ASSUME NEW u \in Sessions PROVE Expiries(u)' <= Expiries(u)
  <2>1. CASE u # s
    <3>1. inbox'[u] = inbox[u] /\ kept'[u] = kept[u]
      BY <1>1, <2>1 DEF CallsTypeOK
    <3>2. Expiries(u)' = Expiries(u) /\ Expiries(u) \in Nat
      BY <1>1, <3>1, ExpiriesNat DEF Expiries, Overdue, Expire
    <3> QED
      BY <3>2
  <2>2. CASE u = s
    <3>1. inbox'[s] = <<>> /\ kept'[s] = Taken(s)[s] /\ kept[s] = <<>>
      BY <1>1 DEF CallsTypeOK, Staged
    <3>2. PICK q \in Seq(Messages) : q = inbox[s]
      BY <1>1 DEF CallsTypeOK
    <3>3. Count(q, Overdue) \in Nat
      BY CountNat
    <3>4. PICK k \in Seq(Messages) : k = kept'[s]
      BY <1>1 DEF CallsTypeOK
    <3>5. Count(k, Overdue) \in Nat /\ Count(k, Overdue) <= Count(q, Overdue)
      <4>1. Count(k, Overdue) \in Nat
        BY CountNat
      <4>2. CASE expansion[s] # <<>>
        BY <1>1, <3>1, <3>2, <3>3, <3>4, <4>2 DEF Taken
      <4>3. CASE expansion[s] = <<>>
        <5>1. q # <<>> /\ k = Tail(q)
          BY <1>1, <3>1, <3>2, <3>4, <4>3 DEF Taken, Busy, CallsTypeOK
        <5> QED
          BY <4>1, <5>1, CountTail
      <4> QED
        BY <4>1, <4>2, <4>3
    <3>6. Expiries(s)' = Count(k, Overdue) /\ Expiries(s) = Count(q, Overdue)
      BY <3>1, <3>2, <3>3, <3>4, <3>5, CountEmpty DEF Expiries, Overdue, Expire
    <3> QED
      BY <2>2, <3>5, <3>6
  <2> QED
    BY <2>1, <2>2
<1> QED
  BY <1>1, <1>2, <1>3, QuietTimed

LEMMA RequeueTimed ==
  ASSUME CallsInv, CallsInv', Timed, NEW s \in Sessions, Requeue(s) PROVE Timed'
<1>1. /\ CallsTypeOK /\ CallsTypeOK' /\ ~Up(s)'
      /\ UNCHANGED <<clock, stage, engine, fired>>
  BY DEF CallsInv, Requeue, Up
<1>2. Elsewhere(s)
  BY <1>1, OneSession DEF CallLoop
<1>3. ASSUME NEW u \in Sessions PROVE Expiries(u)' <= Expiries(u)
  <2>1. CASE u # s
    <3>1. inbox'[u] = inbox[u] /\ kept'[u] = kept[u]
      BY <1>1, <2>1, RequeueForm
    <3>2. Expiries(u)' = Expiries(u) /\ Expiries(u) \in Nat
      BY <1>1, <3>1, ExpiriesNat DEF Expiries, Overdue, Expire
    <3> QED
      BY <3>2
  <2>2. CASE u = s
    <3>1. /\ kept'[s] = Tail(kept[s]) /\ inbox'[s] = Append(inbox[s], Head(kept[s]))
          /\ kept[s] \in Seq(Messages) /\ kept[s] # <<>>
      BY <1>1, RequeueForm
    <3>2. PICK q \in Seq(Messages), k \in Seq(Messages) : q = inbox[s] /\ k = kept[s] /\ k # <<>>
      BY <1>1, <3>1 DEF CallsTypeOK
    <3>3. Head(k) \in Messages /\ Tail(k) \in Seq(Messages)
      BY <3>2
    <3>4. Count(Append(q, Head(k)), Overdue) = Count(q, Overdue) + One(Head(k), Overdue)
      BY <3>3, CountAppend
    <3>5. Count(k, Overdue) = One(Head(k), Overdue) + Count(Tail(k), Overdue)
      BY <3>2, CountHead
    <3>6. /\ Count(q, Overdue) \in Nat /\ Count(Tail(k), Overdue) \in Nat
          /\ One(Head(k), Overdue) \in Nat
      BY <3>3, CountNat DEF One
    <3>7. /\ Expiries(s)' = Count(Append(q, Head(k)), Overdue) + Count(Tail(k), Overdue)
          /\ Expiries(s) = Count(q, Overdue) + Count(k, Overdue)
      BY <3>1, <3>2 DEF Expiries, Overdue, Expire
    <3> QED
      BY <2>2, <3>4, <3>5, <3>6, <3>7
  <2> QED
    BY <2>1, <2>2
<1> QED
  BY <1>1, <1>2, <1>3, QuietTimed

LEMMA ShutdownTimed ==
  ASSUME CallsInv, CallsInv', Timed, NEW s \in Sessions, Shutdown(s) PROVE Timed'
<1>1. /\ CallsTypeOK /\ CallsTypeOK' /\ UNCHANGED <<clock, engine, kept, fired>>
      /\ stage' = [stage EXCEPT ![s] = "closing"] /\ inbox' = [inbox EXCEPT ![s] = <<>>]
  BY DEF CallsInv, Shutdown
<1>2. Elsewhere(s) /\ ~Up(s)'
  BY <1>1, OneSession DEF Up, CallsTypeOK
<1>3. ASSUME NEW u \in Sessions PROVE Expiries(u)' <= Expiries(u)
  <2>1. inbox'[u] = inbox[u] \/ inbox'[u] = <<>>
    BY <1>1 DEF CallsTypeOK
  <2>2. Count(inbox[u], Overdue) \in Nat /\ Count(kept[u], Overdue) \in Nat /\ Count(<<>>, Overdue) = 0
    BY <1>1, ExpiriesNat, CountEmpty DEF Overdue
  <2>3. /\ Expiries(u)' = Count(inbox'[u], Overdue) + Count(kept[u], Overdue)
        /\ Expiries(u) = Count(inbox[u], Overdue) + Count(kept[u], Overdue)
    BY <1>1 DEF Expiries, Overdue, Expire
  <2> QED
    BY <2>1, <2>2, <2>3
<1> QED
  BY <1>1, <1>2, <1>3, QuietTimed

\* The timer fires once for a deadline, and each one is later than the last.
LEMMA FireDeadlineTimed ==
  ASSUME CallsInv, CallsInv', Timed, NEW s \in Sessions, FireDeadline(s) PROVE Timed'
<1>1. /\ CallsTypeOK /\ CallsTypeOK' /\ Brokered /\ Up(s) /\ Live(s)
      /\ UNCHANGED <<clock, stage, engine, kept, broker>>
      /\ broker[s].watch \notin {NoDeadline, fired[s]} /\ broker[s].watch <= clock
      /\ inbox' = Sent(inbox, s, Expire) /\ fired' = [fired EXCEPT ![s] = broker[s].watch]
  BY DEF CallsInv, FireDeadline, Up, Live
<1>2. PICK b : b = broker[s]
  OBVIOUS
<1>3. /\ b.deadlines \subseteq [at : Nat, of : {"call", "invocation"}, id : Nat]
      /\ b.watch = NextDeadline(b) /\ b.watch \in Nat
  BY <1>1, <1>2, BrokerOf, DeadlineFound DEF Fits, Good, Tracked
<1>4. /\ \A d \in b.deadlines : b.watch <= d.at
      /\ \E d \in b.deadlines : b.watch = d.at
  <2>1. b.deadlines # {}
    BY <1>1, <1>2, <1>3 DEF NextDeadline
  <2> QED
    BY <1>3, <2>1, DeadlineFound
<1>5. TimedAt(s) /\ engine[s] \in Nat /\ fired[s] \in Nat /\ clock \in Nat /\ Expiries(s) \in Nat
  BY <1>1, ExpiriesNat DEF Timed
<1>6. fired'[s] = b.watch /\ b.watch >= fired[s] + 1 /\ b.watch <= clock
  <2>1. \A d \in b.deadlines : d.at >= fired[s]
    BY <1>1, <1>2, <1>5 DEF TimedAt
  <2>2. fired'[s] = b.watch /\ b.watch # fired[s]
    BY <1>1, <1>2 DEF CallsTypeOK
  <2> QED
    BY <1>1, <1>2, <1>3, <1>4, <1>5, <2>1, <2>2
<1>7. Expiries(s)' = Expiries(s) + 1
  <2>1. PICK q \in Seq(Messages) : q = inbox[s]
    BY <1>1 DEF CallsTypeOK
  <2>2. Expire \in Messages
    BY DEF Messages
  <2>3. inbox'[s] = Append(q, Expire)
    BY <1>1, <2>1, <2>2, InboxSent
  <2>4. Count(Append(q, Expire), Overdue) = Count(q, Overdue) + One(Expire, Overdue)
    BY <2>2, CountAppend
  <2>5. One(Expire, Overdue) = 1 /\ Count(q, Overdue) \in Nat /\ Count(kept[s], Overdue) \in Nat
    BY <1>1, CountNat, ExpiriesNat DEF One, Overdue
  <2>6. /\ Expiries(s)' = Count(Append(q, Expire), Overdue) + Count(kept[s], Overdue)
        /\ Expiries(s) = Count(q, Overdue) + Count(kept[s], Overdue)
    BY <1>1, <2>1, <2>3 DEF Expiries, Overdue, Expire
  <2> QED
    BY <2>4, <2>5, <2>6
<1>8. TimedAt(s)'
  <2>1. PICK n \in Int : n = (engine[s] - 1) * clock
    BY <1>5
  <2>2. Expiries(s) <= n + fired[s]
    BY <1>5, <2>1 DEF TimedAt
  <2>3. Expiries(s)' <= n + fired'[s]
    BY <1>3, <1>5, <1>6, <1>7, <2>1, <2>2
  <2>4. Expiries(s)' <= (engine'[s] - 1) * clock' + fired'[s]
    BY <1>1, <2>1, <2>3
  <2>5. engine'[s] >= 1 /\ fired'[s] <= clock' /\ \A d \in broker'[s].deadlines : d.at >= fired'[s]
    BY <1>1, <1>2, <1>3, <1>4, <1>5, <1>6 DEF TimedAt
  <2> QED
    BY <2>4, <2>5 DEF TimedAt
<1>9. ASSUME NEW u \in Sessions, u # s PROVE TimedAt(u)'
  <2>1. Expire \in Messages
    BY DEF Messages
  <2>2. inbox'[u] = inbox[u] /\ fired'[u] = fired[u]
    BY <1>1, <1>9, <2>1, InboxSent DEF CallsTypeOK
  <2>3. TimedAt(u)
    BY DEF Timed
  <2> QED
    BY <1>1, <2>2, <2>3 DEF TimedAt, Expiries, Overdue, Expire, Up
<1> QED
  BY <1>8, <1>9 DEF Timed

\* A new engine starts with no deadline, and with an instant more to its credit.
LEMMA DroppedTimed ==
  ASSUME CallsInv, CallsInv', Timed, NEW s \in Sessions, DropEngine(s),
         UNCHANGED <<clock, inbox, kept>>, Elsewhere(s),
         \/ engine'[s] = engine[s] + 1
         \/ engine'[s] = engine[s] /\ Expiries(s) = 0
  PROVE  Timed'
<1>1. CallsTypeOK /\ CallsTypeOK' /\ Brokered
  BY DEF CallsInv
<1>2. /\ fired'[s] = 0 /\ broker'[s].deadlines = {}
      /\ \A u \in Sessions : u # s => fired'[u] = fired[u]
  BY <1>1, DropEngineForm
<1>3. \A u \in Sessions : Expiries(u)' = Expiries(u)
  BY DEF Expiries, Overdue, Expire
<1>4. TimedAt(s) /\ engine[s] \in Nat /\ fired[s] \in Nat /\ clock \in Nat /\ Expiries(s) \in Nat
  BY <1>1, ExpiriesNat DEF Timed
<1>5. Expiries(s) <= (engine'[s] - 1) * clock
  <2>1. PICK n \in Int : n = (engine[s] - 1) * clock
    BY <1>4
  <2>2. Expiries(s) <= n + fired[s] /\ fired[s] <= clock /\ engine[s] >= 1
    BY <1>4, <2>1 DEF TimedAt
  <2>3. CASE engine'[s] = engine[s] + 1
    <3>1. engine[s] * clock = n + clock
      BY <1>4, <2>1
    <3>2. (engine'[s] - 1) * clock = n + clock
      BY <1>4, <2>3, <3>1
    <3> QED
      BY <1>4, <2>1, <2>2, <3>2
  <2>4. CASE engine'[s] = engine[s] /\ Expiries(s) = 0
    <3>1. n >= 0
      BY <1>4, <2>1, <2>2
    <3> QED
      BY <1>4, <2>1, <2>4, <3>1
  <2> QED
    BY <2>3, <2>4
<1>6. TimedAt(s)'
  <2>1. Expiries(s)' <= (engine'[s] - 1) * clock' + fired'[s]
    <3>1. engine'[s] \in Nat
      BY <1>1 DEF CallsTypeOK
    <3>2. PICK n \in Int : n = (engine'[s] - 1) * clock
      BY <1>4, <3>1
    <3> QED
      BY <1>2, <1>3, <1>5, <3>2
  <2>2. engine'[s] >= 1 /\ fired'[s] <= clock'
    BY <1>2, <1>4 DEF TimedAt
  <2> QED
    BY <1>2, <2>1, <2>2 DEF TimedAt
<1>7. ASSUME NEW u \in Sessions, u # s PROVE TimedAt(u)'
  <2>1. TimedAt(u) /\ engine'[u] = engine[u] /\ fired'[u] = fired[u] /\ broker'[u] = broker[u]
        /\ (Up(u)' => Up(u)) /\ Expiries(u)' = Expiries(u)
    BY <1>2, <1>3, <1>7 DEF Timed, Elsewhere
  <2> QED
    BY <2>1 DEF TimedAt
<1> QED
  BY <1>6, <1>7 DEF Timed

LEMMA RebuildTimed ==
  ASSUME CallsInv, CallsInv', Timed, NEW s \in Sessions, Rebuild(s) \/ Ended(s) PROVE Timed'
<1>1. /\ CallsTypeOK /\ Staged /\ DropEngine(s) /\ UNCHANGED <<clock, inbox, kept>>
  BY DEF CallsInv, Rebuild, Ended
<1>2. Elsewhere(s)
  BY <1>1, OneSession DEF CallLoop
<1>3. CASE Rebuild(s)
  <2>1. engine'[s] = engine[s] + 1
    BY <1>1, <1>3 DEF Rebuild, CallsTypeOK
  <2> QED
    BY <1>1, <1>2, <2>1, DroppedTimed
<1>4. CASE Ended(s)
  <2>1. engine'[s] = engine[s] /\ inbox[s] = <<>> /\ kept[s] = <<>>
    BY <1>1, <1>4 DEF Ended, Staged, Live
  <2>2. Expiries(s) = 0
    BY <2>1, CountEmpty DEF Expiries, Overdue
  <2> QED
    BY <1>1, <1>2, <2>1, <2>2, DroppedTimed
<1> QED
  BY <1>3, <1>4

LEMMA TickTimed ==
  ASSUME CallsInv, Timed, Tick PROVE Timed'
<1>1. CallsTypeOK /\ clock' = clock + 1
      /\ UNCHANGED <<stage, engine, inbox, kept, broker, fired>>
  BY DEF CallsInv, Tick
<1> SUFFICES ASSUME NEW u \in Sessions PROVE TimedAt(u)'
  BY DEF Timed
<1>2. TimedAt(u) /\ engine[u] \in Nat /\ fired[u] \in Nat /\ clock \in Nat /\ Expiries(u) \in Nat
  BY <1>1, ExpiriesNat DEF Timed
<1>3. Expiries(u)' = Expiries(u)
  BY <1>1 DEF Expiries, Overdue, Expire
<1>4. PICK n \in Int : n = (engine[u] - 1) * clock
  BY <1>2
<1>5. engine[u] >= 1 /\ fired[u] <= clock /\ Expiries(u) <= n + fired[u]
  BY <1>2, <1>4 DEF TimedAt
<1>6. (engine[u] - 1) * (clock + 1) = n + (engine[u] - 1)
  BY <1>2, <1>4
<1>7. Expiries(u) <= (engine[u] - 1) * (clock + 1) + fired[u]
  BY <1>2, <1>4, <1>5, <1>6
<1>8. fired[u] <= clock + 1
  BY <1>2, <1>5
<1>9. Up(u)' => \A d \in broker'[u].deadlines : d.at >= fired'[u]
  BY <1>1, <1>2 DEF TimedAt, Up
<1> QED
  BY <1>1, <1>3, <1>5, <1>7, <1>8, <1>9 DEF TimedAt

LEMMA TimedNext ==
  ASSUME CallsAssumption, CallsInv, CallsInv', Timed, [CallsNext]_callVars PROVE Timed'
<1>1. CASE UNCHANGED callVars
  BY <1>1 DEF callVars, Timed, TimedAt, Expiries, Overdue, Expire, Up
<1>2. CASE Tick
  BY <1>2, TickTimed
<1>3. ASSUME NEW s \in Sessions, ExpireDone(s) PROVE Timed'
  <2>1. /\ CallsTypeOK /\ CallsTypeOK' /\ Up(s)
        /\ UNCHANGED <<clock, engine, inbox, kept, broker, fired>>
    BY <1>3 DEF CallsInv, ExpireDone, Up
  <2>2. \A u \in Sessions : Expiries(u)' = Expiries(u) /\ Expiries(u) \in Nat
    BY <2>1, ExpiriesNat DEF Expiries, Overdue, Expire
  <2>3. \A u \in Sessions : Expiries(u)' <= Expiries(u)
    BY <2>2
  <2>4. Elsewhere(s)
    BY <1>3, <2>1, OneSession DEF CallLoop
  <2> QED
    BY <2>1, <2>3, <2>4, QuietTimed
<1>4. ASSUME NEW s \in Sessions, RunHandler(s) PROVE Timed'
  BY <1>4, RunHandlerTimed
<1>5. ASSUME NEW s \in Sessions, PumpScripts(s) PROVE Timed'
  BY <1>5, PumpScriptsTimed
<1>6. ASSUME NEW s \in Sessions, Shutdown(s) PROVE Timed'
  BY <1>6, ShutdownTimed
<1>7. ASSUME NEW s \in Sessions, FireDeadline(s) PROVE Timed'
  BY <1>7, FireDeadlineTimed
<1>8. ASSUME NEW s \in Sessions, CallLoop(s) PROVE Timed'
  <2>1. CASE InvokeImplementation(s) BY <2>1, InvokeImplementationTimed
  <2>2. CASE ExpireOne(s) BY <2>2, ExpireOneTimed
  <2>3. CASE ExpireDone(s) BY <1>3, <2>3
  <2>4. CASE BeginReload(s) BY <2>4, BeginReloadTimed
  <2>5. CASE Requeue(s) BY <2>5, RequeueTimed
  <2>6. CASE ResetOne(s) BY <2>6, ResetOneTimed
  <2>7. CASE Rebuild(s) \/ Ended(s) BY <2>7, RebuildTimed
  <2> QED
    BY <1>8, <2>1, <2>2, <2>3, <2>4, <2>5, <2>6, <2>7, HandlersTimed DEF CallLoop
<1> QED
  BY <1>1, <1>2, <1>4, <1>5, <1>6, <1>7, <1>8 DEF CallsNext

\* No more expiries wait in a session's inbox than instants have passed, per
\* engine it has had: while one waits, the timer does not queue it again.
THEOREM ExpiriesKeptApart == CallsSpec => []ExpiriesBounded
<1>1. CallsAssumption /\ CallsInit => Timed
  <2> SUFFICES ASSUME CallsAssumption, CallsInit, NEW s \in Sessions PROVE TimedAt(s)
    BY DEF Timed
  <2>1. /\ clock = 0 /\ engine[s] = 1 /\ fired[s] = 0 /\ inbox[s] = <<>> /\ kept[s] = <<>>
        /\ broker[s].deadlines = {}
    BY NewBrokerGood DEF CallsInit, NoDeadline
  <2>2. Expiries(s) = 0
    BY <2>1, CountEmpty DEF Expiries, Overdue
  <2> QED
    BY <2>1, <2>2 DEF TimedAt
<1>2. CallsInv /\ CallsInv' /\ Timed /\ [CallsNext]_callVars => Timed'
  BY TimedNext, CallsAssumption
<1>3. CallsInv /\ Timed => ExpiriesBounded
  <2> SUFFICES ASSUME CallsInv, Timed, NEW s \in Sessions
               PROVE  Cardinality({i \in DOMAIN inbox[s] : inbox[s][i] = Expire}) <= clock * engine[s]
    BY DEF ExpiriesBounded
  <2>1. CallsTypeOK /\ TimedAt(s)
    BY DEF CallsInv, Timed
  <2>2. /\ Count(inbox[s], Overdue) \in Nat /\ Count(kept[s], Overdue) \in Nat
        /\ engine[s] \in Nat /\ fired[s] \in Nat /\ clock \in Nat
    BY <2>1, ExpiriesNat DEF Overdue
  <2>3. Cardinality({i \in DOMAIN inbox[s] : inbox[s][i] = Expire}) = Count(inbox[s], Overdue)
    <3>1. inbox[s] \in Seq(Messages)
      BY <2>1 DEF CallsTypeOK
    <3>2. {i \in DOMAIN inbox[s] : inbox[s][i] = Expire} = Hits(inbox[s], Overdue)
      BY <3>1 DEF Hits, Overdue
    <3> QED
      BY <3>2 DEF Count
  <2>4. PICK n \in Int : n = (engine[s] - 1) * clock
    BY <2>2
  <2>5. clock * engine[s] = n + clock
    BY <2>2, <2>4
  <2>6. Count(inbox[s], Overdue) + Count(kept[s], Overdue) <= n + fired[s] /\ fired[s] <= clock
    BY <2>1, <2>4 DEF TimedAt, Expiries
  <2> QED
    BY <2>2, <2>3, <2>4, <2>5, <2>6
<1> QED
  <2> HIDE DEF Timed, CallsInv
  <2> QED
    BY <1>1, <1>2, <1>3, CallsAssumption, CallsInvHolds, PTL DEF CallsSpec
===============================================================================
