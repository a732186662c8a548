------------------------------ MODULE MCSession ------------------------------
(***************************************************************************)
(* The session runtime's components, checked in one run.  A behaviour      *)
(* exercises one of them, chosen at the start; the others stay as they     *)
(* are, so the run has the states of each, and not of their product.       *)
(***************************************************************************)
EXTENDS ProcedureCalls, ProcedurePosts, RuntimeThreads, ConnectionLifecycle

CONSTANTS s1, s2,  \* two sessions
          t1, t2   \* two threads that start and join sessions

VARIABLE part

vars == <<callVars, postVars, threadVars, connVars, part>>

Each(x) == [s \in Sessions |-> x]
Peers == [s \in Sessions |-> Sessions \ {s}]
Three == Each(3)
One == Each(1)
TwoCalls == [e \in {"call", "disruption"} |-> IF e = "call" THEN 2 ELSE 1]
OneIdEach == [k \in {t1, t2} |-> IF k = t1 THEN {1} ELSE {2}]
TwoStarts == [j \in {"start", "wait", "fault"} |-> IF j = "start" THEN 2 ELSE 1]
TwoScripts == [k \in Kinds |-> IF k = "script" THEN 2 ELSE 1]

Init ==
  /\ CallsInit /\ PostsInit /\ ThreadsInit /\ ConnInit
  /\ part \in {"calls", "posts", "threads", "connection"}
  /\ daemon.auto \/ part = "connection"

Calls ==
  /\ part = "calls" /\ CallsNext
  /\ UNCHANGED <<postVars, threadVars, connVars, part>>
Bus ==
  /\ part = "posts" /\ PostsNext
  /\ UNCHANGED <<callVars, threadVars, connVars, part>>
Threads ==
  /\ part = "threads" /\ ThreadsNext
  /\ UNCHANGED <<callVars, postVars, connVars, part>>
Connection ==
  /\ part = "connection" /\ ConnNext
  /\ UNCHANGED <<callVars, postVars, threadVars, part>>

\* The fairness of the component the behaviour is about.
Fairness ==
  /\ WF_callVars(part = "calls" /\ Tick)
  /\ \A s \in Sessions :
       /\ WF_callVars(part = "calls" /\ CallLoop(s))
       /\ WF_callVars(part = "calls" /\ FireDeadline(s))
  /\ \A k \in Starters : WF_threadVars(part = "threads" /\ Proceed(k))
  /\ \A r \in Runs : WF_threadVars(part = "threads" /\ ThreadStep(r))
  /\ WF_connVars(part = "connection" /\ SessionThread)
  /\ WF_connVars(part = "connection" /\ Daemon)
  /\ \A g \in Attempts : WF_connVars(part = "connection" /\ Ends(g))

Spec == Init /\ [][Calls \/ Bus \/ Threads \/ Connection]_vars /\ Fairness
===============================================================================
