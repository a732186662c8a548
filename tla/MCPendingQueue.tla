---------------------------- MODULE MCPendingQueue ----------------------------
(***************************************************************************)
(* Small instances of PendingQueue.  A budget says how often each event of *)
(* the environment may happen in a behaviour; an event it does not name    *)
(* never happens.                                                          *)
(***************************************************************************)
EXTENDS PendingQueue

Quiet == [e \in Events |-> 0]
Budgeted(events) == [e \in Events |-> IF e \in events THEN 1 ELSE 0]

ConflictEvents == [Budgeted({"foreign", "timeout", "mine"}) EXCEPT !["foreign"] = 2]
CrashEvents ==
  [Budgeted({"crash", "timeout", "outage", "ackfail", "discard", "sync"})
     EXCEPT !["ackfail"] = 2]
DeletionEvents ==
  [Budgeted({"delete", "crash", "vanish", "timeout", "upgrade", "held"})
     EXCEPT !["delete"] = 2, !["vanish"] = 2]
ReviewEvents ==
  Budgeted({"refused", "cancel", "discard", "retry", "theirs", "foreign", "timeout"})

KeepTheirsEvents == Budgeted({"foreign", "theirs"})
RowEvents == Budgeted({"foreign", "sync"})
DeleteSyncEvents == Budgeted({"delete", "sync"})
RestartEvents == Budgeted({"crash"})
CancelEvents == Budgeted({"cancel"})

CloudMap == CHOOSE a \in CloudAreas : TRUE

\* Every edit in the cloud map; or the second one in the session map.
OneMap == [o \in Ops |-> CloudMap]
TwoMaps ==
  [o \in Ops |-> IF o = 2 THEN CHOOSE a \in SessionAreas : TRUE ELSE CloudMap]

\* Independent edits; or the third one building upon the first.
Independent == [o \in Ops |-> {}]
Chained == [o \in Ops |-> IF o = 3 THEN {1} ELSE {}]

\* Every sign-in of one account; or each of its own.
OneAccount == [g \in Gens |-> 1]
ManyAccounts == [g \in Gens |-> g]
===============================================================================
