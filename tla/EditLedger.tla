------------------------------ MODULE EditLedger ------------------------------
(***************************************************************************)
(* What the pending-edit queue promises of an edit made in a cloud map,    *)
(* with no phase, revision, request, credential or crash in sight.  An     *)
(* edit is accepted once, on behalf of one account and in the order of the *)
(* editor; it stays open until it is settled, which takes its application  *)
(* by the service, or withdrawn by a user; the service applies it at most  *)
(* once, and never ahead of an open edit of the same account in the same   *)
(* map.  PendingQueue is shown to implement this.                          *)
(***************************************************************************)
EXTENDS Integers, Sequences

CONSTANTS Edits, Maps, MapOf, Accounts, NoAccount

LedgerAssumption ==
  /\ Edits \subseteq Int
  /\ MapOf \in [Edits -> Maps]
  /\ NoAccount \notin Accounts

VARIABLES
  account,                  \* who made each edit; NoAccount before it is made
  open,                     \* edits the client still answers for
  withdrawn,                \* edits a user let go
  ledger                    \* ledger[m]: the edits map m holds, in order

vars == << account, open, withdrawn, ledger >>

Accepted == { o \in Edits : account[o] # NoAccount }
Lane(o) == << MapOf[o], account[o] >>
Applied(o) == \E i \in DOMAIN ledger[MapOf[o]] : ledger[MapOf[o]][i] = o

Init ==
  /\ account = [o \in Edits |-> NoAccount]
  /\ open = {} /\ withdrawn = {}
  /\ ledger = [m \in Maps |-> << >>]

Accept(o, u) ==
  /\ \A p \in Accepted : p < o
  /\ account' = [account EXCEPT ![o] = u]
  /\ open' = open \cup {o}
  /\ UNCHANGED << withdrawn, ledger >>

\* A request that outlives its withdrawal may still be applied.
Apply(o) ==
  LET m == MapOf[o] IN
  /\ o \in Accepted /\ ~Applied(o)
  /\ \A p \in Accepted : Lane(p) = Lane(o) /\ Applied(p) => p < o
  /\ \A p \in open : Lane(p) = Lane(o) => p >= o
  /\ ledger' = [ledger EXCEPT ![m] = Append(@, o)]
  /\ UNCHANGED << account, open, withdrawn >>

Settle(o) ==
  /\ o \in open /\ Applied(o)
  /\ open' = open \ {o}
  /\ UNCHANGED << account, withdrawn, ledger >>

Withdraw(S) ==
  /\ S \subseteq open
  /\ open' = open \ S
  /\ withdrawn' = withdrawn \cup S
  /\ UNCHANGED << account, ledger >>

Next ==
  \/ \E o \in Edits : Apply(o) \/ Settle(o) \/ \E u \in Accounts : Accept(o, u)
  \/ \E S \in SUBSET Edits : Withdraw(S)

Spec == Init /\ [][Next]_vars

-----------------------------------------------------------------------------
TypeOK ==
  /\ account \in [Edits -> Accounts \cup {NoAccount}]
  /\ open \in SUBSET Accepted
  /\ withdrawn \in SUBSET Accepted
  /\ ledger \in [Maps -> Seq(Edits)]

\* An accepted edit is open, applied or withdrawn: none is dropped.
Conserved ==
  \A o \in Accepted : o \in open \/ Applied(o) \/ o \in withdrawn

\* An applied edit has no gap before it: every earlier edit of its lane was
\* applied before it, or withdrawn.
NoGaps ==
  \A o, p \in Accepted :
    Applied(o) /\ p < o /\ Lane(p) = Lane(o) => Applied(p) \/ p \in withdrawn

\* A map holds an edit once, and the edits of a lane in the order of the editor.
InOrder ==
  \A m \in Maps : \A i, j \in DOMAIN ledger[m] :
    i < j /\ Lane(ledger[m][i]) = Lane(ledger[m][j]) => ledger[m][i] < ledger[m][j]
=============================================================================
