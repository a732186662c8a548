--------------------------- MODULE EditLedger_proofs ---------------------------
(***************************************************************************)
(* What EditLedger promises holds of every behaviour, for any edits, maps  *)
(* and accounts.  PendingQueue implements EditLedger, so these are the     *)
(* promises of the queue: no accepted edit is dropped, the service holds   *)
(* an edit once, in the order of its lane, and without gaps.               *)
(*                                                                         *)
(* The invariants lean on each other: Conserved is what makes Apply keep   *)
(* NoGaps (an earlier edit that is not open was applied or withdrawn), and *)
(* LogsHoldAccepted is what keeps a new edit out of every log.             *)
(***************************************************************************)
EXTENDS EditLedger, TLAPS

\* The log of a map holds edits of that map, made by someone.
LogsHoldAccepted ==
  \A m \in Maps : \A i \in DOMAIN ledger[m] :
    ledger[m][i] \in Accepted /\ MapOf[ledger[m][i]] = m

Inv == TypeOK /\ LogsHoldAccepted /\ Conserved /\ NoGaps /\ InOrder

-----------------------------------------------------------------------------
\* What a step leaves of the edits made before it: nobody takes one over, and
\* a map forgets none.
LEMMA AcceptedGrow ==
  ASSUME LedgerAssumption, TypeOK, [Next]_vars
  PROVE  \A o \in Accepted : o \in Accepted' /\ account'[o] = account[o]
<1>1. ASSUME NEW o \in Edits, NEW u \in Accounts, Accept(o, u)
      PROVE  \A p \in Accepted : p \in Accepted' /\ account'[p] = account[p]
  <2>1. o \notin Accepted
    BY <1>1 DEF Accept, LedgerAssumption, Accepted
  <2> QED
    BY <1>1, <2>1 DEF Accept, Accepted, TypeOK
<1>2. ASSUME UNCHANGED account
      PROVE  \A p \in Accepted : p \in Accepted' /\ account'[p] = account[p]
  BY <1>2 DEF Accepted
<1> QED
  BY <1>1, <1>2 DEF Next, Apply, Settle, Withdraw, vars

LEMMA AppliedGrow ==
  ASSUME LedgerAssumption, TypeOK, [Next]_vars, NEW o \in Edits, Applied(o)
  PROVE  Applied(o)'
<1>1. PICK i \in DOMAIN ledger[MapOf[o]] : ledger[MapOf[o]][i] = o
  BY DEF Applied
<1>2. MapOf[o] \in Maps
  BY DEF LedgerAssumption
<1>3. ASSUME NEW p \in Edits, Apply(p) PROVE Applied(o)'
  <2>1. ledger[MapOf[o]] \in Seq(Edits) /\ MapOf[p] \in Maps
    BY <1>2 DEF TypeOK, LedgerAssumption
  <2>2. /\ i \in DOMAIN ledger'[MapOf[o]]
        /\ ledger'[MapOf[o]][i] = o
    BY <1>1, <1>2, <1>3, <2>1 DEF Apply, TypeOK
  <2> QED
    BY <2>2 DEF Applied
<1>4. ASSUME UNCHANGED ledger PROVE Applied(o)'
  BY <1>4 DEF Applied
<1> QED
  BY <1>3, <1>4 DEF Next, Accept, Settle, Withdraw, vars

-----------------------------------------------------------------------------
LEMMA TypeStep ==
  ASSUME LedgerAssumption, TypeOK, [Next]_vars
  PROVE  TypeOK'
<1>1. ASSUME NEW o \in Edits, Apply(o) PROVE TypeOK'
  BY <1>1 DEF TypeOK, Apply, Accepted, LedgerAssumption
<1>2. ASSUME NEW o \in Edits, Settle(o) PROVE TypeOK'
  BY <1>2 DEF TypeOK, Settle, Accepted
<1>3. ASSUME NEW o \in Edits, NEW u \in Accounts, Accept(o, u) PROVE TypeOK'
  BY <1>3 DEF TypeOK, Accept, Accepted, LedgerAssumption
<1>4. ASSUME NEW S \in SUBSET Edits, Withdraw(S) PROVE TypeOK'
  BY <1>4 DEF TypeOK, Withdraw, Accepted
<1>5. CASE UNCHANGED vars
  BY <1>5 DEF TypeOK, vars, Accepted
<1> QED
  BY <1>1, <1>2, <1>3, <1>4, <1>5 DEF Next

LEMMA LogsStep ==
  ASSUME LedgerAssumption, TypeOK, LogsHoldAccepted, [Next]_vars
  PROVE  LogsHoldAccepted'
<1>1. \A p \in Accepted : p \in Accepted'
  BY AcceptedGrow
<1>2. ASSUME NEW o \in Edits, Apply(o) PROVE LogsHoldAccepted'
  <2> SUFFICES ASSUME NEW m \in Maps, NEW i \in DOMAIN ledger'[m]
               PROVE  ledger'[m][i] \in Accepted' /\ MapOf[ledger'[m][i]] = m
    BY DEF LogsHoldAccepted
  <2>1. ledger[m] \in Seq(Edits) /\ o \in Accepted
    BY <1>2 DEF TypeOK, Apply
  <2>2. CASE m # MapOf[o]
    BY <1>1, <1>2, <2>2 DEF Apply, LogsHoldAccepted, TypeOK
  <2>3. CASE m = MapOf[o]
    <3>1. ledger'[m] = Append(ledger[m], o)
      BY <1>2, <2>3 DEF Apply, TypeOK
    <3>2. CASE i = Len(ledger[m]) + 1
      BY <1>1, <2>1, <2>3, <3>1, <3>2
    <3>3. CASE i # Len(ledger[m]) + 1
      <4>1. i \in DOMAIN ledger[m] /\ ledger'[m][i] = ledger[m][i]
        BY <2>1, <3>1, <3>3
      <4> QED
        BY <1>1, <4>1 DEF LogsHoldAccepted
    <3> QED
      BY <3>2, <3>3
  <2> QED
    BY <2>2, <2>3
<1>3. ASSUME UNCHANGED ledger PROVE LogsHoldAccepted'
  BY <1>1, <1>3 DEF LogsHoldAccepted
<1> QED
  BY <1>2, <1>3 DEF Next, Accept, Settle, Withdraw, vars

LEMMA ConservedStep ==
  ASSUME LedgerAssumption, TypeOK, Conserved, [Next]_vars
  PROVE  Conserved'
<1>1. \A p \in Edits : Applied(p) => Applied(p)'
  BY AppliedGrow
<1>2. ASSUME NEW o \in Edits, Apply(o) PROVE Conserved'
  BY <1>1, <1>2 DEF Conserved, Apply, Accepted
<1>3. ASSUME NEW o \in Edits, Settle(o) PROVE Conserved'
  BY <1>1, <1>3 DEF Conserved, Settle, Accepted
<1>4. ASSUME NEW o \in Edits, NEW u \in Accounts, Accept(o, u) PROVE Conserved'
  BY <1>1, <1>4 DEF Conserved, Accept, Accepted, TypeOK
<1>5. ASSUME NEW S \in SUBSET Edits, Withdraw(S) PROVE Conserved'
  BY <1>1, <1>5 DEF Conserved, Withdraw, Accepted
<1>6. CASE UNCHANGED vars
  BY <1>1, <1>6 DEF Conserved, vars, Accepted
<1> QED
  BY <1>2, <1>3, <1>4, <1>5, <1>6 DEF Next

-----------------------------------------------------------------------------
LEMMA GapsStep ==
  ASSUME LedgerAssumption, TypeOK, LogsHoldAccepted, Conserved, NoGaps, [Next]_vars
  PROVE  NoGaps'
<1> SUFFICES ASSUME NEW o \in Accepted', NEW p \in Accepted',
                    Applied(o)', p < o, Lane(p)' = Lane(o)'
             PROVE  Applied(p)' \/ p \in withdrawn'
  BY DEF NoGaps
<1>0. o \in Edits /\ p \in Edits
  BY DEF Accepted
<1>1. /\ \A q \in Edits : Applied(q) => Applied(q)'
      /\ withdrawn \subseteq withdrawn'
  BY AppliedGrow DEF Next, Apply, Accept, Settle, Withdraw, vars
<1>2. ASSUME NEW a \in Edits, Apply(a) PROVE Applied(p)' \/ p \in withdrawn'
  <2>1. o \in Accepted /\ p \in Accepted /\ Lane(p) = Lane(o)
    BY <1>2 DEF Apply, Accepted, Lane
  <2>2. CASE Applied(o)
    BY <1>0, <1>1, <2>1, <2>2 DEF NoGaps
  <2>3. CASE ~Applied(o)
    <3>1. o = a
      <4>1. PICK i \in DOMAIN ledger'[MapOf[o]] : ledger'[MapOf[o]][i] = o
        BY DEF Applied
      <4>2. ledger[MapOf[o]] \in Seq(Edits)
        BY <1>0 DEF TypeOK, LedgerAssumption
      <4>3. CASE MapOf[o] # MapOf[a]
        BY <1>0, <1>2, <2>3, <4>1, <4>3 DEF Apply, Applied, TypeOK, LedgerAssumption
      <4>4. CASE MapOf[o] = MapOf[a]
        <5>1. ledger'[MapOf[o]] = Append(ledger[MapOf[o]], a)
          BY <1>0, <1>2, <4>4 DEF Apply, TypeOK, LedgerAssumption
        <5>2. i = Len(ledger[MapOf[o]]) + 1
          BY <2>3, <4>1, <4>2, <5>1 DEF Applied
        <5> QED
          BY <4>1, <4>2, <5>1, <5>2
      <4> QED
        BY <4>3, <4>4
    <3>2. p \notin open
      BY <1>0, <1>2, <2>1, <3>1 DEF Apply, LedgerAssumption
    <3> QED
      BY <1>0, <1>1, <2>1, <3>2 DEF Conserved
  <2> QED
    BY <2>2, <2>3
<1>3. ASSUME NEW a \in Edits, NEW u \in Accounts, Accept(a, u)
      PROVE  Applied(p)' \/ p \in withdrawn'
  <2>1. Applied(o)
    BY <1>3 DEF Accept, Applied
  <2>2. o \in Accepted
    <3>1. MapOf[o] \in Maps
      BY <1>0 DEF LedgerAssumption
    <3>2. PICK i \in DOMAIN ledger[MapOf[o]] : ledger[MapOf[o]][i] = o
      BY <2>1 DEF Applied
    <3> QED
      BY <3>1, <3>2 DEF LogsHoldAccepted
  <2>3. o < a
    BY <1>3, <2>2 DEF Accept
  <2>4. p # a /\ o # a
    BY <1>0, <2>3 DEF LedgerAssumption
  <2>5. p \in Accepted /\ Lane(p) = Lane(o)
    BY <1>0, <1>3, <2>4 DEF Accept, Accepted, Lane, TypeOK
  <2> QED
    BY <1>0, <1>1, <2>1, <2>2, <2>5 DEF NoGaps
<1>4. ASSUME UNCHANGED << account, ledger >> PROVE Applied(p)' \/ p \in withdrawn'
  <2>1. o \in Accepted /\ p \in Accepted /\ Lane(p) = Lane(o) /\ Applied(o)
    BY <1>4 DEF Accepted, Lane, Applied
  <2> QED
    BY <1>0, <1>1, <2>1 DEF NoGaps
<1> QED
  BY <1>2, <1>3, <1>4 DEF Next, Settle, Withdraw, vars

LEMMA OrderStep ==
  ASSUME LedgerAssumption, TypeOK, LogsHoldAccepted, InOrder, [Next]_vars
  PROVE  InOrder'
<1>1. \A p \in Accepted : account'[p] = account[p]
  BY AcceptedGrow
<1> SUFFICES ASSUME NEW m \in Maps,
                    NEW i \in DOMAIN ledger'[m], NEW j \in DOMAIN ledger'[m],
                    i < j, Lane(ledger[m][i])' = Lane(ledger[m][j])'
             PROVE  ledger'[m][i] < ledger'[m][j]
  BY DEF InOrder, Lane
<1>2. ledger[m] \in Seq(Edits)
  BY DEF TypeOK
<1>3. ASSUME i \in DOMAIN ledger[m], j \in DOMAIN ledger[m],
             ledger'[m][i] = ledger[m][i], ledger'[m][j] = ledger[m][j]
      PROVE  ledger'[m][i] < ledger'[m][j]
  <2>1. Lane(ledger[m][i]) = Lane(ledger[m][j])
    BY <1>1, <1>3 DEF Lane, LogsHoldAccepted
  <2> QED
    BY <1>3, <2>1 DEF InOrder
<1>4. ASSUME NEW o \in Edits, Apply(o) PROVE ledger'[m][i] < ledger'[m][j]
  <2>1. CASE m # MapOf[o]
    BY <1>3, <1>4, <2>1 DEF Apply, TypeOK
  <2>2. CASE m = MapOf[o]
    <3>1. ledger'[m] = Append(ledger[m], o)
      BY <1>4, <2>2 DEF Apply, TypeOK
    <3>2. CASE j = Len(ledger[m]) + 1
      <4>1. i \in DOMAIN ledger[m] /\ ledger'[m][i] = ledger[m][i] /\ ledger'[m][j] = o
        BY <1>2, <3>1, <3>2
      <4>2. /\ ledger[m][i] \in Accepted /\ ledger[m][i] \in Edits
            /\ MapOf[ledger[m][i]] = m
        BY <1>2, <4>1 DEF LogsHoldAccepted, Accepted
      <4>3. Lane(ledger[m][i]) = Lane(o) /\ Applied(ledger[m][i])
        <5>1. o \in Accepted
          BY <1>4 DEF Apply
        <5> QED
          BY <1>1, <2>2, <4>1, <4>2, <5>1 DEF Lane, Applied
      <4> QED
        BY <1>4, <4>1, <4>2, <4>3 DEF Apply
    <3>3. CASE j # Len(ledger[m]) + 1
      <4>1. /\ i \in DOMAIN ledger[m] /\ ledger'[m][i] = ledger[m][i]
            /\ j \in DOMAIN ledger[m] /\ ledger'[m][j] = ledger[m][j]
        BY <1>2, <3>1, <3>3
      <4> QED
        BY <1>3, <4>1
    <3> QED
      BY <3>2, <3>3
  <2> QED
    BY <2>1, <2>2
<1>5. ASSUME UNCHANGED ledger PROVE ledger'[m][i] < ledger'[m][j]
  BY <1>3, <1>5
<1> QED
  BY <1>4, <1>5 DEF Next, Accept, Settle, Withdraw, vars

-----------------------------------------------------------------------------
\* Every behaviour of the ledger drops no accepted edit, applies an edit at
\* most once, in the order of its lane, and never past a gap.
THEOREM LedgerKeepsItsPromises ==
  ASSUME LedgerAssumption
  PROVE  Spec => [](TypeOK /\ Conserved /\ NoGaps /\ InOrder)
<1>1. Init => Inv
  BY DEF Init, Inv, TypeOK, LogsHoldAccepted, Conserved, NoGaps, InOrder, Accepted,
         Applied, LedgerAssumption
<1>2. Inv /\ [Next]_vars => Inv'
  BY TypeStep, LogsStep, ConservedStep, GapsStep, OrderStep DEF Inv
<1>3. Inv => TypeOK /\ Conserved /\ NoGaps /\ InOrder
  BY DEF Inv
<1> QED
  BY <1>1, <1>2, <1>3, PTL DEF Spec
================================================================================
