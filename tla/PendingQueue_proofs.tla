-------------------------- MODULE PendingQueue_proofs --------------------------
(***************************************************************************)
(* Three parts.  First the operators of AreaQueue, for any number of       *)
(* edits: every transition of an area keeps its type, and what it does to  *)
(* the order of the queue, to the phase and to the deferred review.        *)
(*                                                                         *)
(* Then type correctness of PendingQueue, for any maps, edits, credentials *)
(* and budgets.  TypeOK alone is not inductive: a verdict, an adopted      *)
(* document or a delete's answer is filed under the map its task has in    *)
(* hand, so the invariant also says (InHand) that a task in such a state   *)
(* has one.  One lemma per action; each proves the parts of TypeOK the     *)
(* action can disturb, and its last step covers the rest.                  *)
(*                                                                         *)
(* Then safety.  None of the properties is inductive; each section         *)
(* strengthens what the sections before it have, over type correctness     *)
(* (Typed):                                                                *)
(*                                                                         *)
(*   Own       a message takes its credential from gen, gen from the       *)
(*             engine's tick when a journal is activated, and what is      *)
(*             activated was read in an earlier step: Own states what each *)
(*             hands to the next (EditsKeepTheirAccount);                  *)
(*   Arranged  a queue holds edits of its own map, once, in the order they *)
(*             were made, and the phase names an edit of the queue;        *)
(*   Flight    the edit in flight is the head of its queue, of the active  *)
(*             account, and in the worker's hand; an answer says what the  *)
(*             service did with it (PhasesAreOwned);                       *)
(*   Counted   every queued edit is accounted for, once (MarksAreExact).   *)
(*                                                                         *)
(* One lemma per actor for each, with Init and the whole step at the end.  *)
(***************************************************************************)
EXTENDS PendingQueue, FiniteSetTheorems, SequenceTheorems, TLAPS

\* Every nonempty set of natural numbers has a least element.
LEMMA LeastOf ==
  ASSUME NEW T, T \subseteq Nat, T # {}
  PROVE  \E m \in T : \A n \in T : m <= n
<1>1. IsWellFoundedOn(OpToRel(<, Nat), Nat)
  BY NatLessThanWellFounded
<1>2. PICK m \in T : \A n \in T : ~ (<< n, m >> \in OpToRel(<, Nat))
  BY <1>1, WFMin
<1>3. \A n \in T : ~ (n < m)
  BY <1>2 DEF OpToRel
<1> QED
  BY <1>3

-----------------------------------------------------------------------------
\* Queues.

LEMMA QueuedType ==
  ASSUME NEW area \in AreaType
  PROVE  /\ area.queue \in Seq(Ops)
         /\ Queued(area) \in SUBSET Ops
         /\ HeadOp(area) \in Ops \cup {NoOp}
         /\ area.queue # << >> => HeadOp(area) \in Queued(area)
  BY QueueAssumption DEF AreaType, Queued, HeadOp, Ops, NoOp

LEMMA PopType ==
  ASSUME NEW q \in Seq(Ops)
  PROVE  /\ Pop(q) \in Seq(Ops)
         /\ \A i \in DOMAIN Pop(q) : i + 1 \in DOMAIN q /\ Pop(q)[i] = q[i + 1]
<1>1. Len(q) \in Nat /\ \A i \in 2..Len(q) : q[i] \in Ops
  OBVIOUS
<1>2. /\ SubSeq(q, 2, Len(q)) \in Seq(Ops)
      /\ Len(SubSeq(q, 2, Len(q))) = IF 2 <= Len(q) THEN Len(q) - 2 + 1 ELSE 0
      /\ \A i \in 1 .. Len(q) - 2 + 1 : SubSeq(q, 2, Len(q))[i] = q[2 + i - 1]
  BY <1>1, SubSeqProperties
<1> QED
  BY <1>1, <1>2 DEF Pop

LEMMA RemoveType ==
  ASSUME NEW q \in Seq(Ops), NEW o
  PROVE  /\ Remove(q, o) \in Seq(Ops)
         /\ \A i \in DOMAIN Remove(q, o) : \E j \in DOMAIN q : Remove(q, o)[i] = q[j]
<1>1. CASE ~ \E i \in 1..Len(q) : q[i] = o
  <2>1. Remove(q, o) = q
    BY <1>1 DEF Remove
  <2> QED
    BY <2>1
<1>2. CASE \E i \in 1..Len(q) : q[i] = o
  <2> DEFINE k == CHOOSE i \in 1..Len(q) : q[i] = o
             s == SubSeq(q, 1, k - 1)
             t == SubSeq(q, k + 1, Len(q))
  <2>1. k \in 1..Len(q) /\ Len(q) \in Nat
    BY <1>2
  <2>2. Remove(q, o) = s \o t
    BY <1>2 DEF Remove
  <2> HIDE DEF k
  <2>3. /\ s \in Seq(Ops)
        /\ Len(s) = IF 1 <= k - 1 THEN k - 1 - 1 + 1 ELSE 0
        /\ \A i \in 1 .. k - 1 - 1 + 1 : s[i] = q[1 + i - 1]
    <3>1. \A i \in 1 .. k - 1 : q[i] \in Ops
      BY <2>1
    <3> QED
      BY <2>1, <3>1, SubSeqProperties
  <2>4. /\ t \in Seq(Ops)
        /\ Len(t) = IF k + 1 <= Len(q) THEN Len(q) - (k + 1) + 1 ELSE 0
        /\ \A i \in 1 .. Len(q) - (k + 1) + 1 : t[i] = q[k + 1 + i - 1]
    <3>1. \A i \in k + 1 .. Len(q) : q[i] \in Ops
      BY <2>1
    <3> QED
      BY <2>1, <3>1, SubSeqProperties
  <2> HIDE DEF s, t
  <2>5. /\ s \o t \in Seq(Ops)
        /\ Len(s \o t) = Len(s) + Len(t)
        /\ \A i \in 1 .. Len(s) + Len(t) :
             (s \o t)[i] = IF i <= Len(s) THEN s[i] ELSE t[i - Len(s)]
    BY <2>3, <2>4, ConcatProperties
  <2>6. ASSUME NEW i \in DOMAIN (s \o t)
        PROVE  \E j \in DOMAIN q : (s \o t)[i] = q[j]
    <3>1. i \in 1 .. Len(s) + Len(t)
      BY <2>5
    <3>2. CASE i <= Len(s)
      <4>1. (s \o t)[i] = s[i]
        BY <2>5, <3>1, <3>2
      <4>2. i \in 1 .. k - 1 - 1 + 1
        BY <2>1, <2>3, <3>1, <3>2
      <4>3. s[i] = q[i] /\ i \in DOMAIN q
        BY <2>1, <2>3, <4>2
      <4> QED
        BY <4>1, <4>3
    <3>3. CASE ~ (i <= Len(s))
      <4>1. i - Len(s) \in 1 .. Len(q) - (k + 1) + 1
        BY <2>1, <2>3, <2>4, <3>1, <3>3
      <4> DEFINE j == k + 1 + (i - Len(s)) - 1
      <4>2. (s \o t)[i] = q[j]
        BY <2>4, <2>5, <3>1, <3>3, <4>1
      <4>3. j \in DOMAIN q
        BY <2>1, <2>3, <4>1
      <4> HIDE DEF j
      <4> QED
        BY <4>2, <4>3
    <3> QED
      BY <3>2, <3>3
  <2> QED
    BY <2>2, <2>5, <2>6
<1> QED
  BY <1>1, <1>2

LEMMA RemovePositions ==
  ASSUME NEW q \in Seq(Ops), NEW o, \E i \in 1..Len(q) : q[i] = o
  PROVE  \E k \in 1..Len(q) :
           /\ q[k] = o
           /\ Len(Remove(q, o)) = Len(q) - 1
           /\ \A i \in 1..(Len(q) - 1) :
                Remove(q, o)[i] = IF i < k THEN q[i] ELSE q[i + 1]
<1> DEFINE k == CHOOSE i \in 1..Len(q) : q[i] = o
           s == SubSeq(q, 1, k - 1)
           t == SubSeq(q, k + 1, Len(q))
<1>1. k \in 1..Len(q) /\ q[k] = o /\ Len(q) \in Nat
  OBVIOUS
<1>2. Remove(q, o) = s \o t
  BY DEF Remove
<1> HIDE DEF k
<1>3. /\ s \in Seq(Ops) /\ Len(s) = k - 1
      /\ \A i \in 1..(k - 1) : s[i] = q[i]
  <2>1. \A i \in 1..(k - 1) : q[i] \in Ops
    BY <1>1
  <2>2. /\ s \in Seq(Ops)
        /\ Len(s) = IF 1 <= k - 1 THEN k - 1 - 1 + 1 ELSE 0
        /\ \A i \in 1..(k - 1 - 1 + 1) : s[i] = q[1 + i - 1]
    BY <1>1, <2>1, SubSeqProperties
  <2> QED
    BY <1>1, <2>2
<1>4. /\ t \in Seq(Ops) /\ Len(t) = Len(q) - k
      /\ \A i \in 1..(Len(q) - k) : t[i] = q[k + i]
  <2>1. \A i \in (k + 1)..Len(q) : q[i] \in Ops
    BY <1>1
  <2>2. /\ t \in Seq(Ops)
        /\ Len(t) = IF k + 1 <= Len(q) THEN Len(q) - (k + 1) + 1 ELSE 0
        /\ \A i \in 1..(Len(q) - (k + 1) + 1) : t[i] = q[k + 1 + i - 1]
    BY <1>1, <2>1, SubSeqProperties
  <2> QED
    BY <1>1, <2>2
<1> HIDE DEF s, t
<1>5. /\ Len(s \o t) = Len(s) + Len(t)
      /\ \A i \in 1..(Len(s) + Len(t)) :
           (s \o t)[i] = IF i <= Len(s) THEN s[i] ELSE t[i - Len(s)]
  BY <1>3, <1>4, ConcatProperties
<1>6. Len(s) + Len(t) = Len(q) - 1
  BY <1>1, <1>3, <1>4
<1>7. ASSUME NEW i \in 1..(Len(q) - 1)
      PROVE  (s \o t)[i] = IF i < k THEN q[i] ELSE q[i + 1]
  <2>1. CASE i < k
    BY <1>1, <1>3, <1>5, <1>6, <2>1
  <2>2. CASE ~ (i < k)
    <3>1. i - Len(s) \in 1..(Len(q) - k) /\ k + (i - Len(s)) = i + 1 /\ ~ (i <= Len(s))
      BY <1>1, <1>3, <2>2
    <3>2. (s \o t)[i] = t[i - Len(s)]
      BY <1>5, <1>6, <3>1
    <3> QED
      BY <1>4, <2>2, <3>1, <3>2
  <2> QED
    BY <2>1, <2>2
<1> QED
  BY <1>1, <1>2, <1>5, <1>6, <1>7

\* Sorted: the queue holds its edits in the order they were made.
Members(q) == { q[i] : i \in 1..Len(q) }
Sorted(q) == \A i, j \in 1..Len(q) : i < j => q[i] < q[j]

LEMMA SortedOnce ==
  ASSUME NEW q \in Seq(Ops), Sorted(q)
  PROVE  \A i, j \in 1..Len(q) : q[i] = q[j] => i = j
<1> SUFFICES ASSUME NEW i \in 1..Len(q), NEW j \in 1..Len(q), q[i] = q[j], i # j
             PROVE  FALSE
  OBVIOUS
<1>1. q[i] \in Int /\ q[j] \in Int
  <2>1. q[i] \in Ops /\ q[j] \in Ops
    OBVIOUS
  <2> QED
    BY <2>1 DEF Ops
<1>2. i < j \/ j < i
  OBVIOUS
<1> QED
  BY <1>1, <1>2 DEF Sorted

LEMMA RemoveSorted ==
  ASSUME NEW q \in Seq(Ops), NEW o, Sorted(q)
  PROVE  /\ Sorted(Remove(q, o))
         /\ Members(Remove(q, o)) = Members(q) \ {o}
         /\ o \in Members(q) => Len(Remove(q, o)) = Len(q) - 1
<1> DEFINE r == Remove(q, o)
<1>1. CASE o \notin Members(q)
  <2>1. r = q
    BY <1>1 DEF Remove, Members
  <2> QED
    BY <1>1, <2>1
<1>2. CASE o \in Members(q)
  <2>1. PICK k \in 1..Len(q) :
           /\ q[k] = o
           /\ Len(r) = Len(q) - 1
           /\ \A i \in 1..(Len(q) - 1) : r[i] = IF i < k THEN q[i] ELSE q[i + 1]
    BY <1>2, RemovePositions DEF Members
  <2> HIDE DEF r
  <2>2. Len(q) \in Nat
    OBVIOUS
  <2> DEFINE at(i) == IF i < k THEN i ELSE i + 1
  <2>3. \A i \in 1..Len(r) : at(i) \in 1..Len(q) /\ at(i) # k /\ r[i] = q[at(i)]
    BY <2>1, <2>2
  <2>4. \A i, j \in 1..Len(r) : i < j => at(i) < at(j)
    BY <2>1, <2>2
  <2>5. ASSUME NEW m \in 1..Len(q), m # k
        PROVE  \E i \in 1..Len(r) : at(i) = m
    <3>1. CASE m < k
      <4>1. m \in 1..Len(r) /\ at(m) = m
        BY <2>1, <2>2, <3>1
      <4> QED
        BY <4>1
    <3>2. CASE m > k
      <4>1. m - 1 \in 1..Len(r) /\ at(m - 1) = m
        BY <2>1, <2>2, <3>2
      <4> QED
        BY <4>1
    <3> QED
      BY <2>5, <3>1, <3>2
  <2> HIDE DEF at
  <2>6. Sorted(r)
    BY <2>3, <2>4 DEF Sorted
  <2>7. Members(r) = Members(q) \ {o}
    <3>1. ASSUME NEW x \in Members(r) PROVE x \in Members(q) \ {o}
      <4>1. PICK i \in 1..Len(r) : x = r[i]
        BY DEF Members
      <4>2. at(i) \in 1..Len(q) /\ at(i) # k /\ x = q[at(i)]
        BY <2>3, <4>1
      <4>3. x # o
        BY <2>1, <4>2, SortedOnce
      <4> QED
        BY <4>2, <4>3 DEF Members
    <3>2. ASSUME NEW x \in Members(q) \ {o} PROVE x \in Members(r)
      <4>1. PICK m \in 1..Len(q) : x = q[m] /\ m # k
        BY <2>1 DEF Members
      <4>2. PICK i \in 1..Len(r) : at(i) = m
        BY <2>5, <4>1
      <4> QED
        BY <2>3, <4>1, <4>2 DEF Members
    <3> QED
      BY <3>1, <3>2
  <2> QED
    BY <2>1, <2>6, <2>7 DEF r
<1> QED
  BY <1>1, <1>2

\* The head stays when another edit leaves.
LEMMA RemoveFollower ==
  ASSUME NEW q \in Seq(Ops), NEW o, q # << >>, q[1] # o
  PROVE  Remove(q, o) # << >> /\ Remove(q, o)[1] = q[1]
<1>1. CASE ~ \E i \in 1..Len(q) : q[i] = o
  BY <1>1 DEF Remove
<1>2. CASE \E i \in 1..Len(q) : q[i] = o
  <2>1. PICK k \in 1..Len(q) :
           /\ q[k] = o
           /\ Len(Remove(q, o)) = Len(q) - 1
           /\ \A i \in 1..(Len(q) - 1) :
                Remove(q, o)[i] = IF i < k THEN q[i] ELSE q[i + 1]
    BY <1>2, RemovePositions
  <2>2. Len(q) \in Nat /\ k > 1 /\ 1 \in 1..(Len(q) - 1)
    BY <2>1
  <2>3. Len(Remove(q, o)) # 0
    BY <2>1, <2>2
  <2>4. Len(<< >>) = 0
    OBVIOUS
  <2> QED
    BY <2>1, <2>2, <2>3, <2>4
<1> QED
  BY <1>1, <1>2

LEMMA PopSorted ==
  ASSUME NEW q \in Seq(Ops), Sorted(q), q # << >>
  PROVE  /\ Sorted(Pop(q))
         /\ Members(Pop(q)) = Members(q) \ {q[1]}
         /\ Len(Pop(q)) = Len(q) - 1
<1>1. Len(q) \in Nat \ {0} /\ \A i \in 2..Len(q) : q[i] \in Ops
  OBVIOUS
<1> DEFINE r == Pop(q)
           n == Len(q)
<1>2. /\ Len(r) = IF 2 <= n THEN n - 2 + 1 ELSE 0
      /\ \A i \in 1 .. n - 2 + 1 : r[i] = q[2 + i - 1]
  BY <1>1, SubSeqProperties DEF Pop
<1>3. Len(r) = Len(q) - 1 /\ \A i \in 1..Len(r) : i + 1 \in 1..Len(q) /\ r[i] = q[i + 1]
  <2>1. n \in Nat /\ n # 0
    BY <1>1
  <2>2. Len(r) = n - 1
    <3> HIDE DEF r, n
    <3> QED
      BY <1>2, <2>1
  <2>3. ASSUME NEW i \in 1..Len(r) PROVE i + 1 \in 1..Len(q) /\ r[i] = q[i + 1]
    <3>1. i \in 1..(Len(q) - 1)
      BY <2>2
    <3>2. i \in 1..(Len(q) - 2 + 1) /\ 2 + i - 1 = i + 1 /\ i + 1 \in 1..Len(q)
      BY <2>1, <3>1
    <3> QED
      BY <1>2, <2>1, <3>2
  <2> QED
    BY <2>2, <2>3
<1> HIDE DEF r
<1>4. Sorted(r)
  BY <1>1, <1>3 DEF Sorted
<1>5. Members(r) = Members(q) \ {q[1]}
  <2>1. ASSUME NEW x \in Members(r) PROVE x \in Members(q) \ {q[1]}
    <3>1. PICK i \in 1..Len(r) : x = r[i]
      BY DEF Members
    <3>2. i + 1 \in 1..Len(q) /\ x = q[i + 1] /\ i + 1 # 1 /\ 1 \in 1..Len(q)
      BY <1>1, <1>3, <3>1
    <3>3. x # q[1]
      BY <3>2, SortedOnce
    <3> QED
      BY <3>2, <3>3 DEF Members
  <2>2. ASSUME NEW x \in Members(q) \ {q[1]} PROVE x \in Members(r)
    <3>1. PICK m \in 1..Len(q) : x = q[m] /\ m # 1
      BY DEF Members
    <3>2. m - 1 \in 1..Len(r) /\ (m - 1) + 1 = m
      BY <1>1, <1>3, <3>1
    <3> QED
      BY <1>3, <3>1, <3>2 DEF Members
  <2> QED
    BY <2>1, <2>2
<1> QED
  BY <1>3, <1>4, <1>5 DEF r

LEMMA AppendSorted ==
  ASSUME NEW q \in Seq(Ops), NEW o \in Ops, Sorted(q), \A p \in Members(q) : p < o
  PROVE  /\ Sorted(Append(q, o))
         /\ Members(Append(q, o)) = Members(q) \cup {o}
         /\ Len(Append(q, o)) = Len(q) + 1
         /\ q # << >> => Append(q, o) # << >> /\ Append(q, o)[1] = q[1]
<1> DEFINE r == Append(q, o)
<1>1. /\ Len(q) \in Nat /\ Len(r) = Len(q) + 1
      /\ \A i \in 1..Len(q) : r[i] = q[i] /\ q[i] \in Members(q) /\ q[i] \in Ops
      /\ r[Len(q) + 1] = o
  BY DEF Members
<1> HIDE DEF r
<1>2. Sorted(r)
  <2> SUFFICES ASSUME NEW i \in 1..Len(r), NEW j \in 1..Len(r), i < j
               PROVE  r[i] < r[j]
    BY DEF Sorted
  <2>1. i \in 1..Len(q)
    BY <1>1
  <2>2. CASE j = Len(q) + 1
    BY <1>1, <2>1, <2>2
  <2>3. CASE j # Len(q) + 1
    <3>1. j \in 1..Len(q)
      BY <1>1, <2>3
    <3> QED
      BY <1>1, <2>1, <3>1 DEF Sorted
  <2> QED
    BY <2>2, <2>3
<1>3. Members(r) = Members(q) \cup {o}
  <2>1. \A i \in 1..Len(r) : i \in 1..Len(q) \/ i = Len(q) + 1
    BY <1>1
  <2>2. \A i \in 1..Len(q) : i \in 1..Len(r)
    BY <1>1
  <2>3. Len(q) + 1 \in 1..Len(r)
    BY <1>1
  <2> QED
    BY <1>1, <2>1, <2>2, <2>3 DEF Members
<1>4. q # << >> => r # << >> /\ r[1] = q[1]
  <2>1. q # << >> => 1 \in 1..Len(q)
    BY <1>1
  <2>2. Len(r) # 0 /\ Len(<< >>) = 0
    BY <1>1
  <2> QED
    BY <1>1, <2>1, <2>2
<1> QED
  BY <1>1, <1>2, <1>3, <1>4 DEF r

LEMMA EmptySorted == Sorted(<< >>) /\ Members(<< >>) = {} /\ Len(<< >>) = 0
  BY DEF Sorted, Members

LEMMA QueuedMembers ==
  \A area : Queued(area) = Members(area.queue)
  BY DEF Queued, Members

-----------------------------------------------------------------------------
\* Transitions.

LEMMA PhaseTypes ==
  /\ Ready \in PhaseType /\ InFlight \in PhaseType /\ Backoff \in PhaseType
  /\ \A o \in Ops : Conflict(o) \in PhaseType
  /\ \A o \in Ops, rev \in Revs : AwaitingRetirement(o, rev) \in PhaseType
  /\ \A o \in Ops, r \in BOOLEAN : Failed(o, r) \in PhaseType
  BY DEF PhaseType, Conflict, AwaitingRetirement, Failed, Phase, Revs

LEMMA PhaseOps ==
  ASSUME NEW phase \in PhaseType,
         phase.kind \in {"AwaitingRetirement", "Conflict", "Failed"}
  PROVE  phase.op \in Ops
<1>1. Ready.kind = "Ready" /\ InFlight.kind = "InFlight" /\ Backoff.kind = "Backoff"
  BY DEF Ready, InFlight, Backoff, Phase
<1>2. phase \notin {Ready, InFlight, Backoff}
  BY <1>1
<1> QED
  BY <1>2 DEF PhaseType

LEMMA PhaseRev ==
  ASSUME NEW phase \in PhaseType
  PROVE  phase.rev \in Revs
<1>1. NoRev \in Revs
  BY DEF NoRev, Revs
<1>2. CASE phase \in {Ready, InFlight, Backoff}
  <2>1. Ready.rev = NoRev /\ InFlight.rev = NoRev /\ Backoff.rev = NoRev
    BY DEF Ready, InFlight, Backoff, Phase
  <2> QED
    BY <1>1, <1>2, <2>1
<1>3. CASE phase \notin {Ready, InFlight, Backoff}
  <2> HIDE DEF Ready, InFlight, Backoff
  <2>1. \/ phase \in [kind : {"AwaitingRetirement"}, op : Ops, rev : Revs, retryable : {FALSE}]
        \/ phase \in [kind : {"Conflict"}, op : Ops, rev : {NoRev}, retryable : {FALSE}]
        \/ phase \in [kind : {"Failed"}, op : Ops, rev : {NoRev}, retryable : BOOLEAN]
    BY <1>3 DEF PhaseType
  <2> QED
    BY <1>1, <2>1
<1> QED
  BY <1>2, <1>3

LEMMA FieldTypes ==
  ASSUME NEW area \in AreaType
  PROVE  /\ area.queue \in Seq(Ops) /\ area.phase \in PhaseType
         /\ area.confirmed \in Revs /\ area.token \in Revs
         /\ \A p \in PhaseType : [area EXCEPT !.phase = p] \in AreaType
         /\ \A q \in Seq(Ops) : [area EXCEPT !.queue = q] \in AreaType
         /\ \A b \in BOOLEAN : [area EXCEPT !.needsBase = b] \in AreaType
         /\ \A b \in BOOLEAN : [area EXCEPT !.baseFailed = b] \in AreaType
         /\ \A p \in PhaseType, b \in BOOLEAN :
              [area EXCEPT !.baseFailed = b, !.phase = p] \in AreaType
         /\ \A p \in PhaseType, b \in BOOLEAN :
              [area EXCEPT !.phase = p, !.baseFailed = b] \in AreaType
         /\ \A p \in PhaseType, q \in Seq(Ops) :
              [area EXCEPT !.phase = p, !.queue = q] \in AreaType
         /\ \A b, c \in BOOLEAN :
              [area EXCEPT !.needsBase = b, !.baseFailed = c] \in AreaType
         /\ \A q \in Seq(Ops), b \in BOOLEAN :
              [area EXCEPT !.queue = q, !.needsBase = b] \in AreaType
  BY DEF AreaType

LEMMA EmptyTypes ==
  /\ EmptyArea \in AreaType
  /\ [EmptyArea EXCEPT !.confirmed = 1, !.token = 1] \in AreaType
<1>1. << >> \in Seq(Ops)
  OBVIOUS
<1>2. Ready \in PhaseType /\ {} \in SUBSET Ops
  BY PhaseTypes
<1>3. NoRev \in Revs /\ 1 \in Revs
  BY DEF Revs, NoRev
<1>4. EmptyArea \in AreaType
  BY <1>1, <1>2, <1>3 DEF EmptyArea, AreaType
<1>5. [EmptyArea EXCEPT !.confirmed = 1, !.token = 1] \in AreaType
  BY <1>3, <1>4 DEF AreaType
<1> QED
  BY <1>4, <1>5

LEMMA GoneTyped ==
  ASSUME NEW area \in AreaType
  PROVE  GoneArea(area) \in AreaType
<1>1. EmptyArea \in AreaType
  BY EmptyTypes
<1> QED
  BY <1>1 DEF GoneArea, AreaType

LEMMA FinitelyManyOps ==
  \A S \in SUBSET Ops : IsFiniteSet(S) /\ Cardinality(S) \in Nat
<1>1. IsFiniteSet(Ops)
  BY FS_Interval, QueueAssumption DEF Ops
<1>2. ASSUME NEW S \in SUBSET Ops
      PROVE  IsFiniteSet(S) /\ Cardinality(S) \in Nat
  <2>1. IsFiniteSet(S)
    BY <1>1, FS_Subset
  <2> QED
    BY <2>1, FS_CardinalityType
<1> QED
  BY <1>2

LEMMA ConfirmType ==
  ASSUME NEW area \in AreaType, NEW rev \in Revs
  PROVE  Confirm(area, rev) \in AreaType
  BY DEF Confirm, AreaType

LEMMA ParkType ==
  ASSUME NEW area \in AreaType, NEW late \in SUBSET Ops
  PROVE  ParkExpiredHead(area, late) \in AreaType
<1>1. CASE HeadOp(area) \in late
  <2>1. Failed(HeadOp(area), FALSE) \in PhaseType
    BY <1>1, PhaseTypes
  <2>2. [area EXCEPT !.phase = Failed(HeadOp(area), FALSE)] \in AreaType
    BY <2>1 DEF AreaType
  <2> QED
    BY <1>1, <2>2 DEF ParkExpiredHead
<1>2. CASE HeadOp(area) \notin late
  BY <1>2 DEF ParkExpiredHead
<1> QED
  BY <1>1, <1>2

LEMMA ResumeType ==
  ASSUME NEW area \in AreaType, NEW late \in SUBSET Ops
  PROVE  ResumeWithDeferredConflict(area, late) \in AreaType
<1> DEFINE reopened == ParkExpiredHead([area EXCEPT !.phase = Ready], late)
<1>1. [area EXCEPT !.phase = Ready] \in AreaType
  BY PhaseTypes DEF AreaType
<1>2. reopened \in AreaType
  BY <1>1, ParkType
<1>3. Queued(area) \in SUBSET Ops
  BY QueuedType
<1>4. (IF area.deferred \in Queued(area) THEN Conflict(area.deferred) ELSE Ready)
         \in PhaseType
  BY <1>3, PhaseTypes
<1> HIDE DEF reopened
<1>5. CASE reopened.phase # Ready
  BY <1>2, <1>5 DEF ResumeWithDeferredConflict, reopened
<1>6. CASE reopened.phase = Ready
  <2>1. [reopened EXCEPT
          !.deferred = NoOp,
          !.phase = IF area.deferred \in Queued(area)
                      THEN Conflict(area.deferred) ELSE Ready] \in AreaType
    BY <1>2, <1>4 DEF AreaType
  <2> QED
    BY <1>6, <2>1 DEF ResumeWithDeferredConflict, reopened
<1> QED
  BY <1>5, <1>6

LEMMA RecordType ==
  ASSUME NEW area \in AreaType, NEW failed
  PROVE  RecordReplay(area, failed) \in AreaType
<1> DEFINE found == IF failed \in Queued(area) THEN failed ELSE NoOp
<1>1. Queued(area) \in SUBSET Ops
  BY QueuedType
<1>2. found \in Ops \cup {NoOp} /\ (found # NoOp => Conflict(found) \in PhaseType)
  BY <1>1, PhaseTypes
<1> HIDE DEF found
<1>3. /\ [area EXCEPT !.deferred = found] \in AreaType
      /\ [area EXCEPT !.deferred = NoOp] \in AreaType
      /\ found # NoOp =>
           [area EXCEPT !.deferred = NoOp, !.phase = Conflict(found)] \in AreaType
  BY <1>2 DEF AreaType
<1> QED
  BY <1>3 DEF RecordReplay, found

LEMMA PopAcknowledgedType ==
  ASSUME NEW area \in AreaType, NEW rev \in Revs, NEW late \in SUBSET Ops
  PROVE  PopAcknowledged(area, rev, late) \in AreaType
<1>1. Pop(area.queue) \in Seq(Ops)
  BY PopType DEF AreaType
<1>2. [area EXCEPT !.queue = Pop(@)] \in AreaType
  BY <1>1 DEF AreaType
<1> QED
  BY <1>2, ConfirmType, ResumeType DEF PopAcknowledged

LEMMA CancelType ==
  ASSUME NEW area \in AreaType, NEW o \in Ops, NEW late \in SUBSET Ops
  PROVE  CancelIn(area, o, late) \in AreaType
<1> DEFINE removed == [area EXCEPT
                        !.queue = Remove(@, o),
                        !.deferred = IF @ = o THEN NoOp ELSE @]
           resumed == IF o = HeadOp(area)
                        THEN ResumeWithDeferredConflict(removed, late)
                        ELSE removed
<1>1. Remove(area.queue, o) \in Seq(Ops)
  BY RemoveType DEF AreaType
<1>2. removed \in AreaType
  BY <1>1 DEF AreaType
<1>3. resumed \in AreaType
  BY <1>2, ResumeType
<1>4. [resumed EXCEPT !.phase = Ready] \in AreaType
  BY <1>3, PhaseTypes DEF AreaType
<1> QED
  BY <1>3, <1>4 DEF CancelIn

-----------------------------------------------------------------------------
\* The replay.

LEMMA AdoptType ==
  ASSUME NEW area \in AreaType, NEW doc \in DocType
  PROVE  Adopt(area, doc) \in AreaType
  BY DEF Adopt, AreaType, DocType

\* The failing edit a replay names is the first one: it does not apply, and
\* every edit queued before it does.
LEMMA FirstFailedIsFirst ==
  ASSUME NEW area \in AreaType, NEW doc, FirstFailed(area, doc) # NoOp
  PROVE  \E i \in 1..Len(area.queue) :
           /\ FirstFailed(area, doc) = area.queue[i]
           /\ ~Applies(area, i, doc)
           /\ \A j \in 1..(i - 1) : Applies(area, j, doc)
<1> DEFINE failing == { i \in 1..Len(area.queue) : ~Applies(area, i, doc) }
           first == CHOOSE i \in failing : \A j \in failing : i <= j
<1>1. failing # {}
  BY DEF FirstFailed
<1>2. \E i \in failing : \A j \in failing : i <= j
  <2>1. failing \subseteq Nat
    BY DEF AreaType
  <2> HIDE DEF failing
  <2> QED
    BY <1>1, <2>1, LeastOf
<1>3. first \in failing /\ \A j \in failing : first <= j
  BY <1>2
<1>4. FirstFailed(area, doc) = area.queue[first]
  BY <1>1 DEF FirstFailed
<1>5. Len(area.queue) \in Nat
  BY DEF AreaType
<1> HIDE DEF first
<1>6. \A j \in 1..(first - 1) : Applies(area, j, doc)
  <2>1. ASSUME NEW j \in 1..(first - 1), ~Applies(area, j, doc) PROVE FALSE
    <3>1. j \in failing
      BY <1>3, <1>5, <2>1
    <3> QED
      BY <1>3, <1>5, <3>1
  <2> QED
    BY <2>1
<1> QED
  BY <1>3, <1>4, <1>6

\* A replay that names no failing edit has found every queued edit to apply.
LEMMA NoneFailed ==
  ASSUME NEW area \in AreaType, NEW doc, FirstFailed(area, doc) = NoOp
  PROVE  \A i \in 1..Len(area.queue) : Applies(area, i, doc)
<1> DEFINE failing == { i \in 1..Len(area.queue) : ~Applies(area, i, doc) }
           first == CHOOSE i \in failing : \A j \in failing : i <= j
<1>1. ASSUME failing # {} PROVE FALSE
  <2>1. \E i \in failing : \A j \in failing : i <= j
    <3>1. failing \subseteq Nat
      BY DEF AreaType
    <3> HIDE DEF failing
    <3> QED
      BY <1>1, <3>1, LeastOf
  <2>2. first \in failing
    BY <2>1
  <2>3. area.queue[first] = NoOp
    BY <1>1 DEF FirstFailed
  <2>4. area.queue[first] \in Ops
    <3> HIDE DEF first
    <3> QED
      BY <2>2 DEF AreaType
  <2> QED
    BY <2>3, <2>4 DEF Ops, NoOp
<1> QED
  BY <1>1

LEMMA ReplayType ==
  ASSUME NEW area \in AreaType, NEW doc \in DocType
  PROVE  ReplayOver(area, doc) \in AreaType
  BY AdoptType, RecordType DEF ReplayOver

-----------------------------------------------------------------------------
\* Phases and the edits they name.

\* A park and a retirement name the head of the queue, a review names an edit
\* that is queued.
Fits(area) ==
  /\ area.phase.kind \in {"AwaitingRetirement", "Failed"} => area.phase.op = HeadOp(area)
  /\ area.phase.kind = "Conflict" => area.phase.op \in Queued(area)

\* From x to y no request starts, the head of the one under way stays, and no
\* retirement begins.
Calm(x, y) ==
  /\ y.phase = InFlight => x.phase = InFlight /\ HeadOp(y) = HeadOp(x)
  /\ y.phase.kind = "AwaitingRetirement" => y.phase = x.phase

Settled(area) == area.phase.kind \notin {"InFlight", "AwaitingRetirement"}

LEMMA PhaseFields ==
  /\ Ready.kind = "Ready" /\ InFlight.kind = "InFlight" /\ Backoff.kind = "Backoff"
  /\ \A o : Conflict(o).kind = "Conflict" /\ Conflict(o).op = o
  /\ \A o : /\ Failed(o, TRUE).kind = "Failed" /\ Failed(o, TRUE).op = o
            /\ Failed(o, FALSE).kind = "Failed" /\ Failed(o, FALSE).op = o
  /\ \A o, v : /\ AwaitingRetirement(o, v).kind = "AwaitingRetirement"
               /\ AwaitingRetirement(o, v).op = o
  BY DEF Ready, InFlight, Backoff, Conflict, Failed, AwaitingRetirement, Phase

LEMMA InFlightKind ==
  ASSUME NEW phase \in PhaseType
  PROVE  phase.kind = "InFlight" <=> phase = InFlight
<1>1. InFlight.kind = "InFlight" /\ Ready.kind = "Ready" /\ Backoff.kind = "Backoff"
  BY PhaseFields
<1> QED
  BY <1>1 DEF PhaseType

LEMMA ConflictKind ==
  ASSUME NEW phase \in PhaseType, phase.kind = "Conflict"
  PROVE  phase = Conflict(phase.op)
<1>1. phase \in [kind : {"Conflict"}, op : Ops, rev : {NoRev}, retryable : {FALSE}]
  <2>1. phase \notin {Ready, InFlight, Backoff}
    BY PhaseFields
  <2> QED
    BY <2>1 DEF PhaseType
<1> QED
  BY <1>1 DEF Conflict, Phase

LEMMA SettledCalm ==
  ASSUME NEW x, NEW y \in AreaType, Settled(y)
  PROVE  Calm(x, y)
  BY FieldTypes, InFlightKind DEF Settled, Calm

LEMMA SamePhaseCalm ==
  ASSUME NEW x, NEW y, y.phase = x.phase, y.queue = x.queue
  PROVE  Calm(x, y) /\ (Fits(x) => Fits(y))
  BY DEF Calm, Fits, HeadOp, Queued

LEMMA ParkFits ==
  ASSUME NEW area \in AreaType, NEW late
  PROVE  LET y == ParkExpiredHead(area, late) IN
         /\ y.queue = area.queue
         /\ y.phase = area.phase \/ y.phase = Failed(HeadOp(area), FALSE)
  BY DEF ParkExpiredHead, AreaType

LEMMA ResumeFits ==
  ASSUME NEW area \in AreaType, NEW late \in SUBSET Ops
  PROVE  LET y == ResumeWithDeferredConflict(area, late) IN
         y.queue = area.queue /\ Fits(y) /\ Settled(y)
<1> DEFINE opened == [area EXCEPT !.phase = Ready]
           x == ParkExpiredHead(opened, late)
           found == IF area.deferred \in Queued(area) THEN Conflict(area.deferred) ELSE Ready
           y == ResumeWithDeferredConflict(area, late)
<1>1. opened \in AreaType /\ opened.phase = Ready /\ opened.queue = area.queue
  BY FieldTypes, PhaseTypes DEF AreaType
<1>2. x \in AreaType /\ x.queue = area.queue
  BY <1>1, ParkType, ParkFits
<1>3. x.phase = Ready \/ x.phase = Failed(HeadOp(area), FALSE)
  <2>1. HeadOp(opened) = HeadOp(area)
    BY <1>1 DEF HeadOp
  <2> QED
    BY <1>1, <2>1, ParkFits
<1> HIDE DEF x, opened
<1>4. CASE x.phase # Ready
  <2>1. y = x
    BY <1>4 DEF ResumeWithDeferredConflict, x, opened
  <2>2. HeadOp(x) = HeadOp(area)
    BY <1>2 DEF HeadOp
  <2> HIDE DEF y
  <2>3. y.phase = Failed(HeadOp(y), FALSE) /\ y.queue = area.queue
    BY <1>2, <1>3, <1>4, <2>1, <2>2
  <2>4. y.phase.kind = "Failed" /\ y.phase.op = HeadOp(y)
    BY <2>3 DEF Failed, Phase
  <2>5. Fits(y) /\ Settled(y)
    BY <2>4 DEF Fits, Settled
  <2> QED
    BY <2>3, <2>5 DEF y
<1>5. CASE x.phase = Ready
  <2>1. y = [x EXCEPT !.deferred = NoOp, !.phase = found]
    BY <1>5 DEF ResumeWithDeferredConflict, x, opened
  <2> HIDE DEF y
  <2>2. y.phase = found /\ y.queue = area.queue
    BY <1>2, <2>1 DEF AreaType
  <2>3. Queued(y) = Queued(area)
    BY <2>2 DEF Queued
  <2> QED
    BY <2>2, <2>3, PhaseFields DEF Fits, Settled, y
<1> QED
  BY <1>4, <1>5

LEMMA RecordFits ==
  ASSUME NEW area \in AreaType, NEW failed
  PROVE  LET y == RecordReplay(area, failed) IN
         /\ y.queue = area.queue
         /\ Fits(area) => Fits(y)
         /\ Calm(area, y)
         /\ area.phase = Ready => Settled(y)
         /\ y.phase = area.phase \/ y.phase.kind = "Conflict"
<1> DEFINE found == IF failed \in Queued(area) THEN failed ELSE NoOp
           y == RecordReplay(area, failed)
<1>1. found # NoOp => found \in Queued(area)
  OBVIOUS
<1> HIDE DEF found
<1>2. \/ y.phase = area.phase /\ y.queue = area.queue
      \/ /\ found # NoOp /\ y.phase = Conflict(found) /\ y.queue = area.queue
         /\ area.phase.kind \notin {"InFlight", "AwaitingRetirement", "Failed"}
  BY DEF RecordReplay, found, AreaType
<1> HIDE DEF y
<1>3. CASE y.phase = area.phase /\ y.queue = area.queue
  BY <1>3, SamePhaseCalm, PhaseFields DEF Settled, y
<1>4. CASE found # NoOp /\ y.phase = Conflict(found) /\ y.queue = area.queue
  <2>1. Queued(y) = Queued(area)
    BY <1>4 DEF Queued
  <2>2. y.phase # InFlight
    BY <1>4, PhaseFields
  <2> QED
    BY <1>1, <1>4, <2>1, <2>2, PhaseFields DEF Fits, Calm, Settled, y
<1> QED
  BY <1>2, <1>3, <1>4

LEMMA ReplayFits ==
  ASSUME NEW area \in AreaType, NEW doc \in DocType
  PROVE  LET y == ReplayOver(area, doc) IN
         /\ y.queue = area.queue
         /\ Fits(area) => Fits(y)
         /\ Calm(area, y)
         /\ area.phase = Ready => Settled(y)
         /\ y.phase = area.phase \/ y.phase.kind = "Conflict"
<1> DEFINE x == Adopt(area, doc)
           y == ReplayOver(area, doc)
<1>1. x \in AreaType /\ x.queue = area.queue /\ x.phase = area.phase
  BY AdoptType DEF Adopt, AreaType
<1>2. y = RecordReplay(x, FirstFailed(area, doc))
  BY DEF ReplayOver
<1> HIDE DEF x
<1>3. /\ y.queue = x.queue
      /\ Fits(x) => Fits(y)
      /\ Calm(x, y)
      /\ x.phase = Ready => Settled(y)
      /\ y.phase = x.phase \/ y.phase.kind = "Conflict"
  BY <1>1, <1>2, RecordFits
<1> HIDE DEF y
<1>4. HeadOp(x) = HeadOp(area) /\ Queued(x) = Queued(area)
  BY <1>1 DEF HeadOp, Queued
<1> QED
  BY <1>1, <1>3, <1>4 DEF Calm, Fits, y

LEMMA PopAcknowledgedFits ==
  ASSUME NEW area \in AreaType, NEW rev \in Revs, NEW late \in SUBSET Ops
  PROVE  LET y == PopAcknowledged(area, rev, late) IN
         y.queue = Pop(area.queue) /\ Fits(y) /\ Settled(y)
<1> DEFINE x == [area EXCEPT !.queue = Pop(@)]
           z == Confirm(x, rev)
<1>1. x \in AreaType /\ x.queue = Pop(area.queue)
  BY PopType, FieldTypes DEF AreaType
<1>2. z \in AreaType /\ z.queue = x.queue
  BY <1>1, ConfirmType DEF Confirm, AreaType
<1> QED
  BY <1>1, <1>2, ResumeFits DEF PopAcknowledged

LEMMA CancelFits ==
  ASSUME NEW area \in AreaType, NEW o \in Ops, NEW late \in SUBSET Ops,
         Sorted(area.queue), Fits(area), Cancellable(area, o)
  PROVE  LET y == CancelIn(area, o, late) IN
         y.queue = Remove(area.queue, o) /\ Fits(y) /\ Calm(area, y)
<1> DEFINE removed == [area EXCEPT
                        !.queue = Remove(@, o),
                        !.deferred = IF @ = o THEN NoOp ELSE @]
           resumed == IF o = HeadOp(area)
                        THEN ResumeWithDeferredConflict(removed, late)
                        ELSE removed
           y == CancelIn(area, o, late)
<1>1. /\ removed \in AreaType /\ removed.queue = Remove(area.queue, o)
      /\ removed.phase = area.phase
  <2>1. Remove(area.queue, o) \in Seq(Ops)
    BY RemoveType, FieldTypes
  <2> QED
    BY <2>1 DEF AreaType
<1>2. y = IF resumed.phase = Conflict(o) THEN [resumed EXCEPT !.phase = Ready] ELSE resumed
  BY DEF CancelIn
<1> HIDE DEF removed
<1>3. resumed \in AreaType /\ resumed.queue = Remove(area.queue, o)
  BY <1>1, ResumeType, ResumeFits
<1>4. y \in AreaType /\ y.queue = Remove(area.queue, o)
  <2>1. Ready \in PhaseType
    BY PhaseTypes
  <2> HIDE DEF resumed, y
  <2>2. [resumed EXCEPT !.phase = Ready] \in AreaType
        /\ [resumed EXCEPT !.phase = Ready].queue = resumed.queue
    BY <1>3, <2>1 DEF AreaType
  <2> QED
    BY <1>2, <1>3, <2>2
<1>5. y.phase = resumed.phase \/ y.phase = Ready
  <2> HIDE DEF resumed, y
  <2> QED
    BY <1>2, <1>3 DEF AreaType
<1>6. CASE o = HeadOp(area)
  <2>1. resumed = ResumeWithDeferredConflict(removed, late)
    BY <1>6
  <2>2. Fits(resumed) /\ Settled(resumed)
    BY <1>1, <2>1, ResumeFits
  <2> HIDE DEF resumed, y
  <2>3. HeadOp(y) = HeadOp(resumed) /\ Queued(y) = Queued(resumed)
    BY <1>3, <1>4 DEF HeadOp, Queued
  <2>4. Fits(y) /\ Settled(y)
    BY <1>5, <2>2, <2>3, PhaseFields DEF Fits, Settled
  <2> QED
    BY <1>4, <2>4, SettledCalm DEF y
<1>7. CASE o # HeadOp(area)
  <2>1. resumed = removed
    BY <1>7
  <2>2. y.phase = area.phase \/ y.phase = Ready
    BY <1>1, <1>5, <2>1
  <2>3. y.phase.kind = "Conflict" => y.phase.op # o
    <3>1. resumed.phase.kind = "Conflict" /\ resumed.phase.op = o => resumed.phase = Conflict(o)
      <4>1. resumed.phase \in PhaseType
        BY <1>3, FieldTypes
      <4> HIDE DEF resumed
      <4> QED
        BY <4>1, ConflictKind
    <3> HIDE DEF resumed, y
    <3>2. Ready.kind # "Conflict"
      BY PhaseFields
    <3>3. resumed.phase = Conflict(o) => y.phase = Ready
      BY <1>2, <1>3 DEF AreaType
    <3> QED
      BY <1>5, <3>1, <3>2, <3>3
  <2> HIDE DEF resumed, y
  <2>4. area.queue \in Seq(Ops) /\ area.queue # << >>
    <3>1. area.queue \in Seq(Ops) /\ o \in Members(area.queue)
      BY FieldTypes, QueuedMembers DEF Cancellable
    <3>2. Members(<< >>) = {}
      BY EmptySorted
    <3> QED
      BY <3>1, <3>2
  <2>5. HeadOp(y) = HeadOp(area)
    <3>1. area.queue[1] # o
      BY <1>7, <2>4 DEF HeadOp
    <3> QED
      BY <1>4, <2>4, <3>1, RemoveFollower DEF HeadOp
  <2>6. Queued(y) = Queued(area) \ {o}
    BY <1>4, <2>4, RemoveSorted, QueuedMembers
  <2> QED
    BY <1>4, <2>2, <2>3, <2>5, <2>6, PhaseFields DEF Fits, Calm, y
<1> QED
  BY <1>6, <1>7

-----------------------------------------------------------------------------
\* Type correctness of the state machine.

\* A task that has something in hand names it.
InHand ==
  /\ worker.at \in {"wire", "refetch"} => worker.area \in Areas /\ worker.op \in Ops
  /\ engine.at = "fetched" => engine.area \in CloudAreas
  /\ del.at # "none" => del.area \in CloudAreas

Typed == TypeOK /\ InHand

USE DEF envVars, queueVars, fenceVars, viewerVars, markerVars, diskVars, statVars,
        taskVars, wakeVars, serverVars, historyVars, Typed, TypeOK

-----------------------------------------------------------------------------
\* Parts of actions.

LEMMA SpendTyped ==
  ASSUME EnvType, NEW e \in Events, Spend(e)
  PROVE  left' \in [Events -> Nat]
  BY DEF EnvType, Spend

LEMMA SetAreaTyped ==
  ASSUME QueueType, NEW a \in Areas, NEW x \in AreaType, SetArea(a, x)
  PROVE  areas' \in [Areas -> AreaType]
  BY DEF QueueType, SetArea

LEMMA RetireTyped ==
  ASSUME DiskType, NEW S, Retire(S)
  PROVE  wal' \in [Ops -> {"none", "json", "gone"}]
  BY DEF DiskType, Retire

LEMMA RebuildTyped ==
  ASSUME TaskType, NEW a \in Areas, NEW g \in Gens \cup {NoGen}, NEW k \in BOOLEAN,
         Rebuild(a, g, k)
  PROVE  rebuilds' \in SUBSET RebuildType
<1>1. NoDoc \in DocType
  BY DEF NoDoc, DocType, Revs, NoRev
<1> QED
  BY <1>1 DEF TaskType, Rebuild, RebuildType

LEMMA HeadGenTyped ==
  ASSUME QueueType, NEW a \in Areas
  PROVE  HeadGen(areas[a]) \in Gens \cup {NoGen}
  BY DEF QueueType, AreaType, HeadGen

LEMMA LowerTyped ==
  \A n, m \in Nat : Lower(n, m) \in Nat
  BY DEF Lower

LEMMA DocTyped ==
  ASSUME ServiceType, NEW a \in Areas
  PROVE  Doc(a) \in DocType
  BY DEF ServiceType, Doc, DocType

LEMMA IdleTyped ==
  /\ IdleWorker \in WorkerType
  /\ \A g \in Gens \cup {NoGen} : IdleEngine(g) \in EngineType
  /\ NoDelete \in DeleteType
<1>1. NoDoc \in DocType
  BY DEF NoDoc, DocType, Revs, NoRev
<1>2. IdleWorker \in WorkerType
  BY <1>1 DEF IdleWorker, WorkerType, Revs, NoRev, NoOp, NoGen
<1>3. \A g \in Gens \cup {NoGen} : IdleEngine(g) \in EngineType
  BY <1>1 DEF IdleEngine, EngineType, Revs, NoRev, NoGen, NoRows
<1>4. NoDelete \in DeleteType
  BY DEF NoDelete, DeleteType, NoGen
<1> QED
  BY <1>2, <1>3, <1>4

-----------------------------------------------------------------------------
\* The editor.

LEMMA StageTyped == ASSUME Typed, Stage PROVE Typed'
<1> DEFINE o == nextOp  a == AreaOf[o]
<1>1. o \in Ops /\ a \in Areas
  BY PendingAssumption DEF Stage
<1>2. EnvType'
  BY <1>1, QueueAssumption DEF Stage, EnvType, Ops
<1>3. QueueType'
  <2>1. areas[a] \in AreaType
    BY <1>1 DEF QueueType
  <2>2. Append(areas[a].queue, o) \in Seq(Ops)
    BY <1>1, <2>1 DEF AreaType
  <2>3. [areas[a] EXCEPT !.queue = Append(@, o)] \in AreaType
    BY <2>1, <2>2 DEF AreaType
  <2>4. areas' = [areas EXCEPT ![a] = [areas[a] EXCEPT !.queue = Append(@, o)]]
    BY DEF Stage
  <2>5. areas' \in [Areas -> AreaType]
    BY <1>1, <2>3, <2>4 DEF QueueType
  <2>6. gen' \in [Ops -> Gens \cup {NoGen}]
    BY <1>1 DEF Stage, QueueType, ViewerType
  <2> QED
    BY <1>1, <2>5, <2>6 DEF Stage, QueueType
<1>4. DiskType'
  BY <1>1 DEF Stage, DiskType, ViewerType, Viewers
<1>5. StatType'
  BY <1>1 DEF Stage, StatType
<1> QED
  BY <1>2, <1>3, <1>4, <1>5 DEF Stage, ViewerType, TaskType, ServiceType, HistoryType, InHand

LEMMA PublishTyped == ASSUME Typed, Publish PROVE Typed'
  BY DEF Publish, EnvType, QueueType, ViewerType, DiskType, StatType, TaskType,
         ServiceType, HistoryType, InHand

LEMMA CancelTyped == ASSUME Typed, NEW o \in Ops, Cancel(o) PROVE Typed'
<1> DEFINE a == AreaOf[o]
<1>1. a \in Areas /\ areas[a] \in AreaType
  BY PendingAssumption DEF QueueType
<1>2. EnvType'
  BY SpendTyped DEF Cancel, EnvType, Events
<1>3. QueueType'
  <2>1. CancelIn(areas[a], o, expired) \in AreaType
    BY <1>1, CancelType DEF QueueType
  <2>2. areas' \in [Areas -> AreaType]
    BY <1>1, <2>1, SetAreaTyped DEF Cancel
  <2> QED
    BY <2>2 DEF Cancel, QueueType
<1>4. DiskType'
  BY RetireTyped DEF Cancel, DiskType
<1>5. StatType'
  <2>1. marks' \in [Areas -> Nat]
    BY <1>1, LowerTyped DEF Cancel, StatType
  <2> QED
    BY <2>1 DEF Cancel, StatType
<1>6. TaskType'
  BY <1>1, RebuildTyped DEF Cancel, TaskType, QueueType
<1> QED
  BY <1>2, <1>3, <1>4, <1>5, <1>6 DEF Cancel, ViewerType, ServiceType, HistoryType, InHand

LEMMA RetryTyped == ASSUME Typed, NEW a \in Areas, Retry(a) PROVE Typed'
<1>1. areas[a] \in AreaType
  BY DEF QueueType
<1>2. areas[a].phase.op \in Ops
  BY <1>1, PhaseOps, FieldTypes DEF Retry
<1>3. EnvType'
  BY SpendTyped DEF Retry, EnvType, Events
<1>4. QueueType'
  <2>1. [areas[a] EXCEPT !.phase = Ready, !.baseFailed = FALSE] \in AreaType
    BY <1>1, FieldTypes, PhaseTypes
  <2>2. areas' \in [Areas -> AreaType]
    BY <2>1, SetAreaTyped DEF Retry
  <2> QED
    BY <1>2, <2>2 DEF Retry, QueueType
<1> QED
  BY <1>3, <1>4 DEF Retry, ViewerType, DiskType, StatType, TaskType, ServiceType,
     HistoryType, InHand

LEMMA DiscardTyped == ASSUME Typed, NEW a \in Areas, Discard(a) PROVE Typed'
<1> DEFINE o == areas[a].phase.op
           left_ == [areas[a] EXCEPT !.queue = Remove(@, o)]
<1>1. areas[a] \in AreaType
  BY DEF QueueType
<1>2. o \in Ops
  BY <1>1, PhaseOps, FieldTypes DEF Discard
<1>3. EnvType'
  BY SpendTyped DEF Discard, EnvType, Events
<1>4. QueueType'
  <2>1. Remove(areas[a].queue, o) \in Seq(Ops)
    BY <1>1, FieldTypes, RemoveType
  <2>2. left_ \in AreaType
    BY <1>1, <2>1, FieldTypes
  <2>3. ResumeWithDeferredConflict(left_, expired) \in AreaType
    BY <2>2, ResumeType DEF QueueType
  <2>4. areas' \in [Areas -> AreaType]
    BY <2>3, SetAreaTyped DEF Discard
  <2> QED
    BY <2>4 DEF Discard, QueueType
<1>5. DiskType'
  BY RetireTyped DEF Discard, DiskType
<1>6. StatType'
  BY LowerTyped DEF Discard, StatType
<1>7. TaskType'
  BY RebuildTyped, HeadGenTyped DEF Discard, TaskType
<1> QED
  BY <1>2, <1>3, <1>4, <1>5, <1>6, <1>7 DEF Discard, ViewerType, ServiceType, HistoryType, InHand

LEMMA KeepTheirsTyped == ASSUME Typed, NEW a \in Areas, KeepTheirs(a) PROVE Typed'
<1> DEFINE o == areas[a].phase.op
<1>1. areas[a] \in AreaType
  BY DEF QueueType
<1>2. o \in Ops
  BY <1>1, PhaseOps, FieldTypes DEF KeepTheirs
<1>3. EnvType'
  BY SpendTyped DEF KeepTheirs, EnvType, Events
<1>4. QueueType'
  <2>1. Remove(areas[a].queue, o) \in Seq(Ops)
    BY <1>1, FieldTypes, RemoveType
  <2>2. [areas[a] EXCEPT !.phase = Ready, !.queue = Remove(@, o)] \in AreaType
    BY <1>1, <2>1, PhaseTypes, FieldTypes
  <2>3. areas' \in [Areas -> AreaType]
    BY <2>2, SetAreaTyped DEF KeepTheirs
  <2> QED
    BY <2>3 DEF KeepTheirs, QueueType
<1>5. DiskType'
  BY RetireTyped DEF KeepTheirs, DiskType
<1>6. StatType'
  BY LowerTyped DEF KeepTheirs, StatType
<1>7. TaskType'
  BY RebuildTyped, HeadGenTyped DEF KeepTheirs, TaskType
<1> QED
  BY <1>2, <1>3, <1>4, <1>5, <1>6, <1>7
  DEF KeepTheirs, ViewerType, ServiceType, HistoryType, InHand

LEMMA KeepMineTyped == ASSUME Typed, NEW a \in Areas, KeepMine(a) PROVE Typed'
<1>1. Queued(areas[a]) \in SUBSET Ops
  BY QueuedType DEF QueueType
<1>2. EnvType'
  BY SpendTyped DEF KeepMine, EnvType, Events
<1>3. TaskType'
  BY RebuildTyped, HeadGenTyped DEF KeepMine, TaskType
<1> QED
  BY <1>1, <1>2, <1>3 DEF KeepMine, QueueType, ViewerType, DiskType, StatType, ServiceType,
     HistoryType, InHand

-----------------------------------------------------------------------------
\* Display rebuilds.

LEMMA ReadyResendTyped ==
  ASSUME NEW area \in AreaType, NEW k
  PROVE  ReadyResend(area, k) \in AreaType
  BY PhaseTypes, FieldTypes DEF ReadyResend

LEMMA RebuildFetchTyped ==
  ASSUME Typed, NEW r \in rebuilds, RebuildFetch(r) PROVE Typed'
<1>1. r \in RebuildType
  BY DEF TaskType
<1>2. r.area \in Areas
  BY <1>1 DEF RebuildType
<1>3. areas[r.area] \in AreaType
  BY <1>2 DEF QueueType
<1>4. EnvType'
  BY SpendTyped DEF RebuildFetch, EnvType, Events
<1>5. QueueType'
  <2>1. ReadyResend(areas[r.area], r.keep) \in AreaType
    BY <1>3, ReadyResendTyped
  <2>2. areas' \in [Areas -> AreaType]
    BY <1>2, <2>1, SetAreaTyped DEF RebuildFetch, QueueType
  <2> QED
    BY <2>2 DEF RebuildFetch, QueueType
<1>6. TaskType'
  <2>1. Doc(r.area) \in DocType
    BY <1>2, DocTyped
  <2>2. [r EXCEPT !.at = "got", !.doc = Doc(r.area)] \in RebuildType
    BY <1>1, <2>1 DEF RebuildType
  <2>3. wake' \in BOOLEAN
    BY <1>1 DEF RebuildFetch, TaskType, RebuildType
  <2>4. rebuilds' \in SUBSET RebuildType
    BY <2>2 DEF RebuildFetch, TaskType
  <2> QED
    BY <2>3, <2>4 DEF RebuildFetch, TaskType
<1> QED
  BY <1>4, <1>5, <1>6
  DEF RebuildFetch, ViewerType, DiskType, StatType, ServiceType, HistoryType, InHand

LEMMA RebuildApplyTyped ==
  ASSUME Typed, NEW r \in rebuilds, RebuildApply(r) PROVE Typed'
<1> DEFINE area == areas[r.area]
           folded == IF ~IdentityActive(r.gen) THEN area
                     ELSE IF r.keep THEN Adopt(area, r.doc)
                     ELSE ReplayOver(area, r.doc)
<1>1. r \in RebuildType
  BY DEF TaskType
<1>2. r.area \in Areas /\ r.doc \in DocType /\ r.keep \in BOOLEAN
  BY <1>1 DEF RebuildType
<1>3. area \in AreaType
  BY <1>2 DEF QueueType
<1>4. QueueType'
  <2>1. Adopt(area, r.doc) \in AreaType /\ ReplayOver(area, r.doc) \in AreaType
    BY <1>2, <1>3, AdoptType, ReplayType
  <2>2. folded \in AreaType
    BY <1>3, <2>1
  <2>3. ReadyResend(folded, r.keep) \in AreaType
    BY <2>2, ReadyResendTyped
  <2>4. areas' \in [Areas -> AreaType]
    BY <1>2, <2>3, SetAreaTyped DEF RebuildApply
  <2> QED
    BY <2>4 DEF RebuildApply, QueueType
<1>5. TaskType'
  BY <1>2 DEF RebuildApply, TaskType
<1>6. ViewerType'
  BY <1>2 DEF RebuildApply, ViewerType
<1>7. HistoryType'
  <2>1. Queued(area) \in SUBSET Ops
    BY <1>3, QueuedType
  <2> QED
    BY <2>1 DEF RebuildApply, HistoryType
<1> QED
  BY <1>4, <1>5, <1>6, <1>7
  DEF RebuildApply, EnvType, DiskType, StatType, ServiceType, ViewerType, InHand

-----------------------------------------------------------------------------
\* The worker.

LEMMA WorkerRetireTyped ==
  ASSUME Typed, NEW a \in Areas, WorkerRetire(a) PROVE Typed'
<1>1. areas[a] \in AreaType
  BY DEF QueueType
<1>2. QueueType'
  <2>1. areas[a].phase.rev \in Revs
    BY <1>1, PhaseRev, FieldTypes
  <2>2. PopAcknowledged(areas[a], areas[a].phase.rev, expired) \in AreaType
    BY <1>1, <2>1, PopAcknowledgedType DEF QueueType
  <2>3. areas' \in [Areas -> AreaType]
    BY <2>2, SetAreaTyped DEF WorkerRetire
  <2> QED
    BY <2>3 DEF WorkerRetire, QueueType
<1>3. DiskType'
  BY RetireTyped DEF WorkerRetire, DiskType
<1>4. StatType'
  <2>1. marks' \in [Areas -> Nat]
    BY LowerTyped DEF WorkerRetire, StatType
  <2> QED
    BY <2>1 DEF WorkerRetire, StatType
<1>5. TaskType' /\ InHand'
  BY DEF WorkerRetire, TaskType, WorkerType, InHand
<1> QED
  BY <1>2, <1>3, <1>4, <1>5
  DEF WorkerRetire, EnvType, ViewerType, ServiceType, HistoryType

LEMMA WorkerRetireFailsTyped ==
  ASSUME Typed, NEW a \in Areas, WorkerRetireFails(a) PROVE Typed'
<1>1. EnvType'
  BY SpendTyped DEF WorkerRetireFails, EnvType, Events
<1>2. TaskType' /\ InHand'
  BY DEF WorkerRetireFails, TaskType, WorkerType, InHand
<1> QED
  BY <1>1, <1>2
  DEF WorkerRetireFails, QueueType, DiskType, StatType, ViewerType, ServiceType, HistoryType

LEMMA WorkerTakeTyped ==
  ASSUME Typed, NEW a \in Areas, WorkerTake(a) PROVE Typed'
<1> DEFINE o == HeadOp(areas[a])
           rev == IF areas[a].confirmed = NoRev THEN 0 ELSE areas[a].confirmed
           dropped == IsCloud(o) /\ cred # gen[o]
<1>1. areas[a] \in AreaType
  BY DEF QueueType
<1>2. o \in Ops
  BY <1>1, QueuedType DEF WorkerTake, Sendable
<1>3. gen[o] \in Gens \cup {NoGen}
  BY <1>2 DEF QueueType
<1>4. rev \in Revs
  <2>1. areas[a].confirmed \in Revs
    BY <1>1, FieldTypes
  <2> QED
    BY <2>1 DEF Revs
<1>5. QueueType'
  <2>1. [areas[a] EXCEPT !.phase = InFlight] \in AreaType
    BY <1>1, PhaseTypes, FieldTypes
  <2>2. areas' \in [Areas -> AreaType]
    BY <2>1, SetAreaTyped DEF WorkerTake
  <2> QED
    BY <2>2 DEF WorkerTake, QueueType
<1>6. worker' \in WorkerType /\ worker'.area \in Areas /\ worker'.op \in Ops
  <2> HIDE DEF o, rev, dropped
  <2>1. worker' = [IdleWorker EXCEPT !.at = "wire", !.area = a, !.op = o, !.gen = gen[o],
                    !.rev = rev, !.reply = IF dropped THEN "credential" ELSE "none"]
    BY DEF WorkerTake, o, rev, dropped
  <2>2. IdleWorker \in WorkerType
    BY IdleTyped
  <2> QED
    BY <1>2, <1>3, <1>4, <2>1, <2>2 DEF WorkerType
<1>7. ServiceType'
  <2> HIDE DEF rev, dropped
  <2>1. net' = net \/ net' = net \cup {[op |-> o, rev |-> rev, gen |-> gen[o]]}
    BY DEF WorkerTake, rev, dropped
  <2> HIDE DEF o
  <2>2. net' \in SUBSET [op : Ops, rev : Revs, gen : Gens \cup {NoGen}]
    BY <1>2, <1>3, <1>4, <2>1 DEF ServiceType
  <2> QED
    BY <2>2 DEF WorkerTake, ServiceType
<1>8. HistoryType'
  BY <1>2 DEF WorkerTake, HistoryType
<1>9. TaskType' /\ InHand'
  BY <1>6 DEF WorkerTake, TaskType, InHand
<1> QED
  BY <1>5, <1>7, <1>8, <1>9
  DEF WorkerTake, EnvType, ViewerType, DiskType, StatType

LEMMA WorkerIdleTyped == ASSUME Typed, WorkerIdle PROVE Typed'
<1>1. PICK S \in SUBSET Areas :
        /\ areas' = [a \in Areas |->
             IF a \in S THEN [areas[a] EXCEPT !.phase = Ready] ELSE areas[a]]
        /\ worker' = [IdleWorker EXCEPT !.at = "idle", !.until = Waiting \ S]
  BY DEF WorkerIdle, Waiting
<1>2. QueueType'
  <2>1. \A a \in Areas : [areas[a] EXCEPT !.phase = Ready] \in AreaType
    BY PhaseTypes, FieldTypes DEF QueueType
  <2>2. areas' \in [Areas -> AreaType]
    BY <1>1, <2>1 DEF QueueType
  <2> QED
    BY <2>2 DEF WorkerIdle, QueueType
<1>3. worker' \in WorkerType /\ worker'.at = "idle"
  BY <1>1, IdleTyped DEF WorkerType, Waiting
<1>4. TaskType' /\ InHand'
  BY <1>3 DEF WorkerIdle, TaskType, InHand
<1> QED
  BY <1>2, <1>4
  DEF WorkerIdle, EnvType, ViewerType, DiskType, StatType, ServiceType, HistoryType

LEMMA WorkerWakeTyped == ASSUME Typed, WorkerWake PROVE Typed'
<1>1. worker' \in WorkerType /\ worker'.at = "run"
  BY IdleTyped DEF WorkerWake, WorkerDone, IdleWorker
<1> QED
  BY <1>1 DEF WorkerWake, EnvType, QueueType, ViewerType, DiskType, StatType, TaskType,
     ServiceType, HistoryType, InHand

LEMMA WorkerTimerTyped ==
  ASSUME Typed, NEW a \in Areas, WorkerTimer(a) PROVE Typed'
<1>1. worker' \in WorkerType /\ worker'.at = "run"
  BY IdleTyped DEF WorkerTimer, IdleWorker, WorkerType
<1> QED
  BY <1>1 DEF WorkerTimer, EnvType, QueueType, ViewerType, DiskType, StatType, TaskType,
     ServiceType, HistoryType, InHand

-----------------------------------------------------------------------------
\* The verdicts.

USE DEF verdictFrame, Verdict

LEMMA WorkerInHand ==
  ASSUME Typed
  PROVE  /\ worker \in WorkerType /\ worker.rev \in Revs /\ worker.doc \in DocType
         /\ worker.at \in {"wire", "refetch"} =>
              worker.area \in Areas /\ worker.op \in Ops /\ areas[worker.area] \in AreaType
  BY DEF TaskType, WorkerType, QueueType, InHand

LEMMA WorkerDoneTyped ==
  ASSUME WorkerDone
  PROVE  worker' \in WorkerType /\ worker'.at = "run"
  BY IdleTyped DEF WorkerDone, IdleWorker

LEMMA VerdictStaleTyped == ASSUME Typed, VerdictStale PROVE Typed'
  BY WorkerDoneTyped DEF VerdictStale, EnvType, QueueType, ViewerType, DiskType, StatType,
     TaskType, ServiceType, HistoryType, InHand

LEMMA VerdictOkTyped == ASSUME Typed, VerdictOk PROVE Typed'
<1> DEFINE a == worker.area  o == worker.op
<1>1. a \in Areas /\ o \in Ops /\ areas[a] \in AreaType /\ worker.rev \in Revs
  BY WorkerInHand DEF VerdictOk
<1>2. EnvType'
  BY SpendTyped DEF VerdictOk, EnvType, Events
<1>3. QueueType'
  <2>1. PopAcknowledged(areas[a], worker.rev, expired) \in AreaType
    BY <1>1, PopAcknowledgedType DEF QueueType
  <2>2. AwaitingRetirement(o, worker.rev) \in PhaseType
    BY <1>1, PhaseTypes
  <2>3. [areas[a] EXCEPT !.phase = AwaitingRetirement(o, worker.rev)] \in AreaType
    BY <1>1, <2>2, FieldTypes
  <2>4. areas' \in [Areas -> AreaType]
    BY <1>1, <2>1, <2>3, SetAreaTyped DEF VerdictOk
  <2> QED
    BY <2>4 DEF VerdictOk, QueueType
<1>4. DiskType'
  BY RetireTyped DEF VerdictOk, DiskType
<1>5. StatType'
  <2>1. marks' \in [Areas -> Nat]
    BY <1>1, LowerTyped DEF VerdictOk, StatType
  <2> QED
    BY <2>1 DEF VerdictOk, StatType
<1>6. TaskType' /\ InHand'
  BY WorkerDoneTyped DEF VerdictOk, TaskType, InHand
<1> QED
  BY <1>2, <1>3, <1>4, <1>5, <1>6 DEF VerdictOk, ViewerType, ServiceType, HistoryType

LEMMA CredentialChangedTyped ==
  ASSUME Typed, worker.at \in {"wire", "refetch"}, CredentialChanged PROVE Typed'
<1> DEFINE a == worker.area
<1>1. a \in Areas /\ areas[a] \in AreaType
  BY WorkerInHand
<1>2. QueueType'
  <2>1. [areas[a] EXCEPT !.phase = Ready] \in AreaType
    BY <1>1, PhaseTypes, FieldTypes
  <2>2. \/ areas' = areas
        \/ areas' = [areas EXCEPT ![a] = [areas[a] EXCEPT !.phase = Ready]]
    BY DEF CredentialChanged
  <2>3. areas' \in [Areas -> AreaType]
    BY <1>1, <2>1, <2>2 DEF QueueType
  <2> QED
    BY <2>3 DEF CredentialChanged, QueueType
<1>3. ViewerType'
  BY DEF CredentialChanged, ViewerType
<1>4. TaskType' /\ InHand'
  BY WorkerDoneTyped DEF CredentialChanged, TaskType, InHand
<1> QED
  BY <1>2, <1>3, <1>4
  DEF CredentialChanged, EnvType, DiskType, StatType, ServiceType, HistoryType

LEMMA VerdictCredentialTyped == ASSUME Typed, VerdictCredential PROVE Typed'
  BY CredentialChangedTyped DEF VerdictCredential

LEMMA TransportTyped ==
  ASSUME Typed, worker.at \in {"wire", "refetch"}, TransportFailure
  PROVE  /\ areas' \in [Areas -> AreaType] /\ attempts' \in [Ops -> Nat]
         /\ unsettled' \in Int /\ wake' \in BOOLEAN
<1> DEFINE a == worker.area  o == worker.op
           parked == attempts[o] + 1 >= MaxTransportAttempts
<1>1. a \in Areas /\ o \in Ops /\ areas[a] \in AreaType
  BY WorkerInHand
<1>2. CASE areas[a].phase = InFlight /\ HeadOp(areas[a]) = o
  <2> HIDE DEF parked
  <2>1. (IF parked THEN Failed(o, TRUE) ELSE Backoff) \in PhaseType
    BY <1>1, PhaseTypes
  <2>2. [areas[a] EXCEPT !.phase = IF parked THEN Failed(o, TRUE) ELSE Backoff] \in AreaType
    BY <1>1, <2>1, FieldTypes
  <2>3. areas' \in [Areas -> AreaType]
    BY <1>1, <1>2, <2>2, SetAreaTyped DEF TransportFailure, parked
  <2> QED
    BY <1>1, <1>2, <2>3 DEF TransportFailure, QueueType, StatType
<1>3. CASE ~(areas[a].phase = InFlight /\ HeadOp(areas[a]) = o)
  BY <1>3 DEF TransportFailure, QueueType, StatType, TaskType
<1> QED
  BY <1>2, <1>3

LEMMA VerdictTransportTyped == ASSUME Typed, VerdictTransport PROVE Typed'
<1>1. /\ areas' \in [Areas -> AreaType] /\ attempts' \in [Ops -> Nat]
      /\ unsettled' \in Int /\ wake' \in BOOLEAN
  BY TransportTyped DEF VerdictTransport
<1>2. worker' \in WorkerType /\ worker'.at = "run"
  BY WorkerDoneTyped DEF VerdictTransport
<1> QED
  BY <1>1, <1>2 DEF VerdictTransport, EnvType, QueueType, ViewerType, DiskType, StatType,
     TaskType, ServiceType, HistoryType, InHand

LEMMA VerdictHeldTyped == ASSUME Typed, VerdictHeld PROVE Typed'
<1> DEFINE a == worker.area
<1>1. a \in Areas /\ areas[a] \in AreaType
  BY WorkerInHand DEF VerdictHeld
<1>2. [areas[a] EXCEPT !.phase = Backoff] \in AreaType
  BY <1>1, PhaseTypes, FieldTypes
<1>3. areas' \in [Areas -> AreaType]
  BY <1>1, <1>2, SetAreaTyped DEF VerdictHeld
<1>4. worker' \in WorkerType /\ worker'.at = "run"
  BY WorkerDoneTyped DEF VerdictHeld
<1> QED
  BY <1>3, <1>4 DEF VerdictHeld, EnvType, QueueType, ViewerType, DiskType, StatType,
     TaskType, ServiceType, HistoryType, InHand

LEMMA VerdictRefusedTyped == ASSUME Typed, VerdictRefused PROVE Typed'
<1> DEFINE a == worker.area  o == worker.op
<1>1. a \in Areas /\ o \in Ops /\ areas[a] \in AreaType
  BY WorkerInHand DEF VerdictRefused
<1>2. Failed(o, TRUE) \in PhaseType
  BY <1>1, PhaseTypes
<1>3. [areas[a] EXCEPT !.phase = Failed(o, TRUE)] \in AreaType
  BY <1>1, <1>2, FieldTypes
<1>4. areas' \in [Areas -> AreaType]
  BY <1>1, <1>3, SetAreaTyped DEF VerdictRefused
<1>5. worker' \in WorkerType /\ worker'.at = "run"
  BY WorkerDoneTyped DEF VerdictRefused
<1> QED
  BY <1>4, <1>5 DEF VerdictRefused, EnvType, QueueType, ViewerType, DiskType, StatType,
     TaskType, ServiceType, HistoryType, InHand

LEMMA VerdictUpgradeTyped == ASSUME Typed, VerdictUpgrade PROVE Typed'
<1>1. \A a \in Areas : [areas[a] EXCEPT !.phase = Ready] \in AreaType
  BY PhaseTypes, FieldTypes DEF QueueType
<1>2. areas' \in [Areas -> AreaType]
  BY <1>1 DEF VerdictUpgrade, QueueType
<1>3. worker' \in WorkerType /\ worker'.at = "run"
  BY WorkerDoneTyped DEF VerdictUpgrade
<1> QED
  BY <1>2, <1>3 DEF VerdictUpgrade, EnvType, QueueType, ViewerType, DiskType, StatType,
     TaskType, ServiceType, HistoryType, InHand

LEMMA VerdictConflictTyped == ASSUME Typed, VerdictConflict PROVE Typed'
<1>1. CASE IsCloud(worker.op) /\ cred # worker.gen
  BY <1>1, CredentialChangedTyped DEF VerdictConflict
<1>2. CASE ~(IsCloud(worker.op) /\ cred # worker.gen)
  <2>1. worker' = [worker EXCEPT !.at = "refetch", !.reply = "none"]
    BY <1>2 DEF VerdictConflict
  <2>2. worker' \in WorkerType /\ worker'.area \in Areas /\ worker'.op \in Ops
    BY <2>1, WorkerInHand DEF VerdictConflict, WorkerType
  <2> QED
    BY <1>2, <2>2 DEF VerdictConflict, EnvType, QueueType, ViewerType, DiskType, StatType,
       TaskType, ServiceType, HistoryType, InHand
<1> QED
  BY <1>1, <1>2

LEMMA ConflictFetchTyped == ASSUME Typed, ConflictFetch PROVE Typed'
<1> DEFINE fetched == [worker EXCEPT !.doc = Doc(worker.area), !.reply = "doc"]
<1>1. CASE CredentialChanged
  BY <1>1, CredentialChangedTyped DEF ConflictFetch
<1>2. CASE /\ worker' = fetched
           /\ UNCHANGED << verdictFrame, left, areas, attempts, active, shown,
                           wal, unsettled, marks, wakeVars, paused >>
  <2>1. Doc(worker.area) \in DocType
    BY DocTyped, WorkerInHand DEF ConflictFetch
  <2>2. worker' \in WorkerType /\ worker'.area \in Areas /\ worker'.op \in Ops
    BY <1>2, <2>1, WorkerInHand DEF ConflictFetch, WorkerType
  <2> QED
    BY <1>2, <2>2 DEF EnvType, QueueType, ViewerType, DiskType, StatType,
       TaskType, ServiceType, HistoryType, InHand
<1>3. CASE /\ IF Visible(worker.area) THEN Spend("timeout") ELSE UNCHANGED left
           /\ TransportFailure
           /\ WorkerDone
           /\ UNCHANGED << verdictFrame, active, shown, wal, marks, syncWake, paused >>
  <2>1. /\ areas' \in [Areas -> AreaType] /\ attempts' \in [Ops -> Nat]
        /\ unsettled' \in Int /\ wake' \in BOOLEAN
    BY <1>3, TransportTyped DEF ConflictFetch
  <2>2. worker' \in WorkerType /\ worker'.at = "run"
    BY <1>3, WorkerDoneTyped
  <2>3. EnvType'
    BY <1>3, SpendTyped DEF EnvType, Events
  <2> QED
    BY <1>3, <2>1, <2>2, <2>3 DEF QueueType, ViewerType, DiskType, StatType,
       TaskType, ServiceType, HistoryType, InHand
<1> QED
  BY <1>1, <1>2, <1>3 DEF ConflictFetch

LEMMA ConflictApplyTyped == ASSUME Typed, ConflictApply PROVE Typed'
<1> DEFINE a == worker.area
           replayed == ReplayOver([areas[a] EXCEPT !.phase = Ready], worker.doc)
<1>1. CASE CredentialChanged
  BY <1>1, CredentialChangedTyped DEF ConflictApply
<1>2. CASE ~CredentialChanged
  <2>1. a \in Areas /\ areas[a] \in AreaType /\ worker.doc \in DocType
    BY WorkerInHand DEF ConflictApply
  <2>2. [areas[a] EXCEPT !.phase = Ready] \in AreaType
    BY <2>1, PhaseTypes, FieldTypes
  <2>3. replayed \in AreaType
    BY <2>1, <2>2, ReplayType
  <2>4. areas' \in [Areas -> AreaType]
    BY <1>2, <2>1, <2>3, SetAreaTyped DEF ConflictApply, QueueType
  <2>5. shown' \in SUBSET Areas /\ wake' \in BOOLEAN
    BY <1>2, <2>1 DEF ConflictApply, ViewerType, TaskType
  <2>6. worker' \in WorkerType /\ worker'.at = "run"
    BY <1>2, WorkerDoneTyped DEF ConflictApply
  <2> QED
    BY <1>2, <2>4, <2>5, <2>6 DEF ConflictApply, EnvType, QueueType, ViewerType, DiskType,
       StatType, TaskType, ServiceType, HistoryType, InHand
<1> QED
  BY <1>1, <1>2

-----------------------------------------------------------------------------
\* The order of a set of edits.

\* Every set of edits can be listed in the order of their sequence numbers.
LEMMA InOrderExists ==
  \A S \in SUBSET Ops : \E q \in [1..Cardinality(S) -> S] :
    \A i, j \in DOMAIN q : i < j => q[i] < q[j]
<1> DEFINE Listed(n, S) == \E q \in [1..n -> S] :
             \A i, j \in DOMAIN q : i < j => q[i] < q[j]
           Bad == { n \in Nat : \E S \in SUBSET Ops : Cardinality(S) = n /\ ~Listed(n, S) }
<1>1. ASSUME Bad # {} PROVE FALSE
  <2>1. PICK n \in Bad : \A m \in Bad : n <= m
    <3> HIDE DEF Bad
    <3>1. Bad \subseteq Nat
      BY DEF Bad
    <3> QED
      BY <1>1, <3>1, LeastOf
  <2>2. PICK S \in SUBSET Ops : Cardinality(S) = n /\ ~Listed(n, S)
    BY <2>1
  <2>3. n \in Nat /\ IsFiniteSet(S)
    BY <2>1, FinitelyManyOps
  <2>4. CASE S = {}
    <3>1. n = 0
      BY <2>2, <2>4, FS_EmptySet
    <3>2. [i \in {} |-> 0] \in [1..0 -> {}]
      OBVIOUS
    <3> QED
      BY <2>2, <2>4, <3>1, <3>2
  <2>5. CASE S # {}
    <3>1. PICK x \in S : \A y \in S : y <= x
      <4> DEFINE T == { MaxOps - s : s \in S }
      <4>1. T \subseteq Nat /\ T # {}
        <5>1. ASSUME NEW s \in Ops PROVE MaxOps - s \in Nat
          BY QueueAssumption DEF Ops
        <5>2. \A s \in S : MaxOps - s \in Nat
          BY <2>2, <5>1
        <5> QED
          BY <2>5, <5>2
      <4>2. PICK m \in T : \A k \in T : m <= k
        <5> HIDE DEF T
        <5> QED
          BY <4>1, LeastOf
      <4>3. PICK x \in S : m = MaxOps - x
        BY <4>2
      <4>4. \A y \in S : MaxOps - x <= MaxOps - y
        BY <4>2, <4>3
      <4>5. \A y \in S : y \in Int /\ x \in Int
        BY <2>2 DEF Ops
      <4> QED
        BY <4>4, <4>5, QueueAssumption
    <3>2. Cardinality(S \ {x}) = n - 1 /\ n - 1 \in Nat
      <4>1. Cardinality(S \ {x}) = n - 1 /\ Cardinality(S \ {x}) \in Nat
        BY <2>2, <2>3, <3>1, FS_RemoveElement, FinitelyManyOps
      <4> QED
        BY <4>1
    <3>3. Listed(n - 1, S \ {x})
      <4>1. n - 1 \notin Bad
        BY <2>1, <2>3, <3>2
      <4> QED
        BY <2>2, <3>2, <4>1
    <3>4. PICK q \in [1..(n - 1) -> S \ {x}] : \A i, j \in DOMAIN q : i < j => q[i] < q[j]
      BY <3>3
    <3>5. DEFINE r == [i \in 1..n |-> IF i = n THEN x ELSE q[i]]
    <3>6. \A i \in 1..n : i # n => i \in 1..(n - 1) /\ r[i] = q[i] /\ q[i] \in S /\ q[i] < x
      <4> SUFFICES ASSUME NEW i \in 1..n, i # n
                   PROVE  i \in 1..(n - 1) /\ r[i] = q[i] /\ q[i] \in S /\ q[i] < x
        OBVIOUS
      <4>1. i \in 1..(n - 1)
        BY <2>3
      <4>2. q[i] \in S /\ q[i] # x
        BY <3>4, <4>1
      <4>3. q[i] < x
        <5>1. q[i] \in Ops /\ x \in Ops /\ q[i] <= x
          BY <2>2, <3>1, <4>2
        <5> QED
          BY <4>2, <5>1 DEF Ops
      <4> QED
        BY <4>1, <4>2, <4>3
    <3>7. r \in [1..n -> S]
      BY <3>1, <3>6
    <3>8. r[n] = x /\ n \in 1..n
      BY <2>3, <3>2
    <3>9. \A i, j \in 1..n : i < j => r[i] < r[j]
      <4> SUFFICES ASSUME NEW i \in 1..n, NEW j \in 1..n, i < j
                   PROVE  r[i] < r[j]
        OBVIOUS
      <4>1. i # n /\ i \in 1..(n - 1) /\ r[i] = q[i] /\ q[i] < x
        <5>1. i # n
          BY <2>3
        <5> QED
          BY <3>6, <5>1
      <4>2. CASE j = n
        BY <3>8, <4>1, <4>2
      <4>3. CASE j # n
        BY <3>4, <3>6, <4>1, <4>3
      <4> QED
        BY <4>2, <4>3
    <3> HIDE DEF r
    <3>10. Listed(n, S)
      BY <3>7, <3>9
    <3> QED
      BY <2>2, <3>10
  <2> QED
    BY <2>4, <2>5
<1>2. ASSUME NEW S \in SUBSET Ops PROVE Listed(Cardinality(S), S)
  <2>1. Cardinality(S) \in Nat
    BY FinitelyManyOps
  <2>2. Cardinality(S) \notin Bad
    BY <1>1
  <2> HIDE DEF Listed
  <2> QED
    BY <2>1, <2>2
<1> QED
  BY <1>2

\* InOrder lists exactly the edits of the set it is given, each one once.
LEMMA InOrderTyped ==
  ASSUME NEW S \in SUBSET Ops
  PROVE  /\ InOrder(S) \in Seq(Ops)
         /\ \A i \in DOMAIN InOrder(S) : InOrder(S)[i] \in S
         /\ \A i, j \in DOMAIN InOrder(S) : i < j => InOrder(S)[i] < InOrder(S)[j]
<1>1. \E q \in [1..Cardinality(S) -> S] : \A i, j \in DOMAIN q : i < j => q[i] < q[j]
  BY InOrderExists
<1>2. /\ InOrder(S) \in [1..Cardinality(S) -> S]
      /\ \A i, j \in DOMAIN InOrder(S) : i < j => InOrder(S)[i] < InOrder(S)[j]
  BY <1>1 DEF InOrder
<1>3. Cardinality(S) \in Nat
  BY FinitelyManyOps
<1> HIDE DEF InOrder
<1>4. InOrder(S) \in Seq(S)
  BY <1>2, <1>3
<1> QED
  BY <1>2, <1>4

-----------------------------------------------------------------------------
\* The engine.

USE DEF engineFrame

LEMMA EngineIdleTyped ==
  ASSUME Typed, EngineIdle
  PROVE  engine' \in EngineType /\ engine'.at = "idle"
<1>1. engine.gen \in Gens \cup {NoGen}
  BY DEF TaskType, EngineType
<1> QED
  BY <1>1, IdleTyped DEF EngineIdle, IdleEngine

LEMMA TickTyped ==
  ASSUME NEW e \in EngineType, NEW g \in Gens, NEW at \in {"identity", "rows"}
  PROVE  /\ [e EXCEPT !.at = at, !.tick = g] \in EngineType
         /\ [e EXCEPT !.at = at, !.tick = g].at = at
  BY DEF EngineType

LEMMA EngineTickTyped == ASSUME Typed, EngineTick PROVE Typed'
<1>1. engine' \in EngineType /\ engine'.at \in {"identity", "rows"}
  <2>1. engine.gen \in Gens \cup {NoGen} /\ cred \in Gens
    BY DEF TaskType, EngineType, EnvType
  <2>2. engine \in EngineType /\ IdleEngine(engine.gen) \in EngineType
    BY <2>1, IdleTyped DEF TaskType
  <2>3. CASE engine' = [IdleEngine(engine.gen) EXCEPT !.at = "identity", !.tick = cred]
    <3> DEFINE e == IdleEngine(engine.gen)
    <3> HIDE DEF e
    <3>1. e \in EngineType /\ engine' = [e EXCEPT !.at = "identity", !.tick = cred]
      BY <2>2, <2>3 DEF e
    <3> QED
      BY <2>1, <3>1, TickTyped
  <2>4. CASE engine' = [engine EXCEPT !.at = "rows", !.tick = cred]
    BY <2>1, <2>2, <2>4, TickTyped
  <2> QED
    BY <2>3, <2>4 DEF EngineTick
<1>2. ViewerType'
  BY DEF EngineTick, ViewerType
<1> QED
  BY <1>1, <1>2 DEF EngineTick, EnvType, QueueType, DiskType, StatType, TaskType,
     ServiceType, HistoryType, InHand

LEMMA EngineFailTyped == ASSUME Typed, EngineFail PROVE Typed'
<1>1. EnvType'
  BY SpendTyped DEF EngineFail, EnvType, Events
<1>2. engine' \in EngineType /\ engine'.at = "idle"
  <2>1. engine.gen \in Gens \cup {NoGen} /\ engine.seen \in [CloudAreas -> Revs]
    BY DEF TaskType, EngineType
  <2>2. IdleEngine(engine.gen) \in EngineType /\ IdleEngine(engine.gen).at = "idle"
    BY <2>1, IdleTyped DEF IdleEngine
  <2> QED
    BY <2>1, <2>2 DEF EngineFail, EngineType
<1> QED
  BY <1>1, <1>2 DEF EngineFail, QueueType, ViewerType, DiskType, StatType, TaskType,
     ServiceType, HistoryType, InHand

LEMMA ActivateLoadTyped == ASSUME Typed, ActivateLoad PROVE Typed'
<1> DEFINE viewer == ViewerOf[engine.tick]
           live == Loadable(viewer)
<1>1. engine \in EngineType
  BY DEF TaskType
<1>2. live \in SUBSET Ops
  BY DEF Loadable
<1>3. { AreaOf[o] : o \in { p \in live : << AreaOf[p], viewer >> \in intentFiles } }
        \in SUBSET CloudAreas
  BY DEF DiskType, Scopes
<1>4. engine' \in EngineType /\ engine'.at \in {"idle", "rows", "activating"}
  <2>1. CASE EngineIdle
    BY <2>1, EngineIdleTyped
  <2>2. CASE engine' = [engine EXCEPT !.at = "rows", !.gen = engine.tick]
    BY <1>1, <2>2 DEF EngineType
  <2>3. CASE engine' = [engine EXCEPT
               !.at = "activating", !.loaded = live,
               !.frozen = { AreaOf[o] : o \in
                 { p \in live : << AreaOf[p], viewer >> \in intentFiles } }]
    <3> HIDE DEF live
    <3> QED
      BY <1>1, <1>2, <1>3, <2>3 DEF EngineType
  <2> QED
    BY <2>1, <2>2, <2>3 DEF ActivateLoad
<1>5. wal' \in [Ops -> {"none", "json", "gone"}]
  <2>1. wal' = wal \/ Retire({ o \in Ops : owner[o] = viewer } \ live)
    BY DEF ActivateLoad
  <2> QED
    BY <2>1, RetireTyped DEF DiskType
<1> QED
  BY <1>4, <1>5 DEF ActivateLoad, EnvType, QueueType, ViewerType, DiskType, StatType,
     TaskType, ServiceType, HistoryType, InHand

LEMMA ActivateInstallTyped == ASSUME Typed, ActivateInstall PROVE Typed'
<1> DEFINE gone == { a \in CloudAreas : areas[a].queue # << >> }
           remaining(a) == IF a \in gone THEN GoneArea(areas[a]) ELSE areas[a]
           restored(a) == InOrder({ o \in engine.loaded : AreaOf[o] = a })
           old == expired \cup (engine.loaded \cap aged)
           newly == engine.loaded \ accounted
<1>1. engine \in EngineType /\ engine.loaded \in SUBSET Ops
      /\ engine.tick \in Gens \cup {NoGen} /\ engine.frozen \in SUBSET CloudAreas
  BY DEF TaskType, EngineType
<1>2. \A a \in Areas : restored(a) \in Seq(Ops)
  BY <1>1, InOrderTyped
<1>3. old \in SUBSET Ops
  BY <1>1 DEF QueueType
<1>4. \A a \in Areas : remaining(a) \in AreaType
  BY GoneTyped DEF QueueType
<1>5. QueueType'
  <2>1. ASSUME NEW a \in Areas
        PROVE  ParkExpiredHead([remaining(a) EXCEPT !.queue = restored(a),
                                                    !.needsBase = TRUE], old) \in AreaType
    <3> HIDE DEF remaining, restored, old
    <3>1. [remaining(a) EXCEPT !.queue = restored(a), !.needsBase = TRUE] \in AreaType
      BY <1>2, <1>4, FieldTypes
    <3> QED
      BY <1>3, <3>1, ParkType
  <2>2. areas' \in [Areas -> AreaType]
    <3>1. areas' = [a \in Areas |->
            IF restored(a) # << >>
              THEN ParkExpiredHead([remaining(a) EXCEPT !.queue = restored(a),
                                                        !.needsBase = TRUE], old)
              ELSE remaining(a)]
      BY DEF ActivateInstall
    <3> HIDE DEF remaining, restored, old
    <3> QED
      BY <1>4, <2>1, <3>1
  <2>3. expired' = old
    BY DEF ActivateInstall
  <2>4. gen' \in [Ops -> Gens \cup {NoGen}] /\ attempts' \in [Ops -> Nat]
    BY <1>1 DEF ActivateInstall, QueueType
  <2>5. staged' \in SUBSET Ops
    BY DEF ActivateInstall, QueueType
  <2> HIDE DEF old
  <2> QED
    BY <1>3, <2>2, <2>3, <2>4, <2>5 DEF QueueType
<1>6. ViewerType'
  BY <1>1 DEF ActivateInstall, ViewerType, Areas
<1>7. StatType'
  <2>1. Cardinality(newly) \in Nat /\ Cardinality(newly \cap aged) \in Nat
    BY <1>1, FinitelyManyOps
  <2>2. unsettled' \in Int
    <3>1. unsettled' = unsettled + Cardinality(newly) - Cardinality(newly \cap aged)
      BY DEF ActivateInstall
    <3>2. unsettled \in Int
      BY DEF StatType
    <3> HIDE DEF newly
    <3> QED
      BY <2>1, <3>1, <3>2
  <2>3. accounted' \in SUBSET Ops
    BY <1>1 DEF ActivateInstall, StatType
  <2>4. ASSUME NEW a \in Areas
        PROVE  Lower(marks[a], IF a \in gone THEN Len(areas[a].queue) ELSE 0)
                 + Len(restored(a)) \in Nat
    <3>1. areas[a].queue \in Seq(Ops) /\ marks[a] \in Nat
      BY FieldTypes DEF QueueType, StatType
    <3>2. Len(areas[a].queue) \in Nat /\ Len(restored(a)) \in Nat
      BY <1>2, <3>1
    <3> HIDE DEF restored
    <3>3. Lower(marks[a], IF a \in gone THEN Len(areas[a].queue) ELSE 0) \in Nat
      BY <3>1, <3>2, LowerTyped
    <3> QED
      BY <3>2, <3>3
  <2>5. marks' \in [Areas -> Nat]
    <3>1. marks' = [a \in Areas |->
             Lower(marks[a], IF a \in gone THEN Len(areas[a].queue) ELSE 0)
               + Len(restored(a))]
      BY DEF ActivateInstall
    <3> HIDE DEF restored, gone
    <3> QED
      BY <2>4, <3>1
  <2> QED
    BY <2>2, <2>3, <2>5 DEF StatType
<1>8. engine' \in EngineType /\ engine'.at = "rows"
  BY <1>1 DEF ActivateInstall, EngineType
<1>9. TaskType' /\ InHand'
  BY <1>8 DEF ActivateInstall, TaskType, InHand
<1> QED
  BY <1>5, <1>6, <1>7, <1>9
  DEF ActivateInstall, EnvType, DiskType, ServiceType, HistoryType

LEMMA EngineAskTyped == ASSUME Typed, EngineAsk PROVE Typed'
<1>1. \A a \in CloudAreas : (IF Visible(a) THEN srv[a].rev ELSE NoRev) \in Revs
  BY DEF ServiceType, Areas, Revs, NoRev
<1>2. shown \cap CloudAreas \in SUBSET CloudAreas
  OBVIOUS
<1>3. engine' \in EngineType /\ engine'.at = "asked"
  BY <1>1, <1>2 DEF EngineAsk, TaskType, EngineType
<1> QED
  BY <1>3 DEF EngineAsk, EnvType, QueueType, ViewerType, DiskType, StatType, TaskType,
     ServiceType, HistoryType, InHand

LEMMA EngineRowsTyped == ASSUME Typed, EngineRows PROVE Typed'
<1> DEFINE rows == engine.rows
           present == { a \in CloudAreas : rows[a] # NoRev }
<1>1. engine \in EngineType /\ rows \in [CloudAreas -> Revs]
      /\ engine.gen \in Gens \cup {NoGen} /\ engine.seen \in [CloudAreas -> Revs]
  BY DEF TaskType, EngineType
<1>2. areas' \in [Areas -> AreaType]
  <2>1. \A a \in present : Confirm(areas[a], rows[a]) \in AreaType
    BY <1>1, ConfirmType DEF QueueType, Areas
  <2>2. \/ areas' = areas
        \/ areas' = [a \in Areas |->
             IF RowsCarryRevisions /\ a \in present
               THEN Confirm(areas[a], rows[a]) ELSE areas[a]]
    BY DEF EngineRows
  <2> HIDE DEF present, rows
  <2> QED
    BY <2>1, <2>2 DEF QueueType
<1>3. shown' \in SUBSET Areas
  BY DEF EngineRows, ViewerType
<1>4. engine' \in EngineType /\ engine'.at \in {"idle", "rest"}
  <2>1. CASE cred # engine.tick
    <3>1. IdleEngine(engine.gen) \in EngineType /\ IdleEngine(engine.gen).at = "idle"
      BY <1>1, IdleTyped DEF IdleEngine
    <3>2. engine' = [IdleEngine(engine.gen) EXCEPT !.seen = engine.seen]
      BY <2>1 DEF EngineRows
    <3> QED
      BY <1>1, <3>1, <3>2 DEF EngineType
  <2>2. CASE cred = engine.tick
    <3> DEFINE todo == Recovering \cup { a \in present : rows[a] # engine.seen[a] }
    <3>1. todo \in SUBSET CloudAreas
      BY DEF Recovering
    <3>2. engine' = [engine EXCEPT !.at = "rest", !.listed = {}, !.todo = todo]
      BY <2>2 DEF EngineRows
    <3> HIDE DEF todo
    <3> QED
      BY <1>1, <3>1, <3>2 DEF EngineType
  <2> QED
    BY <2>1, <2>2
<1> QED
  BY <1>2, <1>3, <1>4 DEF EngineRows, EnvType, QueueType, ViewerType, DiskType, StatType,
     TaskType, ServiceType, HistoryType, InHand

LEMMA ScopesTyped ==
  ASSUME DiskType, NEW a \in CloudAreas, NEW S \in SUBSET Ops
  PROVE  { << a, owner[o] >> : o \in { p \in S : IsCloud(p) } } \in SUBSET Scopes
  BY DEF DiskType, Scopes

\* What a delete's commit leaves behind.
CommitTyped ==
  /\ areas' \in [Areas -> AreaType] /\ wal' \in [Ops -> {"none", "json", "gone"}]
  /\ tombstones' \in SUBSET Scopes /\ intentFiles' \in SUBSET Scopes
  /\ deleting' \in SUBSET Areas /\ intents' \in SUBSET Areas
  /\ accounted' \in SUBSET Ops /\ discarded' \in SUBSET Ops /\ wake' \in BOOLEAN
  /\ unsettled' \in Int /\ marks' \in [Areas -> Nat]

LEMMA CommitDeleteTyped ==
  ASSUME Typed, NEW a \in CloudAreas, NEW tracked \in Nat, CommitDelete(a, tracked)
  PROVE  CommitTyped
<1> DEFINE ops == Queued(areas[a])
           counted == Cardinality(ops \cap accounted)
           scopes == { << a, owner[o] >> : o \in { p \in ops : IsCloud(p) } }
<1>1. a \in Areas /\ ops \in SUBSET Ops
  BY QueuedType DEF QueueType, Areas
<1>2. scopes \in SUBSET Scopes
  BY <1>1, ScopesTyped
<1>3. tombstones' \in SUBSET Scopes /\ intentFiles' \in SUBSET Scopes
  <2> HIDE DEF ops
  <2>1. tombstones' = tombstones \cup scopes /\ intentFiles' = intentFiles \ scopes
    BY DEF CommitDelete, ops
  <2> HIDE DEF scopes
  <2> QED
    BY <1>2, <2>1 DEF DiskType
<1>4. deleting' \in SUBSET Areas /\ intents' \in SUBSET Areas
  BY DEF CommitDelete, ViewerType
<1>5. areas' \in [Areas -> AreaType]
  <2>1. GoneArea(areas[a]) \in AreaType
    BY <1>1, GoneTyped DEF QueueType
  <2> QED
    BY <1>1, <2>1, SetAreaTyped DEF CommitDelete
<1>6. wal' \in [Ops -> {"none", "json", "gone"}]
  BY RetireTyped DEF CommitDelete
<1>7. accounted' \in SUBSET Ops /\ discarded' \in SUBSET Ops /\ wake' \in BOOLEAN
  BY <1>1 DEF CommitDelete, StatType, HistoryType
<1>8. unsettled' \in Int /\ marks' \in [Areas -> Nat]
  <2>1. counted \in Nat
    BY <1>1, FinitelyManyOps
  <2>2. unsettled' = unsettled - counted - tracked
        /\ marks' = [marks EXCEPT ![a] = Lower(Lower(@, counted), tracked)]
    BY DEF CommitDelete
  <2> HIDE DEF counted
  <2>3. Lower(Lower(marks[a], counted), tracked) \in Nat
    <3>1. marks[a] \in Nat
      BY <1>1 DEF StatType
    <3>2. Lower(marks[a], counted) \in Nat
      BY <2>1, <3>1, LowerTyped
    <3> QED
      BY <3>2, LowerTyped
  <2>4. marks' \in [Areas -> Nat]
    BY <2>2, <2>3 DEF StatType
  <2>5. unsettled' \in Int
    BY <2>1, <2>2 DEF StatType
  <2> QED
    BY <2>4, <2>5
<1> QED
  BY <1>3, <1>4, <1>5, <1>6, <1>7, <1>8 DEF CommitTyped

LEMMA AbortDeleteTyped ==
  ASSUME Typed, NEW a \in CloudAreas, AbortDelete(a)
  PROVE  /\ tombstones' \in SUBSET Scopes /\ intentFiles' \in SUBSET Scopes
         /\ deleting' \in SUBSET Areas /\ intents' \in SUBSET Areas
  BY DEF AbortDelete, DiskType, ViewerType

LEMMA RecoverTyped ==
  ASSUME Typed, NEW a \in CloudAreas, RecoverUnavailable(a)
  PROVE  CommitTyped
<1>1. CASE a \in intents
  BY <1>1, CommitDeleteTyped DEF RecoverUnavailable
<1>2. CASE a \notin intents
  <2>1. a \in Areas /\ areas[a] \in AreaType
    BY DEF QueueType, Areas
  <2>2. areas[a].queue # << >> =>
          [areas[a] EXCEPT !.baseFailed = TRUE, !.phase = Failed(HeadOp(areas[a]), TRUE)]
            \in AreaType
    <3>1. areas[a].queue # << >> => Failed(HeadOp(areas[a]), TRUE) \in PhaseType
      BY <2>1, QueuedType, PhaseTypes
    <3> QED
      BY <2>1, <3>1, FieldTypes
  <2>3. areas' \in [Areas -> AreaType]
    BY <1>2, <2>1, <2>2, SetAreaTyped DEF RecoverUnavailable, QueueType
  <2>4. unsettled' \in Int
    BY <1>2 DEF RecoverUnavailable, StatType
  <2> QED
    BY <1>2, <2>3, <2>4 DEF RecoverUnavailable, CommitTyped, ViewerType, DiskType, StatType,
       TaskType, HistoryType
<1> QED
  BY <1>1, <1>2

LEMMA EngineFetchTyped ==
  ASSUME Typed, NEW a \in CloudAreas, EngineFetch(a) PROVE Typed'
<1> DEFINE nothing == << areas, fenceVars, wal, markerVars, statVars, discarded, wake >>
           fetching == [engine EXCEPT
             !.at = "fetched", !.area = a, !.doc = Doc(a),
             !.before = areas[a].confirmed, !.token = Token(a)]
           dropped == [engine EXCEPT !.todo = @ \ {a}]
<1>1. engine \in EngineType /\ engine.at = "rest" /\ a \in Areas /\ areas[a] \in AreaType
  BY DEF EngineFetch, TaskType, QueueType, Areas
<1>2. /\ areas[a].confirmed \in Revs /\ areas[a].token \in Revs
  BY <1>1, FieldTypes
<1>3. Token(a) \in Revs /\ Doc(a) \in DocType
  BY <1>1, <1>2, DocTyped DEF Token, Revs, NoRev
<1>4. EngineSkips(a) \in EngineType /\ EngineSkips(a).at = "rest"
  BY <1>1 DEF EngineSkips, EngineType
<1>5. fetching \in EngineType /\ fetching.area = a
  BY <1>1, <1>2, <1>3 DEF EngineType
<1>6. dropped \in EngineType /\ dropped.at = "rest"
  BY <1>1 DEF EngineType
<1>7. engine' \in EngineType /\ (engine'.at = "fetched" => engine'.area \in CloudAreas)
  <2>1. \/ engine' = EngineSkips(a) \/ EngineIdle
        \/ engine' = fetching \/ engine' = dropped
    BY DEF EngineFetch
  <2> HIDE DEF fetching, dropped
  <2> QED
    BY <1>4, <1>5, <1>6, <2>1, EngineIdleTyped
<1>8. EnvType' /\ syncWake' \in BOOLEAN
  BY SpendTyped DEF EngineFetch, EnvType, Events, TaskType
<1>9. CommitTyped
  <2>1. CASE UNCHANGED nothing
    BY <2>1 DEF CommitTyped, QueueType, ViewerType, DiskType, StatType, TaskType, HistoryType
  <2>2. CASE RecoverUnavailable(a)
    BY <2>2, RecoverTyped
  <2> QED
    BY <2>1, <2>2 DEF EngineFetch
<1> QED
  BY <1>7, <1>8, <1>9 DEF EngineFetch, CommitTyped, QueueType, ViewerType, DiskType, StatType,
     TaskType, ServiceType, HistoryType, InHand

LEMMA BaseLoadedTyped ==
  ASSUME NEW area \in AreaType, expired \in SUBSET Ops
  PROVE  BaseLoaded(area) \in AreaType
<1>1. [area EXCEPT !.needsBase = FALSE, !.baseFailed = FALSE] \in AreaType
  BY FieldTypes
<1> QED
  BY <1>1, ResumeType DEF BaseLoaded

LEMMA EngineAdoptTyped == ASSUME Typed, EngineAdopt PROVE Typed'
<1> DEFINE a == engine.area
           replayed == ReplayOver(areas[a], engine.doc)
           rested == [engine EXCEPT !.at = "rest", !.area = NoArea, !.doc = NoDoc,
                   !.before = NoRev, !.token = NoRev, !.todo = @ \ {a},
                   !.late = IF Outdated(a) THEN @ \cup {a} ELSE @]
<1>1. a \in CloudAreas /\ a \in Areas /\ areas[a] \in AreaType /\ engine \in EngineType
      /\ engine.doc \in DocType
  BY DEF EngineAdopt, TaskType, EngineType, QueueType, Areas, InHand
<1>2. areas' \in [Areas -> AreaType]
  <2>1. replayed \in AreaType
    BY <1>1, ReplayType
  <2>2. BaseLoaded(replayed) \in AreaType
    BY <2>1, BaseLoadedTyped DEF QueueType
  <2>3. areas' = areas \/ SetArea(a, BaseLoaded(replayed))
    BY DEF EngineAdopt
  <2> QED
    BY <1>1, <2>2, <2>3, SetAreaTyped DEF QueueType
<1>3. engine' \in EngineType /\ engine'.at \in {"idle", "rest"}
  <2>1. NoDoc \in DocType /\ NoRev \in Revs
    BY DEF NoDoc, DocType, Revs, NoRev
  <2>2. rested \in EngineType /\ rested.at = "rest"
    BY <1>1, <2>1 DEF EngineType
  <2>3. EngineIdle \/ engine' = rested
    BY DEF EngineAdopt
  <2> HIDE DEF rested
  <2> QED
    BY <2>2, <2>3, EngineIdleTyped
<1>4. /\ tombstones' \in SUBSET Scopes /\ intentFiles' \in SUBSET Scopes
      /\ deleting' \in SUBSET Areas /\ intents' \in SUBSET Areas
  <2>1. AbortDelete(a) \/ UNCHANGED << fenceVars, markerVars >>
    BY DEF EngineAdopt
  <2> QED
    BY <1>1, <2>1, AbortDeleteTyped DEF DiskType, ViewerType
<1>5. shown' \in SUBSET Areas /\ unsettled' \in Int /\ wake' \in BOOLEAN
  <2>1. areas[a].baseFailed \in BOOLEAN
    BY <1>1 DEF AreaType
  <2>2. shown' = shown \/ shown' = shown \cup {a}
    BY DEF EngineAdopt
  <2>3. unsettled' \in {unsettled, unsettled + 1, unsettled + 0}
    BY DEF EngineAdopt
  <2>4. wake' \in BOOLEAN
    BY DEF EngineAdopt, TaskType
  <2> QED
    BY <1>1, <2>2, <2>3, <2>4 DEF ViewerType, StatType
<1> QED
  BY <1>2, <1>3, <1>4, <1>5 DEF EngineAdopt, EnvType, QueueType, ViewerType, DiskType,
     StatType, TaskType, ServiceType, HistoryType, InHand

LEMMA EngineDoneTyped == ASSUME Typed, EngineDone PROVE Typed'
<1> DEFINE seen == [a \in CloudAreas |->
             IF a \in engine.late THEN engine.seen[a] ELSE engine.rows[a]]
<1>1. engine.gen \in Gens \cup {NoGen} /\ seen \in [CloudAreas -> Revs]
  BY DEF TaskType, EngineType
<1>2. IdleEngine(engine.gen) \in EngineType /\ IdleEngine(engine.gen).at = "idle"
  BY <1>1, IdleTyped DEF IdleEngine
<1>3. engine' \in EngineType /\ engine'.at = "idle"
  <2>1. engine' = [IdleEngine(engine.gen) EXCEPT !.seen = seen]
    BY DEF EngineDone
  <2> HIDE DEF seen
  <2> QED
    BY <1>1, <1>2, <2>1 DEF EngineType
<1> QED
  BY <1>3 DEF EngineDone, EnvType, QueueType, ViewerType, DiskType, StatType, TaskType,
     ServiceType, HistoryType, InHand

LEMMA RequestSyncTyped == ASSUME Typed, RequestSync PROVE Typed'
<1>1. EnvType'
  BY SpendTyped DEF RequestSync, EnvType, Events
<1> QED
  BY <1>1 DEF RequestSync, QueueType, ViewerType, DiskType, StatType, TaskType,
     ServiceType, HistoryType, InHand

LEMMA LoginTyped == ASSUME Typed, Login PROVE Typed'
<1>1. EnvType'
  BY PendingAssumption DEF Login, EnvType, Gens
<1> QED
  BY <1>1 DEF Login, QueueType, ViewerType, DiskType, StatType, TaskType,
     ServiceType, HistoryType, InHand

-----------------------------------------------------------------------------
\* Deletion.

USE DEF deleteFrame

LEMMA DeleteBeginTyped ==
  ASSUME Typed, NEW a \in CloudAreas, DeleteBegin(a) PROVE Typed'
<1>1. EnvType'
  BY SpendTyped DEF DeleteBegin, EnvType, Events
<1>2. ViewerType'
  BY DEF DeleteBegin, ViewerType, Areas
<1>3. del' \in DeleteType /\ del'.area \in CloudAreas
  <2>1. cred \in Gens
    BY DEF EnvType
  <2>2. NoDelete \in DeleteType
    BY IdleTyped
  <2> QED
    BY <2>1, <2>2 DEF DeleteBegin, DeleteType
<1> QED
  BY <1>1, <1>2, <1>3 DEF DeleteBegin, QueueType, DiskType, StatType, TaskType,
     ServiceType, HistoryType, InHand

LEMMA DeletePrepareTyped == ASSUME Typed, DeletePrepare PROVE Typed'
<1> DEFINE a == del.area
           ops == Queued(areas[a])
           scopes == { << a, owner[o] >> : o \in { p \in ops : IsCloud(p) } }
<1>1. a \in CloudAreas /\ a \in Areas /\ del \in DeleteType
  BY DEF DeletePrepare, TaskType, Areas, InHand
<1>2. DiskType'
  <2>1. ops \in SUBSET Ops
    BY <1>1, QueuedType DEF QueueType
  <2>2. scopes \in SUBSET Scopes
    BY <1>1, <2>1, ScopesTyped
  <2>3. intentFiles' = intentFiles \cup (scopes \ tombstones)
    BY DEF DeletePrepare
  <2> HIDE DEF scopes
  <2>4. intentFiles' \in SUBSET Scopes
    BY <2>2, <2>3 DEF DiskType
  <2> QED
    BY <2>4 DEF DeletePrepare, DiskType
<1>3. ViewerType'
  BY <1>1 DEF DeletePrepare, ViewerType
<1>4. StatType'
  BY <1>1 DEF DeletePrepare, StatType
<1>5. netDel' \in SUBSET CloudAreas
  BY <1>1 DEF DeletePrepare, ServiceType
<1>6. del' \in DeleteType /\ del'.area = a
  BY <1>1 DEF DeletePrepare, DeleteType
<1> QED
  BY <1>1, <1>2, <1>3, <1>4, <1>5, <1>6 DEF DeletePrepare, EnvType, QueueType, TaskType,
     ServiceType, HistoryType, InHand

LEMMA NoDeleteTyped ==
  ASSUME del' = NoDelete
  PROVE  del' \in DeleteType /\ del'.at = "none"
  BY IdleTyped DEF NoDelete

LEMMA DeleteSucceedsTyped == ASSUME Typed, DeleteSucceeds PROVE Typed'
<1>1. del.area \in CloudAreas
  BY DEF DeleteSucceeds, InHand
<1>2. CommitTyped
  <2>1. CommitDelete(del.area, 1) /\ 1 \in Nat
    BY DEF DeleteSucceeds
  <2> QED
    BY <1>1, <2>1, CommitDeleteTyped
<1>3. shown' \in SUBSET Areas
  BY DEF DeleteSucceeds, ViewerType
<1>4. del' \in DeleteType /\ (del'.at = "none" \/ del'.area \in CloudAreas)
  <2>1. CASE cred = del.gen
    <3>1. del' = [del EXCEPT !.at = "committed"] /\ del \in DeleteType
      BY <2>1 DEF DeleteSucceeds, TaskType
    <3> QED
      BY <1>1, <3>1 DEF DeleteType
  <2>2. CASE cred # del.gen
    BY <2>2, NoDeleteTyped DEF DeleteSucceeds
  <2> QED
    BY <2>1, <2>2
<1> QED
  BY <1>2, <1>3, <1>4 DEF DeleteSucceeds, CommitTyped, EnvType, QueueType, ViewerType,
     DiskType, StatType, TaskType, ServiceType, HistoryType, InHand

LEMMA DeleteLeavesTyped == ASSUME Typed, DeleteLeaves PROVE Typed'
<1>1. shown' \in SUBSET Areas /\ wake' = wake
  BY DEF DeleteLeaves, ViewerType, wakeVars
<1>2. del' \in DeleteType /\ del'.at = "none"
  BY NoDeleteTyped DEF DeleteLeaves
<1> QED
  BY <1>1, <1>2 DEF DeleteLeaves, EnvType, QueueType, ViewerType, DiskType, StatType,
     TaskType, ServiceType, HistoryType, InHand

LEMMA DeleteAmbiguousTyped == ASSUME Typed, DeleteAmbiguous PROVE Typed'
<1> DEFINE a == del.area
<1>1. a \in CloudAreas /\ a \in Areas /\ areas[a] \in AreaType
  BY DEF DeleteAmbiguous, InHand, QueueType, Areas
<1>2. EnvType'
  BY SpendTyped DEF DeleteAmbiguous, EnvType, Events
<1>3. areas' \in [Areas -> AreaType]
  <2>1. [areas[a] EXCEPT !.needsBase = TRUE] \in AreaType
    BY <1>1, FieldTypes
  <2> QED
    BY <1>1, <2>1, SetAreaTyped DEF DeleteAmbiguous
<1>4. ViewerType'
  BY <1>1 DEF DeleteAmbiguous, ViewerType
<1>5. StatType'
  <2>1. marks' \in [Areas -> Nat]
    BY <1>1, LowerTyped DEF DeleteAmbiguous, StatType
  <2> QED
    BY <2>1 DEF DeleteAmbiguous, StatType
<1>6. del' \in DeleteType /\ del'.at = "none"
  BY NoDeleteTyped DEF DeleteAmbiguous
<1>7. wake' \in BOOLEAN /\ syncWake' \in BOOLEAN
  BY DEF DeleteAmbiguous, TaskType
<1> QED
  BY <1>2, <1>3, <1>4, <1>5, <1>6, <1>7 DEF DeleteAmbiguous, QueueType, DiskType, TaskType,
     ServiceType, HistoryType, InHand

LEMMA DeleteAbandonTyped == ASSUME Typed, DeleteAbandon PROVE Typed'
<1>1. del.area \in CloudAreas
  BY DEF DeleteAbandon, InHand
<1>2. EnvType'
  BY SpendTyped DEF DeleteAbandon, EnvType, Events
<1>3. /\ tombstones' \in SUBSET Scopes /\ intentFiles' \in SUBSET Scopes
      /\ deleting' \in SUBSET Areas /\ intents' \in SUBSET Areas
  BY <1>1, AbortDeleteTyped DEF DeleteAbandon
<1>4. del' \in DeleteType /\ del'.at = "none"
  BY NoDeleteTyped DEF DeleteAbandon
<1> QED
  BY <1>2, <1>3, <1>4 DEF DeleteAbandon, QueueType, ViewerType, DiskType, StatType, TaskType,
     ServiceType, HistoryType, InHand

-----------------------------------------------------------------------------
\* The map service.

USE DEF serviceFrame

Replies == {"none", "ok", "conflict", "refused", "held", "upgrade",
            "transport", "credential", "doc"}

LEMMA AnswerTyped ==
  ASSUME Typed, NEW m, NEW reply \in Replies, NEW rev \in Revs, Answer(m, reply, rev)
  PROVE  worker' \in WorkerType
         /\ (worker'.at \in {"wire", "refetch"} => worker'.area \in Areas /\ worker'.op \in Ops)
<1>1. worker \in WorkerType /\ worker.rev \in Revs
  BY WorkerInHand
<1>2. (IF reply = "ok" THEN rev ELSE worker.rev) \in Revs
  BY <1>1
<1> QED
  BY <1>1, <1>2 DEF Answer, WorkerType, Replies, InHand

LEMMA ServiceHandlesTyped ==
  ASSUME Typed, NEW m \in net, ServiceHandles(m) PROVE Typed'
<1> DEFINE o == m.op  a == AreaOf[o]
<1>1. o \in Ops /\ a \in Areas
  BY PendingAssumption DEF ServiceType
<1>2. srv[a].rev + 1 \in Revs /\ receipts[o] \in Revs /\ NoRev \in Revs
  BY <1>1 DEF ServiceType, Revs, NoRev
<1>3. /\ worker' \in WorkerType
      /\ worker'.at \in {"wire", "refetch"} => worker'.area \in Areas /\ worker'.op \in Ops
  <2>1. \/ Answer(m, "ok", srv[a].rev + 1) \/ Answer(m, "refused", NoRev)
        \/ Answer(m, "ok", receipts[o]) \/ Answer(m, "conflict", NoRev)
    BY DEF ServiceHandles
  <2>2. {"ok", "refused", "conflict"} \subseteq Replies
    BY DEF Replies
  <2> QED
    BY <1>2, <2>1, <2>2, AnswerTyped
<1>4. ServiceType'
  <2>1. net' \in SUBSET [op : Ops, rev : Revs, gen : Gens \cup {NoGen}]
    BY DEF ServiceHandles, ServiceType
  <2>2. receipts' \in [Ops -> Revs]
    BY <1>1, <1>2 DEF ServiceHandles, ServiceType
  <2>3. [srv[a] EXCEPT !.rev = @ + 1, !.log = Append(@, o)] \in
          [exists : BOOLEAN, rev : Revs, log : Seq(Ops), broken : SUBSET Ops]
    <3>1. srv[a] \in [exists : BOOLEAN, rev : Revs, log : Seq(Ops), broken : SUBSET Ops]
      BY <1>1 DEF ServiceType
    <3>2. Append(srv[a].log, o) \in Seq(Ops)
      BY <1>1, <3>1
    <3> QED
      BY <1>2, <3>1, <3>2
  <2>4. srv' = srv \/ srv' = [srv EXCEPT ![a] = [srv[a] EXCEPT !.rev = @ + 1,
                                                              !.log = Append(@, o)]]
    BY DEF ServiceHandles
  <2>5. srv' \in [Areas -> [exists : BOOLEAN, rev : Revs, log : Seq(Ops),
                            broken : SUBSET Ops]]
    BY <1>1, <2>3, <2>4 DEF ServiceType
  <2> QED
    BY <2>1, <2>2, <2>5 DEF ServiceHandles, ServiceType
<1>5. HistoryType'
  BY <1>1 DEF ServiceHandles, HistoryType
<1> QED
  BY <1>3, <1>4, <1>5 DEF ServiceHandles, EnvType, QueueType, ViewerType, DiskType, StatType,
     TaskType, InHand

LEMMA ServiceRefusesTyped ==
  ASSUME Typed, NEW m \in net, NEW e \in Events, ServiceRefuses(m, e) PROVE Typed'
<1>1. EnvType'
  BY SpendTyped DEF ServiceRefuses, EnvType
<1>2. /\ worker' \in WorkerType
      /\ worker'.at \in {"wire", "refetch"} => worker'.area \in Areas /\ worker'.op \in Ops
  <2>1. e \in Replies /\ NoRev \in Revs
    BY DEF ServiceRefuses, Replies, Revs, NoRev
  <2> QED
    BY <2>1, AnswerTyped DEF ServiceRefuses
<1> QED
  BY <1>1, <1>2 DEF ServiceRefuses, QueueType, ViewerType, DiskType, StatType, TaskType,
     ServiceType, HistoryType, InHand

LEMMA RequestTimesOutTyped == ASSUME Typed, RequestTimesOut PROVE Typed'
<1>1. EnvType'
  BY SpendTyped DEF RequestTimesOut, EnvType, Events
<1>2. /\ worker' \in WorkerType
      /\ worker'.at \in {"wire", "refetch"} => worker'.area \in Areas /\ worker'.op \in Ops
  BY WorkerInHand DEF RequestTimesOut, WorkerType
<1>3. ServiceType'
  BY DEF RequestTimesOut, ServiceType
<1> QED
  BY <1>1, <1>2, <1>3 DEF RequestTimesOut, QueueType, ViewerType, DiskType, StatType, TaskType,
     HistoryType, InHand

LEMMA ServiceDeletesTyped ==
  ASSUME Typed, NEW a \in CloudAreas, ServiceDeletes(a) PROVE Typed'
<1>1. a \in Areas
  BY DEF Areas
<1>2. ServiceType'
  <2>1. srv[a] \in [exists : BOOLEAN, rev : Revs, log : Seq(Ops), broken : SUBSET Ops]
    BY <1>1 DEF ServiceType
  <2>2. [srv[a] EXCEPT !.exists = @ /\ ~Visible(a)] \in
          [exists : BOOLEAN, rev : Revs, log : Seq(Ops), broken : SUBSET Ops]
    BY <2>1
  <2>3. srv' = [srv EXCEPT ![a] = [srv[a] EXCEPT !.exists = @ /\ ~Visible(a)]]
    BY DEF ServiceDeletes
  <2>4. srv' \in [Areas -> [exists : BOOLEAN, rev : Revs, log : Seq(Ops),
                            broken : SUBSET Ops]]
    BY <1>1, <2>2, <2>3 DEF ServiceType
  <2> QED
    BY <2>4 DEF ServiceDeletes, ServiceType
<1>3. del' \in DeleteType /\ (del'.at # "none" => del'.area \in CloudAreas)
  BY DEF ServiceDeletes, TaskType, DeleteType, InHand
<1> QED
  BY <1>2, <1>3 DEF ServiceDeletes, EnvType, QueueType, ViewerType, DiskType, StatType,
     TaskType, HistoryType, InHand

LEMMA ForeignEditTyped ==
  ASSUME Typed, NEW a \in CloudAreas, ForeignEdit(a) PROVE Typed'
<1>1. a \in Areas
  BY DEF Areas
<1>2. EnvType'
  BY SpendTyped DEF ForeignEdit, EnvType, Events
<1>3. ServiceType'
  <2>1. PICK B \in SUBSET {o \in Ops : AreaOf[o] = a} :
          srv' = [srv EXCEPT ![a].rev = @ + 1, ![a].broken = B]
    BY Zenon DEF ForeignEdit
  <2>2. srv' = [srv EXCEPT ![a] = [srv[a] EXCEPT !.rev = @ + 1, !.broken = B]]
    BY <1>1, <2>1 DEF ServiceType
  <2>3. B \in SUBSET Ops
    OBVIOUS
  <2>4. srv[a] \in [exists : BOOLEAN, rev : Revs, log : Seq(Ops), broken : SUBSET Ops]
    BY <1>1 DEF ServiceType
  <2>5. [srv[a] EXCEPT !.rev = @ + 1, !.broken = B] \in
          [exists : BOOLEAN, rev : Revs, log : Seq(Ops), broken : SUBSET Ops]
    <3>1. srv[a].rev + 1 \in Revs
      BY <2>4 DEF Revs
    <3> QED
      BY <2>3, <2>4, <3>1
  <2>6. srv' \in [Areas -> [exists : BOOLEAN, rev : Revs, log : Seq(Ops),
                            broken : SUBSET Ops]]
    BY <1>1, <2>2, <2>5 DEF ServiceType
  <2> QED
    BY <2>6 DEF ForeignEdit, ServiceType
<1> QED
  BY <1>2, <1>3 DEF ForeignEdit, QueueType, ViewerType, DiskType, StatType,
     TaskType, HistoryType, InHand

LEMMA AccessChangesTyped ==
  ASSUME Typed, NEW a \in CloudAreas, AccessChanges(a) PROVE Typed'
<1>1. EnvType'
  BY SpendTyped DEF AccessChanges, EnvType, Events
<1>2. ServiceType'
  BY DEF AccessChanges, ServiceType
<1> QED
  BY <1>1, <1>2 DEF AccessChanges, QueueType, ViewerType, DiskType, StatType,
     TaskType, HistoryType, InHand

-----------------------------------------------------------------------------
\* The process.

LEMMA CrashTyped == ASSUME Typed, Crash PROVE Typed'
<1>1. EnvType'
  <2>1. left' \in [Events -> Nat]
    BY SpendTyped DEF Crash, Events
  <2> QED
    BY <2>1 DEF Crash, EnvType
<1>2. QueueType'
  BY EmptyTypes DEF Crash, QueueType
<1>3. ViewerType'
  BY DEF Crash, ViewerType
<1>4. StatType'
  BY DEF Crash, StatType
<1>5. TaskType' /\ InHand'
  <2>1. IdleWorker.at = "run" /\ IdleEngine(NoGen).at = "idle" /\ NoDelete.at = "none"
    BY DEF IdleWorker, IdleEngine, NoDelete
  <2>2. IdleEngine(NoGen) \in EngineType
    BY IdleTyped
  <2> QED
    BY <2>1, <2>2, IdleTyped DEF Crash, TaskType, InHand
<1>6. ServiceType'
  <2>1. \A a \in Areas : [srv[a] EXCEPT !.exists = FALSE] \in
          [exists : BOOLEAN, rev : Revs, log : Seq(Ops), broken : SUBSET Ops]
    BY DEF ServiceType
  <2> QED
    BY <2>1 DEF Crash, ServiceType
<1> QED
  BY <1>1, <1>2, <1>3, <1>4, <1>5, <1>6 DEF Crash, DiskType, HistoryType

LEMMA RestartTyped == ASSUME Typed, Restart PROVE Typed'
  BY DEF Restart, EnvType, QueueType, ViewerType, DiskType, StatType, TaskType,
     ServiceType, HistoryType, InHand

LEMMA OutageTyped == ASSUME Typed, Outage PROVE Typed'
<1>1. EnvType'
  BY SpendTyped DEF Outage, EnvType, Events
<1>2. DiskType'
  BY DEF Outage, DiskType
<1>3. ServiceType'
  BY DEF Outage, ServiceType, Revs, NoRev
<1> QED
  BY <1>1, <1>2, <1>3 DEF Outage, QueueType, ViewerType, StatType, TaskType,
     HistoryType, InHand

-----------------------------------------------------------------------------
\* Every behaviour.

LEMMA InitTyped == ASSUME Init PROVE Typed
<1>1. EnvType
  BY PendingAssumption, QueueAssumption DEF Init, EnvType, Gens
<1>2. QueueType
  BY EmptyTypes DEF Init, QueueType
<1>3. ViewerType
  <2>1. 1 \in Gens
    BY PendingAssumption DEF Gens
  <2>2. deleting \in SUBSET Areas /\ intents \in SUBSET Areas /\ shown \in SUBSET Areas
    BY DEF Init
  <2>3. paused \in BOOLEAN /\ active \in Gens \cup {NoGen}
    BY <2>1 DEF Init
  <2> QED
    BY <2>2, <2>3 DEF ViewerType
<1>4. DiskType
  BY DEF Init, DiskType
<1>5. StatType
  BY DEF Init, StatType
<1>6. TaskType /\ InHand
  <2>1. IdleEngine(1) \in EngineType /\ IdleEngine(1).at = "idle"
    BY PendingAssumption, IdleTyped DEF Gens, IdleEngine
  <2>2. [IdleEngine(1) EXCEPT !.seen = [a \in CloudAreas |-> 1]] \in EngineType
        /\ [IdleEngine(1) EXCEPT !.seen = [a \in CloudAreas |-> 1]].at = "idle"
    BY <2>1 DEF EngineType, Revs
  <2>3. IdleWorker.at = "run" /\ NoDelete.at = "none"
    BY DEF IdleWorker, NoDelete
  <2> QED
    BY <2>2, <2>3, IdleTyped DEF Init, TaskType, InHand
<1>7. ServiceType
  <2>1. << >> \in Seq(Ops)
    OBVIOUS
  <2> QED
    BY <2>1 DEF Init, ServiceType, Revs, NoRev
<1> QED
  BY <1>1, <1>2, <1>3, <1>4, <1>5, <1>6, <1>7 DEF Init, HistoryType

LEMMA StepTyped == ASSUME Typed, [Next]_vars PROVE Typed'
<1>1. CASE UNCHANGED vars
  BY <1>1 DEF vars, EnvType, QueueType, ViewerType, DiskType, StatType, TaskType,
     ServiceType, HistoryType, InHand
<1>2. CASE Editor
  BY <1>2, StageTyped, PublishTyped, CancelTyped, RetryTyped, DiscardTyped,
     KeepTheirsTyped, KeepMineTyped DEF Editor
<1>3. CASE Rebuilds
  BY <1>3, RebuildFetchTyped, RebuildApplyTyped DEF Rebuilds
<1>4. CASE Worker
  <2>1. CASE Verdicts
    BY <2>1, VerdictStaleTyped, VerdictOkTyped, VerdictCredentialTyped,
       VerdictTransportTyped, VerdictHeldTyped, VerdictRefusedTyped, VerdictUpgradeTyped,
       VerdictConflictTyped, ConflictFetchTyped, ConflictApplyTyped DEF Verdicts
  <2> QED
    BY <1>4, <2>1, WorkerRetireTyped, WorkerRetireFailsTyped, WorkerTakeTyped,
       WorkerTimerTyped, WorkerIdleTyped, WorkerWakeTyped DEF Worker
<1>5. CASE Engine
  BY <1>5, EngineTickTyped, EngineFailTyped, ActivateLoadTyped, ActivateInstallTyped,
     EngineAskTyped, EngineRowsTyped, EngineAdoptTyped, EngineDoneTyped, EngineFetchTyped
  DEF Engine
<1>6. CASE Deletion
  BY <1>6, DeleteBeginTyped, DeletePrepareTyped, DeleteSucceedsTyped,
     DeleteLeavesTyped, DeleteAmbiguousTyped, DeleteAbandonTyped DEF Deletion
<1>7. CASE Service
  BY <1>7, ServiceHandlesTyped, ServiceRefusesTyped, RequestTimesOutTyped,
     ServiceDeletesTyped, ForeignEditTyped, AccessChangesTyped DEF Service
<1>8. CASE Process
  BY <1>8, CrashTyped, RestartTyped, OutageTyped, RequestSyncTyped, LoginTyped DEF Process
<1> QED
  BY <1>1, <1>2, <1>3, <1>4, <1>5, <1>6, <1>7, <1>8 DEF Next

\* In every behaviour of the queue, whatever the maps, the edits, the accounts
\* and the budgets, every variable keeps its type: a park, a review and a
\* retirement name a real edit, and a task that has an edit, a document or a
\* delete in hand names the map it is for.
THEOREM PendingQueueTyped == Spec => [](TypeOK /\ InHand)
<1>1. Init => Typed
  BY InitTyped
<1>2. Typed /\ [Next]_vars => Typed'
  BY StepTyped
<1> HIDE DEF Typed
<1>3. Spec => []Typed
  BY <1>1, <1>2, PTL DEF Spec
<1>4. Typed => TypeOK /\ InHand
  BY DEF Typed
<1> QED
  BY <1>3, <1>4, PTL

-----------------------------------------------------------------------------
\* Accounts: an edit travels with a credential of its account.

\* The credential of an edit in memory is one of its account.
GenOwned ==
  \A o \in Ops : IsCloud(o) /\ gen[o] # NoGen =>
    owner[o] = ViewerOf[gen[o]] /\ o < nextOp

\* A tick under way has a credential, and what it has read of the journal
\* belongs to that credential's account.
LoadedOwned ==
  /\ engine.at # "idle" => engine.tick \in Gens
  /\ engine.at = "activating" =>
       \A o \in engine.loaded : owner[o] = ViewerOf[engine.tick] /\ o < nextOp

\* The account of an edit on its way no longer changes.
SentOwned ==
  \A m \in net : IsCloud(m.op) => owner[m.op] = ViewerOf[m.gen] /\ m.op < nextOp

\* The journal holds only edits that were made.
JournalMade == \A o \in Ops : wal[o] = "json" => o < nextOp

Own == GenOwned /\ LoadedOwned /\ SentOwned /\ JournalMade

-----------------------------------------------------------------------------
\* What most actions leave alone.

\* The engine goes on with its tick, or ends it, and reads no journal.
EngineKeeps ==
  \/ engine' = engine
  \/ /\ engine'.at # "activating"
     /\ engine'.at # "idle" => engine.at # "idle" /\ engine'.tick = engine.tick

\* No record is added to the journal.
JournalKeeps == \A o \in Ops : wal'[o] = "json" => wal[o] = "json"

LEMMA OwnKept ==
  ASSUME Own, UNCHANGED << gen, owner, nextOp >>, net' \in SUBSET net,
         EngineKeeps, JournalKeeps
  PROVE  Own'
<1>1. GenOwned' /\ SentOwned' /\ JournalMade'
  BY DEF Own, GenOwned, SentOwned, JournalMade, JournalKeeps, IsCloud
<1>2. LoadedOwned'
  BY DEF Own, LoadedOwned, EngineKeeps
<1> QED
  BY <1>1, <1>2 DEF Own

LEMMA RetireKeeps ==
  ASSUME Typed, NEW S, Retire(S)
  PROVE  JournalKeeps
  BY DEF Retire, JournalKeeps, DiskType

LEMMA EngineIdleKeeps ==
  ASSUME EngineIdle
  PROVE  EngineKeeps
  BY DEF EngineIdle, IdleEngine, EngineKeeps

-----------------------------------------------------------------------------
\* The actions that make, send, read and activate an edit.

LEMMA StageOwned == ASSUME Typed, Own, Stage PROVE Own'
<1> DEFINE o == nextOp
<1>1. /\ o \in Ops /\ o < o + 1 /\ nextOp' = o + 1 /\ \A p \in Ops : p < o => p < o + 1
  BY DEF Stage, Ops
<1>2. \A p \in Ops : p < o => gen'[p] = gen[p] /\ owner'[p] = owner[p] /\ wal'[p] = wal[p]
  BY <1>1 DEF Stage, QueueType, DiskType, Ops
<1>3. IsCloud(o) => owner'[o] = ViewerOf[active] /\ gen'[o] = active
  BY <1>1 DEF Stage, QueueType, DiskType
<1>4. \A p \in Ops : p # o => gen'[p] = gen[p] /\ wal'[p] = wal[p] /\ owner'[p] = owner[p]
  BY <1>1 DEF Stage, QueueType, DiskType
<1>5. GenOwned'
  BY <1>1, <1>3, <1>4 DEF Own, GenOwned, IsCloud
<1>6. LoadedOwned'
  <2>1. engine' = engine /\ engine.at # "activating"
    BY DEF Stage, GateFree
  <2> QED
    BY <2>1 DEF Own, LoadedOwned
<1>7. SentOwned'
  BY <1>1, <1>2 DEF Own, SentOwned, Stage, ServiceType, IsCloud
<1>8. JournalMade'
  BY <1>1, <1>4 DEF Own, JournalMade
<1> QED
  BY <1>5, <1>6, <1>7, <1>8 DEF Own

LEMMA WorkerTakeOwned ==
  ASSUME Typed, Own, NEW a \in Areas, WorkerTake(a) PROVE Own'
<1> DEFINE o == HeadOp(areas[a])
           rev == IF areas[a].confirmed = NoRev THEN 0 ELSE areas[a].confirmed
           m == [op |-> o, rev |-> rev, gen |-> gen[o]]
<1>1. o \in Ops
  BY QueuedType DEF WorkerTake, Sendable, QueueType
<1>2. \/ net' = net
      \/ net' = net \cup {m} /\ (IsCloud(o) => cred = gen[o])
  BY DEF WorkerTake
<1>3. IsCloud(o) /\ cred = gen[o] => owner[o] = ViewerOf[gen[o]] /\ o < nextOp
  <2>1. cred \in Gens /\ NoGen \notin Gens
    BY DEF EnvType, Gens, NoGen
  <2> HIDE DEF o
  <2> QED
    BY <1>1, <2>1 DEF Own, GenOwned
<1>4. m.op = o /\ m.gen = gen[o]
  OBVIOUS
<1> HIDE DEF o, m
<1>5. SentOwned'
  BY <1>2, <1>3, <1>4 DEF Own, SentOwned, WorkerTake, IsCloud
<1>6. GenOwned' /\ LoadedOwned' /\ JournalMade'
  BY DEF Own, GenOwned, LoadedOwned, JournalMade, WorkerTake, IsCloud
<1> QED
  BY <1>5, <1>6 DEF Own

LEMMA EngineTickOwned == ASSUME Typed, Own, EngineTick PROVE Own'
<1>1. engine'.tick = cred /\ engine'.at # "activating"
  BY DEF EngineTick, IdleEngine, TaskType, EngineType
<1>2. LoadedOwned'
  BY <1>1 DEF LoadedOwned, EnvType
<1>3. GenOwned' /\ SentOwned' /\ JournalMade'
  BY DEF EngineTick, Own, GenOwned, SentOwned, JournalMade, IsCloud
<1> QED
  BY <1>2, <1>3 DEF Own

LEMMA ActivateLoadOwned == ASSUME Typed, Own, ActivateLoad PROVE Own'
<1> DEFINE viewer == ViewerOf[engine.tick]
           live == Loadable(viewer)
<1>1. JournalKeeps
  <2>1. wal' = wal \/ Retire({ o \in Ops : owner[o] = viewer } \ live)
    BY DEF ActivateLoad
  <2> QED
    BY <2>1, RetireKeeps DEF JournalKeeps
<1>2. CASE EngineIdle \/ engine' = [engine EXCEPT !.at = "rows", !.gen = engine.tick]
  <2>1. EngineKeeps
    BY <1>2, EngineIdleKeeps DEF EngineKeeps, ActivateLoad, TaskType, EngineType
  <2> QED
    BY <1>1, <2>1, OwnKept DEF ActivateLoad
<1>3. CASE engine' = [engine EXCEPT
               !.at = "activating", !.loaded = live,
               !.frozen = { AreaOf[o] : o \in
                 { p \in live : << AreaOf[p], viewer >> \in intentFiles } }]
  <2>1. engine'.tick = engine.tick /\ engine'.loaded = live
    BY <1>3 DEF TaskType, EngineType
  <2>2. engine.tick \in Gens
    BY DEF ActivateLoad, Own, LoadedOwned
  <2>3. \A o \in live : owner[o] = viewer /\ o < nextOp
    BY DEF Loadable, Replayable, Own, JournalMade
  <2>4. LoadedOwned'
    <3> HIDE DEF live
    <3> QED
      BY <2>1, <2>2, <2>3 DEF LoadedOwned, ActivateLoad
  <2>5. GenOwned' /\ SentOwned' /\ JournalMade'
    BY <1>1 DEF ActivateLoad, Own, GenOwned, SentOwned, JournalMade, JournalKeeps, IsCloud
  <2> QED
    BY <2>4, <2>5 DEF Own
<1> QED
  BY <1>2, <1>3 DEF ActivateLoad

LEMMA ActivateInstallOwned == ASSUME Typed, Own, ActivateInstall PROVE Own'
<1>1. gen' = [o \in Ops |-> IF o \in engine.loaded THEN engine.tick ELSE gen[o]]
  BY DEF ActivateInstall
<1>2. GenOwned'
  <2>1. UNCHANGED << owner, nextOp >> /\ engine.at = "activating"
    BY DEF ActivateInstall
  <2> QED
    BY <1>1, <2>1 DEF Own, GenOwned, LoadedOwned, IsCloud
<1>3. LoadedOwned'
  <2>1. engine'.at = "rows" /\ engine'.tick = engine.tick
    BY DEF ActivateInstall, TaskType, EngineType
  <2> QED
    BY <2>1 DEF Own, LoadedOwned, ActivateInstall
<1>4. SentOwned' /\ JournalMade'
  BY DEF ActivateInstall, Own, SentOwned, JournalMade, IsCloud
<1> QED
  BY <1>2, <1>3, <1>4 DEF Own

LEMMA CrashOwned == ASSUME Typed, Own, Crash PROVE Own'
<1>1. GenOwned'
  BY DEF Crash, GenOwned
<1>2. LoadedOwned'
  BY DEF Crash, LoadedOwned, IdleEngine
<1>3. SentOwned' /\ JournalMade'
  BY DEF Crash, Own, SentOwned, JournalMade, IsCloud
<1> QED
  BY <1>1, <1>2, <1>3 DEF Own

-----------------------------------------------------------------------------
\* The other actions.

LEMMA EditorOwned == ASSUME Typed, Own, Editor PROVE Own'
<1>1. CASE Stage
  BY <1>1, StageOwned
<1>2. CASE Publish
  BY <1>2, OwnKept DEF Publish, EngineKeeps, JournalKeeps
<1>3. ASSUME NEW o \in Ops, Cancel(o) PROVE Own'
  <2>1. JournalKeeps
    BY <1>3, RetireKeeps DEF Cancel
  <2> QED
    BY <1>3, <2>1, OwnKept DEF Cancel, EngineKeeps
<1>4. ASSUME NEW a \in Areas, Retry(a) PROVE Own'
  BY <1>4, OwnKept DEF Retry, EngineKeeps, JournalKeeps
<1>5. ASSUME NEW a \in Areas, Discard(a) PROVE Own'
  <2>1. JournalKeeps
    BY <1>5, RetireKeeps DEF Discard
  <2> QED
    BY <1>5, <2>1, OwnKept DEF Discard, EngineKeeps
<1>6. ASSUME NEW a \in Areas, KeepTheirs(a) PROVE Own'
  <2>1. JournalKeeps
    BY <1>6, RetireKeeps DEF KeepTheirs
  <2> QED
    BY <1>6, <2>1, OwnKept DEF KeepTheirs, EngineKeeps
<1>7. ASSUME NEW a \in Areas, KeepMine(a) PROVE Own'
  BY <1>7, OwnKept DEF KeepMine, EngineKeeps, JournalKeeps
<1> QED
  BY <1>1, <1>2, <1>3, <1>4, <1>5, <1>6, <1>7 DEF Editor

LEMMA RebuildsOwned == ASSUME Typed, Own, Rebuilds PROVE Own'
<1>1. UNCHANGED << gen, owner, nextOp, net, engine, wal >>
  BY DEF Rebuilds, RebuildFetch, RebuildApply
<1> QED
  BY <1>1, OwnKept DEF EngineKeeps, JournalKeeps

LEMMA VerdictsOwned == ASSUME Typed, Own, Verdicts PROVE Own'
<1>1. UNCHANGED << gen, owner, nextOp, net, engine >>
  BY DEF Verdicts, VerdictStale, VerdictOk, VerdictCredential, CredentialChanged,
     VerdictTransport, VerdictHeld, VerdictRefused, VerdictUpgrade, VerdictConflict,
     ConflictFetch, ConflictApply
<1>2. wal' = wal \/ Retire({worker.op})
  BY DEF Verdicts, VerdictStale, VerdictOk, VerdictCredential, CredentialChanged,
     VerdictTransport, VerdictHeld, VerdictRefused, VerdictUpgrade, VerdictConflict,
     ConflictFetch, ConflictApply
<1>3. JournalKeeps
  BY <1>2, RetireKeeps DEF JournalKeeps
<1> QED
  BY <1>1, <1>3, OwnKept DEF EngineKeeps

LEMMA WorkerOwned == ASSUME Typed, Own, Worker PROVE Own'
<1>1. ASSUME NEW a \in Areas, WorkerRetire(a) PROVE Own'
  <2>1. JournalKeeps
    BY <1>1, RetireKeeps DEF WorkerRetire
  <2> QED
    BY <1>1, <2>1, OwnKept DEF WorkerRetire, EngineKeeps
<1>2. ASSUME NEW a \in Areas, WorkerRetireFails(a) \/ WorkerTimer(a) PROVE Own'
  BY <1>2, OwnKept DEF WorkerRetireFails, WorkerTimer, EngineKeeps, JournalKeeps
<1>3. CASE WorkerIdle \/ WorkerWake
  BY <1>3, OwnKept DEF WorkerIdle, WorkerWake, EngineKeeps, JournalKeeps
<1> QED
  BY <1>1, <1>2, <1>3, WorkerTakeOwned, VerdictsOwned DEF Worker

LEMMA CommitDeleteKeeps ==
  ASSUME Typed, NEW a, NEW tracked, CommitDelete(a, tracked)
  PROVE  JournalKeeps
  BY RetireKeeps DEF CommitDelete

LEMMA EngineOwned == ASSUME Typed, Own, Engine PROVE Own'
<1> USE DEF TaskType, EngineType
<1>1. CASE EngineFail
  <2>1. EngineKeeps
    BY <1>1 DEF EngineFail, EngineKeeps, IdleEngine
  <2> QED
    BY <1>1, <2>1, OwnKept DEF EngineFail, JournalKeeps
<1>2. CASE EngineAsk
  <2>1. EngineKeeps
    BY <1>2 DEF EngineAsk, EngineKeeps
  <2> QED
    BY <1>2, <2>1, OwnKept DEF EngineAsk, JournalKeeps
<1>3. CASE EngineRows
  <2>1. EngineKeeps
    <3>1. CASE cred # engine.tick
      BY <1>3, <3>1 DEF EngineRows, EngineKeeps, IdleEngine
    <3>2. CASE cred = engine.tick
      BY <1>3, <3>2 DEF EngineRows, EngineKeeps
    <3> QED
      BY <3>1, <3>2
  <2> QED
    BY <1>3, <2>1, OwnKept DEF EngineRows, JournalKeeps
<1>4. CASE EngineAdopt
  <2>1. EngineKeeps
    <3>1. CASE cred # engine.tick
      BY <1>4, <3>1, EngineIdleKeeps DEF EngineAdopt
    <3>2. CASE cred = engine.tick
      BY <1>4, <3>2 DEF EngineAdopt, EngineKeeps
    <3> QED
      BY <3>1, <3>2
  <2> QED
    BY <1>4, <2>1, OwnKept DEF EngineAdopt, JournalKeeps
<1>5. CASE EngineDone
  <2>1. EngineKeeps
    BY <1>5 DEF EngineDone, EngineKeeps, IdleEngine
  <2> QED
    BY <1>5, <2>1, OwnKept DEF EngineDone, JournalKeeps
<1>6. ASSUME NEW a \in CloudAreas, EngineFetch(a) PROVE Own'
  <2>1. EngineKeeps
    <3>1. \/ EngineIdle \/ engine' = EngineSkips(a)
          \/ engine' = [engine EXCEPT !.at = "fetched", !.area = a, !.doc = Doc(a),
                           !.before = areas[a].confirmed, !.token = Token(a)]
          \/ engine' = [engine EXCEPT !.todo = @ \ {a}]
      BY <1>6 DEF EngineFetch
    <3>2. engine.at = "rest"
      BY <1>6 DEF EngineFetch
    <3> QED
      BY <3>1, <3>2, EngineIdleKeeps DEF EngineSkips, EngineKeeps
  <2>2. JournalKeeps
    <3>1. wal' = wal \/ CommitDelete(a, 0)
      BY <1>6 DEF EngineFetch, RecoverUnavailable
    <3> QED
      BY <3>1, CommitDeleteKeeps DEF JournalKeeps
  <2> QED
    BY <1>6, <2>1, <2>2, OwnKept DEF EngineFetch
<1> QED
  BY <1>1, <1>2, <1>3, <1>4, <1>5, <1>6, EngineTickOwned, ActivateLoadOwned,
     ActivateInstallOwned DEF Engine

LEMMA DeletionOwned == ASSUME Typed, Own, Deletion PROVE Own'
<1>1. UNCHANGED << gen, owner, nextOp, net, engine >>
  BY DEF Deletion, DeleteBegin, DeletePrepare, DeleteSucceeds, DeleteLeaves, DeleteAmbiguous,
     DeleteAbandon
<1>2. wal' = wal \/ CommitDelete(del.area, 1)
  BY DEF Deletion, DeleteBegin, DeletePrepare, DeleteSucceeds, DeleteLeaves, DeleteAmbiguous,
     DeleteAbandon
<1>3. JournalKeeps
  BY <1>2, CommitDeleteKeeps DEF JournalKeeps
<1> QED
  BY <1>1, <1>3, OwnKept DEF EngineKeeps

LEMMA ServiceOwned == ASSUME Typed, Own, Service PROVE Own'
<1>1. UNCHANGED << gen, owner, nextOp, engine, wal >> /\ net' \in SUBSET net
  BY DEF Service, ServiceHandles, ServiceRefuses, RequestTimesOut, ServiceDeletes,
     ForeignEdit, AccessChanges
<1> QED
  BY <1>1, OwnKept DEF EngineKeeps, JournalKeeps

LEMMA ProcessOwned == ASSUME Typed, Own, Process PROVE Own'
<1>1. CASE Crash
  BY <1>1, CrashOwned
<1>2. CASE Restart \/ Outage \/ RequestSync \/ Login
  <2>1. UNCHANGED << gen, owner, nextOp, engine, wal >> /\ net' \in SUBSET net
    BY <1>2 DEF Restart, Outage, RequestSync, Login
  <2> QED
    BY <2>1, OwnKept DEF EngineKeeps, JournalKeeps
<1> QED
  BY <1>1, <1>2 DEF Process

-----------------------------------------------------------------------------
\* Every behaviour.

LEMMA InitOwned == ASSUME Init PROVE Own
<1>1. GenOwned /\ SentOwned /\ JournalMade
  BY DEF Init, GenOwned, SentOwned, JournalMade
<1>2. LoadedOwned
  BY DEF Init, LoadedOwned, IdleEngine
<1> QED
  BY <1>1, <1>2 DEF Own

LEMMA StepOwned == ASSUME Typed, Own, [Next]_vars PROVE Own'
<1>1. CASE UNCHANGED vars
  BY <1>1, OwnKept DEF vars, EngineKeeps, JournalKeeps
<1> QED
  BY <1>1, EditorOwned, RebuildsOwned, WorkerOwned, EngineOwned, DeletionOwned, ServiceOwned,
     ProcessOwned DEF Next

\* Whatever the accounts, the edits and the order in which sign-ins, journal
\* reads, crashes and sends interleave, an edit travels only with a credential of
\* the account that made it.
THEOREM EditsKeepTheirAccount == Spec => []OwnCredential
<1>1. Init => Typed /\ Own
  BY InitTyped, InitOwned
<1>2. Typed /\ Own /\ [Next]_vars => Typed' /\ Own'
  BY StepTyped, StepOwned
<1>3. Own => OwnCredential
  BY DEF Own, SentOwned, OwnCredential
<1> HIDE DEF Typed
<1>4. Spec => [](Typed /\ Own)
  BY <1>1, <1>2, PTL DEF Spec
<1> QED
  BY <1>3, <1>4, PTL

-----------------------------------------------------------------------------
\* The queues: every edit is queued in its own map, once, in the order in which
\* it was made, and the phase of a map names an edit of its queue.

QueueMade == \A a \in Areas : \A o \in Queued(areas[a]) : AreaOf[o] = a /\ o < nextOp
QueueSorted == \A a \in Areas : Sorted(areas[a].queue)
PhasesFit == \A a \in Areas : Fits(areas[a])

\* Only edits of cloud maps have a record, and only those are read back.
JournalCloud == \A o \in Ops : wal[o] = "json" => IsCloud(o)
LoadedCloud == \A o \in engine.loaded : IsCloud(o)

Arranged == QueueMade /\ QueueSorted /\ PhasesFit /\ JournalCloud /\ LoadedCloud

-----------------------------------------------------------------------------
\* What a step does to the areas.

\* The queues stay, no request starts and no retirement begins.
Steady ==
  \A a \in Areas :
    /\ areas'[a].queue = areas[a].queue
    /\ Calm(areas[a], areas'[a])
    /\ Fits(areas[a]) => Fits(areas'[a])

\* One edit leaves one map's queue.
EditLeaves(a, o) ==
  /\ o \in Queued(areas[a])
  /\ \A b \in Areas : b # a => areas'[b] = areas[b]
  /\ Sorted(areas'[a].queue)
  /\ Queued(areas'[a]) = Queued(areas[a]) \ {o}
  /\ Len(areas'[a].queue) = Len(areas[a].queue) - 1
  /\ Fits(areas'[a])
  /\ Calm(areas[a], areas'[a])

\* Nothing new is read from the journal.
LoadedKeeps == engine'.loaded \subseteq engine.loaded

LEMMA AreaTyped ==
  ASSUME Typed, NEW a \in Areas
  PROVE  /\ areas[a] \in AreaType /\ areas[a].queue \in Seq(Ops)
         /\ areas[a].phase \in PhaseType /\ Queued(areas[a]) \in SUBSET Ops
         /\ HeadOp(areas[a]) \in Ops \cup {NoOp}
         /\ Queued(areas[a]) = Members(areas[a].queue)
  BY FieldTypes, QueuedType, QueuedMembers DEF QueueType

LEMMA SameSteady ==
  ASSUME areas' = areas
  PROVE  Steady
  BY SamePhaseCalm DEF Steady

LEMMA SetAreaSteady ==
  ASSUME Typed, NEW a \in Areas, NEW x, SetArea(a, x), x.queue = areas[a].queue,
         Calm(areas[a], x), Fits(areas[a]) => Fits(x)
  PROVE  Steady
<1>1. areas' = [areas EXCEPT ![a] = x] /\ areas \in [Areas -> AreaType]
  BY DEF SetArea, QueueType
<1>2. \A b \in Areas : Calm(areas[b], areas[b])
  BY SamePhaseCalm
<1> QED
  BY <1>1, <1>2 DEF Steady

LEMMA SteadyArranged ==
  ASSUME Typed, Arranged, Steady, nextOp' = nextOp, JournalKeeps, LoadedKeeps
  PROVE  Arranged'
<1>1. \A a \in Areas : Queued(areas'[a]) = Queued(areas[a])
  BY DEF Steady, Queued
<1>2. QueueMade' /\ QueueSorted' /\ PhasesFit'
  BY <1>1 DEF Arranged, QueueMade, QueueSorted, PhasesFit, Steady
<1>3. JournalCloud' /\ LoadedCloud'
  BY DEF Arranged, JournalCloud, LoadedCloud, JournalKeeps, LoadedKeeps, IsCloud
<1> QED
  BY <1>2, <1>3 DEF Arranged

LEMMA LeavesArranged ==
  ASSUME Typed, Arranged, NEW a \in Areas, NEW o, EditLeaves(a, o), nextOp' = nextOp,
         JournalKeeps, LoadedKeeps
  PROVE  Arranged'
<1>1. \A b \in Areas : Queued(areas'[b]) \subseteq Queued(areas[b])
  BY DEF EditLeaves
<1>2. QueueMade'
  BY <1>1 DEF Arranged, QueueMade
<1>3. QueueSorted' /\ PhasesFit'
  BY DEF Arranged, QueueSorted, PhasesFit, EditLeaves
<1>4. JournalCloud' /\ LoadedCloud'
  BY DEF Arranged, JournalCloud, LoadedCloud, JournalKeeps, LoadedKeeps, IsCloud
<1> QED
  BY <1>2, <1>3, <1>4 DEF Arranged

-----------------------------------------------------------------------------
\* The editor.

\* A settled area in which one edit of the queue is gone.
LEMMA SetAreaLeaves ==
  ASSUME Typed, Arranged, NEW a \in Areas, NEW o \in Queued(areas[a]), NEW x \in AreaType,
         SetArea(a, x), x.queue = Remove(areas[a].queue, o), Fits(x),
         Calm(areas[a], x)
  PROVE  EditLeaves(a, o)
<1>1. areas' = [areas EXCEPT ![a] = x] /\ areas \in [Areas -> AreaType]
  BY DEF SetArea, QueueType
<1>2. areas'[a] = x /\ \A b \in Areas : b # a => areas'[b] = areas[b]
  BY <1>1
<1>3. /\ Sorted(areas[a].queue) /\ areas[a].queue \in Seq(Ops)
      /\ o \in Members(areas[a].queue)
  BY AreaTyped DEF Arranged, QueueSorted
<1>4. /\ Sorted(x.queue)
      /\ Members(x.queue) = Members(areas[a].queue) \ {o}
      /\ Len(x.queue) = Len(areas[a].queue) - 1
  BY <1>3, RemoveSorted
<1> QED
  BY <1>2, <1>4, QueuedMembers DEF EditLeaves

LEMMA CancelLeaves ==
  ASSUME Typed, Arranged, NEW o \in Ops, Cancel(o)
  PROVE  AreaOf[o] \in Areas /\ EditLeaves(AreaOf[o], o)
<1> DEFINE a == AreaOf[o]
           x == CancelIn(areas[a], o, expired)
<1>1. a \in Areas /\ areas[a] \in AreaType /\ expired \in SUBSET Ops
  BY PendingAssumption DEF QueueType
<1>2. Cancellable(areas[a], o) /\ SetArea(a, x) /\ o \in Queued(areas[a])
  BY DEF Cancel, Cancellable
<1>3. x \in AreaType /\ x.queue = Remove(areas[a].queue, o) /\ Fits(x) /\ Calm(areas[a], x)
  BY <1>1, <1>2, CancelType, CancelFits DEF Arranged, QueueSorted, PhasesFit
<1> HIDE DEF x
<1> QED
  BY <1>1, <1>2, <1>3, SetAreaLeaves

LEMMA DiscardLeaves ==
  ASSUME Typed, Arranged, NEW a \in Areas, Discard(a)
  PROVE  EditLeaves(a, areas[a].phase.op)
<1> DEFINE o == areas[a].phase.op
           w == [areas[a] EXCEPT !.queue = Remove(@, o)]
           x == ResumeWithDeferredConflict(w, expired)
<1>1. areas[a] \in AreaType /\ expired \in SUBSET Ops
  BY DEF QueueType
<1>2. w \in AreaType /\ w.queue = Remove(areas[a].queue, o)
  <2>1. Remove(areas[a].queue, o) \in Seq(Ops)
    BY <1>1, FieldTypes, RemoveType
  <2> QED
    BY <1>1, <2>1, FieldTypes DEF AreaType
<1>3. SetArea(a, x) /\ o \in Queued(areas[a])
  BY DEF Discard
<1> HIDE DEF w
<1>4. x \in AreaType /\ x.queue = w.queue /\ Fits(x) /\ Settled(x)
  BY <1>1, <1>2, ResumeType, ResumeFits
<1> HIDE DEF x
<1>5. Calm(areas[a], x)
  BY <1>4, SettledCalm
<1> QED
  BY <1>2, <1>3, <1>4, <1>5, SetAreaLeaves

LEMMA KeepTheirsLeaves ==
  ASSUME Typed, Arranged, NEW a \in Areas, KeepTheirs(a)
  PROVE  EditLeaves(a, areas[a].phase.op)
<1> DEFINE o == areas[a].phase.op
           x == [areas[a] EXCEPT !.phase = Ready, !.queue = Remove(@, o)]
<1>1. areas[a] \in AreaType
  BY DEF QueueType
<1>2. x \in AreaType /\ x.queue = Remove(areas[a].queue, o) /\ x.phase = Ready
  <2>1. Remove(areas[a].queue, o) \in Seq(Ops) /\ Ready \in PhaseType
    BY <1>1, FieldTypes, RemoveType, PhaseTypes
  <2> QED
    BY <1>1, <2>1, FieldTypes DEF AreaType
<1>3. SetArea(a, x) /\ o \in Queued(areas[a])
  BY DEF KeepTheirs
<1> HIDE DEF x
<1>4. Fits(x) /\ Settled(x)
  BY <1>2, PhaseFields DEF Fits, Settled
<1>5. Calm(areas[a], x)
  BY <1>2, <1>4, SettledCalm
<1> QED
  BY <1>2, <1>3, <1>4, <1>5, SetAreaLeaves

LEMMA RetrySteady ==
  ASSUME Typed, NEW a \in Areas, Retry(a)
  PROVE  Steady
<1> DEFINE x == [areas[a] EXCEPT !.phase = Ready, !.baseFailed = FALSE]
<1>1. x.queue = areas[a].queue /\ x.phase = Ready
  BY AreaTyped DEF AreaType
<1>2. SetArea(a, x)
  BY DEF Retry
<1> HIDE DEF x
<1>3. Fits(x) /\ Calm(areas[a], x)
  BY <1>1, PhaseFields DEF Fits, Calm
<1> QED
  BY <1>1, <1>2, <1>3, SetAreaSteady

\* The areas after an edit is staged.
Staged(a, o) ==
  /\ \A b \in Areas : b # a => areas'[b] = areas[b]
  /\ areas'[a].phase = areas[a].phase
  /\ Sorted(areas'[a].queue)
  /\ Queued(areas'[a]) = Queued(areas[a]) \cup {o}
  /\ Len(areas'[a].queue) = Len(areas[a].queue) + 1
  /\ areas[a].queue # << >> => HeadOp(areas'[a]) = HeadOp(areas[a])

LEMMA StageStaged ==
  ASSUME Typed, Arranged, Stage
  PROVE  nextOp \in Ops /\ AreaOf[nextOp] \in Areas /\ Staged(AreaOf[nextOp], nextOp)
<1> DEFINE o == nextOp  a == AreaOf[o]
<1>1. o \in Ops /\ a \in Areas
  BY PendingAssumption DEF Stage
<1> HIDE DEF o, a
<1>2. areas[a] \in AreaType /\ areas[a].queue \in Seq(Ops)
  BY <1>1, AreaTyped
<1>3. areas' = [areas EXCEPT ![a].queue = Append(@, o)] /\ areas \in [Areas -> AreaType]
  BY DEF Stage, QueueType, o, a
<1>4. /\ \A b \in Areas : b # a => areas'[b] = areas[b]
      /\ areas'[a].queue = Append(areas[a].queue, o) /\ areas'[a].phase = areas[a].phase
  BY <1>1, <1>2, <1>3 DEF AreaType
<1>5. \A p \in Members(areas[a].queue) : p < o
  BY <1>1, QueuedMembers DEF Arranged, QueueMade, o
<1>6. /\ Sorted(Append(areas[a].queue, o))
      /\ Members(Append(areas[a].queue, o)) = Members(areas[a].queue) \cup {o}
      /\ Len(Append(areas[a].queue, o)) = Len(areas[a].queue) + 1
      /\ areas[a].queue # << >> =>
           /\ Append(areas[a].queue, o) # << >>
           /\ Append(areas[a].queue, o)[1] = areas[a].queue[1]
  BY <1>1, <1>2, <1>5, AppendSorted DEF Arranged, QueueSorted
<1>7. Queued(areas'[a]) = Queued(areas[a]) \cup {o}
  BY <1>4, <1>6, QueuedMembers
<1>8. areas[a].queue # << >> => HeadOp(areas'[a]) = HeadOp(areas[a])
  BY <1>4, <1>6 DEF HeadOp
<1>9. Staged(a, o)
  BY <1>4, <1>6, <1>7, <1>8 DEF Staged
<1> QED
  BY <1>1, <1>9 DEF o, a

LEMMA FitsNonempty ==
  ASSUME Typed, NEW a \in Areas, Fits(areas[a]),
         areas[a].phase.kind \in {"AwaitingRetirement", "Failed"}
  PROVE  areas[a].queue # << >> /\ HeadOp(areas[a]) = areas[a].phase.op
<1>1. areas[a].phase.op \in Ops
  BY AreaTyped, PhaseOps
<1>2. NoOp \notin Ops
  BY DEF Ops, NoOp
<1> QED
  BY <1>1, <1>2 DEF Fits, HeadOp

LEMMA StageArranged == ASSUME Typed, Own, Arranged, Stage PROVE Arranged'
<1> DEFINE o == nextOp  a == AreaOf[o]
<1>1. o \in Ops /\ a \in Areas /\ Staged(a, o)
  BY StageStaged
<1>2. nextOp' = o + 1 /\ o < o + 1 /\ \A p \in Ops : p < o => p < o + 1
  BY <1>1 DEF Stage, Ops
<1>3. QueueMade'
  <2> SUFFICES ASSUME NEW b \in Areas, NEW p \in Queued(areas'[b])
               PROVE  AreaOf[p] = b /\ p < nextOp'
    BY DEF QueueMade
  <2>1. p \in Queued(areas[b]) \/ (b = a /\ p = o)
    BY <1>1 DEF Staged
  <2>2. p \in Queued(areas[b]) => p \in Ops
    BY AreaTyped
  <2> QED
    BY <1>1, <1>2, <2>1, <2>2 DEF Arranged, QueueMade
<1>4. QueueSorted'
  BY <1>1 DEF Staged, Arranged, QueueSorted
<1>5. PhasesFit'
  <2> SUFFICES ASSUME NEW b \in Areas PROVE Fits(areas'[b])
    BY DEF PhasesFit
  <2>1. Fits(areas[b])
    BY DEF Arranged, PhasesFit
  <2>2. CASE b # a
    BY <1>1, <2>1, <2>2 DEF Staged
  <2>3. CASE b = a
    <3>1. /\ areas'[a].phase = areas[a].phase
          /\ Queued(areas[a]) \subseteq Queued(areas'[a])
          /\ areas[a].queue # << >> => HeadOp(areas'[a]) = HeadOp(areas[a])
      BY <1>1 DEF Staged
    <3> QED
      BY <1>1, <2>1, <2>3, <3>1, FitsNonempty DEF Fits
  <2> QED
    BY <2>2, <2>3
<1>6. JournalCloud'
  BY <1>1 DEF Stage, Arranged, JournalCloud, IsCloud, DiskType
<1>7. LoadedCloud'
  BY DEF Stage, Arranged, LoadedCloud, IsCloud
<1> QED
  BY <1>3, <1>4, <1>5, <1>6, <1>7 DEF Arranged

LEMMA EditorArranged == ASSUME Typed, Own, Arranged, Editor PROVE Arranged'
<1>1. CASE Stage
  BY <1>1, StageArranged
<1>2. CASE Publish
  BY <1>2, SameSteady, SteadyArranged DEF Publish, JournalKeeps, LoadedKeeps
<1>3. ASSUME NEW o \in Ops, Cancel(o) PROVE Arranged'
  <2>1. AreaOf[o] \in Areas /\ EditLeaves(AreaOf[o], o)
    BY <1>3, CancelLeaves
  <2>2. JournalKeeps /\ LoadedKeeps /\ nextOp' = nextOp
    BY <1>3, RetireKeeps DEF Cancel, LoadedKeeps
  <2> QED
    BY <2>1, <2>2, LeavesArranged
<1>4. ASSUME NEW a \in Areas, Retry(a) PROVE Arranged'
  BY <1>4, RetrySteady, SteadyArranged DEF Retry, JournalKeeps, LoadedKeeps
<1>5. ASSUME NEW a \in Areas, Discard(a) PROVE Arranged'
  <2>1. EditLeaves(a, areas[a].phase.op)
    BY <1>5, DiscardLeaves
  <2>2. JournalKeeps /\ LoadedKeeps /\ nextOp' = nextOp
    BY <1>5, RetireKeeps DEF Discard, LoadedKeeps
  <2> QED
    BY <2>1, <2>2, LeavesArranged
<1>6. ASSUME NEW a \in Areas, KeepTheirs(a) PROVE Arranged'
  <2>1. EditLeaves(a, areas[a].phase.op)
    BY <1>6, KeepTheirsLeaves
  <2>2. JournalKeeps /\ LoadedKeeps /\ nextOp' = nextOp
    BY <1>6, RetireKeeps DEF KeepTheirs, LoadedKeeps
  <2> QED
    BY <2>1, <2>2, LeavesArranged
<1>7. ASSUME NEW a \in Areas, KeepMine(a) PROVE Arranged'
  BY <1>7, SameSteady, SteadyArranged DEF KeepMine, JournalKeeps, LoadedKeeps
<1> QED
  BY <1>1, <1>2, <1>3, <1>4, <1>5, <1>6, <1>7 DEF Editor

-----------------------------------------------------------------------------
\* Display rebuilds.

LEMMA CalmTrans ==
  ASSUME NEW x, NEW y, NEW z, Calm(x, y), Calm(y, z)
  PROVE  Calm(x, z)
  BY DEF Calm

\* A folded area that the end of a rebuild reopens.
LEMMA ReadyResendFits ==
  ASSUME NEW area \in AreaType, NEW k
  PROVE  LET y == ReadyResend(area, k) IN
         /\ y.queue = area.queue /\ Calm(area, y) /\ (Fits(area) => Fits(y))
         /\ y.phase = area.phase \/ y.phase = Ready
<1> DEFINE y == ReadyResend(area, k)
<1>1. \/ y = area
      \/ y.queue = area.queue /\ y.phase = Ready
  BY DEF ReadyResend, AreaType
<1> HIDE DEF y
<1>2. CASE y = area
  BY <1>2, SamePhaseCalm DEF y
<1>3. CASE y.queue = area.queue /\ y.phase = Ready
  BY <1>3, PhaseFields DEF Calm, Fits, y
<1> QED
  BY <1>1, <1>2, <1>3

LEMMA RebuildSteady ==
  ASSUME Typed, NEW r \in rebuilds, RebuildFetch(r) \/ RebuildApply(r)
  PROVE  Steady
<1> DEFINE a == r.area
           folded == IF ~IdentityActive(r.gen) THEN areas[a]
                     ELSE IF r.keep THEN Adopt(areas[a], r.doc)
                     ELSE ReplayOver(areas[a], r.doc)
<1>1. a \in Areas /\ r.doc \in DocType /\ areas[a] \in AreaType
  BY DEF TaskType, RebuildType, QueueType
<1>2. CASE RebuildFetch(r)
  <2>1. areas' = areas \/ SetArea(a, ReadyResend(areas[a], r.keep))
    BY <1>2 DEF RebuildFetch
  <2> QED
    BY <1>1, <2>1, SameSteady, ReadyResendFits, SetAreaSteady
<1>3. CASE RebuildApply(r)
  <2>1. /\ folded \in AreaType /\ folded.queue = areas[a].queue
        /\ Calm(areas[a], folded) /\ (Fits(areas[a]) => Fits(folded))
    <3>1. Adopt(areas[a], r.doc) \in AreaType
          /\ Adopt(areas[a], r.doc).queue = areas[a].queue
          /\ Adopt(areas[a], r.doc).phase = areas[a].phase
      BY <1>1, AdoptType DEF Adopt, AreaType
    <3> QED
      BY <1>1, <3>1, ReplayType, ReplayFits, SamePhaseCalm
  <2>2. SetArea(a, ReadyResend(folded, r.keep))
    BY <1>3 DEF RebuildApply
  <2> HIDE DEF folded
  <2>3. LET y == ReadyResend(folded, r.keep) IN
        y.queue = areas[a].queue /\ Calm(areas[a], y) /\ (Fits(areas[a]) => Fits(y))
    BY <2>1, ReadyResendFits, CalmTrans
  <2> QED
    BY <1>1, <2>2, <2>3, SetAreaSteady
<1> QED
  BY <1>2, <1>3

LEMMA RebuildsSteady ==
  ASSUME Typed, Rebuilds
  PROVE  Steady /\ UNCHANGED << nextOp, wal, engine, worker >>
  BY RebuildSteady DEF Rebuilds, RebuildFetch, RebuildApply

-----------------------------------------------------------------------------
\* The worker.

\* The head leaves once its edit is acknowledged.
LEMMA HeadLeaves ==
  ASSUME Typed, Arranged, NEW a \in Areas, areas[a].queue # << >>, NEW rev \in Revs,
         SetArea(a, PopAcknowledged(areas[a], rev, expired))
  PROVE  EditLeaves(a, HeadOp(areas[a]))
<1> DEFINE x == PopAcknowledged(areas[a], rev, expired)
           o == HeadOp(areas[a])
<1>1. areas[a] \in AreaType /\ areas[a].queue \in Seq(Ops) /\ expired \in SUBSET Ops
  BY AreaTyped DEF QueueType
<1>2. x \in AreaType /\ x.queue = Pop(areas[a].queue) /\ Fits(x) /\ Calm(areas[a], x)
  BY <1>1, PopAcknowledgedType, PopAcknowledgedFits, SettledCalm
<1> HIDE DEF x
<1>3. areas' = [areas EXCEPT ![a] = x] /\ areas \in [Areas -> AreaType]
  BY DEF SetArea, QueueType, x
<1>4. areas'[a] = x /\ \A b \in Areas : b # a => areas'[b] = areas[b]
  BY <1>3
<1>5. Sorted(areas[a].queue) /\ o = areas[a].queue[1]
  BY DEF Arranged, QueueSorted, HeadOp
<1>6. /\ Sorted(x.queue) /\ Members(x.queue) = Members(areas[a].queue) \ {o}
      /\ Len(x.queue) = Len(areas[a].queue) - 1
  BY <1>1, <1>2, <1>5, PopSorted
<1>7. o \in Members(areas[a].queue)
  <2>1. 1 \in 1..Len(areas[a].queue)
    BY <1>1
  <2> QED
    BY <1>5, <2>1 DEF Members
<1> QED
  BY <1>2, <1>4, <1>6, <1>7, QueuedMembers DEF EditLeaves

\* Only the phase of one map changes.
Rephased(a, p) ==
  /\ \A b \in Areas : b # a => areas'[b] = areas[b]
  /\ areas'[a].queue = areas[a].queue
  /\ areas'[a].phase = p

LEMMA SetPhase ==
  ASSUME Typed, NEW a \in Areas, NEW p \in PhaseType,
         SetArea(a, [areas[a] EXCEPT !.phase = p])
  PROVE  Rephased(a, p)
<1>1. areas \in [Areas -> AreaType] /\ areas[a] \in AreaType
  BY DEF QueueType
<1>2. areas'[a] = [areas[a] EXCEPT !.phase = p]
      /\ \A b \in Areas : b # a => areas'[b] = areas[b]
  BY <1>1 DEF SetArea
<1>3. areas'[a].queue = areas[a].queue /\ areas'[a].phase = p
  BY <1>1, <1>2 DEF AreaType
<1> QED
  BY <1>2, <1>3 DEF Rephased

LEMMA RephasedSteady ==
  ASSUME Typed, NEW a \in Areas, NEW p, Rephased(a, p),
         p.kind \notin {"InFlight", "AwaitingRetirement", "Conflict"},
         p.kind = "Failed" => p.op = HeadOp(areas[a])
  PROVE  Steady
<1>1. p # InFlight
  BY PhaseFields
<1>2. HeadOp(areas'[a]) = HeadOp(areas[a])
  BY DEF Rephased, HeadOp
<1>3. Calm(areas[a], areas'[a]) /\ Fits(areas'[a])
  BY <1>1, <1>2 DEF Rephased, Calm, Fits
<1>4. \A b \in Areas : Calm(areas[b], areas[b])
  BY SamePhaseCalm
<1> QED
  BY <1>3, <1>4 DEF Steady, Rephased

LEMMA WorkerRetireLeaves ==
  ASSUME Typed, Arranged, NEW a \in Areas, WorkerRetire(a)
  PROVE  /\ EditLeaves(a, areas[a].phase.op) /\ HeadOp(areas[a]) = areas[a].phase.op
<1>1. areas[a].phase.kind = "AwaitingRetirement"
  BY DEF WorkerRetire, Retiring
<1>2. areas[a].queue # << >> /\ HeadOp(areas[a]) = areas[a].phase.op
  BY <1>1, FitsNonempty DEF Arranged, PhasesFit
<1>3. areas[a].phase.rev \in Revs
  BY AreaTyped, PhaseRev
<1> QED
  BY <1>2, <1>3, HeadLeaves DEF WorkerRetire

LEMMA WorkerTakeRephased ==
  ASSUME Typed, NEW a \in Areas, WorkerTake(a)
  PROVE  /\ Rephased(a, InFlight) /\ HeadOp(areas[a]) \in Ops
         /\ areas[a].phase.kind \in {"Ready", "Backoff"}
<1>1. Rephased(a, InFlight)
  BY SetPhase, PhaseTypes DEF WorkerTake
<1>2. HeadOp(areas[a]) \in Ops
  BY AreaTyped DEF WorkerTake, Sendable
<1> QED
  BY <1>1, <1>2 DEF WorkerTake, Sendable

\* Maps whose phase returns to Ready.
LEMMA ReopenedSteady ==
  ASSUME Typed, NEW S,
         areas' = [a \in Areas |->
           IF a \in S THEN [areas[a] EXCEPT !.phase = Ready] ELSE areas[a]]
  PROVE  Steady
<1> SUFFICES ASSUME NEW a \in Areas
             PROVE  /\ areas'[a].queue = areas[a].queue
                    /\ Calm(areas[a], areas'[a])
                    /\ Fits(areas[a]) => Fits(areas'[a])
  BY DEF Steady
<1>1. areas[a] \in AreaType
  BY AreaTyped
<1>2. CASE a \in S
  <2>1. areas'[a].queue = areas[a].queue /\ areas'[a].phase = Ready
    BY <1>1, <1>2 DEF AreaType
  <2> QED
    BY <2>1, PhaseFields DEF Calm, Fits
<1>3. CASE a \notin S
  BY <1>3, SamePhaseCalm
<1> QED
  BY <1>2, <1>3

LEMMA WorkerIdleSteady ==
  ASSUME Typed, WorkerIdle
  PROVE  Steady
  BY ReopenedSteady DEF WorkerIdle

-----------------------------------------------------------------------------
\* The verdicts.

LEMMA CredentialSteady ==
  ASSUME Typed, worker.at \in {"wire", "refetch"}, CredentialChanged
  PROVE  Steady
<1> DEFINE a == worker.area
<1>1. a \in Areas
  BY WorkerInHand
<1>2. areas' = areas \/ SetArea(a, [areas[a] EXCEPT !.phase = Ready])
  BY DEF CredentialChanged, SetArea
<1>3. Ready.kind = "Ready" /\ Ready \in PhaseType
  BY PhaseFields, PhaseTypes
<1>4. SetArea(a, [areas[a] EXCEPT !.phase = Ready]) => Rephased(a, Ready)
  BY <1>1, <1>3, SetPhase
<1> QED
  BY <1>1, <1>2, <1>3, <1>4, SameSteady, RephasedSteady

LEMMA TransportSteady ==
  ASSUME Typed, worker.at \in {"wire", "refetch"}, TransportFailure
  PROVE  Steady
<1> DEFINE a == worker.area  o == worker.op
           parked == attempts[o] + 1 >= MaxTransportAttempts
           p == IF parked THEN Failed(o, TRUE) ELSE Backoff
<1>1. a \in Areas /\ o \in Ops
  BY WorkerInHand
<1>2. CASE areas[a].phase = InFlight /\ HeadOp(areas[a]) = o
  <2>1. SetArea(a, [areas[a] EXCEPT !.phase = p])
    BY <1>2 DEF TransportFailure
  <2>2. p \in PhaseType /\ p.kind \in {"Backoff", "Failed"} /\ (p.kind = "Failed" => p.op = o)
    BY <1>1, PhaseTypes, PhaseFields
  <2> HIDE DEF p
  <2> QED
    BY <1>1, <1>2, <2>1, <2>2, SetPhase, RephasedSteady
<1>3. CASE ~(areas[a].phase = InFlight /\ HeadOp(areas[a]) = o)
  BY <1>3, SameSteady DEF TransportFailure
<1> QED
  BY <1>2, <1>3

\* What a verdict does to the areas.
LEMMA VerdictOkShape ==
  ASSUME Typed, Arranged, VerdictOk
  PROVE  /\ worker.area \in Areas /\ worker.op \in Ops
         /\ areas[worker.area].phase = InFlight
         /\ HeadOp(areas[worker.area]) = worker.op
         /\ \/ EditLeaves(worker.area, worker.op)
            \/ Rephased(worker.area, AwaitingRetirement(worker.op, worker.rev))
<1> DEFINE a == worker.area  o == worker.op
<1>1. a \in Areas /\ o \in Ops /\ worker.rev \in Revs
  BY WorkerInHand DEF VerdictOk
<1>2. HeadOp(areas[a]) = o /\ areas[a].phase = InFlight
  BY DEF VerdictOk, Current
<1>3. areas[a].queue # << >>
  BY <1>1, <1>2 DEF HeadOp, Ops, NoOp
<1>4. AwaitingRetirement(o, worker.rev) \in PhaseType
  BY <1>1, PhaseTypes
<1>5. \/ SetArea(a, PopAcknowledged(areas[a], worker.rev, expired))
      \/ SetArea(a, [areas[a] EXCEPT !.phase = AwaitingRetirement(o, worker.rev)])
  BY DEF VerdictOk
<1> QED
  BY <1>1, <1>2, <1>3, <1>4, <1>5, HeadLeaves, SetPhase

LEMMA ConflictApplySteady ==
  ASSUME Typed, ConflictApply
  PROVE  Steady /\ (~CredentialChanged /\ Current => Settled(areas'[worker.area]))
<1> DEFINE a == worker.area
           x == [areas[a] EXCEPT !.phase = Ready]
           y == ReplayOver(x, worker.doc)
<1>1. a \in Areas /\ areas[a] \in AreaType /\ worker.doc \in DocType
  BY WorkerInHand DEF ConflictApply
<1>2. x \in AreaType /\ x.queue = areas[a].queue /\ x.phase = Ready
  <2>1. Ready \in PhaseType
    BY PhaseTypes
  <2> QED
    BY <1>1, <2>1 DEF AreaType
<1>3. CASE CredentialChanged
  BY <1>3, CredentialSteady DEF ConflictApply
<1>4. CASE ~CredentialChanged /\ ~Current
  BY <1>4, SameSteady DEF ConflictApply
<1>5. CASE ~CredentialChanged /\ Current
  <2>1. SetArea(a, y)
    BY <1>5 DEF ConflictApply
  <2> HIDE DEF x
  <2>2. /\ y \in AreaType /\ y.queue = x.queue /\ Settled(y)
        /\ Fits(x) => Fits(y)
    BY <1>1, <1>2, ReplayType, ReplayFits
  <2>3. Fits(x)
    BY <1>2, PhaseFields DEF Fits
  <2> HIDE DEF y
  <2>4. areas'[a] = y
    BY <1>1, <2>1 DEF SetArea, QueueType
  <2> QED
    BY <1>1, <1>2, <2>1, <2>2, <2>3, <2>4, SettledCalm, SetAreaSteady
<1> QED
  BY <1>3, <1>4, <1>5

LEMMA VerdictsSteady ==
  ASSUME Typed, Verdicts
  PROVE  VerdictOk \/ Steady
<1>1. CASE VerdictStale
  BY <1>1, SameSteady DEF VerdictStale
<1>2. CASE VerdictCredential
  BY <1>2, CredentialSteady DEF VerdictCredential
<1>3. CASE VerdictTransport
  BY <1>3, TransportSteady DEF VerdictTransport
<1>4. CASE VerdictHeld \/ VerdictRefused
  <2> DEFINE a == worker.area
  <2>1. a \in Areas /\ worker.op \in Ops
    BY <1>4, WorkerInHand DEF VerdictHeld, VerdictRefused
  <2>2. HeadOp(areas[a]) = worker.op
    BY <1>4 DEF VerdictHeld, VerdictRefused, Current
  <2>3. Backoff \in PhaseType /\ Failed(worker.op, TRUE) \in PhaseType
    BY <2>1, PhaseTypes
  <2>4. Rephased(a, Backoff) \/ Rephased(a, Failed(worker.op, TRUE))
    BY <1>4, <2>1, <2>3, SetPhase DEF VerdictHeld, VerdictRefused
  <2>5. /\ Backoff.kind = "Backoff" /\ Failed(worker.op, TRUE).kind = "Failed"
        /\ Failed(worker.op, TRUE).op = worker.op
    BY PhaseFields
  <2> QED
    BY <2>1, <2>2, <2>4, <2>5, RephasedSteady
<1>5. CASE VerdictUpgrade
  <2> DEFINE S == { a \in Areas : areas[a].phase = InFlight /\ a \in CloudAreas }
  <2>1. areas' = [a \in Areas |->
           IF a \in S THEN [areas[a] EXCEPT !.phase = Ready] ELSE areas[a]]
    BY <1>5 DEF VerdictUpgrade
  <2> HIDE DEF S
  <2> QED
    BY <2>1, ReopenedSteady
<1>6. CASE VerdictConflict
  BY <1>6, CredentialSteady, SameSteady DEF VerdictConflict
<1>7. CASE ConflictFetch
  BY <1>7, CredentialSteady, TransportSteady, SameSteady DEF ConflictFetch
<1>8. CASE ConflictApply
  BY <1>8, ConflictApplySteady
<1> QED
  BY <1>1, <1>2, <1>3, <1>4, <1>5, <1>6, <1>7, <1>8 DEF Verdicts

-----------------------------------------------------------------------------
\* The engine.

LEMMA ConfirmCalm ==
  ASSUME NEW area \in AreaType, NEW rev
  PROVE  LET y == Confirm(area, rev) IN
         y.queue = area.queue /\ Calm(area, y) /\ (Fits(area) => Fits(y))
<1> DEFINE y == Confirm(area, rev)
<1>1. y.queue = area.queue /\ y.phase = area.phase
  BY DEF Confirm, AreaType
<1> HIDE DEF y
<1>2. Calm(area, y) /\ (Fits(area) => Fits(y))
  BY <1>1, SamePhaseCalm
<1> QED
  BY <1>1, <1>2 DEF y

LEMMA EngineRowsSteady == ASSUME Typed, EngineRows PROVE Steady
<1> DEFINE present == { a \in CloudAreas : engine.rows[a] # NoRev }
<1>1. CASE areas' = areas
  BY <1>1, SameSteady
<1>2. CASE areas' = [a \in Areas |->
             IF RowsCarryRevisions /\ a \in present
               THEN Confirm(areas[a], engine.rows[a]) ELSE areas[a]]
  <2> HIDE DEF present
  <2> SUFFICES ASSUME NEW a \in Areas
               PROVE  /\ areas'[a].queue = areas[a].queue
                      /\ Calm(areas[a], areas'[a])
                      /\ Fits(areas[a]) => Fits(areas'[a])
    BY DEF Steady
  <2>1. areas'[a] = areas[a] \/ areas'[a] = Confirm(areas[a], engine.rows[a])
    BY <1>2
  <2>2. areas[a] \in AreaType
    BY AreaTyped
  <2> QED
    BY <2>1, <2>2, ConfirmCalm, SamePhaseCalm
<1> QED
  BY <1>1, <1>2 DEF EngineRows

\* A deleted map.
Emptied(a) == areas' = [areas EXCEPT ![a] = GoneArea(areas[a])]

LEMMA EmptyFits ==
  /\ EmptyArea.queue = << >> /\ EmptyArea.phase = Ready /\ HeadOp(EmptyArea) = NoOp
  /\ Queued(EmptyArea) = {} /\ Sorted(EmptyArea.queue) /\ Fits(EmptyArea)
  /\ Settled(EmptyArea)
<1>1. EmptyArea.queue = << >> /\ EmptyArea.phase = Ready
  BY DEF EmptyArea
<1>2. HeadOp(EmptyArea) = NoOp
  BY <1>1 DEF HeadOp
<1>3. Queued(EmptyArea) = {} /\ Sorted(EmptyArea.queue)
  BY <1>1, EmptySorted, QueuedMembers
<1>4. Fits(EmptyArea) /\ Settled(EmptyArea)
  BY <1>1, PhaseFields DEF Fits, Settled
<1> QED
  BY <1>1, <1>2, <1>3, <1>4

LEMMA GoneFits ==
  ASSUME NEW area
  PROVE  /\ GoneArea(area).queue = << >> /\ GoneArea(area).phase = Ready
         /\ HeadOp(GoneArea(area)) = NoOp /\ Queued(GoneArea(area)) = {}
         /\ Sorted(GoneArea(area).queue) /\ Fits(GoneArea(area))
         /\ Settled(GoneArea(area))
<1>1. GoneArea(area).queue = << >> /\ GoneArea(area).phase = Ready
  BY DEF GoneArea, EmptyArea
<1>2. HeadOp(GoneArea(area)) = NoOp
  BY <1>1 DEF HeadOp
<1>3. Queued(GoneArea(area)) = {} /\ Sorted(GoneArea(area).queue)
  BY <1>1, EmptySorted, QueuedMembers
<1>4. Fits(GoneArea(area)) /\ Settled(GoneArea(area))
  BY <1>1, PhaseFields DEF Fits, Settled
<1> QED
  BY <1>1, <1>2, <1>3, <1>4

LEMMA RecoverShape ==
  ASSUME Typed, NEW a \in CloudAreas, RecoverUnavailable(a)
  PROVE  \/ CommitDelete(a, 0) /\ Emptied(a)
         \/ /\ Steady
            /\ UNCHANGED << fenceVars, wal, markerVars, marks, accounted, discarded, wake >>
<1> DEFINE x == [areas[a] EXCEPT !.baseFailed = TRUE,
                                 !.phase = Failed(HeadOp(areas[a]), TRUE)]
<1>1. CASE a \in intents
  BY <1>1 DEF RecoverUnavailable, CommitDelete, SetArea, Emptied
<1>2. CASE a \notin intents
  <2>1. a \in Areas /\ areas[a] \in AreaType
    BY DEF Areas, QueueType
  <2>2. CASE areas' = areas
    BY <1>2, <2>2, SameSteady DEF RecoverUnavailable
  <2>3. CASE SetArea(a, x) /\ areas[a].queue # << >>
    <3>1. HeadOp(areas[a]) \in Ops
      BY <2>1, <2>3, QueuedType
    <3>2. Failed(HeadOp(areas[a]), TRUE) \in PhaseType
      BY <3>1, PhaseTypes
    <3>3. x \in AreaType /\ x.queue = areas[a].queue /\ x.phase = Failed(HeadOp(areas[a]), TRUE)
      BY <2>1, <3>2 DEF AreaType
    <3> HIDE DEF x
    <3>4. HeadOp(x) = HeadOp(areas[a])
      BY <3>3 DEF HeadOp
    <3>5. Fits(x) /\ Settled(x)
      <4>1. x.phase.kind = "Failed" /\ x.phase.op = HeadOp(x)
        BY <3>3, <3>4 DEF Failed, Phase
      <4> QED
        BY <4>1 DEF Fits, Settled
    <3>6. Calm(areas[a], x)
      BY <3>3, <3>5, SettledCalm
    <3> QED
      BY <1>2, <2>1, <2>3, <3>3, <3>5, <3>6, SetAreaSteady DEF RecoverUnavailable
  <2>4. areas' = areas \/ (SetArea(a, x) /\ areas[a].queue # << >>)
    <3> HIDE DEF x
    <3> QED
      BY <1>2 DEF RecoverUnavailable, x
  <2> HIDE DEF x
  <2> QED
    BY <2>2, <2>3, <2>4
<1> QED
  BY <1>1, <1>2

LEMMA BaseLoadedFits ==
  ASSUME NEW area \in AreaType, expired \in SUBSET Ops
  PROVE  LET y == BaseLoaded(area) IN
         /\ y.queue = area.queue /\ (Fits(area) => Fits(y))
         /\ Calm(area, y)
<1> DEFINE opened == [area EXCEPT !.needsBase = FALSE, !.baseFailed = FALSE]
           y == BaseLoaded(area)
<1>1. opened \in AreaType /\ opened.queue = area.queue /\ opened.phase = area.phase
  <2>1. opened \in AreaType
    BY FieldTypes
  <2> QED
    BY <2>1 DEF AreaType
<1>2. y = opened \/ y = ResumeWithDeferredConflict(opened, expired)
  BY DEF BaseLoaded
<1> HIDE DEF opened
<1>3. CASE y = opened
  <2> HIDE DEF y
  <2>1. Calm(area, y) /\ (Fits(area) => Fits(y))
    BY <1>1, <1>3, SamePhaseCalm
  <2> QED
    BY <1>1, <1>3, <2>1 DEF y
<1>4. CASE y = ResumeWithDeferredConflict(opened, expired)
  <2> HIDE DEF y
  <2>1. y \in AreaType /\ y.queue = opened.queue /\ Fits(y) /\ Settled(y)
    BY <1>1, <1>4, ResumeFits, ResumeType
  <2>2. Calm(area, y)
    BY <2>1, SettledCalm
  <2> QED
    BY <1>1, <2>1, <2>2 DEF y
<1> QED
  BY <1>2, <1>3, <1>4

LEMMA EngineAdoptSteady == ASSUME Typed, EngineAdopt PROVE Steady
<1> DEFINE a == engine.area
           x == ReplayOver(areas[a], engine.doc)
<1>1. a \in Areas /\ areas[a] \in AreaType /\ engine.doc \in DocType /\ expired \in SUBSET Ops
  BY DEF EngineAdopt, TaskType, EngineType, QueueType, Areas, InHand
<1>2. areas' = areas \/ SetArea(a, BaseLoaded(x))
  BY DEF EngineAdopt
<1>3. /\ x \in AreaType /\ x.queue = areas[a].queue
      /\ Calm(areas[a], x) /\ (Fits(areas[a]) => Fits(x))
  BY <1>1, ReplayType, ReplayFits
<1> HIDE DEF x
<1>4. LET y == BaseLoaded(x) IN
      y.queue = areas[a].queue /\ Calm(areas[a], y) /\ (Fits(areas[a]) => Fits(y))
  BY <1>1, <1>3, BaseLoadedFits, CalmTrans
<1> QED
  BY <1>1, <1>2, <1>4, SameSteady, SetAreaSteady

LEMMA InOrderMembers ==
  ASSUME NEW S \in SUBSET Ops
  PROVE  /\ InOrder(S) \in Seq(Ops) /\ Sorted(InOrder(S)) /\ Members(InOrder(S)) = S
         /\ Len(InOrder(S)) = Cardinality(S)
         /\ InOrder(S) = << >> <=> S = {}
<1> DEFINE q == InOrder(S)
           n == Cardinality(S)
<1>1. \E p \in [1..n -> S] : \A i, j \in DOMAIN p : i < j => p[i] < p[j]
  BY InOrderExists
<1>2. q \in [1..n -> S] /\ \A i, j \in 1..n : i < j => q[i] < q[j]
  BY <1>1 DEF InOrder
<1>3. n \in Nat /\ IsFiniteSet(S) /\ q \in Seq(Ops)
  BY FinitelyManyOps, InOrderTyped
<1> HIDE DEF q, n
<1>4. Len(q) = n
  BY <1>2, <1>3
<1>5. Sorted(q)
  BY <1>2, <1>4 DEF Sorted
<1>6. Members(q) = S
  <2>1. \A i, j \in 1..n : q[i] = q[j] => i = j
    BY <1>3, <1>4, <1>5, SortedOnce
  <2>2. q \in Injection(1..n, S)
    BY <1>2, <2>1 DEF Injection, IsInjective
  <2>3. Cardinality(1..n) = n
    BY <1>3, FS_Interval
  <2>4. q \in Surjection(1..n, S)
    BY <1>3, <2>2, <2>3, FS_Injection DEF n
  <2>5. \A o \in S : \E i \in 1..n : q[i] = o
    BY <2>4 DEF Surjection
  <2> QED
    BY <1>2, <1>4, <2>5 DEF Members
<1>7. q = << >> <=> S = {}
  <2>1. q = << >> <=> n = 0
    BY <1>3, <1>4
  <2>2. n = 0 <=> S = {}
    BY <1>3, FS_EmptySet DEF n
  <2> QED
    BY <2>1, <2>2
<1> QED
  BY <1>3, <1>4, <1>5, <1>6, <1>7 DEF q, n

\* The records of one map that the engine has read.
LoadedOf(a) == { o \in engine.loaded : AreaOf[o] = a }

\* The areas after an activation: a map with records has them as its queue,
\* another cloud map has none, the session's maps stay.
Installed(a) ==
  /\ LoadedOf(a) # {} =>
       /\ areas'[a].queue = InOrder(LoadedOf(a))
       /\ \/ areas'[a].phase = Ready
          \/ areas[a].queue = << >> /\ areas'[a].phase = areas[a].phase
          \/ areas'[a].phase = Failed(HeadOp(areas'[a]), FALSE)
  /\ LoadedOf(a) = {} =>
       \/ areas'[a] = areas[a] /\ (a \in CloudAreas => areas[a].queue = << >>)
       \/ areas'[a] = GoneArea(areas[a]) /\ a \in CloudAreas /\ areas[a].queue # << >>

LEMMA ActivateInstalls ==
  ASSUME Typed, Arranged, ActivateInstall, NEW a \in Areas
  PROVE  Installed(a)
<1> DEFINE gone == { b \in CloudAreas : areas[b].queue # << >> }
           remaining(b) == IF b \in gone THEN GoneArea(areas[b]) ELSE areas[b]
           old == expired \cup (engine.loaded \cap aged)
           filled == [remaining(a) EXCEPT !.queue = InOrder(LoadedOf(a)), !.needsBase = TRUE]
<1>1. areas'[a] = IF InOrder(LoadedOf(a)) # << >>
                    THEN ParkExpiredHead(filled, old) ELSE remaining(a)
  BY DEF ActivateInstall, LoadedOf
<1>2. LoadedOf(a) \in SUBSET Ops
  BY DEF LoadedOf, TaskType, EngineType
<1>3. InOrder(LoadedOf(a)) = << >> <=> LoadedOf(a) = {}
  BY <1>2, InOrderMembers
<1>4. remaining(a) \in AreaType
  BY GoneTyped DEF QueueType
<1>5. CASE LoadedOf(a) = {}
  <2>1. areas'[a] = remaining(a)
    BY <1>1, <1>3, <1>5
  <2> QED
    BY <1>5, <2>1 DEF Installed
<1>6. CASE LoadedOf(a) # {}
  <2>1. a \in CloudAreas
    BY <1>6 DEF LoadedOf, Arranged, LoadedCloud, IsCloud
  <2>2. \/ remaining(a).phase = Ready
        \/ areas[a].queue = << >> /\ remaining(a).phase = areas[a].phase
    BY <2>1, GoneFits
  <2>3. areas'[a] = ParkExpiredHead(filled, old)
    BY <1>1, <1>3, <1>6
  <2>4. InOrder(LoadedOf(a)) \in Seq(Ops)
    BY <1>2, InOrderMembers
  <2> HIDE DEF remaining, old
  <2>5. /\ filled \in AreaType /\ filled.queue = InOrder(LoadedOf(a))
        /\ filled.phase = remaining(a).phase
    <3>1. filled \in AreaType
      BY <1>4, <2>4, FieldTypes
    <3> QED
      BY <1>4, <3>1 DEF AreaType
  <2> HIDE DEF filled
  <2>6. /\ areas'[a].queue = filled.queue
        /\ areas'[a].phase = filled.phase \/ areas'[a].phase = Failed(HeadOp(filled), FALSE)
    BY <2>3, <2>5, ParkFits
  <2>7. HeadOp(areas'[a]) = HeadOp(filled)
    BY <2>6 DEF HeadOp
  <2> QED
    BY <1>6, <2>2, <2>5, <2>6, <2>7 DEF Installed
<1> QED
  BY <1>5, <1>6

-----------------------------------------------------------------------------
\* Every step keeps the arrangement.

LEMMA ShrinksArranged ==
  ASSUME Typed, Arranged, JournalKeeps, LoadedKeeps, nextOp' = nextOp,
         \A b \in Areas : /\ Queued(areas'[b]) \subseteq Queued(areas[b])
                          /\ Sorted(areas'[b].queue) /\ Fits(areas'[b])
  PROVE  Arranged'
<1>1. QueueMade' /\ QueueSorted' /\ PhasesFit'
  BY DEF Arranged, QueueMade, QueueSorted, PhasesFit
<1>2. JournalCloud' /\ LoadedCloud'
  BY DEF Arranged, JournalCloud, LoadedCloud, JournalKeeps, LoadedKeeps, IsCloud
<1> QED
  BY <1>1, <1>2 DEF Arranged

LEMMA EmptiedAreas ==
  ASSUME Typed, NEW a \in Areas, Emptied(a)
  PROVE  areas'[a] = GoneArea(areas[a]) /\ \A b \in Areas : b # a => areas'[b] = areas[b]
  BY DEF Emptied, QueueType

LEMMA EmptiedArranged ==
  ASSUME Typed, Arranged, NEW a \in Areas, Emptied(a), JournalKeeps, LoadedKeeps,
         nextOp' = nextOp
  PROVE  Arranged'
<1>1. \A b \in Areas : areas'[b] = GoneArea(areas[b]) \/ areas'[b] = areas[b]
  BY EmptiedAreas
<1>2. \A b \in Areas : /\ Queued(areas'[b]) \subseteq Queued(areas[b])
                       /\ Sorted(areas'[b].queue) /\ Fits(areas'[b])
  BY <1>1, GoneFits DEF Arranged, QueueSorted, PhasesFit
<1> QED
  BY <1>2, ShrinksArranged

LEMMA RephasedArranged ==
  ASSUME Typed, Arranged, NEW a \in Areas, NEW p, Rephased(a, p), JournalKeeps, LoadedKeeps,
         nextOp' = nextOp, p.kind \notin {"Conflict", "Failed"},
         p.kind = "AwaitingRetirement" => p.op = HeadOp(areas[a])
  PROVE  Arranged'
<1>1. Queued(areas'[a]) = Queued(areas[a]) /\ HeadOp(areas'[a]) = HeadOp(areas[a])
  BY DEF Rephased, Queued, HeadOp
<1>2. Fits(areas'[a]) /\ Sorted(areas'[a].queue)
  BY <1>1 DEF Rephased, Fits, Arranged, QueueSorted
<1>3. \A b \in Areas : /\ Queued(areas'[b]) \subseteq Queued(areas[b])
                       /\ Sorted(areas'[b].queue) /\ Fits(areas'[b])
  BY <1>1, <1>2 DEF Rephased, Arranged, QueueSorted, PhasesFit
<1> QED
  BY <1>3, ShrinksArranged

LEMMA WorkerArranged == ASSUME Typed, Own, Arranged, Worker PROVE Arranged'
<1>1. UNCHANGED << nextOp, engine >>
  BY DEF Worker, WorkerRetire, WorkerRetireFails, WorkerTake, WorkerTimer, WorkerIdle,
     WorkerWake, Verdicts, VerdictStale, VerdictOk, VerdictCredential, CredentialChanged,
     VerdictTransport, VerdictHeld, VerdictRefused, VerdictUpgrade, VerdictConflict,
     ConflictFetch, ConflictApply
<1>2. LoadedKeeps
  BY <1>1 DEF LoadedKeeps
<1>3. ASSUME NEW a \in Areas, WorkerRetire(a) PROVE Arranged'
  <2>1. JournalKeeps
    BY <1>3, RetireKeeps DEF WorkerRetire
  <2>2. EditLeaves(a, areas[a].phase.op)
    BY <1>3, WorkerRetireLeaves
  <2> QED
    BY <1>1, <1>2, <2>1, <2>2, LeavesArranged
<1>4. ASSUME NEW a \in Areas, WorkerRetireFails(a) \/ WorkerTimer(a) PROVE Arranged'
  <2>1. UNCHANGED << areas, wal >>
    BY <1>4 DEF WorkerRetireFails, WorkerTimer
  <2> QED
    BY <1>1, <1>2, <2>1, SameSteady, SteadyArranged DEF JournalKeeps
<1>5. ASSUME NEW a \in Areas, WorkerTake(a) PROVE Arranged'
  <2>1. Rephased(a, InFlight) /\ wal' = wal
    BY <1>5, WorkerTakeRephased DEF WorkerTake
  <2> QED
    BY <1>1, <1>2, <2>1, RephasedArranged, PhaseFields DEF JournalKeeps
<1>6. CASE WorkerIdle
  <2>1. Steady /\ wal' = wal
    BY <1>6, WorkerIdleSteady DEF WorkerIdle
  <2> QED
    BY <1>1, <1>2, <2>1, SteadyArranged DEF JournalKeeps
<1>7. CASE WorkerWake
  BY <1>1, <1>2, <1>7, SameSteady, SteadyArranged DEF WorkerWake, JournalKeeps
<1>8. CASE Verdicts
  <2>1. wal' = wal \/ Retire({worker.op})
    BY <1>8 DEF Verdicts, VerdictStale, VerdictOk, VerdictCredential, CredentialChanged,
       VerdictTransport, VerdictHeld, VerdictRefused, VerdictUpgrade, VerdictConflict,
       ConflictFetch, ConflictApply
  <2>2. JournalKeeps
    BY <2>1, RetireKeeps DEF JournalKeeps
  <2>3. CASE Steady
    BY <1>1, <1>2, <2>2, <2>3, SteadyArranged
  <2>4. CASE VerdictOk
    <3> DEFINE p == AwaitingRetirement(worker.op, worker.rev)
    <3>1. /\ worker.area \in Areas /\ HeadOp(areas[worker.area]) = worker.op
          /\ EditLeaves(worker.area, worker.op) \/ Rephased(worker.area, p)
      BY <2>4, VerdictOkShape
    <3>2. p.kind = "AwaitingRetirement" /\ p.op = worker.op
      BY PhaseFields
    <3> HIDE DEF p
    <3> QED
      BY <1>1, <1>2, <2>2, <3>1, <3>2, LeavesArranged, RephasedArranged
  <2> QED
    BY <1>8, <2>3, <2>4, VerdictsSteady
<1> QED
  BY <1>3, <1>4, <1>5, <1>6, <1>7, <1>8 DEF Worker

LEMMA InstallArranged == ASSUME Typed, Own, Arranged, ActivateInstall PROVE Arranged'
<1> USE DEF TaskType, EngineType
<1>1. \A a \in Areas : LoadedOf(a) \in SUBSET Ops
  BY DEF LoadedOf
<1>2. \A o \in engine.loaded : o < nextOp
  BY DEF ActivateInstall, Own, LoadedOwned
<1>3. ASSUME NEW a \in Areas
      PROVE  /\ Sorted(areas'[a].queue) /\ Fits(areas'[a])
             /\ \A o \in Queued(areas'[a]) : AreaOf[o] = a /\ o < nextOp
  <2>1. Installed(a)
    BY ActivateInstalls
  <2>2. CASE LoadedOf(a) = {}
    BY <2>1, <2>2, GoneFits DEF Installed, Arranged, QueueMade, QueueSorted, PhasesFit
  <2>3. CASE LoadedOf(a) # {}
    <3>1. areas'[a].queue = InOrder(LoadedOf(a))
      BY <2>1, <2>3 DEF Installed
    <3>2. Sorted(areas'[a].queue) /\ Queued(areas'[a]) = LoadedOf(a)
      BY <1>1, <3>1, InOrderMembers, QueuedMembers
    <3>3. Fits(areas'[a])
      <4>1. CASE areas'[a].phase = Ready
        BY <4>1, PhaseFields DEF Fits
      <4>2. CASE areas'[a].phase = Failed(HeadOp(areas'[a]), FALSE)
        <5>1. areas'[a].phase.kind = "Failed" /\ areas'[a].phase.op = HeadOp(areas'[a])
          BY <4>2 DEF Failed, Phase
        <5> QED
          BY <5>1 DEF Fits
      <4>3. CASE areas[a].queue = << >> /\ areas'[a].phase = areas[a].phase
        <5>1. Fits(areas[a])
          BY DEF Arranged, PhasesFit
        <5>2. areas[a].phase.kind \notin {"AwaitingRetirement", "Failed"}
          BY <4>3, <5>1, FitsNonempty
        <5>3. Queued(areas[a]) = {}
          BY <4>3, EmptySorted, QueuedMembers
        <5> QED
          BY <4>3, <5>1, <5>2, <5>3 DEF Fits
      <4> QED
        BY <2>1, <2>3, <4>1, <4>2, <4>3 DEF Installed
    <3> QED
      BY <1>2, <3>2, <3>3 DEF LoadedOf
  <2> QED
    BY <2>2, <2>3
<1>4. UNCHANGED << wal, nextOp >> /\ engine'.loaded = {}
  BY DEF ActivateInstall
<1>5. QueueMade' /\ QueueSorted' /\ PhasesFit'
  BY <1>3, <1>4 DEF QueueMade, QueueSorted, PhasesFit
<1>6. JournalCloud' /\ LoadedCloud'
  BY <1>4 DEF Arranged, JournalCloud, LoadedCloud, IsCloud
<1> QED
  BY <1>5, <1>6 DEF Arranged

\* What the engine's other actions do to the areas.
LEMMA EngineShape ==
  ASSUME Typed, Engine
  PROVE  \/ ActivateInstall
         \/ Steady /\ accounted' = accounted /\ marks' = marks
         \/ \E a \in CloudAreas : CommitDelete(a, 0) /\ Emptied(a)
<1>1. CASE EngineTick \/ EngineFail \/ ActivateLoad \/ EngineAsk \/ EngineDone
  BY <1>1, SameSteady DEF EngineTick, EngineFail, ActivateLoad, EngineAsk, EngineDone
<1>2. CASE EngineRows \/ EngineAdopt
  BY <1>2, EngineRowsSteady, EngineAdoptSteady DEF EngineRows, EngineAdopt
<1>3. ASSUME NEW a \in CloudAreas, EngineFetch(a)
      PROVE  \/ Steady /\ accounted' = accounted /\ marks' = marks
             \/ CommitDelete(a, 0) /\ Emptied(a)
  <2>1. UNCHANGED << areas, statVars >> \/ RecoverUnavailable(a)
    BY <1>3 DEF EngineFetch
  <2> QED
    BY <2>1, SameSteady, RecoverShape
<1> QED
  BY <1>1, <1>2, <1>3 DEF Engine

\* What the engine reads and retires.
LEMMA EngineJournal ==
  ASSUME Typed, Engine
  PROVE  /\ JournalKeeps /\ UNCHANGED << nextOp, worker, srv, receipts, del >>
         /\ ActivateInstall \/ UNCHANGED gen
<1>1. JournalKeeps
  <2>1. wal' = wal \/ (\E S : Retire(S))
    <3>1. ASSUME NEW a \in CloudAreas, EngineFetch(a)
          PROVE  wal' = wal \/ (\E S : Retire(S))
      BY <3>1 DEF EngineFetch, RecoverUnavailable, CommitDelete
    <3> QED
      BY <3>1 DEF Engine, EngineTick, EngineFail, ActivateLoad, ActivateInstall, EngineAsk,
         EngineRows, EngineAdopt, EngineDone
  <2> QED
    BY <2>1, RetireKeeps DEF JournalKeeps
<1>2. /\ UNCHANGED << nextOp, worker, srv, receipts, del >>
      /\ ActivateInstall \/ UNCHANGED gen
  BY DEF Engine, EngineTick, EngineFail, ActivateLoad, ActivateInstall, EngineAsk, EngineRows,
     EngineAdopt, EngineDone, EngineFetch
<1> QED
  BY <1>1, <1>2

\* The engine forgets what it has read, keeps it, or reads a journal.
LEMMA EngineReads ==
  ASSUME Typed, Engine
  PROVE  LoadedKeeps \/ (ActivateLoad /\ engine'.loaded = Loadable(ViewerOf[engine.tick])
                           /\ engine'.at = "activating" /\ engine'.tick = engine.tick)
<1> USE DEF TaskType, EngineType
<1>1. ASSUME EngineIdle PROVE LoadedKeeps
  BY <1>1 DEF EngineIdle, IdleEngine, LoadedKeeps
<1>2. CASE EngineTick \/ EngineFail \/ EngineDone
  BY <1>2 DEF EngineTick, EngineFail, EngineDone, IdleEngine, LoadedKeeps
<1>3. CASE EngineAsk \/ EngineRows
  BY <1>3 DEF EngineAsk, EngineRows, IdleEngine, LoadedKeeps
<1>4. CASE EngineAdopt
  <2>1. EngineIdle \/ engine'.loaded = engine.loaded
    BY <1>4 DEF EngineAdopt
  <2> QED
    BY <1>1, <2>1 DEF LoadedKeeps
<1>5. ASSUME NEW a \in CloudAreas, EngineFetch(a) PROVE LoadedKeeps
  <2>1. EngineIdle \/ engine'.loaded = engine.loaded
    BY <1>5 DEF EngineFetch, EngineSkips
  <2> QED
    BY <1>1, <2>1 DEF LoadedKeeps
<1>6. CASE ActivateInstall
  BY <1>6 DEF ActivateInstall, LoadedKeeps
<1>7. CASE ActivateLoad
  <2> DEFINE viewer == ViewerOf[engine.tick]
             live == Loadable(viewer)
             frozen == { AreaOf[o] : o \in { p \in live : << AreaOf[p], viewer >> \in intentFiles } }
  <2>1. \/ EngineIdle \/ engine' = [engine EXCEPT !.at = "rows", !.gen = engine.tick]
        \/ engine' = [engine EXCEPT !.at = "activating", !.loaded = live, !.frozen = frozen]
    BY <1>7 DEF ActivateLoad
  <2> HIDE DEF live, frozen
  <2>2. CASE engine' = [engine EXCEPT !.at = "activating", !.loaded = live, !.frozen = frozen]
    BY <1>7, <2>2 DEF live
  <2>3. CASE engine' = [engine EXCEPT !.at = "rows", !.gen = engine.tick]
    BY <2>3 DEF LoadedKeeps
  <2> QED
    BY <1>1, <2>1, <2>2, <2>3
<1> QED
  BY <1>2, <1>3, <1>4, <1>5, <1>6, <1>7 DEF Engine

LEMMA EngineArranged == ASSUME Typed, Own, Arranged, Engine PROVE Arranged'
<1>1. JournalKeeps /\ nextOp' = nextOp
  BY EngineJournal
<1>2. CASE ActivateInstall
  BY <1>2, InstallArranged
<1>3. CASE LoadedKeeps /\ ~ActivateInstall
  <2>1. CASE Steady
    BY <1>1, <1>3, <2>1, SteadyArranged
  <2>2. ASSUME NEW a \in CloudAreas, Emptied(a) PROVE Arranged'
    BY <1>1, <1>3, <2>2, EmptiedArranged DEF Areas
  <2> QED
    BY <1>3, <2>1, <2>2, EngineShape
<1>4. CASE ActivateLoad /\ engine'.loaded = Loadable(ViewerOf[engine.tick])
  <2>1. Steady
    BY <1>4, SameSteady DEF ActivateLoad
  <2>2. \A a \in Areas : Queued(areas'[a]) = Queued(areas[a])
    BY <2>1 DEF Steady, Queued
  <2>3. QueueMade' /\ QueueSorted' /\ PhasesFit'
    BY <1>1, <2>1, <2>2 DEF Arranged, QueueMade, QueueSorted, PhasesFit, Steady
  <2>4. JournalCloud' /\ LoadedCloud'
    BY <1>1, <1>4 DEF Arranged, JournalCloud, LoadedCloud, JournalKeeps, Loadable, Replayable,
       IsCloud
  <2> QED
    BY <2>3, <2>4 DEF Arranged
<1> QED
  BY <1>2, <1>3, <1>4, EngineReads

\* Deleting a map.
LEMMA DeletionShape ==
  ASSUME Typed, Deletion
  PROVE  \/ Steady /\ accounted' = accounted
         \/ DeleteSucceeds /\ del.area \in CloudAreas /\ Emptied(del.area)
<1>1. CASE DeletePrepare \/ DeleteLeaves \/ DeleteAbandon
           \/ \E a \in CloudAreas : DeleteBegin(a)
  BY <1>1, SameSteady DEF DeletePrepare, DeleteLeaves, DeleteAbandon, DeleteBegin
<1>2. CASE DeleteAmbiguous
  <2> DEFINE a == del.area
             x == [areas[a] EXCEPT !.needsBase = TRUE]
  <2>1. a \in Areas /\ areas[a] \in AreaType
    BY <1>2 DEF DeleteAmbiguous, InHand, Areas, QueueType
  <2>2. x.queue = areas[a].queue /\ x.phase = areas[a].phase
    BY <2>1 DEF AreaType
  <2>3. SetArea(a, x) /\ accounted' = accounted
    BY <1>2 DEF DeleteAmbiguous
  <2> HIDE DEF x
  <2>4. Calm(areas[a], x) /\ (Fits(areas[a]) => Fits(x))
    BY <2>2, SamePhaseCalm
  <2> QED
    BY <2>1, <2>2, <2>3, <2>4, SetAreaSteady
<1>3. CASE DeleteSucceeds
  BY <1>3 DEF DeleteSucceeds, CommitDelete, SetArea, Emptied, InHand
<1> QED
  BY <1>1, <1>2, <1>3 DEF Deletion

LEMMA DeletionJournal ==
  ASSUME Typed, Deletion
  PROVE  JournalKeeps /\ UNCHANGED << nextOp, worker, gen, srv, receipts, engine, active >>
<1>1. UNCHANGED << nextOp, worker, gen, srv, receipts, engine, active >>
  BY DEF Deletion, DeleteBegin, DeletePrepare, DeleteSucceeds, DeleteLeaves, DeleteAmbiguous,
     DeleteAbandon
<1>2. wal' = wal \/ CommitDelete(del.area, 1)
  BY DEF Deletion, DeleteBegin, DeletePrepare, DeleteSucceeds, DeleteLeaves, DeleteAmbiguous,
     DeleteAbandon
<1>3. JournalKeeps
  BY <1>2, CommitDeleteKeeps DEF JournalKeeps
<1> QED
  BY <1>1, <1>3

LEMMA DeletionArranged == ASSUME Typed, Own, Arranged, Deletion PROVE Arranged'
<1>1. JournalKeeps /\ nextOp' = nextOp /\ LoadedKeeps
  BY DeletionJournal DEF LoadedKeeps
<1> QED
  BY <1>1, DeletionShape, SteadyArranged, EmptiedArranged DEF Areas

LEMMA ServiceKeeps ==
  ASSUME Service
  PROVE  UNCHANGED << up, queueVars, fenceVars, active, cred, shown, diskVars, statVars,
                      engine, rebuilds, wakeVars, nextOp, paused, sent, cancelled, discarded,
                      kept >>
  BY DEF Service, ServiceHandles, ServiceRefuses, RequestTimesOut, ServiceDeletes,
     ForeignEdit, AccessChanges

LEMMA ServiceArranged == ASSUME Typed, Arranged, Service PROVE Arranged'
  BY ServiceKeeps, SameSteady, SteadyArranged DEF JournalKeeps, LoadedKeeps

LEMMA CrashArranged == ASSUME Typed, Arranged, Crash PROVE Arranged'
<1>1. \A a \in Areas : areas'[a] = EmptyArea
  BY DEF Crash
<1>2. JournalKeeps /\ LoadedKeeps /\ nextOp' = nextOp
  BY DEF Crash, JournalKeeps, LoadedKeeps, IdleEngine
<1> QED
  BY <1>1, <1>2, EmptyFits, ShrinksArranged

LEMMA ProcessArranged == ASSUME Typed, Arranged, Process PROVE Arranged'
<1>1. CASE Restart \/ Outage \/ RequestSync \/ Login
  BY <1>1, SameSteady, SteadyArranged DEF Restart, Outage, RequestSync, Login,
     JournalKeeps, LoadedKeeps
<1> QED
  BY <1>1, CrashArranged DEF Process

LEMMA InitArranged == ASSUME Init PROVE Arranged
<1> DEFINE fresh == [EmptyArea EXCEPT !.confirmed = 1, !.token = 1]
<1>1. \A a \in Areas : areas[a].queue = << >> /\ areas[a].phase = Ready
  BY DEF Init, EmptyArea
<1>2. \A a \in Areas : Queued(areas[a]) = {} /\ Sorted(areas[a].queue)
  BY <1>1, EmptySorted, QueuedMembers
<1>3. PhasesFit
  BY <1>1, PhaseFields DEF PhasesFit, Fits
<1>4. JournalCloud /\ LoadedCloud
  BY DEF Init, JournalCloud, LoadedCloud, IdleEngine
<1> QED
  BY <1>2, <1>3, <1>4 DEF Arranged, QueueMade, QueueSorted

LEMMA StepArranged == ASSUME Typed, Own, Arranged, [Next]_vars PROVE Arranged'
<1>1. CASE UNCHANGED vars
  BY <1>1, SameSteady, SteadyArranged DEF vars, JournalKeeps, LoadedKeeps
<1>2. CASE Rebuilds
  BY <1>2, RebuildsSteady, SteadyArranged DEF JournalKeeps, LoadedKeeps
<1> QED
  BY <1>1, <1>2, EditorArranged, WorkerArranged, EngineArranged, DeletionArranged,
     ServiceArranged, ProcessArranged DEF Next

-----------------------------------------------------------------------------
\* The edit in flight is the one in the worker's hand.

Flies(a) ==
  /\ worker.at \in {"wire", "refetch"} /\ worker.area = a
  /\ worker.op = HeadOp(areas[a]) /\ gen[worker.op] = worker.gen
  /\ IsCloud(worker.op) => active = worker.gen

Flying == \A a \in Areas : areas[a].phase = InFlight => Flies(a)

\* An edit that waits for its retirement was applied.
Awaiting ==
  \A a \in Areas : areas[a].phase.kind = "AwaitingRetirement" => Applied(areas[a].phase.op)

\* An answer says of its edit what the service did with it.
Answered ==
  /\ worker.at = "wire" /\ worker.reply = "ok" => Applied(worker.op)
  /\ worker.at = "wire" /\ worker.reply = "upgrade" => IsCloud(worker.op)

Received == \A o \in Ops : receipts[o] # NoRev => Applied(o)

Flight == Flying /\ Awaiting /\ Answered /\ Received

\* Nothing leaves the service's log.
LogsGrow == \A o \in Ops : Applied(o) => Applied(o)'

LEMMA SameLogs ==
  ASSUME srv' = srv
  PROVE  LogsGrow
  BY DEF LogsGrow, Applied

LEMMA KeptLogs ==
  ASSUME Typed, \A a \in Areas : srv'[a].log = srv[a].log
  PROVE  LogsGrow
<1>1. \A o \in Ops : AreaOf[o] \in Areas
  BY PendingAssumption
<1> QED
  BY <1>1 DEF LogsGrow, Applied

LEMMA AppendHolds ==
  ASSUME NEW q \in Seq(Ops), NEW o \in Ops, NEW r \in Seq(Ops), r = Append(q, o)
  PROVE  /\ \E i \in DOMAIN r : r[i] = o
         /\ \A i \in DOMAIN q : i \in DOMAIN r /\ r[i] = q[i]
<1>1. /\ Len(q) \in Nat /\ Len(r) = Len(q) + 1
      /\ \A i \in 1..Len(q) : r[i] = q[i]
      /\ r[Len(q) + 1] = o /\ r \in Seq(Ops)
  OBVIOUS
<1>2. DOMAIN q = 1..Len(q) /\ DOMAIN r = 1..Len(r)
  BY <1>1
<1>3. Len(q) + 1 \in 1..Len(r) /\ \A i \in 1..Len(q) : i \in 1..Len(r)
  BY <1>1
<1> QED
  BY <1>1, <1>2, <1>3

LEMMA AppendLogs ==
  ASSUME Typed, NEW a \in Areas, NEW o \in Ops, NEW rev, AreaOf[o] = a,
         srv' = [srv EXCEPT ![a].rev = rev, ![a].log = Append(@, o)]
  PROVE  LogsGrow /\ Applied(o)'
<1>1. srv[a].log \in Seq(Ops)
  BY DEF ServiceType
<1>2. srv'[a].log = Append(srv[a].log, o) /\ \A b \in Areas : b # a => srv'[b] = srv[b]
  BY DEF ServiceType
<1>3. PICK q, r : q = srv[a].log /\ r = Append(srv[a].log, o)
  OBVIOUS
<1>4. /\ \E i \in DOMAIN r : r[i] = o
      /\ \A i \in DOMAIN q : i \in DOMAIN r /\ r[i] = q[i]
  <2>1. q \in Seq(Ops) /\ r = Append(q, o)
    BY <1>1, <1>3
  <2>2. r \in Seq(Ops)
    BY <2>1
  <2> QED
    BY <2>1, <2>2, AppendHolds, Zenon
<1>5. Applied(o)'
  BY <1>2, <1>3, <1>4 DEF Applied
<1>6. LogsGrow
  <2> SUFFICES ASSUME NEW p \in Ops, Applied(p) PROVE Applied(p)'
    BY DEF LogsGrow
  <2>1. AreaOf[p] \in Areas
    BY PendingAssumption
  <2>2. CASE AreaOf[p] # a
    BY <1>2, <2>1, <2>2 DEF Applied
  <2>3. CASE AreaOf[p] = a
    <3>1. q = srv[a].log /\ r = srv'[a].log
      BY <1>2, <1>3
    <3>2. PICK i \in DOMAIN q : q[i] = p
      BY <2>3, <3>1 DEF Applied
    <3>3. i \in DOMAIN r /\ r[i] = p
      BY <1>4, <3>2
    <3> QED
      BY <2>3, <3>1, <3>3 DEF Applied
  <2> QED
    BY <2>2, <2>3
<1> QED
  BY <1>5, <1>6

LEMMA ServiceGrows == ASSUME Typed, Service PROVE LogsGrow
<1>1. ASSUME NEW m \in net, ServiceHandles(m) PROVE LogsGrow
  <2> DEFINE o == m.op  a == AreaOf[o]
  <2>1. o \in Ops /\ a \in Areas
    BY PendingAssumption DEF ServiceType
  <2>2. srv' = srv \/ srv' = [srv EXCEPT ![a].rev = @ + 1, ![a].log = Append(@, o)]
    BY <1>1 DEF ServiceHandles
  <2>3. srv' = [srv EXCEPT ![a].rev = @ + 1, ![a].log = Append(@, o)] =>
        srv' = [srv EXCEPT ![a].rev = srv[a].rev + 1, ![a].log = Append(@, o)]
    OBVIOUS
  <2> QED
    BY <2>1, <2>2, <2>3, SameLogs, AppendLogs
<1>2. ASSUME NEW m \in net, NEW e \in Events, ServiceRefuses(m, e) PROVE LogsGrow
  BY <1>2, SameLogs DEF ServiceRefuses
<1>3. CASE RequestTimesOut
  BY <1>3, SameLogs DEF RequestTimesOut
<1>4. ASSUME NEW a \in CloudAreas, ServiceDeletes(a) PROVE LogsGrow
  <2>1. \A b \in Areas : srv'[b].log = srv[b].log
    BY <1>4 DEF ServiceDeletes, ServiceType
  <2> QED
    BY <2>1, KeptLogs
<1>5. ASSUME NEW a \in CloudAreas, ForeignEdit(a) PROVE LogsGrow
  <2>1. \A b \in Areas : srv'[b].log = srv[b].log
    BY <1>5 DEF ForeignEdit, ServiceType
  <2> QED
    BY <2>1, KeptLogs
<1>6. ASSUME NEW a \in CloudAreas, AccessChanges(a) PROVE LogsGrow
  BY <1>6, SameLogs DEF AccessChanges
<1> QED
  BY <1>1, <1>2, <1>3, <1>4, <1>5, <1>6 DEF Service

LEMMA CrashGrows == ASSUME Typed, Crash PROVE LogsGrow
<1>1. \A a \in Areas : srv'[a].log = srv[a].log
  BY DEF Crash, ServiceType
<1> QED
  BY <1>1, KeptLogs

-----------------------------------------------------------------------------
\* The worker keeps what it has, or what was in flight has landed.

LEMMA FlyingNonempty ==
  ASSUME Typed, Flying, NEW a \in Areas, areas[a].phase = InFlight
  PROVE  worker.op \in Ops /\ HeadOp(areas[a]) = worker.op /\ areas[a].queue # << >>
         /\ worker.op \in Queued(areas[a])
<1>1. worker.op \in Ops /\ HeadOp(areas[a]) = worker.op
  BY WorkerInHand DEF Flying, Flies
<1>2. areas[a].queue # << >> /\ areas[a].queue[1] = worker.op /\ areas[a].queue \in Seq(Ops)
  BY <1>1, AreaTyped DEF HeadOp, Ops, NoOp
<1>3. 1 \in 1..Len(areas[a].queue)
  BY <1>2
<1> QED
  BY <1>1, <1>2, <1>3 DEF Queued

LEMMA AwaitingKept ==
  ASSUME Typed, Awaiting, LogsGrow, \A a \in Areas : Calm(areas[a], areas'[a])
  PROVE  Awaiting'
<1>1. ASSUME NEW a \in Areas, areas'[a].phase.kind = "AwaitingRetirement"
      PROVE  \E o \in Ops : o = areas'[a].phase.op /\ Applied(o)'
  <2>1. areas'[a].phase = areas[a].phase
    BY <1>1 DEF Calm
  <2>2. areas[a].phase.op \in Ops
    BY <1>1, <2>1, AreaTyped, PhaseOps
  <2> QED
    BY <1>1, <2>1, <2>2 DEF Awaiting, LogsGrow
<1> QED
  BY <1>1 DEF Awaiting, Applied

LEMMA AnsweredKept ==
  ASSUME Typed, Answered, LogsGrow, worker' = worker
  PROVE  Answered'
<1>1. worker.at = "wire" => worker.op \in Ops
  BY WorkerInHand
<1>2. PICK o : o = worker.op
  OBVIOUS
<1>3. worker.at = "wire" /\ worker.reply = "ok" => Applied(o)'
  BY <1>1, <1>2 DEF Answered, LogsGrow
<1> QED
  BY <1>2, <1>3 DEF Answered, Applied, IsCloud

LEMMA ReceivedKept ==
  ASSUME Received, LogsGrow, receipts' = receipts
  PROVE  Received'
<1>1. \A o \in Ops : receipts[o] # NoRev => Applied(o)'
  BY DEF Received, LogsGrow
<1> QED
  BY <1>1 DEF Received

\* The worker goes on with what it has.
LEMMA FlightKept ==
  ASSUME Typed, Flight, LogsGrow, UNCHANGED << worker, active, receipts >>,
         \A a \in Areas : Calm(areas[a], areas'[a]),
         \A a \in Areas : areas[a].phase = InFlight => gen'[worker.op] = gen[worker.op]
  PROVE  Flight'
<1>1. Flying'
  <2> SUFFICES ASSUME NEW a \in Areas, areas'[a].phase = InFlight PROVE Flies(a)'
    BY DEF Flying
  <2>1. areas[a].phase = InFlight /\ HeadOp(areas'[a]) = HeadOp(areas[a])
    BY DEF Calm
  <2> QED
    BY <2>1 DEF Flight, Flying, Flies, IsCloud
<1> QED
  BY <1>1, AwaitingKept, AnsweredKept, ReceivedKept DEF Flight

\* Nothing is in flight any more and the worker has no answer.
LEMMA FlightLanded ==
  ASSUME Typed, Flight, LogsGrow, receipts' = receipts,
         \A a \in Areas : areas'[a].phase # InFlight,
         worker'.reply \notin {"ok", "upgrade"} \/ worker'.at # "wire",
         \A a \in Areas : areas'[a].phase.kind = "AwaitingRetirement" =>
           areas'[a].phase = areas[a].phase
  PROVE  Flight'
<1>1. Flying' /\ Answered'
  BY DEF Flying, Answered
<1>2. Awaiting'
  <2>1. \A a \in Areas : Calm(areas[a], areas'[a])
    BY DEF Calm
  <2> QED
    BY <2>1, AwaitingKept DEF Flight
<1> QED
  BY <1>1, <1>2, ReceivedKept DEF Flight

LEMMA CalmLanded ==
  ASSUME Typed, Flight, LogsGrow, receipts' = receipts,
         \A a \in Areas : areas[a].phase # InFlight,
         \A a \in Areas : Calm(areas[a], areas'[a]),
         worker'.reply \notin {"ok", "upgrade"} \/ worker'.at # "wire"
  PROVE  Flight'
<1>1. \A a \in Areas : areas'[a].phase # InFlight
  BY DEF Calm
<1>2. \A a \in Areas : areas'[a].phase.kind = "AwaitingRetirement" =>
           areas'[a].phase = areas[a].phase
  BY DEF Calm
<1> QED
  BY <1>1, <1>2, FlightLanded

LEMMA LeavesCalm ==
  ASSUME NEW a \in Areas, NEW o, EditLeaves(a, o)
  PROVE  \A b \in Areas : Calm(areas[b], areas'[b])
<1>1. \A b \in Areas : Calm(areas[b], areas[b])
  BY SamePhaseCalm
<1> QED
  BY <1>1 DEF EditLeaves

LEMMA SteadyCalm ==
  ASSUME Steady
  PROVE  \A b \in Areas : Calm(areas[b], areas'[b])
  BY DEF Steady

LEMMA EmptiedCalm ==
  ASSUME Typed, NEW a \in Areas, Emptied(a)
  PROVE  \A b \in Areas : Calm(areas[b], areas'[b])
<1>1. \A b \in Areas : Calm(areas[b], areas[b])
  BY SamePhaseCalm
<1>2. \A b \in Areas : Calm(areas[b], GoneArea(areas[b]))
  BY GoneFits, GoneTyped, SettledCalm DEF QueueType
<1> QED
  BY <1>1, <1>2, EmptiedAreas

LEMMA IdleReply ==
  /\ WorkerDone => worker'.reply = "none" /\ worker'.at = "run"
  /\ IdleWorker.reply = "none" /\ IdleWorker.at = "run"
  BY DEF WorkerDone, IdleWorker

-----------------------------------------------------------------------------
\* The editor and the display rebuilds.

LEMMA EditorFlight == ASSUME Typed, Own, Arranged, Flight, Editor PROVE Flight'
<1>1. UNCHANGED << worker, active, receipts, srv >>
  BY DEF Editor, Stage, Publish, Cancel, Retry, Discard, KeepTheirs, KeepMine
<1>2. LogsGrow
  BY <1>1, SameLogs
<1>3. CASE Stage
  <2>1. nextOp \in Ops /\ AreaOf[nextOp] \in Areas /\ Staged(AreaOf[nextOp], nextOp)
    BY <1>3, StageStaged
  <2>2. ASSUME NEW a \in Areas PROVE Calm(areas[a], areas'[a])
    <3>1. CASE a # AreaOf[nextOp]
      BY <2>1, <3>1, SamePhaseCalm DEF Staged
    <3>2. CASE a = AreaOf[nextOp]
      <4>1. areas'[a].phase = areas[a].phase
        BY <2>1, <3>2 DEF Staged
      <4>2. areas[a].phase = InFlight => HeadOp(areas'[a]) = HeadOp(areas[a])
        BY <2>1, <3>2, FlyingNonempty DEF Staged, Flight
      <4> QED
        BY <4>1, <4>2 DEF Calm
    <3> QED
      BY <3>1, <3>2
  <2>3. ASSUME NEW a \in Areas, areas[a].phase = InFlight
        PROVE  gen'[worker.op] = gen[worker.op]
    <3>1. worker.op \in Ops /\ worker.op \in Queued(areas[a])
      BY <2>3, FlyingNonempty DEF Flight
    <3>2. worker.op < nextOp
      BY <3>1 DEF Arranged, QueueMade
    <3>3. worker.op # nextOp
      BY <2>1, <3>1, <3>2 DEF Ops
    <3> QED
      BY <1>3, <2>1, <3>1, <3>3 DEF Stage, QueueType
  <2> QED
    BY <1>1, <1>2, <2>2, <2>3, FlightKept
<1>4. CASE ~Stage
  <2>1. gen' = gen
    BY <1>4 DEF Editor, Publish, Cancel, Retry, Discard, KeepTheirs, KeepMine
  <2>2. \A b \in Areas : Calm(areas[b], areas'[b])
    <3>1. CASE Publish \/ \E a \in Areas : KeepMine(a)
      BY <3>1, SameSteady, SteadyCalm DEF Publish, KeepMine
    <3>2. ASSUME NEW o \in Ops, Cancel(o) PROVE \A b \in Areas : Calm(areas[b], areas'[b])
      BY <3>2, CancelLeaves, LeavesCalm
    <3>3. ASSUME NEW a \in Areas, Retry(a) PROVE \A b \in Areas : Calm(areas[b], areas'[b])
      BY <3>3, RetrySteady, SteadyCalm
    <3>4. ASSUME NEW a \in Areas, Discard(a) \/ KeepTheirs(a)
          PROVE  \A b \in Areas : Calm(areas[b], areas'[b])
      BY <3>4, DiscardLeaves, KeepTheirsLeaves, LeavesCalm
    <3> QED
      BY <1>4, <3>1, <3>2, <3>3, <3>4 DEF Editor
  <2> QED
    BY <1>1, <1>2, <2>1, <2>2, FlightKept
<1> QED
  BY <1>3, <1>4

LEMMA RebuildsFlight == ASSUME Typed, Flight, Rebuilds PROVE Flight'
<1>1. UNCHANGED << worker, active, receipts, srv, gen >>
  BY DEF Rebuilds, RebuildFetch, RebuildApply
<1> QED
  BY <1>1, RebuildsSteady, SteadyCalm, SameLogs, FlightKept

-----------------------------------------------------------------------------
\* The worker.

\* With nothing on the wire nothing is in flight; with a request there, only
\* its edit can be.
LEMMA FlyingOnly ==
  ASSUME Flying
  PROVE  /\ worker.at \notin {"wire", "refetch"} =>
              \A a \in Areas : areas[a].phase # InFlight
         /\ \A a \in Areas : areas[a].phase = InFlight => worker.area = a /\ Current
  BY DEF Flying, Flies, Current

LEMMA RephasedLands ==
  ASSUME Typed, Flying, worker.area \in Areas, NEW p, Rephased(worker.area, p), p # InFlight
  PROVE  \A a \in Areas : areas'[a].phase # InFlight
  BY FlyingOnly DEF Rephased

LEMMA UnownedLands ==
  ASSUME Flying, ~(areas[worker.area].phase = InFlight
                     /\ HeadOp(areas[worker.area]) = worker.op)
  PROVE  \A a \in Areas : areas[a].phase # InFlight
  BY DEF Flying, Flies

LEMMA CredentialLands ==
  ASSUME Typed, Flying, worker.at \in {"wire", "refetch"}, CredentialChanged
  PROVE  \A a \in Areas : areas'[a].phase # InFlight
<1> DEFINE a == worker.area
<1>1. a \in Areas
  BY WorkerInHand
<1>2. CASE areas[a].phase = InFlight /\ HeadOp(areas[a]) = worker.op
  <2>1. SetArea(a, [areas[a] EXCEPT !.phase = Ready])
    BY <1>2 DEF CredentialChanged, SetArea
  <2>2. Rephased(a, Ready)
    BY <1>1, <2>1, SetPhase, PhaseTypes
  <2> QED
    BY <1>1, <2>2, RephasedLands, PhaseFields
<1>3. CASE ~(areas[a].phase = InFlight /\ HeadOp(areas[a]) = worker.op)
  <2>1. areas' = areas
    BY <1>3 DEF CredentialChanged
  <2> QED
    BY <1>3, <2>1, UnownedLands
<1> QED
  BY <1>2, <1>3

LEMMA TransportLands ==
  ASSUME Typed, Flying, worker.at \in {"wire", "refetch"}, TransportFailure
  PROVE  \A a \in Areas : areas'[a].phase # InFlight
<1> DEFINE a == worker.area  o == worker.op
           parked == attempts[o] + 1 >= MaxTransportAttempts
           p == IF parked THEN Failed(o, TRUE) ELSE Backoff
<1>1. a \in Areas /\ o \in Ops
  BY WorkerInHand
<1>2. CASE areas[a].phase = InFlight /\ HeadOp(areas[a]) = o
  <2>1. SetArea(a, [areas[a] EXCEPT !.phase = p])
    BY <1>2 DEF TransportFailure
  <2>2. p \in PhaseType /\ p # InFlight
    BY <1>1, PhaseTypes, PhaseFields
  <2> HIDE DEF p
  <2>3. Rephased(a, p)
    BY <1>1, <2>1, <2>2, SetPhase
  <2> QED
    BY <1>1, <2>2, <2>3, RephasedLands
<1>3. CASE ~(areas[a].phase = InFlight /\ HeadOp(areas[a]) = o)
  <2>1. areas' = areas
    BY <1>3 DEF TransportFailure
  <2> QED
    BY <1>3, <2>1, UnownedLands
<1> QED
  BY <1>2, <1>3

LEMMA LeavesLands ==
  ASSUME Typed, Flying, worker.area \in Areas, worker.op \in Ops,
         EditLeaves(worker.area, worker.op)
  PROVE  \A a \in Areas : areas'[a].phase # InFlight
<1> SUFFICES ASSUME NEW a \in Areas, areas'[a].phase = InFlight PROVE FALSE
  OBVIOUS
<1>1. areas[a].phase = InFlight /\ HeadOp(areas'[a]) = HeadOp(areas[a])
  BY LeavesCalm DEF Calm
<1>2. a = worker.area /\ HeadOp(areas[a]) = worker.op
  BY <1>1 DEF Flying, Flies
<1>3. worker.op \notin Queued(areas'[a])
  BY <1>2 DEF EditLeaves
<1>4. HeadOp(areas'[a]) = worker.op /\ worker.op # NoOp
  BY <1>1, <1>2 DEF Ops, NoOp
<1>5. areas'[a].queue # << >> /\ areas'[a].queue[1] = worker.op
  BY <1>4 DEF HeadOp
<1>6. Len(areas'[a].queue) \in Nat \ {0}
  BY <1>2, <1>5 DEF EditLeaves
<1>7. 1 \in 1..Len(areas'[a].queue)
  BY <1>6
<1> QED
  BY <1>3, <1>5, <1>7 DEF Queued

LEMMA SteadyLanded ==
  ASSUME Typed, Flight, UNCHANGED << receipts, srv >>, Steady, WorkerDone,
         \A a \in Areas : areas'[a].phase # InFlight
  PROVE  Flight'
<1>1. \A a \in Areas : areas'[a].phase.kind = "AwaitingRetirement" =>
           areas'[a].phase = areas[a].phase
  BY DEF Steady, Calm
<1> QED
  BY <1>1, SameLogs, FlightLanded, IdleReply

LEMMA VerdictOkFlight == ASSUME Typed, Arranged, Flight, VerdictOk PROVE Flight'
<1> DEFINE a == worker.area  o == worker.op  p == AwaitingRetirement(o, worker.rev)
<1>1. UNCHANGED << receipts, srv >> /\ WorkerDone /\ LogsGrow
  BY SameLogs DEF VerdictOk
<1>2. a \in Areas /\ o \in Ops /\ (EditLeaves(a, o) \/ Rephased(a, p))
  BY VerdictOkShape
<1>3. CASE EditLeaves(a, o)
  <2>1. \A b \in Areas : areas'[b].phase # InFlight
    BY <1>2, <1>3, LeavesLands DEF Flight
  <2>2. \A b \in Areas : areas'[b].phase.kind = "AwaitingRetirement" =>
           areas'[b].phase = areas[b].phase
    BY <1>2, <1>3, LeavesCalm DEF Calm
  <2> QED
    BY <1>1, <2>1, <2>2, FlightLanded, IdleReply
<1>4. CASE Rephased(a, p)
  <2>1. p # InFlight /\ p.op = o
    BY PhaseFields
  <2>2. \A b \in Areas : areas'[b].phase # InFlight
    BY <1>2, <1>4, <2>1, RephasedLands DEF Flight
  <2>3. Applied(o)
    BY DEF VerdictOk, Flight, Answered
  <2>4. Awaiting'
    BY <1>1, <1>4, <2>1, <2>3 DEF Awaiting, Flight, Rephased, Applied
  <2> QED
    BY <1>1, <2>2, <2>4, IdleReply, ReceivedKept DEF Flight, Flying, Answered
<1> QED
  BY <1>2, <1>3, <1>4

LEMMA CredentialFlight ==
  ASSUME Typed, Flight, worker.at \in {"wire", "refetch"}, CredentialChanged
  PROVE  Flight'
<1>1. UNCHANGED << receipts, srv >> /\ WorkerDone
  BY DEF CredentialChanged
<1> QED
  BY <1>1, CredentialSteady, CredentialLands, SteadyLanded DEF Flight

LEMMA TransportFlight ==
  ASSUME Typed, Flight, worker.at \in {"wire", "refetch"}, TransportFailure, WorkerDone,
         UNCHANGED << receipts, srv >>
  PROVE  Flight'
  BY TransportSteady, TransportLands, SteadyLanded DEF Flight

LEMMA VerdictsFlight == ASSUME Typed, Arranged, Flight, Verdicts PROVE Flight'
<1>1. CASE VerdictStale
  <2>1. \A a \in Areas : areas[a].phase # InFlight
    BY <1>1, FlyingOnly DEF VerdictStale, Flight
  <2> QED
    BY <1>1, <2>1, SameSteady, SteadyLanded DEF VerdictStale
<1>2. CASE VerdictOk
  BY <1>2, VerdictOkFlight
<1>3. CASE VerdictCredential
  BY <1>3, CredentialFlight DEF VerdictCredential
<1>4. CASE VerdictTransport
  BY <1>4, TransportFlight DEF VerdictTransport
<1>5. CASE VerdictHeld \/ VerdictRefused
  <2> DEFINE a == worker.area
  <2>1. a \in Areas /\ worker.op \in Ops
    BY <1>5, WorkerInHand DEF VerdictHeld, VerdictRefused
  <2>2. /\ Backoff \in PhaseType /\ Failed(worker.op, TRUE) \in PhaseType
        /\ Backoff # InFlight /\ Failed(worker.op, TRUE) # InFlight
    BY <2>1, PhaseTypes, PhaseFields
  <2>3. Rephased(a, Backoff) \/ Rephased(a, Failed(worker.op, TRUE))
    BY <1>5, <2>1, <2>2, SetPhase DEF VerdictHeld, VerdictRefused
  <2>4. \A b \in Areas : areas'[b].phase # InFlight
    BY <2>1, <2>2, <2>3, RephasedLands DEF Flight
  <2>5. ~VerdictOk
    BY <1>5 DEF VerdictHeld, VerdictRefused, VerdictOk
  <2>6. Steady
    BY <2>5, VerdictsSteady
  <2>7. UNCHANGED << receipts, srv >> /\ WorkerDone
    BY <1>5 DEF VerdictHeld, VerdictRefused
  <2> QED
    BY <2>4, <2>6, <2>7, SteadyLanded
<1>6. CASE VerdictUpgrade
  <2>1. ASSUME NEW a \in Areas, areas[a].phase = InFlight PROVE a \in CloudAreas
    <3>1. worker.op \in Queued(areas[a])
      BY <2>1, FlyingNonempty DEF Flight
    <3>2. AreaOf[worker.op] = a
      BY <3>1 DEF Arranged, QueueMade
    <3> QED
      BY <1>6, <3>2 DEF VerdictUpgrade, Flight, Answered, IsCloud
  <2>2. \A a \in Areas : areas'[a].phase # InFlight
    <3> SUFFICES ASSUME NEW a \in Areas PROVE areas'[a].phase # InFlight
      OBVIOUS
    <3>1. CASE areas[a].phase = InFlight
      <4>1. areas'[a] = [areas[a] EXCEPT !.phase = Ready]
        BY <1>6, <2>1, <3>1 DEF VerdictUpgrade
      <4>2. areas'[a].phase = Ready
        BY <4>1, AreaTyped DEF AreaType
      <4> QED
        BY <4>2, PhaseFields
    <3>2. CASE areas[a].phase # InFlight
      BY <1>6, <3>2 DEF VerdictUpgrade
    <3> QED
      BY <3>1, <3>2
  <2>3. ~VerdictOk
    BY <1>6 DEF VerdictUpgrade, VerdictOk
  <2> QED
    BY <1>6, <2>2, <2>3, VerdictsSteady, SteadyLanded DEF VerdictUpgrade
<1>7. CASE VerdictConflict \/ ConflictFetch
  <2>1. /\ worker.at \in {"wire", "refetch"} /\ UNCHANGED << receipts, srv >>
        /\ gen' = gen /\ worker \in WorkerType
    BY <1>7 DEF VerdictConflict, ConflictFetch, CredentialChanged, TaskType
  <2>2. \/ CredentialChanged
        \/ TransportFailure /\ WorkerDone
        \/ /\ worker' = [worker EXCEPT !.at = "refetch", !.reply = "none"]
           /\ UNCHANGED << areas, active >>
        \/ /\ worker.at = "refetch"
           /\ worker' = [worker EXCEPT !.doc = Doc(worker.area), !.reply = "doc"]
           /\ UNCHANGED << areas, active >>
    BY <1>7 DEF VerdictConflict, ConflictFetch
  <2>3. CASE CredentialChanged
    BY <2>1, <2>3, CredentialFlight
  <2>4. CASE TransportFailure /\ WorkerDone
    BY <2>1, <2>4, TransportFlight
  <2>5. CASE \/ /\ worker' = [worker EXCEPT !.at = "refetch", !.reply = "none"]
                /\ UNCHANGED << areas, active >>
             \/ /\ worker.at = "refetch"
                /\ worker' = [worker EXCEPT !.doc = Doc(worker.area), !.reply = "doc"]
                /\ UNCHANGED << areas, active >>
    <3>1. /\ worker'.at = "refetch" /\ UNCHANGED << areas, active >>
          /\ worker'.area = worker.area /\ worker'.op = worker.op /\ worker'.gen = worker.gen
      BY <2>1, <2>5 DEF WorkerType
    <3>2. Flying'
      BY <2>1, <3>1 DEF Flight, Flying, Flies, IsCloud
    <3>3. Awaiting' /\ Received'
      BY <2>1, <3>1 DEF Flight, Awaiting, Received, Applied
    <3> QED
      BY <3>1, <3>2, <3>3 DEF Flight, Answered
  <2> QED
    BY <2>2, <2>3, <2>4, <2>5
<1>8. CASE ConflictApply
  <2>1. CASE CredentialChanged
    BY <1>8, <2>1, CredentialFlight DEF ConflictApply
  <2>2. CASE ~CredentialChanged
    <3>1. UNCHANGED << receipts, srv >> /\ WorkerDone
      BY <1>8, <2>2 DEF ConflictApply
    <3>2. Steady /\ (Current => Settled(areas'[worker.area]))
      BY <1>8, <2>2, ConflictApplySteady
    <3>3. ASSUME NEW a \in Areas, areas'[a].phase = InFlight PROVE FALSE
      <4>1. areas[a].phase = InFlight
        BY <3>2, <3>3 DEF Steady, Calm
      <4>2. a = worker.area /\ Current
        BY <4>1, FlyingOnly DEF Flight
      <4> QED
        BY <3>2, <3>3, <4>2, PhaseFields DEF Settled
    <3> QED
      BY <3>1, <3>2, <3>3, SteadyLanded
  <2> QED
    BY <2>1, <2>2
<1> QED
  BY <1>1, <1>2, <1>3, <1>4, <1>5, <1>6, <1>7, <1>8 DEF Verdicts

LEMMA WorkerFlight == ASSUME Typed, Own, Arranged, Flight, Worker PROVE Flight'
<1>1. UNCHANGED << receipts, srv, gen >>
  BY DEF Worker, WorkerRetire, WorkerRetireFails, WorkerTake, WorkerTimer, WorkerIdle,
     WorkerWake, Verdicts, VerdictStale, VerdictOk, VerdictCredential, CredentialChanged,
     VerdictTransport, VerdictHeld, VerdictRefused, VerdictUpgrade, VerdictConflict,
     ConflictFetch, ConflictApply
<1>2. LogsGrow /\ Flying
  BY <1>1, SameLogs DEF Flight
<1>3. ASSUME NEW a \in Areas, WorkerRetire(a) PROVE Flight'
  <2>1. \A b \in Areas : Calm(areas[b], areas'[b])
    BY <1>3, WorkerRetireLeaves, LeavesCalm
  <2>2. worker.at = "run" /\ worker'.at = "run"
    BY <1>3 DEF WorkerRetire, TaskType, WorkerType
  <2> QED
    BY <1>1, <1>2, <2>1, <2>2, FlyingOnly, CalmLanded
<1>4. ASSUME NEW a \in Areas, WorkerRetireFails(a) \/ WorkerTimer(a) PROVE Flight'
  <2>1. /\ worker.at \in {"run", "idle"} /\ worker'.at = "run" /\ areas' = areas
    BY <1>4 DEF WorkerRetireFails, WorkerTimer, TaskType, WorkerType, IdleWorker
  <2> QED
    BY <1>1, <1>2, <2>1, FlyingOnly, SameSteady, SteadyCalm, CalmLanded
<1>5. CASE WorkerIdle \/ WorkerWake
  <2>1. /\ worker.at \in {"run", "idle"} /\ worker'.at \in {"run", "idle"}
    <3>1. CASE WorkerIdle
      <4>1. PICK S : worker' = [IdleWorker EXCEPT !.at = "idle", !.until = Waiting \ S]
        BY <3>1 DEF WorkerIdle
      <4> QED
        BY <3>1, <4>1 DEF WorkerIdle, IdleWorker
    <3>2. CASE WorkerWake
      BY <3>2 DEF WorkerWake, WorkerDone, IdleWorker
    <3> QED
      BY <1>5, <3>1, <3>2
  <2>2. Steady
    BY <1>5, WorkerIdleSteady, SameSteady DEF WorkerWake
  <2> QED
    BY <1>1, <1>2, <2>1, <2>2, FlyingOnly, SteadyCalm, CalmLanded
<1>6. ASSUME NEW a \in Areas, WorkerTake(a) PROVE Flight'
  <2>1. Rephased(a, InFlight) /\ active' = active /\ worker.at = "run"
    BY <1>6, WorkerTakeRephased DEF WorkerTake
  <2>2. HeadOp(areas'[a]) = HeadOp(areas[a])
    BY <2>1 DEF Rephased, HeadOp
  <2>3. /\ worker'.at = "wire" /\ worker'.area = a /\ worker'.op = HeadOp(areas[a])
        /\ worker'.gen = gen[HeadOp(areas[a])] /\ worker'.reply \in {"none", "credential"}
    BY <1>6 DEF WorkerTake, IdleWorker
  <2>4. IsCloud(HeadOp(areas[a])) => gen[HeadOp(areas[a])] = active
    BY <1>6 DEF WorkerTake, Sendable
  <2>5. \A b \in Areas : areas'[b].phase = InFlight => b = a
    BY <1>2, <2>1, FlyingOnly DEF Rephased
  <2>6. Flying'
    BY <1>1, <2>1, <2>2, <2>3, <2>4, <2>5 DEF Flying, Flies, IsCloud
  <2>7. Awaiting'
    <3>1. InFlight.kind # "AwaitingRetirement"
      BY PhaseFields
    <3> QED
      BY <1>1, <2>1, <3>1 DEF Flight, Awaiting, Rephased, Applied
  <2> QED
    BY <1>1, <1>2, <2>3, <2>6, <2>7, ReceivedKept DEF Answered, Flight
<1>7. CASE Verdicts
  BY <1>1, <1>2, <1>7, VerdictsFlight
<1> QED
  BY <1>3, <1>4, <1>5, <1>6, <1>7 DEF Worker

-----------------------------------------------------------------------------
\* The engine and the deletion of a map.

\* An activation leaves a request of the session's maps alone, and ends every
\* other.
LEMMA InstallFlight == ASSUME Typed, Arranged, Flight, ActivateInstall PROVE Flight'
<1>1. UNCHANGED << worker, receipts, srv >> /\ LogsGrow
  BY SameLogs DEF ActivateInstall
<1>2. gen' = [o \in Ops |-> IF o \in engine.loaded THEN engine.tick ELSE gen[o]]
  BY DEF ActivateInstall
<1>3. /\ Ready # InFlight /\ \A a \in Areas : GoneArea(areas[a]).phase = Ready
      /\ Ready.kind # "AwaitingRetirement"
      /\ \A o \in Ops \cup {NoOp} : /\ Failed(o, FALSE) # InFlight
                                    /\ Failed(o, FALSE).kind # "AwaitingRetirement"
  BY PhaseFields, GoneFits DEF Failed, InFlight, Ready, Phase
<1>4. ASSUME NEW a \in Areas,
             areas'[a].phase = InFlight \/ areas'[a].phase.kind = "AwaitingRetirement"
      PROVE  /\ areas'[a] = areas[a] /\ LoadedOf(a) = {}
             /\ a \in CloudAreas => areas[a].queue = << >>
  <2>1. Installed(a) /\ Fits(areas[a])
    BY ActivateInstalls DEF Arranged, PhasesFit
  <2>2. areas[a].queue = << >> =>
          areas[a].phase # InFlight /\ areas[a].phase.kind # "AwaitingRetirement"
    BY <2>1, FlyingNonempty, FitsNonempty DEF Flight
  <2>3. areas'[a].phase # Ready /\ areas'[a] # GoneArea(areas[a])
    BY <1>3, <1>4
  <2>4. areas'[a].phase # Failed(HeadOp(areas'[a]), FALSE)
    <3>1. Failed(HeadOp(areas'[a]), FALSE) # InFlight
          /\ Failed(HeadOp(areas'[a]), FALSE).kind = "Failed"
      BY DEF Failed, InFlight, Phase
    <3> QED
      BY <1>4, <3>1
  <2> QED
    BY <1>4, <2>1, <2>2, <2>3, <2>4 DEF Installed
<1>5. Flying'
  <2> SUFFICES ASSUME NEW a \in Areas, areas'[a].phase = InFlight PROVE Flies(a)'
    BY DEF Flying
  <2>1. areas'[a] = areas[a] /\ LoadedOf(a) = {}
        /\ (a \in CloudAreas => areas[a].queue = << >>)
    BY <1>4
  <2>2. /\ worker.op \in Ops /\ areas[a].queue # << >> /\ worker.op \in Queued(areas[a])
    BY <2>1, FlyingNonempty DEF Flight
  <2>3. AreaOf[worker.op] = a
    BY <2>2 DEF Arranged, QueueMade
  <2>4. worker.op \notin engine.loaded /\ ~IsCloud(worker.op)
    BY <2>1, <2>2, <2>3 DEF LoadedOf, TaskType, EngineType, IsCloud
  <2>5. gen'[worker.op] = gen[worker.op]
    BY <1>2, <2>2, <2>4
  <2> QED
    BY <1>1, <2>1, <2>4, <2>5 DEF Flight, Flying, Flies, IsCloud
<1>6. Awaiting'
  BY <1>1, <1>4 DEF Flight, Awaiting, Applied
<1>7. Answered'
  BY <1>1, AnsweredKept DEF Flight
<1> QED
  BY <1>1, <1>5, <1>6, <1>7, ReceivedKept DEF Flight

LEMMA EngineFlight == ASSUME Typed, Arranged, Flight, Engine PROVE Flight'
<1>1. CASE ActivateInstall
  BY <1>1, InstallFlight
<1>2. CASE ~ActivateInstall
  <2>1. UNCHANGED << worker, srv, receipts, gen >>
    BY <1>2, EngineJournal
  <2>2. active' = active
    BY <1>2 DEF Engine, EngineTick, EngineFail, ActivateLoad, EngineAsk, EngineRows,
       EngineAdopt, EngineDone, EngineFetch
  <2>3. \A b \in Areas : Calm(areas[b], areas'[b])
    BY <1>2, EngineShape, SteadyCalm, EmptiedCalm DEF Areas
  <2> QED
    BY <2>1, <2>2, <2>3, SameLogs, FlightKept
<1> QED
  BY <1>1, <1>2

LEMMA DeletionFlight == ASSUME Typed, Flight, Deletion PROVE Flight'
<1>1. UNCHANGED << worker, gen, srv, receipts, active >>
  BY DeletionJournal
<1>2. \A b \in Areas : Calm(areas[b], areas'[b])
  BY DeletionShape, SteadyCalm, EmptiedCalm DEF Areas
<1> QED
  BY <1>1, <1>2, SameLogs, FlightKept

-----------------------------------------------------------------------------
\* The service and the process.

\* The queues stay and the worker keeps its request.
LEMMA FlightServed ==
  ASSUME Typed, Flight, LogsGrow, UNCHANGED << areas, gen, active >>,
         \A f \in {"at", "area", "op", "gen"} : worker'[f] = worker[f],
         Answered', Received'
  PROVE  Flight'
<1>1. /\ worker'.at = worker.at /\ worker'.area = worker.area
      /\ worker'.op = worker.op /\ worker'.gen = worker.gen
  OBVIOUS
<1>2. Flying'
  BY <1>1 DEF Flight, Flying, Flies, IsCloud
<1>3. Awaiting'
  BY SamePhaseCalm, AwaitingKept DEF Flight
<1> QED
  BY <1>2, <1>3 DEF Flight

LEMMA AnswerKeeps ==
  ASSUME Typed, NEW m, NEW reply, NEW rev, Answer(m, reply, rev)
  PROVE  /\ \A f \in {"at", "area", "op", "gen"} : worker'[f] = worker[f]
         /\ worker'.reply = worker.reply \/ (worker'.reply = reply /\ worker.op = m.op)
  BY DEF Answer, TaskType, WorkerType

LEMMA AnsweredBy ==
  ASSUME Typed, Answered, LogsGrow, NEW m \in net, NEW reply, NEW rev, Answer(m, reply, rev),
         reply = "ok" => Applied(m.op)', reply = "upgrade" => IsCloud(m.op)
  PROVE  Answered'
<1>1. /\ worker'.at = worker.at /\ worker'.op = worker.op
      /\ worker'.reply = worker.reply \/ (worker'.reply = reply /\ worker.op = m.op)
  BY AnswerKeeps
<1>2. worker.at = "wire" => worker.op \in Ops
  BY WorkerInHand
<1>3. PICK o : o = worker.op
  OBVIOUS
<1>4. worker.at = "wire" /\ worker.reply = "ok" => Applied(o)'
  BY <1>2, <1>3 DEF Answered, LogsGrow
<1>5. worker'.at = "wire" /\ worker'.reply = "ok" => Applied(o)'
  BY <1>1, <1>3, <1>4
<1>6. worker'.at = "wire" /\ worker'.reply = "ok" => Applied(worker.op)'
  BY <1>1, <1>3, <1>5 DEF Applied
<1>7. worker'.at = "wire" /\ worker'.reply = "upgrade" => IsCloud(worker.op)
  BY <1>1 DEF Answered
<1> QED
  BY <1>1, <1>6, <1>7 DEF Answered, IsCloud

LEMMA HandlesFlight ==
  ASSUME Typed, Flight, NEW m \in net, ServiceHandles(m) PROVE Flight'
<1> DEFINE o == m.op  a == AreaOf[o]
           present == { srv[a].log[i] : i \in 1..Len(srv[a].log) }
           valid == Needs[o] \subseteq present /\ (o \in Creates => o \notin present)
           applies == Visible(a) /\ receipts[o] = NoRev /\ m.rev = srv[a].rev /\ valid
<1>1. o \in Ops /\ a \in Areas
  BY PendingAssumption DEF ServiceType
<1>2. LogsGrow /\ UNCHANGED << areas, gen, active >>
  <2>1. Service
    BY DEF Service
  <2> QED
    BY <2>1, ServiceGrows, ServiceKeeps
<1>3. CASE applies
  <2>1. /\ srv' = [srv EXCEPT ![a].rev = @ + 1, ![a].log = Append(@, o)]
        /\ receipts' = [receipts EXCEPT ![o] = srv[a].rev + 1]
        /\ Answer(m, "ok", srv[a].rev + 1)
    BY <1>3 DEF ServiceHandles
  <2>2. srv' = [srv EXCEPT ![a].rev = srv[a].rev + 1, ![a].log = Append(@, o)]
    BY <2>1
  <2>3. Applied(m.op)'
    <3>1. ASSUME NEW r, r = srv[a].rev + 1 PROVE Applied(o)'
      <4>1. srv' = [srv EXCEPT ![a].rev = r, ![a].log = Append(@, o)]
        BY <2>2, <3>1
      <4> HIDE DEF applies, o
      <4> QED
        BY <1>1, <4>1, AppendLogs
    <3> QED
      BY <3>1
  <2>4. Received'
    <3> SUFFICES ASSUME NEW p \in Ops, receipts'[p] # NoRev PROVE Applied(p)'
      BY DEF Received
    <3>1. CASE p = o
      BY <2>3, <3>1
    <3>2. CASE p # o
      <4>1. receipts[p] # NoRev
        BY <2>1, <3>2 DEF ServiceType
      <4> QED
        BY <1>2, <4>1 DEF Flight, Received, LogsGrow
    <3> QED
      BY <3>1, <3>2
  <2>5. Answered'
    BY <1>2, <2>1, <2>3, AnsweredBy DEF Flight
  <2>6. \A f \in {"at", "area", "op", "gen"} : worker'[f] = worker[f]
    BY <2>1, AnswerKeeps
  <2> QED
    BY <1>2, <2>4, <2>5, <2>6, FlightServed
<1>4. CASE ~applies
  <2>1. UNCHANGED << srv, receipts >>
    BY <1>4 DEF ServiceHandles
  <2>2. PICK reply, rev : /\ Answer(m, reply, rev)
                          /\ reply = "ok" => receipts[o] # NoRev
                          /\ reply # "upgrade"
    BY <1>4 DEF ServiceHandles
  <2>3. reply = "ok" => Applied(m.op)'
    BY <1>1, <2>1, <2>2 DEF Flight, Received, Applied
  <2>4. Answered'
    BY <1>2, <2>2, <2>3, AnsweredBy DEF Flight
  <2>5. Received'
    BY <1>2, <2>1, ReceivedKept DEF Flight
  <2>6. \A f \in {"at", "area", "op", "gen"} : worker'[f] = worker[f]
    BY <2>2, AnswerKeeps
  <2> QED
    BY <1>2, <2>4, <2>5, <2>6, FlightServed
<1> QED
  BY <1>3, <1>4

LEMMA ServiceFlight == ASSUME Typed, Flight, Service PROVE Flight'
<1>1. LogsGrow /\ UNCHANGED << areas, gen, active >>
  BY ServiceGrows, ServiceKeeps
<1>2. ASSUME NEW m \in net, NEW e \in Events, ServiceRefuses(m, e) PROVE Flight'
  <2>1. Answer(m, e, NoRev) /\ e # "ok" /\ IsCloud(m.op) /\ receipts' = receipts
    BY <1>2 DEF ServiceRefuses, IsCloud
  <2>2. Answered' /\ Received'
    BY <1>1, <2>1, AnsweredBy, ReceivedKept DEF Flight
  <2> QED
    BY <1>1, <2>1, <2>2, AnswerKeeps, FlightServed
<1>3. CASE RequestTimesOut
  <2>1. /\ worker' = [worker EXCEPT !.reply = "transport"] /\ receipts' = receipts
    BY <1>3 DEF RequestTimesOut
  <2>2. /\ worker'.reply = "transport"
        /\ \A f \in {"at", "area", "op", "gen"} : worker'[f] = worker[f]
    BY <2>1 DEF TaskType, WorkerType
  <2>3. Answered' /\ Received'
    BY <1>1, <2>1, <2>2, ReceivedKept DEF Flight, Answered
  <2> QED
    BY <1>1, <2>2, <2>3, FlightServed
<1>4. CASE \E a \in CloudAreas : ServiceDeletes(a) \/ ForeignEdit(a) \/ AccessChanges(a)
  <2>1. UNCHANGED << worker, receipts >>
    BY <1>4 DEF ServiceDeletes, ForeignEdit, AccessChanges
  <2> QED
    BY <1>1, <2>1, AnsweredKept, ReceivedKept, FlightServed DEF Flight
<1> QED
  BY <1>2, <1>3, <1>4, HandlesFlight DEF Service

LEMMA ProcessFlight == ASSUME Typed, Flight, Process PROVE Flight'
<1>1. CASE Crash
  <2>1. /\ \A a \in Areas : areas'[a] = EmptyArea
        /\ worker' = IdleWorker /\ receipts' = receipts
    BY <1>1 DEF Crash
  <2>2. \A a \in Areas : areas'[a].phase # InFlight
                         /\ areas'[a].phase.kind # "AwaitingRetirement"
    BY <2>1, EmptyFits, PhaseFields
  <2> QED
    BY <1>1, <2>1, <2>2, CrashGrows, IdleReply, FlightLanded
<1>2. CASE Restart \/ RequestSync \/ Login
  <2>1. UNCHANGED << worker, active, receipts, areas, gen, srv >>
    BY <1>2 DEF Restart, RequestSync, Login
  <2> QED
    BY <2>1, SameLogs, SamePhaseCalm, FlightKept
<1>3. CASE Outage
  <2>1. UNCHANGED << worker, active, areas, gen, srv >> /\ receipts' = [o \in Ops |-> NoRev]
    BY <1>3 DEF Outage
  <2>2. Answered' /\ Received'
    BY <2>1, SameLogs, AnsweredKept DEF Flight, Received
  <2> QED
    BY <2>1, <2>2, SameLogs, FlightServed
<1> QED
  BY <1>1, <1>2, <1>3 DEF Process

-----------------------------------------------------------------------------
\* Every behaviour.

LEMMA InitFlight == ASSUME Init PROVE Flight
<1>1. \A a \in Areas : areas[a].phase = Ready
  BY DEF Init, EmptyArea
<1>2. \A a \in Areas : areas[a].phase # InFlight /\ areas[a].phase.kind # "AwaitingRetirement"
  BY <1>1, PhaseFields
<1>3. worker.at = "run" /\ \A o \in Ops : receipts[o] = NoRev
  BY IdleReply DEF Init
<1> QED
  BY <1>2, <1>3 DEF Flight, Flying, Awaiting, Answered, Received

LEMMA StepFlight == ASSUME Typed, Own, Arranged, Flight, [Next]_vars PROVE Flight'
<1>1. CASE UNCHANGED vars
  <2>1. UNCHANGED << worker, active, receipts, areas, gen, srv >>
    BY <1>1 DEF vars
  <2> QED
    BY <2>1, SameLogs, SamePhaseCalm, FlightKept
<1> QED
  BY <1>1, EditorFlight, RebuildsFlight, WorkerFlight, EngineFlight, DeletionFlight,
     ServiceFlight, ProcessFlight DEF Next

LEMMA OwnedPhases == ASSUME Typed, Arranged, Flight PROVE PhaseOwned
<1> SUFFICES ASSUME NEW a \in Areas
             PROVE  LET phase == areas[a].phase IN
                    /\ phase = InFlight =>
                         /\ worker.at \in {"wire", "refetch"} /\ worker.area = a
                         /\ worker.op = HeadOp(areas[a])
                    /\ phase.kind = "AwaitingRetirement" =>
                         phase.op = HeadOp(areas[a]) /\ Applied(phase.op)
                    /\ phase.kind = "Failed" => phase.op = HeadOp(areas[a])
                    /\ phase.kind = "Conflict" => phase.op \in Queued(areas[a])
  BY DEF PhaseOwned
<1>1. areas[a].phase = InFlight =>
         /\ worker.at \in {"wire", "refetch"} /\ worker.area = a
         /\ worker.op = HeadOp(areas[a])
  BY DEF Flight, Flying, Flies
<1>2. areas[a].phase.kind = "AwaitingRetirement" => Applied(areas[a].phase.op)
  BY DEF Flight, Awaiting
<1>3. Fits(areas[a])
  BY DEF Arranged, PhasesFit
<1> QED
  BY <1>1, <1>2, <1>3 DEF Fits

\* Whatever the verdicts, the account switches, the deletions and the crashes,
\* the phase of a map and the tasks agree: a head in flight is the worker's, an
\* edit awaiting retirement was applied, a park or a review names a queued edit.
THEOREM PhasesAreOwned == Spec => []PhaseOwned
<1>1. Init => Typed /\ Own /\ Arranged /\ Flight
  BY InitTyped, InitOwned, InitArranged, InitFlight
<1>2. Typed /\ Own /\ Arranged /\ Flight /\ [Next]_vars =>
        Typed' /\ Own' /\ Arranged' /\ Flight'
  BY StepTyped, StepOwned, StepArranged, StepFlight
<1>3. Typed /\ Arranged /\ Flight => PhaseOwned
  BY OwnedPhases
<1> HIDE DEF Typed
<1>4. Spec => [](Typed /\ Own /\ Arranged /\ Flight)
  BY <1>1, <1>2, PTL DEF Spec
<1> QED
  BY <1>3, <1>4, PTL

-----------------------------------------------------------------------------
\* What pending_by_area counts.

QueueAccounted == \A a \in Areas : Queued(areas[a]) \subseteq accounted

Counted == QueueAccounted /\ MarksMatchQueue

\* The delete of a map that is on the wire.
Outstanding(a) == IF del.at = "wire" /\ del.area = a THEN 1 ELSE 0

LEMMA SortedCardinality ==
  ASSUME NEW q \in Seq(Ops), Sorted(q)
  PROVE  Cardinality(Members(q)) = Len(q)
<1> DEFINE n == Len(q)
<1>1. n \in Nat /\ q \in [1..n -> Members(q)] /\ Members(q) \in SUBSET Ops
  BY DEF Members
<1>2. \A i, j \in 1..n : q[i] = q[j] => i = j
  BY SortedOnce
<1>3. q \in Injection(1..n, Members(q))
  BY <1>1, <1>2 DEF Injection, IsInjective
<1>4. q \in Surjection(1..n, Members(q))
  BY <1>1 DEF Surjection, Members
<1>5. IsFiniteSet(Members(q))
  BY <1>1, FinitelyManyOps
<1>6. Cardinality(1..n) = Cardinality(Members(q))
  BY <1>3, <1>4, <1>5, FS_Injection
<1>7. Cardinality(1..n) = n
  BY <1>1, FS_Interval
<1> QED
  BY <1>6, <1>7

LEMMA LengthTyped ==
  ASSUME Typed, NEW a \in Areas
  PROVE  /\ Len(areas[a].queue) \in Nat /\ marks[a] \in Nat /\ Outstanding(a) \in {0, 1}
         /\ areas[a].queue # << >> <=> Len(areas[a].queue) # 0
<1>1. areas[a].queue \in Seq(Ops)
  BY AreaTyped
<1> QED
  BY <1>1 DEF StatType, Outstanding

LEMMA MarksStay ==
  ASSUME MarksMatchQueue, marks' = marks,
         \A a \in Areas : areas'[a].queue = areas[a].queue,
         \A a \in Areas : Outstanding(a)' = Outstanding(a)
  PROVE  MarksMatchQueue'
  BY DEF MarksMatchQueue, Outstanding

\* An edit leaves and takes its mark with it.
LEMMA MarkLeaves ==
  ASSUME Typed, MarksMatchQueue, NEW a \in Areas, NEW o, EditLeaves(a, o), del' = del,
         marks' = [marks EXCEPT ![a] = Lower(@, 1)]
  PROVE  MarksMatchQueue'
<1> SUFFICES ASSUME NEW b \in Areas PROVE marks'[b] = Len(areas'[b].queue) + Outstanding(b)'
  BY DEF MarksMatchQueue, Outstanding
<1>1. Outstanding(b)' = Outstanding(b) /\ marks[b] = Len(areas[b].queue) + Outstanding(b)
  BY DEF MarksMatchQueue, Outstanding
<1>2. CASE b # a
  BY <1>1, <1>2 DEF EditLeaves, StatType
<1>3. CASE b = a
  <2>1. Len(areas'[a].queue) = Len(areas[a].queue) - 1 /\ Len(areas'[a].queue) \in Nat
    <3>1. areas[a].queue # << >>
      BY AreaTyped, EmptySorted DEF EditLeaves
    <3> QED
      BY <3>1, LengthTyped DEF EditLeaves
  <2>2. marks'[a] = Lower(marks[a], 1)
    BY DEF StatType
  <2> QED
    BY <1>1, <1>3, <2>1, <2>2, LengthTyped DEF Lower
<1> QED
  BY <1>2, <1>3

\* No edit is added, and those that lose their account are gone.
LEMMA AccountedKept ==
  ASSUME QueueAccounted, NEW S, accounted \ S \subseteq accounted',
         \A a \in Areas : /\ Queued(areas'[a]) \subseteq Queued(areas[a])
                          /\ Queued(areas'[a]) \cap S = {}
  PROVE  QueueAccounted'
  BY DEF QueueAccounted

LEMMA LeavesAccounted ==
  ASSUME Typed, Arranged, QueueAccounted, NEW a \in Areas, NEW o, EditLeaves(a, o),
         accounted \ {o} \subseteq accounted'
  PROVE  QueueAccounted'
<1>1. ASSUME NEW b \in Areas
      PROVE  Queued(areas'[b]) \subseteq Queued(areas[b]) /\ Queued(areas'[b]) \cap {o} = {}
  BY DEF EditLeaves, Arranged, QueueMade
<1> QED
  BY <1>1, AccountedKept

LEMMA SteadyAccounted ==
  ASSUME QueueAccounted, accounted' = accounted,
         \A a \in Areas : areas'[a].queue = areas[a].queue
  PROVE  QueueAccounted'
  BY DEF QueueAccounted, Queued

\* The queues, the marks and the delete stay.
LEMMA CountedKept ==
  ASSUME Counted, UNCHANGED << marks, accounted, del >>,
         \A a \in Areas : areas'[a].queue = areas[a].queue
  PROVE  Counted'
  BY MarksStay, SteadyAccounted DEF Counted, Outstanding

LEMMA LeavesCounted ==
  ASSUME Typed, Arranged, Counted, NEW a \in Areas, NEW o, EditLeaves(a, o), del' = del,
         marks' = [marks EXCEPT ![a] = Lower(@, 1)], accounted \ {o} \subseteq accounted'
  PROVE  Counted'
  BY MarkLeaves, LeavesAccounted DEF Counted

-----------------------------------------------------------------------------
\* The editor, the rebuilds and the worker.

LEMMA StageCounted == ASSUME Typed, Arranged, Counted, Stage PROVE Counted'
<1> DEFINE o == nextOp  a == AreaOf[o]
<1>1. o \in Ops /\ a \in Areas /\ Staged(a, o)
  BY StageStaged
<1>2. /\ marks' = [marks EXCEPT ![a] = @ + 1] /\ accounted' = accounted \cup {o}
      /\ del' = del
  BY DEF Stage
<1> HIDE DEF a, o
<1>3. MarksMatchQueue'
  <2> SUFFICES ASSUME NEW b \in Areas PROVE marks'[b] = Len(areas'[b].queue) + Outstanding(b)'
    BY DEF MarksMatchQueue, Outstanding
  <2>1. Outstanding(b)' = Outstanding(b) /\ marks[b] = Len(areas[b].queue) + Outstanding(b)
    BY <1>2 DEF Counted, MarksMatchQueue, Outstanding
  <2>2. CASE b # a
    BY <1>1, <1>2, <2>1, <2>2 DEF Staged, StatType
  <2>3. CASE b = a
    <3>1. marks'[a] = marks[a] + 1 /\ Len(areas'[a].queue) = Len(areas[a].queue) + 1
      BY <1>1, <1>2 DEF Staged, StatType
    <3> QED
      BY <2>1, <2>3, <3>1, LengthTyped
  <2> QED
    BY <2>2, <2>3
<1>4. QueueAccounted'
  BY <1>1, <1>2 DEF Counted, QueueAccounted, Staged
<1> QED
  BY <1>3, <1>4 DEF Counted

LEMMA EditorCounted == ASSUME Typed, Arranged, Counted, Editor PROVE Counted'
<1>1. CASE Stage
  BY <1>1, StageCounted
<1>2. CASE Publish \/ \E a \in Areas : KeepMine(a)
  BY <1>2, CountedKept DEF Publish, KeepMine
<1>3. ASSUME NEW o \in Ops, Cancel(o) PROVE Counted'
  <2>1. AreaOf[o] \in Areas /\ EditLeaves(AreaOf[o], o)
    BY <1>3, CancelLeaves
  <2>2. /\ marks' = [marks EXCEPT ![AreaOf[o]] = Lower(@, 1)]
        /\ UNCHANGED << accounted, del >>
    BY <1>3 DEF Cancel
  <2> QED
    BY <2>1, <2>2, LeavesCounted
<1>4. ASSUME NEW a \in Areas, Retry(a) PROVE Counted'
  <2>1. Steady /\ UNCHANGED << marks, accounted, del >>
    BY <1>4, RetrySteady DEF Retry
  <2> QED
    BY <2>1, CountedKept DEF Steady
<1>5. ASSUME NEW a \in Areas, Discard(a) \/ KeepTheirs(a) PROVE Counted'
  <2>1. EditLeaves(a, areas[a].phase.op)
    BY <1>5, DiscardLeaves, KeepTheirsLeaves
  <2>2. /\ marks' = [marks EXCEPT ![a] = Lower(@, 1)]
        /\ UNCHANGED << accounted, del >>
    BY <1>5 DEF Discard, KeepTheirs
  <2> QED
    BY <2>1, <2>2, LeavesCounted
<1> QED
  BY <1>1, <1>2, <1>3, <1>4, <1>5 DEF Editor

LEMMA RebuildsCounted == ASSUME Typed, Counted, Rebuilds PROVE Counted'
<1>1. UNCHANGED << marks, accounted, del >>
  BY DEF Rebuilds, RebuildFetch, RebuildApply
<1> QED
  BY <1>1, RebuildsSteady, CountedKept DEF Steady

LEMMA VerdictOkCounted == ASSUME Typed, Arranged, Counted, VerdictOk PROVE Counted'
<1> DEFINE a == worker.area  o == worker.op
<1>1. a \in Areas /\ worker.rev \in Revs /\ o \in Ops
  BY WorkerInHand DEF VerdictOk
<1>2. HeadOp(areas[a]) = o /\ areas[a].queue # << >>
  BY <1>1 DEF VerdictOk, Current, HeadOp, Ops, NoOp
<1>3. UNCHANGED << accounted, del >>
  BY DEF VerdictOk
<1>4. \/ /\ SetArea(a, PopAcknowledged(areas[a], worker.rev, expired))
         /\ marks' = [marks EXCEPT ![a] = Lower(@, 1)]
      \/ /\ SetArea(a, [areas[a] EXCEPT !.phase = AwaitingRetirement(o, worker.rev)])
         /\ UNCHANGED << wal, unsettled, marks >>
  BY DEF VerdictOk
<1>5. CASE /\ SetArea(a, PopAcknowledged(areas[a], worker.rev, expired))
           /\ marks' = [marks EXCEPT ![a] = Lower(@, 1)]
  BY <1>1, <1>2, <1>3, <1>5, HeadLeaves, LeavesCounted
<1>6. CASE /\ SetArea(a, [areas[a] EXCEPT !.phase = AwaitingRetirement(o, worker.rev)])
           /\ UNCHANGED << wal, unsettled, marks >>
  <2>1. AwaitingRetirement(o, worker.rev) \in PhaseType
    BY <1>1, PhaseTypes
  <2>2. Rephased(a, AwaitingRetirement(o, worker.rev))
    BY <1>1, <1>6, <2>1, SetPhase
  <2> QED
    BY <1>1, <1>3, <1>6, <2>2, CountedKept DEF Rephased
<1> QED
  BY <1>4, <1>5, <1>6

LEMMA WorkerCounted == ASSUME Typed, Arranged, Counted, Worker PROVE Counted'
<1>1. del' = del
  BY DEF Worker, WorkerRetire, WorkerRetireFails, WorkerTake, WorkerTimer, WorkerIdle,
     WorkerWake, Verdicts, VerdictStale, VerdictOk, VerdictCredential, CredentialChanged,
     VerdictTransport, VerdictHeld, VerdictRefused, VerdictUpgrade, VerdictConflict,
     ConflictFetch, ConflictApply
<1>2. ASSUME NEW a \in Areas, WorkerRetire(a) PROVE Counted'
  <2> DEFINE o == areas[a].phase.op
  <2>1. EditLeaves(a, o) /\ o \in accounted
    BY <1>2, WorkerRetireLeaves DEF EditLeaves, Counted, QueueAccounted
  <2>2. accounted' = accounted \ {o} /\ marks' = [marks EXCEPT ![a] = Lower(@, 1)]
    BY <1>2, <2>1 DEF WorkerRetire
  <2> QED
    BY <1>1, <2>1, <2>2, LeavesCounted
<1>3. ASSUME NEW a \in Areas, WorkerRetireFails(a) \/ WorkerTimer(a) PROVE Counted'
  BY <1>1, <1>3, CountedKept DEF WorkerRetireFails, WorkerTimer
<1>4. ASSUME NEW a \in Areas, WorkerTake(a) PROVE Counted'
  <2>1. Rephased(a, InFlight) /\ UNCHANGED << marks, accounted >>
    BY <1>4, WorkerTakeRephased DEF WorkerTake
  <2> QED
    BY <1>1, <2>1, CountedKept DEF Rephased
<1>5. CASE WorkerIdle \/ WorkerWake
  <2>1. Steady /\ UNCHANGED << marks, accounted >>
    BY <1>5, WorkerIdleSteady, SameSteady DEF WorkerWake, WorkerIdle
  <2> QED
    BY <1>1, <2>1, CountedKept DEF Steady
<1>6. CASE Verdicts /\ ~VerdictOk
  <2>1. UNCHANGED << marks, accounted >>
    BY <1>6 DEF Verdicts, VerdictStale, VerdictCredential, CredentialChanged,
       VerdictTransport, VerdictHeld, VerdictRefused, VerdictUpgrade, VerdictConflict,
       ConflictFetch, ConflictApply
  <2> QED
    BY <1>1, <1>6, <2>1, VerdictsSteady, CountedKept DEF Steady
<1> QED
  BY <1>2, <1>3, <1>4, <1>5, <1>6, VerdictOkCounted DEF Worker

-----------------------------------------------------------------------------
\* The engine and the deletion of a map.

LEMMA InstallCounted == ASSUME Typed, Arranged, Counted, ActivateInstall PROVE Counted'
<1> DEFINE gone == { b \in CloudAreas : areas[b].queue # << >> }
<1>1. del' = del /\ accounted' = accounted \cup engine.loaded
  BY DEF ActivateInstall
<1>2. ASSUME NEW a \in Areas
      PROVE  /\ marks'[a] = Len(areas'[a].queue) + Outstanding(a)'
             /\ Queued(areas'[a]) \subseteq accounted'
  <2>1. marks'[a] = Lower(marks[a], IF a \in gone THEN Len(areas[a].queue) ELSE 0)
                      + Len(InOrder(LoadedOf(a)))
    BY DEF ActivateInstall, LoadedOf
  <2>2. LoadedOf(a) \in SUBSET Ops /\ LoadedOf(a) \subseteq engine.loaded
    BY DEF LoadedOf, TaskType, EngineType
  <2>3. /\ InOrder(LoadedOf(a)) \in Seq(Ops) /\ Members(InOrder(LoadedOf(a))) = LoadedOf(a)
        /\ InOrder(LoadedOf(a)) = << >> <=> LoadedOf(a) = {}
    BY <2>2, InOrderMembers
  <2>4. marks[a] = Len(areas[a].queue) + Outstanding(a) /\ Outstanding(a)' = Outstanding(a)
    BY <1>1 DEF Counted, MarksMatchQueue, Outstanding
  <2>5. /\ Len(areas[a].queue) \in Nat /\ Outstanding(a) \in {0, 1}
        /\ areas[a].queue # << >> <=> Len(areas[a].queue) # 0
    BY LengthTyped
  <2>6. a \in CloudAreas => marks'[a] = Outstanding(a) + Len(InOrder(LoadedOf(a)))
    <3>1. a \in CloudAreas =>
            Lower(marks[a], IF a \in gone THEN Len(areas[a].queue) ELSE 0) = Outstanding(a)
      BY <2>4, <2>5 DEF Lower
    <3> HIDE DEF gone
    <3> QED
      BY <2>1, <3>1
  <2>7. Installed(a)
    BY ActivateInstalls
  <2>8. Len(InOrder(LoadedOf(a))) \in Nat /\ Len(<< >>) = 0
    BY <2>3
  <2>9. CASE LoadedOf(a) # {}
    <3>1. a \in CloudAreas
      BY <2>9 DEF LoadedOf, Arranged, LoadedCloud, IsCloud
    <3>2. areas'[a].queue = InOrder(LoadedOf(a))
      BY <2>7, <2>9 DEF Installed
    <3> QED
      BY <1>1, <2>2, <2>3, <2>4, <2>5, <2>6, <2>8, <3>1, <3>2, QueuedMembers
  <2>10. CASE LoadedOf(a) = {} /\ a \in CloudAreas
    <3>1. areas'[a].queue = << >> /\ Queued(areas'[a]) = {}
      <4>1. areas'[a].queue = << >>
        BY <2>7, <2>10, GoneFits DEF Installed
      <4> QED
        BY <4>1, EmptySorted, QueuedMembers
    <3> QED
      BY <2>3, <2>4, <2>5, <2>6, <2>8, <2>10, <3>1
  <2>11. CASE LoadedOf(a) = {} /\ a \notin CloudAreas
    <3>1. areas'[a] = areas[a]
      BY <2>7, <2>11 DEF Installed
    <3>2. marks'[a] = marks[a]
      <4>1. InOrder(LoadedOf(a)) = << >> /\ marks'[a] = Lower(marks[a], 0) + Len(<< >>)
        BY <2>1, <2>3, <2>11
      <4> QED
        BY <4>1, <2>4, <2>5, <2>8 DEF Lower
    <3> QED
      BY <1>1, <2>4, <3>1, <3>2 DEF Counted, QueueAccounted
  <2> QED
    BY <2>9, <2>10, <2>11
<1> QED
  BY <1>2 DEF Counted, QueueAccounted, MarksMatchQueue, Outstanding

\* A committed delete takes every edit of the map with its marks.
LEMMA CommitCounted ==
  ASSUME Typed, Arranged, Counted, NEW a \in CloudAreas, NEW tracked \in {0, 1},
         CommitDelete(a, tracked), Emptied(a),
         tracked = 0 => del' = del,
         tracked = 1 => del'.at # "wire" /\ del.at = "wire" /\ del.area = a
  PROVE  Counted'
<1> DEFINE ops == Queued(areas[a])  n == Len(areas[a].queue)
<1>1. a \in Areas /\ n \in Nat /\ marks[a] = n + Outstanding(a)
      /\ Outstanding(a) \in {0, 1}
  <2>1. a \in Areas
    BY DEF Areas
  <2> QED
    BY <2>1, LengthTyped DEF Counted, MarksMatchQueue, Outstanding
<1>2. ops \cap accounted = ops
  BY <1>1 DEF Counted, QueueAccounted
<1>3. Cardinality(ops) = n
  BY <1>1, AreaTyped, SortedCardinality DEF Arranged, QueueSorted
<1>4. /\ marks' = [marks EXCEPT ![a] = Lower(Lower(@, Cardinality(ops \cap accounted)), tracked)]
      /\ accounted' = accounted \ ops
  BY DEF CommitDelete
<1>5. marks'[a] = Lower(Lower(marks[a], n), tracked)
      /\ \A b \in Areas : b # a => marks'[b] = marks[b]
  BY <1>1, <1>2, <1>3, <1>4 DEF StatType
<1>6. areas'[a] = GoneArea(areas[a]) /\ \A b \in Areas : b # a => areas'[b] = areas[b]
  BY <1>1, EmptiedAreas
<1>7. Queued(areas'[a]) = {} /\ Len(areas'[a].queue) = 0
  BY <1>6, GoneFits, EmptySorted
<1> HIDE DEF n, ops
<1>8. QueueAccounted'
  <2>1. \A b \in Areas : /\ Queued(areas'[b]) \subseteq Queued(areas[b])
                         /\ Queued(areas'[b]) \cap ops = {}
    <3> SUFFICES ASSUME NEW b \in Areas
                 PROVE  /\ Queued(areas'[b]) \subseteq Queued(areas[b])
                        /\ Queued(areas'[b]) \cap ops = {}
      OBVIOUS
    <3>1. CASE b = a
      BY <1>7, <3>1
    <3>2. CASE b # a
      <4>1. \A o : ~(o \in Queued(areas[a]) /\ o \in Queued(areas[b]))
        BY <1>1, <3>2 DEF Arranged, QueueMade
      <4> QED
        BY <1>6, <3>2, <4>1 DEF ops
    <3> QED
      BY <3>1, <3>2
  <2> QED
    BY <1>4, <2>1, AccountedKept DEF Counted
<1>9. MarksMatchQueue'
  <2> SUFFICES ASSUME NEW b \in Areas PROVE marks'[b] = Len(areas'[b].queue) + Outstanding(b)'
    BY DEF MarksMatchQueue, Outstanding
  <2>1. Outstanding(b)' = IF tracked = 1 /\ b = a THEN 0 ELSE Outstanding(b)
    <3>1. tracked = 1 => del'.at # "wire"
      OBVIOUS
    <3>2. CASE tracked = 1
      BY <3>1, <3>2 DEF Outstanding
    <3>3. CASE tracked = 0
      BY <3>3 DEF Outstanding
    <3> QED
      BY <3>2, <3>3
  <2>2. CASE b # a
    BY <1>5, <1>6, <2>1, <2>2 DEF Counted, MarksMatchQueue, Outstanding
  <2>3. CASE b = a
    <3>1. tracked = 1 => Outstanding(a) = 1
      BY DEF Outstanding
    <3>2. Lower(marks[a], n) = Outstanding(a)
      BY <1>1 DEF Lower
    <3>3. Lower(Outstanding(a), tracked) = IF tracked = 1 THEN 0 ELSE Outstanding(a)
      BY <1>1, <3>1 DEF Lower
    <3> QED
      BY <1>1, <1>5, <1>7, <2>1, <2>3, <3>2, <3>3
  <2> QED
    BY <2>2, <2>3
<1> QED
  BY <1>8, <1>9 DEF Counted

LEMMA EngineCounted == ASSUME Typed, Arranged, Counted, Engine PROVE Counted'
<1>1. del' = del
  BY EngineJournal
<1>2. CASE Steady /\ accounted' = accounted /\ marks' = marks
  BY <1>1, <1>2, CountedKept DEF Steady
<1>3. ASSUME NEW a \in CloudAreas, CommitDelete(a, 0), Emptied(a) PROVE Counted'
  BY <1>1, <1>3, CommitCounted
<1> QED
  BY <1>2, <1>3, EngineShape, InstallCounted

LEMMA DeletionCounted == ASSUME Typed, Arranged, Counted, Deletion PROVE Counted'
<1> USE DEF TaskType, DeleteType
<1>1. CASE DeleteLeaves \/ DeleteAbandon \/ \E a \in CloudAreas : DeleteBegin(a)
  <2>1. /\ del.at # "wire" /\ del'.at # "wire"
        /\ UNCHANGED << areas, marks, accounted >>
    <3>1. NoDelete.at = "none" /\ \A a : [NoDelete EXCEPT !.at = "fenced", !.area = a,
                                                       !.gen = cred].at = "fenced"
      BY DEF NoDelete
    <3>2. CASE DeleteLeaves \/ DeleteAbandon
      BY <3>1, <3>2 DEF DeleteLeaves, DeleteAbandon, statVars
    <3>3. ASSUME NEW a \in CloudAreas, DeleteBegin(a)
          PROVE  /\ del.at # "wire" /\ del'.at # "wire"
                 /\ UNCHANGED << areas, marks, accounted >>
      BY <3>1, <3>3 DEF DeleteBegin
    <3> QED
      BY <1>1, <3>2, <3>3
  <2> QED
    BY <2>1, MarksStay, SteadyAccounted DEF Counted, Outstanding
<1>2. CASE DeletePrepare
  <2> DEFINE a == del.area
  <2>1. /\ del.at = "fenced" /\ del'.at = "wire" /\ del'.area = a
        /\ marks' = [marks EXCEPT ![a] = @ + 1] /\ UNCHANGED << areas, accounted >>
    BY <1>2 DEF DeletePrepare
  <2>2. a \in Areas
    BY <1>2 DEF DeletePrepare, InHand, Areas
  <2>3. MarksMatchQueue'
    <3> SUFFICES ASSUME NEW b \in Areas
                 PROVE  marks'[b] = Len(areas'[b].queue) + Outstanding(b)'
      BY DEF MarksMatchQueue, Outstanding
    <3>1. /\ Outstanding(b) = 0 /\ Outstanding(b)' = (IF b = a THEN 1 ELSE 0)
          /\ marks[b] = Len(areas[b].queue) + 0
      BY <2>1 DEF Outstanding, Counted, MarksMatchQueue
    <3>2. marks'[b] = IF b = a THEN marks[b] + 1 ELSE marks[b]
      BY <2>1, <2>2 DEF StatType
    <3>3. Len(areas[b].queue) \in Nat /\ areas'[b] = areas[b]
      BY <2>1, LengthTyped
    <3>4. CASE b = a
      <4>1. marks'[b] = Len(areas[b].queue) + 1 /\ Outstanding(b)' = 1
        BY <3>1, <3>2, <3>3, <3>4
      <4> QED
        BY <3>3, <4>1
    <3>5. CASE b # a
      <4>1. marks'[b] = Len(areas[b].queue) /\ Outstanding(b)' = 0
        BY <3>1, <3>2, <3>3, <3>5
      <4> QED
        BY <3>3, <4>1
    <3> QED
      BY <3>4, <3>5
  <2> QED
    BY <2>1, <2>3, SteadyAccounted DEF Counted
<1>3. CASE DeleteSucceeds
  <2>1. del.area \in CloudAreas /\ Emptied(del.area) /\ CommitDelete(del.area, 1)
    BY <1>3 DEF DeleteSucceeds, InHand, CommitDelete, SetArea, Emptied
  <2>2. del'.at # "wire" /\ del.at = "wire"
    BY <1>3 DEF DeleteSucceeds, NoDelete
  <2> QED
    BY <2>1, <2>2, CommitCounted
<1>4. CASE DeleteAmbiguous
  <2> DEFINE a == del.area
  <2>1. /\ del.at = "wire" /\ del'.at = "none" /\ accounted' = accounted
        /\ marks' = [marks EXCEPT ![a] = Lower(@, 1)]
    BY <1>4 DEF DeleteAmbiguous, NoDelete
  <2>2. a \in Areas
    BY <1>4 DEF DeleteAmbiguous, InHand, Areas
  <2>3. Steady
    <3>1. SetArea(a, [areas[a] EXCEPT !.needsBase = TRUE]) /\ areas[a] \in AreaType
      BY <1>4, <2>2 DEF DeleteAmbiguous, QueueType
    <3> DEFINE x == [areas[a] EXCEPT !.needsBase = TRUE]
    <3>2. x.queue = areas[a].queue /\ x.phase = areas[a].phase
      BY <3>1 DEF AreaType
    <3>3. SetArea(a, x)
      BY <3>1
    <3> HIDE DEF x
    <3> QED
      BY <2>2, <3>2, <3>3, SamePhaseCalm, SetAreaSteady
  <2>4. MarksMatchQueue'
    <3> SUFFICES ASSUME NEW b \in Areas
                 PROVE  marks'[b] = Len(areas'[b].queue) + Outstanding(b)'
      BY DEF MarksMatchQueue, Outstanding
    <3>1. /\ Outstanding(b) = (IF b = a THEN 1 ELSE 0) /\ Outstanding(b)' = 0
          /\ marks[b] = Len(areas[b].queue) + Outstanding(b)
          /\ areas'[b].queue = areas[b].queue
      BY <2>1, <2>3 DEF Outstanding, Counted, MarksMatchQueue, Steady
    <3>2. marks'[b] = IF b = a THEN Lower(marks[b], 1) ELSE marks[b]
      BY <2>1, <2>2 DEF StatType
    <3> HIDE DEF a
    <3> QED
      BY <3>1, <3>2, LengthTyped DEF Lower
  <2> QED
    BY <2>1, <2>3, <2>4, SteadyAccounted DEF Counted, Steady
<1> QED
  BY <1>1, <1>2, <1>3, <1>4 DEF Deletion

-----------------------------------------------------------------------------
\* The service, the process, and every behaviour.

LEMMA ServiceCounted == ASSUME Typed, Counted, Service PROVE Counted'
<1>1. UNCHANGED << areas, marks, accounted >>
  BY ServiceKeeps
<1>2. del'.at = del.at /\ del'.area = del.area
  BY DEF Service, ServiceHandles, ServiceRefuses, RequestTimesOut, ServiceDeletes,
     ForeignEdit, AccessChanges, TaskType, DeleteType
<1> QED
  BY <1>1, <1>2, MarksStay, SteadyAccounted DEF Counted, Outstanding

LEMMA ProcessCounted == ASSUME Typed, Counted, Process PROVE Counted'
<1>1. CASE Crash
  <2>1. \A a \in Areas : areas'[a] = EmptyArea /\ marks'[a] = 0
    BY <1>1 DEF Crash
  <2>2. del'.at = "none"
    BY <1>1 DEF Crash, NoDelete
  <2>3. \A a \in Areas : Queued(areas'[a]) = {} /\ Len(areas'[a].queue) = 0
    BY <2>1, EmptyFits, EmptySorted
  <2> QED
    <3>1. QueueAccounted'
      BY <2>3 DEF QueueAccounted
    <3>2. MarksMatchQueue'
      BY <2>1, <2>2, <2>3 DEF MarksMatchQueue
    <3> QED
      BY <3>1, <3>2 DEF Counted
<1>2. CASE Restart \/ Outage \/ RequestSync \/ Login
  BY <1>2, CountedKept DEF Restart, Outage, RequestSync, Login
<1> QED
  BY <1>1, <1>2 DEF Process

LEMMA InitCounted == ASSUME Init PROVE Counted
<1>1. \A a \in Areas : areas[a].queue = << >> /\ marks[a] = 0
  BY DEF Init, EmptyArea
<1>2. del.at = "none"
  BY DEF Init, NoDelete
<1>3. \A a \in Areas : Queued(areas[a]) = {} /\ Len(areas[a].queue) = 0
  BY <1>1, EmptySorted, QueuedMembers
<1> QED
  BY <1>1, <1>2, <1>3 DEF Counted, QueueAccounted, MarksMatchQueue

LEMMA StepCounted == ASSUME Typed, Arranged, Counted, [Next]_vars PROVE Counted'
<1>1. CASE UNCHANGED vars
  BY <1>1, CountedKept DEF vars
<1> QED
  BY <1>1, EditorCounted, RebuildsCounted, WorkerCounted, EngineCounted, DeletionCounted,
     ServiceCounted, ProcessCounted DEF Next

\* pending_by_area is exact: at every moment a map's count is the length of its
\* queue and the delete that is on the wire, so the saturating subtractions of
\* settle, retire and commit_delete never hide a difference.
THEOREM MarksAreExact == Spec => []MarksMatchQueue
<1>1. Init => Typed /\ Own /\ Arranged /\ Counted
  BY InitTyped, InitOwned, InitArranged, InitCounted
<1>2. Typed /\ Own /\ Arranged /\ Counted /\ [Next]_vars =>
        Typed' /\ Own' /\ Arranged' /\ Counted'
  BY StepTyped, StepOwned, StepArranged, StepCounted
<1>3. Counted => MarksMatchQueue
  BY DEF Counted
<1> HIDE DEF Typed
<1>4. Spec => [](Typed /\ Own /\ Arranged /\ Counted)
  BY <1>1, <1>2, PTL DEF Spec
<1> QED
  BY <1>3, <1>4, PTL
===============================================================================
