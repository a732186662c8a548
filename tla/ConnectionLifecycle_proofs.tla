---------------------- MODULE ConnectionLifecycle_proofs ----------------------
(***************************************************************************)
(* What the connection lifecycle promises for every number of attempts and *)
(* of outside events.  A dial that the session waits for is under way or   *)
(* its ending is (DialsTracked), wherever a reload puts the messages.  The *)
(* session does not take itself for connected without a socket or the news *)
(* of its end (NoGhost), if nobody sends between the drain and the requeue *)
(* of a reload: the argument is about the order of the inbox, in which a   *)
(* Connected whose socket has gone is followed by a Disconnected.  With    *)
(* the same proviso it believes what the daemon said last (IntentsCurrent).*)
(* Without it the client still redials at most once (RedialsPaced), and a  *)
(* login goes once to a connection that spoke (LoginsOwn).  Every variable *)
(* keeps its type, and only the last attempt is not told to stop           *)
(* (ConnectionTyped).                                                      *)
(***************************************************************************)
EXTENDS ConnectionLifecycle, SequenceTheorems, TLAPS

Link == [dial : 0 .. MaxAttempts, gen : 0 .. MaxAttempts, connected : BOOLEAN,
         login : BOOLEAN, intent : BOOLEAN, spent : BOOLEAN, waiting : BOOLEAN]

DaemonKinds == {"Connect", "Disconnect", "ConnectDeclined"}
EndingKinds == {"Connected", "ConnectionFailed", "ConnectionAbandoned"}
MessageKinds == DaemonKinds \cup EndingKinds \cup {"Disconnected", "IncomingPacketProcessed"}
Messages == [kind : MessageKinds, gen : 0 .. MaxAttempts]

Typed ==
  /\ link \in Link
  /\ mail \in Seq(Messages) /\ heldMail \in Seq(Messages)
  /\ reloading \in BOOLEAN
  /\ socket \in [Attempts -> {"none", "dialing", "up", "ended"}]

\* A dial is that of the last attempt, and later ones have no task yet.
LastAttempt ==
  /\ link.dial \in {0, link.gen}
  /\ \A g \in Attempts : g > link.gen => socket[g] = "none"

\* Only a reload holds messages back.
Emptied == ~reloading => heldMail = <<>>

DialInv == Typed /\ LastAttempt /\ Emptied /\ DialTracked

-----------------------------------------------------------------------------
\* Sequences of messages.

LEMMA RangeOfAppend ==
  ASSUME NEW S, NEW s \in Seq(S), NEW m \in S
  PROVE  /\ Append(s, m) \in Seq(S)
         /\ Range(Append(s, m)) = Range(s) \cup {m}
<1>1. /\ Append(s, m) \in Seq(S) /\ Len(s) \in Nat /\ DOMAIN s = 1 .. Len(s)
      /\ DOMAIN Append(s, m) = 1 .. Len(s) + 1
  BY LenProperties, AppendProperties
<1>2. /\ \A i \in 1 .. Len(s) : Append(s, m)[i] = s[i]
      /\ Append(s, m)[Len(s) + 1] = m
  BY AppendProperties
<1>3. \A i \in 1 .. Len(s) + 1 : i \in 1 .. Len(s) \/ i = Len(s) + 1
  BY <1>1
<1>4. Range(Append(s, m)) \subseteq Range(s) \cup {m}
  BY <1>1, <1>2, <1>3 DEF Range
<1>5. ASSUME NEW x \in Range(s) PROVE x \in Range(Append(s, m))
  <2>1. PICK i \in 1 .. Len(s) : x = s[i]
    BY <1>1, <1>5 DEF Range
  <2>2. i \in 1 .. Len(s) + 1 /\ x = Append(s, m)[i]
    BY <2>1, <1>1, <1>2
  <2> QED
    BY <2>2, <1>1 DEF Range
<1>6. m \in Range(Append(s, m))
  <2>1. Len(s) + 1 \in 1 .. Len(s) + 1
    BY <1>1
  <2> QED
    BY <2>1, <1>1, <1>2 DEF Range
<1> QED
  BY <1>1, <1>4, <1>5, <1>6

LEMMA RangeOfTail ==
  ASSUME NEW S, NEW s \in Seq(S), s # <<>>
  PROVE  /\ Tail(s) \in Seq(S) /\ Head(s) \in S
         /\ Range(s) = {Head(s)} \cup Range(Tail(s))
<1>1. Tail(s) \in Seq(S) /\ Head(s) \in S /\ Head(s) = s[1] /\ Len(s) \in Nat /\ Len(s) > 0
  BY HeadTailProperties, EmptySeq, LenProperties
<1>2. Len(Tail(s)) = Len(s) - 1 /\ \A i \in 1 .. Len(s) - 1 : Tail(s)[i] = s[i + 1]
  BY HeadTailProperties
<1>3. DOMAIN s = 1 .. Len(s) /\ DOMAIN Tail(s) = 1 .. Len(s) - 1
  BY <1>1, <1>2, LenProperties
<1>4. ASSUME NEW x \in Range(s) PROVE x \in {Head(s)} \cup Range(Tail(s))
  <2>1. PICK i \in 1 .. Len(s) : x = s[i]
    BY <1>3, <1>4 DEF Range
  <2>2. CASE i = 1
    BY <2>1, <2>2, <1>1
  <2>3. CASE i # 1
    <3>1. i - 1 \in 1 .. Len(s) - 1 /\ x = Tail(s)[i - 1]
      BY <2>1, <2>3, <1>1, <1>2
    <3> QED
      BY <3>1, <1>3 DEF Range
  <2> QED
    BY <2>2, <2>3
<1>5. ASSUME NEW x \in Range(Tail(s)) PROVE x \in Range(s)
  <2>1. PICK i \in 1 .. Len(s) - 1 : x = Tail(s)[i]
    BY <1>3, <1>5 DEF Range
  <2>2. i + 1 \in 1 .. Len(s) /\ x = s[i + 1]
    BY <2>1, <1>1, <1>2
  <2> QED
    BY <2>2, <1>3 DEF Range
<1>6. Head(s) \in Range(s)
  BY <1>1, <1>3 DEF Range
<1> QED
  BY <1>1, <1>4, <1>5, <1>6

LEMMA RangeOfConcat ==
  ASSUME NEW S, NEW s \in Seq(S), NEW t \in Seq(S)
  PROVE  /\ s \o t \in Seq(S)
         /\ Range(s \o t) = Range(s) \cup Range(t)
<1>1. s \o t \in Seq(S) /\ Len(s \o t) = Len(s) + Len(t)
  BY ConcatProperties
<1>2. \A i \in 1 .. Len(s) + Len(t) :
        (s \o t)[i] = IF i <= Len(s) THEN s[i] ELSE t[i - Len(s)]
  BY ConcatProperties
<1>3. /\ Len(s) \in Nat /\ Len(t) \in Nat
      /\ DOMAIN s = 1 .. Len(s) /\ DOMAIN t = 1 .. Len(t)
      /\ DOMAIN (s \o t) = 1 .. Len(s) + Len(t)
  BY <1>1, LenProperties
<1>4. ASSUME NEW x \in Range(s \o t) PROVE x \in Range(s) \cup Range(t)
  <2>1. PICK i \in 1 .. Len(s) + Len(t) : x = (s \o t)[i]
    BY <1>3, <1>4 DEF Range
  <2>2. CASE i <= Len(s)
    <3>1. i \in 1 .. Len(s) /\ x = s[i]
      BY <2>1, <2>2, <1>2, <1>3
    <3> QED
      BY <3>1, <1>3 DEF Range
  <2>3. CASE i > Len(s)
    <3>1. i - Len(s) \in 1 .. Len(t) /\ x = t[i - Len(s)]
      BY <2>1, <2>3, <1>2, <1>3
    <3> QED
      BY <3>1, <1>3 DEF Range
  <2> QED
    BY <2>2, <2>3, <1>3
<1>5. ASSUME NEW x \in Range(s) PROVE x \in Range(s \o t)
  <2>1. PICK i \in 1 .. Len(s) : x = s[i]
    BY <1>3, <1>5 DEF Range
  <2>2. i \in 1 .. Len(s) + Len(t) /\ x = (s \o t)[i]
    BY <2>1, <1>2, <1>3
  <2> QED
    BY <2>2, <1>3 DEF Range
<1>6. ASSUME NEW x \in Range(t) PROVE x \in Range(s \o t)
  <2>1. PICK i \in 1 .. Len(t) : x = t[i]
    BY <1>3, <1>6 DEF Range
  <2>2. i + Len(s) \in 1 .. Len(s) + Len(t) /\ x = (s \o t)[i + Len(s)]
    BY <2>1, <1>2, <1>3
  <2> QED
    BY <2>2, <1>3 DEF Range
<1> QED
  BY <1>1, <1>4, <1>5, <1>6
-----------------------------------------------------------------------------
\* What a step does to the inbox, the tasks and the part of link that the
\* invariants are about.

SameDial ==
  /\ link' \in Link
  /\ link'.dial = link.dial /\ link'.gen = link.gen /\ link'.connected = link.connected

QuietStep == SameDial /\ UNCHANGED <<mail, heldMail, reloading, socket>>

\* The daemon sends, or an attempt passes on what its server has said.
FromOther(m) ==
  \/ m.kind \in DaemonKinds /\ m.gen = 0
  \/ /\ m.kind = "IncomingPacketProcessed" /\ m.gen \in greeted'
     /\ m.gen \in Attempts /\ socket[m.gen] = "up"

OtherSend ==
  /\ CanSend
  /\ \E m \in Messages :
       /\ FromOther(m)
       /\ mail' = Append(mail, m)
  /\ SameDial /\ UNCHANGED <<heldMail, reloading, socket>>

\* The task of attempt g goes from one state to another and says so.
Moves(g, from, k, to) ==
  /\ CanSend
  /\ socket[g] = from /\ socket' = [socket EXCEPT ![g] = to]
  /\ mail' = Append(mail, Msg(k, g))
  /\ UNCHANGED <<link, heldMail, reloading>>

TaskStep(g) ==
  \/ Moves(g, "dialing", "Connected", "up")
  \/ Moves(g, "dialing", "ConnectionFailed", "ended")
  \/ Moves(g, "dialing", "ConnectionAbandoned", "ended")
  \/ Moves(g, "up", "Disconnected", "ended")

Handled ==
  /\ ~reloading /\ mail # <<>> /\ mail' = Tail(mail)
  /\ UNCHANGED <<heldMail, reloading>>
  /\ link' \in Link

Begins ==
  /\ Head(mail).kind = "Connect" /\ link.gen < MaxAttempts
  /\ link'.gen = link.gen + 1 /\ link'.dial = link.gen + 1
  /\ link'.connected = link.connected
  /\ socket' = [socket EXCEPT ![link.gen + 1] = "dialing"]

Ignores ==
  /\ Head(mail).kind \in {"Disconnect", "ConnectDeclined", "IncomingPacketProcessed"}
  /\ SameDial /\ UNCHANGED socket

Learns ==
  /\ Head(mail).kind \in EndingKinds \cup {"Disconnected"}
  /\ link'.gen = link.gen /\ UNCHANGED socket
  /\ link'.dial \in {0, link.dial}
  /\ Head(mail).kind = "Connected" => link'.dial = 0 /\ link'.connected
  /\ Head(mail).kind = "Disconnected" => ~link'.connected
  /\ Head(mail).kind \in EndingKinds /\ OfLive => link'.dial = 0
  /\ Head(mail).kind \in {"ConnectionFailed", "ConnectionAbandoned"} =>
       link'.connected = link.connected

Drained ==
  /\ ~reloading /\ reloading' = TRUE
  /\ heldMail' = mail /\ mail' = <<>>
  /\ UNCHANGED <<link, socket>>

Requeued ==
  /\ reloading /\ reloading' = FALSE
  /\ mail' = mail \o heldMail /\ heldMail' = <<>>
  /\ UNCHANGED <<link, socket>>

Shape ==
  \/ QuietStep \/ OtherSend \/ \E g \in Attempts : TaskStep(g)
  \/ Handled /\ (Begins \/ Ignores \/ Learns)
  \/ Drained \/ Requeued

\* A write changes only what paces redials and what waits for them.
LEMMA WriteKeeps ==
  ASSUME NEW l \in Link, NEW d
  PROVE  /\ Write(l, d).after \in Link
         /\ Write(l, d).after.dial = l.dial
         /\ Write(l, d).after.gen = l.gen
         /\ Write(l, d).after.connected = l.connected
<1> DEFINE fails == l.gen > 0 /\ ~Takes(l.gen)
           asks == /\ ~l.waiting /\ l.intent /\ ~l.spent /\ l.dial = 0
           joins == l.waiting \/ (l.intent /\ ~l.spent)
<1>1. CASE ~fails
  <2>1. Write(l, d).after = [l EXCEPT !.spent = FALSE]
    BY <1>1 DEF Write
  <2> QED
    BY <2>1 DEF Link
<1>2. CASE fails /\ asks
  <2>1. Write(l, d).after = [l EXCEPT !.spent = TRUE, !.waiting = TRUE]
    BY <1>2 DEF Write
  <2> QED
    BY <2>1 DEF Link
<1>3. CASE fails /\ ~asks
  <2>1. Write(l, d).after = [l EXCEPT !.waiting = joins]
    BY <1>3 DEF Write
  <2>2. joins \in BOOLEAN
    BY DEF Link
  <2> QED
    BY <2>1, <2>2 DEF Link
<1> QED
  BY <1>1, <1>2, <1>3

\* What the session's thread sends and is sent, in one message.
LEMMA MessagesTyped ==
  ASSUME NEW k \in MessageKinds, NEW g \in 0 .. MaxAttempts
  PROVE  Msg(k, g) \in Messages /\ Msg(k, g).kind = k /\ Msg(k, g).gen = g
BY DEF Msg, Messages

LEMMA SaysShape ==
  ASSUME Typed, NEW k \in DaemonKinds, Says(k),
         UNCHANGED <<sessionVars, heldMail, reloading, socketVars>>
  PROVE  OtherSend
<1>1. Msg(k, 0) \in Messages /\ Msg(k, 0).kind = k /\ Msg(k, 0).gen = 0
  BY MessagesTyped, ConnectionAssumption DEF MessageKinds
<1>2. CanSend /\ mail' = Append(mail, Msg(k, 0))
  BY DEF Says, ToSession
<1>3. SameDial /\ UNCHANGED <<heldMail, reloading, socket>>
  BY DEF Typed, SameDial, sessionVars, socketVars
<1> QED
  BY <1>1, <1>2, <1>3 DEF OtherSend, FromOther

LEMMA DaemonShape ==
  ASSUME Typed, Daemon \/ Click \/ AcceptTls
  PROVE  Shape
<1> USE DEF Shape
<1>1. CASE TakeEvent
  <2>1. UNCHANGED <<sessionVars, heldMail, reloading, socketVars>>
    BY <1>1 DEF TakeEvent
  <2>2. Quietly \/ Says("ConnectDeclined")
    <3> DEFINE e == Head(uiMail)
    <3>1. Reacts(e)
      BY <1>1 DEF TakeEvent
    <3> QED
      BY <3>1 DEF Reacts
  <2>3. CASE Quietly
    <3>1. QuietStep
      BY <2>1, <2>3 DEF Quietly, QuietStep, SameDial, Typed, sessionVars, socketVars
    <3> QED
      BY <3>1
  <2>4. CASE Says("ConnectDeclined")
    <3>1. OtherSend
      BY <2>1, <2>4, SaysShape DEF DaemonKinds
    <3> QED
      BY <3>1
  <2> QED
    BY <2>2, <2>3, <2>4
<1>2. CASE TakeMessage \/ Click \/ AcceptTls
  <2>1. UNCHANGED <<sessionVars, heldMail, reloading, socketVars>>
    BY <1>2 DEF TakeMessage, Click, AcceptTls
  <2>2. \E k \in DaemonKinds : Says(k)
    BY <1>2 DEF TakeMessage, Click, AcceptTls, Reconnects, Disconnects, DaemonKinds
  <2>3. OtherSend
    BY <2>1, <2>2, SaysShape
  <2> QED
    BY <2>3
<1> QED
  BY <1>1, <1>2 DEF Daemon

LEMMA TaskShape ==
  ASSUME Typed, NEW g \in Attempts, SocketTask(g)
  PROVE  Shape
<1>1. UNCHANGED <<link, heldMail, reloading>>
  BY DEF SocketTask, sessionVars
<1>2. CASE Receives(g)
  <2>1. g \in 0 .. MaxAttempts
    BY ConnectionAssumption DEF Attempts
  <2>2. /\ Msg("IncomingPacketProcessed", g) \in Messages
        /\ Msg("IncomingPacketProcessed", g).kind = "IncomingPacketProcessed"
        /\ Msg("IncomingPacketProcessed", g).gen = g
    BY <2>1, MessagesTyped DEF MessageKinds
  <2>3. FromOther(Msg("IncomingPacketProcessed", g))
    BY <1>2, <2>2 DEF Receives, FromOther
  <2>4. OtherSend
    BY <1>1, <1>2, <2>2, <2>3 DEF Receives, ToSession, OtherSend, SameDial, Typed
  <2> QED
    BY <2>4 DEF Shape
<1>3. CASE BecomesUp(g) \/ FailsToConnect(g) \/ Abandons(g) \/ TearsDown(g)
  <2>1. TaskStep(g)
    BY <1>1, <1>3 DEF BecomesUp, FailsToConnect, Abandons, TearsDown, ToSession, TaskStep, Moves
  <2> QED
    BY <2>1 DEF Shape
<1> QED
  BY <1>2, <1>3 DEF SocketTask

LEMMA HandlerShape ==
  ASSUME Typed, HandleAction
  PROVE  Shape
<1>1. SUFFICES Handled /\ (Begins \/ Ignores \/ Learns)
  BY DEF Shape
<1>2. UNCHANGED <<heldMail, reloading>> /\ mail' = Tail(mail) /\ ~reloading /\ mail # <<>>
  BY DEF HandleAction, HandleConnect, HandleDisconnect, HandleDeclined, HandleConnected,
         HandleDisconnected, HandleAttemptEnded, HandlePacket, Hears
<1>0. 0 \in 0 .. MaxAttempts
  BY ConnectionAssumption
<1>3. CASE HandleConnect
  <2>1. link.gen + 1 \in 0 .. MaxAttempts
    BY <1>3, ConnectionAssumption DEF HandleConnect, Typed, Link
  <2>2. link' \in Link
    BY <1>3, <2>1 DEF HandleConnect, Typed, Link
  <2>3. Begins
    BY <1>3 DEF HandleConnect, Begins, Hears, Typed, Link
  <2> QED
    BY <1>2, <2>2, <2>3 DEF Handled
<1>4. CASE HandleDisconnect
  <2>1. SameDial
    BY <1>4 DEF HandleDisconnect, SameDial, Typed, Link
  <2>2. Ignores
    BY <1>4, <2>1 DEF HandleDisconnect, Ignores, Hears
  <2> QED
    BY <1>2, <2>1, <2>2 DEF Handled, SameDial
<1>5. CASE HandleDeclined
  <2>1. SameDial
    BY <1>5 DEF HandleDeclined, Settled, SameDial, Typed, Link
  <2>2. Ignores
    BY <1>5, <2>1 DEF HandleDeclined, Ignores, Hears, socketVars
  <2> QED
    BY <1>2, <2>1, <2>2 DEF Handled, SameDial
<1>6. CASE HandlePacket
  <2>1. SameDial
    <3>1. CASE OfLive /\ link.login
      <4> DEFINE l == [link EXCEPT !.login = FALSE]
      <4>1. l \in Link /\ l.dial = link.dial /\ l.gen = link.gen /\ l.connected = link.connected
        BY DEF Typed, Link
      <4>2. link' = Write(l, selfDials).after
        BY <1>6, <3>1 DEF HandlePacket, Wrote
      <4> HIDE DEF l
      <4> QED
        BY <4>1, <4>2, WriteKeeps DEF SameDial
    <3>2. CASE ~(OfLive /\ link.login)
      BY <1>6, <3>2 DEF HandlePacket, SameDial, Typed
    <3> QED
      BY <3>1, <3>2
  <2>2. Ignores
    BY <1>6, <2>1 DEF HandlePacket, Ignores, Hears, socketVars
  <2> QED
    BY <1>2, <2>1, <2>2 DEF Handled, SameDial
<1>7. CASE HandleConnected
  <2>1. link' \in Link /\ link'.gen = link.gen /\ link'.dial = 0 /\ link'.connected
    BY <1>0, <1>7 DEF HandleConnected, Settled, Typed, Link
  <2>2. Head(mail).kind = "Connected" /\ UNCHANGED socket
    BY <1>7 DEF HandleConnected, Hears, socketVars
  <2> QED
    BY <1>2, <2>1, <2>2 DEF Handled, Learns, EndingKinds
<1>8. CASE HandleDisconnected
  <2>1. Head(mail).kind = "Disconnected" /\ UNCHANGED socket
    BY <1>8 DEF HandleDisconnected, Hears, socketVars
  <2>2. /\ link' \in Link /\ link'.gen = link.gen /\ ~link'.connected
        /\ link'.dial \in {0, link.dial}
    <3>1. CASE OfLive
      BY <1>0, <1>8, <3>1 DEF HandleDisconnected, Typed, Link
    <3>2. CASE ~OfLive
      BY <1>8, <3>2 DEF HandleDisconnected, Typed, Link
    <3> QED
      BY <3>1, <3>2
  <2> QED
    BY <1>2, <2>1, <2>2 DEF Handled, Learns, EndingKinds
<1>9. CASE HandleAttemptEnded
  <2>1. Head(mail).kind \in {"ConnectionFailed", "ConnectionAbandoned"} /\ UNCHANGED socket
    BY <1>9 DEF HandleAttemptEnded, Hears, socketVars
  <2>2. /\ link' \in Link /\ link'.gen = link.gen /\ link'.connected = link.connected
        /\ link'.dial \in {0, link.dial} /\ (OfLive => link'.dial = 0)
    <3>1. CASE OfLive
      BY <1>0, <1>9, <3>1 DEF HandleAttemptEnded, Settled, Typed, Link
    <3>2. CASE ~OfLive
      BY <1>9, <3>2 DEF HandleAttemptEnded, Typed, Link
    <3> QED
      BY <3>1, <3>2
  <2> QED
    BY <1>2, <2>1, <2>2 DEF Handled, Learns, EndingKinds
<1> QED
  BY <1>3, <1>4, <1>5, <1>6, <1>7, <1>8, <1>9 DEF HandleAction

\* Every step has one of the shapes.
LEMMA StepShape ==
  ASSUME Typed, [ConnNext]_connVars
  PROVE  Shape
<1>1. CASE HandleAction
  BY <1>1, HandlerShape
<1>2. CASE SendBack \/ Drain
  BY <1>2 DEF SendBack, Drain, Requeued, Drained, Shape, sessionVars, socketVars
<1>3. CASE Daemon \/ Click \/ AcceptTls
  BY <1>3, DaemonShape
<1>4. ASSUME NEW g \in Attempts, SocketTask(g) PROVE Shape
  BY <1>4, TaskShape
<1>5. CASE TypedLine \/ ScriptSend
  <2>1. PICK l \in {link, [link EXCEPT !.spent = FALSE]}, d \in {0, selfDials} : Wrote(Write(l, d))
    BY <1>5 DEF TypedLine, ScriptSend
  <2>2. l \in Link /\ l.dial = link.dial /\ l.gen = link.gen /\ l.connected = link.connected
    BY DEF Typed, Link
  <2>3. link' = Write(l, d).after
    BY <2>1 DEF Wrote
  <2>4. SameDial
    BY <2>2, <2>3, WriteKeeps DEF SameDial
  <2>5. UNCHANGED <<mail, heldMail, reloading, socket>>
    BY <1>5 DEF TypedLine, ScriptSend, socketVars
  <2> QED
    BY <2>4, <2>5 DEF QuietStep, Shape
<1>6. CASE ScriptConnect \/ ScriptDisconnect
  <2>1. UNCHANGED <<link, mail, heldMail, reloading, socket>>
    BY <1>6 DEF ScriptConnect, ScriptDisconnect, socketVars, sessionVars
  <2> QED
    BY <2>1 DEF QuietStep, SameDial, Shape, Typed
<1>7. CASE UNCHANGED connVars
  BY <1>7 DEF connVars, sessionVars, socketVars, QuietStep, SameDial, Shape, Typed
<1> QED
  BY <1>1, <1>2, <1>3, <1>4, <1>5, <1>6, <1>7 DEF ConnNext, SessionThread

-----------------------------------------------------------------------------
\* A dial waited for is under way or its ending is.

Ended(g) == \E m \in Underway : m.kind \in EndingKinds /\ m.gen = g

LEMMA DialTrackedIff ==
  DialTracked <=> (link.dial # 0 => socket[link.dial] = "dialing" \/ Ended(link.dial))
BY DEF DialTracked, Ended, EndingKinds

LEMMA DialInit == ConnInit => DialInv
<1> SUFFICES ASSUME ConnInit PROVE DialInv
  OBVIOUS
<1>1. 0 \in 0 .. MaxAttempts
  BY ConnectionAssumption
<1>2. <<>> \in Seq(Messages)
  BY EmptySeq
<1>3. Typed
  BY <1>1, <1>2 DEF ConnInit, Typed, Link
<1> QED
  BY <1>3 DEF DialInv, LastAttempt, Emptied, DialTracked, ConnInit

\* A step that leaves the dial and its task alone and loses no message keeps it.
LEMMA DialKept ==
  ASSUME DialInv, Typed', Emptied', SameDial, socket' = socket,
         Underway \subseteq Underway'
  PROVE  DialInv'
<1>1. LastAttempt'
  BY DEF DialInv, LastAttempt, SameDial
<1>2. Ended(link.dial) => Ended(link.dial)'
  BY DEF Ended, SameDial
<1> QED
  BY <1>1, <1>2, DialTrackedIff DEF DialInv, DialTracked, Ended, EndingKinds, SameDial

LEMMA DialStep ==
  ASSUME DialInv, Shape
  PROVE  DialInv'
<1> USE DEF DialInv
<1>0. Emptied'
  BY DEF Emptied, Shape, QuietStep, OtherSend, TaskStep, Moves, Handled, Drained, Requeued
<1>1. CASE QuietStep
  <2>1. Typed' /\ Underway' = Underway
    BY <1>1 DEF QuietStep, SameDial, Typed, Underway
  <2> QED
    BY <1>0, <1>1, <2>1, DialKept DEF QuietStep
<1>2. CASE OtherSend
  <2>1. PICK m \in Messages : mail' = Append(mail, m)
    BY <1>2 DEF OtherSend
  <2>2. mail' \in Seq(Messages) /\ Range(mail') = Range(mail) \cup {m}
    BY <2>1, RangeOfAppend DEF Typed
  <2>3. Typed' /\ Underway \subseteq Underway'
    BY <1>2, <2>2 DEF OtherSend, SameDial, Typed, Underway
  <2> QED
    BY <1>0, <1>2, <2>3, DialKept DEF OtherSend
<1>3. ASSUME NEW g \in Attempts, TaskStep(g) PROVE DialInv'
  <2>1. PICK from \in {"dialing", "up"}, k \in EndingKinds \cup {"Disconnected"},
             to \in {"up", "ended"} :
          Moves(g, from, k, to) /\ (k = "Disconnected" => from = "up")
    BY <1>3 DEF TaskStep, EndingKinds
  <2>2. g \in 1 .. MaxAttempts /\ g \in 0 .. MaxAttempts
    BY ConnectionAssumption DEF Attempts
  <2>3. Msg(k, g) \in Messages /\ Msg(k, g).kind = k /\ Msg(k, g).gen = g
    BY <2>2, MessagesTyped DEF MessageKinds
  <2>4. mail' \in Seq(Messages) /\ Range(mail') = Range(mail) \cup {Msg(k, g)}
    BY <2>1, <2>3, RangeOfAppend DEF Moves, Typed
  <2>5. Typed'
    BY <2>1, <2>4 DEF Moves, Typed
  <2>6. LastAttempt'
    BY <2>1, <2>2 DEF Moves, LastAttempt, Typed
  <2>7. Msg(k, g) \in Underway' /\ Underway \subseteq Underway'
    BY <2>1, <2>4 DEF Underway, Moves
  <2>8. DialTracked'
    <3>1. SUFFICES ASSUME link'.dial # 0
                   PROVE  (socket[link.dial] = "dialing" \/ Ended(link.dial))'
      BY DEF DialTracked, Ended, EndingKinds
    <3>2. link' = link
      BY <2>1 DEF Moves
    <3>3. CASE Ended(link.dial)
      BY <3>2, <3>3, <2>7 DEF Ended
    <3>4. CASE socket[link.dial] = "dialing" /\ link.dial # g
      BY <3>2, <3>4, <2>1 DEF Moves, Typed, Link
    <3>5. CASE socket[link.dial] = "dialing" /\ link.dial = g
      <4>1. k \in EndingKinds
        BY <2>1, <3>5 DEF Moves
      <4> QED
        BY <4>1, <3>2, <3>5, <2>3, <2>7 DEF Ended
    <3> QED
      BY <3>1, <3>2, <3>3, <3>4, <3>5, DialTrackedIff
  <2> QED
    BY <1>0, <2>5, <2>6, <2>8
<1>4. CASE Handled /\ (Begins \/ Ignores \/ Learns)
  <2>1. /\ mail' \in Seq(Messages) /\ Head(mail) \in Messages
        /\ Range(mail) = {Head(mail)} \cup Range(mail')
    BY <1>4, RangeOfTail DEF Handled, Typed
  <2>2. Underway = {Head(mail)} \cup Underway'
    BY <1>4, <2>1 DEF Underway, Handled
  <2>3. CASE Begins
    <3>1. link.gen \in Nat /\ link.gen + 1 \in Attempts /\ link.gen + 1 # 0
      BY <2>3, ConnectionAssumption DEF Begins, Typed, Link, Attempts
    <3>2. socket'[link.gen + 1] = "dialing"
      BY <2>3, <3>1 DEF Begins, Typed
    <3>3. Typed'
      BY <1>4, <2>1, <2>3, <3>1 DEF Handled, Begins, Typed
    <3>4. LastAttempt'
      BY <2>3, <3>1 DEF Begins, LastAttempt, Typed, Attempts
    <3> QED
      BY <1>0, <2>3, <3>2, <3>3, <3>4 DEF DialTracked, Begins
  <2>4. CASE Ignores
    <3>1. Typed'
      BY <1>4, <2>1, <2>4 DEF Handled, Ignores, Typed
    <3>2. LastAttempt'
      BY <2>4 DEF Ignores, SameDial, LastAttempt
    <3>3. Head(mail).kind \notin EndingKinds
      BY <2>4 DEF Ignores, EndingKinds
    <3>4. Ended(link.dial) => Ended(link.dial)'
      BY <2>2, <2>4, <3>3 DEF Ended, Ignores, SameDial
    <3> QED
      BY <1>0, <2>4, <3>1, <3>2, <3>4, DialTrackedIff DEF DialTracked, Ended, EndingKinds, Ignores, SameDial
  <2>5. CASE Learns
    <3>1. Typed'
      BY <1>4, <2>1, <2>5 DEF Handled, Learns, Typed
    <3>2. LastAttempt'
      BY <2>5 DEF Learns, LastAttempt
    <3>3. CASE link'.dial = 0
      BY <1>0, <3>1, <3>2, <3>3 DEF DialTracked
    <3>4. CASE link'.dial # 0
      <4>1. link'.dial = link.dial /\ link.dial = link.gen
        BY <3>4, <2>5 DEF Learns, LastAttempt
      <4>2. ~(Head(mail).kind \in EndingKinds /\ Head(mail).gen = link.dial)
        BY <3>4, <4>1, <2>5 DEF Learns, OfLive
      <4>3. Ended(link.dial) => Ended(link.dial)'
        BY <2>2, <4>1, <4>2 DEF Ended
      <4> QED
        BY <1>0, <2>5, <3>1, <3>2, <4>1, <4>3, DialTrackedIff DEF DialTracked, Ended, EndingKinds, Learns
    <3> QED
      BY <3>3, <3>4
  <2> QED
    BY <1>4, <2>3, <2>4, <2>5
<1>5. CASE Drained
  <2>1. <<>> \in Seq(Messages)
    BY EmptySeq
  <2>2. Typed' /\ SameDial
    BY <1>5, <2>1 DEF Drained, Typed, SameDial
  <2>3. heldMail = <<>> /\ Range(heldMail) = {}
    BY <1>5 DEF Emptied, Drained, Range
  <2>4. Underway \subseteq Underway'
    BY <1>5, <2>3 DEF Underway, Drained
  <2> QED
    BY <1>0, <1>5, <2>2, <2>4, DialKept DEF Drained
<1>6. CASE Requeued
  <2>1. mail' \in Seq(Messages) /\ Range(mail') = Range(mail) \cup Range(heldMail)
    BY <1>6, RangeOfConcat DEF Requeued, Typed
  <2>2. <<>> \in Seq(Messages)
    BY EmptySeq
  <2>3. Typed' /\ SameDial
    BY <1>6, <2>1, <2>2 DEF Requeued, Typed, SameDial
  <2>4. Underway \subseteq Underway'
    BY <1>6, <2>1 DEF Underway, Requeued
  <2> QED
    BY <1>0, <1>6, <2>3, <2>4, DialKept DEF Requeued
<1> QED
  BY <1>1, <1>2, <1>3, <1>4, <1>5, <1>6 DEF Shape

LEMMA DialInvHolds == ConnSpec => []DialInv
<1>1. ConnInit => DialInv
  BY DialInit
<1>2. DialInv /\ [ConnNext]_connVars => DialInv'
  BY StepShape, DialStep DEF DialInv
<1> QED
  BY <1>1, <1>2, PTL DEF ConnSpec

\* The session waits for a dial only while its task dials or its ending is on
\* the way, through replacements, declined dials and reloads.
THEOREM DialsTracked == ConnSpec => []DialTracked
<1>1. DialInv => DialTracked
  BY DEF DialInv
<1> QED
  BY <1>1, DialInvHolds, PTL

-----------------------------------------------------------------------------
\* The order of the inbox, when nobody sends during a reload.

Line == IF reloading THEN heldMail ELSE mail

Up(g) == g \in Attempts /\ socket[g] = "up"

EndedAfter(i) == \E j \in 1 .. Len(Line) : j > i /\ Line[j].kind = "Disconnected"

\* The socket of a Connected is up, or the news of its end follows.
Order ==
  \A i \in 1 .. Len(Line) :
    Line[i].kind = "Connected" => Up(Line[i].gen) \/ EndedAfter(i)

Quiet == reloading => mail = <<>>

EndHeard == \E j \in 1 .. Len(Line) : Line[j].kind = "Disconnected"

NoGhostLine == link.connected => (\E g \in Attempts : Up(g)) \/ EndHeard

GhostInv == DialInv /\ Quiet /\ Order /\ NoGhostLine

LEMMA LineTyped ==
  ASSUME DialInv
  PROVE  /\ Line \in Seq(Messages) /\ Len(Line) \in Nat
         /\ \A i \in 1 .. Len(Line) : Line[i] \in Messages
<1>1. Line \in Seq(Messages)
  BY DEF Line, DialInv, Typed
<1> QED
  BY <1>1, LenProperties, ElementOfSeq

LEMMA GhostInit == ConnInit => GhostInv
<1> SUFFICES ASSUME ConnInit PROVE GhostInv
  OBVIOUS
<1>1. DialInv
  BY DialInit
<1>2. Len(Line) = 0 /\ 1 .. 0 = {}
  BY EmptySeq DEF ConnInit, Line
<1> QED
  BY <1>1, <1>2 DEF ConnInit, GhostInv, Quiet, Order, NoGhostLine

\* The line and the sockets stay, as does the flag.
LEMMA GhostKept ==
  ASSUME GhostInv, DialInv', Quiet', Line' = Line, socket' = socket,
         link'.connected = link.connected
  PROVE  GhostInv'
BY DEF GhostInv, Order, NoGhostLine, EndedAfter, EndHeard, Up

\* A message is added, and no socket that was up has gone without saying so.
LEMMA GhostSent ==
  ASSUME GhostInv, DialInv', Quiet', NEW m \in Messages, Line' = Append(Line, m),
         link'.connected = link.connected,
         m.kind = "Connected" => Up(m.gen)',
         (\A g : Up(g) => Up(g)') \/ m.kind = "Disconnected"
  PROVE  GhostInv'
<1> DEFINE n == Len(Line)
<1>1. /\ n \in Nat /\ Len(Line') = n + 1 /\ Line'[n + 1] = m
      /\ \A i \in 1 .. n : Line'[i] = Line[i]
  BY LineTyped, AppendProperties, LenProperties DEF GhostInv
<1> HIDE DEF n
<1>2. \A i \in 1 .. n : EndedAfter(i) => EndedAfter(i)'
  BY <1>1 DEF EndedAfter, n
<1>3. EndHeard => EndHeard'
  BY <1>1 DEF EndHeard, n
<1>4. m.kind = "Disconnected" => EndHeard' /\ \A i \in 1 .. n : EndedAfter(i)'
  BY <1>1 DEF EndHeard, EndedAfter, n
<1>5. Order'
  <2>1. SUFFICES ASSUME NEW i \in 1 .. n + 1, Line'[i].kind = "Connected"
                 PROVE  Up(Line[i].gen)' \/ EndedAfter(i)'
    BY <1>1 DEF Order
  <2>2. CASE i = n + 1
    BY <2>1, <2>2, <1>1
  <2>3. CASE i \in 1 .. n
    <3>1. Up(Line[i].gen) \/ EndedAfter(i)
      BY <2>1, <2>3, <1>1 DEF GhostInv, Order, n
    <3>2. CASE m.kind = "Disconnected"
      BY <3>2, <1>4, <2>3
    <3>3. CASE \A g : Up(g) => Up(g)'
      <4>1. Line'[i] = Line[i]
        BY <2>3, <1>1
      <4>2. Up(Line[i].gen) => Up(Line[i].gen)'
        BY <3>3, <4>1 DEF Up
      <4> QED
        BY <4>2, <3>1, <1>2, <2>3
    <3> QED
      BY <3>2, <3>3
  <2> QED
    BY <2>2, <2>3, <1>1
<1>6. NoGhostLine'
  BY <1>3, <1>4 DEF GhostInv, NoGhostLine
<1> QED
  BY <1>5, <1>6 DEF GhostInv

\* The first message is taken: what it was matters only to the flag.
LEMMA GhostHandled ==
  ASSUME GhostInv, DialInv', Quiet', Line # <<>>, Line' = Tail(Line),
         \A g : Up(g) => Up(g)',
         \/ link'.connected = FALSE
         \/ link'.connected = link.connected /\ Head(Line).kind # "Disconnected"
         \/ Head(Line).kind = "Connected"
  PROVE  GhostInv'
<1> DEFINE n == Len(Line)
<1>1. /\ n \in Nat /\ n > 0 /\ Len(Line') = n - 1 /\ Head(Line) = Line[1]
      /\ \A i \in 1 .. n - 1 : Line'[i] = Line[i + 1]
  BY LineTyped, HeadTailProperties, EmptySeq, LenProperties DEF GhostInv
<1> HIDE DEF n
<1>2. \A j \in 1 .. n : j > 1 => j - 1 \in 1 .. n - 1 /\ Line'[j - 1] = Line[j]
  <2>1. ASSUME NEW j \in 1 .. n, j > 1
        PROVE  j - 1 \in 1 .. n - 1 /\ Line'[j - 1] = Line[j]
    <3>1. j - 1 \in 1 .. n - 1 /\ (j - 1) + 1 = j
      BY <2>1, <1>1
    <3> QED
      BY <3>1, <1>1
  <2> QED
    BY <2>1
<1>3. ASSUME NEW i \in 1 .. n - 1, EndedAfter(i + 1) PROVE EndedAfter(i)'
  <2>1. PICK j \in 1 .. n : j > i + 1 /\ Line[j].kind = "Disconnected"
    BY <1>3 DEF EndedAfter, n
  <2>2. j - 1 \in 1 .. n - 1 /\ j - 1 > i /\ Line'[j - 1].kind = "Disconnected"
    BY <2>1, <1>1, <1>2
  <2> QED
    BY <2>2, <1>1 DEF EndedAfter
<1>4. EndedAfter(1) => EndHeard'
  <2>1. SUFFICES ASSUME EndedAfter(1) PROVE EndHeard'
    OBVIOUS
  <2>2. PICK j \in 1 .. n : j > 1 /\ Line[j].kind = "Disconnected"
    BY <2>1 DEF EndedAfter, n
  <2>3. j - 1 \in 1 .. n - 1 /\ Line'[j - 1].kind = "Disconnected"
    BY <2>2, <1>2
  <2> QED
    BY <2>3, <1>1 DEF EndHeard
<1>5. Order'
  <2>1. SUFFICES ASSUME NEW i \in 1 .. n - 1, Line'[i].kind = "Connected"
                 PROVE  Up(Line[i].gen)' \/ EndedAfter(i)'
    BY <1>1 DEF Order
  <2>2. i + 1 \in 1 .. n /\ Line'[i] = Line[i + 1]
    BY <1>1
  <2>3. Up(Line[i + 1].gen) \/ EndedAfter(i + 1)
    BY <2>1, <2>2 DEF GhostInv, Order, n
  <2>4. Up(Line[i + 1].gen) => Up(Line[i].gen)'
    BY <2>2 DEF Up
  <2> QED
    BY <2>3, <2>4, <1>3
<1>6. NoGhostLine'
  <2>1. CASE Head(Line).kind = "Connected"
    <3>1. 1 \in 1 .. n /\ Line[1].kind = "Connected"
      BY <2>1, <1>1
    <3>2. Up(Line[1].gen) \/ EndedAfter(1)
      BY <3>1 DEF GhostInv, Order, n
    <3>3. Up(Line[1].gen) => Line[1].gen \in Attempts /\ \E g \in Attempts : Up(g)'
      BY DEF Up
    <3> QED
      BY <3>2, <3>3, <1>4 DEF NoGhostLine
  <2>2. CASE link'.connected = FALSE
    BY <2>2 DEF NoGhostLine
  <2>3. CASE link'.connected = link.connected /\ Head(Line).kind # "Disconnected"
    <3>1. EndHeard => EndHeard'
      <4>1. SUFFICES ASSUME EndHeard PROVE EndHeard'
        OBVIOUS
      <4>2. PICK j \in 1 .. n : Line[j].kind = "Disconnected"
        BY <4>1 DEF EndHeard, n
      <4>3. j > 1
        BY <4>2, <2>3, <1>1
      <4> QED
        BY <4>2, <4>3, <1>4 DEF EndedAfter, n
    <3>2. (\E g \in Attempts : Up(g)) => (\E g \in Attempts : Up(g))'
      BY DEF Up
    <3> QED
      BY <2>3, <3>1, <3>2 DEF GhostInv, NoGhostLine
  <2> QED
    BY <2>1, <2>2, <2>3
<1> QED
  BY <1>5, <1>6 DEF GhostInv

LEMMA GhostStep ==
  ASSUME ~SendsDuringReload, GhostInv, DialInv', Shape
  PROVE  GhostInv'
<1>0. DialInv /\ Quiet
  BY DEF GhostInv
<1>1. CASE QuietStep
  <2>1. Quiet' /\ Line' = Line /\ socket' = socket /\ link'.connected = link.connected
    BY <1>0, <1>1 DEF QuietStep, SameDial, Quiet, Line
  <2> QED
    BY <2>1, GhostKept
<1>2. CASE OtherSend
  <2>1. PICK m \in Messages : FromOther(m) /\ mail' = Append(mail, m)
    BY <1>2 DEF OtherSend
  <2>2. ~reloading /\ ~reloading' /\ socket' = socket /\ link'.connected = link.connected
    BY <1>2 DEF OtherSend, CanSend, SameDial
  <2>3. Quiet' /\ Line' = Append(Line, m)
    BY <2>1, <2>2 DEF Quiet, Line
  <2>4. \A g : Up(g) => Up(g)'
    BY <2>2 DEF Up
  <2>5. m.kind # "Connected"
    BY <2>1 DEF DaemonKinds, FromOther
  <2> QED
    BY <2>2, <2>3, <2>4, <2>5, GhostSent
<1>3. ASSUME NEW g \in Attempts, TaskStep(g) PROVE GhostInv'
  <2>1. PICK from \in {"dialing", "up"}, k \in EndingKinds \cup {"Disconnected"},
             to \in {"up", "ended"} :
          /\ Moves(g, from, k, to)
          /\ from = "up" => k = "Disconnected"
          /\ k = "Connected" => to = "up"
    BY <1>3 DEF TaskStep, EndingKinds
  <2>2. g \in 1 .. MaxAttempts /\ g \in 0 .. MaxAttempts
    BY ConnectionAssumption DEF Attempts
  <2> DEFINE m == Msg(k, g)
  <2>3. m \in Messages /\ m.kind = k /\ m.gen = g
    BY <2>2, MessagesTyped DEF MessageKinds
  <2>4. ~reloading /\ ~reloading' /\ link'.connected = link.connected
    BY <2>1 DEF Moves, CanSend
  <2>5. Quiet' /\ Line' = Append(Line, m)
    BY <2>1, <2>4 DEF Quiet, Line, Moves
  <2>6. m.kind = "Connected" => Up(m.gen)'
    BY <1>0, <2>1, <2>3 DEF Moves, Up, DialInv, Typed
  <2>7. (\A h : Up(h) => Up(h)') \/ m.kind = "Disconnected"
    <3>1. CASE from = "up"
      BY <3>1, <2>1, <2>3
    <3>2. CASE from # "up"
      <4>1. ASSUME NEW h, Up(h) PROVE Up(h)'
        BY <1>0, <3>2, <4>1, <2>1 DEF Moves, Up, DialInv, Typed
      <4> QED
        BY <4>1
    <3> QED
      BY <3>1, <3>2
  <2> HIDE DEF m
  <2> QED
    BY <2>3, <2>4, <2>5, <2>6, <2>7, GhostSent
<1>4. CASE Handled /\ (Begins \/ Ignores \/ Learns)
  <2>1. Quiet' /\ Line = mail /\ Line # <<>> /\ Line' = Tail(Line)
    BY <1>4 DEF Handled, Quiet, Line
  <2>2. ASSUME NEW g, Up(g) PROVE Up(g)'
    <3>1. CASE Begins
      <4>1. link.gen + 1 \in Attempts /\ link.gen + 1 > link.gen
        BY <3>1, <1>0, ConnectionAssumption DEF Begins, DialInv, Typed, Link, Attempts
      <4>2. socket[link.gen + 1] = "none"
        BY <4>1, <1>0 DEF DialInv, LastAttempt
      <4> QED
        BY <2>2, <3>1, <4>2, <1>0 DEF Begins, Up, DialInv, Typed
    <3>2. CASE Ignores \/ Learns
      BY <2>2, <3>2 DEF Ignores, Learns, Up
    <3> QED
      BY <1>4, <3>1, <3>2
  <2>3. \/ link'.connected = FALSE
        \/ link'.connected = link.connected /\ Head(Line).kind # "Disconnected"
        \/ Head(Line).kind = "Connected"
    <3>1. CASE Begins
      BY <3>1, <2>1 DEF Begins
    <3>2. CASE Ignores
      BY <3>2, <2>1 DEF Ignores, SameDial
    <3>3. CASE Learns
      <4>1. link'.connected \in BOOLEAN
        BY <1>4 DEF Handled, Link
      <4> QED
        BY <3>3, <4>1, <2>1 DEF Learns, EndingKinds
    <3> QED
      BY <1>4, <3>1, <3>2, <3>3
  <2> QED
    BY <2>1, <2>2, <2>3, GhostHandled
<1>5. CASE Drained
  <2>1. Quiet' /\ Line' = Line /\ socket' = socket /\ link' = link
    BY <1>5 DEF Drained, Quiet, Line
  <2> QED
    BY <2>1, GhostKept
<1>6. CASE Requeued
  <2>1. mail = <<>> /\ Quiet' /\ socket' = socket /\ link' = link
    BY <1>0, <1>6 DEF Requeued, Quiet
  <2>2. Line = heldMail /\ Line' = <<>> \o heldMail
    BY <2>1, <1>6 DEF Requeued, Line
  <2>3. Line' = Line
    BY <2>2, <1>0, ConcatEmptySeq DEF DialInv, Typed
  <2> QED
    BY <2>1, <2>3, GhostKept
<1> QED
  BY <1>1, <1>2, <1>3, <1>4, <1>5, <1>6 DEF Shape

LEMMA GhostInvHolds == ~SendsDuringReload => (ConnSpec => []GhostInv)
<1> SUFFICES ASSUME ~SendsDuringReload PROVE ConnSpec => []GhostInv
  OBVIOUS
<1>1. ConnInit => GhostInv
  BY GhostInit
<1>2. GhostInv /\ [ConnNext]_connVars => GhostInv'
  <2> SUFFICES ASSUME GhostInv, [ConnNext]_connVars PROVE GhostInv'
    OBVIOUS
  <2>1. DialInv /\ Shape
    BY StepShape DEF GhostInv, DialInv
  <2>2. DialInv'
    BY <2>1, DialStep
  <2> QED
    BY <2>1, <2>2, GhostStep
<1> QED
  BY <1>1, <1>2, PTL DEF ConnSpec

\* A session that says it is connected has a socket that is up, or a
\* Disconnected on the way to it, if nobody sends during a reload.
THEOREM NoGhost == ~SendsDuringReload => (ConnSpec => []NoGhostConnection)
<1> SUFFICES ASSUME ~SendsDuringReload PROVE ConnSpec => []NoGhostConnection
  OBVIOUS
<1>1. GhostInv => NoGhostConnection
  <2> SUFFICES ASSUME GhostInv, link.connected PROVE NoGhostConnection
    BY DEF NoGhostConnection
  <2>1. CASE \E g \in Attempts : Up(g)
    <3>1. PICK g \in Attempts : Up(g)
      BY <2>1
    <3>2. Takes(g)
      BY <3>1 DEF Takes, Up, Attempts
    <3> QED
      BY <3>2 DEF NoGhostConnection
  <2>2. CASE EndHeard
    <3>1. PICK j \in 1 .. Len(Line) : Line[j].kind = "Disconnected"
      BY <2>2 DEF EndHeard
    <3>2. DOMAIN Line = 1 .. Len(Line)
      BY LineTyped, LenProperties DEF GhostInv
    <3>3. Line[j] \in Underway
      BY <3>2 DEF Line, Underway, Range
    <3> QED
      BY <3>1, <3>3 DEF NoGhostConnection
  <2> QED
    BY <2>1, <2>2 DEF GhostInv, NoGhostLine
<1> QED
  BY <1>1, GhostInvHolds, PTL

-----------------------------------------------------------------------------
\* What a send does to the pace of redials and to the login.

PacedInv == selfDials \in {0, 1} /\ (selfDials = 1 => link.spent)

LEMMA WritePaced ==
  ASSUME NEW l \in Link, NEW d \in {0, 1}, d = 1 => l.spent
  PROVE  /\ Write(l, d).dials \in {0, 1}
         /\ Write(l, d).dials = 1 => Write(l, d).after.spent
<1> DEFINE fails == l.gen > 0 /\ ~Takes(l.gen)
           asks == /\ ~l.waiting /\ l.intent /\ ~l.spent /\ l.dial = 0
           joins == l.waiting \/ (l.intent /\ ~l.spent)
<1>1. CASE ~fails
  <2>1. Write(l, d) = [after |-> [l EXCEPT !.spent = FALSE], asks |-> FALSE, dials |-> 0]
    BY <1>1 DEF Write
  <2> QED
    BY <2>1 DEF Link
<1>2. CASE fails /\ asks
  <2>1. Write(l, d) = [after |-> [l EXCEPT !.spent = TRUE, !.waiting = TRUE],
                       asks |-> TRUE, dials |-> d + 1]
    BY <1>2 DEF Write
  <2>2. d = 0
    BY <1>2
  <2>3. Write(l, d).dials = 1
    BY <2>1, <2>2
  <2>4. Write(l, d).after = [l EXCEPT !.spent = TRUE, !.waiting = TRUE]
    BY <2>1
  <2>5. Write(l, d).after.spent
    BY <2>4 DEF Link
  <2> QED
    BY <2>3, <2>5
<1>3. CASE fails /\ ~asks
  <2>1. Write(l, d) = [after |-> [l EXCEPT !.waiting = joins], asks |-> FALSE, dials |-> d]
    BY <1>3 DEF Write
  <2> QED
    BY <2>1 DEF Link
<1> QED
  BY <1>1, <1>2, <1>3

LEMMA WriteLeaves ==
  ASSUME NEW l \in Link, NEW d
  PROVE  /\ Write(l, d).after.login = l.login
         /\ Write(l, d).after.intent = l.intent
<1> DEFINE joins == l.waiting \/ (l.intent /\ ~l.spent)
<1>1. Write(l, d).after \in {[l EXCEPT !.spent = FALSE],
                             [l EXCEPT !.spent = TRUE, !.waiting = TRUE],
                             [l EXCEPT !.waiting = joins]}
  BY DEF Write
<1> QED
  BY <1>1 DEF Link

LEMMA PacedStep ==
  ASSUME Typed, PacedInv, [ConnNext]_connVars
  PROVE  PacedInv'
<1> USE DEF PacedInv
<1>1. CASE UNCHANGED <<link, selfDials>>
  BY <1>1
<1>2. CASE HandlePacket
  <2>1. CASE OfLive /\ link.login
    <3> DEFINE l == [link EXCEPT !.login = FALSE]
    <3>1. l \in Link /\ l.spent = link.spent
      BY DEF Typed, Link
    <3>2. link' = Write(l, selfDials).after /\ selfDials' = Write(l, selfDials).dials
      BY <1>2, <2>1 DEF HandlePacket, Wrote
    <3> HIDE DEF l
    <3> QED
      BY <3>1, <3>2, WritePaced
  <2>2. CASE ~(OfLive /\ link.login)
    BY <1>2, <2>2 DEF HandlePacket
  <2> QED
    BY <2>1, <2>2
<1>3. CASE TypedLine
  <2> DEFINE l == [link EXCEPT !.spent = FALSE]
  <2>1. l \in Link
    BY DEF Typed, Link
  <2>2. link' = Write(l, 0).after /\ selfDials' = Write(l, 0).dials
    BY <1>3 DEF TypedLine, Wrote
  <2> HIDE DEF l
  <2> QED
    BY <2>1, <2>2, WritePaced
<1>4. CASE ScriptSend
  <2>1. link' = Write(link, selfDials).after /\ selfDials' = Write(link, selfDials).dials
    BY <1>4 DEF ScriptSend, Wrote
  <2> QED
    BY <2>1, WritePaced DEF Typed
<1>5. CASE HandleConnect \/ HandleDisconnect \/ HandleDeclined \/ HandleConnected
           \/ HandleDisconnected \/ HandleAttemptEnded
  <2>1. UNCHANGED selfDials
    BY <1>5 DEF HandleConnect, HandleDisconnect, HandleDeclined, HandleConnected,
         HandleDisconnected, HandleAttemptEnded
  <2>2. link'.spent = link.spent
    BY <1>5 DEF HandleConnect, HandleDisconnect, HandleDeclined, HandleConnected,
         HandleDisconnected, HandleAttemptEnded, Settled, Typed, Link
  <2> QED
    BY <2>1, <2>2
<1>6. CASE SendBack \/ Drain \/ Daemon \/ Click \/ AcceptTls \/ ScriptConnect
           \/ ScriptDisconnect \/ UNCHANGED connVars
  <2> USE DEF sessionVars
  <2>1. CASE SendBack \/ Drain \/ ScriptConnect \/ ScriptDisconnect
    BY <2>1 DEF SendBack, Drain, ScriptConnect, ScriptDisconnect
  <2>2. CASE Daemon \/ Click \/ AcceptTls
    BY <2>2 DEF Daemon, TakeEvent, TakeMessage, Click, AcceptTls
  <2>3. CASE UNCHANGED connVars
    BY <2>3 DEF connVars
  <2> QED
    BY <1>6, <2>1, <2>2, <2>3
<1>7. ASSUME NEW g \in Attempts, SocketTask(g) PROVE PacedInv'
  BY <1>7 DEF SocketTask, sessionVars
<1> QED
  BY <1>2, <1>3, <1>4, <1>5, <1>6, <1>7 DEF ConnNext, SessionThread, HandleAction

\* However attempts fail, replace each other or come up, the client redials at
\* most once until a line is typed or a send succeeds.
THEOREM RedialsPaced == ConnSpec => []RedialPaced
<1>1. ConnInit => PacedInv
  BY DEF ConnInit, PacedInv
<1>2. DialInv /\ PacedInv /\ [ConnNext]_connVars => PacedInv'
  BY PacedStep DEF DialInv
<1>3. PacedInv => RedialPaced
  BY DEF PacedInv, RedialPaced
<1> QED
  BY <1>1, <1>2, <1>3, DialInvHolds, PTL DEF ConnSpec

-----------------------------------------------------------------------------
\* Who has been given a login line.

\* An inbox that speaks of a server's text has it from a server that sent some.
HeardFrom ==
  \A m \in Underway : m.kind = "IncomingPacketProcessed" => m.gen \in greeted

\* A connection that has its login waits for none.
OneLogin ==
  /\ logins \in [Attempts -> {0, 1}]
  /\ \A g \in Attempts : logins[g] = 1 =>
       /\ g \in greeted
       /\ g <= link.gen
       /\ ~(link.login /\ link.gen = g)

LoginInv == DialInv /\ HeardFrom /\ OneLogin

LEMMA GreetedGrows ==
  ASSUME [ConnNext]_connVars
  PROVE  greeted \subseteq greeted'
<1>1. CASE HandleAction
  BY <1>1 DEF HandleAction, HandleConnect, HandleDisconnect, HandleDeclined, HandleConnected,
       HandleDisconnected, HandleAttemptEnded, HandlePacket, socketVars
<1>2. ASSUME NEW g \in Attempts, SocketTask(g) PROVE greeted \subseteq greeted'
  BY <1>2 DEF SocketTask, BecomesUp, FailsToConnect, Abandons, Receives, TearsDown
<1>3. CASE SendBack \/ Drain \/ TypedLine \/ ScriptSend \/ ScriptConnect \/ ScriptDisconnect
  BY <1>3 DEF SendBack, Drain, TypedLine, ScriptSend, ScriptConnect, ScriptDisconnect, socketVars
<1>4. CASE Daemon \/ Click \/ AcceptTls
  BY <1>4 DEF Daemon, TakeEvent, TakeMessage, Click, AcceptTls, socketVars
<1>5. CASE UNCHANGED connVars
  BY <1>5 DEF connVars, socketVars
<1> QED
  BY <1>1, <1>2, <1>3, <1>4, <1>5 DEF ConnNext, SessionThread

LEMMA HeardFromStep ==
  ASSUME DialInv, HeardFrom, Shape, greeted \subseteq greeted'
  PROVE  HeardFrom'
<1> USE DEF DialInv
<1>1. CASE \A m \in Underway' : m \in Underway \/ m.kind # "IncomingPacketProcessed"
                                 \/ m.gen \in greeted'
  BY <1>1 DEF HeardFrom
<1>2. CASE QuietStep
  <2>1. Underway' = Underway
    BY <1>2 DEF QuietStep, Underway
  <2> QED
    BY <2>1, <1>1
<1>3. CASE OtherSend
  <2>1. PICK m \in Messages : FromOther(m) /\ mail' = Append(mail, m)
    BY <1>3 DEF OtherSend
  <2>2. Range(mail') = Range(mail) \cup {m}
    BY <2>1, RangeOfAppend DEF Typed
  <2>3. Underway' = Underway \cup {m}
    BY <1>3, <2>2 DEF OtherSend, Underway
  <2>4. m.kind # "IncomingPacketProcessed" \/ m.gen \in greeted'
    BY <2>1 DEF FromOther, DaemonKinds
  <2> QED
    BY <2>3, <2>4, <1>1
<1>4. ASSUME NEW g \in Attempts, TaskStep(g) PROVE HeardFrom'
  <2>1. PICK k \in EndingKinds \cup {"Disconnected"} :
          mail' = Append(mail, Msg(k, g)) /\ heldMail' = heldMail
    BY <1>4 DEF TaskStep, Moves, EndingKinds
  <2>2. g \in 0 .. MaxAttempts
    BY ConnectionAssumption DEF Attempts
  <2>3. Msg(k, g) \in Messages /\ Msg(k, g).kind = k
    BY <2>2, MessagesTyped DEF MessageKinds
  <2>4. Range(mail') = Range(mail) \cup {Msg(k, g)}
    BY <2>1, <2>3, RangeOfAppend DEF Typed
  <2>5. Underway' = Underway \cup {Msg(k, g)}
    BY <2>1, <2>4 DEF Underway
  <2>6. Msg(k, g).kind # "IncomingPacketProcessed"
    BY <2>3 DEF EndingKinds
  <2> QED
    BY <2>5, <2>6, <1>1
<1>5. CASE Handled
  <2>1. Range(mail) = {Head(mail)} \cup Range(mail')
    BY <1>5, RangeOfTail DEF Handled, Typed
  <2>2. Underway' \subseteq Underway
    BY <1>5, <2>1 DEF Underway, Handled
  <2> QED
    BY <2>2, <1>1
<1>6. CASE Drained
  <2>1. Range(mail') = {}
    BY <1>6 DEF Drained, Range
  <2>2. Underway' \subseteq Underway
    BY <1>6, <2>1 DEF Underway, Drained
  <2> QED
    BY <2>2, <1>1
<1>7. CASE Requeued
  <2>1. Range(mail') = Range(mail) \cup Range(heldMail)
    BY <1>7, RangeOfConcat DEF Requeued, Typed
  <2>2. Range(heldMail') = {}
    BY <1>7 DEF Requeued, Range
  <2>3. Underway' \subseteq Underway
    BY <2>1, <2>2 DEF Underway
  <2> QED
    BY <2>3, <1>1
<1> QED
  BY <1>2, <1>3, <1>4, <1>5, <1>6, <1>7 DEF Shape

\* A step that gives no login and waits for none anew keeps the count.
LEMMA LoginKept ==
  ASSUME OneLogin, logins' = logins, greeted \subseteq greeted',
         link'.gen = link.gen, link'.login => link.login
  PROVE  OneLogin'
BY DEF OneLogin

LEMMA OneLoginStep ==
  ASSUME LoginInv, [ConnNext]_connVars, greeted \subseteq greeted'
  PROVE  OneLogin'
<1>0. Typed /\ OneLogin
  BY DEF LoginInv, DialInv
<1>1. CASE UNCHANGED <<link, logins>>
  BY <1>0, <1>1, LoginKept
<1>2. CASE HandlePacket
  <2>1. CASE OfLive /\ link.login
    <3> DEFINE l == [link EXCEPT !.login = FALSE]
    <3>1. l \in Link /\ l.gen = link.gen /\ ~l.login
      BY <1>0 DEF Typed, Link
    <3>2. link' = Write(l, selfDials).after
      BY <1>2, <2>1 DEF HandlePacket, Wrote
    <3>3. link'.gen = link.gen
      <4> HIDE DEF l
      <4> QED
        BY <3>1, <3>2, WriteKeeps
    <3>4. ~link'.login
      <4> HIDE DEF l
      <4> QED
        BY <3>1, <3>2, WriteLeaves
    <3>5. CASE ~Takes(link.gen)
      <4>1. logins' = logins
        BY <1>2, <2>1, <3>5 DEF HandlePacket
      <4> QED
        BY <1>0, <3>3, <3>4, <4>1, LoginKept
    <3>6. CASE Takes(link.gen)
      <4> DEFINE g == link.gen
      <4>1. g \in Attempts
        BY <1>0, <3>6, ConnectionAssumption DEF Takes, Typed, Link, Attempts
      <4>2. Head(mail) \in Underway /\ Head(mail).kind = "IncomingPacketProcessed"
        BY <1>0, <1>2, RangeOfTail DEF HandlePacket, Hears, Typed, Underway
      <4>3. g \in greeted
        BY <2>1, <4>2 DEF LoginInv, HeardFrom, OfLive
      <4>4. logins[g] = 0
        BY <1>0, <2>1, <4>1 DEF OneLogin
      <4>5. logins' = [logins EXCEPT ![g] = 1]
        <5>1. logins' = [logins EXCEPT ![g] = logins[g] + 1]
          BY <1>2, <2>1, <3>6 DEF HandlePacket
        <5> QED
          BY <5>1, <4>4
      <4>6. logins' \in [Attempts -> {0, 1}]
        BY <1>0, <4>5 DEF OneLogin
      <4>7. ASSUME NEW h \in Attempts, logins'[h] = 1
            PROVE  h \in greeted' /\ h <= link'.gen
        <5>1. CASE h = g
          BY <5>1, <4>1, <4>3, <3>3, ConnectionAssumption DEF Attempts
        <5>2. CASE h # g
          <6>1. logins[h] = 1
            BY <4>5, <4>7, <5>2, <1>0 DEF OneLogin
          <6> QED
            BY <6>1, <1>0, <3>3 DEF OneLogin
        <5> QED
          BY <5>1, <5>2
      <4> QED
        BY <4>6, <4>7, <3>4 DEF OneLogin
    <3> QED
      BY <3>5, <3>6
  <2>2. CASE ~(OfLive /\ link.login)
    BY <1>2, <2>2, <1>1 DEF HandlePacket
  <2> QED
    BY <2>1, <2>2
<1>3. CASE HandleConnect
  <2>1. link'.gen = link.gen + 1 /\ link.gen \in Nat /\ logins' = logins
    BY <1>0, <1>3, ConnectionAssumption DEF HandleConnect, Typed, Link
  <2>2. ASSUME NEW g \in Attempts, logins[g] = 1
        PROVE  g \in greeted' /\ g <= link.gen
    BY <1>0, <2>2 DEF OneLogin
  <2>3. \A g \in Attempts : g <= link.gen => g <= link.gen + 1 /\ g # link.gen + 1
    BY <2>1, ConnectionAssumption DEF Attempts
  <2> QED
    BY <1>0, <2>1, <2>2, <2>3 DEF OneLogin
<1>4. CASE HandleDisconnect \/ HandleDeclined \/ HandleConnected
           \/ HandleDisconnected \/ HandleAttemptEnded
  <2>1. logins' = logins
    BY <1>4 DEF HandleDisconnect, HandleDeclined, HandleConnected,
         HandleDisconnected, HandleAttemptEnded
  <2>2. link'.gen = link.gen /\ (link'.login => link.login)
    <3>1. CASE HandleDisconnect \/ HandleDeclined
      BY <1>0, <3>1 DEF HandleDisconnect, HandleDeclined, Settled, Typed, Link
    <3>2. CASE HandleConnected
      BY <1>0, <3>2 DEF HandleConnected, Settled, Typed, Link
    <3>3. CASE HandleDisconnected
      BY <1>0, <3>3 DEF HandleDisconnected, Typed, Link
    <3>4. CASE HandleAttemptEnded
      BY <1>0, <3>4 DEF HandleAttemptEnded, Settled, Typed, Link
    <3> QED
      BY <1>4, <3>1, <3>2, <3>3, <3>4
  <2> QED
    BY <1>0, <2>1, <2>2, LoginKept
<1>5. CASE TypedLine \/ ScriptSend
  <2>1. PICK l \in {link, [link EXCEPT !.spent = FALSE]}, d \in {0, selfDials} : Wrote(Write(l, d))
    BY <1>5 DEF TypedLine, ScriptSend
  <2>2. l \in Link /\ l.gen = link.gen /\ l.login = link.login
    BY <1>0 DEF Typed, Link
  <2>3. link' = Write(l, d).after
    BY <2>1 DEF Wrote
  <2>4. link'.gen = link.gen /\ link'.login = link.login
    BY <2>2, <2>3, WriteKeeps, WriteLeaves
  <2>5. logins' = logins
    BY <1>5 DEF TypedLine, ScriptSend
  <2> QED
    BY <1>0, <2>4, <2>5, LoginKept
<1>6. CASE SendBack \/ Drain \/ Daemon \/ Click \/ AcceptTls \/ ScriptConnect
           \/ ScriptDisconnect \/ UNCHANGED connVars
  <2> USE DEF sessionVars
  <2>1. CASE SendBack \/ Drain \/ ScriptConnect \/ ScriptDisconnect
    BY <1>1, <2>1 DEF SendBack, Drain, ScriptConnect, ScriptDisconnect
  <2>2. CASE Daemon \/ Click \/ AcceptTls
    BY <1>1, <2>2 DEF Daemon, TakeEvent, TakeMessage, Click, AcceptTls
  <2>3. CASE UNCHANGED connVars
    BY <1>1, <2>3 DEF connVars
  <2> QED
    BY <1>6, <2>1, <2>2, <2>3
<1>7. ASSUME NEW g \in Attempts, SocketTask(g) PROVE OneLogin'
  BY <1>1, <1>7 DEF SocketTask, sessionVars
<1> QED
  BY <1>2, <1>3, <1>4, <1>5, <1>6, <1>7 DEF ConnNext, SessionThread, HandleAction

\* The login line goes at most once to each connection, and only after its own
\* server has sent text, whichever attempt it was read for and whatever markers
\* of replaced ones arrive late.
THEOREM LoginsOwn == ConnSpec => []LoginOwn
<1>1. ConnInit => LoginInv
  <2> SUFFICES ASSUME ConnInit PROVE LoginInv
    OBVIOUS
  <2>1. Underway = {}
    BY DEF ConnInit, Underway, Range
  <2>2. HeardFrom
    BY <2>1 DEF HeardFrom
  <2>3. OneLogin
    BY DEF ConnInit, OneLogin
  <2> QED
    BY <2>2, <2>3, DialInit DEF LoginInv
<1>2. LoginInv /\ [ConnNext]_connVars => LoginInv'
  <2> SUFFICES ASSUME LoginInv, [ConnNext]_connVars PROVE LoginInv'
    OBVIOUS
  <2>1. Shape
    BY StepShape DEF LoginInv, DialInv
  <2> QED
    BY <2>1, DialStep, GreetedGrows, HeardFromStep, OneLoginStep DEF LoginInv
<1>3. LoginInv => LoginOwn
  <2> SUFFICES ASSUME LoginInv, NEW g \in Attempts
               PROVE  logins[g] <= 1 /\ (logins[g] = 1 => g \in greeted)
    BY DEF LoginOwn
  <2>1. logins[g] \in {0, 1}
    BY DEF LoginInv, OneLogin
  <2> QED
    BY <2>1 DEF LoginInv, OneLogin
<1> QED
  BY <1>1, <1>2, <1>3, PTL DEF ConnSpec

-----------------------------------------------------------------------------
\* What the session will believe of the intent to be online.

\* The last word of the daemon on its way, or what the session holds when none
\* is, allows a dial only if the daemon intends to be online.
LastWord ==
  /\ (\A i \in 1 .. Len(Line) : Line[i].kind \notin DaemonKinds) /\ link.intent =>
       daemon.auto
  /\ \A i \in 1 .. Len(Line) :
       /\ Line[i].kind = "Connect"
       /\ \A j \in 1 .. Len(Line) : j > i => Line[j].kind \notin DaemonKinds
       => daemon.auto

DaemonTyped == daemon \in [auto : BOOLEAN, shows : BOOLEAN]

IntentInv == DaemonTyped /\ LastWord

LEMMA WordKept ==
  ASSUME LastWord, Line' = Line, link'.intent = link.intent, daemon'.auto = daemon.auto
  PROVE  LastWord'
BY DEF LastWord

\* A message that is not the daemon's changes no word.
LEMMA WordPassed ==
  ASSUME DialInv, LastWord, NEW m \in Messages, Line' = Append(Line, m),
         m.kind \notin DaemonKinds, link'.intent = link.intent,
         daemon'.auto = daemon.auto
  PROVE  LastWord'
<1> DEFINE n == Len(Line)
<1>1. /\ n \in Nat /\ Len(Line') = n + 1 /\ Line'[n + 1] = m
      /\ \A i \in 1 .. n : Line'[i] = Line[i]
  BY LineTyped, AppendProperties, LenProperties
<1> HIDE DEF n
<1>2. ASSUME \A i \in 1 .. n + 1 : Line'[i].kind \notin DaemonKinds, link.intent
      PROVE  daemon.auto
  <2>1. \A i \in 1 .. n : Line[i].kind \notin DaemonKinds
    BY <1>1, <1>2
  <2> QED
    BY <2>1, <1>2 DEF LastWord, n
<1>3. ASSUME NEW i \in 1 .. n + 1, Line'[i].kind = "Connect",
             \A j \in 1 .. n + 1 : j > i => Line'[j].kind \notin DaemonKinds
      PROVE  daemon.auto
  <2>1. i \in 1 .. n /\ Line[i].kind = "Connect"
    BY <1>1, <1>3 DEF DaemonKinds
  <2>2. \A j \in 1 .. n : j > i => Line[j].kind \notin DaemonKinds
    BY <1>1, <1>3, <2>1
  <2> QED
    BY <2>1, <2>2 DEF LastWord, n
<1> QED
  BY <1>1, <1>2, <1>3 DEF LastWord

\* A message of the daemon is the last word.
LEMMA WordGiven ==
  ASSUME DialInv, NEW m \in Messages, Line' = Append(Line, m),
         m.kind \in DaemonKinds, m.kind = "Connect" => daemon'.auto
  PROVE  LastWord'
<1> DEFINE n == Len(Line)
<1>1. n \in Nat /\ Len(Line') = n + 1 /\ Line'[n + 1] = m
  BY LineTyped, AppendProperties, LenProperties
<1> HIDE DEF n
<1>2. n + 1 \in 1 .. n + 1
  BY <1>1
<1>3. ASSUME NEW i \in 1 .. n + 1, Line'[i].kind = "Connect",
             \A j \in 1 .. n + 1 : j > i => Line'[j].kind \notin DaemonKinds
      PROVE  daemon'.auto
  <2>1. i = n + 1
    BY <1>1, <1>2, <1>3
  <2> QED
    BY <2>1, <1>1, <1>3
<1> QED
  BY <1>1, <1>2, <1>3 DEF LastWord

\* The session's thread obeys the word it hears, and no other message.
LEMMA WordHeard ==
  ASSUME DialInv, LastWord, Line # <<>>, Line' = Tail(Line), daemon'.auto = daemon.auto,
         Head(Line).kind \notin DaemonKinds => link'.intent = link.intent,
         Head(Line).kind \in DaemonKinds /\ link'.intent => Head(Line).kind = "Connect"
  PROVE  LastWord'
<1> DEFINE n == Len(Line)
<1>1. /\ n \in Nat /\ n > 0 /\ Len(Line') = n - 1 /\ Head(Line) = Line[1]
      /\ \A i \in 1 .. n - 1 : Line'[i] = Line[i + 1]
  BY LineTyped, HeadTailProperties, EmptySeq, LenProperties
<1> HIDE DEF n
<1>2. ASSUME NEW j \in 1 .. n, j > 1 PROVE j - 1 \in 1 .. n - 1 /\ Line'[j - 1] = Line[j]
  <2>1. j - 1 \in 1 .. n - 1
    BY <1>1, <1>2
  <2> QED
    BY <2>1, <1>1
<1>3. ASSUME \A i \in 1 .. n - 1 : Line'[i].kind \notin DaemonKinds, link'.intent
      PROVE  daemon.auto
  <2>1. \A j \in 1 .. n : j > 1 => Line[j].kind \notin DaemonKinds
    BY <1>2, <1>3
  <2>2. 1 \in 1 .. n
    BY <1>1
  <2>3. CASE Head(Line).kind \in DaemonKinds
    BY <1>1, <1>3, <2>1, <2>2, <2>3 DEF LastWord, n
  <2>4. CASE Head(Line).kind \notin DaemonKinds
    <3>1. \A j \in 1 .. n : Line[j].kind \notin DaemonKinds
      BY <1>1, <2>1, <2>4
    <3> QED
      BY <1>3, <2>4, <3>1 DEF LastWord, n
  <2> QED
    BY <2>3, <2>4
<1>4. ASSUME NEW i \in 1 .. n - 1, Line'[i].kind = "Connect",
             \A j \in 1 .. n - 1 : j > i => Line'[j].kind \notin DaemonKinds
      PROVE  daemon.auto
  <2>1. i + 1 \in 1 .. n /\ Line[i + 1].kind = "Connect"
    BY <1>1, <1>4
  <2>2. ASSUME NEW j \in 1 .. n, j > i + 1 PROVE Line[j].kind \notin DaemonKinds
    <3>1. j > 1 /\ j - 1 > i
      BY <1>1, <2>2
    <3> QED
      BY <3>1, <1>2, <1>4
  <2> QED
    BY <2>1, <2>2 DEF LastWord, n
<1> QED
  BY <1>1, <1>3, <1>4 DEF LastWord

LEMMA DaemonSays ==
  ASSUME GhostInv, ~SendsDuringReload, NEW k \in DaemonKinds, Says(k),
         k = "Connect" => daemon'.auto, UNCHANGED <<heldMail, reloading>>
  PROVE  LastWord'
<1>1. Msg(k, 0) \in Messages /\ Msg(k, 0).kind = k
  BY MessagesTyped, ConnectionAssumption DEF MessageKinds
<1>2. ~reloading /\ mail' = Append(mail, Msg(k, 0))
  BY DEF Says, CanSend, ToSession
<1>3. Line' = Append(Line, Msg(k, 0))
  BY <1>2 DEF Line
<1> QED
  BY <1>1, <1>3, WordGiven DEF GhostInv

LEMMA DaemonIntent ==
  ASSUME GhostInv, IntentInv, ~SendsDuringReload, Daemon \/ Click \/ AcceptTls
  PROVE  IntentInv'
<1>0. UNCHANGED <<link, heldMail, reloading>>
  BY DEF Daemon, TakeEvent, TakeMessage, Click, AcceptTls, sessionVars
<1>1. ASSUME Quietly, daemon'.auto = daemon.auto PROVE LastWord'
  <2>1. Line' = Line
    BY <1>0, <1>1 DEF Quietly, Line
  <2> QED
    BY <1>0, <1>1, <2>1, WordKept DEF IntentInv
<1>2. CASE TakeEvent
  <2>1. DaemonTyped' /\ daemon'.auto = daemon.auto
    BY <1>2 DEF TakeEvent, Reacts, IntentInv, DaemonTyped
  <2>2. Quietly \/ Says("ConnectDeclined")
    <3> DEFINE e == Head(uiMail)
    <3>1. Reacts(e)
      BY <1>2 DEF TakeEvent
    <3> QED
      BY <3>1 DEF Reacts
  <2> QED
    BY <1>0, <1>1, <2>1, <2>2, DaemonSays DEF DaemonKinds, IntentInv
<1>3. CASE AcceptTls
  <2>1. daemon' = daemon /\ Says("Disconnect")
    BY <1>3 DEF AcceptTls
  <2> QED
    BY <1>0, <2>1, DaemonSays DEF DaemonKinds, IntentInv, DaemonTyped
<1>4. ASSUME NEW spent, Reconnects(spent) PROVE IntentInv'
  <2>1. DaemonTyped' /\ daemon'.auto
    BY <1>4 DEF Reconnects, IntentInv, DaemonTyped
  <2>2. Says("Connect") \/ Says("ConnectDeclined")
    BY <1>4 DEF Reconnects
  <2> QED
    BY <1>0, <2>1, <2>2, DaemonSays DEF DaemonKinds, IntentInv
<1>5. ASSUME NEW spent, Disconnects(spent) PROVE IntentInv'
  <2>1. DaemonTyped' /\ Says("Disconnect")
    BY <1>5 DEF Disconnects, IntentInv, DaemonTyped
  <2> QED
    BY <1>0, <2>1, DaemonSays DEF DaemonKinds, IntentInv
<1>6. CASE TakeMessage
  BY <1>4, <1>5, <1>6 DEF TakeMessage
<1>7. CASE Click
  BY <1>4, <1>5, <1>7 DEF Click
<1> QED
  BY <1>2, <1>3, <1>6, <1>7 DEF Daemon

LEMMA HandlerIntent ==
  ASSUME GhostInv, IntentInv, HandleAction
  PROVE  IntentInv'
<1>0. Typed /\ DialInv
  BY DEF GhostInv, DialInv
<1>1. ~reloading /\ mail # <<>> /\ mail' = Tail(mail) /\ reloading' = reloading /\ daemon' = daemon
  BY DEF HandleAction, HandleConnect, HandleDisconnect, HandleDeclined, HandleConnected,
     HandleDisconnected, HandleAttemptEnded, HandlePacket, Hears, daemonVars
<1>2. Line = mail /\ Line' = Tail(Line) /\ Line # <<>>
  BY <1>1 DEF Line
<1>3. /\ Head(mail).kind \notin DaemonKinds => link'.intent = link.intent
      /\ Head(mail).kind \in DaemonKinds /\ link'.intent => Head(mail).kind = "Connect"
  <2>1. CASE HandleConnect
    BY <2>1 DEF HandleConnect, Hears, DaemonKinds
  <2>2. CASE HandleDisconnect \/ HandleDeclined
    BY <1>0, <2>2 DEF HandleDisconnect, HandleDeclined, Settled, Hears, DaemonKinds, Typed, Link
  <2>3. CASE HandleConnected
    BY <1>0, <2>3 DEF HandleConnected, Settled, Hears, DaemonKinds, Typed, Link
  <2>4. CASE HandleDisconnected
    BY <1>0, <2>4 DEF HandleDisconnected, Hears, DaemonKinds, Typed, Link
  <2>5. CASE HandleAttemptEnded
    BY <1>0, <2>5 DEF HandleAttemptEnded, Settled, Hears, DaemonKinds, Typed, Link
  <2>6. CASE HandlePacket
    <3>1. Head(mail).kind \notin DaemonKinds
      BY <2>6 DEF HandlePacket, Hears, DaemonKinds
    <3>2. CASE OfLive /\ link.login
      <4> DEFINE l == [link EXCEPT !.login = FALSE]
      <4>1. l \in Link /\ l.intent = link.intent
        BY <1>0 DEF Typed, Link
      <4>2. link' = Write(l, selfDials).after
        BY <2>6, <3>2 DEF HandlePacket, Wrote
      <4> HIDE DEF l
      <4> QED
        BY <3>1, <4>1, <4>2, WriteLeaves
    <3>3. CASE ~(OfLive /\ link.login)
      BY <2>6, <3>1, <3>3 DEF HandlePacket
    <3> QED
      BY <3>2, <3>3
  <2> QED
    BY <2>1, <2>2, <2>3, <2>4, <2>5, <2>6 DEF HandleAction
<1> QED
  BY <1>0, <1>1, <1>2, <1>3, WordHeard DEF IntentInv, DaemonTyped

LEMMA IntentStep ==
  ASSUME GhostInv, IntentInv, ~SendsDuringReload, [ConnNext]_connVars
  PROVE  IntentInv'
<1>0. Typed /\ Quiet /\ DialInv
  BY DEF GhostInv, DialInv
<1>1. CASE daemon' = daemon /\ Line' = Line /\ link'.intent = link.intent
  BY <1>1, WordKept DEF IntentInv, DaemonTyped
<1>2. CASE HandleAction
  BY <1>2, HandlerIntent
<1>3. CASE Daemon \/ Click \/ AcceptTls
  BY <1>3, DaemonIntent
<1>4. ASSUME NEW g \in Attempts, SocketTask(g) PROVE IntentInv'
  <2>1. UNCHANGED <<link, heldMail, reloading, daemon>>
    BY <1>4 DEF SocketTask, sessionVars, daemonVars
  <2>2. PICK k \in EndingKinds \cup {"Disconnected", "IncomingPacketProcessed"} :
          mail' = Append(mail, Msg(k, g))
    BY <1>4 DEF SocketTask, BecomesUp, FailsToConnect, Abandons, Receives, TearsDown,
         ToSession, EndingKinds
  <2>3. ~reloading
    BY <1>4 DEF SocketTask, BecomesUp, FailsToConnect, Abandons, Receives, TearsDown, CanSend
  <2>4. g \in 0 .. MaxAttempts
    BY ConnectionAssumption DEF Attempts
  <2>5. Msg(k, g) \in Messages /\ Msg(k, g).kind = k
    BY <2>4, MessagesTyped DEF MessageKinds
  <2>6. Line' = Append(Line, Msg(k, g)) /\ Msg(k, g).kind \notin DaemonKinds
    BY <2>1, <2>2, <2>3, <2>5 DEF Line, EndingKinds, DaemonKinds
  <2> QED
    BY <1>0, <2>1, <2>5, <2>6, WordPassed DEF IntentInv, DaemonTyped
<1>5. CASE TypedLine \/ ScriptSend
  <2>1. PICK l \in {link, [link EXCEPT !.spent = FALSE]}, d \in {0, selfDials} : Wrote(Write(l, d))
    BY <1>5 DEF TypedLine, ScriptSend
  <2>2. l \in Link /\ l.intent = link.intent
    BY <1>0 DEF Typed, Link
  <2>3. link'.intent = link.intent
    BY <2>1, <2>2, WriteLeaves DEF Wrote
  <2>4. daemon' = daemon /\ Line' = Line
    BY <1>5 DEF TypedLine, ScriptSend, Line
  <2> QED
    BY <1>1, <2>3, <2>4
<1>6. CASE ScriptConnect \/ ScriptDisconnect \/ UNCHANGED connVars
  BY <1>1, <1>6 DEF ScriptConnect, ScriptDisconnect, connVars, sessionVars, daemonVars, Line
<1>7. CASE Drain
  BY <1>1, <1>7 DEF Drain, sessionVars, daemonVars, Line
<1>8. CASE SendBack
  <2>1. mail = <<>> /\ link' = link /\ daemon' = daemon
    BY <1>0, <1>8 DEF SendBack, Quiet, sessionVars
  <2>2. Line = heldMail /\ Line' = <<>> \o heldMail
    BY <2>1, <1>8 DEF SendBack, Line
  <2>3. Line' = Line
    BY <2>2, <1>0, ConcatEmptySeq DEF Typed
  <2> QED
    BY <1>1, <2>1, <2>3
<1> QED
  BY <1>2, <1>3, <1>4, <1>5, <1>6, <1>7, <1>8 DEF ConnNext, SessionThread

\* The session believes it is meant to be online only if the daemon does, once
\* nothing is on its way between them, if nobody sends during a reload.
THEOREM IntentsCurrent == ~SendsDuringReload => (ConnSpec => []IntentCurrent)
<1> SUFFICES ASSUME ~SendsDuringReload PROVE ConnSpec => []IntentCurrent
  OBVIOUS
<1>1. ConnInit => IntentInv
  <2> SUFFICES ASSUME ConnInit PROVE IntentInv
    OBVIOUS
  <2>1. Len(Line) = 0 /\ 1 .. 0 = {}
    BY EmptySeq DEF ConnInit, Line
  <2> QED
    BY <2>1 DEF ConnInit, IntentInv, DaemonTyped, LastWord
<1>2. GhostInv /\ IntentInv /\ [ConnNext]_connVars => IntentInv'
  BY IntentStep
<1>3. GhostInv /\ IntentInv => IntentCurrent
  <2> SUFFICES ASSUME GhostInv, IntentInv, Underway = {}, link.intent PROVE daemon.auto
    BY DEF IntentCurrent
  <2>1. DOMAIN Line = 1 .. Len(Line)
    BY LineTyped, LenProperties DEF GhostInv
  <2>2. \A i \in 1 .. Len(Line) : Line[i] \in Underway
    BY <2>1 DEF Line, Underway, Range
  <2> QED
    BY <2>2 DEF IntentInv, LastWord
<1> QED
  BY <1>1, <1>2, <1>3, GhostInvHolds, PTL DEF ConnSpec

-----------------------------------------------------------------------------
\* Every variable keeps its type, and the tasks are where the attempts are.

Events == {"ready", "Connected", "Disconnected", "Ask", "AskIfIntended", "AskOff"}
Orders == {"Reconnect", "Disconnect"}

DaemonSide ==
  daemon \in [auto : BOOLEAN, shows : BOOLEAN] /\ uiMail \in Seq(Events) /\ todo \in Seq(Orders)

\* Messages and tasks belong to attempts that have begun.
Begun ==
  /\ \A m \in Underway : m.gen \in 0 .. link.gen
  /\ \A g \in Attempts : (socket[g] = "none") = (g > link.gen)

\* Exactly the replaced attempts, and perhaps the live one, are told to stop.
Stopped ==
  /\ toldToStop \in [Attempts -> BOOLEAN]
  /\ \A g \in Attempts : (toldToStop[g] => g <= link.gen) /\ (g < link.gen => toldToStop[g])

ConnTyped == DaemonSide /\ Begun /\ Stopped

LEMMA DaemonTold ==
  ASSUME DaemonSide, NEW e \in Events, ToDaemon(e) \/ UNCHANGED uiMail, UNCHANGED <<daemon, todo>>
  PROVE  DaemonSide'
BY AppendProperties DEF DaemonSide, ToDaemon

LEMMA DaemonReacts ==
  ASSUME DaemonSide, Daemon \/ Click \/ AcceptTls
  PROVE  DaemonSide'
<1>0. daemon \in [auto : BOOLEAN, shows : BOOLEAN] /\ uiMail \in Seq(Events) /\ todo \in Seq(Orders)
  BY DEF DaemonSide
<1>1. ASSUME NEW m \in Orders PROVE Append(todo, m) \in Seq(Orders)
  BY <1>0, AppendProperties
<1>2. ASSUME uiMail # <<>> PROVE Tail(uiMail) \in Seq(Events)
  BY <1>0, <1>2, HeadTailProperties
<1>3. ASSUME todo # <<>> PROVE Tail(todo) \in Seq(Orders)
  BY <1>0, <1>3, HeadTailProperties
<1>4. CASE TakeEvent
  <2> DEFINE e == Head(uiMail)
  <2>1. Reacts(e) /\ uiMail' \in Seq(Events)
    BY <1>2, <1>4 DEF TakeEvent
  <2> HIDE DEF e
  <2>2. daemon' \in [auto : BOOLEAN, shows : BOOLEAN]
    BY <1>0, <2>1 DEF Reacts
  <2>3. todo' = todo \/ \E m \in Orders : todo' = Append(todo, m)
    BY <2>1 DEF Reacts, Later, Orders
  <2> QED
    BY <1>0, <1>1, <2>1, <2>2, <2>3 DEF DaemonSide
<1>5. CASE TakeMessage
  <2>1. todo' \in Seq(Orders) /\ uiMail' = uiMail
    BY <1>3, <1>5 DEF TakeMessage
  <2>2. daemon' \in [auto : BOOLEAN, shows : BOOLEAN]
    BY <1>0, <1>5 DEF TakeMessage, Reconnects, Disconnects
  <2> QED
    BY <1>0, <2>1, <2>2 DEF DaemonSide
<1>6. CASE Click
  BY <1>0, <1>6 DEF Click, Reconnects, Disconnects, DaemonSide
<1>7. CASE AcceptTls
  <2>1. todo' = Append(todo, "Reconnect") /\ UNCHANGED <<daemon, uiMail>>
    BY <1>7 DEF AcceptTls, Later
  <2> QED
    BY <1>0, <1>1, <2>1 DEF DaemonSide, Orders
<1> QED
  BY <1>4, <1>5, <1>6, <1>7 DEF Daemon

LEMMA DaemonSideStep ==
  ASSUME DaemonSide, [ConnNext]_connVars
  PROVE  DaemonSide'
<1>1. CASE Daemon \/ Click \/ AcceptTls
  BY <1>1, DaemonReacts
<1>2. CASE HandleAction
  <2>1. CASE HandleConnect \/ HandleDisconnect \/ HandleDeclined \/ HandleAttemptEnded
    BY <2>1, DaemonTold DEF HandleConnect, HandleDisconnect, HandleDeclined, HandleAttemptEnded,
         daemonVars, Events
  <2>2. CASE HandleConnected \/ HandleDisconnected
    BY <2>2, DaemonTold DEF HandleConnected, HandleDisconnected, Events
  <2>3. CASE HandlePacket
    BY <2>3, DaemonTold DEF HandlePacket, Wrote, ToDaemon, Events
  <2> QED
    BY <1>2, <2>1, <2>2, <2>3 DEF HandleAction
<1>3. CASE SendBack \/ ScriptConnect \/ ScriptDisconnect
  BY <1>3, DaemonTold DEF SendBack, ScriptConnect, ScriptDisconnect, Events
<1>4. CASE TypedLine \/ ScriptSend
  BY <1>4, DaemonTold DEF TypedLine, ScriptSend, Wrote, ToDaemon, Events
<1>5. CASE Drain \/ UNCHANGED connVars
  BY <1>5, DaemonTold DEF Drain, connVars, daemonVars, Events
<1>6. ASSUME NEW g \in Attempts, SocketTask(g) PROVE DaemonSide'
  BY <1>6, DaemonTold DEF SocketTask, daemonVars, Events
<1> QED
  BY <1>1, <1>2, <1>3, <1>4, <1>5, <1>6 DEF ConnNext, SessionThread

LEMMA BegunStep ==
  ASSUME DialInv, Begun, Shape
  PROVE  Begun'
<1>0. Typed /\ link.gen \in Nat
  BY ConnectionAssumption DEF DialInv, Typed, Link
<1>1. ASSUME Underway' \subseteq Underway, link'.gen = link.gen, socket' = socket PROVE Begun'
  BY <1>1 DEF Begun
<1>2. CASE QuietStep
  BY <1>1, <1>2 DEF QuietStep, SameDial, Underway
<1>3. CASE OtherSend
  <2>1. PICK m \in Messages : FromOther(m) /\ mail' = Append(mail, m)
    BY <1>3 DEF OtherSend
  <2>2. Range(mail') = Range(mail) \cup {m}
    BY <1>0, <2>1, RangeOfAppend DEF Typed
  <2>3. Underway' = Underway \cup {m} /\ link'.gen = link.gen /\ socket' = socket
    BY <1>3, <2>2 DEF OtherSend, SameDial, Underway
  <2>4. m.gen \in 0 .. link.gen
    <3>1. CASE m.gen = 0
      BY <1>0, <3>1
    <3>2. CASE m.gen \in Attempts /\ socket[m.gen] = "up"
      <4>1. ~(m.gen > link.gen)
        BY <3>2 DEF Begun
      <4> QED
        BY <1>0, <3>2, <4>1, ConnectionAssumption DEF Attempts
    <3> QED
      BY <2>1, <3>1, <3>2 DEF FromOther
  <2> QED
    BY <2>3, <2>4 DEF Begun
<1>4. ASSUME NEW g \in Attempts, TaskStep(g) PROVE Begun'
  <2>1. PICK k \in EndingKinds \cup {"Disconnected"}, to \in {"up", "ended"} :
          /\ socket[g] # "none" /\ socket' = [socket EXCEPT ![g] = to]
          /\ mail' = Append(mail, Msg(k, g)) /\ UNCHANGED <<link, heldMail>>
    BY <1>4 DEF TaskStep, Moves, EndingKinds
  <2>2. g \in 0 .. MaxAttempts
    BY ConnectionAssumption DEF Attempts
  <2>3. Msg(k, g) \in Messages /\ Msg(k, g).gen = g
    BY <2>2, MessagesTyped DEF MessageKinds
  <2>4. Range(mail') = Range(mail) \cup {Msg(k, g)}
    BY <1>0, <2>1, <2>3, RangeOfAppend DEF Typed
  <2>5. Underway' = Underway \cup {Msg(k, g)}
    BY <2>1, <2>4 DEF Underway
  <2>6. ~(g > link.gen)
    BY <2>1 DEF Begun
  <2>7. g \in 0 .. link.gen
    BY <1>0, <2>6, ConnectionAssumption DEF Attempts
  <2>8. \A h \in Attempts : (socket'[h] = "none") = (h > link.gen)
    BY <1>0, <2>1, <2>6 DEF Begun, Typed
  <2> QED
    BY <2>1, <2>3, <2>5, <2>7, <2>8 DEF Begun
<1>5. CASE Handled /\ (Begins \/ Ignores \/ Learns)
  <2>1. Range(mail) = {Head(mail)} \cup Range(mail')
    BY <1>0, <1>5, RangeOfTail DEF Handled, Typed
  <2>2. Underway' \subseteq Underway
    BY <1>5, <2>1 DEF Underway, Handled
  <2>3. CASE Begins
    <3>1. \A m \in Underway' : m.gen \in 0 .. link.gen + 1
      BY <1>0, <2>2 DEF Begun
    <3>2. link'.gen = link.gen + 1 /\ socket' = [socket EXCEPT ![link.gen + 1] = "dialing"]
      BY <2>3 DEF Begins
    <3>3. ASSUME NEW h \in Attempts PROVE (socket'[h] = "none") = (h > link.gen + 1)
      <4>1. (socket[h] = "none") = (h > link.gen) /\ h \in Nat
        BY ConnectionAssumption DEF Begun, Attempts
      <4>2. CASE h = link.gen + 1
        BY <1>0, <3>2, <4>1, <4>2 DEF Typed
      <4>3. CASE h # link.gen + 1
        <5>1. socket'[h] = socket[h]
          BY <1>0, <3>2, <4>3 DEF Typed
        <5>2. (h > link.gen) = (h > link.gen + 1)
          BY <1>0, <4>1, <4>3
        <5> QED
          BY <4>1, <5>1, <5>2
      <4> QED
        BY <4>2, <4>3
    <3> QED
      BY <3>1, <3>2, <3>3 DEF Begun
  <2>4. CASE Ignores \/ Learns
    BY <1>1, <2>2, <2>4 DEF Ignores, Learns, SameDial
  <2> QED
    BY <1>5, <2>3, <2>4
<1>6. CASE Drained
  <2>1. Range(mail') = {}
    BY <1>6 DEF Drained, Range
  <2> QED
    BY <1>1, <1>6, <2>1 DEF Underway, Drained
<1>7. CASE Requeued
  <2>1. Range(mail') = Range(mail) \cup Range(heldMail)
    BY <1>0, <1>7, RangeOfConcat DEF Requeued, Typed
  <2>2. Range(heldMail') = {}
    BY <1>7 DEF Requeued, Range
  <2> QED
    BY <1>1, <1>7, <2>1, <2>2 DEF Underway, Requeued
<1> QED
  BY <1>2, <1>3, <1>4, <1>5, <1>6, <1>7 DEF Shape

LEMMA StoppedKept ==
  ASSUME Stopped, toldToStop' = toldToStop, link'.gen = link.gen
  PROVE  Stopped'
BY DEF Stopped

LEMMA StoppedStep ==
  ASSUME DialInv, Stopped, [ConnNext]_connVars
  PROVE  Stopped'
<1>0. link \in Link /\ link.gen \in Nat /\ toldToStop \in [Attempts -> BOOLEAN]
  BY ConnectionAssumption DEF DialInv, Typed, Link, Stopped
<1>1. CASE UNCHANGED <<link, toldToStop>>
  BY <1>1, StoppedKept
<1>2. StopLive \in [Attempts -> BOOLEAN]
      /\ \A g \in Attempts : StopLive[g] = (toldToStop[g] \/ g = link.gen)
  BY <1>0 DEF StopLive
<1>3. CASE HandleConnect
  <2>1. toldToStop' = StopLive /\ link'.gen = link.gen + 1
    BY <1>0, <1>3 DEF HandleConnect, Link
  <2>2. ASSUME NEW g \in Attempts
        PROVE  (toldToStop'[g] => g <= link.gen + 1) /\ (g < link.gen + 1 => toldToStop'[g])
    <3>1. /\ g \in Nat /\ (toldToStop[g] => g <= link.gen) /\ (g < link.gen => toldToStop[g])
          /\ toldToStop'[g] = (toldToStop[g] \/ g = link.gen)
      BY <1>2, <2>1, ConnectionAssumption DEF Stopped, Attempts
    <3>2. (g <= link.gen => g <= link.gen + 1) /\ (g < link.gen + 1 => g < link.gen \/ g = link.gen)
      BY <1>0, <3>1
    <3>3. g = link.gen => g <= link.gen + 1
      BY <1>0
    <3> QED
      BY <3>1, <3>2, <3>3
  <2> QED
    BY <1>2, <2>1, <2>2 DEF Stopped
<1>4. CASE HandleDisconnect
  <2>1. toldToStop' = StopLive /\ link'.gen = link.gen
    BY <1>0, <1>4 DEF HandleDisconnect, Link
  <2>2. \A g \in Attempts : g = link.gen => g <= link.gen
    BY <1>0
  <2> QED
    BY <1>2, <2>1, <2>2 DEF Stopped
<1>5. CASE HandleDeclined \/ HandleConnected \/ HandleDisconnected \/ HandleAttemptEnded
  <2>1. toldToStop' = toldToStop
    BY <1>5 DEF HandleDeclined, HandleConnected, HandleDisconnected, HandleAttemptEnded, socketVars
  <2>2. link'.gen = link.gen
    <3>1. CASE HandleDeclined
      BY <1>0, <3>1 DEF HandleDeclined, Settled, Link
    <3>2. CASE HandleConnected
      BY <1>0, <3>2 DEF HandleConnected, Settled, Link
    <3>3. CASE HandleDisconnected
      BY <1>0, <3>3 DEF HandleDisconnected, Link
    <3>4. CASE HandleAttemptEnded
      BY <1>0, <3>4 DEF HandleAttemptEnded, Settled, Link
    <3> QED
      BY <1>5, <3>1, <3>2, <3>3, <3>4
  <2> QED
    BY <2>1, <2>2, StoppedKept
<1>6. ASSUME NEW l \in Link, l.gen = link.gen, NEW d, Wrote(Write(l, d)), toldToStop' = toldToStop
      PROVE  Stopped'
  <2>1. link'.gen = link.gen
    BY <1>6, WriteKeeps DEF Wrote
  <2> QED
    BY <1>6, <2>1, StoppedKept
<1>7. CASE HandlePacket
  <2>1. toldToStop' = toldToStop
    BY <1>7 DEF HandlePacket, socketVars
  <2>2. CASE OfLive /\ link.login
    <3> DEFINE l == [link EXCEPT !.login = FALSE]
    <3>1. l \in Link /\ l.gen = link.gen /\ Wrote(Write(l, selfDials))
      BY <1>0, <1>7, <2>2 DEF HandlePacket, Link
    <3> HIDE DEF l
    <3> QED
      BY <1>6, <2>1, <3>1
  <2>3. CASE ~(OfLive /\ link.login)
    BY <1>1, <1>7, <2>1, <2>3 DEF HandlePacket
  <2> QED
    BY <2>2, <2>3
<1>8. CASE TypedLine \/ ScriptSend
  <2>1. PICK l \in {link, [link EXCEPT !.spent = FALSE]}, d \in {0, selfDials} : Wrote(Write(l, d))
    BY <1>8 DEF TypedLine, ScriptSend
  <2>2. l \in Link /\ l.gen = link.gen
    BY <1>0 DEF Link
  <2>3. toldToStop' = toldToStop
    BY <1>8 DEF TypedLine, ScriptSend, socketVars
  <2> QED
    BY <1>6, <2>1, <2>2, <2>3
<1>9. CASE SendBack \/ Drain \/ ScriptConnect \/ ScriptDisconnect \/ UNCHANGED connVars
  BY <1>1, <1>9 DEF SendBack, Drain, ScriptConnect, ScriptDisconnect, connVars, sessionVars, socketVars
<1>10. CASE Daemon \/ Click \/ AcceptTls
  BY <1>1, <1>10 DEF Daemon, TakeEvent, TakeMessage, Click, AcceptTls, sessionVars, socketVars
<1>11. ASSUME NEW g \in Attempts, SocketTask(g) PROVE Stopped'
  BY <1>1, <1>11 DEF SocketTask, BecomesUp, FailsToConnect, Abandons, Receives, TearsDown, sessionVars
<1> QED
  BY <1>3, <1>4, <1>5, <1>7, <1>8, <1>9, <1>10, <1>11 DEF ConnNext, SessionThread, HandleAction

\* Every variable keeps its type; a task exists for exactly the attempts that a
\* Connect has begun, no message names a later one, and all but the last of
\* them have been told to stop: there is one live connection at most.
THEOREM ConnectionTyped == ConnSpec => []ConnTypeOK
<1>1. ConnInit => ConnTyped
  <2> SUFFICES ASSUME ConnInit PROVE ConnTyped
    OBVIOUS
  <2>1. DaemonSide
    <3>1. daemon \in [auto : BOOLEAN, shows : BOOLEAN] /\ "ready" \in Events
      BY DEF ConnInit, Events
    <3>2. uiMail = <<"ready">> /\ todo = <<>>
      BY DEF ConnInit
    <3> QED
      BY <3>1, <3>2 DEF DaemonSide
  <2>2. Underway = {} /\ link.gen = 0
    BY DEF ConnInit, Underway, Range
  <2>3. \A g \in Attempts : g > 0 /\ ~(g < 0) /\ socket[g] = "none" /\ ~toldToStop[g]
    BY ConnectionAssumption DEF ConnInit, Attempts
  <2>4. toldToStop \in [Attempts -> BOOLEAN]
    BY DEF ConnInit
  <2> QED
    BY <2>1, <2>2, <2>3, <2>4 DEF ConnTyped, Begun, Stopped
<1>2. DialInv /\ ConnTyped /\ [ConnNext]_connVars => ConnTyped'
  <2> SUFFICES ASSUME DialInv, ConnTyped, [ConnNext]_connVars PROVE ConnTyped'
    OBVIOUS
  <2>1. Shape
    BY StepShape DEF DialInv
  <2> QED
    BY <2>1, DaemonSideStep, BegunStep, StoppedStep DEF ConnTyped
<1>3. DialInv /\ ConnTyped => ConnTypeOK
  <2> SUFFICES ASSUME DialInv, ConnTyped PROVE ConnTypeOK
    OBVIOUS
  <2>1. ASSUME NEW S, NEW q \in Seq(S) PROVE Range(q) \subseteq S
    <3>1. DOMAIN q = 1 .. Len(q)
      BY LenProperties
    <3> QED
      BY <3>1 DEF Range
  <2>2. Range(uiMail) \subseteq Events /\ Range(todo) \subseteq Orders
    BY <2>1 DEF ConnTyped, DaemonSide
  <2>3. heldMail # <<>> => reloading
    BY DEF DialInv, Emptied
  <2>4. DaemonSide /\ Begun /\ Stopped /\ Typed
    BY DEF ConnTyped, DialInv
  <2> QED
    BY <2>2, <2>3, <2>4 DEF ConnTypeOK, DaemonSide, Begun, Stopped, Typed, Link, Events, Orders
<1> QED
  BY <1>1, <1>2, <1>3, DialInvHolds, PTL DEF ConnSpec

===============================================================================
