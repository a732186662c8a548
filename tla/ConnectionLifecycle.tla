-------------------------- MODULE ConnectionLifecycle --------------------------
(***************************************************************************)
(* The connection of one session: the session's thread, which handles one  *)
(* action of its inbox at a time; one socket task for each connection      *)
(* attempt, on the worker pool; and the daemon, which owns the intent to   *)
(* be online and alone can start an attempt, because it reads the          *)
(* configuration.  A new attempt replaces the one before, whose task tears *)
(* down at its own pace and whose messages arrive late.  A failed send may *)
(* ask the daemon to reconnect.                                            *)
(***************************************************************************)
EXTENDS Naturals, Sequences, Functions

CONSTANTS MaxAttempts,      \* bound: connection attempts
          Stimuli,          \* bound: how many events of each kind the outside makes
          MaxStimuli,       \* bound: and how many in all
          SendsDuringReload \* others may send between the drain and the requeue
                            \* of the inbox by a reload; FALSE leaves that out

Kinds == {"click", "script", "line", "text", "reload", "badConfig"}

ASSUME ConnectionAssumption ==
  /\ MaxAttempts \in Nat \ {0}
  /\ Stimuli \in [Kinds -> Nat] /\ MaxStimuli \in Nat
  /\ SendsDuringReload \in BOOLEAN

Attempts == 1 .. MaxAttempts

VARIABLES link,        \* the session's own state of its connection, see ConnTypeOK
          mail,        \* the inbox of the session's thread
          heldMail,    \* what a reload has taken out of the inbox
          reloading,   \* the session's thread is in a reload
          socket,      \* the state of each attempt's socket task
          toldToStop,  \* its disconnect signal is raised
          daemon,      \* auto_connect, and what the title bar shows
          uiMail,      \* session events on their way to the daemon
          todo,        \* messages the daemon has sent to itself
          used,        \* how many events the outside has made
          logins,      \* history: login lines each attempt's socket was given
          greeted,     \* history: attempts whose server sent displayable text
          selfDials    \* history: requests to redial since the last line typed
                       \* or sent

sessionVars == <<link, logins, selfDials>>
daemonVars == <<daemon, uiMail, todo>>
socketVars == <<socket, toldToStop, greeted>>
connVars == <<sessionVars, mail, heldMail, reloading, daemonVars, socketVars, used>>

Msg(k, g) == [kind |-> k, gen |-> g]
ToSession(k, g) == mail' = Append(mail, Msg(k, g))
ToDaemon(e) == uiMail' = Append(uiMail, e)

Underway == Range(mail) \cup Range(heldMail)

CanSend == SendsDuringReload \/ ~reloading

Occurs(kinds) ==
  LET now == [k \in Kinds |-> IF k \in kinds THEN used[k] + 1 ELSE used[k]]
  IN /\ \A k \in kinds : now[k] <= Stimuli[k]
     /\ SumFunction(now) <= MaxStimuli
     /\ used' = now

ConnInit ==
  /\ link = [dial |-> 0, gen |-> 0, connected |-> FALSE, login |-> FALSE,
             intent |-> FALSE, spent |-> FALSE, waiting |-> FALSE]
  /\ mail = <<>> /\ heldMail = <<>> /\ reloading = FALSE
  /\ socket = [g \in Attempts |-> "none"]
  /\ toldToStop = [g \in Attempts |-> FALSE]
  /\ daemon \in [auto : BOOLEAN, shows : {FALSE}]
  /\ uiMail = <<"ready">>
  /\ todo = <<>>
  /\ used = [k \in Kinds |-> 0]
  /\ logins = [g \in Attempts |-> 0]
  /\ greeted = {}
  /\ selfDials = 0

-------------------------------------------------------------------------------
(* Socket tasks: the future of connect_target.  The disconnect signal       *)
(* preempts it at any await.                                                *)

\* The task holds the queue that the session's writes go to.
Takes(g) == g > 0 /\ socket[g] = "up"

BecomesUp(g) ==
  /\ socket[g] = "dialing" /\ CanSend
  /\ socket' = [socket EXCEPT ![g] = "up"]
  /\ ToSession("Connected", g)
  /\ UNCHANGED <<toldToStop, greeted, used>>

FailsToConnect(g) ==
  /\ socket[g] = "dialing" /\ CanSend
  /\ socket' = [socket EXCEPT ![g] = "ended"]
  /\ ToSession("ConnectionFailed", g)
  /\ UNCHANGED <<toldToStop, greeted, used>>

\* The signal lands before the transport is up.
Abandons(g) ==
  /\ socket[g] = "dialing" /\ toldToStop[g] /\ CanSend
  /\ socket' = [socket EXCEPT ![g] = "ended"]
  /\ ToSession("ConnectionAbandoned", g)
  /\ UNCHANGED <<toldToStop, greeted, used>>

\* A batch with displayable text; it is marked while a login waits to be sent.
\* Bound: such batches count as events of the outside.
Receives(g) ==
  /\ socket[g] = "up" /\ link.login /\ CanSend
  /\ Occurs({"text"})
  /\ ToSession("IncomingPacketProcessed", g)
  /\ greeted' = greeted \cup {g}
  /\ UNCHANGED <<socket, toldToStop>>

\* The peer closes, a read or write fails, or the signal is raised: nothing
\* preempts the rest.  The notice that follows Disconnected only words a line.
TearsDown(g) ==
  /\ socket[g] = "up" /\ CanSend
  /\ socket' = [socket EXCEPT ![g] = "ended"]
  /\ ToSession("Disconnected", g)
  /\ UNCHANGED <<toldToStop, greeted, used>>

SocketTask(g) ==
  /\ \/ BecomesUp(g) \/ FailsToConnect(g) \/ Abandons(g)
     \/ Receives(g) \/ TearsDown(g)
  /\ UNCHANGED <<sessionVars, heldMail, reloading, daemonVars>>

-------------------------------------------------------------------------------
(* The session's thread: one handler per action of its inbox.               *)

Hears(k) == ~reloading /\ mail # <<>> /\ Head(mail).kind = k
OfLive == Head(mail).gen = link.gen

\* The signal of the live connection, if it has not been raised.
StopLive == [g \in Attempts |-> toldToStop[g] \/ (g = link.gen)]

\* settle_send_failures: every notice that waits on an attempt is finished.
Settled(l) == [l EXCEPT !.waiting = FALSE]

\* Mutant: the replaced connection is not told to stop.
HandleConnect_KeepsOld ==
  /\ Hears("Connect") /\ link.gen < MaxAttempts
  /\ mail' = Tail(mail)
  /\ LET g == link.gen + 1 IN
     /\ link' = [link EXCEPT !.gen = g, !.dial = g, !.login = TRUE, !.intent = TRUE]
     /\ socket' = [socket EXCEPT ![g] = "dialing"]
  /\ UNCHANGED <<toldToStop, greeted, logins, selfDials, daemonVars>>

HandleConnect ==
  /\ Hears("Connect") /\ link.gen < MaxAttempts
  /\ mail' = Tail(mail)
  /\ LET g == link.gen + 1 IN
     /\ link' = [link EXCEPT !.gen = g, !.dial = g, !.login = TRUE, !.intent = TRUE]
     /\ socket' = [socket EXCEPT ![g] = "dialing"]
  /\ toldToStop' = StopLive
  /\ UNCHANGED <<greeted, logins, selfDials, daemonVars>>

\* Mutant: a disconnect leaves the intent to be online.
HandleDisconnect_KeepsIntent ==
  /\ Hears("Disconnect")
  /\ mail' = Tail(mail)
  /\ link' = [link EXCEPT !.login = FALSE]
  /\ toldToStop' = StopLive
  /\ UNCHANGED <<socket, greeted, logins, selfDials, daemonVars>>

HandleDisconnect ==
  /\ Hears("Disconnect")
  /\ mail' = Tail(mail)
  /\ link' = [link EXCEPT !.intent = FALSE, !.login = FALSE]
  /\ toldToStop' = StopLive
  /\ UNCHANGED <<socket, greeted, logins, selfDials, daemonVars>>

\* Mutant: the request stays unanswered.
HandleDeclined_Silent ==
  /\ Hears("ConnectDeclined")
  /\ mail' = Tail(mail)
  /\ link' = [link EXCEPT !.intent = FALSE]
  /\ UNCHANGED <<socketVars, logins, selfDials, daemonVars>>

HandleDeclined ==
  /\ Hears("ConnectDeclined")
  /\ mail' = Tail(mail)
  /\ link' = Settled([link EXCEPT !.intent = FALSE])
  /\ UNCHANGED <<socketVars, logins, selfDials, daemonVars>>

\* Mutant: coming up lets the client dial on its own again.
HandleConnected_Releases ==
  /\ Hears("Connected")
  /\ mail' = Tail(mail)
  /\ link' = Settled([link EXCEPT !.dial = 0, !.connected = TRUE, !.spent = FALSE])
  /\ ToDaemon("Connected")
  /\ UNCHANGED <<socketVars, logins, selfDials, daemon, todo>>

\* Connected names no attempt: a replaced one's is taken for the live one's.
HandleConnected ==
  /\ Hears("Connected")
  /\ mail' = Tail(mail)
  /\ link' = Settled([link EXCEPT !.dial = 0, !.connected = TRUE])
  /\ ToDaemon("Connected")
  /\ UNCHANGED <<socketVars, logins, selfDials, daemon, todo>>

\* Mutant: only the live socket's teardown counts.
HandleDisconnected_LiveOnly ==
  /\ Hears("Disconnected")
  /\ mail' = Tail(mail)
  /\ link' = IF OfLive
               THEN [link EXCEPT !.dial = 0, !.login = FALSE, !.connected = FALSE]
               ELSE link
  /\ ToDaemon("Disconnected")
  /\ UNCHANGED <<socketVars, logins, selfDials, daemon, todo>>

HandleDisconnected ==
  /\ Hears("Disconnected")
  /\ mail' = Tail(mail)
  /\ link' = IF OfLive
               THEN [link EXCEPT !.dial = 0, !.login = FALSE, !.connected = FALSE]
               ELSE [link EXCEPT !.connected = FALSE]
  /\ ToDaemon("Disconnected")
  /\ UNCHANGED <<socketVars, logins, selfDials, daemon, todo>>

\* Mutant: an abandoned attempt is still waited for.
HandleAttemptEnded_KeepsDial ==
  /\ Hears("ConnectionFailed") \/ Hears("ConnectionAbandoned")
  /\ mail' = Tail(mail)
  /\ link' = IF OfLive /\ Head(mail).kind = "ConnectionFailed"
               THEN Settled([link EXCEPT !.dial = 0]) ELSE link
  /\ UNCHANGED <<socketVars, logins, selfDials, daemonVars>>

\* Only the live attempt's ending counts.
HandleAttemptEnded ==
  /\ Hears("ConnectionFailed") \/ Hears("ConnectionAbandoned")
  /\ mail' = Tail(mail)
  /\ link' = IF OfLive THEN Settled([link EXCEPT !.dial = 0]) ELSE link
  /\ UNCHANGED <<socketVars, logins, selfDials, daemonVars>>

-------------------------------------------------------------------------------
(* Sends.  A write fails when there is a connection whose task does not     *)
(* take it.  A failure may ask the daemon to redial, once until a line is   *)
(* typed or a write succeeds.                                               *)

\* A write by l, the session's state when it is made: the state after it, the
\* events for the daemon and the history of redials.
Write(l, dials) ==
  LET fails == l.gen > 0 /\ ~Takes(l.gen)
      asks == /\ ~l.waiting /\ l.intent /\ ~l.spent /\ l.dial = 0
      joins == l.waiting \/ (l.intent /\ ~l.spent)
  IN CASE ~fails -> [after |-> [l EXCEPT !.spent = FALSE], asks |-> FALSE, dials |-> 0]
       [] fails /\ asks -> [after |-> [l EXCEPT !.spent = TRUE, !.waiting = TRUE],
                            asks |-> TRUE, dials |-> dials + 1]
       [] OTHER -> [after |-> [l EXCEPT !.waiting = joins], asks |-> FALSE, dials |-> dials]

Wrote(w) ==
  /\ link' = w.after
  /\ selfDials' = w.dials
  /\ uiMail' = IF w.asks THEN Append(uiMail, "AskIfIntended") ELSE uiMail

\* Mutant: a replaced socket's marker releases the login.
HandlePacket_AnySocket ==
  /\ Hears("IncomingPacketProcessed")
  /\ mail' = Tail(mail)
  /\ IF link.login
       THEN /\ Wrote(Write([link EXCEPT !.login = FALSE], selfDials))
            /\ logins' = IF Takes(link.gen) THEN [logins EXCEPT ![link.gen] = @ + 1] ELSE logins
       ELSE UNCHANGED <<link, selfDials, uiMail, logins>>
  /\ UNCHANGED <<socketVars, daemon, todo>>

\* The first displayable text of the live connection releases the login.
HandlePacket ==
  /\ Hears("IncomingPacketProcessed")
  /\ mail' = Tail(mail)
  /\ IF OfLive /\ link.login
       THEN /\ Wrote(Write([link EXCEPT !.login = FALSE], selfDials))
            /\ logins' = IF Takes(link.gen) THEN [logins EXCEPT ![link.gen] = @ + 1] ELSE logins
       ELSE UNCHANGED <<link, selfDials, uiMail, logins>>
  /\ UNCHANGED <<socketVars, daemon, todo>>

HandleAction ==
  /\ \/ HandleConnect \/ HandleDisconnect \/ HandleDeclined \/ HandleConnected
     \/ HandleDisconnected \/ HandleAttemptEnded \/ HandlePacket
  /\ UNCHANGED <<heldMail, reloading, used>>

\* A line the user typed: Enter lets the client dial again.
TypedLine ==
  /\ ~reloading /\ Occurs({"line"})
  /\ Wrote(Write([link EXCEPT !.spent = FALSE], 0))
  /\ UNCHANGED <<mail, heldMail, reloading, socketVars, daemon, todo, logins>>

\* A script's send, from a timer or a trigger.
ScriptSend ==
  /\ ~reloading /\ Occurs({"script"})
  /\ Wrote(Write(link, selfDials))
  /\ UNCHANGED <<mail, heldMail, reloading, socketVars, daemon, todo, logins>>

\* session.connect() does nothing while connected or dialing.
ScriptConnect ==
  /\ ~reloading /\ Occurs({"script"})
  /\ ~link.connected /\ link.dial = 0
  /\ ToDaemon("Ask")
  /\ UNCHANGED <<mail, heldMail, reloading, socketVars, daemon, todo, sessionVars>>

\* session.disconnect() does nothing unless connected.
ScriptDisconnect ==
  /\ ~reloading /\ Occurs({"script"})
  /\ link.connected
  /\ ToDaemon("AskOff")
  /\ UNCHANGED <<mail, heldMail, reloading, socketVars, daemon, todo, sessionVars>>

\* A reload drains the inbox and sends what it keeps, all of this, again.  The
\* connection and all that belongs to it survive.
Drain ==
  /\ ~reloading /\ Occurs({"reload"})
  /\ reloading' = TRUE
  /\ heldMail' = mail /\ mail' = <<>>
  /\ UNCHANGED <<sessionVars, daemonVars, socketVars>>

SendBack ==
  /\ reloading
  /\ reloading' = FALSE
  /\ mail' = mail \o heldMail /\ heldMail' = <<>>
  /\ ToDaemon("ready")
  /\ UNCHANGED <<sessionVars, socketVars, daemon, todo, used>>

-------------------------------------------------------------------------------
(* The daemon: it answers the session's events in order; a connect or a     *)
(* disconnect it decides on is a message to itself, handled a turn later.   *)

Says(k) == CanSend /\ ToSession(k, 0)
Later(m) == todo' = Append(todo, m)
Quietly == UNCHANGED mail

\* What an event makes the daemon do at once or a turn later.
Reacts(e) ==
  CASE e = "Connected" ->
         daemon' = [daemon EXCEPT !.shows = TRUE] /\ Quietly /\ UNCHANGED todo
    [] e = "Disconnected" ->
         daemon' = [daemon EXCEPT !.shows = FALSE] /\ Quietly /\ UNCHANGED todo
    [] e = "ready" /\ daemon.auto /\ ~daemon.shows ->
         Later("Reconnect") /\ Quietly /\ UNCHANGED daemon
    [] e = "AskIfIntended" /\ ~daemon.auto ->
         Says("ConnectDeclined") /\ UNCHANGED <<daemon, todo>>
    [] e = "Ask" \/ (e = "AskIfIntended" /\ daemon.auto) ->
         Later("Reconnect") /\ Quietly /\ UNCHANGED daemon
    [] e = "AskOff" ->
         Later("Disconnect") /\ Quietly /\ UNCHANGED daemon
    [] OTHER -> Quietly /\ UNCHANGED <<daemon, todo>>

TakeEvent ==
  /\ uiMail # <<>>
  /\ Reacts(Head(uiMail))
  /\ uiMail' = Tail(uiMail)
  /\ UNCHANGED <<sessionVars, heldMail, reloading, socketVars, used>>

\* Message::Reconnect: the configuration is read anew and may be unreadable.
Reconnects(spent) ==
  /\ daemon' = [daemon EXCEPT !.auto = TRUE]
  /\ \/ Says("Connect") /\ Occurs(spent)
     \/ Says("ConnectDeclined") /\ Occurs(spent \cup {"badConfig"})

\* Message::Disconnect
Disconnects(spent) ==
  /\ daemon' = [daemon EXCEPT !.auto = FALSE]
  /\ Says("Disconnect")
  /\ Occurs(spent)

TakeMessage ==
  /\ todo # <<>> /\ todo' = Tail(todo)
  /\ IF Head(todo) = "Reconnect" THEN Reconnects({}) ELSE Disconnects({})
  /\ UNCHANGED <<sessionVars, heldMail, reloading, socketVars, uiMail>>

\* The title bar's button, which offers what the daemon shows is missing.
Click ==
  /\ IF daemon.shows THEN Disconnects({"click"}) ELSE Reconnects({"click"})
  /\ UNCHANGED <<sessionVars, heldMail, reloading, socketVars, uiMail, todo>>

\* The user accepts the offer to use TLS: the connection is made anew.
AcceptTls ==
  /\ Occurs({"click"}) /\ daemon.shows
  /\ Says("Disconnect")
  /\ Later("Reconnect")
  /\ UNCHANGED <<sessionVars, heldMail, reloading, socketVars, daemon, uiMail>>

-------------------------------------------------------------------------------
SessionThread == HandleAction \/ SendBack
Daemon == TakeEvent \/ TakeMessage

ConnNext ==
  \/ SessionThread \/ Daemon
  \/ \E g \in Attempts : SocketTask(g)
  \/ TypedLine \/ ScriptSend \/ ScriptConnect \/ ScriptDisconnect
  \/ Drain \/ Click \/ AcceptTls

\* The session's thread and the daemon are loops.  An attempt ends within
\* CONNECT_TIMEOUT, and a task told to stop stops.
Ends(g) ==
  /\ \/ BecomesUp(g) \/ FailsToConnect(g) \/ Abandons(g)
     \/ toldToStop[g] /\ TearsDown(g)
  /\ UNCHANGED <<sessionVars, heldMail, reloading, daemonVars>>

ConnFairness ==
  /\ WF_connVars(SessionThread)
  /\ WF_connVars(Daemon)
  /\ \A g \in Attempts : WF_connVars(Ends(g))

ConnSpec == ConnInit /\ [][ConnNext]_connVars /\ ConnFairness

-------------------------------------------------------------------------------
(* Properties *)

\* Every variable has its type; an attempt's task is beyond "none" exactly if
\* a Connect has started it, and only live or replaced ones are told to stop.
ConnTypeOK ==
  /\ link \in [dial : 0 .. MaxAttempts, gen : 0 .. MaxAttempts, connected : BOOLEAN,
               login : BOOLEAN, intent : BOOLEAN, spent : BOOLEAN, waiting : BOOLEAN]
  /\ \A m \in Underway : m.gen \in 0 .. link.gen
  /\ socket \in [Attempts -> {"none", "dialing", "up", "ended"}]
  /\ \A g \in Attempts : (socket[g] = "none") = (g > link.gen)
  /\ \A g \in Attempts : toldToStop[g] => g <= link.gen
  /\ \A g \in Attempts : g < link.gen => toldToStop[g]
  /\ daemon \in [auto : BOOLEAN, shows : BOOLEAN]
  /\ Range(uiMail) \subseteq {"ready", "Connected", "Disconnected", "Ask", "AskIfIntended", "AskOff"}
  /\ Range(todo) \subseteq {"Reconnect", "Disconnect"}
  /\ heldMail # <<>> => reloading

\* A session that says it is connected has a socket that is up, or will hear
\* that it is not: the flag gates session.connect() and the title bar, so a
\* flag left behind would keep the session offline for good.
NoGhostConnection ==
  link.connected =>
    \/ \E g \in Attempts : Takes(g)
    \/ \E m \in Underway : m.kind = "Disconnected"

\* The session waits for a dial only while its task dials, or while its ending
\* is on the way: nobody can start a dial by session.connect() meanwhile.
DialTracked ==
  link.dial # 0 =>
    \/ socket[link.dial] = "dialing"
    \/ \E m \in Underway :
         /\ m.kind \in {"Connected", "ConnectionFailed", "ConnectionAbandoned"}
         /\ m.gen = link.dial

\* The login line goes at most once to each connection, and only to one whose
\* server has spoken: it carries the password of the connection it was read for.
LoginOwn ==
  \A g \in Attempts : logins[g] <= 1 /\ (logins[g] = 1 => g \in greeted)

\* The client redials at most once until the user types or a send succeeds,
\* whatever its attempts come to.
RedialPaced == selfDials <= 1

\* When nothing is on its way between them, the session believes it is meant
\* to be online only if the daemon does: otherwise a failed send would ask for
\* a dial the user has called off.
IntentCurrent ==
  (Underway = {} /\ uiMail = <<>> /\ todo = <<>>) => (link.intent => daemon.auto)

\* A notice that waits for an attempt is finished some time, however attempts
\* replace each other and whoever declines.
RowsSettle == link.waiting ~> ~link.waiting
===============================================================================
