----------------------------- MODULE PeerSession -----------------------------
(***************************************************************************)
(* The control session a client or an agent keeps with the relay           *)
(* (src/peer-session.js): connect, register before a deadline, heartbeat,  *)
(* reconnect after a loss, stop for good on a fatal error or close().      *)
(*                                                                         *)
(* All frames of a chunk are handled in one turn, also those that follow a *)
(* frame on which the session failed or destroyed its socket (`decoding`). *)
(* What the application's onMessage makes of a message is a choice here:   *)
(* nothing, disconnect(), or fail().  Socket objects are finitely many and *)
(* a closed one is used again; the messages sent are not modelled.         *)
(***************************************************************************)
EXTENDS Naturals, FiniteSets

CONSTANTS
  Socks,  \* socket objects
  Uuids,  \* identities the relay may assign
  None    \* "undefined"

ASSUME NoneAssumption == None \notin Socks /\ None \notin Uuids

VARIABLES
  started, stopping, fatalError, connected,
  resolved,        \* close() has resolved
  socket,          \* the current socket, or None
  uuid,            \* the identity the relay assigned, or None
  sockLife,        \* socket -> "closed" (or never used), "connecting", "open", "destroyed"
  deadline,        \* sockets whose registration deadline is armed
  reconnectTimer,  \* armed
  pinger,          \* the socket the ping interval serves, or None
  pongDeadline,    \* the socket the pong timer would destroy, or None
  decoding         \* the socket whose chunk is being decoded, or None

flags == <<started, stopping, fatalError, resolved>>
timers == <<deadline, reconnectTimer, pinger, pongDeadline>>
vars == <<flags, connected, socket, uuid, sockLife, timers, decoding>>

TypeOK ==
  /\ {started, stopping, fatalError, connected, resolved, reconnectTimer} \subseteq BOOLEAN
  /\ {socket, pinger, pongDeadline, decoding} \subseteq Socks \cup {None}
  /\ uuid \in Uuids \cup {None}
  /\ sockLife \in [Socks -> {"closed", "connecting", "open", "destroyed"}]
  /\ deadline \in SUBSET Socks

Init ==
  /\ started = FALSE /\ stopping = FALSE /\ fatalError = FALSE /\ resolved = FALSE
  /\ connected = FALSE
  /\ socket = None
  /\ uuid = None
  /\ sockLife = [g \in Socks |-> "closed"]
  /\ deadline = {}
  /\ reconnectTimer = FALSE
  /\ pinger = None /\ pongDeadline = None
  /\ decoding = None

-----------------------------------------------------------------------------
(* Helpers; a name ending in _F1, _F2, ... is a seeded fault of the definition  *)
(* it is named after, used by no specification.                                 *)

Alive(g) == sockLife[g] \in {"connecting", "open"}

Destroyed(S) ==
  [g \in Socks |-> IF g \in S /\ Alive(g) THEN "destroyed" ELSE sockLife[g]]

\* connect(): a new socket becomes the current one, under a deadline to register.
Connect(g) ==
  IF stopping \/ fatalError
  THEN UNCHANGED <<socket, sockLife, deadline>>
  ELSE /\ sockLife[g] = "closed"
       /\ sockLife' = [sockLife EXCEPT ![g] = "connecting"]
       /\ socket' = g
       /\ deadline' = deadline \cup {g}

ClearPinger == pinger' = None /\ pongDeadline' = None

\* No heartbeat is started.
StartPinger_F1(g) == ClearPinger

\* startPinger(): the interval for this socket, no pong awaited.
StartPinger(g) == pinger' = g /\ pongDeadline' = None

\* fail(): for good, and once.  The session stays `connected` until the
\* socket's 'close' arrives.
Fail ==
  IF fatalError
  THEN UNCHANGED <<fatalError, sockLife, timers>>
  ELSE /\ fatalError' = TRUE
       /\ reconnectTimer' = FALSE
       /\ ClearPinger
       /\ sockLife' = Destroyed({socket})
       /\ UNCHANGED deadline

-----------------------------------------------------------------------------
(* Connecting *)

\* start() connects again before the first attempt is up.
Start_F1(g) ==
  /\ decoding = None
  /\ started' = TRUE
  /\ Connect(g)
  /\ UNCHANGED <<stopping, fatalError, resolved, connected, uuid,
                 reconnectTimer, pinger, pongDeadline, decoding>>

\* start(), called once by the application.
Start(g) ==
  /\ decoding = None
  /\ ~started /\ socket = None
  /\ started' = TRUE
  /\ Connect(g)
  /\ UNCHANGED <<stopping, fatalError, resolved, connected, uuid,
                 reconnectTimer, pinger, pongDeadline, decoding>>

ReconnectFires(g) ==
  /\ decoding = None
  /\ reconnectTimer
  /\ reconnectTimer' = FALSE
  /\ Connect(g)
  /\ UNCHANGED <<flags, connected, uuid, pinger, pongDeadline, decoding>>

\* The TCP connection is up: the registration message is sent.
Connected(g) ==
  /\ decoding = None
  /\ sockLife[g] = "connecting"
  /\ sockLife' = [sockLife EXCEPT ![g] = "open"]
  /\ UNCHANGED <<flags, connected, socket, uuid, timers, decoding>>

DeadlineFires(g) ==
  /\ decoding = None
  /\ g \in deadline
  /\ Alive(g)
  /\ sockLife' = Destroyed({g})
  /\ UNCHANGED <<flags, connected, socket, uuid, timers, decoding>>

\* A network error, a refused connection, or the relay's end.
Lose(g) ==
  /\ decoding = None
  /\ Alive(g)
  /\ sockLife' = Destroyed({g})
  /\ UNCHANGED <<flags, connected, socket, uuid, timers, decoding>>

\* One that lost an unregistered socket does not.
Reconnects_F2 == ~stopping /\ ~fatalError /\ connected

Reconnects == ~stopping /\ ~fatalError

\* 'close' of the current socket (the others had theirs).
CloseEvent(g) ==
  /\ decoding = None
  /\ sockLife[g] = "destroyed"
  /\ sockLife' = [sockLife EXCEPT ![g] = "closed"]
  /\ deadline' = deadline \ {g}
  /\ IF g = socket
     THEN /\ socket' = None
          /\ connected' = FALSE
          /\ ClearPinger
          /\ reconnectTimer' = IF Reconnects THEN TRUE ELSE reconnectTimer
     ELSE UNCHANGED <<socket, connected, pinger, pongDeadline, reconnectTimer>>
  /\ UNCHANGED <<flags, uuid, decoding>>

-----------------------------------------------------------------------------
(* Messages *)

ReadChunk(g) ==
  /\ decoding = None
  /\ sockLife[g] = "open"
  /\ decoding' = g
  /\ UNCHANGED <<flags, connected, socket, uuid, sockLife, timers>>

ChunkEnds ==
  /\ decoding # None
  /\ decoding' = None
  /\ UNCHANGED <<flags, connected, socket, uuid, sockLife, timers>>

\* `messageSocket !== socket` drops the message.
Handles(g) == decoding = g /\ g = socket

\* Not JSON, or before the registration anything but an error; or the
\* application disconnects: destroyed.
MessageDestroys(g) ==
  /\ Handles(g)
  /\ sockLife' = Destroyed({g})
  /\ UNCHANGED <<flags, connected, socket, uuid, timers, decoding>>

\* Another protocol version, or an error the application makes fatal.
MessageFails(g) ==
  /\ Handles(g)
  /\ Fail
  /\ UNCHANGED <<started, stopping, resolved, connected, socket, uuid, decoding>>

\* The first registration completes the connection; a later one reports the
\* agent's readiness.
Registration(g, u) ==
  /\ Handles(g)
  /\ uuid' = u
  /\ connected' = TRUE
  /\ IF connected
     THEN UNCHANGED timers
     ELSE /\ deadline' = deadline \ {g}
          /\ StartPinger(g)
          /\ UNCHANGED reconnectTimer
  /\ UNCHANGED <<flags, socket, sockLife, decoding>>

Pong(g) ==
  /\ Handles(g)
  /\ connected
  /\ pongDeadline' = None
  /\ UNCHANGED <<flags, connected, socket, uuid, sockLife, deadline, reconnectTimer,
                 pinger, decoding>>

-----------------------------------------------------------------------------
(* Heartbeat *)

PingTick ==
  /\ decoding = None
  /\ pinger # None
  /\ pongDeadline = None
  /\ pongDeadline' = pinger
  /\ UNCHANGED <<flags, connected, socket, uuid, sockLife, deadline, reconnectTimer,
                 pinger, decoding>>

\* The timeout only asks for another ping.
PongTimeout_F1 ==
  /\ decoding = None
  /\ pongDeadline # None
  /\ Alive(pongDeadline)
  /\ pongDeadline' = None
  /\ UNCHANGED <<flags, connected, socket, uuid, sockLife, deadline, reconnectTimer,
                 pinger, decoding>>

\* The fired timer stays recorded until the socket's 'close'.
PongTimeout ==
  /\ decoding = None
  /\ pongDeadline # None
  /\ Alive(pongDeadline)
  /\ sockLife' = Destroyed({pongDeadline})
  /\ UNCHANGED <<flags, connected, socket, uuid, timers, decoding>>

-----------------------------------------------------------------------------
(* The application *)

\* fail() from outside a message (a local listener broke).
AppFails ==
  /\ decoding = None
  /\ Fail
  /\ UNCHANGED <<started, stopping, resolved, connected, socket, uuid, decoding>>

\* close() forgets the reconnect timer.
CloseClears_F1 == ClearPinger /\ UNCHANGED reconnectTimer

CloseClears == ClearPinger /\ reconnectTimer' = FALSE

\* close() leaves the socket to the relay.
CloseDestroys_F1 == UNCHANGED sockLife

\* destroySockets(), for the current socket.
CloseDestroys == sockLife' = Destroyed({socket})

\* close(), once (the applications keep its promise), perhaps while a chunk is decoded (an
\* onFatal handler may call it).
Close ==
  /\ ~stopping
  /\ stopping' = TRUE
  /\ CloseClears
  /\ CloseDestroys
  /\ UNCHANGED <<started, fatalError, resolved, connected, socket, uuid, deadline, decoding>>

\* destroySockets has resolved.
CloseResolves ==
  /\ decoding = None
  /\ stopping /\ ~resolved
  /\ socket = None
  /\ resolved' = TRUE
  /\ UNCHANGED <<started, stopping, fatalError, connected, socket, uuid, sockLife, timers,
                 decoding>>

-----------------------------------------------------------------------------
Next ==
  \/ \E g \in Socks : \/ Start(g) \/ ReconnectFires(g) \/ Connected(g)
                      \/ DeadlineFires(g) \/ Lose(g) \/ CloseEvent(g)
                      \/ ReadChunk(g) \/ MessageDestroys(g) \/ MessageFails(g) \/ Pong(g)
                      \/ \E u \in Uuids : Registration(g, u)
  \/ ChunkEnds \/ PingTick \/ PongTimeout
  \/ AppFails \/ Close \/ CloseResolves

Spec == Init /\ [][Next]_vars

\* Timers fire and destroyed sockets emit 'close' between the turns, however
\* many chunks arrive.  Nothing is assumed of the relay or the application.
Fairness ==
  /\ WF_vars(ChunkEnds)
  /\ SF_vars(\E g \in Socks : ReconnectFires(g))
  /\ SF_vars(\E g \in Socks : DeadlineFires(g))
  /\ SF_vars(\E g \in Socks : CloseEvent(g))
  /\ SF_vars(PingTick)
  /\ SF_vars(PongTimeout)
  /\ SF_vars(CloseResolves)

FairSpec == Spec /\ Fairness

-----------------------------------------------------------------------------
(* Safety *)

\* A peer never holds two control sockets: the relay would take the second one
\* for a reconnection and drop the first (connect, the close handler, the
\* reconnect timer).
OneConnection ==
  /\ \A g, h \in Socks : sockLife[g] # "closed" /\ sockLife[h] # "closed" => g = h
  /\ \A g \in Socks : sockLife[g] # "closed" => g = socket

\* A live socket is always watched: by the registration deadline until the
\* relay has answered, by the heartbeat from then on.
AlwaysWatched ==
  \A g \in Socks : Alive(g) =>
    IF connected THEN pinger = g ELSE g \in deadline /\ pinger = None

\* Once it has failed or been closed and its socket is gone, no timer is left
\* that would connect again or keep the process alive, whatever frames came
\* behind the one that ended the session.
QuietAtEnd ==
  (fatalError \/ stopping) /\ socket = None =>
    ~reconnectTimer /\ pinger = None /\ pongDeadline = None /\ deadline = {} /\ ~connected

-----------------------------------------------------------------------------
(* The inductive invariant *)

\* A socket that has not closed is the current one, and the other way round.
CurrentOnly ==
  /\ \A g \in Socks : sockLife[g] # "closed" => g = socket
  /\ socket # None => sockLife[socket] # "closed" /\ started

\* Every timer that names a socket names the current one.
TimersCurrent ==
  /\ deadline \subseteq {socket}
  /\ {pinger, pongDeadline} \subseteq {socket, None}

\* Without a socket the session is not connected; it tries again only then,
\* and only while it is not over.
BetweenSockets ==
  /\ socket = None => ~connected
  /\ reconnectTimer => socket = None /\ started /\ ~stopping /\ ~fatalError

\* A session that is over has no live socket.
OverIsDead == fatalError \/ stopping => \A g \in Socks : ~Alive(g)

\* What is decoded came over a connection that was up, and nothing is registered
\* before there is one.
DecodedWasOpen ==
  /\ decoding # None => sockLife[decoding] \in {"open", "destroyed"}
  /\ \A g \in Socks : sockLife[g] = "connecting" => ~connected

IndInv ==
  /\ TypeOK
  /\ CurrentOnly /\ TimersCurrent /\ BetweenSockets
  /\ AlwaysWatched /\ OverIsDead /\ DecodedWasOpen

-----------------------------------------------------------------------------
(* Liveness, under FairSpec *)

\* If the relay stops answering pings, the session notices: it does not stay
\* connected for ever to a silent relay.
SilenceDetected ==
  <>[][~\E g \in Socks : Pong(g)]_vars => []<>~connected

\* A connection that is lost is followed by another one, unless the session is
\* over.
Reconnected ==
  started /\ socket = None ~> socket # None \/ fatalError \/ stopping

\* close() resolves.
CloseCompletes == stopping ~> resolved

-----------------------------------------------------------------------------
(* What the session promises to its application *)

link ==
  CASE socket = None -> "none"
    [] socket # None /\ sockLife[socket] = "destroyed" -> IF connected THEN "broken" ELSE "lost"
    [] socket # None /\ sockLife[socket] = "connecting" -> "connecting"
    [] OTHER -> IF connected THEN "up" ELSE "open"

Control == INSTANCE ControlSession WITH over <- fatalError \/ stopping

\* The session implements the control session its application relies on.
ImplementsControl == Control!Spec

\* Its safety part: every step is one of the control session, or means nothing to it.
ControlSteps == Control!Safe
=============================================================================
