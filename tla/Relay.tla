-------------------------------- MODULE Relay --------------------------------
(***************************************************************************)
(* The relay's control plane (src/relay.js) on top of its data plane       *)
(* (DataTransport, whose sessions are the control connections here).       *)
(*                                                                         *)
(* A control connection is accepted, must send its first message before    *)
(* the handshake deadline, registers as a client or as the agent of a      *)
(* named route, and then sends control messages.  All of a chunk's frames  *)
(* are decoded in one turn of the event loop, even after one of them ended *)
(* or destroyed the connection, and a registration is answered only after  *)
(* the frames that came with it: `turn` holds the connection whose chunk   *)
(* is being decoded, and nothing else runs meanwhile.                      *)
(*                                                                         *)
(* A control connection is destroyed by a network error, by its idle       *)
(* timeout or because both its halves ended; no handler of the relay tells *)
(* these apart, and they are one action, Lose.                             *)
(***************************************************************************)
EXTENDS Naturals, FiniteSets

CONSTANTS
  Conns,       \* control connections; each is a fresh TCP connection
  Names,       \* route names
  Uuids,       \* peer identities, the peers' own and those of randomUUID
  MaxPorts,    \* MAX_PORTS of config.js
  Sockets, Tickets, MaxPending, None

Types == {"client", "agent"}
PortCounts == 1..MaxPorts

CProps == [name : Names, uuid : Uuids, type : Types, portCount : PortCounts]
Turns == [conn : Conns, registering : BOOLEAN]
Routes == [agent : Conns \cup {None}, clients : [Uuids -> Conns \cup {None}]]

ASSUME MaxPortsAssumption == MaxPorts \in Nat \ {0}
ASSUME NoConnAssumption == None \notin Conns \cup CProps \cup Turns

VARIABLES
  connLife,         \* connection -> "fresh", "open", "destroyed", "closed"
  connEnded,        \* connections on which end() was called
  handshakeSockets, \* accepted, first message not yet taken as a registration
  controlSockets,   \* registered, not yet closed
  cProps,           \* connection -> what it registered, or None
  routes,           \* name -> current agent and clients by uuid
  told,             \* connection -> the last registration status it was sent
  handed,           \* history: tickets that both peers were sent
  turn,             \* the connection whose chunk is being decoded, or None
  stopped           \* close() has resolved

VARIABLES phase, issued, pendingTunnels, activeTunnels, dataSockets, waiting,
          life, hadError, readEnded, writeEnded, bridge, claim

T == INSTANCE DataTransport WITH Sessions <- Conns

ASSUME TransportAssumption ==
  MaxPending \in Nat \ {0} /\ None \notin Sockets \cup T!Claims

connVars == <<connLife, connEnded, handshakeSockets, controlSockets>>
routeVars == <<cProps, routes, told, handed>>
relayVars == <<connVars, routeVars, turn, stopped>>
streamVars == <<life, hadError, readEnded, writeEnded, bridge, claim>>
transportVars ==
  <<phase, issued, pendingTunnels, activeTunnels, dataSockets, waiting, streamVars>>
vars == <<relayVars, transportVars>>

TypeOK ==
  /\ connLife \in [Conns -> {"fresh", "open", "destroyed", "closed"}]
  /\ connEnded \in SUBSET Conns
  /\ handshakeSockets \in SUBSET Conns
  /\ controlSockets \in SUBSET Conns
  /\ cProps \in [Conns -> CProps \cup {None}]
  /\ DOMAIN routes \in SUBSET Names
  /\ routes \in [DOMAIN routes -> Routes]
  /\ told \in [Conns -> {"nothing", "ready", "waiting", "refused"}]
  /\ handed \in SUBSET Tickets
  /\ turn \in Turns \cup {None}
  /\ stopped \in BOOLEAN
  /\ T!TypeOK

Init ==
  /\ connLife = [c \in Conns |-> "fresh"]
  /\ connEnded = {}
  /\ handshakeSockets = {}
  /\ controlSockets = {}
  /\ cProps = [c \in Conns |-> None]
  /\ routes = [n \in {} |-> {}]
  /\ told = [c \in Conns |-> "nothing"]
  /\ handed = {}
  /\ turn = None
  /\ stopped = FALSE
  /\ T!Init

-----------------------------------------------------------------------------
(* Helpers *)

\* A name ending in _F1, _F2, ... is a seeded fault of the definition it is named
\* after: it is used by no specification, only substituted for the definition to
\* see that a run can tell.

closing == T!closing

IsOpen(c) == connLife[c] = "open"

\* sendJson returns true
Writable(c) == IsOpen(c) /\ c \notin connEnded

DestroyConns(S) ==
  [c \in Conns |-> IF c \in S /\ IsOpen(c) THEN "destroyed" ELSE connLife[c]]

NoRoute == [agent |-> None, clients |-> [u \in Uuids |-> None]]
RouteAt(n) == IF n \in DOMAIN routes THEN routes[n] ELSE NoRoute

ClientsOf(route) == {route.clients[u] : u \in Uuids} \ {None}

\* An empty route is kept.
PutRoute_F1(n, route) == T!Put(routes, n, route)

PutRoute(n, route) ==
  IF route.agent = None /\ ClientsOf(route) = {}
  THEN T!Without(routes, {n})
  ELSE T!Put(routes, n, route)

\* `portCount` of a client against the agent's
TooManyPorts(c, agent) ==
  /\ cProps[c].type = "client"
  /\ agent # None
  /\ cProps[c].portCount > cProps[agent].portCount

\* What notifyRegistration sends to c when `agent` is its route's agent.
Status(c, agent) ==
  IF TooManyPorts(c, agent) THEN "refused"
  ELSE IF cProps[c].type = "agent" \/ (agent # None /\ IsOpen(agent)) THEN "ready"
  ELSE "waiting"

\* notifyRegistration for every connection of S: what each was told last, and
\* which ones were ended because of their ports.
NotifiedTold(S, agent) ==
  [c \in Conns |-> IF c \in S /\ Writable(c) THEN Status(c, agent) ELSE told[c]]

NotifiedEnded(S, agent) ==
  connEnded \cup {c \in S : Writable(c) /\ TooManyPorts(c, agent)}

-----------------------------------------------------------------------------
(* Accepting and classifying a connection *)

HandleIncoming(c) ==
  /\ turn = None
  /\ ~closing
  /\ connLife[c] = "fresh"
  /\ connLife' = [connLife EXCEPT ![c] = "open"]
  /\ handshakeSockets' = handshakeSockets \cup {c}
  /\ UNCHANGED <<connEnded, controlSockets, routeVars, turn, stopped, transportVars>>

\* Its first message has not been taken yet.
AwaitsFirst(c) ==
  /\ turn = None
  /\ c \in handshakeSockets
  /\ Writable(c)

\* An unreadable frame, an unknown kind, an invalid registration: destroyed.
\* The handshake deadline does the same to one that says nothing, or that was
\* refused and does not leave.
FirstInvalid(c) ==
  /\ AwaitsFirst(c)
  /\ connLife' = DestroyConns({c})
  /\ UNCHANGED <<connEnded, handshakeSockets, controlSockets, routeVars, turn, stopped,
                 transportVars>>

\* The deadline is cleared once the first message has been answered.
HandshakeTimeout_F1(c) ==
  /\ AwaitsFirst(c)
  /\ connLife' = DestroyConns({c})
  /\ UNCHANGED <<connEnded, handshakeSockets, controlSockets, routeVars, turn, stopped,
                 transportVars>>

HandshakeTimeout(c) ==
  /\ turn = None
  /\ c \in handshakeSockets
  /\ IsOpen(c)
  /\ connLife' = DestroyConns({c})
  /\ UNCHANGED <<connEnded, handshakeSockets, controlSockets, routeVars, turn, stopped,
                 transportVars>>

\* Another protocol version: answered and ended, still under the deadline.
FirstMismatch(c) ==
  /\ AwaitsFirst(c)
  /\ connEnded' = connEnded \cup {c}
  /\ UNCHANGED <<connLife, handshakeSockets, controlSockets, routeVars, turn, stopped,
                 transportVars>>

\* The connection a registration would take the place of.
Previous(props) ==
  IF props.type = "agent" THEN RouteAt(props.name).agent
                          ELSE RouteAt(props.name).clients[props.uuid]

\* A destroyed agent no longer counts, though it has not closed yet.
DuplicateAgent_F1(props) ==
  /\ props.type = "agent"
  /\ Previous(props) # None
  /\ IsOpen(Previous(props))
  /\ cProps[Previous(props)].uuid # props.uuid

\* Another agent holds the route.
DuplicateAgent(props) ==
  /\ props.type = "agent"
  /\ Previous(props) # None
  /\ cProps[Previous(props)].uuid # props.uuid

RefuseDuplicate(c, props) ==
  /\ AwaitsFirst(c)
  /\ DuplicateAgent(props)
  /\ connEnded' = connEnded \cup {c}
  /\ UNCHANGED <<connLife, handshakeSockets, controlSockets, routeVars, turn, stopped,
                 transportVars>>

\* Nothing is handed over; only the pending tickets are cancelled; the previous
\* session is closed like a lost agent.
HandOver_F1(previous, c) == UNCHANGED transportVars
HandOver_F2(previous, c) ==
  IF previous = None THEN UNCHANGED transportVars ELSE T!CancelPendingForSession(previous)
HandOver_F3(previous, c) ==
  IF previous = None THEN UNCHANGED transportVars ELSE T!CloseAgentSession(previous)

\* `dataTransport.replaceSession(previous, socket)`
HandOver(previous, c) ==
  IF previous = None THEN UNCHANGED transportVars ELSE T!ReplaceSession(previous, c)

\* The registration takes effect; the rest of the chunk is decoded next.
Register(c, props) ==
  LET previous == Previous(props)
      route == RouteAt(props.name)
  IN
  /\ AwaitsFirst(c)
  /\ ~DuplicateAgent(props)
  /\ cProps' = [d \in Conns |-> IF d = c THEN props
                                ELSE IF d = previous THEN None ELSE cProps[d]]
  /\ routes' = T!Put(routes, props.name,
                     IF props.type = "agent"
                     THEN [route EXCEPT !.agent = c]
                     ELSE [route EXCEPT !.clients[props.uuid] = c])
  /\ HandOver(previous, c)
  /\ connLife' = DestroyConns({previous})
  /\ handshakeSockets' = handshakeSockets \ {c}
  /\ controlSockets' = controlSockets \cup {c}
  /\ turn' = [conn |-> c, registering |-> TRUE]
  /\ UNCHANGED <<connEnded, told, handed, stopped>>

\* A new agent's clients are not told.
Audience_F1(c) == {c}

\* Whom a registration is reported to.
Audience(c) ==
  IF cProps[c].type = "agent" THEN {c} \cup ClientsOf(RouteAt(cProps[c].name)) ELSE {c}

\* The chunk is used up.  After a registration the new connection is answered,
\* and a new agent's clients are told about it.
EndTurn ==
  /\ turn # None
  /\ turn' = None
  /\ LET c == turn.conn
         agent == RouteAt(cProps[c].name).agent
     IN  IF turn.registering
         THEN /\ told' = NotifiedTold(Audience(c), agent)
              /\ connEnded' = NotifiedEnded(Audience(c), agent)
         ELSE UNCHANGED <<told, connEnded>>
  /\ UNCHANGED <<connLife, handshakeSockets, controlSockets, cProps, routes, handed, stopped,
                 transportVars>>

-----------------------------------------------------------------------------
(* Control messages; a ping is answered and changes nothing *)

ReadChunk(c) ==
  /\ turn = None
  /\ c \in controlSockets
  /\ IsOpen(c)
  /\ turn' = [conn |-> c, registering |-> FALSE]
  /\ UNCHANGED <<connVars, routeVars, stopped, transportVars>>

Decoding(c) == turn # None /\ turn.conn = c

\* A message of no known form, or an openTunnel of an agent: destroyed.  (After
\* an undecipherable frame the rest of the chunk is dropped: EndTurn follows.)
MessageInvalid(c) ==
  /\ Decoding(c)
  /\ IsOpen(c)
  /\ connLife' = DestroyConns({c})
  /\ UNCHANGED <<connEnded, handshakeSockets, controlSockets, routeVars, turn, stopped,
                 transportVars>>

MessageMismatch(c) ==
  /\ Decoding(c)
  /\ Writable(c)
  /\ connEnded' = connEnded \cup {c}
  /\ UNCHANGED <<connLife, handshakeSockets, controlSockets, routeVars, turn, stopped,
                 transportVars>>

MessageCancel(c, t) ==
  /\ Decoding(c)
  /\ T!CancelPendingTunnel(t, c)
  /\ UNCHANGED relayVars

\* The checks of openTunnel; a request that fails one is answered with an error.
CanOpen(c, portIndex) ==
  LET props == cProps[c]
      route == RouteAt(props.name)
      agent == route.agent
  IN
  /\ props # None
  /\ props.type = "client"
  /\ route.clients[props.uuid] = c
  /\ agent # None
  /\ IsOpen(agent)
  /\ props.portCount <= cProps[agent].portCount
  /\ portIndex < props.portCount
  /\ portIndex < cProps[agent].portCount

\* Both sides are sent the ticket.
MessageOpen(c, portIndex, t) ==
  /\ Decoding(c)
  /\ CanOpen(c, portIndex)
  /\ LET agent == RouteAt(cProps[c].name).agent
     IN  /\ Writable(c) /\ Writable(agent)
         /\ T!CreatePendingTunnel(c, agent, t)
  /\ handed' = handed \cup {t}
  /\ UNCHANGED <<connVars, cProps, routes, told, turn, stopped>>

\* The ticket is left to its pairing timer.
MessageOpenUnsent_F1(c, portIndex, t) ==
  /\ Decoding(c)
  /\ CanOpen(c, portIndex)
  /\ ~(Writable(c) /\ Writable(RouteAt(cProps[c].name).agent))
  /\ T!CreatePendingTunnel(c, RouteAt(cProps[c].name).agent, t)
  /\ UNCHANGED relayVars

\* One of the two could not be sent it: the ticket drawn is cancelled again.
MessageOpenUnsent(c, portIndex, t) ==
  /\ Decoding(c)
  /\ CanOpen(c, portIndex)
  /\ ~(Writable(c) /\ Writable(RouteAt(cProps[c].name).agent))
  /\ ~closing /\ T!HasRoom
  /\ t \in Tickets \ issued
  /\ issued' = issued \cup {t}
  /\ UNCHANGED <<relayVars, phase, pendingTunnels, activeTunnels, dataSockets, waiting,
                 streamVars>>

-----------------------------------------------------------------------------
(* The end of a control connection *)

\* The remote end finished sending: the relay ends its half as well.
RemoteEnd(c) ==
  /\ turn = None
  /\ c \in controlSockets
  /\ Writable(c)
  /\ connEnded' = connEnded \cup {c}
  /\ UNCHANGED <<connLife, handshakeSockets, controlSockets, routeVars, turn, stopped,
                 transportVars>>

Lose(c) ==
  /\ turn = None
  /\ IsOpen(c)
  /\ connLife' = DestroyConns({c})
  /\ UNCHANGED <<connEnded, handshakeSockets, controlSockets, routeVars, turn, stopped,
                 transportVars>>

\* cleanupControlSocket of a registered client, and of a registered agent.  A
\* closed connection is garbage: its own entries are forgotten.
CleanupClient(c) ==
  LET n == cProps[c].name
  IN
  /\ routes' = PutRoute(n, [routes[n] EXCEPT !.clients[cProps[c].uuid] = None])
  /\ told' = [told EXCEPT ![c] = "nothing"]
  /\ connEnded' = connEnded \ {c}
  /\ T!CancelPendingForSession(c)

CleanupAgent(c) ==
  LET n == cProps[c].name
  IN
  /\ routes' = PutRoute(n, [routes[n] EXCEPT !.agent = None])
  /\ told' = [NotifiedTold(IF closing THEN {} ELSE ClientsOf(routes[n]), None)
                EXCEPT ![c] = "nothing"]
  /\ connEnded' = NotifiedEnded(IF closing THEN {} ELSE ClientsOf(routes[n]), None) \ {c}
  /\ IF closing THEN UNCHANGED transportVars ELSE T!CloseAgentSession(c)

\* A connection that was refused or replaced leaves nothing to clean up.
CleanupNothing(c) ==
  /\ told' = [told EXCEPT ![c] = "nothing"]
  /\ connEnded' = connEnded \ {c}
  /\ UNCHANGED <<routes, transportVars>>

\* It is current in its route.
Registered(c) ==
  /\ cProps[c] # None
  /\ cProps[c].name \in DOMAIN routes
  /\ LET route == routes[cProps[c].name]
     IN  IF cProps[c].type = "client" THEN route.clients[cProps[c].uuid] = c
                                      ELSE route.agent = c

CloseEvent(c) ==
  /\ turn = None
  /\ connLife[c] = "destroyed"
  /\ connLife' = [connLife EXCEPT ![c] = "closed"]
  /\ handshakeSockets' = handshakeSockets \ {c}
  /\ controlSockets' = controlSockets \ {c}
  /\ cProps' = [cProps EXCEPT ![c] = None]
  /\ \/ Registered(c) /\ cProps[c].type = "client" /\ CleanupClient(c)
     \/ Registered(c) /\ cProps[c].type = "agent" /\ CleanupAgent(c)
     \/ ~Registered(c) /\ CleanupNothing(c)
  /\ UNCHANGED <<handed, turn, stopped>>

-----------------------------------------------------------------------------
(* Data connections and shutdown *)

\* A data connection's first message.  Its handshake is not modelled: it shows
\* here when its first frame is complete, at the latest before the shutdown
\* destroys the connections that are still in their handshake.
AcceptData(s, m) ==
  /\ turn = None
  /\ phase # "closed"
  /\ T!AcceptSocket(s, m)
  /\ UNCHANGED relayVars

\* Timers and socket events of the data plane.
DataEvent ==
  /\ turn = None
  /\ \/ \E t \in Tickets : T!PairingTimeout(t)
     \/ T!EndDrain
     \/ \E s \in Sockets : \/ T!AutoDestroy(s) \/ T!CloseEvent(s)
                           \/ T!SocketError(s) \/ T!RemoteEnd(s)
  /\ UNCHANGED relayVars

BeginClose(force) ==
  /\ turn = None
  /\ T!BeginClose(force)
  /\ UNCHANGED relayVars

\* The control connections are left to their peers.
Remaining_F1 == handshakeSockets

Remaining == handshakeSockets \cup controlSockets

\* dataTransport.close() has resolved: every control connection is destroyed.
DestroyControl ==
  /\ turn = None
  /\ T!FinishClose
  /\ connLife' = DestroyConns(Remaining)
  /\ UNCHANGED <<connEnded, handshakeSockets, controlSockets, routeVars, turn, stopped>>

\* Only the control connections are awaited.
AllClosed_F1 == controlSockets = {}

AllClosed ==
  /\ \A c \in Conns : connLife[c] \in {"fresh", "closed"}
  /\ \A s \in Sockets : life[s] \in {"new", "closed"}

\* The destroyed sockets have closed, and the listener with its last connection.
Stop ==
  /\ turn = None
  /\ phase = "closed"
  /\ ~stopped
  /\ AllClosed
  /\ stopped' = TRUE
  /\ UNCHANGED <<connVars, routeVars, turn, transportVars>>

-----------------------------------------------------------------------------
FirstMessage(c) ==
  \/ FirstInvalid(c)
  \/ FirstMismatch(c)
  \/ \E props \in CProps : Register(c, props) \/ RefuseDuplicate(c, props)

ControlMessage(c) ==
  \/ MessageInvalid(c)
  \/ MessageMismatch(c)
  \/ \E t \in Tickets : MessageCancel(c, t)
  \/ \E t \in Tickets, i \in 0..MaxPorts : MessageOpen(c, i, t) \/ MessageOpenUnsent(c, i, t)

Next ==
  \/ \E c \in Conns : \/ HandleIncoming(c)
                      \/ FirstMessage(c)
                      \/ HandshakeTimeout(c)
                      \/ ReadChunk(c)
                      \/ ControlMessage(c)
                      \/ RemoteEnd(c)
                      \/ Lose(c)
                      \/ CloseEvent(c)
  \/ EndTurn
  \/ \E s \in Sockets, m \in T!Claims \cup {None} : AcceptData(s, m)
  \/ DataEvent
  \/ \E force \in BOOLEAN : BeginClose(force)
  \/ DestroyControl
  \/ Stop

Spec == Init /\ [][Next]_vars

\* Deadlines and timers fire, a destroyed connection emits 'close', one that has
\* ended destroys itself, close() continues, a turn ends.  A turn blocks the rest
\* only while it lasts, and between turns the event loop comes round to every due
\* timer and event: strong fairness.
ConnProgress(c) == HandshakeTimeout(c) \/ CloseEvent(c)
SocketProgress(s) ==
  turn = None /\ (T!AutoDestroy(s) \/ T!CloseEvent(s)) /\ UNCHANGED relayVars
TicketProgress(t) == turn = None /\ T!PairingTimeout(t) /\ UNCHANGED relayVars
CloseProgress ==
  \/ turn = None /\ T!EndDrain /\ UNCHANGED relayVars
  \/ DestroyControl
  \/ Stop

Fairness ==
  /\ WF_vars(EndTurn)
  /\ \A c \in Conns : SF_vars(ConnProgress(c))
  /\ \A s \in Sockets : SF_vars(SocketProgress(s))
  /\ \A t \in Tickets : SF_vars(TicketProgress(t))
  /\ SF_vars(CloseProgress)

FairSpec == Spec /\ Fairness

-----------------------------------------------------------------------------
(* Safety *)

\* The registry and the connections agree: what a route holds is a connection
\* that registered exactly there and has not closed (notifyRegistration and
\* openTunnel dereference its cProps), every registered open connection is
\* the current one of its identity, and no empty route is kept
\* (registerControlSocket against a late cleanupControlSocket).
RoutesCurrent ==
  /\ \A n \in DOMAIN routes :
       /\ routes[n].agent # None \/ ClientsOf(routes[n]) # {}
       /\ \A c \in (ClientsOf(routes[n]) \cup {routes[n].agent}) \ {None} :
            Registered(c) /\ cProps[c].name = n /\ connLife[c] # "closed"
  /\ \A c \in controlSockets : IsOpen(c) => Registered(c)

\* A pending ticket is one that both peers were sent, and its two sessions are the
\* current client and the current agent of one route: neither a request that could
\* not be answered nor a session that was replaced or has closed left a ticket behind
\* that is of no use, or that a successor or a stranger could complete.
SessionsCurrent ==
  \A t \in DOMAIN pendingTunnels :
    \E n \in DOMAIN routes :
      /\ routes[n].agent = pendingTunnels[t].agentSession
      /\ pendingTunnels[t].clientSession \in ClientsOf(routes[n])

TicketsCurrent == SessionsCurrent /\ DOMAIN pendingTunnels \subseteq handed

\* While the relay runs, a stream with an open socket belongs to the agent
\* session its route has now, so that losing this agent reaches the stream
\* (replaceSession moves it along at every reconnection).
StreamsOwned ==
  \A t \in DOMAIN activeTunnels :
    (\E s \in activeTunnels[t].sockets : life[s] = "open") /\ ~closing =>
      \E n \in DOMAIN routes : routes[n].agent = activeTunnels[t].agentSession

\* What c was told last is true of its agent.
ToldTruth(c, agent) ==
  \/ told[c] = "ready" /\ agent # None /\ ~TooManyPorts(c, agent)
  \/ told[c] = "waiting" /\ (agent = None \/ ~IsOpen(agent))
  \/ told[c] = "ready" /\ closing

\* Between turns a client that can still be written to has last been told the
\* truth: ready only if its route has an agent that serves its ports, waiting
\* only if there is none alive, never left unanswered (notifyRegistration is
\* called at three places, and its answer is not re-sent when the agent is
\* destroyed but when its 'close' arrives; a relay that is closing keeps quiet
\* about a lost agent).
ReadinessTruth ==
  \A n \in DOMAIN routes : \A c \in ClientsOf(routes[n]) :
    turn = None /\ Writable(c) => ToldTruth(c, routes[n].agent)

\* A resolved close() leaves no connection, no route, no ticket and no stream.
StoppedClean ==
  stopped =>
    /\ controlSockets = {} /\ handshakeSockets = {}
    /\ DOMAIN routes = {}
    /\ DOMAIN pendingTunnels = {} /\ DOMAIN activeTunnels = {} /\ dataSockets = {}

\* An agent's connection leaves its route only when it closes, or for a
\* connection of the same peer: nobody else takes the route over.
NoTakeover ==
  [][\A n \in DOMAIN routes : LET agent == routes[n].agent IN
       agent # None =>
         \/ n \in DOMAIN routes' /\ routes'[n].agent = agent
         \/ connLife'[agent] = "closed"
         \/ /\ n \in DOMAIN routes' /\ routes'[n].agent # None
            /\ cProps'[routes'[n].agent].uuid = cProps[agent].uuid]_vars

\* Streams outlive control connections: while the relay runs, an open socket of
\* a stream is destroyed only because it ended or failed, because the other end
\* closed, or because the agent session the stream belongs to closed without a
\* successor.  Replacing a session, its late 'close', a client's loss or an
\* expired ticket cut no stream.
StreamsSurvive ==
  [][\A t \in DOMAIN activeTunnels : \A s \in activeTunnels[t].sockets :
       life[s] = "open" /\ life'[s] # "open" /\ ~closing' =>
         \/ s \in hadError'
         \/ s \in readEnded \cap writeEnded
         \/ life'[bridge[s]] = "closed"
         \/ LET agent == activeTunnels[t].agentSession
            IN  connLife'[agent] = "closed" /\ connLife[agent] = "destroyed"]_vars

\* The documentation's rule for clients that ask for more ports than the agent
\* has: while the agent is offline they wait, and are checked when it is back.
\* The code checks against an agent that is destroyed but has not closed yet
\* (notifyRegistration looks at `destroyed` for readiness only).
OfflineAgentWaits ==
  [][\A c \in Conns : told[c] # "refused" /\ told'[c] = "refused" =>
       IsOpen(routes[cProps[c].name].agent)]_vars

-----------------------------------------------------------------------------
(* The inductive invariant behind the safety properties *)

\* What a route holds at a place has registered for exactly this place, and what has
\* registered holds its place; no empty route is kept.
RoutesMatch ==
  /\ \A n \in DOMAIN routes :
       /\ routes[n].agent # None \/ ClientsOf(routes[n]) # {}
       /\ LET a == routes[n].agent
          IN  a # None => cProps[a] # None /\ cProps[a].name = n /\ cProps[a].type = "agent"
       /\ \A u \in Uuids : LET c == routes[n].clients[u]
                           IN  c # None => /\ cProps[c] # None
                                           /\ cProps[c].name = n /\ cProps[c].type = "client"
                                           /\ cProps[c].uuid = u
  /\ \A c \in Conns : cProps[c] # None => Registered(c)

\* The two sets hold the live connections, before and after their registration, which
\* only a connection that is going can have lost.
ConnStages ==
  \A c \in Conns :
    /\ c \in handshakeSockets => cProps[c] = None /\ connLife[c] \in {"open", "destroyed"}
    /\ cProps[c] # None => c \in controlSockets
    /\ c \in controlSockets => /\ connLife[c] \in {"open", "destroyed"}
                               /\ IsOpen(c) => cProps[c] # None

\* The connection that registers in this turn keeps its registration to the end of it.
TurnKept == turn # None /\ turn.registering => cProps[turn.conn] # None

\* Those who are told at the end of the turn.
Unanswered == IF turn # None /\ turn.registering THEN Audience(turn.conn) ELSE {}

\* Everybody else has been told the truth.
Answered ==
  \A n \in DOMAIN routes : \A c \in ClientsOf(routes[n]) \ Unanswered :
    Writable(c) => ToldTruth(c, routes[n].agent)

StopStages ==
  stopped => phase = "closed" /\ \A c \in Conns : connLife[c] \in {"fresh", "closed"}

\* T!IndInv is the data plane's own; RoutesCurrent, ReadinessTruth and StoppedClean
\* follow from it and from the parts above.
IndInv ==
  /\ TypeOK /\ T!IndInv
  /\ RoutesMatch /\ ConnStages /\ TurnKept
  /\ SessionsCurrent /\ StreamsOwned /\ Answered /\ StopStages

-----------------------------------------------------------------------------
(* Liveness, under FairSpec *)

\* No connection stays in its handshake: silent, refused or half closed, it is
\* classified or it goes.
HandshakeEnds ==
  \A c \in Conns : c \in handshakeSockets ~> c \notin handshakeSockets

\* close() resolves, whatever the peers and the streams do.
RelayStops == closing ~> stopped
=============================================================================
