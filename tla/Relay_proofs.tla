----------------------------- MODULE Relay_proofs ------------------------------
(***************************************************************************)
(* Proofs about Relay, for every set of connections, names, identities,    *)
(* data sockets and tickets, and every bound on ports and pending tunnels. *)
(***************************************************************************)
EXTENDS Relay, TLAPS

-----------------------------------------------------------------------------
(* The data plane under the relay: what DataTransport_proofs shows of the     *)
(* transport with any sessions holds of it with control connections.          *)

Proved == INSTANCE DataTransport_proofs WITH Sessions <- Conns

LEMMA SameInit == T!Init <=> Proved!Init
  BY Zenon DEF T!Init, Proved!Init, T!SocketsInit, Proved!SocketsInit

LEMMA SameInv == T!IndInv <=> Proved!IndInv
<1>1. T!TypeOK <=> Proved!TypeOK
  BY Zenon
  DEF T!TypeOK, T!PendingTunnels, T!ActiveTunnels, T!Claims, T!Types, T!SocketsTypeOK,
      Proved!TypeOK, Proved!PendingTunnels, Proved!ActiveTunnels, Proved!Claims, Proved!Types,
      Proved!SocketsTypeOK
<1>2. /\ T!SeatsClaimed <=> Proved!SeatsClaimed
      /\ T!ClaimsSeated <=> Proved!ClaimsSeated
      /\ T!TrackedExactly <=> Proved!TrackedExactly
      /\ T!ActiveHeld <=> Proved!ActiveHeld
      /\ T!OpenHeld <=> Proved!OpenHeld
  BY Zenon
  DEF T!SeatsClaimed, T!ClaimsSeated, T!TrackedExactly, T!ActiveHeld, T!OpenHeld, T!Types,
      Proved!SeatsClaimed, Proved!ClaimsSeated, Proved!TrackedExactly, Proved!ActiveHeld,
      Proved!OpenHeld, Proved!Types
<1>3. /\ T!CloseStages <=> Proved!CloseStages
      /\ T!SingleUse <=> Proved!SingleUse
      /\ T!JoinedByTicket <=> Proved!JoinedByTicket
      /\ T!HalvesForwarded <=> Proved!HalvesForwarded
  BY Zenon
  DEF T!CloseStages, T!closing, T!SingleUse, T!JoinedByTicket, T!HalvesForwarded,
      Proved!CloseStages, Proved!closing, Proved!SingleUse, Proved!JoinedByTicket,
      Proved!HalvesForwarded
<1> QED
  BY Zenon, <1>1, <1>2, <1>3 DEF T!IndInv, Proved!IndInv

LEMMA SameNext == T!Next => Proved!Next
<1>1. \A c, a, t : T!CreatePendingTunnel(c, a, t) => Proved!CreatePendingTunnel(c, a, t)
  <2>1. T!HasRoom => Proved!HasRoom
    BY Zenon DEF T!HasRoom, T!Cardinality, Proved!HasRoom, Proved!Cardinality
  <2> QED
    BY Zenon, <2>1
    DEF T!CreatePendingTunnel, T!closing, T!Put, T!Types, T!streams, T!bridgeVars,
        Proved!CreatePendingTunnel, Proved!closing, Proved!Put, Proved!Types,
        Proved!streams, Proved!bridgeVars
<1>2. \A s, m : T!Reject(s, m) => Proved!Reject(s, m)
  BY Zenon
  DEF T!Reject, T!SeatFree, T!closing, T!isDataMessage, T!Claims, T!Types, T!admin,
      Proved!Reject, Proved!SeatFree, Proved!closing, Proved!isDataMessage, Proved!Claims,
      Proved!Types, Proved!admin
<1>3. \A s, m : T!Seat(s, m) => Proved!Seat(s, m)
  BY Zenon
  DEF T!Seat, T!SeatFree, T!closing, T!isDataMessage, T!Claims, T!Types, T!OtherType, T!Seated,
      Proved!Seat, Proved!SeatFree, Proved!closing, Proved!isDataMessage, Proved!Claims,
      Proved!Types, Proved!OtherType, Proved!Seated
<1>4. \A s, m : T!Pair(s, m) => Proved!Pair(s, m)
  <2>1. \A m : T!SeatFree(m) => Proved!SeatFree(m)
    BY Zenon
    DEF T!SeatFree, T!closing, T!isDataMessage, T!Claims, T!Types,
        Proved!SeatFree, Proved!closing, Proved!isDataMessage, Proved!Claims, Proved!Types
  <2> QED
    BY ZenonT(60), <2>1
    DEF T!Pair, T!OtherType, T!Put, T!Without, T!Bridged, T!Forwarded,
        Proved!Pair, Proved!OtherType, Proved!Put, Proved!Without, Proved!Bridged,
        Proved!Forwarded
<1>5. \A s, m : T!AcceptSocket(s, m) => Proved!AcceptSocket(s, m)
  BY Zenon, <1>2, <1>3, <1>4 DEF T!AcceptSocket, Proved!AcceptSocket
<1>6. /\ \A t, x : T!CancelPendingTunnel(t, x) => Proved!CancelPendingTunnel(t, x)
      /\ \A x : T!CancelPendingForSession(x) => Proved!CancelPendingForSession(x)
      /\ \A x, y : T!ReplaceSession(x, y) => Proved!ReplaceSession(x, y)
      /\ \A t : T!PairingTimeout(t) => Proved!PairingTimeout(t)
  BY Zenon
  DEF T!CancelPendingTunnel, T!CancelPendingForSession, T!ReplaceSession, T!PairingTimeout,
      T!Cancel, T!PendingOf, T!SeatsOf, T!Types, T!Without, T!Destroyed,
      Proved!CancelPendingTunnel, Proved!CancelPendingForSession, Proved!ReplaceSession,
      Proved!PairingTimeout, Proved!Cancel, Proved!PendingOf, Proved!SeatsOf, Proved!Types,
      Proved!Without, Proved!Destroyed
<1>7. \A x : T!CloseAgentSession(x) => Proved!CloseAgentSession(x)
  BY Zenon
  DEF T!CloseAgentSession, T!PendingOf, T!SeatsOf, T!StreamsOf, T!Types, T!Without, T!Destroyed,
      Proved!CloseAgentSession, Proved!PendingOf, Proved!SeatsOf, Proved!StreamsOf,
      Proved!Types, Proved!Without, Proved!Destroyed
<1>8. /\ \A f : T!BeginClose(f) => Proved!BeginClose(f)
      /\ T!EndDrain => Proved!EndDrain
      /\ T!FinishClose => Proved!FinishClose
  BY Zenon
  DEF T!BeginClose, T!EndDrain, T!DrainOver, T!FinishClose, T!SeatsOf, T!Types, T!Without,
      T!Destroyed, T!streams, T!bridgeVars,
      Proved!BeginClose, Proved!EndDrain, Proved!DrainOver, Proved!FinishClose, Proved!SeatsOf,
      Proved!Types, Proved!Without, Proved!Destroyed, Proved!streams, Proved!bridgeVars
<1>9. \A s : /\ T!SocketError(s) => Proved!SocketError(s)
             /\ T!RemoteEnd(s) => Proved!RemoteEnd(s)
             /\ T!AutoDestroy(s) => Proved!AutoDestroy(s)
  BY Zenon
  DEF T!SocketError, T!RemoteEnd, T!AutoDestroy, T!SocketFails, T!SocketEnds, T!SocketFinishes,
      T!Destroyed, T!admin,
      Proved!SocketError, Proved!RemoteEnd, Proved!AutoDestroy, Proved!SocketFails,
      Proved!SocketEnds, Proved!SocketFinishes, Proved!Destroyed, Proved!admin
<1>10. \A s : T!CloseEvent(s) => Proved!CloseEvent(s)
  BY Zenon
  DEF T!CloseEvent, T!SocketCloses, T!PeerToDestroy, T!PeerToEnd, T!Destroyed, T!SeatsOf,
      T!WatchedTickets, T!Types, T!Departed, T!Without,
      Proved!CloseEvent, Proved!SocketCloses, Proved!PeerToDestroy, Proved!PeerToEnd,
      Proved!Destroyed, Proved!SeatsOf, Proved!WatchedTickets, Proved!Types, Proved!Departed,
      Proved!Without
<1>11. T!Requests => Proved!Requests
  BY Zenon, <1>1, <1>5, <1>6, <1>7, <1>8
  DEF T!Requests, Proved!Requests, T!Claims, Proved!Claims, T!Types, Proved!Types
<1>12. T!Progress \/ T!Environment => Proved!Progress \/ Proved!Environment
  BY Zenon, <1>6, <1>8, <1>9, <1>10
  DEF T!Progress, T!Environment, Proved!Progress, Proved!Environment
<1> QED
  BY Zenon, <1>11, <1>12 DEF T!Next, Proved!Next

\* The transport's invariant is preserved by its steps, also as the relay takes them.
LEMMA TransportKeeps == T!IndInv /\ T!Next => T!IndInv'
<1>1. /\ None \notin Sockets /\ None \notin Proved!Claims
      /\ MaxPending \in Nat \ {0}
  BY Zenon, TransportAssumption DEF T!Claims, T!Types, Proved!Claims, Proved!Types
<1>2. Proved!IndInv /\ Proved!Next => Proved!IndInv'
  BY <1>1, Proved!NextIndInv
<1> QED
  BY <1>2, SameInv, SameNext, PTL

LEMMA TransportStarts == T!Init => T!IndInv
<1>1. /\ None \notin Sockets /\ None \notin Proved!Claims
      /\ MaxPending \in Nat \ {0}
  BY Zenon, TransportAssumption DEF T!Claims, T!Types, Proved!Claims, Proved!Types
<1> QED
  BY <1>1, SameInit, SameInv, Proved!InitIndInv

-----------------------------------------------------------------------------
(* What the relay sees of the data plane *)

\* Tickets and streams go, and a stream begins with a ticket: what a step may do that
\* is none of the relay's business.
Calm ==
  /\ \A t \in DOMAIN pendingTunnels' :
       /\ t \in DOMAIN pendingTunnels
       /\ pendingTunnels'[t].clientSession = pendingTunnels[t].clientSession
       /\ pendingTunnels'[t].agentSession = pendingTunnels[t].agentSession
  /\ \A t \in DOMAIN activeTunnels' :
       \/ /\ t \in DOMAIN activeTunnels
          /\ activeTunnels'[t].agentSession = activeTunnels[t].agentSession
          /\ activeTunnels'[t].sockets \subseteq activeTunnels[t].sockets
          /\ \A s \in activeTunnels[t].sockets : life'[s] = "open" => life[s] = "open"
       \/ /\ t \in DOMAIN pendingTunnels
          /\ activeTunnels'[t].agentSession = pendingTunnels[t].agentSession
  /\ phase' = "open" => phase = "open"

\* Steps that drop some tickets and destroy some sockets are calm.
LEMMA DroppingIsCalm ==
  ASSUME T!IndInv, NEW K, NEW S, pendingTunnels' = T!Without(pendingTunnels, K),
         life' = T!Destroyed(S), UNCHANGED activeTunnels,
         phase' = "open" => phase = "open"
  PROVE  Calm
  BY DEF Calm, T!Without, T!Destroyed, T!IndInv, T!TypeOK, T!SocketsTypeOK, T!ActiveTunnels

\* A new socket is in no stream.
LEMMA NewSocketApart ==
  ASSUME T!IndInv, NEW s \in Sockets, life[s] = "new", NEW t \in DOMAIN activeTunnels
  PROVE  s \notin activeTunnels[t].sockets
  BY DEF T!IndInv, T!TrackedExactly, T!ActiveHeld

LEMMA AcceptIsCalm ==
  ASSUME T!IndInv, NEW s \in Sockets, NEW m, T!AcceptSocket(s, m)
  PROVE  Calm
<1>1. /\ life[s] = "new" /\ UNCHANGED phase
      /\ life' \in {[life EXCEPT ![s] = "destroyed"], [life EXCEPT ![s] = "open"]}
  BY DEF T!AcceptSocket, T!Reject, T!Seat, T!Pair, T!admin
<1>2. \A t \in DOMAIN activeTunnels : \A r \in activeTunnels[t].sockets :
        r \in Sockets /\ life'[r] = life[r]
  BY <1>1, NewSocketApart DEF T!IndInv, T!TypeOK, T!SocketsTypeOK, T!ActiveTunnels
<1>3. CASE T!Reject(s, m)
  BY <1>1, <1>2, <1>3 DEF T!Reject, T!admin, Calm
<1>4. CASE T!Seat(s, m)
  <2>1. /\ m.ticket \in DOMAIN pendingTunnels /\ UNCHANGED activeTunnels
        /\ pendingTunnels' =
             [pendingTunnels EXCEPT ![m.ticket] =
                T!Seated(pendingTunnels[m.ticket], m.type, s)]
    BY <1>4 DEF T!Seat, T!SeatFree
  <2>2. /\ T!Seated(pendingTunnels[m.ticket], m.type, s).clientSession =
             pendingTunnels[m.ticket].clientSession
        /\ T!Seated(pendingTunnels[m.ticket], m.type, s).agentSession =
             pendingTunnels[m.ticket].agentSession
    BY <2>1 DEF T!Seated, T!IndInv, T!TypeOK, T!PendingTunnels
  <2>3. \A t \in DOMAIN pendingTunnels' :
       /\ t \in DOMAIN pendingTunnels
       /\ pendingTunnels'[t].clientSession = pendingTunnels[t].clientSession
       /\ pendingTunnels'[t].agentSession = pendingTunnels[t].agentSession
    BY <2>1, <2>2 DEF T!IndInv, T!TypeOK
  <2> QED
    BY <1>1, <1>2, <2>1, <2>3 DEF Calm
<1>5. CASE T!Pair(s, m)
  <2> DEFINE k == m.ticket
             stream == [agentSession |-> pendingTunnels[k].agentSession,
                        sockets |-> {s, pendingTunnels[k].seat[T!OtherType(m.type)]}]
  <2>1. /\ k \in DOMAIN pendingTunnels
        /\ pendingTunnels' = T!Without(pendingTunnels, {k})
        /\ activeTunnels' = T!Put(activeTunnels, k, stream)
    BY <1>5 DEF T!Pair, T!SeatFree
  <2>2. /\ DOMAIN activeTunnels' = DOMAIN activeTunnels \cup {k}
        /\ activeTunnels'[k].agentSession = pendingTunnels[k].agentSession
        /\ \A t \in DOMAIN activeTunnels : t # k => activeTunnels'[t] = activeTunnels[t]
    BY <2>1 DEF T!Put
  <2> HIDE DEF stream
  <2> QED
    BY <1>1, <1>2, <2>1, <2>2 DEF Calm, T!Without
<1> QED
  BY <1>3, <1>4, <1>5 DEF T!AcceptSocket

LEMMA SocketEventIsCalm ==
  ASSUME T!IndInv, NEW s \in Sockets,
         T!AutoDestroy(s) \/ T!CloseEvent(s) \/ T!SocketError(s) \/ T!RemoteEnd(s)
  PROVE  Calm
<1>1. CASE T!AutoDestroy(s) \/ T!SocketError(s) \/ T!RemoteEnd(s)
  <2>1. /\ UNCHANGED <<phase, pendingTunnels, activeTunnels>>
        /\ \A r \in Sockets : life'[r] = "open" => life[r] = "open"
    BY <1>1
    DEF T!AutoDestroy, T!SocketError, T!RemoteEnd, T!SocketFinishes, T!SocketFails,
        T!SocketEnds, T!Destroyed, T!admin, T!IndInv, T!TypeOK, T!SocketsTypeOK
  <2> QED
    BY <2>1 DEF Calm, T!IndInv, T!TypeOK, T!ActiveTunnels
<1>2. CASE T!CloseEvent(s)
  <2>1. /\ UNCHANGED phase
        /\ pendingTunnels' = T!Without(pendingTunnels, T!WatchedTickets(s))
        /\ activeTunnels' = T!Departed(s)
        /\ \A r \in Sockets : life'[r] = "open" => life[r] = "open"
    BY <1>2 DEF T!CloseEvent, T!SocketCloses, T!Destroyed, T!IndInv, T!TypeOK, T!SocketsTypeOK
  <2>2. \A t \in DOMAIN activeTunnels' :
          /\ t \in DOMAIN activeTunnels
          /\ activeTunnels'[t] = [activeTunnels[t] EXCEPT !.sockets = @ \ {s}]
    BY <2>1 DEF T!Departed, T!Without
  <2> QED
    BY <2>1, <2>2 DEF Calm, T!Without, T!IndInv, T!TypeOK, T!ActiveTunnels
<1> QED
  BY <1>1, <1>2

LEMMA StageIsCalm ==
  ASSUME T!IndInv, \/ \E force \in BOOLEAN : T!BeginClose(force)
                   \/ T!EndDrain \/ T!FinishClose
                   \/ \E t \in Tickets : T!PairingTimeout(t)
                   \/ \E t, c : T!CancelPendingTunnel(t, c)
                   \/ \E c : T!CancelPendingForSession(c)
  PROVE  Calm
<1>1. ASSUME NEW force \in BOOLEAN, T!BeginClose(force) PROVE Calm
  BY <1>1, DroppingIsCalm DEF T!BeginClose
<1>2. CASE T!EndDrain
  <2>1. T!Without(pendingTunnels, {}) = pendingTunnels
    BY DEF T!Without, T!IndInv, T!TypeOK
  <2> QED
    BY <1>2, <2>1, DroppingIsCalm DEF T!EndDrain
<1>3. CASE T!FinishClose
  BY <1>3 DEF T!FinishClose, Calm
<1>4. ASSUME NEW t, T!PairingTimeout(t) PROVE Calm
  BY <1>4, DroppingIsCalm DEF T!PairingTimeout, T!Cancel
<1>5. ASSUME NEW t, NEW c, T!CancelPendingTunnel(t, c) PROVE Calm
  BY <1>5, DroppingIsCalm DEF T!CancelPendingTunnel, T!Cancel
<1>6. ASSUME NEW c, T!CancelPendingForSession(c) PROVE Calm
  BY <1>6, DroppingIsCalm DEF T!CancelPendingForSession, T!Cancel
<1> QED
  BY <1>1, <1>2, <1>3, <1>4, <1>5, <1>6

-----------------------------------------------------------------------------
(* Steps of the data plane *)

\* The relay's own variables, one by one, the history of tickets apart.
RelayUnchanged ==
  /\ UNCHANGED <<connLife, connEnded, handshakeSockets, controlSockets, cProps, routes, told,
                 turn, stopped>>
  /\ handed' \in SUBSET Tickets

\* Routes, registrations and answers are not about tickets and streams.
LEMMA RegistryStays ==
  ASSUME IndInv, T!IndInv', RelayUnchanged, closing => closing',
         stopped => phase' = "closed"
  PROVE  TypeOK' /\ RoutesMatch' /\ ConnStages' /\ TurnKept' /\ Answered' /\ StopStages'
<1>1. TypeOK'
  BY DEF RelayUnchanged, IndInv, TypeOK, T!IndInv
<1>2. RoutesMatch' /\ ConnStages' /\ TurnKept'
  BY DEF RelayUnchanged, IndInv, RoutesMatch, Registered, ClientsOf, ConnStages, IsOpen, TurnKept
<1>3. Answered'
  BY DEF RelayUnchanged, IndInv, Answered, Unanswered, Audience, RouteAt, NoRoute, ClientsOf,
         Writable, IsOpen, ToldTruth, TooManyPorts
<1>4. StopStages'
  BY DEF RelayUnchanged, IndInv, StopStages
<1> QED
  BY <1>1, <1>2, <1>3, <1>4

\* Tickets and streams that stay belong to the routes they belonged to.
LEMMA CalmKeeps ==
  ASSUME IndInv, Calm, UNCHANGED routes
  PROVE  SessionsCurrent' /\ StreamsOwned'
<1>1. SessionsCurrent'
  BY DEF Calm, IndInv, SessionsCurrent, ClientsOf
<1>2. StreamsOwned'
  <2> SUFFICES ASSUME NEW t \in DOMAIN activeTunnels', NEW s \in activeTunnels'[t].sockets,
                      life'[s] = "open", phase' = "open"
               PROVE  \E n \in DOMAIN routes : routes[n].agent = activeTunnels'[t].agentSession
    BY DEF StreamsOwned, closing, T!closing
  <2>1. CASE t \in DOMAIN pendingTunnels /\
             activeTunnels'[t].agentSession = pendingTunnels[t].agentSession
    BY <2>1 DEF IndInv, SessionsCurrent
  <2>2. CASE /\ t \in DOMAIN activeTunnels
             /\ activeTunnels'[t].agentSession = activeTunnels[t].agentSession
             /\ s \in activeTunnels[t].sockets /\ life[s] = "open"
    BY <2>2 DEF Calm, IndInv, StreamsOwned, closing, T!closing
  <2> QED
    BY <2>1, <2>2 DEF Calm
<1> QED
  BY <1>1, <1>2

LEMMA PlaneKeeps ==
  ASSUME IndInv, T!Next, Calm, UNCHANGED relayVars, stopped => phase' = "closed"
  PROVE  IndInv'
<1>1. T!IndInv'
  BY TransportKeeps DEF IndInv
<1>2. RelayUnchanged /\ (closing => closing')
  <2>1. handed \in SUBSET Tickets
    BY DEF IndInv, TypeOK
  <2> QED
    BY <2>1 DEF relayVars, connVars, routeVars, RelayUnchanged, Calm, closing, T!closing, IndInv,
                T!IndInv, T!TypeOK
<1>3. UNCHANGED routes
  BY <1>2 DEF RelayUnchanged
<1> QED
  BY <1>1, <1>2, <1>3, RegistryStays, CalmKeeps DEF IndInv

\* Data connections, timers, the events of their sockets, and the beginning of close().
LEMMA DataKeeps ==
  ASSUME IndInv, \/ \E s \in Sockets, m \in T!Claims \cup {None} : AcceptData(s, m)
                 \/ DataEvent
                 \/ \E force \in BOOLEAN : BeginClose(force)
  PROVE  IndInv'
<1>1. ASSUME NEW s \in Sockets, NEW m \in T!Claims \cup {None}, AcceptData(s, m) PROVE IndInv'
  <2>1. T!AcceptSocket(s, m) /\ phase # "closed" /\ UNCHANGED relayVars
    BY <1>1 DEF AcceptData
  <2>2. T!Next
    BY <2>1 DEF T!Next, T!Requests
  <2>3. Calm
    BY <2>1, AcceptIsCalm DEF IndInv
  <2> QED
    BY <2>1, <2>2, <2>3, PlaneKeeps DEF IndInv, StopStages
<1>2. CASE DataEvent
  <2>1. UNCHANGED relayVars
    BY <1>2 DEF DataEvent
  <2>2. ASSUME NEW t \in Tickets, T!PairingTimeout(t) PROVE IndInv'
    <3>1. Calm /\ T!Next /\ UNCHANGED phase
      BY <2>2, StageIsCalm DEF IndInv, T!Next, T!Progress, T!PairingTimeout
    <3> QED
      BY <2>1, <3>1, PlaneKeeps DEF IndInv, StopStages
  <2>3. CASE T!EndDrain
    <3>1. Calm /\ T!Next /\ phase = "draining"
      BY <2>3, StageIsCalm DEF IndInv, T!Next, T!Progress, T!EndDrain, T!DrainOver
    <3> QED
      BY <2>1, <3>1, PlaneKeeps DEF IndInv, StopStages
  <2>4. ASSUME NEW s \in Sockets,
               T!AutoDestroy(s) \/ T!CloseEvent(s) \/ T!SocketError(s) \/ T!RemoteEnd(s)
        PROVE  IndInv'
    <3>1. Calm /\ T!Next
      BY <2>4, SocketEventIsCalm DEF IndInv, T!Next, T!Progress, T!Environment
    <3>2. UNCHANGED phase
      BY <2>4 DEF T!AutoDestroy, T!CloseEvent, T!SocketError, T!RemoteEnd, T!admin
    <3> QED
      BY <2>1, <3>1, <3>2, PlaneKeeps DEF IndInv, StopStages
  <2> QED
    BY <1>2, <2>2, <2>3, <2>4 DEF DataEvent
<1>3. ASSUME NEW force \in BOOLEAN, BeginClose(force) PROVE IndInv'
  <2>1. T!BeginClose(force) /\ phase = "open" /\ UNCHANGED relayVars
    BY <1>3 DEF BeginClose, T!BeginClose
  <2>2. Calm /\ T!Next
    BY <2>1, StageIsCalm DEF IndInv, T!Next, T!Requests
  <2> QED
    BY <2>1, <2>2, PlaneKeeps DEF IndInv, StopStages
<1> QED
  BY <1>1, <1>2, <1>3

-----------------------------------------------------------------------------
(* Messages that reach the data plane *)

LEMMA CancelKeeps ==
  ASSUME IndInv, NEW c \in Conns, NEW t \in Tickets, MessageCancel(c, t)
  PROVE  IndInv'
<1>1. T!CancelPendingTunnel(t, c) /\ UNCHANGED relayVars /\ UNCHANGED phase
  BY DEF MessageCancel, T!CancelPendingTunnel
<1>2. Calm /\ T!Next
  BY <1>1, StageIsCalm DEF IndInv, T!Next, T!Requests
<1> QED
  BY <1>1, <1>2, PlaneKeeps DEF IndInv, StopStages

\* Who may open a tunnel is the current client of a route that has its agent.
LEMMA OpenerIsCurrent ==
  ASSUME IndInv, NEW c \in Conns, NEW i, CanOpen(c, i)
  PROVE  LET n == cProps[c].name
         IN  /\ n \in DOMAIN routes /\ routes[n].agent \in Conns
             /\ RouteAt(n).agent = routes[n].agent
             /\ c \in ClientsOf(routes[n]) /\ c # routes[n].agent
<1> DEFINE n == cProps[c].name
<1>1. /\ cProps[c] \in CProps /\ cProps[c].type = "client"
      /\ RouteAt(n).agent # None
  BY DEF CanOpen, IndInv, TypeOK
<1>2. n \in DOMAIN routes /\ RouteAt(n) = routes[n]
  BY <1>1 DEF RouteAt, NoRoute
<1>3. routes[n].agent \in Conns
  BY <1>1, <1>2 DEF IndInv, TypeOK, Routes
<1>4. c # routes[n].agent
  BY <1>1, <1>2, <1>3, NoConnAssumption DEF IndInv, RoutesMatch
<1>5. c \in ClientsOf(routes[n])
  BY <1>1, <1>2, NoConnAssumption DEF CanOpen, ClientsOf, CProps
<1> QED
  BY <1>2, <1>3, <1>4, <1>5

LEMMA OpenKeeps ==
  ASSUME IndInv, NEW c \in Conns, NEW t \in Tickets, NEW i, MessageOpen(c, i, t)
  PROVE  IndInv'
<1> DEFINE n == cProps[c].name
           a == routes[n].agent
<1>1. /\ n \in DOMAIN routes /\ a \in Conns /\ c \in ClientsOf(routes[n]) /\ c # a
      /\ T!CreatePendingTunnel(c, a, t) /\ RelayUnchanged
  BY OpenerIsCurrent DEF MessageOpen, connVars, RelayUnchanged, IndInv, TypeOK
<1>2. T!IndInv'
  BY <1>1, TransportKeeps DEF IndInv, T!Next, T!Requests
<1>3. /\ UNCHANGED <<phase, activeTunnels, life>>
      /\ DOMAIN pendingTunnels' = DOMAIN pendingTunnels \cup {t}
      /\ pendingTunnels'[t].clientSession = c /\ pendingTunnels'[t].agentSession = a
      /\ \A u \in DOMAIN pendingTunnels : u # t => pendingTunnels'[u] = pendingTunnels[u]
  BY <1>1 DEF T!CreatePendingTunnel, T!Put, T!streams, T!bridgeVars
<1>4. UNCHANGED routes
  BY <1>1 DEF RelayUnchanged
<1>5. SessionsCurrent'
  BY <1>1, <1>3, <1>4 DEF IndInv, SessionsCurrent, ClientsOf
<1>6. StreamsOwned'
  BY <1>3, <1>4 DEF IndInv, StreamsOwned, closing, T!closing
<1> QED
  BY <1>1, <1>2, <1>3, <1>5, <1>6, RegistryStays
  DEF IndInv, StopStages, closing, T!closing

\* A ticket that was drawn for nothing.
LEMMA OpenUnsentKeeps ==
  ASSUME IndInv, NEW c \in Conns, NEW t \in Tickets, NEW i, MessageOpenUnsent(c, i, t)
  PROVE  IndInv'
<1>1. /\ RelayUnchanged /\ issued' = issued \cup {t}
      /\ UNCHANGED <<phase, pendingTunnels, activeTunnels, dataSockets, waiting, life, hadError,
                     readEnded, writeEnded, bridge, claim>>
  BY DEF MessageOpenUnsent, relayVars, connVars, routeVars, RelayUnchanged, streamVars, IndInv,
         TypeOK
<1>2. T!IndInv'
  <2>1. T!TypeOK'
    BY <1>1 DEF IndInv, T!IndInv, T!TypeOK, T!SocketsTypeOK
  <2>2. T!ClaimsSeated'
    BY <1>1 DEF IndInv, T!IndInv, T!ClaimsSeated
  <2>3. T!SeatsClaimed' /\ T!TrackedExactly' /\ T!ActiveHeld' /\ T!OpenHeld' /\ T!CloseStages'
    BY <1>1
    DEF IndInv, T!IndInv, T!SeatsClaimed, T!TrackedExactly, T!ActiveHeld, T!OpenHeld,
        T!CloseStages, T!closing
  <2>4. T!SingleUse' /\ T!JoinedByTicket' /\ T!HalvesForwarded'
    BY <1>1 DEF IndInv, T!IndInv, T!SingleUse, T!JoinedByTicket, T!HalvesForwarded
  <2> QED
    BY <2>1, <2>2, <2>3, <2>4 DEF T!IndInv
<1>3. Calm
  BY <1>1 DEF Calm
<1>4. UNCHANGED routes
  BY <1>1 DEF RelayUnchanged
<1> QED
  BY <1>1, <1>2, <1>3, <1>4, RegistryStays, CalmKeeps DEF IndInv, StopStages, closing, T!closing

-----------------------------------------------------------------------------
(* Steps of the control connections alone *)

LEMMA PlaneStays ==
  ASSUME IndInv, UNCHANGED transportVars
  PROVE  T!IndInv' /\ Calm /\ UNCHANGED phase
<1>1. T!IndInv'
  <2>1. /\ None \notin Sockets /\ None \notin Proved!Claims
        /\ MaxPending \in Nat \ {0}
    BY Zenon, TransportAssumption DEF T!Claims, T!Types, Proved!Claims, Proved!Types
  <2>2. UNCHANGED Proved!transportVars
    BY DEF transportVars, streamVars, Proved!transportVars, Proved!admin, Proved!streams,
           Proved!bridgeVars
  <2>3. Proved!IndInv'
    BY <2>1, <2>2, SameInv, Proved!NextIndInv DEF IndInv
  <2> QED
    BY <2>3, SameInv, PTL
<1>2. Calm
  BY DEF transportVars, streamVars, Calm
<1> QED
  BY <1>1, <1>2 DEF transportVars

\* Connections are destroyed or ended, and nobody is told anything.
LEMMA FateKeeps ==
  ASSUME IndInv, T!IndInv', Calm, stopped => phase' = "closed",
         connLife' \in [Conns -> {"fresh", "open", "destroyed", "closed"}],
         \A c \in Conns : \/ connLife'[c] = connLife[c]
                          \/ connLife[c] = "open" /\ connLife'[c] = "destroyed",
         connEnded' \in SUBSET Conns, connEnded \subseteq connEnded',
         UNCHANGED <<handshakeSockets, controlSockets, cProps, routes, told, handed, turn, stopped>>
  PROVE  IndInv'
<1>1. TypeOK'
  BY DEF IndInv, TypeOK, T!IndInv
<1>2. RoutesMatch' /\ TurnKept'
  <2>1. UNCHANGED <<cProps, routes, turn>>
    OBVIOUS
  <2>2. RoutesMatch'
    BY <2>1 DEF IndInv, RoutesMatch, Registered, ClientsOf
  <2>3. TurnKept'
    BY <2>1 DEF IndInv, TurnKept
  <2> QED
    BY <2>2, <2>3
<1>3. ConnStages'
  BY DEF IndInv, ConnStages, IsOpen
<1>4. Answered'
  <2> SUFFICES ASSUME NEW n \in DOMAIN routes, NEW c \in ClientsOf(routes[n]) \ Unanswered,
                      Writable(c)'
               PROVE  ToldTruth(c, routes[n].agent)'
    BY DEF Answered, Unanswered, Audience, RouteAt, NoRoute, ClientsOf
  <2>1. c \in Conns /\ routes[n].agent \in Conns \cup {None}
    BY DEF ClientsOf, IndInv, TypeOK, Routes
  <2>2. Writable(c)
    BY <2>1 DEF Writable, IsOpen
  <2>3. closing => closing'
    BY DEF Calm, closing, T!closing, IndInv, T!IndInv, T!TypeOK
  <2>4. ToldTruth(c, routes[n].agent)
    BY <2>2 DEF IndInv, Answered
  <2> QED
    BY <2>1, <2>3, <2>4 DEF ToldTruth, TooManyPorts, IsOpen
<1>5. StopStages'
  BY DEF IndInv, StopStages
<1>6. SessionsCurrent' /\ StreamsOwned'
  BY CalmKeeps
<1> QED
  BY <1>1, <1>2, <1>3, <1>4, <1>5, <1>6 DEF IndInv

LEMMA DestroyedConns ==
  ASSUME IndInv, NEW S, connLife' = DestroyConns(S)
  PROVE  /\ connLife' \in [Conns -> {"fresh", "open", "destroyed", "closed"}]
         /\ \A c \in Conns : connLife'[c] =
              IF c \in S /\ connLife[c] = "open" THEN "destroyed" ELSE connLife[c]
  BY DEF DestroyConns, IsOpen, IndInv, TypeOK

LEMMA DestroyingKeeps ==
  ASSUME IndInv, NEW c \in Conns,
         FirstInvalid(c) \/ HandshakeTimeout(c) \/ MessageInvalid(c) \/ Lose(c)
  PROVE  IndInv'
<1>1. /\ connLife' = DestroyConns({c}) /\ UNCHANGED transportVars
      /\ UNCHANGED <<connEnded, handshakeSockets, controlSockets, cProps, routes, told, handed,
                     turn, stopped>>
  BY DEF FirstInvalid, HandshakeTimeout, MessageInvalid, Lose, routeVars
<1>2. T!IndInv' /\ Calm /\ UNCHANGED phase
  BY <1>1, PlaneStays
<1>3. connEnded' \in SUBSET Conns /\ connEnded \subseteq connEnded' /\ (stopped => phase' = "closed")
  BY <1>1, <1>2 DEF IndInv, TypeOK, StopStages
<1> QED
  BY <1>1, <1>2, <1>3, DestroyedConns, FateKeeps

LEMMA EndingKeeps ==
  ASSUME IndInv, NEW c \in Conns,
         \/ FirstMismatch(c) \/ MessageMismatch(c) \/ RemoteEnd(c)
         \/ \E props \in CProps : RefuseDuplicate(c, props)
  PROVE  IndInv'
<1>1. /\ connEnded' = connEnded \cup {c} /\ UNCHANGED transportVars
      /\ UNCHANGED <<connLife, handshakeSockets, controlSockets, cProps, routes, told, handed,
                     turn, stopped>>
  BY DEF FirstMismatch, MessageMismatch, RemoteEnd, RefuseDuplicate, routeVars
<1>2. T!IndInv' /\ Calm /\ UNCHANGED phase
  BY <1>1, PlaneStays
<1>3. /\ connEnded' \in SUBSET Conns /\ connEnded \subseteq connEnded'
      /\ connLife' \in [Conns -> {"fresh", "open", "destroyed", "closed"}]
      /\ stopped => phase' = "closed"
  BY <1>1, <1>2 DEF IndInv, TypeOK, StopStages
<1> QED
  BY <1>1, <1>2, <1>3, FateKeeps

\* A new connection is registered nowhere.
LEMMA IncomingKeeps ==
  ASSUME IndInv, NEW c \in Conns, HandleIncoming(c)
  PROVE  IndInv'
<1>1. /\ connLife[c] = "fresh" /\ connLife' = [connLife EXCEPT ![c] = "open"]
      /\ handshakeSockets' = handshakeSockets \cup {c} /\ ~closing /\ UNCHANGED transportVars
      /\ UNCHANGED <<connEnded, controlSockets, cProps, routes, told, handed, turn, stopped>>
  BY DEF HandleIncoming, routeVars
<1>2. T!IndInv' /\ Calm /\ UNCHANGED phase
  BY <1>1, PlaneStays
<1>3. \A d \in Conns : connLife'[d] = IF d = c THEN "open" ELSE connLife[d]
  BY <1>1 DEF IndInv, TypeOK
<1>4. cProps[c] = None /\ c \notin controlSockets
  BY <1>1 DEF IndInv, ConnStages
<1>5. TypeOK'
  BY <1>1, <1>2 DEF IndInv, TypeOK, T!IndInv
<1>6. RoutesMatch' /\ TurnKept'
  <2>1. UNCHANGED <<cProps, routes, turn>>
    BY <1>1
  <2>2. RoutesMatch'
    BY <2>1 DEF IndInv, RoutesMatch, Registered, ClientsOf
  <2>3. TurnKept'
    BY <2>1 DEF IndInv, TurnKept
  <2> QED
    BY <2>2, <2>3
<1>7. ConnStages'
  BY <1>1, <1>3, <1>4 DEF IndInv, ConnStages, IsOpen
<1>8. Answered'
  <2> SUFFICES ASSUME NEW n \in DOMAIN routes, NEW d \in ClientsOf(routes[n]) \ Unanswered,
                      Writable(d)'
               PROVE  ToldTruth(d, routes[n].agent)'
    BY <1>1 DEF Answered, Unanswered, Audience, RouteAt, NoRoute, ClientsOf
  <2>1. d \in Conns /\ routes[n].agent \in Conns \cup {None}
    BY DEF ClientsOf, IndInv, TypeOK, Routes
  <2>2. d # c /\ routes[n].agent # c
    BY <1>4, <2>1, NoConnAssumption DEF IndInv, RoutesMatch, ClientsOf
  <2>3. Writable(d)
    BY <1>1, <1>3, <2>1, <2>2 DEF Writable, IsOpen
  <2>4. ToldTruth(d, routes[n].agent)
    BY <2>3 DEF IndInv, Answered
  <2> QED
    BY <1>1, <1>2, <1>3, <2>1, <2>2, <2>4
    DEF ToldTruth, TooManyPorts, IsOpen, closing, T!closing
<1>9. StopStages'
  BY <1>1 DEF IndInv, StopStages, closing, T!closing
<1>10. SessionsCurrent' /\ StreamsOwned'
  BY <1>1, <1>2, CalmKeeps
<1> QED
  BY <1>2, <1>5, <1>6, <1>7, <1>8, <1>9, <1>10 DEF IndInv

\* Steps that leave tickets, routes and connections alone.
LEMMA BookkeepingKeeps ==
  ASSUME IndInv, UNCHANGED transportVars, TypeOK', TurnKept', Answered', StopStages',
         UNCHANGED <<connLife, handshakeSockets, controlSockets, cProps, routes>>
  PROVE  IndInv'
<1>1. T!IndInv' /\ Calm
  BY PlaneStays
<1>2. RoutesMatch' /\ ConnStages'
  BY DEF IndInv, RoutesMatch, Registered, ClientsOf, ConnStages, IsOpen
<1>3. SessionsCurrent' /\ StreamsOwned'
  BY <1>1, CalmKeeps
<1> QED
  BY <1>1, <1>2, <1>3 DEF IndInv

LEMMA ChunkKeeps ==
  ASSUME IndInv, NEW c \in Conns, ReadChunk(c)
  PROVE  IndInv'
<1>1. /\ turn = None /\ turn' = [conn |-> c, registering |-> FALSE]
      /\ UNCHANGED <<connLife, connEnded, handshakeSockets, controlSockets, cProps, routes, told,
                     handed, stopped>>
      /\ UNCHANGED transportVars
  BY DEF ReadChunk, connVars, routeVars
<1>2. T!IndInv' /\ UNCHANGED phase
  BY <1>1, PlaneStays
<1>3. TypeOK' /\ TurnKept' /\ StopStages'
  BY <1>1, <1>2 DEF IndInv, TypeOK, Turns, T!IndInv, TurnKept, StopStages
<1>4. Answered'
  <2>1. Unanswered = {} /\ Unanswered' = {}
    BY <1>1 DEF Unanswered
  <2> QED
    BY <1>1, <1>2, <2>1
    DEF IndInv, Answered, ClientsOf, Writable, IsOpen, ToldTruth, TooManyPorts, closing, T!closing
<1> QED
  BY <1>1, <1>3, <1>4, BookkeepingKeeps

\* A client that is told about its agent and stays is told the truth.
LEMMA NotifiedTruth ==
  ASSUME IndInv, NEW S, NEW c \in Conns, NEW agent, c \in S, Writable(c),
         cProps[c].type = "client", c \notin NotifiedEnded(S, agent)
  PROVE  /\ ~TooManyPorts(c, agent)
         /\ NotifiedTold(S, agent)[c] =
              IF agent # None /\ IsOpen(agent) THEN "ready" ELSE "waiting"
  BY DEF NotifiedEnded, NotifiedTold, Status

LEMMA NotifiedType ==
  ASSUME IndInv, NEW S, NEW agent, S \subseteq Conns
  PROVE  /\ NotifiedTold(S, agent) \in [Conns -> {"nothing", "ready", "waiting", "refused"}]
         /\ NotifiedEnded(S, agent) \in SUBSET Conns
         /\ connEnded \subseteq NotifiedEnded(S, agent)
         /\ \A c \in Conns : c \notin S => NotifiedTold(S, agent)[c] = told[c]
  BY DEF NotifiedEnded, NotifiedTold, Status, IndInv, TypeOK

\* Those who are told about a registration are clients of its route, or registered there.
LEMMA AudienceOfRoute ==
  ASSUME IndInv, NEW c \in Conns, cProps[c] # None
  PROVE  LET n == cProps[c].name
         IN  /\ n \in DOMAIN routes /\ RouteAt(n) = routes[n]
             /\ Audience(c) \subseteq Conns
             /\ \A d \in Audience(c) : cProps[d] # None /\ cProps[d].name = n
<1> DEFINE n == cProps[c].name
<1>1. n \in DOMAIN routes /\ RouteAt(n) = routes[n]
  BY DEF IndInv, RoutesMatch, Registered, RouteAt
<1>2. \A d \in ClientsOf(routes[n]) : d \in Conns /\ cProps[d] # None /\ cProps[d].name = n
  BY <1>1 DEF ClientsOf, IndInv, TypeOK, Routes, RoutesMatch
<1> QED
  BY <1>1, <1>2 DEF Audience

LEMMA EndTurnKeeps ==
  ASSUME IndInv, EndTurn
  PROVE  IndInv'
<1> DEFINE c == turn.conn
           agent == RouteAt(cProps[c].name).agent
           S == IF turn.registering THEN Audience(c) ELSE {}
<1>1. /\ turn # None /\ turn' = None
      /\ UNCHANGED <<connLife, handshakeSockets, controlSockets, cProps, routes, handed, stopped>>
      /\ UNCHANGED transportVars
  BY DEF EndTurn
<1>2. T!IndInv' /\ UNCHANGED phase
  BY <1>1, PlaneStays
<1>3. turn \in [conn : Conns, registering : BOOLEAN]
  BY <1>1 DEF IndInv, TypeOK, Turns
<1>4. CASE turn.registering
  <2>1. /\ told' = NotifiedTold(Audience(c), agent)
        /\ connEnded' = NotifiedEnded(Audience(c), agent)
        /\ c \in Conns /\ cProps[c] # None
    BY <1>1, <1>3, <1>4 DEF EndTurn, IndInv, TurnKept
  <2> DEFINE n == cProps[c].name
  <2>2. /\ n \in DOMAIN routes /\ agent = routes[n].agent
        /\ Audience(c) \subseteq Conns
        /\ \A d \in Audience(c) : cProps[d] # None /\ cProps[d].name = n
    BY <2>1, AudienceOfRoute
  <2>3. /\ told' \in [Conns -> {"nothing", "ready", "waiting", "refused"}]
        /\ connEnded' \in SUBSET Conns /\ connEnded \subseteq connEnded'
        /\ \A d \in Conns : d \notin Audience(c) => told'[d] = told[d]
    BY <2>1, <2>2, NotifiedType
  <2>4. TypeOK' /\ TurnKept' /\ StopStages'
    BY <1>1, <1>2, <2>3 DEF IndInv, TypeOK, T!IndInv, TurnKept, StopStages
  <2>5. Answered'
    <3> SUFFICES ASSUME NEW m \in DOMAIN routes, NEW d \in ClientsOf(routes[m]), Writable(d)'
                 PROVE  ToldTruth(d, routes[m].agent)'
      BY <1>1 DEF Answered, ClientsOf
    <3>1. d \in Conns /\ cProps[d] # None /\ cProps[d].name = m /\ cProps[d].type = "client"
      BY DEF ClientsOf, IndInv, TypeOK, Routes, RoutesMatch
    <3>2. Writable(d) /\ d \notin connEnded'
      BY <1>1, <2>3 DEF Writable, IsOpen
    <3>3. CASE d \in Audience(c)
      <4>1. m = n /\ routes[m].agent = agent
        BY <2>2, <3>1, <3>3
      <4>2. /\ ~TooManyPorts(d, agent)
            /\ told'[d] = IF agent # None /\ IsOpen(agent) THEN "ready" ELSE "waiting"
        BY <2>1, <3>1, <3>2, <3>3, NotifiedTruth
      <4> QED
        BY <1>1, <4>1, <4>2 DEF ToldTruth, TooManyPorts, IsOpen
    <3>4. CASE d \notin Audience(c)
      <4>1. ToldTruth(d, routes[m].agent)
        BY <3>2, <3>4 DEF Unanswered, IndInv, Answered
      <4> QED
        BY <1>1, <1>2, <2>3, <3>1, <3>4, <4>1
        DEF ToldTruth, TooManyPorts, IsOpen, closing, T!closing
    <3> QED
      BY <3>3, <3>4
  <2> QED
    BY <1>1, <2>4, <2>5, BookkeepingKeeps
<1>5. CASE ~turn.registering
  <2>1. UNCHANGED <<told, connEnded>>
    BY <1>1, <1>5 DEF EndTurn
  <2>2. TypeOK' /\ TurnKept' /\ StopStages'
    BY <1>1, <1>2, <2>1 DEF IndInv, TypeOK, T!IndInv, TurnKept, StopStages
  <2>3. Unanswered = {}
    BY <1>5 DEF Unanswered
  <2>4. Answered'
    BY <1>1, <1>2, <2>1, <2>3
    DEF IndInv, Answered, ClientsOf, Writable, IsOpen, ToldTruth, TooManyPorts, closing, T!closing
  <2> QED
    BY <1>1, <2>2, <2>4, BookkeepingKeeps
<1> QED
  BY <1>4, <1>5

LEMMA StopKeeps ==
  ASSUME IndInv, Stop
  PROVE  IndInv'
<1>1. /\ turn = None /\ phase = "closed" /\ AllClosed /\ stopped' = TRUE
      /\ UNCHANGED <<connLife, connEnded, handshakeSockets, controlSockets, cProps, routes, told,
                     handed, turn>>
      /\ UNCHANGED transportVars
  BY DEF Stop, connVars, routeVars
<1>2. T!IndInv' /\ UNCHANGED phase
  BY <1>1, PlaneStays
<1>3. TypeOK' /\ TurnKept' /\ StopStages'
  BY <1>1, <1>2 DEF IndInv, TypeOK, T!IndInv, TurnKept, StopStages, AllClosed
<1>4. Answered'
  BY <1>1, <1>2
  DEF IndInv, Answered, Unanswered, Audience, RouteAt, NoRoute, ClientsOf, Writable, IsOpen,
      ToldTruth, TooManyPorts, closing, T!closing
<1> QED
  BY <1>1, <1>3, <1>4, BookkeepingKeeps

LEMMA DestroyControlKeeps ==
  ASSUME IndInv, DestroyControl
  PROVE  IndInv'
<1>1. /\ T!FinishClose /\ connLife' = DestroyConns(Remaining)
      /\ UNCHANGED <<connEnded, handshakeSockets, controlSockets, cProps, routes, told, handed,
                     turn, stopped>>
  BY DEF DestroyControl, routeVars
<1>2. T!IndInv' /\ Calm /\ phase' = "closed"
  BY <1>1, TransportKeeps, StageIsCalm DEF IndInv, T!Next, T!Progress, T!FinishClose
<1>3. connEnded' \in SUBSET Conns /\ connEnded \subseteq connEnded'
  BY <1>1 DEF IndInv, TypeOK
<1> QED
  BY <1>1, <1>2, <1>3, DestroyedConns, FateKeeps

-----------------------------------------------------------------------------
(* A registration *)

\* What it takes the place of is what registered for the same place, and is another
\* connection.
LEMMA PreviousPlace ==
  ASSUME IndInv, NEW c \in Conns, NEW props \in CProps, AwaitsFirst(c), ~DuplicateAgent(props)
  PROVE  LET p == Previous(props)
             n == props.name
         IN  /\ cProps[c] = None /\ c # p /\ connLife[c] = "open" /\ turn = None
             /\ c \in handshakeSockets /\ p \in Conns \cup {None}
             /\ p # None => /\ n \in DOMAIN routes
                            /\ cProps[p] # None /\ cProps[p].name = n
                            /\ cProps[p].type = props.type /\ cProps[p].uuid = props.uuid
             /\ n \in DOMAIN routes =>
                  p = IF props.type = "agent" THEN routes[n].agent
                                              ELSE routes[n].clients[props.uuid]
<1> DEFINE p == Previous(props)
           n == props.name
<1>1. /\ connLife[c] = "open" /\ turn = None /\ c \in handshakeSockets /\ cProps[c] = None
  BY DEF AwaitsFirst, Writable, IsOpen, IndInv, ConnStages
<1>2. props.type \in {"agent", "client"} /\ props.uuid \in Uuids
  BY DEF CProps, Types
<1>3. CASE n \in DOMAIN routes
  <2>1. p = IF props.type = "agent" THEN routes[n].agent ELSE routes[n].clients[props.uuid]
    BY <1>3 DEF Previous, RouteAt
  <2>2. p \in Conns \cup {None}
    BY <1>2, <1>3, <2>1 DEF IndInv, TypeOK, Routes
  <2>3. p # None => /\ cProps[p] # None /\ cProps[p].name = n
                    /\ cProps[p].type = props.type /\ cProps[p].uuid = props.uuid
    BY <1>2, <1>3, <2>1 DEF IndInv, RoutesMatch, DuplicateAgent
  <2> QED
    BY <1>1, <1>3, <2>1, <2>2, <2>3, NoConnAssumption
<1>4. CASE n \notin DOMAIN routes
  <2>1. p = None
    BY <1>2, <1>4 DEF Previous, RouteAt, NoRoute
  <2> QED
    BY <1>1, <1>4, <2>1, NoConnAssumption
<1> QED
  BY <1>3, <1>4

\* The places of the registry afterwards: the new connection has its place, and the rest
\* stays.
LEMMA PlacesAfter ==
  ASSUME IndInv, NEW c \in Conns, NEW props \in CProps, Register(c, props)
  PROVE  LET n == props.name
         IN  /\ DOMAIN routes' = DOMAIN routes \cup {n}
             /\ \A m \in DOMAIN routes : m # n => routes'[m] = routes[m]
             /\ routes' \in [DOMAIN routes' -> Routes]
             /\ IF props.type = "agent"
                THEN /\ routes'[n].agent = c
                     /\ routes'[n].clients = RouteAt(n).clients
                ELSE /\ routes'[n].agent = RouteAt(n).agent
                     /\ routes'[n].clients[props.uuid] = c
                     /\ \A u \in Uuids : u # props.uuid =>
                          routes'[n].clients[u] = RouteAt(n).clients[u]
<1> DEFINE n == props.name
           route == RouteAt(n)
           new == IF props.type = "agent" THEN [route EXCEPT !.agent = c]
                                          ELSE [route EXCEPT !.clients[props.uuid] = c]
<1>1. routes' = T!Put(routes, n, new)
  BY DEF Register
<1>2. n \in Names /\ props.uuid \in Uuids
  BY DEF CProps
<1>3. route \in Routes
  <2>1. NoRoute \in Routes
    BY DEF NoRoute, Routes
  <2> QED
    BY <2>1 DEF RouteAt, IndInv, TypeOK
<1>4. /\ new \in Routes
      /\ IF props.type = "agent"
         THEN new.agent = c /\ new.clients = route.clients
         ELSE /\ new.agent = route.agent
              /\ new.clients[props.uuid] = c
              /\ \A u \in Uuids : u # props.uuid => new.clients[u] = route.clients[u]
  BY <1>2, <1>3 DEF Routes
<1> HIDE DEF new
<1>5. /\ DOMAIN routes' = DOMAIN routes \cup {n} /\ routes'[n] = new
      /\ \A m \in DOMAIN routes : m # n => routes'[m] = routes[m]
  BY <1>1 DEF T!Put
<1>6. routes' \in [DOMAIN routes' -> Routes]
  <2>1. \A m \in DOMAIN routes' : routes'[m] \in Routes
    BY <1>4, <1>5 DEF IndInv, TypeOK
  <2>2. routes' = [m \in DOMAIN routes' |-> routes'[m]]
    BY <1>1 DEF T!Put
  <2> QED
    BY <2>1, <2>2
<1> QED
  BY <1>4, <1>5, <1>6

\* What the transport does of it: the tickets of the replaced session are gone, and its
\* streams belong to the new one.
LEMMA HandedOver ==
  ASSUME IndInv, NEW c \in Conns, NEW p \in Conns \cup {None}, c # p, HandOver(p, c)
  PROVE  /\ T!IndInv' /\ UNCHANGED phase
         /\ \A t \in DOMAIN pendingTunnels' :
              /\ t \in DOMAIN pendingTunnels
              /\ pendingTunnels'[t] = pendingTunnels[t]
              /\ pendingTunnels[t].clientSession # p /\ pendingTunnels[t].agentSession # p
         /\ \A t \in DOMAIN activeTunnels' :
              /\ t \in DOMAIN activeTunnels
              /\ activeTunnels'[t].sockets = activeTunnels[t].sockets
              /\ activeTunnels'[t].agentSession =
                   IF activeTunnels[t].agentSession = p THEN c ELSE activeTunnels[t].agentSession
              /\ \A s \in activeTunnels[t].sockets : life'[s] = "open" => life[s] = "open"
<1>1. CASE p = None
  <2>1. UNCHANGED transportVars
    BY <1>1 DEF HandOver
  <2>2. T!IndInv' /\ UNCHANGED phase
    BY <2>1, PlaneStays
  <2>3. \A t \in DOMAIN pendingTunnels :
          pendingTunnels[t].clientSession # p /\ pendingTunnels[t].agentSession # p
    BY <1>1, NoConnAssumption DEF IndInv, T!IndInv, T!TypeOK, T!PendingTunnels
  <2>4. \A t \in DOMAIN activeTunnels : activeTunnels[t].agentSession # p
    BY <1>1, NoConnAssumption DEF IndInv, T!IndInv, T!TypeOK, T!ActiveTunnels
  <2> QED
    BY <2>1, <2>2, <2>3, <2>4 DEF transportVars, streamVars
<1>2. CASE p # None
  <2>1. T!ReplaceSession(p, c)
    BY <1>2 DEF HandOver
  <2>2. T!IndInv'
    BY <1>2, <2>1, TransportKeeps DEF IndInv, T!Next, T!Requests
  <2>3. /\ UNCHANGED phase
        /\ pendingTunnels' = T!Without(pendingTunnels, T!PendingOf(p))
        /\ life' = T!Destroyed(T!SeatsOf(T!PendingOf(p)))
        /\ activeTunnels' =
             [t \in DOMAIN activeTunnels |->
                IF activeTunnels[t].agentSession = p
                THEN [activeTunnels[t] EXCEPT !.agentSession = c] ELSE activeTunnels[t]]
    BY <2>1 DEF T!ReplaceSession, T!Cancel
  <2>4. \A t \in DOMAIN pendingTunnels' :
          /\ t \in DOMAIN pendingTunnels
          /\ pendingTunnels'[t] = pendingTunnels[t]
          /\ pendingTunnels[t].clientSession # p /\ pendingTunnels[t].agentSession # p
    BY <2>3 DEF T!Without, T!PendingOf
  <2>5. \A t \in DOMAIN activeTunnels : activeTunnels[t] \in T!ActiveTunnels
    BY DEF IndInv, T!IndInv, T!TypeOK
  <2>6. \A s \in Sockets : life'[s] = "open" => life[s] = "open"
    BY <2>3 DEF T!Destroyed, IndInv, T!IndInv, T!TypeOK, T!SocketsTypeOK
  <2>7. \A t \in DOMAIN activeTunnels' :
          /\ t \in DOMAIN activeTunnels
          /\ activeTunnels'[t].sockets = activeTunnels[t].sockets
          /\ activeTunnels'[t].agentSession =
               IF activeTunnels[t].agentSession = p THEN c ELSE activeTunnels[t].agentSession
    BY <2>3, <2>5 DEF T!ActiveTunnels
  <2> QED
    BY <2>2, <2>3, <2>4, <2>5, <2>6, <2>7 DEF T!ActiveTunnels
<1> QED
  BY <1>1, <1>2

LEMMA RegisterKeeps ==
  ASSUME IndInv, NEW c \in Conns, NEW props \in CProps, Register(c, props)
  PROVE  IndInv'
<1> DEFINE p == Previous(props)
           n == props.name
<1>1. /\ cProps[c] = None /\ c # p /\ connLife[c] = "open" /\ turn = None
      /\ c \in handshakeSockets /\ p \in Conns \cup {None}
      /\ p # None => /\ n \in DOMAIN routes
                     /\ cProps[p] # None /\ cProps[p].name = n
                     /\ cProps[p].type = props.type /\ cProps[p].uuid = props.uuid
      /\ n \in DOMAIN routes =>
           p = IF props.type = "agent" THEN routes[n].agent ELSE routes[n].clients[props.uuid]
  BY PreviousPlace DEF Register
<1>2. /\ DOMAIN routes' = DOMAIN routes \cup {n}
      /\ \A m \in DOMAIN routes : m # n => routes'[m] = routes[m]
      /\ routes' \in [DOMAIN routes' -> Routes]
      /\ IF props.type = "agent"
         THEN routes'[n].agent = c /\ routes'[n].clients = RouteAt(n).clients
         ELSE /\ routes'[n].agent = RouteAt(n).agent
              /\ routes'[n].clients[props.uuid] = c
              /\ \A u \in Uuids : u # props.uuid =>
                   routes'[n].clients[u] = RouteAt(n).clients[u]
  BY PlacesAfter
<1>3. /\ handshakeSockets' = handshakeSockets \ {c}
      /\ controlSockets' = controlSockets \cup {c}
      /\ turn' = [conn |-> c, registering |-> TRUE]
      /\ UNCHANGED <<connEnded, told, handed, stopped>>
      /\ HandOver(p, c) /\ connLife' = DestroyConns({p})
      /\ cProps' = [d \in Conns |-> IF d = c THEN props ELSE IF d = p THEN None ELSE cProps[d]]
  BY DEF Register
<1>4. /\ connLife' \in [Conns -> {"fresh", "open", "destroyed", "closed"}]
      /\ \A d \in Conns : connLife'[d] =
           IF d = p /\ connLife[d] = "open" THEN "destroyed" ELSE connLife[d]
  <2>1. connLife' = DestroyConns({p})
    BY <1>3
  <2> HIDE DEF p
  <2>2. /\ connLife' \in [Conns -> {"fresh", "open", "destroyed", "closed"}]
        /\ \A d \in Conns : connLife'[d] =
             IF d \in {p} /\ connLife[d] = "open" THEN "destroyed" ELSE connLife[d]
    BY <2>1, DestroyedConns
  <2> QED
    BY <2>2
<1>5. /\ cProps' \in [Conns -> CProps \cup {None}]
      /\ cProps'[c] = props
      /\ \A d \in Conns : d # c => cProps'[d] = IF d = p THEN None ELSE cProps[d]
  BY <1>3 DEF IndInv, TypeOK
<1>6. /\ T!IndInv' /\ UNCHANGED phase
      /\ \A t \in DOMAIN pendingTunnels' :
           /\ t \in DOMAIN pendingTunnels
           /\ pendingTunnels'[t] = pendingTunnels[t]
           /\ pendingTunnels[t].clientSession # p /\ pendingTunnels[t].agentSession # p
      /\ \A t \in DOMAIN activeTunnels' :
           /\ t \in DOMAIN activeTunnels
           /\ activeTunnels'[t].sockets = activeTunnels[t].sockets
           /\ activeTunnels'[t].agentSession =
                IF activeTunnels[t].agentSession = p THEN c ELSE activeTunnels[t].agentSession
           /\ \A s \in activeTunnels[t].sockets : life'[s] = "open" => life[s] = "open"
  BY <1>1, <1>3, HandedOver
<1>7. props.type \in {"agent", "client"} /\ n \in Names /\ props.uuid \in Uuids /\ props # None
  BY NoConnAssumption DEF CProps, Types
<1> HIDE DEF p, n
\* Who keeps a place.
<1>8. ASSUME NEW m \in DOMAIN routes, routes[m].agent # p
      PROVE  m \in DOMAIN routes' /\ (routes[m].agent # None => routes'[m].agent = routes[m].agent)
  BY <1>1, <1>2, <1>8 DEF RouteAt
<1>9. ASSUME NEW m \in DOMAIN routes, NEW u \in Uuids, routes[m].clients[u] # p
      PROVE  routes'[m].clients[u] = routes[m].clients[u]
  BY <1>1, <1>2, <1>9 DEF RouteAt
\* Who has a place afterwards.
<1>10. ASSUME NEW m \in DOMAIN routes', routes'[m].agent # None
       PROVE  \/ m = n /\ props.type = "agent" /\ routes'[m].agent = c
              \/ /\ m \in DOMAIN routes /\ routes'[m].agent = routes[m].agent
                 /\ routes[m].agent # p
  <2>1. CASE m = n /\ props.type = "agent"
    BY <1>2, <2>1
  <2>2. CASE ~(m = n /\ props.type = "agent")
    <3>1. m \in DOMAIN routes /\ routes'[m].agent = routes[m].agent
      BY <1>2, <1>10, <2>2 DEF RouteAt, NoRoute
    <3>2. routes[m].agent # p
      BY <1>1, <1>10, <2>2, <3>1 DEF IndInv, RoutesMatch
    <3> QED
      BY <3>1, <3>2
  <2> QED
    BY <2>1, <2>2
<1>11. ASSUME NEW m \in DOMAIN routes', NEW u \in Uuids, routes'[m].clients[u] # None
       PROVE  \/ m = n /\ props.type = "client" /\ u = props.uuid /\ routes'[m].clients[u] = c
              \/ /\ m \in DOMAIN routes /\ routes'[m].clients[u] = routes[m].clients[u]
                 /\ routes[m].clients[u] # p
  <2>1. CASE m = n /\ props.type = "client" /\ u = props.uuid
    BY <1>2, <2>1
  <2>2. CASE ~(m = n /\ props.type = "client" /\ u = props.uuid)
    <3>1. m \in DOMAIN routes /\ routes'[m].clients[u] = routes[m].clients[u]
      BY <1>2, <1>7, <1>11, <2>2 DEF RouteAt, NoRoute
    <3>2. routes[m].clients[u] # p
      BY <1>1, <1>11, <2>2, <3>1 DEF IndInv, RoutesMatch
    <3> QED
      BY <3>1, <3>2
  <2> QED
    BY <2>1, <2>2
<1>12. \A d \in Conns : d # p /\ cProps[d] # None => d # c /\ cProps'[d] = cProps[d]
  BY <1>1, <1>5
<1>13. c # None
  BY NoConnAssumption
<1>14. TypeOK' /\ TurnKept' /\ StopStages'
  <2>1. DOMAIN routes' \in SUBSET Names /\ controlSockets' \in SUBSET Conns
        /\ handshakeSockets' \in SUBSET Conns
    BY <1>2, <1>3, <1>7 DEF IndInv, TypeOK
  <2>2. turn' \in Turns \cup {None}
    BY <1>3 DEF Turns
  <2>3. TypeOK'
    BY <1>2, <1>3, <1>4, <1>5, <1>6, <2>1, <2>2 DEF IndInv, TypeOK, T!IndInv
  <2>4. TurnKept'
    BY <1>3, <1>5, <1>7 DEF TurnKept
  <2>5. StopStages'
    BY <1>1, <1>3 DEF IndInv, StopStages
  <2> QED
    BY <2>3, <2>4, <2>5
<1>15. RoutesMatch'
  <2>1. ASSUME NEW m \in DOMAIN routes'
        PROVE  routes'[m].agent # None \/ ClientsOf(routes'[m]) # {}
    <3>1. CASE m = n
      BY <1>2, <1>7, <1>13, <3>1 DEF ClientsOf
    <3>2. CASE m # n
      BY <1>2, <2>1, <3>2 DEF IndInv, RoutesMatch
    <3> QED
      BY <3>1, <3>2
  <2>2. ASSUME NEW m \in DOMAIN routes', routes'[m].agent # None
        PROVE  LET a == routes'[m].agent
               IN  cProps'[a] # None /\ cProps'[a].name = m /\ cProps'[a].type = "agent"
    <3>1. CASE m = n /\ props.type = "agent" /\ routes'[m].agent = c
      BY <1>5, <1>7, <3>1 DEF n
    <3>2. CASE /\ m \in DOMAIN routes /\ routes'[m].agent = routes[m].agent
               /\ routes[m].agent # p
      <4>1. routes[m].agent \in Conns /\ cProps[routes[m].agent] # None
            /\ cProps[routes[m].agent].name = m /\ cProps[routes[m].agent].type = "agent"
        BY <2>2, <3>2 DEF IndInv, TypeOK, Routes, RoutesMatch
      <4> QED
        BY <1>12, <3>2, <4>1
    <3> QED
      BY <1>10, <2>2, <3>1, <3>2
  <2>3. ASSUME NEW m \in DOMAIN routes', NEW u \in Uuids, routes'[m].clients[u] # None
        PROVE  LET d == routes'[m].clients[u]
               IN  /\ cProps'[d] # None /\ cProps'[d].name = m /\ cProps'[d].type = "client"
                   /\ cProps'[d].uuid = u
    <3>1. CASE m = n /\ props.type = "client" /\ u = props.uuid /\ routes'[m].clients[u] = c
      BY <1>5, <1>7, <3>1 DEF n
    <3>2. CASE /\ m \in DOMAIN routes /\ routes'[m].clients[u] = routes[m].clients[u]
               /\ routes[m].clients[u] # p
      <4> DEFINE d == routes[m].clients[u]
      <4>1. d \in Conns /\ cProps[d] # None /\ cProps[d].name = m /\ cProps[d].type = "client"
            /\ cProps[d].uuid = u
        BY <2>3, <3>2 DEF IndInv, TypeOK, Routes, RoutesMatch
      <4> QED
        BY <1>12, <3>2, <4>1
    <3> QED
      BY <1>11, <2>3, <3>1, <3>2
  <2>4. ASSUME NEW d \in Conns, cProps'[d] # None PROVE Registered(d)'
    <3>1. CASE d = c
      BY <1>2, <1>5, <1>7, <3>1 DEF Registered, n
    <3>2. CASE d # c
      <4>1. d # p /\ cProps[d] # None /\ cProps'[d] = cProps[d]
        BY <1>5, <2>4, <3>2
      <4>2. Registered(d) /\ cProps[d].uuid \in Uuids /\ d # None
        BY <4>1, NoConnAssumption DEF IndInv, RoutesMatch, TypeOK, CProps
      <4>3. CASE cProps[d].type = "client"
        BY <1>2, <1>9, <4>1, <4>2, <4>3 DEF Registered
      <4>4. CASE cProps[d].type # "client"
        BY <1>8, <4>1, <4>2, <4>4 DEF Registered
      <4> QED
        BY <4>3, <4>4
    <3> QED
      BY <3>1, <3>2
  <2> QED
    BY <2>1, <2>2, <2>3, <2>4 DEF RoutesMatch, ClientsOf
<1>16. ConnStages'
  BY <1>1, <1>3, <1>4, <1>5, <1>7, NoConnAssumption DEF IndInv, ConnStages, IsOpen
<1>17. SessionsCurrent'
  <2> SUFFICES ASSUME NEW t \in DOMAIN pendingTunnels'
               PROVE  \E m \in DOMAIN routes' :
                        /\ routes'[m].agent = pendingTunnels'[t].agentSession
                        /\ pendingTunnels'[t].clientSession \in ClientsOf(routes'[m])
    BY DEF SessionsCurrent, ClientsOf
  <2> DEFINE k == pendingTunnels[t].clientSession
             a == pendingTunnels[t].agentSession
  <2>1. /\ t \in DOMAIN pendingTunnels /\ pendingTunnels'[t] = pendingTunnels[t]
        /\ k # p /\ a # p /\ a # None
    BY <1>6, NoConnAssumption DEF IndInv, T!IndInv, T!TypeOK, T!PendingTunnels
  <2>2. PICK m \in DOMAIN routes : routes[m].agent = a /\ k \in ClientsOf(routes[m])
    BY <2>1 DEF IndInv, SessionsCurrent
  <2>3. PICK u \in Uuids : routes[m].clients[u] = k /\ k # None
    BY <2>2 DEF ClientsOf
  <2>4. m \in DOMAIN routes' /\ routes'[m].agent = a /\ routes'[m].clients[u] = k
    BY <1>8, <1>9, <2>1, <2>2, <2>3
  <2> QED
    BY <2>1, <2>3, <2>4 DEF ClientsOf
<1>18. StreamsOwned'
  <2> SUFFICES ASSUME NEW t \in DOMAIN activeTunnels', NEW s \in activeTunnels'[t].sockets,
                      life'[s] = "open", phase' = "open"
               PROVE  \E m \in DOMAIN routes' : routes'[m].agent = activeTunnels'[t].agentSession
    BY DEF StreamsOwned, closing, T!closing
  <2> DEFINE a == activeTunnels[t].agentSession
  <2>1. /\ t \in DOMAIN activeTunnels /\ s \in activeTunnels[t].sockets /\ life[s] = "open"
        /\ activeTunnels'[t].agentSession = IF a = p THEN c ELSE a
        /\ a # None
    BY <1>6, NoConnAssumption DEF IndInv, T!IndInv, T!TypeOK, T!ActiveTunnels
  <2>2. PICK m \in DOMAIN routes : routes[m].agent = a
    BY <1>6, <2>1 DEF IndInv, StreamsOwned, closing, T!closing
  <2>3. CASE a = p
    <3>1. props.type = "agent"
      BY <1>1, <2>1, <2>2, <2>3 DEF IndInv, RoutesMatch
    <3> QED
      BY <1>2, <2>1, <2>3, <3>1
  <2>4. CASE a # p
    BY <1>8, <2>1, <2>2, <2>4
  <2> QED
    BY <2>3, <2>4
<1>19. Answered'
  <2> SUFFICES ASSUME NEW m \in DOMAIN routes', NEW d \in ClientsOf(routes'[m]) \ Unanswered',
                      NEW a, a = routes'[m].agent, Writable(d)'
               PROVE  ToldTruth(d, a)'
    BY DEF Answered, ClientsOf
  <2>1. Unanswered' = IF props.type = "agent" THEN {c} \cup ClientsOf(routes'[n]) ELSE {c}
    <3>1. Unanswered' = Audience(c)'
      <4>1. turn' # None /\ turn'.registering /\ turn'.conn = c
        <5>1. turn' \in Turns /\ turn'.registering /\ turn'.conn = c
          BY <1>3 DEF Turns
        <5> QED
          BY <5>1, NoConnAssumption
      <4> QED
        BY <4>1 DEF Unanswered, Audience, ClientsOf, RouteAt, NoRoute
    <3>2. RouteAt(n)' = routes'[n]
      BY <1>2 DEF RouteAt
    <3>3. Audience(c)' = IF props.type = "agent" THEN {c} \cup ClientsOf(RouteAt(n)') ELSE {c}
      BY <1>5 DEF Audience, n, ClientsOf
    <3> QED
      BY <3>1, <3>2, <3>3
  <2>2. d # c
    BY <2>1
  <2>3. ~(m = n /\ props.type = "agent")
    BY <2>1 DEF ClientsOf
  <2>4. PICK u \in Uuids : m \in DOMAIN routes /\ d = routes[m].clients[u] /\ d # p
    <3>1. PICK u \in Uuids : d = routes'[m].clients[u] /\ d # None
      BY DEF ClientsOf
    <3> QED
      BY <1>11, <2>2, <3>1
  <2>5. d \in Conns /\ cProps[d] # None /\ d \in ClientsOf(routes[m])
    BY <2>4 DEF IndInv, TypeOK, Routes, RoutesMatch, ClientsOf
  <2>6. a = routes[m].agent
    BY <1>2, <2>3, <2>4 DEF RouteAt
  <2>7. a # None => a \in Conns /\ a # p /\ cProps[a] # None
    <3> SUFFICES ASSUME a # None PROVE a \in Conns /\ a # p /\ cProps[a] # None
      OBVIOUS
    <3>1. a # p
      <4>1. ~(m = n /\ props.type = "agent" /\ routes'[m].agent = c)
        BY <2>3
      <4> QED
        BY <1>10, <2>6, <4>1
    <3>2. a \in Conns /\ cProps[a] # None
      BY <2>4, <2>6 DEF IndInv, TypeOK, Routes, RoutesMatch
    <3> QED
      BY <3>1, <3>2
  <2>8. /\ cProps'[d] = cProps[d] /\ connLife'[d] = connLife[d]
        /\ a # None => cProps'[a] = cProps[a] /\ connLife'[a] = connLife[a]
    BY <1>4, <1>12, <2>4, <2>5, <2>7
  <2>9. ToldTruth(d, a)
    <3>1. Unanswered = {}
      BY <1>1 DEF Unanswered
    <3>2. Writable(d)
      BY <1>3, <2>8 DEF Writable, IsOpen
    <3> QED
      BY <2>4, <2>5, <2>6, <3>1, <3>2 DEF IndInv, Answered
  <2> QED
    BY <1>3, <1>6, <2>8, <2>9 DEF ToldTruth, TooManyPorts, IsOpen, closing, T!closing
<1> QED
  BY <1>6, <1>14, <1>15, <1>16, <1>17, <1>18, <1>19 DEF IndInv

-----------------------------------------------------------------------------
(* The end of a control connection *)

LEMMA RoutePut ==
  ASSUME IndInv, NEW n \in DOMAIN routes, NEW route \in Routes, routes' = PutRoute(n, route)
  PROVE  /\ DOMAIN routes' = IF route.agent = None /\ ClientsOf(route) = {}
                             THEN DOMAIN routes \ {n} ELSE DOMAIN routes
         /\ \A m \in DOMAIN routes' : routes'[m] = IF m = n THEN route ELSE routes[m]
         /\ routes' \in [DOMAIN routes' -> Routes]
<1>1. CASE route.agent = None /\ ClientsOf(route) = {}
  <2>1. routes' = T!Without(routes, {n})
    BY <1>1 DEF PutRoute
  <2>2. \A m \in DOMAIN routes : routes[m] \in Routes
    BY DEF IndInv, TypeOK
  <2> QED
    BY <1>1, <2>1, <2>2 DEF T!Without
<1>2. CASE ~(route.agent = None /\ ClientsOf(route) = {})
  <2>1. routes' = T!Put(routes, n, route)
    BY <1>2 DEF PutRoute
  <2>2. \A m \in DOMAIN routes : routes[m] \in Routes
    BY DEF IndInv, TypeOK
  <2>3. DOMAIN routes' = DOMAIN routes
    BY <2>1 DEF T!Put
  <2> QED
    BY <1>2, <2>1, <2>2, <2>3 DEF T!Put
<1> QED
  BY <1>1, <1>2

\* c has left every place it had, and the others have kept theirs.
Vacated(c) ==
  /\ routes' \in [DOMAIN routes' -> Routes]
  /\ DOMAIN routes' \subseteq DOMAIN routes
  /\ \A m \in DOMAIN routes' :
       /\ routes'[m].agent # None \/ ClientsOf(routes'[m]) # {}
       /\ routes'[m].agent = IF routes[m].agent = c THEN None ELSE routes[m].agent
       /\ \A u \in Uuids :
            routes'[m].clients[u] =
              IF routes[m].clients[u] = c THEN None ELSE routes[m].clients[u]
  /\ \A m \in DOMAIN routes : m \notin DOMAIN routes' =>
       /\ routes[m].agent \in {c, None}
       /\ \A u \in Uuids : routes[m].clients[u] \in {c, None}

LEMMA ClientVacates ==
  ASSUME IndInv, NEW c \in Conns, Registered(c), cProps[c].type = "client", CleanupClient(c)
  PROVE  Vacated(c)
<1> DEFINE n == cProps[c].name
           v == cProps[c].uuid
           route == [routes[n] EXCEPT !.clients[v] = None]
<1>1. n \in DOMAIN routes /\ routes[n].clients[v] = c /\ routes' = PutRoute(n, route)
  BY DEF Registered, CleanupClient
<1>2. routes[n] \in Routes /\ v \in Uuids /\ c # None
  BY <1>1, NoConnAssumption DEF IndInv, TypeOK, Registered, CProps
<1>3. \A m \in DOMAIN routes :
        /\ routes[m].agent # c
        /\ \A u \in Uuids : routes[m].clients[u] = c => m = n /\ u = v
  BY <1>2 DEF IndInv, RoutesMatch
<1>4. /\ route \in Routes /\ route.agent = routes[n].agent
      /\ \A u \in Uuids : route.clients[u] = IF u = v THEN None ELSE routes[n].clients[u]
  BY <1>2 DEF Routes
<1> HIDE DEF n, v, route
<1>5. /\ DOMAIN routes' = IF route.agent = None /\ ClientsOf(route) = {}
                          THEN DOMAIN routes \ {n} ELSE DOMAIN routes
      /\ \A m \in DOMAIN routes' : routes'[m] = IF m = n THEN route ELSE routes[m]
      /\ routes' \in [DOMAIN routes' -> Routes]
  BY <1>1, <1>4, RoutePut
<1>6. ASSUME NEW m \in DOMAIN routes'
      PROVE  /\ routes'[m].agent # None \/ ClientsOf(routes'[m]) # {}
             /\ routes'[m].agent = IF routes[m].agent = c THEN None ELSE routes[m].agent
             /\ \A u \in Uuids :
                  routes'[m].clients[u] =
                    IF routes[m].clients[u] = c THEN None ELSE routes[m].clients[u]
  <2>1. CASE m = n
    BY <1>1, <1>3, <1>4, <1>5, <2>1
  <2>2. CASE m # n
    BY <1>3, <1>5, <2>2 DEF IndInv, RoutesMatch
  <2> QED
    BY <2>1, <2>2
<1>7. ASSUME NEW m \in DOMAIN routes, m \notin DOMAIN routes'
      PROVE  routes[m].agent \in {c, None} /\ \A u \in Uuids : routes[m].clients[u] \in {c, None}
  <2>1. m = n /\ route.agent = None /\ ClientsOf(route) = {}
    BY <1>5, <1>7
  <2>2. \A u \in Uuids : route.clients[u] = None
    BY <2>1 DEF ClientsOf
  <2> QED
    BY <1>1, <1>4, <2>1, <2>2
<1> QED
  BY <1>5, <1>6, <1>7 DEF Vacated

LEMMA AgentVacates ==
  ASSUME IndInv, NEW c \in Conns, Registered(c), cProps[c].type = "agent", CleanupAgent(c)
  PROVE  Vacated(c)
<1> DEFINE n == cProps[c].name
           route == [routes[n] EXCEPT !.agent = None]
<1>1. n \in DOMAIN routes /\ routes[n].agent = c /\ routes' = PutRoute(n, route)
  BY DEF Registered, CleanupAgent
<1>2. routes[n] \in Routes /\ c # None
  BY <1>1, NoConnAssumption DEF IndInv, TypeOK
<1>3. \A m \in DOMAIN routes :
        /\ routes[m].agent = c => m = n
        /\ \A u \in Uuids : routes[m].clients[u] # c
  BY <1>2 DEF IndInv, RoutesMatch
<1>4. route \in Routes /\ route.agent = None /\ route.clients = routes[n].clients
  BY <1>2 DEF Routes
<1> HIDE DEF n, route
<1>5. /\ DOMAIN routes' = IF route.agent = None /\ ClientsOf(route) = {}
                          THEN DOMAIN routes \ {n} ELSE DOMAIN routes
      /\ \A m \in DOMAIN routes' : routes'[m] = IF m = n THEN route ELSE routes[m]
      /\ routes' \in [DOMAIN routes' -> Routes]
  BY <1>1, <1>4, RoutePut
<1>6. ASSUME NEW m \in DOMAIN routes'
      PROVE  /\ routes'[m].agent # None \/ ClientsOf(routes'[m]) # {}
             /\ routes'[m].agent = IF routes[m].agent = c THEN None ELSE routes[m].agent
             /\ \A u \in Uuids :
                  routes'[m].clients[u] =
                    IF routes[m].clients[u] = c THEN None ELSE routes[m].clients[u]
  <2>1. CASE m = n
    BY <1>1, <1>3, <1>4, <1>5, <2>1
  <2>2. CASE m # n
    BY <1>3, <1>5, <2>2 DEF IndInv, RoutesMatch
  <2> QED
    BY <2>1, <2>2
<1>7. ASSUME NEW m \in DOMAIN routes, m \notin DOMAIN routes'
      PROVE  routes[m].agent \in {c, None} /\ \A u \in Uuids : routes[m].clients[u] \in {c, None}
  <2>1. m = n /\ ClientsOf(route) = {}
    BY <1>5, <1>7
  <2>2. \A u \in Uuids : route.clients[u] = None
    BY <2>1 DEF ClientsOf
  <2> QED
    BY <1>1, <1>4, <2>1, <2>2
<1> QED
  BY <1>5, <1>6, <1>7 DEF Vacated

LEMMA UnregisteredVacates ==
  ASSUME IndInv, NEW c \in Conns, ~Registered(c), UNCHANGED routes
  PROVE  Vacated(c) /\ cProps[c] = None /\ \A m \in DOMAIN routes : routes[m].agent # c
<1>1. cProps[c] = None /\ c # None
  BY NoConnAssumption DEF IndInv, RoutesMatch
<1>2. \A m \in DOMAIN routes :
        routes[m].agent # c /\ \A u \in Uuids : routes[m].clients[u] # c
  BY <1>1 DEF IndInv, RoutesMatch
<1> QED
  BY <1>1, <1>2 DEF Vacated, IndInv, TypeOK, RoutesMatch

\* What becomes of the routes, tickets, streams and answers of a connection that closes is
\* enough for the invariant.
LEMMA DepartureKeeps ==
  ASSUME IndInv, NEW c \in Conns, CloseEvent(c), Vacated(c), T!IndInv', UNCHANGED phase,
         \A t \in DOMAIN pendingTunnels' :
           /\ t \in DOMAIN pendingTunnels
           /\ pendingTunnels'[t] = pendingTunnels[t]
           /\ pendingTunnels[t].clientSession # c /\ pendingTunnels[t].agentSession # c,
         UNCHANGED activeTunnels,
         \A t \in DOMAIN activeTunnels : \A s \in activeTunnels[t].sockets :
           /\ life'[s] = "open" => life[s] = "open"
           /\ life'[s] = "open" /\ ~closing /\ activeTunnels[t].agentSession = c =>
                \A m \in DOMAIN routes : routes[m].agent # c,
         told' \in [Conns -> {"nothing", "ready", "waiting", "refused"}],
         connEnded' \in SUBSET Conns,
         \A d \in Conns \ {c} :
           /\ d \in connEnded => d \in connEnded'
           /\ \A m \in DOMAIN routes : d \in ClientsOf(routes[m]) /\ d \notin connEnded' =>
                \/ told'[d] = told[d] /\ (routes[m].agent = c => closing)
                \/ routes[m].agent = c /\ (IsOpen(d) => told'[d] = "waiting")
  PROVE  IndInv'
<1>1. /\ turn = None /\ connLife[c] = "destroyed"
      /\ handshakeSockets' = handshakeSockets \ {c} /\ controlSockets' = controlSockets \ {c}
      /\ connLife' = [connLife EXCEPT ![c] = "closed"] /\ cProps' = [cProps EXCEPT ![c] = None]
      /\ UNCHANGED <<handed, turn, stopped>>
  BY DEF CloseEvent
<1>2. /\ connLife' \in [Conns -> {"fresh", "open", "destroyed", "closed"}]
      /\ \A d \in Conns : connLife'[d] = IF d = c THEN "closed" ELSE connLife[d]
      /\ cProps' \in [Conns -> CProps \cup {None}]
      /\ \A d \in Conns : cProps'[d] = IF d = c THEN None ELSE cProps[d]
  BY <1>1 DEF IndInv, TypeOK
<1>3. c # None
  BY NoConnAssumption
\* Who keeps a place, and who has one afterwards.
<1>4. ASSUME NEW m \in DOMAIN routes, routes[m].agent \notin {c, None}
      PROVE  m \in DOMAIN routes' /\ routes'[m].agent = routes[m].agent
  BY <1>4 DEF Vacated
<1>5. ASSUME NEW m \in DOMAIN routes, NEW u \in Uuids, routes[m].clients[u] \notin {c, None}
      PROVE  m \in DOMAIN routes' /\ routes'[m].clients[u] = routes[m].clients[u]
  BY <1>5 DEF Vacated
<1>6. ASSUME NEW m \in DOMAIN routes', routes'[m].agent # None
      PROVE  /\ m \in DOMAIN routes /\ routes'[m].agent = routes[m].agent
             /\ routes[m].agent \in Conns \ {c}
  <2>1. m \in DOMAIN routes /\ routes'[m].agent = routes[m].agent /\ routes[m].agent # c
    BY <1>6 DEF Vacated
  <2> QED
    BY <1>6, <2>1 DEF IndInv, TypeOK, Routes
<1>7. ASSUME NEW m \in DOMAIN routes', NEW u \in Uuids, routes'[m].clients[u] # None
      PROVE  /\ m \in DOMAIN routes /\ routes'[m].clients[u] = routes[m].clients[u]
             /\ routes[m].clients[u] \in Conns \ {c}
  <2>1. /\ m \in DOMAIN routes /\ routes'[m].clients[u] = routes[m].clients[u]
        /\ routes[m].clients[u] # c
    BY <1>7 DEF Vacated
  <2> QED
    BY <1>7, <2>1 DEF IndInv, TypeOK, Routes
<1>8. TypeOK' /\ TurnKept' /\ StopStages'
  <2>1. /\ DOMAIN routes' \in SUBSET Names /\ controlSockets' \in SUBSET Conns
        /\ handshakeSockets' \in SUBSET Conns /\ routes' \in [DOMAIN routes' -> Routes]
    BY <1>1 DEF IndInv, TypeOK, Vacated
  <2>2. TypeOK'
    BY <1>1, <1>2, <2>1 DEF IndInv, TypeOK, T!IndInv
  <2>3. TurnKept' /\ StopStages'
    BY <1>1, <1>2 DEF IndInv, TurnKept, StopStages
  <2> QED
    BY <2>2, <2>3
<1>9. RoutesMatch'
  <2>1. ASSUME NEW m \in DOMAIN routes', routes'[m].agent # None
        PROVE  LET a == routes'[m].agent
               IN  cProps'[a] # None /\ cProps'[a].name = m /\ cProps'[a].type = "agent"
    BY <1>2, <1>6, <2>1 DEF IndInv, RoutesMatch
  <2>2. ASSUME NEW m \in DOMAIN routes', NEW u \in Uuids, routes'[m].clients[u] # None
        PROVE  LET d == routes'[m].clients[u]
               IN  /\ cProps'[d] # None /\ cProps'[d].name = m /\ cProps'[d].type = "client"
                   /\ cProps'[d].uuid = u
    BY <1>2, <1>7, <2>2 DEF IndInv, RoutesMatch
  <2>3. ASSUME NEW d \in Conns, cProps'[d] # None PROVE Registered(d)'
    <3>1. d # c /\ cProps[d] # None /\ cProps'[d] = cProps[d] /\ d # None
      BY <1>2, <2>3, NoConnAssumption
    <3>2. Registered(d) /\ cProps[d].uuid \in Uuids
      BY <3>1 DEF IndInv, RoutesMatch, TypeOK, CProps
    <3>3. CASE cProps[d].type = "client"
      BY <1>5, <3>1, <3>2, <3>3 DEF Registered
    <3>4. CASE cProps[d].type # "client"
      BY <1>4, <3>1, <3>2, <3>4 DEF Registered
    <3> QED
      BY <3>3, <3>4
  <2>4. \A m \in DOMAIN routes' : routes'[m].agent # None \/ ClientsOf(routes'[m]) # {}
    BY DEF Vacated
  <2> QED
    BY <2>1, <2>2, <2>3, <2>4 DEF RoutesMatch, ClientsOf
<1>10. ConnStages'
  BY <1>1, <1>2 DEF IndInv, ConnStages, IsOpen
<1>11. SessionsCurrent'
  <2> SUFFICES ASSUME NEW t \in DOMAIN pendingTunnels'
               PROVE  \E m \in DOMAIN routes' :
                        /\ routes'[m].agent = pendingTunnels'[t].agentSession
                        /\ pendingTunnels'[t].clientSession \in ClientsOf(routes'[m])
    BY DEF SessionsCurrent, ClientsOf
  <2> DEFINE k == pendingTunnels[t].clientSession
             a == pendingTunnels[t].agentSession
  <2>1. /\ t \in DOMAIN pendingTunnels /\ pendingTunnels'[t] = pendingTunnels[t]
        /\ k # c /\ a \notin {c, None}
    BY NoConnAssumption DEF IndInv, T!IndInv, T!TypeOK, T!PendingTunnels
  <2>2. PICK m \in DOMAIN routes : routes[m].agent = a /\ k \in ClientsOf(routes[m])
    BY <2>1 DEF IndInv, SessionsCurrent
  <2>3. PICK u \in Uuids : routes[m].clients[u] = k /\ k # None
    BY <2>2 DEF ClientsOf
  <2>4. m \in DOMAIN routes' /\ routes'[m].agent = a /\ routes'[m].clients[u] = k
    BY <1>4, <1>5, <2>1, <2>2, <2>3
  <2> QED
    BY <2>1, <2>3, <2>4 DEF ClientsOf
<1>12. StreamsOwned'
  <2> SUFFICES ASSUME NEW t \in DOMAIN activeTunnels, NEW s \in activeTunnels[t].sockets,
                      life'[s] = "open", phase = "open"
               PROVE  \E m \in DOMAIN routes' : routes'[m].agent = activeTunnels[t].agentSession
    BY DEF StreamsOwned, closing, T!closing
  <2> DEFINE a == activeTunnels[t].agentSession
  <2>1. life[s] = "open" /\ a # None
    BY NoConnAssumption DEF IndInv, T!IndInv, T!TypeOK, T!ActiveTunnels
  <2>2. PICK m \in DOMAIN routes : routes[m].agent = a
    BY <2>1 DEF IndInv, StreamsOwned, closing, T!closing
  <2>3. a # c
    BY <2>2 DEF closing, T!closing
  <2> QED
    BY <1>4, <2>1, <2>2, <2>3
<1>13. Answered'
  <2> SUFFICES ASSUME NEW m \in DOMAIN routes', NEW d \in ClientsOf(routes'[m]),
                      NEW a, a = routes'[m].agent, Writable(d)'
               PROVE  ToldTruth(d, a)'
    BY DEF Answered, ClientsOf
  <2>1. m \in DOMAIN routes /\ d \in Conns \ {c} /\ d \in ClientsOf(routes[m])
    <3>1. PICK u \in Uuids : d = routes'[m].clients[u] /\ d # None
      BY DEF ClientsOf
    <3> QED
      BY <1>7, <3>1 DEF ClientsOf
  <2>2. d \notin connEnded' /\ connLife[d] = "open"
    BY <1>2, <2>1 DEF Writable, IsOpen
  <2>3. ToldTruth(d, routes[m].agent)
    <3>1. Writable(d) /\ Unanswered = {}
      BY <1>1, <2>1, <2>2 DEF Writable, IsOpen, Unanswered
    <3> QED
      BY <2>1, <3>1 DEF IndInv, Answered
  <2>4. a = IF routes[m].agent = c THEN None ELSE routes[m].agent
    BY DEF Vacated
  <2>5. closing' = closing
    BY DEF closing, T!closing
  <2>6. CASE routes[m].agent = c
    BY <1>3, <2>1, <2>2, <2>3, <2>4, <2>5, <2>6 DEF ToldTruth, IsOpen, TooManyPorts
  <2>7. CASE routes[m].agent # c
    <3>1. a = routes[m].agent /\ (a # None => a \in Conns \ {c}) /\ told'[d] = told[d]
      BY <1>6, <2>1, <2>2, <2>4, <2>7
    <3> QED
      BY <1>2, <2>1, <2>3, <2>5, <3>1 DEF ToldTruth, IsOpen, TooManyPorts
  <2> QED
    BY <2>6, <2>7
<1> QED
  BY <1>8, <1>9, <1>10, <1>11, <1>12, <1>13 DEF IndInv

LEMMA ClientCloses ==
  ASSUME IndInv, NEW c \in Conns, CloseEvent(c), Registered(c), cProps[c].type = "client",
         CleanupClient(c)
  PROVE  IndInv'
<1>1. T!CancelPendingForSession(c) /\ T!Next
  BY DEF CleanupClient, T!Next, T!Requests
<1>2. T!IndInv'
  BY <1>1, TransportKeeps DEF IndInv
<1>3. /\ UNCHANGED <<phase, activeTunnels>>
      /\ pendingTunnels' = T!Without(pendingTunnels, T!PendingOf(c))
      /\ life' = T!Destroyed(T!SeatsOf(T!PendingOf(c)))
  BY <1>1 DEF T!CancelPendingForSession, T!Cancel
<1>4. \A t \in DOMAIN pendingTunnels' :
        /\ t \in DOMAIN pendingTunnels
        /\ pendingTunnels'[t] = pendingTunnels[t]
        /\ pendingTunnels[t].clientSession # c /\ pendingTunnels[t].agentSession # c
  BY <1>3 DEF T!Without, T!PendingOf
<1>5. \A m \in DOMAIN routes : routes[m].agent # c
  BY NoConnAssumption DEF IndInv, RoutesMatch
<1>6. \A t \in DOMAIN activeTunnels : \A s \in activeTunnels[t].sockets :
        life'[s] = "open" => life[s] = "open"
  BY <1>3
  DEF T!Destroyed, IndInv, T!IndInv, T!TypeOK, T!SocketsTypeOK, T!ActiveTunnels
<1>7. told' = [told EXCEPT ![c] = "nothing"] /\ connEnded' = connEnded \ {c}
  BY DEF CleanupClient
<1>8. /\ told' \in [Conns -> {"nothing", "ready", "waiting", "refused"}]
      /\ connEnded' \in SUBSET Conns
      /\ \A d \in Conns \ {c} : told'[d] = told[d] /\ (d \in connEnded => d \in connEnded')
  BY <1>7 DEF IndInv, TypeOK
<1>9. Vacated(c)
  BY ClientVacates
<1> QED
  BY <1>2, <1>3, <1>4, <1>5, <1>6, <1>8, <1>9, DepartureKeeps

LEMMA AgentCloses ==
  ASSUME IndInv, NEW c \in Conns, CloseEvent(c), Registered(c), cProps[c].type = "agent",
         CleanupAgent(c)
  PROVE  IndInv'
<1> DEFINE n == cProps[c].name
           S == IF closing THEN {} ELSE ClientsOf(routes[n])
<1>1. n \in DOMAIN routes /\ routes[n].agent = c /\ c # None
  BY NoConnAssumption DEF Registered
<1>2. /\ told' = [NotifiedTold(S, None) EXCEPT ![c] = "nothing"]
      /\ connEnded' = NotifiedEnded(S, None) \ {c}
      /\ IF closing THEN UNCHANGED transportVars ELSE T!CloseAgentSession(c)
  BY DEF CleanupAgent
<1>3. \A m \in DOMAIN routes : routes[m].agent = c => m = n
  BY <1>1 DEF IndInv, RoutesMatch
<1>4. S \subseteq Conns
  BY <1>1 DEF ClientsOf, IndInv, TypeOK, Routes
<1>5. /\ NotifiedTold(S, None) \in [Conns -> {"nothing", "ready", "waiting", "refused"}]
      /\ NotifiedEnded(S, None) \in SUBSET Conns
      /\ connEnded \subseteq NotifiedEnded(S, None)
      /\ \A d \in Conns : d \notin S => NotifiedTold(S, None)[d] = told[d]
  BY <1>4, NotifiedType
<1>6. /\ told' \in [Conns -> {"nothing", "ready", "waiting", "refused"}]
      /\ connEnded' \in SUBSET Conns
      /\ \A d \in Conns \ {c} : /\ told'[d] = NotifiedTold(S, None)[d]
                                /\ d \in connEnded' <=> d \in NotifiedEnded(S, None)
  BY <1>2, <1>5
<1> HIDE DEF S
<1>7. ASSUME NEW d \in Conns \ {c}, NEW m \in DOMAIN routes, d \in ClientsOf(routes[m]),
             d \notin connEnded'
      PROVE  \/ told'[d] = told[d] /\ (routes[m].agent = c => closing)
             \/ routes[m].agent = c /\ (IsOpen(d) => told'[d] = "waiting")
  <2>1. cProps[d] # None /\ cProps[d].name = m /\ cProps[d].type = "client"
    BY <1>7 DEF ClientsOf, IndInv, RoutesMatch
  <2>2. CASE d \in S
    <3>1. ~closing /\ m = n /\ cProps[d].name = n
      <4>1. ~closing /\ d \in ClientsOf(routes[n])
        BY <2>2 DEF S
      <4>2. cProps[d].name = n
        BY <1>1, <4>1 DEF ClientsOf, IndInv, RoutesMatch
      <4> QED
        BY <2>1, <4>1, <4>2
    <3>2. d \notin connEnded
      BY <1>5, <1>6, <1>7
    <3>3. ASSUME IsOpen(d) PROVE told'[d] = "waiting"
      <4>1. Writable(d) /\ Status(d, None) = "waiting"
        BY <2>1, <3>2, <3>3 DEF Writable, Status, TooManyPorts
      <4>2. NotifiedTold(S, None)[d] = "waiting"
        BY <2>2, <4>1 DEF NotifiedTold
      <4> QED
        BY <1>6, <4>2
    <3> QED
      BY <1>1, <3>1, <3>3
  <2>3. CASE d \notin S
    <3>1. told'[d] = told[d]
      BY <1>5, <1>6, <2>3
    <3>2. routes[m].agent = c => closing
      BY <1>3, <1>7, <2>3 DEF S
    <3> QED
      BY <3>1, <3>2
  <2> QED
    BY <2>2, <2>3
<1>8. \A d \in Conns \ {c} : d \in connEnded => d \in connEnded'
  BY <1>5, <1>6
<1>9. Vacated(c)
  BY AgentVacates
<1>10. CASE closing
  <2>1. UNCHANGED transportVars
    BY <1>2, <1>10
  <2>2. T!IndInv' /\ UNCHANGED phase
    BY <2>1, PlaneStays
  <2>3. DOMAIN pendingTunnels' = {}
    BY <1>10, <2>1 DEF transportVars, IndInv, T!IndInv, T!CloseStages, closing
  <2>4. UNCHANGED <<activeTunnels, life>>
    BY <2>1 DEF transportVars, streamVars
  <2> QED
    BY <1>6, <1>7, <1>8, <1>9, <1>10, <2>2, <2>3, <2>4, DepartureKeeps
<1>11. CASE ~closing
  <2>1. T!CloseAgentSession(c) /\ T!Next
    BY <1>2, <1>11 DEF T!Next, T!Requests
  <2>2. T!IndInv'
    BY <2>1, TransportKeeps DEF IndInv
  <2>3. /\ UNCHANGED <<phase, activeTunnels>>
        /\ pendingTunnels' = T!Without(pendingTunnels, T!PendingOf(c))
        /\ life' = T!Destroyed(T!SeatsOf(T!PendingOf(c)) \cup T!StreamsOf(c))
    BY <2>1 DEF T!CloseAgentSession
  <2>4. \A t \in DOMAIN pendingTunnels' :
          /\ t \in DOMAIN pendingTunnels
          /\ pendingTunnels'[t] = pendingTunnels[t]
          /\ pendingTunnels[t].clientSession # c /\ pendingTunnels[t].agentSession # c
    BY <2>3 DEF T!Without, T!PendingOf
  <2>5. ASSUME NEW t \in DOMAIN activeTunnels, NEW s \in activeTunnels[t].sockets,
               life'[s] = "open"
        PROVE  life[s] = "open" /\ activeTunnels[t].agentSession # c
    <3>1. s \in Sockets
      BY DEF IndInv, T!IndInv, T!TypeOK, T!ActiveTunnels
    <3>2. life[s] = "open" /\ s \notin T!StreamsOf(c)
      BY <2>3, <2>5, <3>1 DEF T!Destroyed
    <3> QED
      BY <3>2 DEF T!StreamsOf
  <2> QED
    BY <1>6, <1>7, <1>8, <1>9, <2>2, <2>3, <2>4, <2>5, DepartureKeeps
<1> QED
  BY <1>10, <1>11

LEMMA CloseEventKeeps ==
  ASSUME IndInv, NEW c \in Conns, CloseEvent(c)
  PROVE  IndInv'
<1>1. CASE Registered(c) /\ cProps[c].type = "client" /\ CleanupClient(c)
  BY <1>1, ClientCloses
<1>2. CASE Registered(c) /\ cProps[c].type = "agent" /\ CleanupAgent(c)
  BY <1>2, AgentCloses
<1>3. CASE ~Registered(c) /\ CleanupNothing(c)
  <2>1. /\ UNCHANGED routes /\ UNCHANGED transportVars
        /\ told' = [told EXCEPT ![c] = "nothing"] /\ connEnded' = connEnded \ {c}
    BY <1>3 DEF CleanupNothing
  <2>2. T!IndInv' /\ UNCHANGED <<phase, pendingTunnels, activeTunnels, life>>
    BY <2>1, PlaneStays DEF transportVars, streamVars
  <2>3. Vacated(c) /\ cProps[c] = None /\ \A m \in DOMAIN routes : routes[m].agent # c
    BY <1>3, <2>1, UnregisteredVacates
  <2>4. \A t \in DOMAIN pendingTunnels :
          pendingTunnels[t].clientSession # c /\ pendingTunnels[t].agentSession # c
    BY <2>3 DEF IndInv, SessionsCurrent, RoutesMatch, ClientsOf
  <2>5. /\ told' \in [Conns -> {"nothing", "ready", "waiting", "refused"}]
        /\ connEnded' \in SUBSET Conns
        /\ \A d \in Conns \ {c} : told'[d] = told[d] /\ (d \in connEnded => d \in connEnded')
    BY <2>1 DEF IndInv, TypeOK
  <2> QED
    BY <2>2, <2>3, <2>4, <2>5, DepartureKeeps
<1> QED
  BY <1>1, <1>2, <1>3 DEF CloseEvent

-----------------------------------------------------------------------------
(* The invariant *)

LEMMA InitIndInv == Init => IndInv
<1> SUFFICES ASSUME Init PROVE IndInv
  OBVIOUS
<1>1. T!IndInv
  BY TransportStarts DEF Init
<1>2. DOMAIN pendingTunnels = {} /\ DOMAIN activeTunnels = {}
  BY DEF Init, T!Init
<1>3. TypeOK
  BY <1>1 DEF Init, TypeOK, T!IndInv
<1>4. RoutesMatch /\ ConnStages /\ TurnKept /\ StopStages
  BY DEF Init, RoutesMatch, ConnStages, TurnKept, StopStages, IsOpen
<1>5. SessionsCurrent /\ StreamsOwned /\ Answered
  BY <1>2 DEF Init, SessionsCurrent, StreamsOwned, Answered
<1> QED
  BY <1>1, <1>3, <1>4, <1>5 DEF IndInv

LEMMA NextIndInv == IndInv /\ [Next]_vars => IndInv'
<1> SUFFICES ASSUME IndInv, [Next]_vars PROVE IndInv'
  OBVIOUS
<1>1. ASSUME NEW c \in Conns,
             \/ HandleIncoming(c) \/ FirstMessage(c) \/ HandshakeTimeout(c) \/ ReadChunk(c)
             \/ ControlMessage(c) \/ RemoteEnd(c) \/ Lose(c) \/ CloseEvent(c)
      PROVE  IndInv'
  <2>1. CASE HandleIncoming(c)
    BY <2>1, IncomingKeeps
  <2>2. CASE FirstMessage(c)
    BY <2>2, DestroyingKeeps, EndingKeeps, RegisterKeeps DEF FirstMessage
  <2>3. CASE HandshakeTimeout(c) \/ Lose(c)
    BY <2>3, DestroyingKeeps
  <2>4. CASE ReadChunk(c)
    BY <2>4, ChunkKeeps
  <2>5. CASE ControlMessage(c)
    BY <2>5, DestroyingKeeps, EndingKeeps, CancelKeeps, OpenKeeps, OpenUnsentKeeps
    DEF ControlMessage
  <2>6. CASE RemoteEnd(c)
    BY <2>6, EndingKeeps
  <2>7. CASE CloseEvent(c)
    BY <2>7, CloseEventKeeps
  <2> QED
    BY <1>1, <2>1, <2>2, <2>3, <2>4, <2>5, <2>6, <2>7
<1>2. CASE EndTurn
  BY <1>2, EndTurnKeeps
<1>3. CASE \/ \E s \in Sockets, m \in T!Claims \cup {None} : AcceptData(s, m)
           \/ DataEvent
           \/ \E force \in BOOLEAN : BeginClose(force)
  BY <1>3, DataKeeps
<1>4. CASE DestroyControl
  BY <1>4, DestroyControlKeeps
<1>5. CASE Stop
  BY <1>5, StopKeeps
<1>6. CASE UNCHANGED vars
  <2>1. RelayUnchanged /\ UNCHANGED transportVars /\ UNCHANGED routes
    BY <1>6 DEF vars, relayVars, connVars, routeVars, RelayUnchanged, IndInv, TypeOK
  <2>2. T!IndInv' /\ Calm /\ UNCHANGED phase
    BY <2>1, PlaneStays
  <2> QED
    BY <2>1, <2>2, RegistryStays, CalmKeeps DEF IndInv, StopStages, closing, T!closing
<1> QED
  BY <1>1, <1>2, <1>3, <1>4, <1>5, <1>6 DEF Next

\* The relay's registry, its connections and its data plane agree in every reachable state.
THEOREM Invariant == Spec => []IndInv
  BY InitIndInv, NextIndInv, PTL DEF Spec

\* Every variable keeps its type (Relay, and the transport's below it).
THEOREM TypeCorrect == Spec => []TypeOK
<1>1. IndInv => TypeOK
  BY DEF IndInv
<1> QED
  BY <1>1, Invariant, PTL

\* A route holds live connections that registered exactly there, every registered open
\* connection is in its route, and no route is empty (registerControlSocket,
\* cleanupControlSocket).
THEOREM RoutesAreCurrent == Spec => []RoutesCurrent
<1>1. IndInv => RoutesCurrent
  <2> SUFFICES ASSUME IndInv PROVE RoutesCurrent
    OBVIOUS
  <2>1. ASSUME NEW n \in DOMAIN routes,
               NEW c \in (ClientsOf(routes[n]) \cup {routes[n].agent}) \ {None}
        PROVE  Registered(c) /\ cProps[c].name = n /\ connLife[c] # "closed"
    <3>1. c \in Conns /\ cProps[c] # None /\ cProps[c].name = n
      BY DEF ClientsOf, IndInv, TypeOK, Routes, RoutesMatch
    <3> QED
      BY <3>1 DEF IndInv, RoutesMatch, ConnStages
  <2>2. \A c \in controlSockets : IsOpen(c) => Registered(c)
    BY DEF IndInv, TypeOK, RoutesMatch, ConnStages
  <2> QED
    BY <2>1, <2>2 DEF RoutesCurrent, IndInv, RoutesMatch
<1> QED
  BY <1>1, Invariant, PTL

\* Whatever the data plane does by itself, no ticket becomes pending.
LEMMA NoTicketComes ==
  ASSUME \/ \E s \in Sockets, m \in T!Claims \cup {None} : T!AcceptSocket(s, m)
         \/ \E t \in Tickets : T!PairingTimeout(t)
         \/ T!EndDrain \/ T!FinishClose
         \/ \E s \in Sockets : \/ T!AutoDestroy(s) \/ T!CloseEvent(s)
                               \/ T!SocketError(s) \/ T!RemoteEnd(s)
         \/ \E force \in BOOLEAN : T!BeginClose(force)
         \/ \E c \in Conns, t \in Tickets : T!CancelPendingTunnel(t, c)
         \/ \E c \in Conns : T!CancelPendingForSession(c) \/ T!CloseAgentSession(c)
         \/ \E c, p \in Conns : T!ReplaceSession(p, c)
         \/ UNCHANGED transportVars
  PROVE  DOMAIN pendingTunnels' \subseteq DOMAIN pendingTunnels
  BY DEF T!AcceptSocket, T!Reject, T!Seat, T!Pair, T!PairingTimeout, T!EndDrain, T!FinishClose,
         T!AutoDestroy, T!CloseEvent, T!SocketError, T!RemoteEnd, T!BeginClose,
         T!CancelPendingTunnel, T!CancelPendingForSession, T!CloseAgentSession,
         T!ReplaceSession, T!Cancel, T!Without, T!admin, transportVars

\* A ticket becomes pending only where both peers are sent it.
LEMMA HandedKeeps ==
  ASSUME IndInv, DOMAIN pendingTunnels \subseteq handed, [Next]_vars
  PROVE  DOMAIN pendingTunnels' \subseteq handed'
<1>1. CASE \E c \in Conns, t \in Tickets, i \in 0..MaxPorts : MessageOpen(c, i, t)
  BY <1>1 DEF MessageOpen, T!CreatePendingTunnel, T!Put
<1>2. CASE UNCHANGED <<pendingTunnels, handed>>
  BY <1>2
<1>3. ASSUME handed' = handed, DOMAIN pendingTunnels' \subseteq DOMAIN pendingTunnels
      PROVE  DOMAIN pendingTunnels' \subseteq handed'
  BY <1>3
<1>4. CASE \/ \E s \in Sockets, m \in T!Claims \cup {None} : AcceptData(s, m)
           \/ DataEvent \/ DestroyControl
           \/ \E force \in BOOLEAN : BeginClose(force)
           \/ \E c \in Conns, t \in Tickets : MessageCancel(c, t)
  BY <1>3, <1>4, NoTicketComes
  DEF AcceptData, DataEvent, DestroyControl, BeginClose, MessageCancel, relayVars, routeVars
<1>5. ASSUME NEW c \in Conns, NEW props \in CProps, Register(c, props)
      PROVE  DOMAIN pendingTunnels' \subseteq handed'
  <2>1. handed' = handed /\ HandOver(Previous(props), c)
    BY <1>5 DEF Register
  <2>2. Previous(props) \in Conns \cup {None}
    BY <1>5, PreviousPlace DEF Register
  <2> QED
    BY <1>3, <2>1, <2>2, NoTicketComes DEF HandOver
<1>6. ASSUME NEW c \in Conns, CloseEvent(c)
      PROVE  DOMAIN pendingTunnels' \subseteq handed'
  BY <1>3, <1>6, NoTicketComes DEF CloseEvent, CleanupClient, CleanupAgent, CleanupNothing
<1>7. \/ UNCHANGED vars \/ EndTurn \/ Stop
      \/ \E c \in Conns : \/ HandleIncoming(c) \/ FirstInvalid(c) \/ FirstMismatch(c)
                          \/ \E props \in CProps : RefuseDuplicate(c, props)
                          \/ HandshakeTimeout(c) \/ ReadChunk(c) \/ MessageInvalid(c)
                          \/ MessageMismatch(c) \/ RemoteEnd(c) \/ Lose(c)
                          \/ \E t \in Tickets, i \in 0..MaxPorts : MessageOpenUnsent(c, i, t)
      => UNCHANGED <<pendingTunnels, handed>>
  BY DEF vars, relayVars, routeVars, transportVars, EndTurn, Stop, HandleIncoming, FirstInvalid,
         FirstMismatch, RefuseDuplicate, HandshakeTimeout, ReadChunk, MessageInvalid,
         MessageMismatch, RemoteEnd, Lose, MessageOpenUnsent
<1> QED
  BY <1>1, <1>2, <1>4, <1>5, <1>6, <1>7 DEF Next, FirstMessage, ControlMessage

\* A pending ticket was sent to both peers, and its sessions are the current client and
\* agent of one route (openTunnel, replaceSession, cancelPendingForSession).
THEOREM TicketsAreCurrent == Spec => []TicketsCurrent
<1> DEFINE Handed == DOMAIN pendingTunnels \subseteq handed
<1>1. Init => Handed
  BY DEF Init, T!Init
<1>2. IndInv /\ Handed /\ [Next]_vars => Handed'
  BY HandedKeeps
<1>3. IndInv /\ Handed => TicketsCurrent
  BY DEF IndInv, TicketsCurrent
<1> HIDE DEF Handed
<1> QED
  BY <1>1, <1>2, <1>3, Invariant, PTL DEF Spec

\* While the relay runs, an open stream belongs to the agent its route has now
\* (replaceSession, closeAgentSession).
THEOREM StreamsAreOwned == Spec => []StreamsOwned
<1>1. IndInv => StreamsOwned
  BY DEF IndInv
<1> QED
  BY <1>1, Invariant, PTL

\* Between turns a client that can be written to was last told the truth about its agent
\* (notifyRegistration and its callers).
THEOREM ReadinessIsTrue == Spec => []ReadinessTruth
<1>1. IndInv => ReadinessTruth
  BY DEF IndInv, Answered, Unanswered, ReadinessTruth
<1> QED
  BY <1>1, Invariant, PTL

\* A resolved close() leaves no connection, no route, no ticket and no stream.
THEOREM StoppedIsClean == Spec => []StoppedClean
<1>1. IndInv => StoppedClean
  <2> SUFFICES ASSUME IndInv, stopped PROVE StoppedClean
    BY DEF StoppedClean
  <2>1. phase = "closed" /\ \A c \in Conns : connLife[c] \in {"fresh", "closed"}
    BY DEF IndInv, StopStages
  <2>2. controlSockets = {} /\ handshakeSockets = {}
    BY <2>1 DEF IndInv, ConnStages, TypeOK
  <2>3. DOMAIN routes = {}
    <3> SUFFICES ASSUME NEW n \in DOMAIN routes PROVE FALSE
      OBVIOUS
    <3>1. PICK c \in Conns : cProps[c] # None
      BY DEF IndInv, RoutesMatch, ClientsOf, TypeOK, Routes
    <3> QED
      BY <2>2, <3>1 DEF IndInv, ConnStages
  <2>4. DOMAIN pendingTunnels = {} /\ DOMAIN activeTunnels = {} /\ dataSockets = {}
    BY <2>1 DEF IndInv, T!IndInv, T!CloseStages, T!closing, T!TypeOK
  <2> QED
    BY <2>2, <2>3, <2>4 DEF StoppedClean
<1> QED
  BY <1>1, Invariant, PTL

\* An agent's place passes only to a connection of the same peer, or is given up by its
\* 'close' (registerControlSocket, cleanupControlSocket).
THEOREM NobodyTakesOver == Spec => NoTakeover
<1> DEFINE Kept == \A n \in DOMAIN routes : LET agent == routes[n].agent IN
                     agent # None =>
                       \/ n \in DOMAIN routes' /\ routes'[n].agent = agent
                       \/ connLife'[agent] = "closed"
                       \/ /\ n \in DOMAIN routes' /\ routes'[n].agent # None
                          /\ cProps'[routes'[n].agent].uuid = cProps[agent].uuid
<1>1. ASSUME IndInv, UNCHANGED routes PROVE Kept
  BY <1>1
<1>2. ASSUME IndInv, NEW c \in Conns, NEW props \in CProps, Register(c, props) PROVE Kept
  <2> DEFINE p == Previous(props)
             k == props.name
  <2>1. /\ p # None => cProps[p].uuid = props.uuid
        /\ k \in DOMAIN routes /\ props.type = "agent" => p = routes[k].agent
    BY <1>2, PreviousPlace DEF Register
  <2>2. /\ DOMAIN routes' = DOMAIN routes \cup {k}
        /\ \A m \in DOMAIN routes : m # k => routes'[m] = routes[m]
        /\ IF props.type = "agent" THEN routes'[k].agent = c
                                   ELSE routes'[k].agent = RouteAt(k).agent
    BY <1>2, PlacesAfter
  <2>3. cProps'[c] = props /\ c # None
    BY <1>2, NoConnAssumption DEF Register
  <2> HIDE DEF p, k
  <2>4. ASSUME NEW n \in DOMAIN routes, routes[n].agent # None
        PROVE  \/ n \in DOMAIN routes' /\ routes'[n].agent = routes[n].agent
               \/ /\ n \in DOMAIN routes' /\ routes'[n].agent # None
                  /\ cProps'[routes'[n].agent].uuid = cProps[routes[n].agent].uuid
    BY <2>1, <2>2, <2>3, <2>4 DEF RouteAt
  <2> QED
    BY <2>4
<1>3. ASSUME IndInv, NEW c \in Conns, CloseEvent(c) PROVE Kept
  <2>1. Vacated(c)
    BY <1>3, ClientVacates, AgentVacates, UnregisteredVacates DEF CloseEvent, CleanupNothing
  <2>2. connLife'[c] = "closed"
    BY <1>3 DEF CloseEvent, IndInv, TypeOK
  <2> QED
    BY <2>1, <2>2 DEF Vacated
<1>4. ASSUME IndInv, [Next]_vars PROVE Kept
  <2>1. CASE UNCHANGED vars
    BY <1>1, <1>4, <2>1 DEF vars, relayVars, routeVars
  <2>2. CASE \E c \in Conns, props \in CProps : Register(c, props)
    BY <1>2, <1>4, <2>2
  <2>3. CASE \E c \in Conns : CloseEvent(c)
    BY <1>3, <1>4, <2>3
  <2>4. CASE \E c \in Conns :
               \/ HandleIncoming(c) \/ FirstInvalid(c) \/ FirstMismatch(c)
               \/ \E props \in CProps : RefuseDuplicate(c, props)
               \/ HandshakeTimeout(c) \/ ReadChunk(c) \/ ControlMessage(c)
               \/ RemoteEnd(c) \/ Lose(c)
    <3>1. UNCHANGED routes
      BY <2>4
      DEF HandleIncoming, FirstInvalid, FirstMismatch, RefuseDuplicate, HandshakeTimeout,
          ReadChunk, ControlMessage, MessageInvalid, MessageMismatch, MessageCancel,
          MessageOpen, MessageOpenUnsent, RemoteEnd, Lose, relayVars, routeVars
    <3> QED
      BY <1>1, <1>4, <3>1
  <2>5. CASE \/ EndTurn \/ DataEvent \/ DestroyControl \/ Stop
             \/ \E s \in Sockets, m \in T!Claims \cup {None} : AcceptData(s, m)
             \/ \E force \in BOOLEAN : BeginClose(force)
    <3>1. UNCHANGED routes
      BY <2>5 DEF EndTurn, DataEvent, DestroyControl, Stop, AcceptData, BeginClose, relayVars,
                  routeVars
    <3> QED
      BY <1>1, <1>4, <3>1
  <2> QED
    BY <1>4, <2>1, <2>2, <2>3, <2>4, <2>5 DEF Next, FirstMessage
<1>5. IndInv /\ [Next]_vars => [Kept]_vars
  BY <1>4
<1> QED
  BY <1>5, Invariant, PTL DEF Spec, NoTakeover

\* The sockets of pending tickets are in no stream.
LEMMA SeatsApart ==
  ASSUME T!IndInv, NEW K, K \subseteq DOMAIN pendingTunnels,
         NEW t \in DOMAIN activeTunnels, NEW s \in activeTunnels[t].sockets
  PROVE  s \in Sockets /\ s \notin T!SeatsOf(K)
<1>1. s \in Sockets
  BY DEF T!IndInv, T!TypeOK, T!ActiveTunnels
<1>2. bridge[s] # None
  BY DEF T!IndInv, T!ActiveHeld
<1>3. ASSUME NEW u \in DOMAIN pendingTunnels, NEW y \in T!Types PROVE pendingTunnels[u].seat[y] # s
  <2>1. pendingTunnels[u].seat[y] = s => bridge[s] = None
    BY <1>1 DEF T!IndInv, T!SeatsClaimed
  <2> QED
    BY <1>2, <2>1
<1> QED
  BY <1>1, <1>3 DEF T!SeatsOf

\* Dropping tickets cuts no stream.
LEMMA DroppedApart ==
  ASSUME T!IndInv, NEW K, K \subseteq DOMAIN pendingTunnels, life' = T!Destroyed(T!SeatsOf(K)),
         NEW t \in DOMAIN activeTunnels, NEW s \in activeTunnels[t].sockets
  PROVE  s \in Sockets /\ life'[s] = life[s]
<1>1. s \in Sockets /\ s \notin T!SeatsOf(K)
  BY SeatsApart
<1> QED
  BY <1>1 DEF T!Destroyed, T!IndInv, T!TypeOK, T!SocketsTypeOK

\* What may cut a stream.
Spared ==
  \A t \in DOMAIN activeTunnels : \A s \in activeTunnels[t].sockets :
    life[s] = "open" /\ life'[s] # "open" /\ ~closing' =>
      \/ s \in hadError'
      \/ s \in readEnded \cap writeEnded
      \/ life'[bridge[s]] = "closed"
      \/ LET agent == activeTunnels[t].agentSession
         IN  connLife'[agent] = "closed" /\ connLife[agent] = "destroyed"

LEMMA CancelSpares ==
  ASSUME T!IndInv, NEW K, K \subseteq DOMAIN pendingTunnels, T!Cancel(K)
  PROVE  Spared
  BY DroppedApart DEF T!Cancel, Spared

LEMMA DataSpares ==
  ASSUME IndInv, \/ \E s \in Sockets, m \in T!Claims \cup {None} : AcceptData(s, m)
                 \/ DataEvent
                 \/ \E force \in BOOLEAN : BeginClose(force)
  PROVE  Spared
<1>1. ASSUME NEW r \in Sockets, NEW m, T!AcceptSocket(r, m) PROVE Spared
  <2>1. /\ life[r] = "new"
        /\ life' \in {[life EXCEPT ![r] = "destroyed"], [life EXCEPT ![r] = "open"]}
    BY <1>1 DEF T!AcceptSocket, T!Reject, T!Seat, T!Pair
  <2> QED
    BY <2>1 DEF Spared, IndInv, T!IndInv, T!TypeOK, T!SocketsTypeOK, T!ActiveTunnels
<1>2. ASSUME NEW t \in Tickets, T!PairingTimeout(t) PROVE Spared
  BY <1>2, CancelSpares DEF T!PairingTimeout, IndInv
<1>3. ASSUME T!EndDrain \/ \E force \in BOOLEAN : T!BeginClose(force) PROVE Spared
  BY <1>3 DEF T!EndDrain, T!BeginClose, Spared, closing, T!closing
<1>4. ASSUME NEW r \in Sockets, T!AutoDestroy(r) \/ T!SocketError(r) \/ T!RemoteEnd(r)
      PROVE  Spared
  BY <1>4
  DEF T!AutoDestroy, T!SocketError, T!RemoteEnd, T!SocketFinishes, T!SocketFails, T!SocketEnds,
      Spared, IndInv, T!IndInv, T!TypeOK, T!SocketsTypeOK, T!ActiveTunnels
<1>5. ASSUME NEW r \in Sockets, T!CloseEvent(r) PROVE Spared
  <2> SUFFICES ASSUME NEW t \in DOMAIN activeTunnels, NEW s \in activeTunnels[t].sockets,
                      life[s] = "open", life'[s] # "open"
               PROVE  life'[bridge[s]] = "closed"
    BY DEF Spared
  <2>1. /\ life[r] = "destroyed"
        /\ life' = [T!Destroyed(T!SeatsOf(T!WatchedTickets(r)) \cup T!PeerToDestroy(r))
                      EXCEPT ![r] = "closed"]
    BY <1>5 DEF T!CloseEvent, T!SocketCloses
  <2>2. s \in Sockets /\ s # r
    BY <2>1 DEF IndInv, T!IndInv, T!TypeOK, T!ActiveTunnels
  <2>3. s \notin T!SeatsOf(T!WatchedTickets(r))
    BY SeatsApart DEF T!WatchedTickets, IndInv
  <2>4. s = bridge[r]
    BY <2>1, <2>2, <2>3 DEF T!Destroyed, T!PeerToDestroy
  <2>5. bridge[s] = r
    BY <2>2, <2>4 DEF IndInv, T!IndInv, T!JoinedByTicket
  <2>6. life'[r] = "closed"
    BY <2>1 DEF T!Destroyed
  <2> QED
    BY <2>5, <2>6
<1> QED
  BY <1>1, <1>2, <1>3, <1>4, <1>5 DEF AcceptData, DataEvent, BeginClose

LEMMA CloseSpares ==
  ASSUME IndInv, NEW c \in Conns, CloseEvent(c)
  PROVE  Spared
<1>1. CASE Registered(c) /\ cProps[c].type = "client" /\ CleanupClient(c)
  BY <1>1, CancelSpares DEF CleanupClient, T!CancelPendingForSession, T!PendingOf, IndInv
<1>2. CASE Registered(c) /\ cProps[c].type = "agent" /\ CleanupAgent(c)
  <2>1. CASE closing
    BY <1>2, <2>1 DEF CleanupAgent, transportVars, streamVars, Spared
  <2>2. CASE ~closing
    <3>1. life' = T!Destroyed(T!SeatsOf(T!PendingOf(c)) \cup T!StreamsOf(c))
      BY <1>2, <2>2 DEF CleanupAgent, T!CloseAgentSession
    <3>2. connLife[c] = "destroyed" /\ connLife'[c] = "closed"
      BY DEF CloseEvent, IndInv, TypeOK
    <3> SUFFICES ASSUME NEW t \in DOMAIN activeTunnels, NEW s \in activeTunnels[t].sockets,
                        life[s] = "open", life'[s] # "open"
                 PROVE  activeTunnels[t].agentSession = c
      BY <3>2 DEF Spared
    <3>3. s \in Sockets
      BY DEF IndInv, T!IndInv, T!TypeOK, T!ActiveTunnels
    <3>4. s \notin T!SeatsOf(T!PendingOf(c))
      BY SeatsApart DEF T!PendingOf, IndInv
    <3>5. PICK u \in DOMAIN activeTunnels :
            activeTunnels[u].agentSession = c /\ s \in activeTunnels[u].sockets
      BY <3>1, <3>3, <3>4 DEF T!Destroyed, T!StreamsOf
    <3>6. u = t
      BY <3>5 DEF IndInv, T!IndInv, T!ActiveHeld
    <3> QED
      BY <3>5, <3>6
  <2> QED
    BY <2>1, <2>2
<1>3. CASE ~Registered(c) /\ CleanupNothing(c)
  BY <1>3 DEF CleanupNothing, transportVars, streamVars, Spared
<1> QED
  BY <1>1, <1>2, <1>3 DEF CloseEvent

\* While the relay runs, a stream is cut only because one of its sockets ended, failed or
\* closed, or because the agent it belongs to closed with no successor (replaceSession,
\* cancelPendingForSession, closeAgentSession).
THEOREM StreamsOutlive == Spec => StreamsSurvive
<1>1. ASSUME IndInv, UNCHANGED life PROVE Spared
  BY <1>1 DEF Spared
<1>2. ASSUME IndInv, [Next]_vars PROVE Spared
  <2>1. CASE UNCHANGED vars
    BY <1>1, <1>2, <2>1 DEF vars, transportVars, streamVars
  <2>2. ASSUME NEW c \in Conns, NEW props \in CProps, Register(c, props) PROVE Spared
    <3>1. CASE UNCHANGED transportVars
      BY <1>1, <1>2, <3>1 DEF transportVars, streamVars
    <3>2. CASE T!ReplaceSession(Previous(props), c)
      BY <1>2, <3>2, CancelSpares DEF T!ReplaceSession, T!PendingOf, IndInv
    <3> QED
      BY <2>2, <3>1, <3>2 DEF Register, HandOver
  <2>3. ASSUME NEW c \in Conns, NEW t \in Tickets, MessageCancel(c, t) PROVE Spared
    BY <1>2, <2>3, CancelSpares DEF MessageCancel, T!CancelPendingTunnel, T!PendingOf, IndInv
  <2>4. CASE \E c \in Conns : CloseEvent(c)
    BY <1>2, <2>4, CloseSpares
  <2>5. CASE \/ DataEvent
             \/ \E s \in Sockets, m \in T!Claims \cup {None} : AcceptData(s, m)
             \/ \E force \in BOOLEAN : BeginClose(force)
    BY <1>2, <2>5, DataSpares
  <2>6. ASSUME NEW c \in Conns,
               \/ HandleIncoming(c) \/ FirstInvalid(c) \/ FirstMismatch(c)
               \/ \E props \in CProps : RefuseDuplicate(c, props)
               \/ HandshakeTimeout(c) \/ ReadChunk(c) \/ MessageInvalid(c)
               \/ MessageMismatch(c) \/ RemoteEnd(c) \/ Lose(c)
               \/ \E t \in Tickets, i \in 0..MaxPorts :
                    MessageOpen(c, i, t) \/ MessageOpenUnsent(c, i, t)
        PROVE  Spared
    <3>1. UNCHANGED life
      BY <2>6
      DEF HandleIncoming, FirstInvalid, FirstMismatch, RefuseDuplicate, HandshakeTimeout,
          ReadChunk, MessageInvalid, MessageMismatch, MessageOpen, MessageOpenUnsent,
          RemoteEnd, Lose, T!CreatePendingTunnel, T!streams, T!bridgeVars, transportVars,
          streamVars
    <3> QED
      BY <1>1, <1>2, <3>1
  <2>7. CASE EndTurn \/ DestroyControl \/ Stop
    <3>1. UNCHANGED life
      BY <2>7 DEF EndTurn, DestroyControl, Stop, T!FinishClose, T!streams, T!bridgeVars,
                  transportVars, streamVars
    <3> QED
      BY <1>1, <1>2, <3>1
  <2> QED
    BY <1>2, <2>1, <2>2, <2>3, <2>4, <2>5, <2>6, <2>7 DEF Next, FirstMessage, ControlMessage
<1>3. IndInv /\ [Next]_vars => [Spared]_vars
  BY <1>2
<1> QED
  BY <1>3, Invariant, PTL DEF Spec, StreamsSurvive, Spared

-----------------------------------------------------------------------------
(* The data plane as the relay's users see it *)

\* A ticket that was drawn and could not be handed to both sides.
DrawsInVain ==
  \E t \in Tickets \ issued :
    /\ ~closing /\ T!HasRoom
    /\ issued' = issued \cup {t}
    /\ UNCHANGED <<phase, pendingTunnels, activeTunnels, dataSockets, waiting, streamVars>>

\* What a step of the relay is to its data plane: one operation or event of it, or nothing,
\* but for a ticket drawn in vain.
LEMMA PlaneStep ==
  ASSUME IndInv, [Next]_vars
  PROVE  T!Next \/ UNCHANGED transportVars \/ DrawsInVain
<1>1. ASSUME NEW c \in Conns, NEW props \in CProps, Register(c, props)
      PROVE  T!Next \/ UNCHANGED transportVars
  <2>1. c # Previous(props) /\ Previous(props) \in Conns \cup {None}
    BY <1>1, PreviousPlace DEF Register
  <2> QED
    BY <1>1, <2>1 DEF Register, HandOver, T!Next, T!Requests
<1>2. ASSUME NEW c \in Conns, NEW t \in Tickets, MessageCancel(c, t) PROVE T!Next
  BY <1>2 DEF MessageCancel, T!Next, T!Requests
<1>3. ASSUME NEW c \in Conns, NEW t \in Tickets, NEW i, MessageOpen(c, i, t) PROVE T!Next
  BY <1>3, OpenerIsCurrent DEF MessageOpen, T!Next, T!Requests
<1>4. ASSUME NEW c \in Conns, NEW t \in Tickets, NEW i, MessageOpenUnsent(c, i, t)
      PROVE  DrawsInVain
  BY <1>4 DEF MessageOpenUnsent, DrawsInVain
<1>5. ASSUME NEW c \in Conns, CloseEvent(c) PROVE T!Next \/ UNCHANGED transportVars
  BY <1>5 DEF CloseEvent, CleanupClient, CleanupAgent, CleanupNothing, T!Next, T!Requests
<1>6. ASSUME NEW s \in Sockets, NEW m \in T!Claims \cup {None}, AcceptData(s, m) PROVE T!Next
  BY <1>6 DEF AcceptData, T!Next, T!Requests
<1>7. CASE DataEvent
  BY <1>7 DEF DataEvent, T!Next, T!Progress, T!Environment
<1>8. ASSUME NEW force \in BOOLEAN, BeginClose(force) PROVE T!Next
  BY <1>8 DEF BeginClose, T!Next, T!Requests
<1>9. CASE DestroyControl
  BY <1>9 DEF DestroyControl, T!Next, T!Progress
<1>10. ASSUME NEW c \in Conns,
              \/ HandleIncoming(c) \/ FirstInvalid(c) \/ FirstMismatch(c)
              \/ \E props \in CProps : RefuseDuplicate(c, props)
              \/ HandshakeTimeout(c) \/ ReadChunk(c) \/ MessageInvalid(c)
              \/ MessageMismatch(c) \/ RemoteEnd(c) \/ Lose(c)
       PROVE  UNCHANGED transportVars
  BY <1>10
  DEF HandleIncoming, FirstInvalid, FirstMismatch, RefuseDuplicate, HandshakeTimeout,
      ReadChunk, MessageInvalid, MessageMismatch, RemoteEnd, Lose
<1>11. CASE EndTurn \/ Stop \/ UNCHANGED vars
  BY <1>11 DEF EndTurn, Stop, vars
<1> QED
  BY <1>1, <1>2, <1>3, <1>4, <1>5, <1>6, <1>7, <1>8, <1>9, <1>10, <1>11
  DEF Next, FirstMessage, ControlMessage

\* The ledger is the same one seen from the relay and from the transport's proofs.
LEMMA SameLedger ==
  /\ T!Ledger!Init <=> Proved!Ledger!Init
  /\ [T!Ledger!Next]_T!Ledger!vars <=> [Proved!Ledger!Next]_Proved!Ledger!vars
<1>1. T!Ledger!Init <=> Proved!Ledger!Init
  BY Zenon
  DEF T!Ledger!Init, T!ledgerStatus, T!ledgerJoined, T!closing, T!Types,
      Proved!Ledger!Init, Proved!ledgerStatus, Proved!ledgerJoined, Proved!closing, Proved!Types
<1>2. [T!Ledger!Next]_T!Ledger!vars <=> [Proved!Ledger!Next]_Proved!Ledger!vars
  BY Zenon
  DEF T!Ledger!Next, T!Ledger!Issue, T!Ledger!Void, T!Ledger!Finish, T!Ledger!Join,
      T!Ledger!GiveUp, T!Ledger!Seal, T!Ledger!Having, T!Ledger!Sides,
      T!Ledger!Cardinality, T!Ledger!vars, T!ledgerStatus, T!ledgerJoined,
      T!closing, T!Types,
      Proved!Ledger!Next, Proved!Ledger!Issue, Proved!Ledger!Void,
      Proved!Ledger!Finish, Proved!Ledger!Join, Proved!Ledger!GiveUp,
      Proved!Ledger!Seal, Proved!Ledger!Having, Proved!Ledger!Sides,
      Proved!Ledger!Cardinality, Proved!Ledger!vars, Proved!ledgerStatus,
      Proved!ledgerJoined, Proved!closing, Proved!Types
<1> QED
  BY <1>1, <1>2

\* A ticket drawn in vain is void.
LEMMA VainIsVoid ==
  ASSUME IndInv, DrawsInVain
  PROVE  T!Ledger!Next
<1>1. PICK t \in Tickets \ issued :
        /\ ~closing /\ T!HasRoom
        /\ issued' = issued \cup {t}
        /\ UNCHANGED <<phase, pendingTunnels, activeTunnels, dataSockets, waiting, streamVars>>
  BY DEF DrawsInVain
<1>2. /\ issued \in SUBSET Tickets /\ DOMAIN pendingTunnels \subseteq issued
      /\ DOMAIN activeTunnels \subseteq issued
  BY DEF IndInv, T!IndInv, T!TypeOK
<1>3. T!ledgerStatus[t] = "unissued"
  BY <1>1, <1>2 DEF T!ledgerStatus
<1>4. T!Ledger!Having("pending") = DOMAIN pendingTunnels
  <2>1. \A u \in Tickets : T!ledgerStatus[u] = "pending" <=> u \in DOMAIN pendingTunnels
    BY DEF T!ledgerStatus
  <2> QED
    BY <1>2, <2>1 DEF T!Ledger!Having
<1>5. T!Ledger!Cardinality(T!Ledger!Having("pending")) < MaxPending
  BY <1>1, <1>4 DEF T!HasRoom, T!Cardinality, T!Ledger!Cardinality
<1>6. T!ledgerStatus' = [T!ledgerStatus EXCEPT ![t] = "over"]
  BY <1>1, <1>2 DEF T!ledgerStatus
<1>7. UNCHANGED <<T!ledgerJoined, T!closing>>
  BY <1>1 DEF T!ledgerJoined, T!closing, streamVars
<1>8. T!Ledger!Void(t)
  BY <1>1, <1>3, <1>5, <1>6, <1>7 DEF T!Ledger!Void, closing
<1> QED
  BY <1>1, <1>8 DEF T!Ledger!Next

LEMMA NextLedger == IndInv /\ [Next]_vars => [T!Ledger!Next]_T!Ledger!vars
<1> SUFFICES ASSUME IndInv, [Next]_vars PROVE [T!Ledger!Next]_T!Ledger!vars
  OBVIOUS
<1>1. CASE T!Next \/ UNCHANGED transportVars
  <2>1. /\ None \notin Sockets /\ None \notin Proved!Claims
        /\ MaxPending \in Nat \ {0}
    BY Zenon, TransportAssumption DEF T!Claims, T!Types, Proved!Claims, Proved!Types
  <2>2. [Proved!Next]_Proved!transportVars
    BY <1>1, SameNext
    DEF transportVars, streamVars, Proved!transportVars, Proved!admin, Proved!streams,
        Proved!bridgeVars
  <2>3. [Proved!Ledger!Next]_Proved!Ledger!vars
    BY <2>1, <2>2, SameInv, Proved!NextLedger DEF IndInv
  <2> QED
    BY <2>3, SameLedger
<1>2. CASE DrawsInVain
  BY <1>2, VainIsVoid
<1> QED
  BY <1>1, <1>2, PlaneStep

\* What clients and agents are promised of a ticket holds of the relay as a whole: whatever
\* its connections do, a ticket is issued once and within the limit, joined at most once by
\* each side, paired by the second, and never comes back (openTunnel, acceptSocket,
\* registerControlSocket, cleanupControlSocket, close).
THEOREM LedgerKept == Spec => T!ImplementsLedger
<1>1. Init => T!Ledger!Init
  <2>1. /\ None \notin Sockets /\ None \notin Proved!Claims
        /\ MaxPending \in Nat \ {0}
    BY Zenon, TransportAssumption DEF T!Claims, T!Types, Proved!Claims, Proved!Types
  <2> QED
    BY <2>1, SameInit, SameLedger, Proved!InitLedger DEF Init
<1> QED
  BY <1>1, NextLedger, Invariant, PTL DEF Spec, T!ImplementsLedger, T!Ledger!Spec

\* The transport's safety properties follow from its invariant, with connections for
\* sessions too.
LEMMA PlaneIsSafe ==
  ASSUME T!IndInv
  PROVE  /\ T!SingleUse /\ T!JoinedByTicket
         /\ T!NoStrandedSocket /\ T!TunnelsTracked /\ T!NoOrphanedHalf /\ T!AtRest
<1>1. /\ None \notin Sockets /\ None \notin Proved!Claims
      /\ MaxPending \in Nat \ {0}
  BY Zenon, TransportAssumption DEF T!Claims, T!Types, Proved!Claims, Proved!Types
<1>2. Proved!NoStrandedSocket /\ Proved!TunnelsTracked /\ Proved!NoOrphanedHalf /\ Proved!AtRest
  BY <1>1, SameInv, Proved!OpenIsHeld, Proved!CountsAreTrue, Proved!PeerHasEnded,
     Proved!NothingIsLeft
<1>3. T!NoStrandedSocket <=> Proved!NoStrandedSocket
  BY Zenon DEF T!NoStrandedSocket, T!Types, Proved!NoStrandedSocket, Proved!Types
<1>4. T!TunnelsTracked <=> Proved!TunnelsTracked
  BY Zenon DEF T!TunnelsTracked, T!SeatsOf, T!Types, Proved!TunnelsTracked, Proved!SeatsOf,
               Proved!Types
<1>5. (T!NoOrphanedHalf <=> Proved!NoOrphanedHalf) /\ (T!AtRest <=> Proved!AtRest)
  BY Zenon DEF T!NoOrphanedHalf, T!AtRest, Proved!NoOrphanedHalf, Proved!AtRest
<1> QED
  BY <1>2, <1>3, <1>4, <1>5 DEF T!IndInv

\* All that the transport promises holds with the relay as its user, across registrations,
\* replacements, cancellations and the shutdown: no ticket is used twice, streams join the two
\* sides of one ticket, every open data socket has a tunnel that will free it and no stream
\* leaves half of itself behind, and at the end nothing is left (acceptSocket, closePeer, close).
THEOREM DataPlaneKept ==
  Spec => []( /\ T!SingleUse /\ T!JoinedByTicket
              /\ T!NoStrandedSocket /\ T!TunnelsTracked /\ T!NoOrphanedHalf /\ T!AtRest )
<1>1. IndInv => /\ T!SingleUse /\ T!JoinedByTicket
                /\ T!NoStrandedSocket /\ T!TunnelsTracked /\ T!NoOrphanedHalf /\ T!AtRest
  BY PlaneIsSafe DEF IndInv
<1> QED
  BY <1>1, Invariant, PTL
=============================================================================
