---------------------------- MODULE DataTransport ----------------------------
(***************************************************************************)
(* The relay's data plane: src/tcp-data-transport.js, the byte bridge it   *)
(* sets up (SocketBridge) and the two socket-draining helpers its close()  *)
(* awaits (src/lifecycle.js).                                              *)
(*                                                                         *)
(* A client session and an agent session share a ticket; two data sockets, *)
(* one of each side, present it and are bridged into one stream.           *)
(***************************************************************************)
EXTENDS Naturals, FiniteSets, SocketBridge

CONSTANTS
  Sessions,    \* control sockets, as far as this module knows them: identities
  Tickets,     \* values crypto.randomBytes(32) may draw
  MaxPending   \* MAX_PENDING_TUNNELS (1024 in the code)

Types == {"client", "agent"}

Claims == [type : Types, ticket : Tickets]

ASSUME MaxPendingAssumption == MaxPending \in Nat \ {0}
ASSUME NoneAssumption == None \notin Sockets /\ None \notin Claims

VARIABLES
  phase,           \* of close(): "open", "draining", "destroying", "closed"
  issued,          \* tickets drawn so far: 32 random bytes never repeat
  pendingTunnels,  \* ticket -> pending tunnel; its pairing timer is armed
                   \* exactly while it is in here
  activeTunnels,   \* ticket -> active tunnel (the code keeps a Set of them)
  dataSockets,     \* sockets with trackDataSocket's close handler
  waiting,         \* sockets whose 'close' destroySockets still awaits
  claim            \* socket -> the data message that was accepted on it

admin == <<phase, issued, pendingTunnels, activeTunnels, dataSockets, waiting>>
streams == <<bridgeVars, claim>>
transportVars == <<admin, streams>>

PendingTunnels ==
  [clientSession : Sessions, agentSession : Sessions,
   seat : [Types -> Sockets \cup {None}]]

ActiveTunnels == [agentSession : Sessions, sockets : SUBSET Sockets]

TypeOK ==
  /\ phase \in {"open", "draining", "destroying", "closed"}
  /\ issued \in SUBSET Tickets
  /\ DOMAIN pendingTunnels \in SUBSET issued
  /\ pendingTunnels \in [DOMAIN pendingTunnels -> PendingTunnels]
  /\ DOMAIN activeTunnels \in SUBSET issued
  /\ activeTunnels \in [DOMAIN activeTunnels -> ActiveTunnels]
  /\ dataSockets \in SUBSET Sockets
  /\ waiting \in SUBSET Sockets
  /\ SocketsTypeOK
  /\ claim \in [Sockets -> Claims \cup {None}]

Init ==
  /\ phase = "open"
  /\ issued = {}
  /\ pendingTunnels = [t \in {} |-> {}]
  /\ activeTunnels = [t \in {} |-> {}]
  /\ dataSockets = {}
  /\ waiting = {}
  /\ SocketsInit
  /\ claim = [s \in Sockets |-> None]

-----------------------------------------------------------------------------
(* Helpers *)

\* Names ending in _F1, _F2, ... are seeded faults, as in SocketBridge.

\* Set only once the drain is over.
closing_F1 == phase \in {"destroying", "closed"}

\* `closing` of the code: set once, by close().
closing == phase # "open"

\* The map f without the keys in K, and the map f with k bound to v.
Without(f, K) == [x \in DOMAIN f \ K |-> f[x]]
Put(f, k, v) == [x \in DOMAIN f \cup {k} |-> IF x = k THEN v ELSE f[x]]

OtherType(y) == IF y = "client" THEN "agent" ELSE "client"

isDataMessage(m) == m \in Claims

\* The agent's seat is forgotten.
SeatsOf_F1(T) == {s \in Sockets : \E t \in T : pendingTunnels[t].seat["client"] = s}

\* The sockets seated in the pending tunnels T.
SeatsOf(T) ==
  {s \in Sockets : \E t \in T, y \in Types : pendingTunnels[t].seat[y] = s}

\* The pending tunnels one of whose two sessions is `session`.
PendingOf(session) ==
  {t \in DOMAIN pendingTunnels :
     session \in {pendingTunnels[t].clientSession, pendingTunnels[t].agentSession}}

\* The body of cancelPendingTunnel for every ticket of T.
Cancel(T) ==
  /\ pendingTunnels' = Without(pendingTunnels, T)
  /\ life' = Destroyed(SeatsOf(T))

-----------------------------------------------------------------------------
(* Operations the relay calls *)

\* Off by one.
HasRoom_F1 == Cardinality(DOMAIN pendingTunnels) <= MaxPending

HasRoom == Cardinality(DOMAIN pendingTunnels) < MaxPending

CreatePendingTunnel(clientSession, agentSession, t) ==
  /\ ~closing
  /\ HasRoom
  /\ t \in Tickets \ issued
  /\ issued' = issued \cup {t}
  /\ pendingTunnels' =
       Put(pendingTunnels, t,
           [clientSession |-> clientSession, agentSession |-> agentSession,
            seat |-> [y \in Types |-> None]])
  /\ UNCHANGED <<phase, activeTunnels, dataSockets, waiting, streams>>

\* The duplicate-side check is dropped.
SeatFree_F1(m) == ~closing /\ isDataMessage(m) /\ m.ticket \in DOMAIN pendingTunnels

\* `!closing && isDataMessage(m) && pending && !pending[m.type]`
SeatFree(m) ==
  /\ ~closing
  /\ isDataMessage(m)
  /\ m.ticket \in DOMAIN pendingTunnels
  /\ pendingTunnels[m.ticket].seat[m.type] = None

\* The early returns of acceptSocket: the socket is destroyed, untracked.
Reject(s, m) ==
  /\ ~SeatFree(m)
  /\ life' = [life EXCEPT ![s] = "destroyed"]
  /\ UNCHANGED <<admin, hadError, readEnded, writeEnded, bridge, claim>>

\* The side the message names is ignored.
Seated_F1(p, y, s) == [p EXCEPT !.seat = [p.seat EXCEPT !["client"] = s]]

\* `pending[y] = { socket, ... }`
Seated(p, y, s) == [p EXCEPT !.seat = [p.seat EXCEPT ![y] = s]]

\* The first side of a ticket takes its seat and waits.
Seat(s, m) ==
  /\ SeatFree(m)
  /\ pendingTunnels[m.ticket].seat[OtherType(m.type)] = None
  /\ pendingTunnels' = [pendingTunnels EXCEPT ![m.ticket] = Seated(@, m.type, s)]
  /\ dataSockets' = dataSockets \cup {s}
  /\ life' = [life EXCEPT ![s] = "open"]
  /\ claim' = [claim EXCEPT ![s] = m]
  /\ UNCHANGED <<phase, issued, activeTunnels, waiting,
                 hadError, readEnded, writeEnded, bridge>>

\* The second side completes the pair: the ticket is consumed, the timer and
\* the pending close watchers go, the tunnel becomes active and the bytes are
\* piped both ways.
Pair(s, m) ==
  LET p == pendingTunnels[m.ticket]
      other == p.seat[OtherType(m.type)]
  IN
  /\ SeatFree(m)
  /\ other # None
  /\ pendingTunnels' = Without(pendingTunnels, {m.ticket})
  /\ activeTunnels' =
       Put(activeTunnels, m.ticket,
           [agentSession |-> p.agentSession, sockets |-> {s, other}])
  /\ dataSockets' = dataSockets \cup {s}
  /\ life' = [life EXCEPT ![s] = "open"]
  /\ claim' = [claim EXCEPT ![s] = m]
  /\ bridge' = Bridged(s, other)
  /\ writeEnded' = writeEnded \cup Forwarded(s, other)
  /\ UNCHANGED <<phase, issued, waiting, hadError, readEnded>>

AcceptSocket(s, m) ==
  /\ life[s] = "new"
  /\ Reject(s, m) \/ Seat(s, m) \/ Pair(s, m)

\* cancelPendingTunnel(ticket, session): a session cancels only its own.
CancelPendingTunnel(t, session) ==
  /\ t \in PendingOf(session)
  /\ Cancel({t})
  /\ UNCHANGED <<phase, issued, activeTunnels, dataSockets, waiting,
                 hadError, readEnded, writeEnded, bridge, claim>>

CancelPendingForSession(session) ==
  /\ Cancel(PendingOf(session))
  /\ UNCHANGED <<phase, issued, activeTunnels, dataSockets, waiting,
                 hadError, readEnded, writeEnded, bridge, claim>>

ReplaceSession(previous, next) ==
  /\ Cancel(PendingOf(previous))
  /\ activeTunnels' =
       [t \in DOMAIN activeTunnels |->
          IF activeTunnels[t].agentSession = previous
          THEN [activeTunnels[t] EXCEPT !.agentSession = next]
          ELSE activeTunnels[t]]
  /\ UNCHANGED <<phase, issued, dataSockets, waiting,
                 hadError, readEnded, writeEnded, bridge, claim>>

\* The sockets of the active tunnels that belong to an agent session.
StreamsOf(session) ==
  UNION {activeTunnels[t].sockets :
           t \in {u \in DOMAIN activeTunnels : activeTunnels[u].agentSession = session}}

CloseAgentSession(session) ==
  /\ pendingTunnels' = Without(pendingTunnels, PendingOf(session))
  /\ life' = Destroyed(SeatsOf(PendingOf(session)) \cup StreamsOf(session))
  /\ UNCHANGED <<phase, issued, activeTunnels, dataSockets, waiting,
                 hadError, readEnded, writeEnded, bridge, claim>>

\* close({ force }): every pending tunnel is cancelled at once; a forced close
\* goes straight to destroySockets, a graceful one first waits for the streams.
BeginClose(force) ==
  /\ phase = "open"
  /\ phase' = IF force THEN "destroying" ELSE "draining"
  /\ pendingTunnels' = Without(pendingTunnels, DOMAIN pendingTunnels)
  /\ life' = Destroyed(IF force THEN dataSockets ELSE SeatsOf(DOMAIN pendingTunnels))
  /\ waiting' = IF force THEN dataSockets ELSE {}
  /\ UNCHANGED <<issued, activeTunnels, dataSockets,
                 hadError, readEnded, writeEnded, bridge, claim>>

-----------------------------------------------------------------------------
(* Timers and continuations of the transport itself *)

PairingTimeout(t) ==
  /\ t \in DOMAIN pendingTunnels
  /\ Cancel({t})
  /\ UNCHANGED <<phase, issued, activeTunnels, dataSockets, waiting,
                 hadError, readEnded, writeEnded, bridge, claim>>

\* The drain ends with its last stream, or at the shutdown timeout: at any time.
DrainOver == phase = "draining"

\* waitForSockets has resolved: every open stream closed, or the shutdown
\* timeout fired first; destroySockets runs in the same turn.
EndDrain ==
  /\ DrainOver
  /\ phase' = "destroying"
  /\ life' = Destroyed(dataSockets)
  /\ waiting' = dataSockets
  /\ UNCHANGED <<issued, pendingTunnels, activeTunnels, dataSockets,
                 hadError, readEnded, writeEnded, bridge, claim>>

\* destroySockets has resolved: activeTunnels.clear().
FinishClose ==
  /\ phase = "destroying"
  /\ waiting = {}
  /\ phase' = "closed"
  /\ activeTunnels' = [t \in {} |-> {}]
  /\ UNCHANGED <<issued, pendingTunnels, dataSockets, waiting, streams>>

-----------------------------------------------------------------------------
(* Socket events *)

SocketError(s) == SocketFails(s) /\ UNCHANGED <<admin, claim>>
RemoteEnd(s) == SocketEnds(s) /\ UNCHANGED <<admin, claim>>
AutoDestroy(s) == SocketFinishes(s) /\ UNCHANGED <<admin, claim>>

\* trackDataSocket's close handler: s leaves its active tunnel, and the tunnel
\* leaves the set with its last socket.
Departed(s) ==
  LET left == [t \in DOMAIN activeTunnels |->
                 [activeTunnels[t] EXCEPT !.sockets = @ \ {s}]]
  IN  Without(left, {t \in DOMAIN left : left[t].sockets = {}})

\* watchPendingSocket's close handler: the pending tunnel s is seated in.
WatchedTickets(s) ==
  {t \in DOMAIN pendingTunnels : \E y \in Types : pendingTunnels[t].seat[y] = s}

\* 'close' of a destroyed socket, with its handlers in the order they were added.
CloseEvent(s) ==
  /\ SocketCloses(s, SeatsOf(WatchedTickets(s)))
  /\ dataSockets' = dataSockets \ {s}
  /\ activeTunnels' = Departed(s)
  /\ pendingTunnels' = Without(pendingTunnels, WatchedTickets(s))
  /\ waiting' = waiting \ {s}
  /\ UNCHANGED <<phase, issued, claim>>

-----------------------------------------------------------------------------
Requests ==
  \/ \E c, a \in Sessions, t \in Tickets : c # a /\ CreatePendingTunnel(c, a, t)
  \/ \E s \in Sockets, m \in Claims \cup {None} : AcceptSocket(s, m)
  \/ \E t \in Tickets, x \in Sessions : CancelPendingTunnel(t, x)
  \/ \E x \in Sessions : CancelPendingForSession(x)
  \/ \E x, y \in Sessions : x # y /\ ReplaceSession(x, y)
  \/ \E x \in Sessions : CloseAgentSession(x)
  \/ \E force \in BOOLEAN : BeginClose(force)

Progress ==
  \/ \E t \in Tickets : PairingTimeout(t)
  \/ EndDrain
  \/ FinishClose
  \/ \E s \in Sockets : AutoDestroy(s) \/ CloseEvent(s)

Environment == \E s \in Sockets : SocketError(s) \/ RemoteEnd(s)

Next == Requests \/ Progress \/ Environment

Spec == Init /\ [][Next]_transportVars

-----------------------------------------------------------------------------
(* Safety *)

\* A ticket admits one client socket and one agent socket over its whole life:
\* a replayed, duplicated or late data connection never gets a second stream
\* (the ticket and duplicate-side checks of acceptSocket, and the consumption
\* of the ticket at pairing).
SingleUse ==
  \A r, s \in Sockets : claim[r] = claim[s] /\ claim[r] # None => r = s

\* No data socket is kept alive by nobody: once accepted and not destroyed it
\* sits in a pending tunnel, whose timer will free it, or in an active one,
\* which shutdown and the agent's disconnection reach (every path that drops
\* a pending tunnel or a member of an active one).
NoStrandedSocket ==
  \A s \in Sockets : life[s] = "open" =>
    /\ s \in dataSockets
    /\ \/ \E t \in DOMAIN pendingTunnels, y \in Types :
            /\ pendingTunnels[t].seat[y] = s
            /\ claim[s] = [type |-> y, ticket |-> t]
       \/ \E t \in DOMAIN activeTunnels :
            s \in activeTunnels[t].sockets /\ claim[s].ticket = t

\* What getState() reports is true: a tunnel is never pending and active at
\* once, an active one still has a live socket, and every socket it or a
\* pending one holds is tracked (the bookkeeping split over acceptSocket,
\* trackDataSocket and watchPendingSocket).
TunnelsTracked ==
  /\ DOMAIN pendingTunnels \cap DOMAIN activeTunnels = {}
  /\ \A t \in DOMAIN activeTunnels : activeTunnels[t].sockets # {}
  /\ \A t \in DOMAIN activeTunnels : activeTunnels[t].sockets \subseteq dataSockets
  /\ SeatsOf(DOMAIN pendingTunnels) \subseteq dataSockets
  /\ \A s \in dataSockets : life[s] \in {"open", "destroyed"}

\* Two sockets are joined only if they presented the same ticket as opposite
\* sides, and each is joined to the other alone, whatever was replaced,
\* cancelled or closed around them (acceptSocket, bridgeSockets).
JoinedByTicket ==
  \A r, s \in Sockets : bridge[r] = s =>
    /\ bridge[s] = r
    /\ claim[r] # None /\ claim[s] # None
    /\ claim[r].ticket = claim[s].ticket
    /\ claim[r].type # claim[s].type

\* closePeer unpipes both ways and, after a clean close, only ends the peer's
\* writable half.  Nobody reads or times that peer from then on, so it must
\* already have ended both ways, or it would stay open for ever.
NoOrphanedHalf ==
  \A s \in Sockets :
    life[s] = "closed" /\ bridge[s] # None /\ life[bridge[s]] = "open" =>
      bridge[s] \in readEnded \cap writeEnded

\* A resolved close() leaves nothing behind: no tunnel, no tracked socket, and
\* none still open (close, waitForSockets, destroySockets).
AtRest ==
  phase = "closed" =>
    /\ DOMAIN pendingTunnels = {} /\ DOMAIN activeTunnels = {}
    /\ dataSockets = {}
    /\ \A s \in Sockets : claim[s] # None => life[s] = "closed"

-----------------------------------------------------------------------------
(* The inductive invariant behind the safety properties *)

\* A seated socket presented that ticket as that side, is tracked, is not
\* joined to anything, and if it is destroyed a network error did it.
SeatsClaimed ==
  \A t \in DOMAIN pendingTunnels, y \in Types, s \in Sockets :
    pendingTunnels[t].seat[y] = s =>
      /\ claim[s] = [type |-> y, ticket |-> t]
      /\ s \in dataSockets
      /\ bridge[s] = None
      /\ life[s] = "destroyed" => s \in hadError

\* While its ticket is pending, an accepted socket keeps its seat.
ClaimsSeated ==
  \A s \in Sockets : claim[s] # None =>
    /\ claim[s].ticket \in issued
    /\ claim[s].ticket \in DOMAIN pendingTunnels =>
         pendingTunnels[claim[s].ticket].seat[claim[s].type] = s

\* The tracked sockets are the accepted ones that have not closed.
TrackedExactly ==
  \A s \in Sockets :
    /\ s \in dataSockets <=> claim[s] # None /\ life[s] # "closed"
    /\ life[s] = "open" => claim[s] # None
    /\ life[s] = "new" => claim[s] = None /\ s \notin readEnded

\* The members of an active tunnel are its own tracked, joined sockets.
ActiveHeld ==
  \A t \in DOMAIN activeTunnels :
    /\ t \notin DOMAIN pendingTunnels
    /\ activeTunnels[t].sockets # {}
    /\ \A s \in activeTunnels[t].sockets :
         /\ s \in dataSockets
         /\ claim[s] # None /\ claim[s].ticket = t
         /\ bridge[s] # None

\* An open socket is in the tunnel of its ticket, pending or active.
OpenHeld ==
  \A s \in Sockets : life[s] = "open" =>
    \/ claim[s].ticket \in DOMAIN pendingTunnels
    \/ /\ claim[s].ticket \in DOMAIN activeTunnels
       /\ s \in activeTunnels[claim[s].ticket].sockets

\* How far close() has got.
CloseStages ==
  /\ closing => DOMAIN pendingTunnels = {}
  /\ phase \in {"destroying", "closed"} =>
       \A s \in dataSockets : s \in waiting /\ life[s] = "destroyed"
  /\ phase = "closed" => waiting = {} /\ DOMAIN activeTunnels = {}

\* Between two joined sockets an ended half has reached the other one, and one
\* that was destroyed without an error leaves a peer that has ended both ways.
HalvesForwarded ==
  /\ \A s \in writeEnded : bridge[s] # None
  /\ \A r, s \in Sockets : bridge[r] = s /\ life[r] = "open" =>
       /\ life[s] = "open" /\ r \in readEnded => s \in writeEnded
       /\ s \in writeEnded => r \in readEnded
       /\ life[s] \in {"destroyed", "closed"} /\ s \notin hadError =>
            r \in readEnded \cap writeEnded
       /\ life[s] = "closed" => s \notin hadError

\* None of the safety properties above is inductive alone: whether a ticket can
\* be used twice depends on the seats, whether a half is orphaned on what was
\* piped before, and so on.
IndInv ==
  /\ TypeOK
  /\ SeatsClaimed
  /\ ClaimsSeated
  /\ TrackedExactly
  /\ ActiveHeld
  /\ OpenHeld
  /\ CloseStages
  /\ SingleUse
  /\ JoinedByTicket
  /\ HalvesForwarded

-----------------------------------------------------------------------------
(* What the transport promises about tickets, whatever becomes of sockets *)

ledgerStatus ==
  [t \in Tickets |-> IF t \in DOMAIN pendingTunnels THEN "pending"
                     ELSE IF t \in DOMAIN activeTunnels THEN "paired"
                     ELSE IF t \in issued THEN "over" ELSE "unissued"]

ledgerJoined ==
  [t \in Tickets |->
     {y \in Types : \E s \in Sockets : claim[s] = [type |-> y, ticket |-> t]}]

Ledger == INSTANCE TicketLedger
            WITH status <- ledgerStatus, joined <- ledgerJoined, sealed <- closing

\* The transport implements the ticket ledger.
ImplementsLedger == Ledger!Spec
=============================================================================
