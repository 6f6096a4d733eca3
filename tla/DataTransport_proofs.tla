-------------------------- MODULE DataTransport_proofs --------------------------
(***************************************************************************)
(* Proofs about DataTransport, for every set of sessions, sockets and      *)
(* tickets and every bound on the pending tunnels.                         *)
(***************************************************************************)
EXTENDS DataTransport, TLAPS

-----------------------------------------------------------------------------
(* Type correctness *)

\* The initial state is type correct.
LEMMA InitTypeOK == Init => TypeOK
  BY DEF Init, SocketsInit, TypeOK, SocketsTypeOK, PendingTunnels, ActiveTunnels

\* What Destroyed and Without return.
LEMMA DestroyedType ==
  ASSUME TypeOK, NEW S
  PROVE  Destroyed(S) \in [Sockets -> {"new", "open", "destroyed", "closed"}]
  BY DEF TypeOK, SocketsTypeOK, Destroyed

LEMMA WithoutType ==
  ASSUME TypeOK, NEW T
  PROVE  /\ DOMAIN Without(pendingTunnels, T) \in SUBSET issued
         /\ Without(pendingTunnels, T)
              \in [DOMAIN Without(pendingTunnels, T) -> PendingTunnels]
  BY DEF TypeOK, SocketsTypeOK, Without

\* Every action keeps the state type correct.
LEMMA NextTypeOK == TypeOK /\ [Next]_transportVars => TypeOK'
<1> SUFFICES ASSUME TypeOK, [Next]_transportVars PROVE TypeOK'
  OBVIOUS
<1> USE DestroyedType, WithoutType
<1>1. ASSUME NEW c \in Sessions, NEW a \in Sessions, NEW t \in Tickets,
             CreatePendingTunnel(c, a, t)
      PROVE  TypeOK'
  <2>1. [clientSession |-> c, agentSession |-> a, seat |-> [y \in Types |-> None]]
          \in PendingTunnels
    BY DEF PendingTunnels
  <2> QED
    BY <1>1, <2>1 DEF CreatePendingTunnel, TypeOK, SocketsTypeOK, Put, streams, bridgeVars
<1>2. ASSUME NEW s \in Sockets, NEW m \in Claims \cup {None}, AcceptSocket(s, m)
      PROVE  TypeOK'
  <2>1. CASE Reject(s, m)
    BY <1>2, <2>1 DEF Reject, TypeOK, SocketsTypeOK, admin
  <2>2. CASE Seat(s, m)
    <3>1. m \in Claims /\ m.ticket \in DOMAIN pendingTunnels /\ m.type \in Types
      BY <2>2 DEF Seat, SeatFree, isDataMessage, Claims
    <3> DEFINE p == pendingTunnels[m.ticket]
    <3>2. Seated(p, m.type, s) \in PendingTunnels
      <4>1. p \in PendingTunnels
        BY <3>1 DEF TypeOK, SocketsTypeOK
      <4>2. [p.seat EXCEPT ![m.type] = s] \in [Types -> Sockets \cup {None}]
        BY <4>1, <3>1 DEF PendingTunnels
      <4> QED
        BY <4>1, <4>2 DEF Seated, PendingTunnels
    <3> QED
      BY <2>2, <3>1, <3>2 DEF Seat, TypeOK, SocketsTypeOK
  <2>3. CASE Pair(s, m)
    <3> DEFINE p == pendingTunnels[m.ticket]
               other == p.seat[OtherType(m.type)]
    <3>1. m \in Claims /\ m.ticket \in DOMAIN pendingTunnels /\ m.type \in Types
      BY <2>3 DEF Pair, SeatFree, isDataMessage, Claims
    <3>2. p \in PendingTunnels /\ OtherType(m.type) \in Types
      BY <3>1 DEF TypeOK, SocketsTypeOK, OtherType, Types
    <3>3. other \in Sockets /\ p.agentSession \in Sessions
      BY <3>2, <2>3 DEF PendingTunnels, Pair
    <3>4. [agentSession |-> p.agentSession, sockets |-> {s, other}] \in ActiveTunnels
      BY <3>3 DEF ActiveTunnels
    <3>5. bridge' \in [Sockets -> Sockets \cup {None}]
      BY <2>3, <3>3 DEF Pair, TypeOK, SocketsTypeOK, Bridged
    <3>6. DOMAIN activeTunnels' \in SUBSET issued' /\ activeTunnels' \in [DOMAIN activeTunnels' -> ActiveTunnels]
      BY <2>3, <3>1, <3>4 DEF Pair, TypeOK, SocketsTypeOK, Put
    <3>7. writeEnded' \in SUBSET Sockets
      BY <2>3, <3>3 DEF Pair, TypeOK, SocketsTypeOK, Forwarded
    <3> QED
      BY <2>3, <3>1, <3>5, <3>6, <3>7 DEF Pair, TypeOK, SocketsTypeOK
  <2> QED
    BY <1>2, <2>1, <2>2, <2>3 DEF AcceptSocket
<1>3. ASSUME NEW t \in Tickets, NEW x \in Sessions, CancelPendingTunnel(t, x)
      PROVE  TypeOK'
  BY <1>3 DEF CancelPendingTunnel, Cancel, TypeOK, SocketsTypeOK
<1>4. ASSUME NEW x \in Sessions, CancelPendingForSession(x) PROVE TypeOK'
  BY <1>4 DEF CancelPendingForSession, Cancel, TypeOK, SocketsTypeOK
<1>5. ASSUME NEW x \in Sessions, NEW y \in Sessions, ReplaceSession(x, y)
      PROVE  TypeOK'
  <2>1. \A t \in DOMAIN activeTunnels :
          [activeTunnels[t] EXCEPT !.agentSession = y] \in ActiveTunnels
    BY DEF TypeOK, SocketsTypeOK, ActiveTunnels
  <2> QED
    BY <1>5, <2>1 DEF ReplaceSession, Cancel, TypeOK, SocketsTypeOK
<1>6. ASSUME NEW x \in Sessions, CloseAgentSession(x) PROVE TypeOK'
  BY <1>6 DEF CloseAgentSession, TypeOK, SocketsTypeOK
<1>7. ASSUME NEW force \in BOOLEAN, BeginClose(force) PROVE TypeOK'
  BY <1>7 DEF BeginClose, TypeOK, SocketsTypeOK
<1>8. ASSUME NEW t \in Tickets, PairingTimeout(t) PROVE TypeOK'
  BY <1>8 DEF PairingTimeout, Cancel, TypeOK, SocketsTypeOK
<1>9. CASE EndDrain
  BY <1>9 DEF EndDrain, DrainOver, TypeOK, SocketsTypeOK
<1>10. CASE FinishClose
  BY <1>10 DEF FinishClose, TypeOK, SocketsTypeOK, streams, bridgeVars
<1>11. ASSUME NEW s \in Sockets, AutoDestroy(s) PROVE TypeOK'
  BY <1>11 DEF AutoDestroy, SocketFinishes, TypeOK, SocketsTypeOK, admin
<1>12. ASSUME NEW s \in Sockets, CloseEvent(s) PROVE TypeOK'
  <2>1. \A t \in DOMAIN activeTunnels :
          [activeTunnels[t] EXCEPT !.sockets = @ \ {s}] \in ActiveTunnels
    BY DEF TypeOK, SocketsTypeOK, ActiveTunnels
  <2>2. DOMAIN activeTunnels' \in SUBSET issued' /\ activeTunnels' \in [DOMAIN activeTunnels' -> ActiveTunnels]
    BY <1>12, <2>1 DEF CloseEvent, SocketCloses, Departed, Without, TypeOK, SocketsTypeOK
  <2>3. PeerToEnd(s) \in SUBSET Sockets
    BY DEF PeerToEnd
  <2> QED
    BY <1>12, <2>2, <2>3 DEF CloseEvent, SocketCloses, TypeOK, SocketsTypeOK
<1>13. ASSUME NEW s \in Sockets, SocketError(s) PROVE TypeOK'
  BY <1>13 DEF SocketError, SocketFails, TypeOK, SocketsTypeOK, admin
<1>14. ASSUME NEW s \in Sockets, RemoteEnd(s) PROVE TypeOK'
  BY <1>14 DEF RemoteEnd, SocketEnds, TypeOK, SocketsTypeOK, admin
<1>15. CASE UNCHANGED transportVars
  BY <1>15 DEF transportVars, admin, streams, bridgeVars, TypeOK, SocketsTypeOK
<1> QED
  BY <1>1, <1>2, <1>3, <1>4, <1>5, <1>6, <1>7, <1>8, <1>9, <1>10, <1>11,
     <1>12, <1>13, <1>14, <1>15 DEF Next, Requests, Progress, Environment

\* Every reachable state of the transport is type correct.
THEOREM TypeCorrect == Spec => []TypeOK
<1>1. Init => TypeOK
  BY InitTypeOK
<1>2. TypeOK /\ [Next]_transportVars => TypeOK'
  BY NextTypeOK
<1> QED
  BY <1>1, <1>2, PTL DEF Spec

-----------------------------------------------------------------------------
(* The inductive invariant *)

\* It holds initially.
LEMMA InitIndInv == Init => IndInv
<1> SUFFICES ASSUME Init PROVE IndInv
  OBVIOUS
<1>1. TypeOK
  BY InitTypeOK
<1>2. DOMAIN pendingTunnels = {} /\ DOMAIN activeTunnels = {}
  BY DEF Init
<1>3. SeatsClaimed /\ ClaimsSeated /\ ActiveHeld
  BY <1>2 DEF Init, SeatsClaimed, ClaimsSeated, ActiveHeld
<1>4. TrackedExactly /\ OpenHeld /\ CloseStages
  BY <1>2 DEF Init, SocketsInit, TrackedExactly, OpenHeld, CloseStages, closing
<1>5. SingleUse /\ JoinedByTicket /\ HalvesForwarded
  BY NoneAssumption DEF Init, SocketsInit, SingleUse, JoinedByTicket, HalvesForwarded
<1> QED
  BY <1>1, <1>3, <1>4, <1>5 DEF IndInv

\* Giving up the pending tunnels T and destroying the sockets S keeps the
\* invariant when S holds every seat of T, no seat of another pending tunnel,
\* and with a joined socket its open peer.
LEMMA Destroying ==
  ASSUME IndInv, TypeOK',
         NEW S, NEW T,
         pendingTunnels' = Without(pendingTunnels, T),
         life' = Destroyed(S),
         DOMAIN activeTunnels' = DOMAIN activeTunnels,
         \A t \in DOMAIN activeTunnels :
           activeTunnels'[t].sockets = activeTunnels[t].sockets,
         UNCHANGED <<issued, dataSockets, hadError, readEnded, writeEnded, bridge, claim>>,
         \A t \in DOMAIN pendingTunnels, y \in Types, s \in Sockets :
           pendingTunnels[t].seat[y] = s => (t \in T <=> s \in S),
         \A r, s \in Sockets : bridge[r] = s /\ life[r] = "open" /\ s \in S => r \in S
  PROVE  /\ SeatsClaimed' /\ ClaimsSeated' /\ TrackedExactly' /\ ActiveHeld'
         /\ OpenHeld' /\ SingleUse' /\ JoinedByTicket' /\ HalvesForwarded'
<1> USE DEF IndInv
<1>1. \A s \in Sockets :
        life'[s] = IF s \in S /\ life[s] = "open" THEN "destroyed" ELSE life[s]
  BY DEF Destroyed
<1>2. /\ DOMAIN pendingTunnels' = DOMAIN pendingTunnels \ T
      /\ \A t \in DOMAIN pendingTunnels' : pendingTunnels'[t] = pendingTunnels[t]
  BY DEF Without
<1>3. SeatsClaimed'
  BY <1>1, <1>2 DEF SeatsClaimed
<1>4. ClaimsSeated'
  BY <1>2 DEF ClaimsSeated
<1>5. TrackedExactly'
  BY <1>1 DEF TrackedExactly
<1>6. ActiveHeld'
  BY <1>2 DEF ActiveHeld
<1>7. OpenHeld'
  <2> SUFFICES ASSUME NEW s \in Sockets, life'[s] = "open"
               PROVE  \/ claim[s].ticket \in DOMAIN pendingTunnels'
                      \/ /\ claim[s].ticket \in DOMAIN activeTunnels'
                         /\ s \in activeTunnels'[claim[s].ticket].sockets
    BY DEF OpenHeld
  <2>1. life[s] = "open" /\ s \notin S
    BY <1>1
  <2>2. CASE claim[s].ticket \in DOMAIN pendingTunnels
    <3>1. claim[s] # None /\ claim[s].type \in Types
      BY <2>1 DEF TrackedExactly, TypeOK, SocketsTypeOK, Claims
    <3>2. pendingTunnels[claim[s].ticket].seat[claim[s].type] = s
      BY <2>2, <3>1 DEF ClaimsSeated
    <3> QED
      BY <1>2, <2>1, <2>2, <3>1, <3>2
  <2> QED
    BY <2>1, <2>2 DEF OpenHeld
<1>8. SingleUse' /\ JoinedByTicket'
  BY DEF SingleUse, JoinedByTicket
<1>9. HalvesForwarded'
  <2>1. \A r, s \in Sockets : bridge[r] = s /\ life'[r] = "open" =>
          life[r] = "open" /\ life'[s] = life[s]
    BY <1>1
  <2> QED
    BY <2>1 DEF HalvesForwarded
<1> QED
  BY <1>3, <1>4, <1>5, <1>6, <1>7, <1>8, <1>9

\* What is known of a socket that waits in a seat.
LEMMA SeatHolder ==
  ASSUME SeatsClaimed, TypeOK,
         NEW t \in DOMAIN pendingTunnels, NEW y \in Types, NEW s \in Sockets,
         pendingTunnels[t].seat[y] = s
  PROVE  /\ claim[s] = [type |-> y, ticket |-> t]
         /\ s \in dataSockets /\ bridge[s] = None
         /\ life[s] = "destroyed" => s \in hadError
  BY DEF SeatsClaimed, TypeOK, SocketsTypeOK, PendingTunnels

\* The seats of pending tunnels that are given up meet those two conditions.
LEMMA SeatsLeave ==
  ASSUME IndInv, NEW T \in SUBSET DOMAIN pendingTunnels
  PROVE  /\ \A t \in DOMAIN pendingTunnels, y \in Types, s \in Sockets :
              pendingTunnels[t].seat[y] = s => (t \in T <=> s \in SeatsOf(T))
         /\ \A r, s \in Sockets : bridge[r] = s => s \notin SeatsOf(T)
<1> USE DEF IndInv
<1>1. ASSUME NEW s \in SeatsOf(T)
      PROVE  /\ s \in Sockets /\ bridge[s] = None
             /\ \E t \in T, y \in Types : claim[s] = [type |-> y, ticket |-> t]
  <2>1. PICK t \in T, y \in Types : pendingTunnels[t].seat[y] = s
    BY <1>1 DEF SeatsOf
  <2>2. s \in Sockets /\ t \in DOMAIN pendingTunnels
    BY <1>1 DEF SeatsOf
  <2>3. bridge[s] = None /\ claim[s] = [type |-> y, ticket |-> t]
    BY <2>1, <2>2 DEF SeatsClaimed
  <2> QED
    BY <2>2, <2>3
<1>2. \A t \in DOMAIN pendingTunnels, y \in Types, s \in Sockets :
        pendingTunnels[t].seat[y] = s => (t \in T <=> s \in SeatsOf(T))
  <2> SUFFICES ASSUME NEW t \in DOMAIN pendingTunnels, NEW y \in Types, NEW s \in Sockets,
                      pendingTunnels[t].seat[y] = s
               PROVE  t \in T <=> s \in SeatsOf(T)
    OBVIOUS
  <2>1. t \in T => s \in SeatsOf(T)
    BY DEF SeatsOf
  <2>2. ASSUME s \in SeatsOf(T) PROVE t \in T
    <3>1. claim[s] = [type |-> y, ticket |-> t]
      BY DEF SeatsClaimed
    <3>2. PICK u \in T, z \in Types : claim[s] = [type |-> z, ticket |-> u]
      BY <1>1, <2>2
    <3> QED
      BY <3>1, <3>2
  <2> QED
    BY <2>1, <2>2
<1>3. \A r, s \in Sockets : bridge[r] = s => s \notin SeatsOf(T)
  BY <1>1, NoneAssumption DEF JoinedByTicket
<1> QED
  BY <1>2, <1>3

\* PendingOf names pending tunnels.
LEMMA PendingOfType == \A x : PendingOf(x) \in SUBSET DOMAIN pendingTunnels
  BY DEF PendingOf

\* A step that only gives up pending tunnels, and perhaps hands streams over to
\* another agent session, keeps the invariant.
LEMMA CancelKeepsIndInv ==
  ASSUME IndInv, TypeOK',
         NEW T \in SUBSET DOMAIN pendingTunnels, Cancel(T),
         DOMAIN activeTunnels' = DOMAIN activeTunnels,
         \A t \in DOMAIN activeTunnels :
           activeTunnels'[t].sockets = activeTunnels[t].sockets,
         UNCHANGED <<phase, issued, dataSockets, waiting,
                     hadError, readEnded, writeEnded, bridge, claim>>
  PROVE  IndInv'
<1>1. /\ SeatsClaimed' /\ ClaimsSeated' /\ TrackedExactly' /\ ActiveHeld'
      /\ OpenHeld' /\ SingleUse' /\ JoinedByTicket' /\ HalvesForwarded'
  BY SeatsLeave, Destroying DEF Cancel
<1>2. CloseStages'
  <2>1. DOMAIN pendingTunnels' = DOMAIN pendingTunnels \ T
    BY DEF Cancel, Without
  <2>2. \A s \in Sockets : life[s] = "destroyed" => life'[s] = "destroyed"
    BY DEF Cancel, Destroyed
  <2>3. dataSockets \in SUBSET Sockets
    BY DEF IndInv, TypeOK, SocketsTypeOK
  <2> QED
    BY <2>1, <2>2, <2>3 DEF IndInv, CloseStages, closing
<1> QED
  BY <1>1, <1>2 DEF IndInv

\* createPendingTunnel keeps it: the ticket is fresh and its seats are empty.
LEMMA CreateKeepsIndInv ==
  ASSUME IndInv, TypeOK', NEW c \in Sessions, NEW a \in Sessions, NEW t \in Tickets,
         CreatePendingTunnel(c, a, t)
  PROVE  IndInv'
<1> USE DEF IndInv, CreatePendingTunnel
<1>1. /\ DOMAIN pendingTunnels' = DOMAIN pendingTunnels \cup {t}
      /\ \A u \in DOMAIN pendingTunnels : pendingTunnels'[u] = pendingTunnels[u]
      /\ \A y \in Types : pendingTunnels'[t].seat[y] = None
      /\ t \notin DOMAIN pendingTunnels
  BY DEF Put, TypeOK, SocketsTypeOK
<1>2. UNCHANGED streams /\ UNCHANGED <<activeTunnels, dataSockets, waiting, phase>>
  OBVIOUS
<1>3. SeatsClaimed'
  BY <1>1, <1>2, NoneAssumption DEF SeatsClaimed, streams, bridgeVars
<1>4. ClaimsSeated'
  BY <1>1, <1>2 DEF ClaimsSeated, streams, bridgeVars
<1>5. TrackedExactly' /\ SingleUse' /\ JoinedByTicket' /\ HalvesForwarded'
  BY <1>2 DEF TrackedExactly, SingleUse, JoinedByTicket, HalvesForwarded, streams, bridgeVars
<1>6. ActiveHeld'
  BY <1>1, <1>2 DEF ActiveHeld, TypeOK, SocketsTypeOK, streams, bridgeVars
<1>7. OpenHeld'
  BY <1>1, <1>2 DEF OpenHeld, streams, bridgeVars
<1>8. CloseStages'
  BY <1>2 DEF CloseStages, closing
<1> QED
  BY <1>3, <1>4, <1>5, <1>6, <1>7, <1>8

\* A new socket has no claim, no seat and no peer.
LEMMA NewSocket ==
  ASSUME IndInv, NEW s \in Sockets, life[s] = "new"
  PROVE  /\ claim[s] = None /\ s \notin readEnded /\ s \notin writeEnded
         /\ s \notin dataSockets /\ bridge[s] = None
         /\ \A r \in Sockets : bridge[r] # s
         /\ \A t \in DOMAIN pendingTunnels, y \in Types : pendingTunnels[t].seat[y] # s
         /\ \A t \in DOMAIN activeTunnels : s \notin activeTunnels[t].sockets
<1> USE DEF IndInv
<1>1. claim[s] = None /\ s \notin readEnded /\ s \notin dataSockets
  BY DEF TrackedExactly
<1>2. \A r \in Sockets : bridge[r] # s
  BY <1>1 DEF JoinedByTicket
<1>3. bridge[s] = None
  BY <1>1 DEF JoinedByTicket, TypeOK, SocketsTypeOK
<1>4. s \notin writeEnded
  BY <1>3 DEF HalvesForwarded
<1>5. \A t \in DOMAIN pendingTunnels, y \in Types : pendingTunnels[t].seat[y] # s
  <2> SUFFICES ASSUME NEW t \in DOMAIN pendingTunnels, NEW y \in Types,
                      pendingTunnels[t].seat[y] = s
               PROVE  FALSE
    OBVIOUS
  <2> QED
    BY <1>1, SeatHolder
<1>6. \A t \in DOMAIN activeTunnels : s \notin activeTunnels[t].sockets
  BY <1>1 DEF ActiveHeld
<1> QED
  BY <1>1, <1>2, <1>3, <1>4, <1>5, <1>6

\* acceptSocket keeps it when it refuses the socket.
LEMMA RejectKeepsIndInv ==
  ASSUME IndInv, TypeOK', NEW s \in Sockets, NEW m, life[s] = "new", Reject(s, m)
  PROVE  IndInv'
<1> USE DEF IndInv
<1>1. UNCHANGED <<phase, issued, pendingTunnels, activeTunnels, dataSockets, waiting,
                  hadError, readEnded, writeEnded, bridge, claim>>
  BY DEF Reject, admin
<1>2. \A r \in Sockets : life'[r] = IF r = s THEN "destroyed" ELSE life[r]
  BY DEF Reject, TypeOK, SocketsTypeOK
<1>3. SeatsClaimed'
  BY <1>1, <1>2, NewSocket DEF SeatsClaimed
<1>4. ClaimsSeated' /\ ActiveHeld' /\ SingleUse' /\ JoinedByTicket'
  BY <1>1 DEF ClaimsSeated, ActiveHeld, SingleUse, JoinedByTicket
<1>5. TrackedExactly'
  BY <1>1, <1>2, NewSocket DEF TrackedExactly
<1>6. OpenHeld'
  BY <1>1, <1>2 DEF OpenHeld
<1>7. CloseStages'
  BY <1>1, <1>2 DEF CloseStages, closing, TypeOK, SocketsTypeOK
<1>8. HalvesForwarded'
  BY <1>1, <1>2, NewSocket DEF HalvesForwarded
<1> QED
  BY <1>3, <1>4, <1>5, <1>6, <1>7, <1>8

\* While a seat is free, no socket has that claim.
LEMMA FreeSeatUnclaimed ==
  ASSUME IndInv, NEW m, SeatFree(m)
  PROVE  /\ m \in Claims /\ m.type \in Types /\ m.ticket \in DOMAIN pendingTunnels
         /\ OtherType(m.type) \in Types /\ OtherType(m.type) # m.type
         /\ m = [type |-> m.type, ticket |-> m.ticket]
         /\ m.ticket \notin DOMAIN activeTunnels
         /\ \A r \in Sockets : claim[r] # m
<1>1. /\ m \in Claims /\ m.type \in Types /\ m.ticket \in DOMAIN pendingTunnels
      /\ m = [type |-> m.type, ticket |-> m.ticket]
      /\ pendingTunnels[m.ticket].seat[m.type] = None
  BY DEF SeatFree, isDataMessage, Claims
<1>2. OtherType(m.type) \in Types /\ OtherType(m.type) # m.type
  BY <1>1 DEF OtherType, Types
<1>3. \A r \in Sockets : claim[r] # m
  BY <1>1, NoneAssumption DEF IndInv, ClaimsSeated
<1>4. m.ticket \notin DOMAIN activeTunnels
  BY <1>1 DEF IndInv, ActiveHeld
<1> QED
  BY <1>1, <1>2, <1>3, <1>4

\* acceptSocket keeps it when the first side of a ticket is seated.
LEMMA SeatKeepsIndInv ==
  ASSUME IndInv, TypeOK', NEW s \in Sockets, NEW m, life[s] = "new", Seat(s, m)
  PROVE  IndInv'
<1> USE DEF IndInv
<1> DEFINE p == pendingTunnels[m.ticket]
<1>1. SeatFree(m)
  BY DEF Seat
<1>2. /\ m \in Claims /\ m.type \in Types /\ m.ticket \in DOMAIN pendingTunnels
      /\ m = [type |-> m.type, ticket |-> m.ticket]
      /\ \A r \in Sockets : claim[r] # m
  BY <1>1, FreeSeatUnclaimed
<1>3. /\ DOMAIN pendingTunnels' = DOMAIN pendingTunnels
      /\ \A t \in DOMAIN pendingTunnels, y \in Types :
           pendingTunnels'[t].seat[y] =
             IF t = m.ticket /\ y = m.type THEN s ELSE pendingTunnels[t].seat[y]
  <2>1. p \in PendingTunnels /\ p.seat \in [Types -> Sockets \cup {None}]
    BY <1>2 DEF TypeOK, SocketsTypeOK, PendingTunnels
  <2>2. \A y \in Types :
          Seated(p, m.type, s).seat[y] = IF y = m.type THEN s ELSE p.seat[y]
    BY <1>2, <2>1 DEF Seated, PendingTunnels
  <2> QED
    BY <1>2, <2>2 DEF Seat, TypeOK, SocketsTypeOK
<1>4. /\ UNCHANGED <<phase, issued, activeTunnels, waiting,
                     hadError, readEnded, writeEnded, bridge>>
      /\ dataSockets' = dataSockets \cup {s}
      /\ \A r \in Sockets : life'[r] = IF r = s THEN "open" ELSE life[r]
      /\ \A r \in Sockets : claim'[r] = IF r = s THEN m ELSE claim[r]
      /\ phase = "open" /\ m # None
  BY <1>1, <1>2, NoneAssumption DEF Seat, SeatFree, closing, TypeOK, SocketsTypeOK
<1> HIDE DEF p
<1>5. SeatsClaimed'
  BY <1>2, <1>3, <1>4, NewSocket DEF SeatsClaimed
<1>6. ClaimsSeated'
  <2> SUFFICES ASSUME NEW r \in Sockets, claim'[r] # None
               PROVE  /\ claim'[r].ticket \in issued
                      /\ claim'[r].ticket \in DOMAIN pendingTunnels =>
                           pendingTunnels'[claim'[r].ticket].seat[claim'[r].type] = r
    BY <1>3, <1>4 DEF ClaimsSeated
  <2>1. CASE r = s
    BY <2>1, <1>2, <1>3, <1>4 DEF TypeOK, SocketsTypeOK
  <2>2. CASE r # s
    <3>1. claim[r] \in Claims /\ claim[r] # m /\ claim'[r] = claim[r]
      BY <2>2, <1>2, <1>4 DEF TypeOK, SocketsTypeOK
    <3>2. /\ claim[r] = [type |-> claim[r].type, ticket |-> claim[r].ticket]
          /\ claim[r].type \in Types
      BY <3>1 DEF Claims
    <3> QED
      BY <3>1, <3>2, <1>2, <1>3, <1>4 DEF ClaimsSeated
  <2> QED
    BY <2>1, <2>2
<1>7. TrackedExactly'
  BY <1>4, NewSocket DEF TrackedExactly
<1>8. ActiveHeld'
  BY <1>3, <1>4, NewSocket DEF ActiveHeld, TypeOK, SocketsTypeOK, ActiveTunnels
<1>9. OpenHeld'
  BY <1>2, <1>3, <1>4 DEF OpenHeld
<1>10. CloseStages'
  BY <1>4 DEF CloseStages, closing
<1>11. SingleUse'
  BY <1>2, <1>4 DEF SingleUse
<1>12. JoinedByTicket'
  BY <1>4, NewSocket DEF JoinedByTicket
<1>13. HalvesForwarded'
  <2>1. \A q, r \in Sockets : bridge'[q] = r => life'[q] = life[q] /\ life'[r] = life[r]
    BY <1>4, NewSocket, NoneAssumption
  <2> QED
    BY <1>4, <2>1 DEF HalvesForwarded
<1> QED
  BY <1>5, <1>6, <1>7, <1>8, <1>9, <1>10, <1>11, <1>12, <1>13

\* acceptSocket keeps it when the second side completes the pair.
LEMMA PairKeepsIndInv ==
  ASSUME IndInv, TypeOK', NEW s \in Sockets, NEW m, life[s] = "new", Pair(s, m)
  PROVE  IndInv'
<1> USE DEF IndInv
<1> DEFINE p == pendingTunnels[m.ticket]
           other == p.seat[OtherType(m.type)]
<1>1. SeatFree(m) /\ other # None
  BY DEF Pair
<1>2. /\ m \in Claims /\ m.type \in Types /\ m.ticket \in DOMAIN pendingTunnels
      /\ OtherType(m.type) \in Types /\ OtherType(m.type) # m.type
      /\ m = [type |-> m.type, ticket |-> m.ticket]
      /\ m.ticket \notin DOMAIN activeTunnels
      /\ \A r \in Sockets : claim[r] # m
  BY <1>1, FreeSeatUnclaimed
<1>3. other \in Sockets
  <2>1. p \in PendingTunnels
    BY <1>2 DEF TypeOK, SocketsTypeOK
  <2> QED
    BY <1>1, <1>2, <2>1 DEF PendingTunnels
<1>4. /\ claim[other] = [type |-> OtherType(m.type), ticket |-> m.ticket]
      /\ other \in dataSockets /\ bridge[other] = None
      /\ life[other] = "destroyed" => other \in hadError
  BY <1>2, <1>3, SeatHolder
<1>5. other # s /\ life[other] \in {"open", "destroyed"}
  BY <1>2, <1>3, <1>4, NewSocket DEF TrackedExactly, TypeOK, SocketsTypeOK
<1>6. /\ DOMAIN pendingTunnels' = DOMAIN pendingTunnels \ {m.ticket}
      /\ \A t \in DOMAIN pendingTunnels' : pendingTunnels'[t] = pendingTunnels[t]
  BY DEF Pair, Without
<1>7. /\ DOMAIN activeTunnels' = DOMAIN activeTunnels \cup {m.ticket}
      /\ \A t \in DOMAIN activeTunnels : activeTunnels'[t] = activeTunnels[t]
      /\ activeTunnels'[m.ticket].sockets = {s, other}
  BY <1>2 DEF Pair, Put
<1>8. /\ UNCHANGED <<phase, issued, waiting, hadError, readEnded>>
      /\ dataSockets' = dataSockets \cup {s}
      /\ \A r \in Sockets : life'[r] = IF r = s THEN "open" ELSE life[r]
      /\ \A r \in Sockets : claim'[r] = IF r = s THEN m ELSE claim[r]
      /\ phase = "open" /\ m # None
  <2>1. claim \in [Sockets -> Claims \cup {None}] /\ DOMAIN life = Sockets
    BY DEF TypeOK, SocketsTypeOK
  <2>2. phase = "open" /\ m # None
    BY <1>1, <1>2, NoneAssumption DEF SeatFree, closing
  <2> QED
    BY <2>1, <2>2 DEF Pair
<1>9. /\ bridge'[s] = other /\ bridge'[other] = s
      /\ \A r \in Sockets : r \notin {s, other} => bridge'[r] = bridge[r]
  <2>1. DOMAIN bridge = Sockets
    BY DEF TypeOK, SocketsTypeOK
  <2>2. bridge' = Bridged(s, other)
    BY DEF Pair
  <2> QED
    BY <1>3, <1>5, <2>1, <2>2 DEF Bridged
<1>10. writeEnded' = IF other \in readEnded THEN writeEnded \cup {s} ELSE writeEnded
  <2>1. s \notin readEnded
    BY DEF TrackedExactly
  <2>2. Forwarded(s, other) = IF other \in readEnded THEN {s} ELSE {}
    BY <1>5, <2>1 DEF Forwarded
  <2> QED
    BY <2>2 DEF Pair
<1>11. \A r \in Sockets : bridge[r] # s /\ bridge[r] # other
  BY <1>3, <1>4, NewSocket, NoneAssumption DEF JoinedByTicket
<1> HIDE DEF p, other
<1>12. SeatsClaimed'
  <2> SUFFICES ASSUME NEW t \in DOMAIN pendingTunnels', NEW y \in Types, NEW r \in Sockets,
                      pendingTunnels'[t].seat[y] = r
               PROVE  /\ claim'[r] = [type |-> y, ticket |-> t]
                      /\ r \in dataSockets' /\ bridge'[r] = None
                      /\ life'[r] = "destroyed" => r \in hadError'
    BY DEF SeatsClaimed
  <2>1. t \in DOMAIN pendingTunnels /\ t # m.ticket /\ pendingTunnels[t].seat[y] = r
    BY <1>6
  <2>2. /\ claim[r] = [type |-> y, ticket |-> t]
        /\ r \in dataSockets /\ bridge[r] = None
        /\ life[r] = "destroyed" => r \in hadError
    BY <2>1 DEF SeatsClaimed
  <2>3. r # s /\ r # other
    BY <2>1, <2>2, <1>4, NewSocket
  <2> QED
    BY <2>2, <2>3, <1>8, <1>9
<1>13. ClaimsSeated'
  <2> SUFFICES ASSUME NEW r \in Sockets, claim'[r] # None
               PROVE  /\ claim'[r].ticket \in issued
                      /\ claim'[r].ticket \in DOMAIN pendingTunnels' =>
                           pendingTunnels'[claim'[r].ticket].seat[claim'[r].type] = r
    BY <1>8 DEF ClaimsSeated
  <2>1. CASE r = s
    BY <2>1, <1>2, <1>6, <1>8 DEF TypeOK, SocketsTypeOK
  <2>2. CASE r # s
    BY <2>2, <1>6, <1>8 DEF ClaimsSeated
  <2> QED
    BY <2>1, <2>2
<1>14. TrackedExactly'
  BY <1>8, NewSocket DEF TrackedExactly
<1>15. ActiveHeld'
  <2> SUFFICES ASSUME NEW t \in DOMAIN activeTunnels'
               PROVE  /\ t \notin DOMAIN pendingTunnels'
                      /\ activeTunnels'[t].sockets # {}
                      /\ \A r \in activeTunnels'[t].sockets :
                           /\ r \in dataSockets'
                           /\ claim'[r] # None /\ claim'[r].ticket = t
                           /\ bridge'[r] # None
    BY DEF ActiveHeld
  <2>1. CASE t = m.ticket
    <3>1. claim'[s] = m /\ claim'[other] = claim[other] /\ claim[other] # None
      BY <1>3, <1>4, <1>5, <1>8 DEF TrackedExactly
    <3> QED
      BY <2>1, <3>1, <1>3, <1>4, <1>6, <1>7, <1>8, <1>9, NoneAssumption
  <2>2. CASE t # m.ticket
    <3>1. t \in DOMAIN activeTunnels /\ activeTunnels'[t] = activeTunnels[t]
      BY <2>2, <1>7
    <3>2. \A r \in activeTunnels[t].sockets : r \in Sockets /\ r # s /\ r # other
      BY <3>1, <1>4, NewSocket DEF ActiveHeld, TypeOK, SocketsTypeOK
    <3> QED
      BY <3>1, <3>2, <1>6, <1>8, <1>9 DEF ActiveHeld
  <2> QED
    BY <2>1, <2>2
<1>16. OpenHeld'
  <2> SUFFICES ASSUME NEW r \in Sockets, life'[r] = "open"
               PROVE  \/ claim'[r].ticket \in DOMAIN pendingTunnels'
                      \/ /\ claim'[r].ticket \in DOMAIN activeTunnels'
                         /\ r \in activeTunnels'[claim'[r].ticket].sockets
    BY DEF OpenHeld
  <2>1. CASE r \in {s, other}
    BY <2>1, <1>3, <1>4, <1>5, <1>7, <1>8
  <2>2. CASE r \notin {s, other}
    <3>1. life[r] = "open" /\ claim'[r] = claim[r] /\ claim[r] # None
      BY <2>2, <1>8 DEF TrackedExactly
    <3>2. claim[r].ticket # m.ticket
      <4>1. claim[r] \in Claims
        BY <3>1 DEF TypeOK, SocketsTypeOK
      <4>2. claim[r].type = m.type \/ claim[r].type = OtherType(m.type)
        BY <4>1, <1>2 DEF Claims, Types, OtherType
      <4> QED
        BY <4>1, <4>2, <1>2, <1>3, <1>4, <2>2, <3>1 DEF SingleUse, Claims
    <3> QED
      BY <3>1, <3>2, <1>6, <1>7 DEF OpenHeld
  <2> QED
    BY <2>1, <2>2
<1>17. CloseStages'
  BY <1>8 DEF CloseStages, closing
<1>18. SingleUse'
  BY <1>2, <1>8 DEF SingleUse
<1>19. JoinedByTicket'
  <2>1. claim'[s] = m /\ claim'[other] = claim[other] /\ claim[other] # None
    BY <1>3, <1>4, <1>5, <1>8 DEF TrackedExactly
  <2>2. claim'[s].ticket = claim'[other].ticket /\ claim'[s].type # claim'[other].type
    BY <2>1, <1>2, <1>4
  <2>3. ASSUME NEW q \in Sockets, NEW r \in Sockets, bridge'[q] = r, q \notin {s, other}
        PROVE  r \notin {s, other} /\ bridge[q] = r /\ bridge[r] = q
    BY <2>3, <1>9, <1>11 DEF JoinedByTicket
  <2>4. \A r \in Sockets : r # s => claim'[r] = claim[r]
    BY <1>8
  <2> QED
    BY <2>1, <2>2, <2>3, <2>4, <1>3, <1>5, <1>8, <1>9 DEF JoinedByTicket
<1>20. HalvesForwarded'
  <2>1. s \notin writeEnded /\ other \notin writeEnded /\ s \notin readEnded
    BY <1>3, <1>4, NewSocket DEF HalvesForwarded
  <2>2. \A r \in writeEnded' : bridge'[r] # None
    BY <1>3, <1>9, <1>10, NoneAssumption DEF HalvesForwarded, TypeOK, SocketsTypeOK
  <2>3. ASSUME NEW q \in Sockets, NEW r \in Sockets, bridge'[q] = r, life'[q] = "open"
        PROVE  /\ life'[r] = "open" /\ q \in readEnded' => r \in writeEnded'
               /\ r \in writeEnded' => q \in readEnded'
               /\ life'[r] \in {"destroyed", "closed"} /\ r \notin hadError' =>
                    q \in readEnded' \cap writeEnded'
               /\ life'[r] = "closed" => r \notin hadError'
    <3>1. CASE q = s
      BY <2>1, <2>3, <3>1, <1>3, <1>4, <1>5, <1>8, <1>9, <1>10
    <3>2. CASE q = other
      BY <2>1, <2>3, <3>2, <1>3, <1>4, <1>5, <1>8, <1>9, <1>10
    <3>3. CASE q \notin {s, other}
      <4>1. bridge[q] = r /\ r \notin {s, other} /\ life[q] = "open" /\ life'[r] = life[r]
        BY <2>3, <3>3, <1>8, <1>9, <1>11
      <4> QED
        BY <4>1, <3>3, <1>8, <1>10 DEF HalvesForwarded
    <3> QED
      BY <3>1, <3>2, <3>3
  <2> QED
    BY <2>2, <2>3 DEF HalvesForwarded
<1> QED
  BY <1>12, <1>13, <1>14, <1>15, <1>16, <1>17, <1>18, <1>19, <1>20

\* closeAgentSession keeps it: both open sockets of a stream go together.
LEMMA CloseAgentKeepsIndInv ==
  ASSUME IndInv, TypeOK', NEW x \in Sessions, CloseAgentSession(x)
  PROVE  IndInv'
<1> USE DEF IndInv
<1> DEFINE T == PendingOf(x)
           S == SeatsOf(T) \cup StreamsOf(x)
<1>1. T \in SUBSET DOMAIN pendingTunnels
  BY PendingOfType
<1>2. \A s \in StreamsOf(x) : \E t \in DOMAIN activeTunnels :
         activeTunnels[t].agentSession = x /\ s \in activeTunnels[t].sockets
  BY DEF StreamsOf
<1>3. \A s \in StreamsOf(x) : bridge[s] # None
  BY <1>2 DEF ActiveHeld
<1>4. \A t \in DOMAIN pendingTunnels, y \in Types, s \in Sockets :
        pendingTunnels[t].seat[y] = s => (t \in T <=> s \in S)
  <2>1. \A t \in DOMAIN pendingTunnels, y \in Types, s \in Sockets :
          pendingTunnels[t].seat[y] = s => s \notin StreamsOf(x)
    <3> SUFFICES ASSUME NEW t \in DOMAIN pendingTunnels, NEW y \in Types,
                        NEW s \in Sockets, pendingTunnels[t].seat[y] = s
                 PROVE  s \notin StreamsOf(x)
      OBVIOUS
    <3>1. bridge[s] = None
      BY SeatHolder DEF TypeOK, SocketsTypeOK
    <3> QED
      BY <1>3, <3>1
  <2> QED
    BY <1>1, <2>1, SeatsLeave
<1>5. \A r, s \in Sockets : bridge[r] = s /\ life[r] = "open" /\ s \in S => r \in S
  <2> SUFFICES ASSUME NEW r \in Sockets, NEW s \in Sockets, bridge[r] = s,
                      life[r] = "open", s \in StreamsOf(x)
               PROVE  r \in StreamsOf(x)
    BY <1>1, SeatsLeave
  <2>1. PICK t \in DOMAIN activeTunnels :
          activeTunnels[t].agentSession = x /\ s \in activeTunnels[t].sockets
    BY <1>2
  <2>2. claim[r].ticket = t /\ t \notin DOMAIN pendingTunnels
    BY <2>1 DEF ActiveHeld, JoinedByTicket
  <2>3. r \in activeTunnels[t].sockets
    BY <2>2 DEF OpenHeld
  <2> QED
    BY <2>1, <2>3 DEF StreamsOf
<1>6. /\ pendingTunnels' = Without(pendingTunnels, T)
      /\ life' = Destroyed(S)
      /\ UNCHANGED <<phase, issued, activeTunnels, dataSockets, waiting,
                     hadError, readEnded, writeEnded, bridge, claim>>
  BY DEF CloseAgentSession
<1> HIDE DEF T, S
<1>7. /\ SeatsClaimed' /\ ClaimsSeated' /\ TrackedExactly' /\ ActiveHeld'
      /\ OpenHeld' /\ SingleUse' /\ JoinedByTicket' /\ HalvesForwarded'
  BY <1>4, <1>5, <1>6, Destroying
<1>8. CloseStages'
  <2>1. DOMAIN pendingTunnels' = DOMAIN pendingTunnels \ T
    BY <1>6 DEF Without
  <2>2. \A s \in Sockets : life[s] = "destroyed" => life'[s] = "destroyed"
    BY <1>6 DEF Destroyed
  <2> QED
    BY <2>1, <2>2, <1>6 DEF CloseStages, closing, TypeOK, SocketsTypeOK
<1> QED
  BY <1>7, <1>8

\* Destroying every tracked socket, with no ticket left pending, keeps it.
LEMMA ShutdownKeepsIndInv ==
  ASSUME IndInv, TypeOK',
         phase \in {"open", "draining"}, phase' = "destroying",
         pendingTunnels' = Without(pendingTunnels, DOMAIN pendingTunnels),
         life' = Destroyed(dataSockets), waiting' = dataSockets,
         UNCHANGED <<issued, activeTunnels, dataSockets,
                     hadError, readEnded, writeEnded, bridge, claim>>
  PROVE  IndInv'
<1> USE DEF IndInv
<1>1. \A t \in DOMAIN pendingTunnels, y \in Types, s \in Sockets :
        pendingTunnels[t].seat[y] = s => s \in dataSockets
  BY DEF SeatsClaimed
<1>2. \A r \in Sockets : life[r] = "open" => r \in dataSockets
  BY DEF TrackedExactly
<1>3. /\ SeatsClaimed' /\ ClaimsSeated' /\ TrackedExactly' /\ ActiveHeld'
      /\ OpenHeld' /\ SingleUse' /\ JoinedByTicket' /\ HalvesForwarded'
  BY <1>1, <1>2, Destroying
<1>4. CloseStages'
  <2>1. DOMAIN pendingTunnels' = {}
    BY DEF Without
  <2>2. ASSUME NEW s \in dataSockets PROVE life'[s] = "destroyed"
    <3>1. s \in Sockets /\ life[s] \in {"open", "destroyed"}
      BY <2>2 DEF TrackedExactly, TypeOK, SocketsTypeOK
    <3> QED
      BY <2>2, <3>1 DEF Destroyed
  <2> QED
    BY <2>1, <2>2 DEF CloseStages, closing
<1> QED
  BY <1>3, <1>4

\* close() keeps it, forced or graceful.
LEMMA BeginCloseKeepsIndInv ==
  ASSUME IndInv, TypeOK', NEW force \in BOOLEAN, BeginClose(force)
  PROVE  IndInv'
<1>1. CASE force
  BY <1>1, ShutdownKeepsIndInv DEF BeginClose
<1>2. CASE ~force
  <2> DEFINE T == DOMAIN pendingTunnels
  <2>1. /\ SeatsClaimed' /\ ClaimsSeated' /\ TrackedExactly' /\ ActiveHeld'
        /\ OpenHeld' /\ SingleUse' /\ JoinedByTicket' /\ HalvesForwarded'
    <3>1. /\ \A t \in DOMAIN pendingTunnels, y \in Types, s \in Sockets :
               pendingTunnels[t].seat[y] = s => (t \in T <=> s \in SeatsOf(T))
          /\ \A r, s \in Sockets : bridge[r] = s => s \notin SeatsOf(T)
      BY SeatsLeave
    <3>2. pendingTunnels' = Without(pendingTunnels, T) /\ life' = Destroyed(SeatsOf(T))
      BY <1>2 DEF BeginClose
    <3> QED
      BY <3>1, <3>2, Destroying DEF BeginClose
  <2>2. CloseStages'
    BY <1>2 DEF BeginClose, CloseStages, closing, Without
  <2> QED
    BY <2>1, <2>2 DEF IndInv
<1> QED
  BY <1>1, <1>2

\* The end of the drain keeps it.
LEMMA EndDrainKeepsIndInv ==
  ASSUME IndInv, TypeOK', EndDrain
  PROVE  IndInv'
<1>1. DOMAIN pendingTunnels = {}
  BY DEF IndInv, CloseStages, EndDrain, DrainOver, closing
<1>2. pendingTunnels' = Without(pendingTunnels, DOMAIN pendingTunnels)
  BY <1>1 DEF IndInv, TypeOK, SocketsTypeOK, EndDrain, DrainOver, Without
<1> QED
  BY <1>2, ShutdownKeepsIndInv DEF EndDrain, DrainOver

\* The last step of close() keeps it: every tracked socket has closed.
LEMMA FinishCloseKeepsIndInv ==
  ASSUME IndInv, TypeOK', FinishClose
  PROVE  IndInv'
<1> USE DEF IndInv, FinishClose
<1>1. dataSockets = {} /\ DOMAIN pendingTunnels = {} /\ DOMAIN activeTunnels' = {}
  BY DEF CloseStages, closing
<1>2. UNCHANGED <<issued, pendingTunnels, dataSockets, waiting, life, hadError,
                  readEnded, writeEnded, bridge, claim>>
  BY DEF streams, bridgeVars
<1>3. SeatsClaimed' /\ ClaimsSeated' /\ TrackedExactly' /\ SingleUse'
      /\ JoinedByTicket' /\ HalvesForwarded'
  BY <1>2 DEF SeatsClaimed, ClaimsSeated, TrackedExactly, SingleUse,
              JoinedByTicket, HalvesForwarded
<1>4. ActiveHeld'
  BY <1>1 DEF ActiveHeld
<1>5. OpenHeld'
  BY <1>1, <1>2 DEF OpenHeld, TrackedExactly
<1>6. CloseStages'
  BY <1>1, <1>2 DEF CloseStages, closing
<1> QED
  BY <1>3, <1>4, <1>5, <1>6

\* A network error keeps it.
LEMMA ErrorKeepsIndInv ==
  ASSUME IndInv, TypeOK', NEW s \in Sockets, SocketError(s)
  PROVE  IndInv'
<1> USE DEF IndInv, SocketError, SocketFails
<1>1. UNCHANGED <<phase, issued, pendingTunnels, activeTunnels, dataSockets, waiting,
                  readEnded, writeEnded, bridge, claim>>
  BY DEF admin
<1>2. /\ life[s] = "open" /\ hadError' = hadError \cup {s}
      /\ \A r \in Sockets : life'[r] = IF r = s THEN "destroyed" ELSE life[r]
  BY DEF TypeOK, SocketsTypeOK
<1>3. SeatsClaimed' /\ ClaimsSeated' /\ ActiveHeld' /\ OpenHeld' /\ SingleUse'
      /\ JoinedByTicket'
  BY <1>1, <1>2 DEF SeatsClaimed, ClaimsSeated, ActiveHeld, OpenHeld, SingleUse,
                    JoinedByTicket
<1>4. TrackedExactly'
  BY <1>1, <1>2 DEF TrackedExactly
<1>5. CloseStages'
  BY <1>1, <1>2 DEF CloseStages, closing, TypeOK, SocketsTypeOK
<1>6. HalvesForwarded'
  BY <1>1, <1>2 DEF HalvesForwarded, JoinedByTicket
<1> QED
  BY <1>3, <1>4, <1>5, <1>6

\* An 'end' keeps it: the pipe forwards it to an open peer.
LEMMA RemoteEndKeepsIndInv ==
  ASSUME IndInv, TypeOK', NEW s \in Sockets, RemoteEnd(s)
  PROVE  IndInv'
<1> USE DEF IndInv, RemoteEnd, SocketEnds
<1>1. UNCHANGED <<phase, issued, pendingTunnels, activeTunnels, dataSockets, waiting,
                  life, hadError, bridge, claim>>
  BY DEF admin
<1>2. /\ life[s] = "open" /\ readEnded' = readEnded \cup {s}
      /\ \A p \in writeEnded' : p \in writeEnded \/ (p \in Sockets /\ p = bridge[s])
      /\ writeEnded \subseteq writeEnded'
      /\ \A p \in Sockets : p = bridge[s] /\ life[p] = "open" => p \in writeEnded'
  OBVIOUS
<1>3. SeatsClaimed' /\ ClaimsSeated' /\ ActiveHeld' /\ OpenHeld' /\ SingleUse'
      /\ JoinedByTicket' /\ CloseStages'
  BY <1>1 DEF SeatsClaimed, ClaimsSeated, ActiveHeld, OpenHeld, SingleUse,
              JoinedByTicket, CloseStages, closing
<1>4. TrackedExactly'
  BY <1>1, <1>2 DEF TrackedExactly
<1>5. HalvesForwarded'
  <2>1. \A p \in writeEnded' : bridge'[p] # None
    BY <1>1, <1>2, NoneAssumption DEF HalvesForwarded, JoinedByTicket
  <2>2. ASSUME NEW q \in Sockets, NEW r \in Sockets, bridge'[q] = r, life'[q] = "open"
        PROVE  /\ life'[r] = "open" /\ q \in readEnded' => r \in writeEnded'
               /\ r \in writeEnded' => q \in readEnded'
               /\ life'[r] \in {"destroyed", "closed"} /\ r \notin hadError' =>
                    q \in readEnded' \cap writeEnded'
               /\ life'[r] = "closed" => r \notin hadError'
    BY <1>1, <1>2, <2>2 DEF HalvesForwarded, JoinedByTicket
  <2> QED
    BY <2>1, <2>2 DEF HalvesForwarded
<1> QED
  BY <1>3, <1>4, <1>5

\* A socket that ended both ways destroys itself: its peer has done so too.
LEMMA AutoDestroyKeepsIndInv ==
  ASSUME IndInv, TypeOK', NEW s \in Sockets, AutoDestroy(s)
  PROVE  IndInv'
<1> USE DEF IndInv, AutoDestroy, SocketFinishes
<1>1. UNCHANGED <<phase, issued, pendingTunnels, activeTunnels, dataSockets, waiting,
                  hadError, readEnded, writeEnded, bridge, claim>>
  BY DEF admin
<1>2. /\ life[s] = "open" /\ s \in readEnded /\ s \in writeEnded /\ bridge[s] # None
      /\ \A r \in Sockets : life'[r] = IF r = s THEN "destroyed" ELSE life[r]
  BY DEF TypeOK, SocketsTypeOK, HalvesForwarded
<1>3. SeatsClaimed' /\ ClaimsSeated' /\ ActiveHeld' /\ OpenHeld' /\ SingleUse'
      /\ JoinedByTicket'
  BY <1>1, <1>2 DEF SeatsClaimed, ClaimsSeated, ActiveHeld, OpenHeld, SingleUse,
                    JoinedByTicket
<1>4. TrackedExactly'
  BY <1>1, <1>2 DEF TrackedExactly
<1>5. CloseStages'
  BY <1>1, <1>2 DEF CloseStages, closing, TypeOK, SocketsTypeOK
<1>6. HalvesForwarded'
  <2>1. ASSUME NEW q \in Sockets, NEW r \in Sockets, bridge[q] = r, life'[q] = "open"
        PROVE  /\ life'[r] = "open" /\ q \in readEnded => r \in writeEnded
               /\ r \in writeEnded => q \in readEnded
               /\ life'[r] \in {"destroyed", "closed"} /\ r \notin hadError =>
                    q \in readEnded \cap writeEnded
               /\ life'[r] = "closed" => r \notin hadError
    <3>1. life[q] = "open" /\ q # s
      BY <1>2, <2>1
    <3>2. CASE r # s
      BY <1>2, <2>1, <3>1, <3>2 DEF HalvesForwarded
    <3>3. CASE r = s
      <4>1. bridge[s] = q
        BY <2>1, <3>3 DEF JoinedByTicket
      <4>2. q \in writeEnded
        BY <1>2, <3>1, <4>1 DEF HalvesForwarded
      <4>3. q \in readEnded
        BY <1>2, <2>1, <3>1, <3>3 DEF HalvesForwarded
      <4> QED
        BY <1>2, <3>3, <4>2, <4>3
    <3> QED
      BY <3>2, <3>3
  <2> QED
    BY <1>1, <2>1 DEF HalvesForwarded
<1> QED
  BY <1>3, <1>4, <1>5, <1>6

\* A 'close' event keeps it: what the closing socket leaves behind is either
\* destroyed with it, or has already ended both ways.
LEMMA CloseEventKeepsIndInv ==
  ASSUME IndInv, TypeOK', NEW s \in Sockets, CloseEvent(s)
  PROVE  IndInv'
<1> USE DEF IndInv
<1> DEFINE W == WatchedTickets(s)
           S == SeatsOf(W) \cup PeerToDestroy(s)
<1>1. /\ life[s] = "destroyed"
      /\ dataSockets' = dataSockets \ {s} /\ waiting' = waiting \ {s}
      /\ UNCHANGED <<phase, issued, hadError, readEnded, bridge, claim>>
  BY DEF CloseEvent, SocketCloses
<1>2. /\ DOMAIN pendingTunnels' = DOMAIN pendingTunnels \ W
      /\ \A t \in DOMAIN pendingTunnels' : pendingTunnels'[t] = pendingTunnels[t]
      /\ W \in SUBSET DOMAIN pendingTunnels
      /\ \A t \in DOMAIN pendingTunnels' :
           \A y \in Types : pendingTunnels[t].seat[y] # s
  BY DEF CloseEvent, SocketCloses, Without, WatchedTickets
<1>3. \A r \in Sockets : life'[r] = IF r = s THEN "closed"
                                    ELSE IF r \in S /\ life[r] = "open" THEN "destroyed"
                                    ELSE life[r]
  <2>1. Destroyed(S) \in [Sockets -> {"new", "open", "destroyed", "closed"}]
    BY DestroyedType
  <2> QED
    BY <2>1 DEF CloseEvent, SocketCloses, Destroyed
<1>4. /\ DOMAIN activeTunnels' \subseteq DOMAIN activeTunnels
      /\ \A t \in DOMAIN activeTunnels' :
           /\ activeTunnels'[t].sockets = activeTunnels[t].sockets \ {s}
           /\ activeTunnels'[t].sockets # {}
      /\ \A t \in DOMAIN activeTunnels, r \in Sockets :
           r \in activeTunnels[t].sockets /\ r # s => t \in DOMAIN activeTunnels'
  <2> DEFINE left == [t \in DOMAIN activeTunnels |->
                        [activeTunnels[t] EXCEPT !.sockets = activeTunnels[t].sockets \ {s}]]
  <2>1. \A t \in DOMAIN activeTunnels : left[t].sockets = activeTunnels[t].sockets \ {s}
    BY DEF TypeOK, SocketsTypeOK, ActiveTunnels
  <2>2. activeTunnels' = Without(left, {t \in DOMAIN left : left[t].sockets = {}})
    BY DEF CloseEvent, SocketCloses, Departed
  <2>3. DOMAIN left = DOMAIN activeTunnels
    OBVIOUS
  <2> HIDE DEF left
  <2> QED
    BY <2>1, <2>2, <2>3 DEF Without
<1>5. \A r \in Sockets : r \in PeerToDestroy(s) => r = bridge[s] /\ s \in hadError
  BY DEF PeerToDestroy
<1>6. /\ \A p \in writeEnded' : p \in writeEnded \/ (p \in Sockets /\ p = bridge[s])
      /\ writeEnded \subseteq writeEnded'
  BY DEF CloseEvent, SocketCloses, PeerToEnd
<1>7. \A q, r \in Sockets : bridge[q] = r => bridge[r] = q /\ r \notin SeatsOf(W)
  BY <1>2, SeatsLeave DEF JoinedByTicket
<1>8. \A t \in DOMAIN pendingTunnels, y \in Types, r \in Sockets :
        pendingTunnels[t].seat[y] = r => (t \in W <=> r \in SeatsOf(W))
  BY <1>2, SeatsLeave
<1>9. bridge[s] \in Sockets /\ s \in hadError => bridge[s] \in S
  BY NoneAssumption DEF PeerToDestroy
<1> HIDE DEF S, W
<1>10. SeatsClaimed'
  <2> SUFFICES ASSUME NEW t \in DOMAIN pendingTunnels', NEW y \in Types, NEW r \in Sockets,
                      pendingTunnels'[t].seat[y] = r
               PROVE  /\ claim'[r] = [type |-> y, ticket |-> t]
                      /\ r \in dataSockets' /\ bridge'[r] = None
                      /\ life'[r] = "destroyed" => r \in hadError'
    BY DEF SeatsClaimed
  <2>1. /\ claim[r] = [type |-> y, ticket |-> t]
        /\ r \in dataSockets /\ bridge[r] = None
        /\ life[r] = "destroyed" => r \in hadError
        /\ r # s /\ r \notin SeatsOf(W)
    BY <1>2, <1>8 DEF SeatsClaimed
  <2>2. r \notin S
    BY <2>1, <1>5, <1>7, NoneAssumption DEF S
  <2> QED
    BY <2>1, <2>2, <1>1, <1>3
<1>11. ClaimsSeated' /\ SingleUse' /\ JoinedByTicket'
  BY <1>1, <1>2 DEF ClaimsSeated, SingleUse, JoinedByTicket
<1>12. TrackedExactly'
  BY <1>1, <1>3 DEF TrackedExactly
<1>13. ActiveHeld'
  BY <1>1, <1>2, <1>4 DEF ActiveHeld
<1>14. OpenHeld'
  <2> SUFFICES ASSUME NEW r \in Sockets, life'[r] = "open"
               PROVE  \/ claim'[r].ticket \in DOMAIN pendingTunnels'
                      \/ /\ claim'[r].ticket \in DOMAIN activeTunnels'
                         /\ r \in activeTunnels'[claim'[r].ticket].sockets
    BY DEF OpenHeld
  <2>1. life[r] = "open" /\ r # s /\ r \notin S
    BY <1>3
  <2>2. CASE claim[r].ticket \in DOMAIN pendingTunnels
    <3>1. claim[r] # None /\ claim[r].type \in Types
      BY <2>1 DEF TrackedExactly, TypeOK, SocketsTypeOK, Claims
    <3>2. pendingTunnels[claim[r].ticket].seat[claim[r].type] = r
      BY <2>2, <3>1 DEF ClaimsSeated
    <3>3. claim[r].ticket \notin W
      BY <1>8, <2>1, <2>2, <3>1, <3>2 DEF S
    <3> QED
      BY <1>1, <1>2, <2>2, <3>3
  <2>3. CASE claim[r].ticket \notin DOMAIN pendingTunnels
    BY <1>1, <1>4, <2>1, <2>3 DEF OpenHeld
  <2> QED
    BY <2>2, <2>3
<1>15. CloseStages'
  BY <1>1, <1>2, <1>3, <1>4 DEF CloseStages, closing, TypeOK, SocketsTypeOK
<1>16. HalvesForwarded'
  <2>1. \A p \in writeEnded' : bridge'[p] # None
    BY <1>1, <1>6, <1>7, NoneAssumption DEF HalvesForwarded
  <2>2. ASSUME NEW q \in Sockets, NEW r \in Sockets, bridge'[q] = r, life'[q] = "open"
        PROVE  /\ life'[r] = "open" /\ q \in readEnded' => r \in writeEnded'
               /\ r \in writeEnded' => q \in readEnded'
               /\ life'[r] \in {"destroyed", "closed"} /\ r \notin hadError' =>
                    q \in readEnded' \cap writeEnded'
               /\ life'[r] = "closed" => r \notin hadError'
    <3>1. bridge[q] = r /\ bridge[r] = q /\ q # s /\ q \notin S /\ life[q] = "open"
      BY <1>1, <1>3, <1>7, <2>2
    <3>2. CASE r = s
      BY <3>1, <3>2, <1>1, <1>3, <1>6, <1>9 DEF HalvesForwarded
    <3>3. CASE r # s
      <4>1. q # bridge[s] /\ r # bridge[s]
        BY <3>1, <3>3, <1>7
      <4>2. life'[r] = life[r]
        BY <3>1, <3>3, <4>1, <1>3, <1>5, <1>7 DEF S
      <4> QED
        BY <3>1, <3>3, <4>1, <4>2, <1>1, <1>6 DEF HalvesForwarded
    <3> QED
      BY <3>2, <3>3
  <2> QED
    BY <2>1, <2>2 DEF HalvesForwarded
<1> QED
  BY <1>10, <1>11, <1>12, <1>13, <1>14, <1>15, <1>16

\* Every action keeps the invariant.
LEMMA NextIndInv == IndInv /\ [Next]_transportVars => IndInv'
<1> SUFFICES ASSUME IndInv, [Next]_transportVars PROVE IndInv'
  OBVIOUS
<1>0. TypeOK'
  BY NextTypeOK DEF IndInv
<1>1. ASSUME NEW c \in Sessions, NEW a \in Sessions, NEW t \in Tickets,
             CreatePendingTunnel(c, a, t)
      PROVE  IndInv'
  BY <1>0, <1>1, CreateKeepsIndInv
<1>2. ASSUME NEW s \in Sockets, NEW m \in Claims \cup {None}, AcceptSocket(s, m)
      PROVE  IndInv'
  BY <1>0, <1>2, RejectKeepsIndInv, SeatKeepsIndInv, PairKeepsIndInv DEF AcceptSocket
<1>3. ASSUME NEW t \in Tickets, NEW x \in Sessions, CancelPendingTunnel(t, x)
      PROVE  IndInv'
  <2>1. {t} \in SUBSET DOMAIN pendingTunnels
    BY <1>3, PendingOfType DEF CancelPendingTunnel
  <2> QED
    BY <1>0, <1>3, <2>1, CancelKeepsIndInv DEF CancelPendingTunnel
<1>4. ASSUME NEW x \in Sessions, CancelPendingForSession(x) PROVE IndInv'
  BY <1>0, <1>4, PendingOfType, CancelKeepsIndInv DEF CancelPendingForSession
<1>5. ASSUME NEW x \in Sessions, NEW y \in Sessions, ReplaceSession(x, y)
      PROVE  IndInv'
  <2>1. DOMAIN activeTunnels' = DOMAIN activeTunnels
    BY <1>5 DEF ReplaceSession
  <2>2. \A t \in DOMAIN activeTunnels :
          activeTunnels'[t].sockets = activeTunnels[t].sockets
    BY <1>5 DEF ReplaceSession, IndInv, TypeOK, SocketsTypeOK, ActiveTunnels
  <2> QED
    BY <1>0, <1>5, <2>1, <2>2, PendingOfType, CancelKeepsIndInv DEF ReplaceSession
<1>6. ASSUME NEW x \in Sessions, CloseAgentSession(x) PROVE IndInv'
  BY <1>0, <1>6, CloseAgentKeepsIndInv
<1>7. ASSUME NEW force \in BOOLEAN, BeginClose(force) PROVE IndInv'
  BY <1>0, <1>7, BeginCloseKeepsIndInv
<1>8. ASSUME NEW t \in Tickets, PairingTimeout(t) PROVE IndInv'
  BY <1>0, <1>8, CancelKeepsIndInv DEF PairingTimeout
<1>9. CASE EndDrain
  BY <1>0, <1>9, EndDrainKeepsIndInv
<1>10. CASE FinishClose
  BY <1>0, <1>10, FinishCloseKeepsIndInv
<1>11. ASSUME NEW s \in Sockets, AutoDestroy(s) PROVE IndInv'
  BY <1>0, <1>11, AutoDestroyKeepsIndInv
<1>12. ASSUME NEW s \in Sockets, CloseEvent(s) PROVE IndInv'
  BY <1>0, <1>12, CloseEventKeepsIndInv
<1>13. ASSUME NEW s \in Sockets, SocketError(s) PROVE IndInv'
  BY <1>0, <1>13, ErrorKeepsIndInv
<1>14. ASSUME NEW s \in Sockets, RemoteEnd(s) PROVE IndInv'
  BY <1>0, <1>14, RemoteEndKeepsIndInv
<1>15. CASE UNCHANGED transportVars
  BY <1>15 DEF transportVars, admin, streams, bridgeVars, IndInv, TypeOK, SocketsTypeOK, SeatsClaimed,
               ClaimsSeated, TrackedExactly, ActiveHeld, OpenHeld, CloseStages,
               SingleUse, JoinedByTicket, HalvesForwarded, closing
<1> QED
  BY <1>1, <1>2, <1>3, <1>4, <1>5, <1>6, <1>7, <1>8, <1>9, <1>10, <1>11,
     <1>12, <1>13, <1>14, <1>15 DEF Next, Requests, Progress, Environment

\* The invariant holds in every reachable state.
THEOREM Invariant == Spec => []IndInv
<1>1. Init => IndInv
  BY InitIndInv
<1>2. IndInv /\ [Next]_transportVars => IndInv'
  BY NextIndInv
<1> QED
  BY <1>1, <1>2, PTL DEF Spec

-----------------------------------------------------------------------------
(* The safety properties *)

\* A ticket admits one client socket and one agent socket, ever.
THEOREM TicketsAreSingleUse == Spec => []SingleUse
<1>1. IndInv => SingleUse
  BY DEF IndInv
<1> QED
  BY <1>1, Invariant, PTL

\* Only opposite sides of one ticket are joined.
THEOREM StreamsJoinOneTicket == Spec => []JoinedByTicket
<1>1. IndInv => JoinedByTicket
  BY DEF IndInv
<1> QED
  BY <1>1, Invariant, PTL

\* By the invariant every open socket has a tunnel.
LEMMA OpenIsHeld == IndInv => NoStrandedSocket
<1> SUFFICES ASSUME IndInv, NEW s \in Sockets, life[s] = "open"
             PROVE  /\ s \in dataSockets
                    /\ \/ \E t \in DOMAIN pendingTunnels, y \in Types :
                            /\ pendingTunnels[t].seat[y] = s
                            /\ claim[s] = [type |-> y, ticket |-> t]
                       \/ \E t \in DOMAIN activeTunnels :
                            s \in activeTunnels[t].sockets /\ claim[s].ticket = t
  BY DEF NoStrandedSocket
<1>1. s \in dataSockets /\ claim[s] \in Claims /\ claim[s] # None
  BY DEF IndInv, TrackedExactly, TypeOK, SocketsTypeOK
<1>2. CASE claim[s].ticket \in DOMAIN pendingTunnels
  <2>1. /\ pendingTunnels[claim[s].ticket].seat[claim[s].type] = s
        /\ claim[s].type \in Types
        /\ claim[s] = [type |-> claim[s].type, ticket |-> claim[s].ticket]
    BY <1>1, <1>2 DEF IndInv, ClaimsSeated, Claims
  <2> QED
    BY <1>1, <1>2, <2>1
<1>3. CASE claim[s].ticket \notin DOMAIN pendingTunnels
  BY <1>1, <1>3 DEF IndInv, OpenHeld
<1> QED
  BY <1>2, <1>3

\* Every open data socket is held by a pending or an active tunnel.
THEOREM NoSocketIsStranded == Spec => []NoStrandedSocket
  BY OpenIsHeld, Invariant, PTL

\* By the invariant tunnels and tracked sockets go together.
LEMMA CountsAreTrue == IndInv => TunnelsTracked
<1> SUFFICES ASSUME IndInv PROVE TunnelsTracked
  OBVIOUS
<1>1. SeatsOf(DOMAIN pendingTunnels) \subseteq dataSockets
  <2> SUFFICES ASSUME NEW s \in SeatsOf(DOMAIN pendingTunnels) PROVE s \in dataSockets
    OBVIOUS
  <2>1. PICK t \in DOMAIN pendingTunnels, y \in Types : pendingTunnels[t].seat[y] = s
    BY DEF SeatsOf
  <2> QED
    BY <2>1, SeatHolder DEF SeatsOf, IndInv
<1>2. \A s \in dataSockets : life[s] \in {"open", "destroyed"}
  BY DEF IndInv, TrackedExactly, TypeOK, SocketsTypeOK
<1> QED
  BY <1>1, <1>2 DEF IndInv, ActiveHeld, TunnelsTracked

\* The transport's counters describe the tunnels that exist.
THEOREM TunnelsAreTracked == Spec => []TunnelsTracked
  BY CountsAreTrue, Invariant, PTL

\* By the invariant the peer of a closed socket has been served.
LEMMA PeerHasEnded == IndInv => NoOrphanedHalf
<1> SUFFICES ASSUME IndInv, NEW s \in Sockets, life[s] = "closed",
                    bridge[s] # None, life[bridge[s]] = "open"
             PROVE  bridge[s] \in readEnded \cap writeEnded
  BY DEF NoOrphanedHalf
<1>1. bridge[s] \in Sockets /\ bridge[bridge[s]] = s
  BY DEF IndInv, TypeOK, SocketsTypeOK, JoinedByTicket
<1> QED
  BY <1>1 DEF IndInv, HalvesForwarded

\* A stream never leaves half of itself open behind a clean close.
THEOREM NoHalfIsOrphaned == Spec => []NoOrphanedHalf
  BY PeerHasEnded, Invariant, PTL

\* By the invariant the last stage of the shutdown is empty.
LEMMA NothingIsLeft == IndInv => AtRest
<1> SUFFICES ASSUME IndInv, phase = "closed" PROVE AtRest
  BY DEF AtRest
<1>1. dataSockets = {} /\ DOMAIN pendingTunnels = {} /\ DOMAIN activeTunnels = {}
  BY DEF IndInv, CloseStages, closing
<1>2. \A s \in Sockets : claim[s] # None => life[s] = "closed"
  BY <1>1 DEF IndInv, TrackedExactly
<1> QED
  BY <1>1, <1>2 DEF AtRest

\* When close() resolves, nothing of the transport is left.
THEOREM ClosedIsAtRest == Spec => []AtRest
  BY NothingIsLeft, Invariant, PTL
-----------------------------------------------------------------------------
(* The ticket ledger: the steps of the transport issue, join, give up, finish *)
(* or seal tickets, or mean nothing to the ledger.                            *)

\* The status of a ticket, and the sides that joined it.
LEMMA StatusOf ==
  ASSUME NEW t \in Tickets
  PROVE  /\ t \in DOMAIN pendingTunnels => ledgerStatus[t] = "pending"
         /\ t \notin DOMAIN pendingTunnels /\ t \in DOMAIN activeTunnels =>
              ledgerStatus[t] = "paired"
         /\ t \notin DOMAIN pendingTunnels /\ t \notin DOMAIN activeTunnels =>
              ledgerStatus[t] = IF t \in issued THEN "over" ELSE "unissued"
  BY DEF ledgerStatus

\* The pending tickets of the ledger are the pending tunnels of the transport.
LEMMA PendingTickets ==
  ASSUME TypeOK
  PROVE  Ledger!Having("pending") = DOMAIN pendingTunnels
<1>1. DOMAIN pendingTunnels \subseteq Tickets
  BY DEF TypeOK
<1>2. \A t \in Tickets : ledgerStatus[t] = "pending" <=> t \in DOMAIN pendingTunnels
  BY StatusOf
<1> QED
  BY <1>1, <1>2 DEF Ledger!Having

\* The initial states map to initial states.
LEMMA InitLedger == Init => Ledger!Init
<1> SUFFICES ASSUME Init PROVE Ledger!Init
  OBVIOUS
<1>1. ledgerStatus = [t \in Tickets |-> "unissued"]
  BY DEF Init, ledgerStatus
<1>2. \A t \in Tickets, y \in Types, s \in Sockets :
        claim[s] # [type |-> y, ticket |-> t]
  BY NoneAssumption DEF Init, Claims
<1>3. ledgerJoined = [t \in Tickets |-> {}]
  BY <1>2 DEF ledgerJoined
<1>4. closing = FALSE
  BY DEF Init, closing
<1> QED
  BY <1>1, <1>3, <1>4 DEF Ledger!Init

\* A step that takes pending tunnels away, and perhaps does things the ledger does
\* not see, gives up their tickets.
LEMMA GivesUp ==
  ASSUME IndInv, NEW T \in SUBSET DOMAIN pendingTunnels,
         DOMAIN pendingTunnels' = DOMAIN pendingTunnels \ T,
         DOMAIN activeTunnels' = DOMAIN activeTunnels,
         issued' = issued, claim' = claim, closing' = closing
  PROVE  Ledger!Next
<1>1. T \in SUBSET Tickets /\ T \subseteq issued /\ T \cap DOMAIN activeTunnels = {}
  BY DEF IndInv, TypeOK, ActiveHeld
<1>2. T \subseteq Ledger!Having("pending")
  BY PendingTickets DEF IndInv
<1>3. ledgerStatus' = [t \in Tickets |-> IF t \in T THEN "over" ELSE ledgerStatus[t]]
  BY <1>1 DEF ledgerStatus
<1>4. ledgerJoined' = ledgerJoined
  BY DEF ledgerJoined
<1> QED
  BY <1>1, <1>2, <1>3, <1>4 DEF Ledger!Next, Ledger!GiveUp

\* createPendingTunnel issues a ticket.
LEMMA Issues ==
  ASSUME IndInv, NEW c \in Sessions, NEW a \in Sessions, NEW t \in Tickets,
         CreatePendingTunnel(c, a, t)
  PROVE  Ledger!Next
<1>1. ~closing /\ ledgerStatus[t] = "unissued"
  BY DEF CreatePendingTunnel, IndInv, TypeOK, ledgerStatus
\* An instance has a copy of its own of what the standard modules define.
<1>2. Ledger!Cardinality(Ledger!Having("pending")) < MaxPending
  BY PendingTickets DEF CreatePendingTunnel, HasRoom, IndInv, Cardinality, Ledger!Cardinality
<1>3. DOMAIN pendingTunnels' = DOMAIN pendingTunnels \cup {t}
  BY DEF CreatePendingTunnel, Put
<1>4. ledgerStatus' = [ledgerStatus EXCEPT ![t] = "pending"]
  BY <1>3 DEF CreatePendingTunnel, ledgerStatus
<1>5. closing' = closing
  BY DEF CreatePendingTunnel, closing
<1>6. ledgerJoined' = ledgerJoined
  BY DEF CreatePendingTunnel, ledgerJoined, streams
<1>7. Ledger!Issue(t)
  BY <1>1, <1>2, <1>4, <1>5, <1>6 DEF Ledger!Issue
<1> QED
  BY <1>7 DEF Ledger!Next

\* What a claim adds to the ledger: its side joins its ticket.
LEMMA ClaimJoins ==
  ASSUME IndInv, NEW s \in Sockets, NEW m \in Claims, claim[s] = None,
         claim' = [claim EXCEPT ![s] = m]
  PROVE  ledgerJoined' = [ledgerJoined EXCEPT ![m.ticket] = @ \cup {m.type}]
<1>1. /\ m.type \in Types /\ m.ticket \in Tickets
      /\ m = [type |-> m.type, ticket |-> m.ticket]
  BY DEF Claims
<1>2. \A r \in Sockets : claim'[r] = IF r = s THEN m ELSE claim[r]
  BY DEF IndInv, TypeOK
<1>3. \A t \in Tickets, y \in Types :
        y \in ledgerJoined'[t] <=> y \in ledgerJoined[t] \/ (t = m.ticket /\ y = m.type)
  <2> SUFFICES ASSUME NEW t \in Tickets, NEW y \in Types
               PROVE  (\E r \in Sockets : claim'[r] = [type |-> y, ticket |-> t])
                        <=> \/ \E r \in Sockets : claim[r] = [type |-> y, ticket |-> t]
                            \/ t = m.ticket /\ y = m.type
    BY DEF ledgerJoined
  <2>1. m = [type |-> y, ticket |-> t] <=> t = m.ticket /\ y = m.type
    BY <1>1
  <2>2. claim[s] # [type |-> y, ticket |-> t]
    BY NoneAssumption DEF Claims
  <2> QED
    BY <1>2, <2>1, <2>2
<1>4. \A t \in Tickets : ledgerJoined'[t] =
        IF t = m.ticket THEN ledgerJoined[t] \cup {m.type} ELSE ledgerJoined[t]
  BY <1>1, <1>3 DEF ledgerJoined
<1> QED
  BY <1>1, <1>4 DEF ledgerJoined

\* acceptSocket of a first side joins it to its ticket.
LEMMA SeatJoins ==
  ASSUME IndInv, NEW s \in Sockets, NEW m, life[s] = "new", Seat(s, m)
  PROVE  Ledger!Next
<1>1. SeatFree(m)
  BY DEF Seat
<1>2. /\ m \in Claims /\ m.type \in Types /\ m.ticket \in DOMAIN pendingTunnels
      /\ OtherType(m.type) \in Types /\ OtherType(m.type) # m.type
      /\ \A r \in Sockets : claim[r] # m
      /\ m = [type |-> m.type, ticket |-> m.ticket]
  BY <1>1, FreeSeatUnclaimed
<1>3. m.ticket \in Tickets /\ ledgerStatus[m.ticket] = "pending"
  BY <1>2 DEF IndInv, TypeOK, ledgerStatus
<1>4. ledgerJoined' = [ledgerJoined EXCEPT ![m.ticket] = @ \cup {m.type}]
  BY <1>2, NewSocket, ClaimJoins DEF Seat
<1>5. m.type \notin ledgerJoined[m.ticket]
  BY <1>2, <1>3 DEF ledgerJoined
<1>6. OtherType(m.type) \notin ledgerJoined[m.ticket]
  <2> SUFFICES ASSUME NEW r \in Sockets,
                      claim[r] = [type |-> OtherType(m.type), ticket |-> m.ticket]
               PROVE  FALSE
    BY <1>3 DEF ledgerJoined
  <2>1. claim[r] \in Claims /\ claim[r] # None
    BY <1>2, <1>3, NoneAssumption DEF Claims
  <2>2. pendingTunnels[m.ticket].seat[OtherType(m.type)] = r
    BY <1>2, <2>1 DEF IndInv, ClaimsSeated
  <2> QED
    BY <2>2, NoneAssumption DEF Seat
<1>7. ledgerJoined'[m.ticket] # Ledger!Sides
  BY <1>2, <1>3, <1>4, <1>6 DEF Ledger!Sides, ledgerJoined, Types
<1>8. DOMAIN pendingTunnels' = DOMAIN pendingTunnels
  BY DEF Seat
<1>9. ledgerStatus' = ledgerStatus
  BY <1>8 DEF Seat, ledgerStatus
<1>10. ledgerStatus' = [ledgerStatus EXCEPT ![m.ticket] =
                          IF ledgerJoined'[m.ticket] = Ledger!Sides THEN "paired" ELSE "pending"]
  BY <1>3, <1>7, <1>9 DEF ledgerStatus
<1>11. ~closing /\ closing' = closing
  BY <1>1 DEF Seat, SeatFree, closing
<1>12. Ledger!Join(m.ticket, m.type)
  BY <1>3, <1>4, <1>5, <1>10, <1>11 DEF Ledger!Join
<1> QED
  BY <1>2, <1>3, <1>12 DEF Ledger!Next, Ledger!Sides, Types

\* acceptSocket of the second side joins it and pairs the ticket.
LEMMA PairJoins ==
  ASSUME IndInv, NEW s \in Sockets, NEW m, life[s] = "new", Pair(s, m)
  PROVE  Ledger!Next
<1> DEFINE other == pendingTunnels[m.ticket].seat[OtherType(m.type)]
<1>1. SeatFree(m)
  BY DEF Pair
<1>2. /\ m \in Claims /\ m.type \in Types /\ m.ticket \in DOMAIN pendingTunnels
      /\ OtherType(m.type) \in Types /\ OtherType(m.type) # m.type
      /\ \A r \in Sockets : claim[r] # m
      /\ m = [type |-> m.type, ticket |-> m.ticket]
  BY <1>1, FreeSeatUnclaimed
<1>3. m.ticket \in Tickets /\ ledgerStatus[m.ticket] = "pending"
  BY <1>2 DEF IndInv, TypeOK, ledgerStatus
<1>4. ledgerJoined' = [ledgerJoined EXCEPT ![m.ticket] = @ \cup {m.type}]
  BY <1>2, NewSocket, ClaimJoins DEF Pair
<1>5. m.type \notin ledgerJoined[m.ticket]
  BY <1>2, <1>3 DEF ledgerJoined
<1>6. OtherType(m.type) \in ledgerJoined[m.ticket]
  <2>1. other \in Sockets
    BY <1>2 DEF Pair, IndInv, TypeOK, PendingTunnels
  <2>2. claim[other] = [type |-> OtherType(m.type), ticket |-> m.ticket]
    BY <1>2, <2>1, SeatHolder DEF IndInv
  <2> QED
    BY <1>2, <1>3, <2>1, <2>2 DEF ledgerJoined
<1>7. ledgerJoined'[m.ticket] = Ledger!Sides
  <2>1. ledgerJoined[m.ticket] \subseteq Types
    BY <1>3 DEF ledgerJoined
  <2>2. ledgerJoined'[m.ticket] = ledgerJoined[m.ticket] \cup {m.type}
    BY <1>3, <1>4 DEF ledgerJoined
  <2> QED
    BY <1>2, <1>6, <2>1, <2>2 DEF Ledger!Sides, Types
<1>8. /\ DOMAIN pendingTunnels' = DOMAIN pendingTunnels \ {m.ticket}
      /\ DOMAIN activeTunnels' = DOMAIN activeTunnels \cup {m.ticket}
      /\ issued' = issued
  BY DEF Pair, Without, Put
<1>9. ledgerStatus' = [ledgerStatus EXCEPT ![m.ticket] = "paired"]
  BY <1>3, <1>8 DEF ledgerStatus
<1>10. ~closing /\ closing' = closing
  BY <1>1 DEF Pair, SeatFree, closing
<1>11. Ledger!Join(m.ticket, m.type)
  BY <1>3, <1>4, <1>5, <1>7, <1>9, <1>10 DEF Ledger!Join
<1> QED
  BY <1>2, <1>3, <1>11 DEF Ledger!Next, Ledger!Sides, Types

\* close() seals the ledger.
LEMMA Seals ==
  ASSUME IndInv, NEW force \in BOOLEAN, BeginClose(force)
  PROVE  Ledger!Next
<1>1. ~closing /\ closing'
  BY DEF BeginClose, closing
<1>2. DOMAIN pendingTunnels' = {}
  BY DEF BeginClose, Without
<1>3. DOMAIN pendingTunnels \subseteq issued /\ DOMAIN pendingTunnels \cap DOMAIN activeTunnels = {}
  BY DEF IndInv, TypeOK, ActiveHeld
<1>4. ledgerStatus' = [t \in Tickets |->
                         IF ledgerStatus[t] = "pending" THEN "over" ELSE ledgerStatus[t]]
  BY <1>2, <1>3 DEF BeginClose, ledgerStatus
<1>5. ledgerJoined' = ledgerJoined
  BY DEF BeginClose, ledgerJoined
<1> QED
  BY <1>1, <1>4, <1>5 DEF Ledger!Next, Ledger!Seal

\* A socket's 'close' gives up the ticket it waits for, or finishes the one whose
\* stream it was the last socket of.
LEMMA ClosesGiveUpOrFinish ==
  ASSUME IndInv, NEW s \in Sockets, CloseEvent(s)
  PROVE  Ledger!Next
<1> DEFINE R == {t \in DOMAIN activeTunnels : activeTunnels[t].sockets \ {s} = {}}
<1>1. /\ DOMAIN pendingTunnels' = DOMAIN pendingTunnels \ WatchedTickets(s)
      /\ DOMAIN activeTunnels' = DOMAIN activeTunnels \ R
      /\ issued' = issued /\ claim' = claim /\ closing' = closing
  <2>1. \A t \in DOMAIN activeTunnels :
          [activeTunnels[t] EXCEPT !.sockets = @ \ {s}].sockets = activeTunnels[t].sockets \ {s}
    BY DEF IndInv, TypeOK, ActiveTunnels
  <2> QED
    BY <2>1 DEF CloseEvent, Departed, Without, closing
<1>2. WatchedTickets(s) \in SUBSET DOMAIN pendingTunnels
  BY DEF WatchedTickets
<1>3. CASE R = {}
  BY <1>1, <1>2, <1>3, GivesUp
<1>4. CASE R # {}
  <2>1. PICK t \in DOMAIN activeTunnels : activeTunnels[t].sockets \ {s} = {}
    BY <1>4
  <2>2. \A u \in R : s \in activeTunnels[u].sockets /\ claim[s].ticket = u /\ bridge[s] # None
    BY DEF IndInv, ActiveHeld
  <2>3. R = {t} /\ bridge[s] # None
    <3>1. t \in R
      BY <2>1
    <3>2. claim[s].ticket = t /\ bridge[s] # None
      BY <2>2, <3>1
    <3>3. \A u \in R : u = t
      BY <2>2, <3>2
    <3> QED
      BY <3>1, <3>2, <3>3
  <2>4. WatchedTickets(s) = {}
    <3>1. \A u \in DOMAIN pendingTunnels, y \in Types : pendingTunnels[u].seat[y] # s
      BY <2>3 DEF IndInv, SeatsClaimed
    <3> QED
      BY <3>1 DEF WatchedTickets
  <2>5. t \in Tickets /\ t \in issued /\ t \notin DOMAIN pendingTunnels
    BY <2>1 DEF IndInv, TypeOK, ActiveHeld
  <2>6. ledgerStatus[t] = "paired"
    BY <2>1, <2>5 DEF ledgerStatus
  <2>7. ledgerStatus' = [ledgerStatus EXCEPT ![t] = "over"]
    BY <1>1, <2>3, <2>4, <2>5 DEF ledgerStatus
  <2>8. ledgerJoined' = ledgerJoined
    BY <1>1 DEF ledgerJoined
  <2> QED
    BY <1>1, <2>5, <2>6, <2>7, <2>8 DEF Ledger!Next, Ledger!Finish
<1> QED
  BY <1>3, <1>4

\* Every step of the transport is a step of the ledger, or a stutter.
LEMMA NextLedger == IndInv /\ [Next]_transportVars => [Ledger!Next]_Ledger!vars
<1> SUFFICES ASSUME IndInv, [Next]_transportVars PROVE [Ledger!Next]_Ledger!vars
  OBVIOUS
<1> USE DEF closing
<1>1. ASSUME NEW c \in Sessions, NEW a \in Sessions, NEW t \in Tickets,
             CreatePendingTunnel(c, a, t)
      PROVE  Ledger!Next
  BY <1>1, Issues
<1>2. ASSUME NEW s \in Sockets, NEW m \in Claims \cup {None}, AcceptSocket(s, m)
      PROVE  Ledger!Next
  <2>1. CASE Reject(s, m)
    <3>1. {} \in SUBSET DOMAIN pendingTunnels
      OBVIOUS
    <3> QED
      BY <2>1, <3>1, GivesUp DEF Reject, admin
  <2> QED
    BY <1>2, <2>1, SeatJoins, PairJoins DEF AcceptSocket
<1>3. ASSUME NEW T \in SUBSET DOMAIN pendingTunnels, Cancel(T),
             DOMAIN activeTunnels' = DOMAIN activeTunnels,
             UNCHANGED <<phase, issued, claim>>
      PROVE  Ledger!Next
  BY <1>3, GivesUp DEF Cancel, Without
<1>4. ASSUME NEW t \in Tickets, NEW x \in Sessions, CancelPendingTunnel(t, x)
      PROVE  Ledger!Next
  <2>1. {t} \in SUBSET DOMAIN pendingTunnels
    BY <1>4, PendingOfType DEF CancelPendingTunnel
  <2> QED
    BY <1>3, <1>4, <2>1 DEF CancelPendingTunnel
<1>5. ASSUME NEW x \in Sessions, CancelPendingForSession(x) PROVE Ledger!Next
  BY <1>3, <1>5, PendingOfType DEF CancelPendingForSession
<1>6. ASSUME NEW x \in Sessions, NEW y \in Sessions, ReplaceSession(x, y)
      PROVE  Ledger!Next
  <2>1. DOMAIN activeTunnels' = DOMAIN activeTunnels
    BY <1>6 DEF ReplaceSession
  <2> QED
    BY <1>3, <1>6, <2>1, PendingOfType DEF ReplaceSession
<1>7. ASSUME NEW x \in Sessions, CloseAgentSession(x) PROVE Ledger!Next
  BY <1>7, PendingOfType, GivesUp DEF CloseAgentSession, Without
<1>8. ASSUME NEW force \in BOOLEAN, BeginClose(force) PROVE Ledger!Next
  BY <1>8, Seals
<1>9. ASSUME NEW t \in Tickets, PairingTimeout(t) PROVE Ledger!Next
  BY <1>3, <1>9 DEF PairingTimeout
<1>10. ASSUME UNCHANGED <<pendingTunnels, issued, claim>>,
              DOMAIN activeTunnels' = DOMAIN activeTunnels, closing' = closing
       PROVE  Ledger!Next
  <2>1. {} \in SUBSET DOMAIN pendingTunnels
    OBVIOUS
  <2> QED
    BY <1>10, <2>1, GivesUp
<1>11. CASE EndDrain
  BY <1>10, <1>11 DEF EndDrain, DrainOver
<1>12. CASE FinishClose
  <2>1. dataSockets = {} /\ DOMAIN activeTunnels = {}
    BY <1>12 DEF FinishClose, IndInv, CloseStages, ActiveHeld
  <2> QED
    BY <1>10, <1>12, <2>1 DEF FinishClose, streams
<1>13. ASSUME NEW s \in Sockets, AutoDestroy(s) PROVE Ledger!Next
  BY <1>10, <1>13 DEF AutoDestroy, admin
<1>14. ASSUME NEW s \in Sockets, CloseEvent(s) PROVE Ledger!Next
  BY <1>14, ClosesGiveUpOrFinish
<1>15. ASSUME NEW s \in Sockets, SocketError(s) PROVE Ledger!Next
  BY <1>10, <1>15 DEF SocketError, admin
<1>16. ASSUME NEW s \in Sockets, RemoteEnd(s) PROVE Ledger!Next
  BY <1>10, <1>16 DEF RemoteEnd, admin
<1>17. CASE UNCHANGED transportVars
  BY <1>10, <1>17 DEF transportVars, admin, streams
<1> QED
  BY <1>1, <1>2, <1>4, <1>5, <1>6, <1>7, <1>8, <1>9, <1>11, <1>12, <1>13,
     <1>14, <1>15, <1>16, <1>17 DEF Next, Requests, Progress, Environment

\* The transport implements the ledger: every ticket is issued once and within
\* the limit, joined at most once by each side, paired by the second, and never
\* comes back.
THEOREM LedgerImplemented == Spec => ImplementsLedger
<1>1. Init => Ledger!Init
  BY InitLedger
<1>2. IndInv /\ [Next]_transportVars => [Ledger!Next]_Ledger!vars
  BY NextLedger
<1> QED
  BY <1>1, <1>2, Invariant, PTL DEF Spec, ImplementsLedger, Ledger!Spec
=============================================================================
