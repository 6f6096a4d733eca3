-------------------------- MODULE PeerSession_proofs --------------------------
(***************************************************************************)
(* Proofs about PeerSession, for every set of socket objects and           *)
(* identities: its safety invariants, and that every step of it is a step  *)
(* of the control session (ControlSession) its owner relies on.            *)
(***************************************************************************)
EXTENDS PeerSession, TLAPS

\* What destroying sockets does to each of them.
LEMMA DestroyedLife ==
  ASSUME TypeOK, NEW S
  PROVE  /\ Destroyed(S) \in [Socks -> {"closed", "connecting", "open", "destroyed"}]
         /\ \A g \in Socks : Destroyed(S)[g] =
              IF g \in S /\ Alive(g) THEN "destroyed" ELSE sockLife[g]
  BY DEF TypeOK, Destroyed

\* Destroying the current socket leaves none alive.
LEMMA NoneAlive ==
  ASSUME IndInv, sockLife' = Destroyed({socket})
  PROVE  \A g \in Socks : ~Alive(g)' /\ sockLife'[g] # "connecting"
  BY DestroyedLife DEF IndInv, CurrentOnly, Alive

\* The initial state.
LEMMA InitIndInv == Init => IndInv
  BY NoneAssumption
  DEF Init, IndInv, TypeOK, CurrentOnly, TimersCurrent, BetweenSockets, AlwaysWatched,
      OverIsDead, DecodedWasOpen, Alive

-----------------------------------------------------------------------------
(* Steps *)

\* connect(), when there is no socket and nothing is decoded: the session is watched
\* by the deadline of the new one, unless it is over and there is none.
LEMMA ConnectIndInv ==
  ASSUME IndInv, NEW g \in Socks, Connect(g), socket = None, decoding = None,
         started' = TRUE, UNCHANGED <<stopping, fatalError, resolved, connected, uuid, pinger,
                               pongDeadline, decoding>>,
         reconnectTimer' = FALSE
  PROVE  IndInv'
<1>1. CASE stopping \/ fatalError
  BY <1>1 DEF Connect, IndInv, TypeOK, CurrentOnly, TimersCurrent, BetweenSockets,
              AlwaysWatched, OverIsDead, DecodedWasOpen, Alive
<1>2. CASE ~(stopping \/ fatalError)
  <2>1. /\ sockLife' = [sockLife EXCEPT ![g] = "connecting"]
        /\ socket' = g /\ deadline' = deadline \cup {g}
    BY <1>2 DEF Connect
  <2>2. \A h \in Socks : sockLife[h] = "closed"
    BY NoneAssumption DEF IndInv, CurrentOnly
  <2>3. deadline = {} /\ pinger = None /\ pongDeadline = None /\ ~connected
    BY NoneAssumption DEF IndInv, TypeOK, TimersCurrent, BetweenSockets
  <2>4. TypeOK'
    BY <2>1 DEF IndInv, TypeOK
  <2>5. \A h \in Socks : sockLife'[h] = IF h = g THEN "connecting" ELSE "closed"
    BY <2>1, <2>2 DEF IndInv, TypeOK
  <2>6. CurrentOnly' /\ TimersCurrent' /\ BetweenSockets'
    BY <2>1, <2>3, <2>5, NoneAssumption DEF CurrentOnly, TimersCurrent, BetweenSockets
  <2>7. AlwaysWatched' /\ OverIsDead' /\ DecodedWasOpen'
    BY <1>2, <2>1, <2>3, <2>5 DEF AlwaysWatched, OverIsDead, DecodedWasOpen, Alive
  <2> QED
    BY <2>4, <2>6, <2>7 DEF IndInv
<1> QED
  BY <1>1, <1>2

\* A step that only destroys sockets.
LEMMA DestroysIndInv ==
  ASSUME IndInv, NEW S, sockLife' = Destroyed(S),
         UNCHANGED <<flags, connected, socket, uuid, timers, decoding>>
  PROVE  IndInv'
<1>1. TypeOK'
  BY DestroyedLife DEF IndInv, TypeOK, flags, timers
<1>2. \A g \in Socks : /\ sockLife'[g] = "closed" <=> sockLife[g] = "closed"
                       /\ sockLife'[g] = "connecting" => sockLife[g] = "connecting"
                       /\ sockLife[g] \in {"open", "destroyed"} =>
                            sockLife'[g] \in {"open", "destroyed"}
                       /\ Alive(g)' => Alive(g)
  BY DestroyedLife DEF IndInv, TypeOK, Alive
<1>3. CurrentOnly' /\ TimersCurrent' /\ BetweenSockets'
  BY <1>2 DEF IndInv, TypeOK, CurrentOnly, TimersCurrent, BetweenSockets, flags, timers
<1>4. AlwaysWatched' /\ OverIsDead' /\ DecodedWasOpen'
  BY <1>2 DEF IndInv, TypeOK, AlwaysWatched, OverIsDead, DecodedWasOpen, flags, timers
<1> QED
  BY <1>1, <1>3, <1>4 DEF IndInv

\* A step that ends the session, by fail() or close(): its heartbeat and its
\* reconnection are off, its socket is destroyed.
LEMMA EndsIndInv ==
  ASSUME IndInv, sockLife' = Destroyed({socket}), ClearPinger, reconnectTimer' = FALSE,
         stopping' \in BOOLEAN, fatalError' \in BOOLEAN,
         UNCHANGED <<started, resolved, connected, socket, uuid, deadline, decoding>>
  PROVE  IndInv'
<1>1. TypeOK'
  BY DestroyedLife DEF IndInv, TypeOK, ClearPinger
<1>2. \A g \in Socks : /\ sockLife'[g] = "closed" <=> sockLife[g] = "closed"
                       /\ sockLife[g] \in {"open", "destroyed"} =>
                            sockLife'[g] \in {"open", "destroyed"}
  BY DestroyedLife DEF Alive, IndInv
<1>3. CurrentOnly' /\ TimersCurrent' /\ BetweenSockets'
  BY <1>2 DEF IndInv, TypeOK, CurrentOnly, TimersCurrent, BetweenSockets, ClearPinger
<1>4. AlwaysWatched' /\ OverIsDead' /\ DecodedWasOpen'
  BY <1>2, NoneAlive DEF IndInv, TypeOK, AlwaysWatched, OverIsDead, DecodedWasOpen
<1> QED
  BY <1>1, <1>3, <1>4 DEF IndInv

\* fail(), wherever it is called from.
LEMMA FailIndInv ==
  ASSUME IndInv, Fail,
         UNCHANGED <<started, stopping, resolved, connected, socket, uuid, decoding>>
  PROVE  IndInv'
<1>1. CASE fatalError
  <2>1. UNCHANGED vars
    BY <1>1 DEF Fail, vars, flags, timers
  <2> QED
    BY <2>1 DEF vars, flags, timers, IndInv, TypeOK, CurrentOnly, TimersCurrent,
                BetweenSockets, AlwaysWatched, OverIsDead, DecodedWasOpen, Alive
<1>2. CASE ~fatalError
  BY <1>2, EndsIndInv DEF Fail, IndInv, TypeOK
<1> QED
  BY <1>1, <1>2

\* 'close' of a socket.
LEMMA CloseEventIndInv ==
  ASSUME IndInv, NEW g \in Socks, CloseEvent(g)
  PROVE  IndInv'
<1>1. g = socket /\ socket # None
  BY NoneAssumption DEF CloseEvent, IndInv, CurrentOnly
<1>2. /\ socket' = None /\ ~connected' /\ pinger' = None /\ pongDeadline' = None
      /\ deadline' = {} /\ decoding' = None
      /\ reconnectTimer' => started /\ ~stopping /\ ~fatalError
      /\ reconnectTimer' \in BOOLEAN
      /\ UNCHANGED <<flags, uuid>>
  BY <1>1 DEF CloseEvent, ClearPinger, Reconnects, IndInv, TypeOK, CurrentOnly,
              TimersCurrent, BetweenSockets
<1>3. \A h \in Socks : sockLife'[h] = "closed"
  BY <1>1 DEF CloseEvent, IndInv, TypeOK, CurrentOnly
<1>4. TypeOK'
  BY <1>2 DEF CloseEvent, IndInv, TypeOK, flags
<1>5. CurrentOnly' /\ TimersCurrent' /\ BetweenSockets'
  BY <1>2, <1>3 DEF CurrentOnly, TimersCurrent, BetweenSockets, flags
<1>6. AlwaysWatched' /\ OverIsDead' /\ DecodedWasOpen'
  BY <1>2, <1>3 DEF AlwaysWatched, OverIsDead, DecodedWasOpen, Alive
<1> QED
  BY <1>4, <1>5, <1>6 DEF IndInv

\* A registration, first or repeated.
LEMMA RegistrationIndInv ==
  ASSUME IndInv, NEW g \in Socks, NEW u \in Uuids, Registration(g, u)
  PROVE  IndInv'
<1>1. g = socket /\ decoding = g /\ sockLife[g] \in {"open", "destroyed"}
  BY NoneAssumption DEF Registration, Handles, IndInv, DecodedWasOpen
<1>2. connected' /\ UNCHANGED <<flags, socket, sockLife, decoding, reconnectTimer>>
  BY DEF Registration, timers
<1>3. /\ deadline' \subseteq deadline
      /\ \/ pinger' = g /\ pongDeadline' = None
         \/ connected /\ pinger' = pinger /\ pongDeadline' = pongDeadline
  BY DEF Registration, StartPinger, timers
<1>4. TypeOK'
  BY <1>2, <1>3 DEF Registration, IndInv, TypeOK, flags
<1>5. CurrentOnly' /\ TimersCurrent' /\ BetweenSockets'
  BY <1>1, <1>2, <1>3, NoneAssumption
  DEF IndInv, CurrentOnly, TimersCurrent, BetweenSockets, flags
<1>6. AlwaysWatched' /\ OverIsDead' /\ DecodedWasOpen'
  BY <1>1, <1>2, <1>3
  DEF IndInv, CurrentOnly, AlwaysWatched, OverIsDead, DecodedWasOpen, Alive, flags
<1> QED
  BY <1>4, <1>5, <1>6 DEF IndInv

\* Every step preserves the invariant.
LEMMA NextIndInv == IndInv /\ [Next]_vars => IndInv'
<1> SUFFICES ASSUME IndInv, [Next]_vars PROVE IndInv'
  OBVIOUS
<1>1. ASSUME NEW g \in Socks, Start(g) PROVE IndInv'
  <2>1. reconnectTimer = FALSE
    BY <1>1 DEF Start, IndInv, TypeOK, BetweenSockets
  <2> QED
    BY <1>1, <2>1, ConnectIndInv DEF Start
<1>2. ASSUME NEW g \in Socks, ReconnectFires(g) PROVE IndInv'
  BY <1>2, ConnectIndInv DEF ReconnectFires, IndInv, TypeOK, BetweenSockets, flags
<1>3. ASSUME NEW g \in Socks, Connected(g) PROVE IndInv'
  <2>1. \A h \in Socks : sockLife'[h] = IF h = g THEN "open" ELSE sockLife[h]
    BY <1>3 DEF Connected, IndInv, TypeOK
  <2>2. TypeOK' /\ CurrentOnly' /\ TimersCurrent' /\ BetweenSockets'
    BY <1>3, <2>1
    DEF Connected, IndInv, TypeOK, CurrentOnly, TimersCurrent, BetweenSockets, flags, timers
  <2>3. AlwaysWatched' /\ OverIsDead' /\ DecodedWasOpen'
    BY <1>3, <2>1
    DEF Connected, IndInv, TypeOK, AlwaysWatched, OverIsDead, DecodedWasOpen, Alive, flags,
        timers
  <2> QED
    BY <2>2, <2>3 DEF IndInv
<1>4. ASSUME NEW g \in Socks, \/ DeadlineFires(g) \/ Lose(g) \/ MessageDestroys(g)
      PROVE  IndInv'
  BY <1>4, DestroysIndInv DEF DeadlineFires, Lose, MessageDestroys
<1>5. ASSUME NEW g \in Socks, CloseEvent(g) PROVE IndInv'
  BY <1>5, CloseEventIndInv
<1>6. ASSUME NEW g \in Socks, ReadChunk(g) PROVE IndInv'
  BY <1>6 DEF ReadChunk, flags, timers, IndInv, TypeOK, CurrentOnly, TimersCurrent,
              BetweenSockets, AlwaysWatched, OverIsDead, DecodedWasOpen, Alive
<1>7. ASSUME NEW g \in Socks, MessageFails(g) PROVE IndInv'
  BY <1>7, FailIndInv DEF MessageFails
<1>8. ASSUME NEW g \in Socks, Pong(g) PROVE IndInv'
  BY <1>8 DEF Pong, flags, IndInv, TypeOK, CurrentOnly, TimersCurrent,
              BetweenSockets, AlwaysWatched, OverIsDead, DecodedWasOpen, Alive
<1>9. ASSUME NEW g \in Socks, NEW u \in Uuids, Registration(g, u) PROVE IndInv'
  BY <1>9, RegistrationIndInv
<1>10. CASE ChunkEnds
  BY <1>10 DEF ChunkEnds, flags, timers, IndInv, TypeOK, CurrentOnly, TimersCurrent,
               BetweenSockets, AlwaysWatched, OverIsDead, DecodedWasOpen, Alive
<1>11. CASE PingTick
  BY <1>11 DEF PingTick, flags, IndInv, TypeOK, CurrentOnly, TimersCurrent,
               BetweenSockets, AlwaysWatched, OverIsDead, DecodedWasOpen, Alive
<1>12. CASE PongTimeout
  BY <1>12, DestroysIndInv DEF PongTimeout
<1>13. CASE AppFails
  BY <1>13, FailIndInv DEF AppFails
<1>14. CASE Close
  BY <1>14, EndsIndInv DEF Close, CloseClears, CloseDestroys, ClearPinger, IndInv, TypeOK
<1>15. CASE CloseResolves
  BY <1>15 DEF CloseResolves, timers, IndInv, TypeOK, CurrentOnly, TimersCurrent,
               BetweenSockets, AlwaysWatched, OverIsDead, DecodedWasOpen, Alive
<1>16. CASE UNCHANGED vars
  BY <1>16 DEF vars, flags, timers, IndInv, TypeOK, CurrentOnly, TimersCurrent,
               BetweenSockets, AlwaysWatched, OverIsDead, DecodedWasOpen, Alive
<1> QED
  BY <1>1, <1>2, <1>3, <1>4, <1>5, <1>6, <1>7, <1>8, <1>9, <1>10, <1>11, <1>12, <1>13,
     <1>14, <1>15, <1>16 DEF Next

-----------------------------------------------------------------------------
(* Theorems *)

\* The inductive invariant: one current socket, timers that serve it alone, a
\* live socket under a watch, and nothing alive once the session is over.
THEOREM Invariant == Spec => []IndInv
  BY InitIndInv, NextIndInv, PTL DEF Spec

\* A peer never holds two control sockets, across losses and reconnections.
THEOREM OneConnectionAtATime == Spec => []OneConnection
<1>1. IndInv => OneConnection
  BY DEF IndInv, CurrentOnly, OneConnection
<1> QED
  BY <1>1, Invariant, PTL

\* A live socket is watched by the deadline or by the heartbeat.
THEOREM LiveIsWatched == Spec => []AlwaysWatched
<1>1. IndInv => AlwaysWatched
  BY DEF IndInv
<1> QED
  BY <1>1, Invariant, PTL

\* Nothing is left armed when the session is over and its socket has closed.
THEOREM EndIsQuiet == Spec => []QuietAtEnd
<1>1. IndInv => QuietAtEnd
  BY NoneAssumption DEF IndInv, TypeOK, QuietAtEnd, TimersCurrent, BetweenSockets
<1> QED
  BY <1>1, Invariant, PTL

-----------------------------------------------------------------------------
(* Refinement of the control session, step by step *)

\* What the owner sees of a session, by the life of its socket.
LEMMA LinkOf ==
  ASSUME IndInv
  PROVE  /\ socket = None => link = "none"
         /\ socket # None /\ sockLife[socket] = "connecting" => link = "connecting"
         /\ socket # None /\ sockLife[socket] = "open" =>
              link = IF connected THEN "up" ELSE "open"
         /\ socket # None /\ sockLife[socket] = "destroyed" =>
              link = IF connected THEN "broken" ELSE "lost"
         /\ socket # None => sockLife[socket] \in {"connecting", "open", "destroyed"}
  BY DEF link, IndInv, TypeOK, CurrentOnly

\* The initial states map to initial states.
LEMMA InitControl == Init => Control!Init
  BY DEF Init, Control!Init, link

\* Steps that change nothing the owner sees.
LEMMA Unseen ==
  ASSUME UNCHANGED <<stopping, fatalError, connected, socket, sockLife>>
  PROVE  UNCHANGED Control!vars
  BY DEF Control!vars, link

\* connect() makes a connection, unless the session is over.
LEMMA ConnectControl ==
  ASSUME IndInv, NEW g \in Socks, Connect(g), socket = None,
         UNCHANGED <<stopping, fatalError, connected>>
  PROVE  [Control!Next]_Control!vars
<1>1. CASE stopping \/ fatalError
  BY <1>1, Unseen DEF Connect
<1>2. CASE ~(stopping \/ fatalError)
  <2>1. socket' = g /\ sockLife'[g] = "connecting"
    BY <1>2 DEF Connect, IndInv, TypeOK
  <2>2. link = "none" /\ link' = "connecting"
    BY <2>1, NoneAssumption DEF link
  <2> QED
    BY <1>2, <2>2 DEF Control!Next, Control!Connects
<1> QED
  BY <1>1, <1>2

\* What destroying sockets does to the link: the current one is cut, or nothing is.
LEMMA DestroysLink ==
  ASSUME IndInv, NEW S, sockLife' = Destroyed(S), UNCHANGED <<connected, socket>>
  PROVE  /\ link' \in {link, Control!Cut}
         /\ S = {socket} => link' = Control!Cut
         /\ link' # link => link \in {"connecting", "open", "up"}
<1>1. CASE socket = None
  BY <1>1 DEF link, Control!Cut
<1>2. CASE socket # None
  <2>1. socket \in Socks /\ ~(sockLife[socket] = "connecting" /\ connected)
    BY <1>2 DEF IndInv, TypeOK, DecodedWasOpen
  <2>2. sockLife'[socket] =
          IF socket \in S /\ Alive(socket) THEN "destroyed" ELSE sockLife[socket]
    BY <2>1, DestroyedLife DEF IndInv
  <2>3. link = CASE sockLife[socket] = "connecting" -> "connecting"
                 [] sockLife[socket] = "open" -> IF connected THEN "up" ELSE "open"
                 [] OTHER -> IF connected THEN "broken" ELSE "lost"
    BY <1>2, LinkOf
  <2>4. CASE ~(socket \in S /\ Alive(socket))
    <3>1. link' = link
      BY <2>2, <2>4 DEF link
    <3>2. S = {socket} => link = Control!Cut
      BY <2>3, <2>4 DEF Control!Cut, Alive
    <3> QED
      BY <3>1, <3>2
  <2>5. CASE socket \in S /\ Alive(socket)
    <3>1. link' = IF connected THEN "broken" ELSE "lost"
      BY <1>2, <2>2, <2>5 DEF link
    <3>2. sockLife[socket] \in {"connecting", "open"}
      BY <2>5 DEF Alive
    <3> QED
      BY <2>1, <2>3, <3>1, <3>2 DEF Control!Cut
  <2> QED
    BY <2>4, <2>5
<1> QED
  BY <1>1, <1>2

\* A destroyed connection breaks the link, or it was not the current one.
LEMMA DestroysControl ==
  ASSUME IndInv, NEW S, sockLife' = Destroyed(S),
         UNCHANGED <<stopping, fatalError, connected, socket>>
  PROVE  [Control!Next]_Control!vars
  BY DestroysLink DEF Control!vars, Control!Next, Control!Breaks

\* fail() or close() finishes the session, and the second of them changes nothing.
LEMMA EndsControl ==
  ASSUME IndInv, sockLife' = Destroyed({socket}), fatalError' \/ stopping',
         UNCHANGED <<connected, socket>>
  PROVE  [Control!Next]_Control!vars
<1>1. link' = Control!Cut
  BY DestroysLink
<1>2. CASE ~(fatalError \/ stopping)
  BY <1>1, <1>2 DEF Control!Next, Control!Finishes
<1>3. CASE fatalError \/ stopping
  <2>1. \A g \in Socks : sockLife'[g] = sockLife[g]
    BY <1>3, DestroyedLife DEF IndInv, OverIsDead
  <2>2. socket # None => socket \in Socks
    BY DEF IndInv, TypeOK
  <2>3. link' = link
    BY <2>1, <2>2 DEF link
  <2> QED
    BY <1>3, <2>3 DEF Control!vars
<1> QED
  BY <1>2, <1>3

\* fail(), wherever it is called from.
LEMMA FailControl ==
  ASSUME IndInv, Fail, UNCHANGED <<stopping, connected, socket>>
  PROVE  [Control!Next]_Control!vars
<1>1. CASE fatalError
  BY <1>1, Unseen DEF Fail
<1>2. CASE ~fatalError
  BY <1>2, EndsControl DEF Fail
<1> QED
  BY <1>1, <1>2

\* Every step is one of the control session, or means nothing to it.
LEMMA NextControl == IndInv /\ [Next]_vars => [Control!Next]_Control!vars
<1> SUFFICES ASSUME IndInv, [Next]_vars PROVE [Control!Next]_Control!vars
  OBVIOUS
<1>1. ASSUME NEW g \in Socks, Start(g) \/ ReconnectFires(g)
      PROVE  [Control!Next]_Control!vars
  BY <1>1, ConnectControl DEF Start, ReconnectFires, IndInv, BetweenSockets, flags
<1>2. ASSUME NEW g \in Socks, Connected(g) PROVE [Control!Next]_Control!vars
  <2>1. g = socket /\ socket # None /\ ~connected
    BY <1>2, NoneAssumption DEF Connected, IndInv, CurrentOnly, DecodedWasOpen
  <2>2. link = "connecting"
    BY <1>2, <2>1, LinkOf DEF Connected
  <2>3. link' = "open"
    BY <1>2, <2>1 DEF Connected, IndInv, TypeOK, link
  <2> QED
    BY <1>2, <2>2, <2>3 DEF Connected, flags, Control!Next, Control!TcpUp
<1>3. ASSUME NEW g \in Socks, \/ DeadlineFires(g) \/ Lose(g) \/ MessageDestroys(g)
      PROVE  [Control!Next]_Control!vars
  BY <1>3, DestroysControl DEF DeadlineFires, Lose, MessageDestroys, flags
<1>4. ASSUME NEW g \in Socks, CloseEvent(g) PROVE [Control!Next]_Control!vars
  <2>1. g = socket /\ socket # None
    BY <1>4, NoneAssumption DEF CloseEvent, IndInv, CurrentOnly
  <2>2. link \in {"lost", "broken"}
    BY <1>4, <2>1, LinkOf DEF CloseEvent
  <2>3. link' = "none"
    BY <1>4, <2>1 DEF CloseEvent, link
  <2> QED
    BY <1>4, <2>2, <2>3 DEF CloseEvent, flags, Control!Next, Control!Closes
<1>5. ASSUME NEW g \in Socks, NEW u \in Uuids, Registration(g, u)
      PROVE  [Control!Next]_Control!vars
  <2>1. g = socket /\ socket # None /\ sockLife[socket] \in {"open", "destroyed"}
    BY <1>5, NoneAssumption DEF Registration, Handles, IndInv, DecodedWasOpen
  <2>2. link' = IF sockLife[socket] = "open" THEN "up" ELSE "broken"
    BY <1>5, <2>1 DEF Registration, link
  <2>3. link = IF sockLife[socket] = "open" THEN IF connected THEN "up" ELSE "open"
                                            ELSE IF connected THEN "broken" ELSE "lost"
    BY <2>1, LinkOf
  <2>4. CASE connected
    BY <1>5, <2>2, <2>3, <2>4 DEF Registration, flags, Control!vars
  <2>5. CASE ~connected
    BY <1>5, <2>1, <2>2, <2>3, <2>5 DEF Registration, flags, Control!Next, Control!Registers
  <2> QED
    BY <2>4, <2>5
<1>6. ASSUME NEW g \in Socks, ReadChunk(g) \/ Pong(g) PROVE [Control!Next]_Control!vars
  BY <1>6, Unseen DEF ReadChunk, Pong, flags
<1>7. ASSUME NEW g \in Socks, MessageFails(g) PROVE [Control!Next]_Control!vars
  BY <1>7, FailControl DEF MessageFails
<1>8. CASE ChunkEnds \/ PingTick \/ CloseResolves
  BY <1>8, Unseen DEF ChunkEnds, PingTick, CloseResolves, flags
<1>9. CASE PongTimeout
  BY <1>9, DestroysControl DEF PongTimeout, flags
<1>10. CASE AppFails
  BY <1>10, FailControl DEF AppFails
<1>11. CASE Close
  BY <1>11, EndsControl DEF Close, CloseDestroys
<1>12. CASE UNCHANGED vars
  BY <1>12, Unseen DEF vars, flags
<1> QED
  BY <1>1, <1>2, <1>3, <1>4, <1>5, <1>6, <1>7, <1>8, <1>9, <1>10, <1>11, <1>12 DEF Next

\* The safety part of the refinement: one connection at a time, usable between its
\* registration and its loss, none made and none usable once the session is over.
THEOREM ControlImplemented == Spec => ControlSteps
  BY InitControl, NextControl, Invariant, PTL DEF Spec, ControlSteps, Control!Safe
=============================================================================
