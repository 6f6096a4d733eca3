----------------------------- MODULE Agent_proofs ------------------------------
(***************************************************************************)
(* Proofs about Agent, for every set of tunnels and number of retries.     *)
(***************************************************************************)
EXTENDS Agent, DataReadiness_proofs

\* The initial state.
LEMMA InitIndInv == Init => IndInv
<1> SUFFICES ASSUME Init PROVE IndInv
  OBVIOUS
<1>1. ReadinessInv
  BY ReadinessStarts DEF Init
<1>2. \A s \in Ends : life[s] = "new"
  BY DEF Init, ReadinessInit, SocketsInit
<1>3. TypeOK
  <2>1. retries \in 0 .. Retries
    BY RetriesAssumption DEF Init
  <2> QED
    BY <1>1, <2>1 DEF Init, TypeOK, ReadinessInv, Control!Init
<1>4. OffersFirst /\ LocalHeld /\ ConnectingApart
  BY <1>2, EndsOfTunnels DEF Init, ReadinessInit, OffersFirst, LocalHeld, ConnectingApart
<1>5. HeldTickets /\ CloseStages
  BY <1>2 DEF Init, HeldTickets, TicketsHonoured, CloseStages
<1> QED
  BY <1>1, <1>3, <1>4, <1>5 DEF IndInv

-----------------------------------------------------------------------------
(* Steps on which no socket opens *)

\* No socket opens, and none is skipped on its way.
Fading ==
  \A s \in Ends : /\ life'[s] = "open" => life[s] = "open"
                  /\ life'[s] = "destroyed" => life[s] \in {"open", "destroyed"}
                  /\ life[s] = "new" => life'[s] = "new"

\* What such a step has to see to.
LEMMA FadingKeeps ==
  ASSUME IndInv, TypeOK', ReadinessInv', Fading, offered \subseteq offered',
         \A k \in Tunnels : life'[Local(k)] = "open" =>
                              k \in setup' \/ bridge'[Local(k)] # None,
         HeldTickets', ConnectingApart',
         \/ UNCHANGED <<phase, waiting>>
         \/ phase' = "draining"
  PROVE  IndInv'
<1>1. OffersFirst'
  BY EndsOfTunnels DEF Fading, IndInv, OffersFirst
<1>2. LocalHeld'
  BY DEF LocalHeld
<1>3. CloseStages'
  BY DEF Fading, IndInv, CloseStages
<1> QED
  BY <1>1, <1>2, <1>3 DEF IndInv

\* Destroying sockets is such a step.
LEMMA DestroyFades ==
  ASSUME IndInv, NEW S, life' = Destroyed(S)
  PROVE  /\ Fading
         /\ \A s \in Ends : /\ life'[s] = "closed" <=> life[s] = "closed"
                            /\ s \in S => life'[s] # "open"
  BY DestroyedLife DEF Fading, IndInv, ReadinessInv, ReadinessTypeOK, SocketsTypeOK

\* Tickets are untouched by a step that ends no set-up.
LEMMA HeldKeeps ==
  ASSUME IndInv, UNCHANGED <<link, held, connecting, setup>>,
         \A k \in Tunnels : life[Local(k)] = "closed" => life'[Local(k)] = "closed"
  PROVE  HeldTickets'
  BY DEF IndInv, TypeOK, ReadinessTypeOK, HeldTickets, TicketsHonoured

\* Steps that no socket sees: of the control connection, which is not cut from a
\* registered one to an unregistered one, or a ticket that is not taken.
LEMMA SessionKeeps ==
  ASSUME IndInv, UNCHANGED <<endVars, setup>>,
         link' \in {"none", "connecting", "open", "up", "lost", "broken"},
         over' \in BOOLEAN, tail' \in BOOLEAN, ready' \in BOOLEAN, retries' \in 0 .. Retries,
         offered' \in SUBSET Tunnels, offered \subseteq offered',
         held' \in SUBSET Tunnels, held' \cap setup \subseteq held,
         link' \in {"none", "connecting", "open", "lost"} => held' = {},
         link' = "up" => held' \subseteq setup,
         \/ UNCHANGED <<phase, waiting>>
         \/ phase' = "draining" /\ UNCHANGED waiting
  PROVE  IndInv'
<1>1. UNCHANGED <<life, hadError, readEnded, writeEnded, bridge, connecting>>
  BY DEF endVars
<1>2. ReadinessTypeOK' /\ ReadinessInv'
  BY <1>1 DEF IndInv, ReadinessInv, ReadinessTypeOK, SocketsTypeOK, EndsFresh, JoinedPairs,
              SetupApart, DataHeld, HalvesForwarded
<1>3. TypeOK'
  BY <1>2 DEF IndInv, TypeOK
<1>4. HeldTickets'
  BY <1>1 DEF IndInv, HeldTickets, TicketsHonoured
<1>5. Fading
  BY <1>1 DEF Fading
<1>6. /\ \A k \in Tunnels : life'[Local(k)] = "open" => k \in setup' \/ bridge'[Local(k)] # None
      /\ ConnectingApart'
  BY <1>1 DEF IndInv, LocalHeld, ConnectingApart
<1> QED
  BY <1>2, <1>3, <1>4, <1>5, <1>6, FadingKeeps

-----------------------------------------------------------------------------
(* Control messages and the control connection *)

\* A ticket the agent takes: its two sockets open.
LEMMA TakenKeeps ==
  ASSUME IndInv, NEW k \in Tunnels, OpenTunnel(k, TRUE), ready, ~stopping
  PROVE  IndInv'
<1> DEFINE O == {Data(k), Local(k)}
<1>1. /\ link \in {"up", "broken"} /\ k \notin offered /\ offered' = offered \cup {k}
      /\ life' = [life EXCEPT ![Data(k)] = "open", ![Local(k)] = "open"]
      /\ connecting' = connecting \cup O /\ setup' = setup \cup {k} /\ held' = held \cup {k}
      /\ retries' = Retries /\ phase = "open"
      /\ UNCHANGED <<hadError, readEnded, writeEnded, bridge, link, over, tail, ready, phase,
                     waiting>>
  BY DEF OpenTunnel, Handles, stopping
<1>2. life[Data(k)] = "new" /\ life[Local(k)] = "new" /\ bridge[Local(k)] = None
  BY <1>1, EndsOfTunnels DEF IndInv, OffersFirst, ReadinessInv, EndsFresh
<1>3. /\ \A s \in Ends : life'[s] = IF s \in O THEN "open" ELSE life[s]
      /\ life' \in [Ends -> {"new", "open", "destroyed", "closed"}]
      /\ connecting' \in SUBSET Ends
  BY <1>1, EndsOfTunnels DEF IndInv, ReadinessInv, ReadinessTypeOK, SocketsTypeOK
<1>4. ReadinessInv'
  <2>1. /\ O \in {{Data(k)}, {Data(k), Local(k)}} /\ \A s \in O : life[s] = "new"
        /\ life'[Local(k)] = "open"
    BY <1>2, <1>3, EndsOfTunnels
  <2> HIDE DEF O
  <2> QED
    BY <1>1, <1>2, <1>3, <2>1, SetupBegins DEF IndInv
<1>5. TypeOK'
  BY <1>1, <1>4, RetriesAssumption DEF IndInv, TypeOK, ReadinessInv
<1>6. OffersFirst' /\ LocalHeld' /\ ConnectingApart'
  BY <1>1, <1>2, <1>3, EndsOfTunnels
  DEF IndInv, OffersFirst, LocalHeld, ConnectingApart, ReadinessInv, EndsFresh
<1>7. HeldTickets'
  <2>1. \A j \in held' \cap setup' : Local(j) \in connecting' \/ life'[Local(j)] = "closed"
    <3> SUFFICES ASSUME NEW j \in held' \cap setup'
                 PROVE  Local(j) \in connecting' \/ life'[Local(j)] = "closed"
      OBVIOUS
    <3>1. CASE j = k
      BY <1>1, <3>1
    <3>2. CASE j # k
      BY <1>1, <1>3, <3>2, EndsOfTunnels DEF IndInv, TypeOK, HeldTickets
    <3> QED
      BY <3>1, <3>2
  <2> QED
    BY <1>1, <2>1 DEF IndInv, HeldTickets, TicketsHonoured
<1>8. CloseStages'
  BY <1>1 DEF CloseStages
<1> QED
  BY <1>4, <1>5, <1>6, <1>7, <1>8 DEF IndInv

\* A ticket it ignores, or gives back.
LEMMA NotTakenKeeps ==
  ASSUME IndInv, NEW k \in Tunnels, NEW v \in BOOLEAN, OpenTunnel(k, v),
         ~(ready /\ ~stopping /\ v)
  PROVE  IndInv'
<1>1. /\ link \in {"up", "broken"} /\ k \notin offered /\ offered' = offered \cup {k}
      /\ retries' = Retries
      /\ held' = IF ready /\ ~stopping THEN GivenBack(held \cup {k}, k) ELSE held
      /\ UNCHANGED <<endVars, setup, link, over, tail, ready, phase, waiting>>
  BY DEF OpenTunnel, Handles, endVars
<1>2. k \notin setup
  BY <1>1 DEF IndInv, OffersFirst, ReadinessInv, SetupApart
<1>3. /\ held' \in SUBSET Tunnels /\ held' \cap setup \subseteq held
      /\ link = "up" => held' \subseteq held
  BY <1>1, <1>2 DEF GivenBack, IndInv, TypeOK
<1>4. link' = "up" => held' \subseteq setup
  BY <1>1, <1>3 DEF IndInv, TicketsHonoured, HeldTickets
<1> QED
  BY <1>1, <1>3, <1>4, RetriesAssumption, SessionKeeps DEF IndInv, TypeOK

\* What destroying the control connection makes of the link.
LEMMA CutLinks ==
  ASSUME IndInv, link' = Control!Cut
  PROVE  /\ link' \in {"none", "lost", "broken"}
         /\ link' \in {"none", "lost"} => held = {}
  BY DEF Control!Cut, IndInv, TypeOK, HeldTickets

\* Steps that cut it: the relay's refusals, a loss, and close() at last.
LEMMA CutKeeps ==
  ASSUME IndInv, RefusedName \/ Refused \/ Breaks
  PROVE  IndInv'
<1>1. link' = Control!Cut /\ UNCHANGED <<endVars, setup, ownVars>>
  BY DEF RefusedName, Refused, Breaks, Control!Breaks
<1>2. /\ link' \in {"none", "lost", "broken"}
      /\ link' \in {"none", "lost"} => held = {}
  BY <1>1, CutLinks
<1>3. over' \in BOOLEAN /\ tail' \in BOOLEAN /\ retries' \in 0 .. Retries
  <2>1. over' \in BOOLEAN /\ tail' \in BOOLEAN
    BY DEF RefusedName, Refused, Breaks, Control!Breaks, IndInv, TypeOK
  <2>2. /\ retries \in 0 .. Retries
        /\ retries' = retries \/ (retries > 0 /\ retries' = retries - 1)
    BY DEF RefusedName, RetriesLeft, Refused, Breaks, IndInv, TypeOK
  <2>3. retries' \in 0 .. Retries
    BY <2>2, RetriesAssumption
  <2> QED
    BY <2>1, <2>3
<1>4. /\ ready' \in BOOLEAN /\ offered' \in SUBSET Tunnels /\ held' \in SUBSET Tunnels
      /\ UNCHANGED <<offered, held, phase, waiting>>
  BY <1>1 DEF ownVars, IndInv, TypeOK
<1> QED
  BY <1>1, <1>2, <1>3, <1>4, SessionKeeps

\* The other steps of the control connection, and the beginning of close().
LEMMA ConnectionKeeps ==
  ASSUME IndInv, \/ \E r \in BOOLEAN : Registration(r)
                 \/ TailEnds \/ Connects \/ TcpUp \/ Closes \/ Close
  PROVE  IndInv'
<1>1. CASE \E r \in BOOLEAN : Registration(r)
  <2>1. /\ link' \in {"up", "broken"} /\ (link' = "up" => link \in {"open", "up"})
        /\ ready' \in BOOLEAN /\ retries' = Retries
        /\ UNCHANGED <<endVars, setup, over, tail, phase, waiting, offered, held>>
    BY <1>1 DEF Registration, Handles, Control!Registers
  <2>2. link' = "up" => held \subseteq setup
    BY <2>1 DEF IndInv, HeldTickets, TicketsHonoured
  <2> QED
    BY <2>1, <2>2, RetriesAssumption, SessionKeeps DEF IndInv, TypeOK
<1>2. CASE TailEnds
  BY <1>2, SessionKeeps DEF TailEnds, ownVars, IndInv, TypeOK, HeldTickets, TicketsHonoured
<1>3. CASE Connects
  BY <1>3, SessionKeeps
  DEF Connects, Control!Connects, ownVars, IndInv, TypeOK, HeldTickets, TicketsHonoured
<1>4. CASE TcpUp
  BY <1>4, SessionKeeps
  DEF TcpUp, Control!TcpUp, ownVars, IndInv, TypeOK, HeldTickets, TicketsHonoured
<1>5. CASE Closes
  <2>1. /\ link' = "none" /\ held' = {} /\ ready' \in BOOLEAN
        /\ UNCHANGED <<endVars, setup, over, tail, retries, phase, waiting, offered>>
    BY <1>5 DEF Closes, Control!Closes
  <2> QED
    BY <2>1, SessionKeeps DEF IndInv, TypeOK
<1>6. CASE Close
  BY <1>6, SessionKeeps
  DEF Close, sessionVars, IndInv, TypeOK, HeldTickets, TicketsHonoured
<1> QED
  BY <1>1, <1>2, <1>3, <1>4, <1>5, <1>6

-----------------------------------------------------------------------------
(* A tunnel's two connections *)

\* A step of the sockets only: the control connection and the offers stay.
LEMMA SocketsKeep ==
  ASSUME IndInv, ReadinessInv', Fading, HeldTickets', ConnectingApart',
         held' \in SUBSET Tunnels,
         \A k \in Tunnels : life'[Local(k)] = "open" =>
                              k \in setup' \/ bridge'[Local(k)] # None,
         UNCHANGED <<link, over, tail, retries, ready, phase, waiting, offered>>
  PROVE  IndInv'
<1>1. TypeOK'
  BY DEF IndInv, TypeOK, ReadinessInv
<1> QED
  BY <1>1, FadingKeeps

\* Those of them on which no set-up ends and no ticket is used.
LEMMA QuietSocketsKeep ==
  ASSUME IndInv, ReadinessInv', Fading,
         \A k \in Tunnels : life[Local(k)] = "closed" => life'[Local(k)] = "closed",
         UNCHANGED <<bridge, connecting, setup, sessionVars, ownVars>>
  PROVE  IndInv'
<1>1. UNCHANGED <<link, over, tail, retries, ready, phase, waiting, offered, held>>
  BY DEF sessionVars, ownVars
<1>2. HeldTickets' /\ ConnectingApart'
  BY <1>1, HeldKeeps DEF IndInv, ConnectingApart
<1>3. /\ held' \in SUBSET Tunnels
      /\ \A k \in Tunnels : life'[Local(k)] = "open" =>
           k \in setup' \/ bridge'[Local(k)] # None
  BY <1>1, EndsOfTunnels DEF Fading, IndInv, TypeOK, LocalHeld
<1> QED
  BY <1>1, <1>2, <1>3, SocketsKeep

\* The data connection stands: the target is dialled, or the connection dropped.
LEMMA DataConnectedKeeps ==
  ASSUME IndInv, NEW k \in Tunnels, DataConnected(k)
  PROVE  IndInv'
<1>1. /\ UNCHANGED <<hadError, readEnded, writeEnded, bridge, setup, sessionVars, ownVars>>
      /\ bridge[Data(k)] = None
  BY DEF DataConnected, IndInv, ConnectingApart
<1>2. CASE stopping
  <2>1. life' = Destroyed({Data(k)}) /\ UNCHANGED connecting
    BY <1>2 DEF DataConnected
  <2>2. ReadinessInv'
    BY <1>1, <2>1, DestroyKeeps DEF IndInv, ReadinessInv, ReadinessTypeOK
  <2> QED
    BY <1>1, <2>1, <2>2, DestroyFades, EndsOfTunnels, QuietSocketsKeep
<1>3. CASE ~stopping
  <2>1. connecting' = connecting \ {Data(k)} /\ UNCHANGED life
    BY <1>3 DEF DataConnected
  <2>2. ReadinessInv'
    BY <1>1, <2>1
    DEF IndInv, ReadinessInv, ReadinessTypeOK, SocketsTypeOK, EndsFresh, JoinedPairs,
        SetupApart, DataHeld, HalvesForwarded
  <2>3. UNCHANGED <<link, over, tail, retries, ready, phase, waiting, offered, held>>
    BY <1>1 DEF sessionVars, ownVars
  <2>4. HeldTickets' /\ ConnectingApart' /\ held' \in SUBSET Tunnels
    BY <1>1, <2>1, <2>3, EndsOfTunnels
    DEF IndInv, TypeOK, HeldTickets, TicketsHonoured, ConnectingApart
  <2>5. /\ Fading
        /\ \A j \in Tunnels : life'[Local(j)] = "open" =>
             j \in setup' \/ bridge'[Local(j)] # None
    BY <1>1, <2>1 DEF Fading, IndInv, LocalHeld
  <2> QED
    BY <2>2, <2>3, <2>4, <2>5, SocketsKeep
<1> QED
  BY <1>2, <1>3

\* The target stands: the ticket is presented, or the connection dropped.
LEMMA TargetConnectedKeeps ==
  ASSUME IndInv, NEW k \in Tunnels, TargetConnected(k)
  PROVE  IndInv'
<1>1. /\ UNCHANGED <<hadError, readEnded, writeEnded, bridge, setup, link, over, tail, retries,
                     ready, phase, waiting, offered>>
      /\ bridge[Local(k)] = None
  BY DEF TargetConnected, sessionVars, IndInv, ConnectingApart
<1>2. CASE life[Data(k)] # "open" \/ stopping
  <2>1. life' = Destroyed({Local(k)}) /\ UNCHANGED <<connecting, held>>
    BY <1>2 DEF TargetConnected
  <2>2. ReadinessInv'
    BY <1>1, <2>1, DestroyKeeps DEF IndInv, ReadinessInv, ReadinessTypeOK
  <2>3. UNCHANGED <<sessionVars, ownVars>>
    BY <1>1, <2>1 DEF sessionVars, ownVars
  <2> QED
    BY <1>1, <2>1, <2>2, <2>3, DestroyFades, EndsOfTunnels, QuietSocketsKeep
<1>3. CASE ~(life[Data(k)] # "open" \/ stopping)
  <2>1. connecting' = connecting \ {Local(k)} /\ held' = held \ {k} /\ UNCHANGED life
    BY <1>3 DEF TargetConnected
  <2>2. ReadinessInv'
    BY <1>1, <2>1
    DEF IndInv, ReadinessInv, ReadinessTypeOK, SocketsTypeOK, EndsFresh, JoinedPairs,
        SetupApart, DataHeld, HalvesForwarded
  <2>3. HeldTickets' /\ ConnectingApart' /\ held' \in SUBSET Tunnels
    BY <1>1, <2>1, EndsOfTunnels
    DEF IndInv, TypeOK, HeldTickets, TicketsHonoured, ConnectingApart
  <2>4. /\ Fading
        /\ \A j \in Tunnels : life'[Local(j)] = "open" =>
             j \in setup' \/ bridge'[Local(j)] # None
    BY <1>1, <2>1 DEF Fading, IndInv, LocalHeld
  <2> QED
    BY <1>1, <2>2, <2>3, <2>4, SocketsKeep
<1> QED
  BY <1>2, <1>3

\* What a 'close' does to the sockets.
LEMMA CloseFades ==
  ASSUME IndInv, NEW s \in Ends, NEW S, SocketCloses(s, S)
  PROVE  /\ Fading
         /\ \A r \in Ends : /\ life'[r] = "closed" <=> r = s \/ life[r] = "closed"
                            /\ r \in S => life'[r] # "open"
         /\ UNCHANGED <<hadError, readEnded, bridge>>
<1>1. \A r \in Ends : life'[r] =
        IF r = s THEN "closed"
        ELSE IF r \in S \cup PeerToDestroy(s) /\ life[r] = "open" THEN "destroyed"
        ELSE life[r]
  BY DestroyedLife DEF SocketCloses, IndInv, ReadinessInv
<1> QED
  BY <1>1 DEF SocketCloses, Fading, IndInv, ReadinessInv, ReadinessTypeOK, SocketsTypeOK

\* 'close' of the connection to the target, in the set-up or after it.
LEMMA LocalClosedKeeps ==
  ASSUME IndInv, NEW k \in Tunnels, LocalClose(k)
  PROVE  IndInv'
<1>1. /\ LocalCloses(k) /\ SocketCloses(Local(k), LocalTakes(k))
      /\ connecting' = connecting \ {Local(k)}
      /\ UNCHANGED <<setup, link, over, tail, retries, ready, phase, waiting, offered, held>>
  BY DEF LocalClose, LocalCloses, sessionVars, ownVars
<1>2. ReadinessInv'
  BY <1>1, LocalCloseKeeps DEF IndInv
<1>3. /\ Fading /\ UNCHANGED <<hadError, readEnded, bridge>>
      /\ \A r \in Ends : life'[r] = "closed" <=> r = Local(k) \/ life[r] = "closed"
  BY <1>1, CloseFades, EndsOfTunnels
<1>4. HeldTickets' /\ ConnectingApart' /\ held' \in SUBSET Tunnels
  BY <1>1, <1>3, EndsOfTunnels
  DEF IndInv, TypeOK, HeldTickets, TicketsHonoured, ConnectingApart
<1>5. \A j \in Tunnels : life'[Local(j)] = "open" => j \in setup' \/ bridge'[Local(j)] # None
  BY <1>1, <1>3, EndsOfTunnels DEF Fading, IndInv, LocalHeld
<1> QED
  BY <1>1, <1>2, <1>3, <1>4, <1>5, SocketsKeep

\* 'close' of a data connection: a set-up that was under way has failed, and its ticket
\* is given back.
LEMMA DataClosedKeeps ==
  ASSUME IndInv, NEW k \in Tunnels, DataClose(k)
  PROVE  IndInv'
<1>1. /\ DataCloses(k) /\ SocketCloses(Data(k), DataTakes(k)) /\ SetupFailed(k)
      /\ setup' = setup \ {k} /\ connecting' = connecting \ {Data(k)}
      /\ UNCHANGED <<link, over, tail, retries, ready, phase, waiting, offered>>
  BY DEF DataClose, DataCloses, sessionVars
<1>2. ReadinessInv'
  BY <1>1, DataCloseKeeps DEF IndInv
<1>3. /\ Fading /\ UNCHANGED <<hadError, readEnded, bridge>>
      /\ \A r \in Ends : /\ life'[r] = "closed" <=> r = Data(k) \/ life[r] = "closed"
                         /\ r \in DataTakes(k) => life'[r] # "open"
  BY <1>1, CloseFades, EndsOfTunnels
<1>4. /\ held' \in {held, held \ {k}}
      /\ k \in setup /\ link = "up" => k \notin held'
  BY <1>1 DEF SetupFailed, GivenBack
<1>5. HeldTickets' /\ ConnectingApart' /\ held' \in SUBSET Tunnels
  BY <1>1, <1>3, <1>4, EndsOfTunnels
  DEF IndInv, TypeOK, HeldTickets, TicketsHonoured, ConnectingApart
<1>6. \A j \in Tunnels : life'[Local(j)] = "open" => j \in setup' \/ bridge'[Local(j)] # None
  <2>1. k \in setup => life'[Local(k)] # "open"
    BY <1>3, EndsOfTunnels DEF DataTakes
  <2> QED
    BY <1>1, <1>3, <2>1, EndsOfTunnels DEF Fading, IndInv, LocalHeld
<1> QED
  BY <1>1, <1>2, <1>3, <1>5, <1>6, SocketsKeep

\* Everything else that happens to the sockets.
LEMMA SocketEventKeeps ==
  ASSUME IndInv, SocketEvent \/ \E k \in Tunnels : SetupTimeout(k)
  PROVE  IndInv'
<1>1. UNCHANGED <<sessionVars, ownVars>> /\ ReadinessInv
  BY DEF SocketEvent, SetupTimeout, IndInv
<1>2. ASSUME NEW k \in Tunnels, Ready(k) PROVE IndInv'
  <2>1. ReadinessInv'
    BY <1>1, <1>2, ReadyKeeps
  <2>2. CASE life[Local(k)] = "open"
    <3>1. /\ k \in setup /\ setup' = setup \ {k}
          /\ Data(k) \notin connecting /\ Local(k) \notin connecting
          /\ bridge' = Bridged(Data(k), Local(k)) /\ UNCHANGED <<life, connecting>>
      BY <1>2, <2>2 DEF Ready
    <3>2. \A s \in Ends : bridge'[s] = IF s = Data(k) THEN Local(k)
                                       ELSE IF s = Local(k) THEN Data(k) ELSE bridge[s]
      BY <3>1, EndsOfTunnels DEF Bridged, IndInv, ReadinessInv, ReadinessTypeOK, SocketsTypeOK
    <3>3. UNCHANGED <<link, over, tail, retries, ready, phase, waiting, offered, held>>
      BY <1>1 DEF sessionVars, ownVars
    <3>4. HeldTickets' /\ held' \in SUBSET Tunnels
      BY <2>2, <3>1, <3>3 DEF IndInv, TypeOK, HeldTickets, TicketsHonoured
    <3>5. ConnectingApart'
      BY <3>1, <3>2 DEF IndInv, ConnectingApart, TypeOK, ReadinessTypeOK
    <3>6. \A j \in Tunnels : life'[Local(j)] = "open" => j \in setup' \/ bridge'[Local(j)] # None
      BY <3>1, <3>2, EndsOfTunnels, NoneAssumption DEF IndInv, LocalHeld
    <3>7. Fading
      BY <3>1 DEF Fading
    <3> QED
      BY <2>1, <3>3, <3>4, <3>5, <3>6, <3>7, SocketsKeep
  <2>3. CASE life[Local(k)] # "open"
    <3>1. life' = Destroyed({Data(k)}) /\ UNCHANGED <<bridge, connecting, setup>>
      BY <1>2, <2>3 DEF Ready
    <3> QED
      BY <1>1, <2>1, <3>1, DestroyFades, EndsOfTunnels, QuietSocketsKeep
  <2> QED
    BY <2>2, <2>3
<1>3. ASSUME NEW k \in Tunnels, SetupDeadline(k) \/ SetupEnds(k) PROVE IndInv'
  <2>1. ReadinessInv'
    BY <1>1, <1>3, SetupFailKeeps
  <2>2. life' = Destroyed({Data(k)}) /\ UNCHANGED <<bridge, connecting, setup>>
    BY <1>3 DEF SetupDeadline, SetupEnds
  <2> QED
    BY <1>1, <2>1, <2>2, DestroyFades, EndsOfTunnels, QuietSocketsKeep
<1>4. ASSUME NEW s \in Ends, EndFails(s) \/ EndFinishes(s) PROVE IndInv'
  <2>1. ReadinessInv'
    BY <1>1, <1>4, FailKeeps, FinishKeeps
  <2>2. /\ \A r \in Ends : life'[r] = IF r = s THEN "destroyed" ELSE life[r]
        /\ life[s] = "open" /\ UNCHANGED <<bridge, connecting, setup>>
    BY <1>1, <1>4
    DEF EndFails, EndFinishes, SocketFails, SocketFinishes, ReadinessInv, ReadinessTypeOK,
        SocketsTypeOK
  <2>3. Fading
    BY <2>2 DEF Fading
  <2> QED
    BY <1>1, <2>1, <2>2, <2>3, EndsOfTunnels, QuietSocketsKeep
<1>5. ASSUME NEW s \in Ends, EndEnds(s) PROVE IndInv'
  <2>1. ReadinessInv' /\ UNCHANGED <<life, bridge, connecting, setup>>
    BY <1>1, <1>5, EndKeeps DEF EndEnds, SocketEnds
  <2>2. Fading
    BY <2>1 DEF Fading
  <2> QED
    BY <1>1, <2>1, <2>2, QuietSocketsKeep
<1>6. ASSUME NEW k \in Tunnels, LocalEndsEarly(k) PROVE IndInv'
  <2>1. ReadinessInv' /\ UNCHANGED <<life, bridge, connecting, setup>>
    BY <1>1, <1>6, EarlyEndKeeps
  <2>2. Fading
    BY <2>1 DEF Fading
  <2> QED
    BY <1>1, <2>1, <2>2, QuietSocketsKeep
<1> QED
  BY <1>2, <1>3, <1>4, <1>5, <1>6 DEF SocketEvent, SetupTimeout, Deadline

-----------------------------------------------------------------------------
(* close() *)

\* The drain is over.
LEMMA EndDrainKeeps ==
  ASSUME IndInv, EndDrain
  PROVE  IndInv'
<1>1. /\ phase' = "destroying" /\ waiting' = Remaining /\ life' = Destroyed(Remaining)
      /\ UNCHANGED <<hadError, readEnded, writeEnded, bridge, connecting, setup, link, over,
                     tail, retries, ready, offered, held>>
  BY DEF EndDrain, sessionVars
<1>2. Remaining = {s \in Ends : life[s] \in {"open", "destroyed"}}
  BY EndsOfTunnels DEF Remaining, localConnections, dataConnections
<1>3. \A s \in Ends : /\ life'[s] # "open"
                      /\ life'[s] = "destroyed" => s \in Remaining
                      /\ life[s] = "new" => life'[s] = "new"
                      /\ life[s] = "closed" => life'[s] = "closed"
  BY <1>1, <1>2, DestroyedLife DEF IndInv, ReadinessInv
<1>4. ReadinessInv'
  <2>1. \A s \in Ends : s \in Remaining => bridge[s] = None \/ life'[bridge[s]] # "open"
    BY <1>3 DEF IndInv, ReadinessInv, JoinedPairs
  <2> QED
    BY <1>1, <2>1, DestroyKeeps DEF IndInv, ReadinessInv, ReadinessTypeOK
<1>5. TypeOK'
  BY <1>1, <1>2, <1>4 DEF IndInv, TypeOK, ReadinessInv
<1>6. OffersFirst' /\ LocalHeld' /\ ConnectingApart' /\ CloseStages'
  BY <1>1, <1>3, EndsOfTunnels DEF IndInv, OffersFirst, LocalHeld, ConnectingApart, CloseStages
<1>7. HeldTickets'
  BY <1>1, <1>3, EndsOfTunnels, HeldKeeps
<1> QED
  BY <1>4, <1>5, <1>6, <1>7 DEF IndInv

\* The two ends of the session.
LEMMA SessionClosesKeep ==
  ASSUME IndInv, CloseSession \/ FinishClose
  PROVE  IndInv'
<1>1. /\ phase \in {"destroying", "session"} /\ phase' \in {"session", "closed"}
      /\ phase = "destroying" => \A s \in waiting : life[s] = "closed"
      /\ UNCHANGED <<endVars, setup, tail, retries, ready, waiting, offered, held>>
  BY DEF CloseSession, FinishClose, sessionVars
<1>2. /\ over' \in BOOLEAN /\ link' \in {"none", "lost", "broken"}
      /\ link' \in {"none", "lost"} => held = {}
  BY CutLinks DEF CloseSession, FinishClose, sessionVars, IndInv, TypeOK, HeldTickets
<1>3. UNCHANGED <<life, hadError, readEnded, writeEnded, bridge, connecting>>
  BY <1>1 DEF endVars
<1>4. ReadinessInv'
  BY <1>1, <1>3
  DEF IndInv, ReadinessInv, ReadinessTypeOK, SocketsTypeOK, EndsFresh, JoinedPairs, SetupApart,
      DataHeld, HalvesForwarded
<1>5. TypeOK'
  BY <1>1, <1>2, <1>4 DEF IndInv, TypeOK, ReadinessInv
<1>6. OffersFirst' /\ LocalHeld' /\ ConnectingApart'
  BY <1>1, <1>3 DEF IndInv, OffersFirst, LocalHeld, ConnectingApart
<1>7. HeldTickets'
  BY <1>1, <1>2, <1>3 DEF IndInv, HeldTickets, TicketsHonoured
<1>8. CloseStages'
  <2>1. \A s \in Ends : life[s] \notin {"open", "destroyed"}
    BY <1>1 DEF IndInv, CloseStages
  <2> QED
    BY <1>1, <1>3, <2>1 DEF CloseStages
<1> QED
  BY <1>4, <1>5, <1>6, <1>7, <1>8 DEF IndInv

-----------------------------------------------------------------------------

\* Every step preserves the invariant.
LEMMA NextIndInv == IndInv /\ [Next]_vars => IndInv'
<1> SUFFICES ASSUME IndInv, [Next]_vars PROVE IndInv'
  OBVIOUS
<1>1. CASE RefusedName \/ Refused \/ Breaks
  BY <1>1, CutKeeps
<1>2. CASE \E r \in BOOLEAN : Registration(r)
  BY <1>2, ConnectionKeeps
<1>3. ASSUME NEW k \in Tunnels, NEW v \in BOOLEAN, OpenTunnel(k, v) PROVE IndInv'
  <2>1. CASE ready /\ ~stopping /\ v
    <3>1. OpenTunnel(k, TRUE)
      BY <1>3, <2>1 DEF OpenTunnel
    <3> QED
      BY <2>1, <3>1, TakenKeeps
  <2>2. CASE ~(ready /\ ~stopping /\ v)
    BY <1>3, <2>2, NotTakenKeeps
  <2> QED
    BY <2>1, <2>2
<1>4. CASE TailEnds \/ Connects \/ TcpUp \/ Closes \/ Close
  BY <1>4, ConnectionKeeps
<1>5. ASSUME NEW k \in Tunnels, \/ DataConnected(k) \/ TargetConnected(k) \/ LocalClose(k)
                                \/ DataClose(k)
      PROVE  IndInv'
  BY <1>5, DataConnectedKeeps, TargetConnectedKeeps, LocalClosedKeeps, DataClosedKeeps
<1>6. CASE SocketEvent \/ \E k \in Tunnels : SetupTimeout(k)
  BY <1>6, SocketEventKeeps
<1>7. CASE EndDrain \/ CloseSession \/ FinishClose
  BY <1>7, EndDrainKeeps, SessionClosesKeep
<1>8. CASE UNCHANGED vars
  BY <1>8, SessionKeeps
  DEF vars, sessionVars, ownVars, IndInv, TypeOK, HeldTickets, TicketsHonoured
<1> QED
  BY <1>1, <1>2, <1>3, <1>4, <1>5, <1>6, <1>7, <1>8 DEF Next, Message

\* A refusal takes a retry and the connection with it; a connection is up only by a
\* message that gives them back.
LEMMA RetriesKeep ==
  ASSUME TypeOK, TypeOK', RetriesWhole, [Next]_vars
  PROVE  RetriesWhole'
<1> SUFFICES ASSUME link' = "up" PROVE retries' = Retries
  BY DEF TypeOK, RetriesWhole
<1>1. CASE Message
  <2>1. CASE RefusedName \/ Refused
    BY <2>1 DEF RefusedName, Refused, Control!Cut
  <2>2. CASE ~(RefusedName \/ Refused)
    BY <1>1, <2>2 DEF Message, Registration, OpenTunnel
  <2> QED
    BY <2>1, <2>2
<1>2. CASE UNCHANGED <<link, retries>>
  BY <1>2 DEF RetriesWhole
<1>3. CASE Connects \/ TcpUp \/ Breaks \/ Closes \/ CloseSession
  BY <1>3
  DEF Connects, TcpUp, Breaks, Closes, CloseSession, Control!Connects, Control!TcpUp,
      Control!Breaks, Control!Closes, Control!Cut
<1>4. \/ TailEnds \/ SocketEvent \/ Close \/ EndDrain \/ FinishClose \/ UNCHANGED vars
      \/ \E k \in Tunnels : \/ DataConnected(k) \/ TargetConnected(k) \/ SetupTimeout(k)
                            \/ LocalClose(k) \/ DataClose(k)
      => UNCHANGED <<link, retries>>
  BY DEF TailEnds, SocketEvent, Close, EndDrain, FinishClose, vars, sessionVars, DataConnected,
         TargetConnected, SetupTimeout, LocalClose, DataClose
<1> QED
  BY <1>1, <1>2, <1>3, <1>4 DEF Next

-----------------------------------------------------------------------------
(* Theorems *)

\* The inductive invariant.
THEOREM Invariant == Spec => []IndInv
  BY InitIndInv, NextIndInv, PTL DEF Spec

\* Every variable keeps its type.
THEOREM TypeCorrect == Spec => []TypeOK
<1>1. IndInv => TypeOK
  BY DEF IndInv
<1> QED
  BY <1>1, Invariant, PTL

\* The retries are never counted beyond zero, and all there on a connection that is up.
THEOREM RetriesAreWhole == Spec => []RetriesWhole
<1>1. Init => RetriesWhole
  BY RetriesAssumption DEF Init, RetriesWhole, Control!Init
<1>2. TypeOK /\ TypeOK' /\ RetriesWhole /\ [Next]_vars => RetriesWhole'
  BY RetriesKeep
<1> QED
  BY <1>1, <1>2, TypeCorrect, PTL DEF Spec

\* Each half of a tunnel has somebody who ends it, and a closed agent has none.
THEOREM NobodyIsStranded == Spec => []NobodyStranded
<1>1. IndInv => NobodyStranded
  <2> SUFFICES ASSUME IndInv PROVE NobodyStranded
    OBVIOUS
  <2>1. phase \in {"session", "closed"} => localConnections \cup dataConnections = {}
    BY EndsOfTunnels DEF IndInv, CloseStages, localConnections, dataConnections
  <2> QED
    BY <2>1, InvIsSound DEF IndInv, LocalHeld, NobodyStranded
<1> QED
  BY <1>1, Invariant, PTL

\* A ticket is presented, about to be, or given back.
THEOREM TicketsAreHonoured == Spec => []TicketsHonoured
<1>1. IndInv => TicketsHonoured
  BY DEF IndInv, HeldTickets
<1> QED
  BY <1>1, Invariant, PTL
=============================================================================
