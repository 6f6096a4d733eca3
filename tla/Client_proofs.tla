----------------------------- MODULE Client_proofs -----------------------------
(***************************************************************************)
(* Proofs about Client, for every set of tunnels.                          *)
(***************************************************************************)
EXTENDS Client, DataReadiness_proofs

\* The initial state.
LEMMA InitIndInv == Init => IndInv
<1> SUFFICES ASSUME Init PROVE IndInv
  OBVIOUS
<1>1. ReadinessInv
  BY ReadinessStarts DEF Init
<1>2. \A s \in Ends : life[s] = "new"
  BY DEF Init, ReadinessInit, SocketsInit
<1>3. TypeOK
  BY <1>1 DEF Init, TypeOK, ReadinessInv, Control!Init
<1>4. RequestsFirst /\ ReadyOnline /\ WaitsWhileServed /\ LocalHeld
  BY <1>2, EndsOfTunnels DEF Init, RequestsFirst, ReadyOnline, WaitsWhileServed, LocalHeld
<1>5. HeldTickets /\ CloseStages
  BY <1>2 DEF Init, HeldTickets, TicketsHonoured, CloseStages
<1> QED
  BY <1>1, <1>3, <1>4, <1>5 DEF IndInv

-----------------------------------------------------------------------------
(* Steps on which no socket opens *)

\* No socket opens, and none is skipped on its way.
Fading ==
  \A s \in Ends : /\ life'[s] = "open" => life[s] = "open"
                  /\ life'[s] = "destroyed" => life[s] \in {"open", "destroyed"}
                  /\ life'[s] = "new" <=> life[s] = "new"

\* Destroying sockets is such a step.
LEMMA DestroyFades ==
  ASSUME IndInv, NEW S, life' = Destroyed(S)
  PROVE  /\ Fading
         /\ \A s \in Ends : /\ life'[s] = "closed" <=> life[s] = "closed"
                            /\ s \in S => life'[s] # "open"
                            /\ s \notin S => life'[s] = life[s]
  BY DestroyedLife DEF Fading, IndInv, ReadinessInv, ReadinessTypeOK, SocketsTypeOK

\* What such a step has to see to.
LEMMA FadingKeeps ==
  ASSUME IndInv, TypeOK', ReadinessInv', Fading,
         pending' \subseteq pending, asked' \subseteq asked,
         \A k \in pending' : /\ bridge'[Local(k)] = None /\ life'[Local(k)] # "closed"
                             /\ k \in asked' \/ life'[Local(k)] # "open",
         \A k \in Tunnels : life'[Local(k)] = "open" =>
                              k \in pending' \cup setup' \/ bridge'[Local(k)] # None,
         pending' # {} => ready' /\ phase' = "open",
         ready' => link' \in {"up", "broken"},
         HeldTickets',
         \/ UNCHANGED <<phase, waiting>>
         \/ phase' = "draining"
  PROVE  IndInv'
<1>1. RequestsFirst'
  <2> SUFFICES ASSUME NEW k \in Tunnels
               PROVE  /\ k \in asked' => life'[Data(k)] = "new" /\ life'[Local(k)] # "new"
                      /\ life'[Local(k)] = "new" => life'[Data(k)] = "new"
                      /\ k \in pending' =>
                           /\ life'[Data(k)] = "new" /\ bridge'[Local(k)] = None
                           /\ life'[Local(k)] \in {"open", "destroyed"}
    BY DEF RequestsFirst
  <2>1. Data(k) \in Ends /\ Local(k) \in Ends
    BY EndsOfTunnels
  <2>2. life'[Local(k)] \in {"new", "open", "destroyed", "closed"}
    BY <2>1 DEF ReadinessInv, ReadinessTypeOK, SocketsTypeOK
  <2> QED
    BY <2>1, <2>2 DEF Fading, IndInv, RequestsFirst
<1>2. ReadyOnline' /\ LocalHeld'
  BY DEF ReadyOnline, LocalHeld
<1>3. WaitsWhileServed'
  BY DEF WaitsWhileServed, stopping
<1>4. CloseStages'
  BY DEF Fading, IndInv, CloseStages
<1> QED
  BY <1>1, <1>2, <1>3, <1>4 DEF IndInv

\* Steps of the control connection alone: it is not cut from a registered one to an
\* unregistered one, and tickets come with the registration.
LEMMA SessionKeeps ==
  ASSUME IndInv, UNCHANGED <<endVars, setup, pending, asked, held>>,
         link' \in {"none", "connecting", "open", "up", "lost", "broken"},
         over' \in BOOLEAN, tail' \in BOOLEAN, ready' \in BOOLEAN,
         wrote' \in {"nothing", "registration", "other"},
         wrote' = "nothing" => link' \notin {"open", "up"},
         link' \in {"none", "connecting", "open", "lost"} =>
           link \in {"none", "connecting", "open", "lost"},
         link' = "up" => link \in {"open", "up"},
         ready' => link' \in {"up", "broken"}, ready => ready',
         UNCHANGED <<phase, waiting>>
  PROVE  IndInv'
<1>1. UNCHANGED <<life, hadError, readEnded, writeEnded, bridge, connecting>>
  BY DEF endVars
<1>2. ReadinessTypeOK' /\ ReadinessInv'
  BY <1>1 DEF IndInv, ReadinessInv, ReadinessTypeOK, SocketsTypeOK, EndsFresh, JoinedPairs,
              SetupApart, DataHeld, HalvesForwarded
<1>3. TypeOK'
  BY <1>2 DEF IndInv, TypeOK
<1>4. HeldTickets'
  BY <1>1 DEF IndInv, HeldTickets, TicketsHonoured
<1>5. Fading
  BY <1>1 DEF Fading
<1>6. pending \subseteq Tunnels
  BY DEF IndInv, TypeOK
<1> QED
  BY <1>1, <1>2, <1>3, <1>4, <1>5, <1>6, FadingKeeps
  DEF IndInv, RequestsFirst, WaitsWhileServed, stopping, LocalHeld

\* Tickets are untouched by a step that ends no set-up.
LEMMA HeldKeeps ==
  ASSUME IndInv, UNCHANGED <<link, held, connecting, setup>>
  PROVE  HeldTickets'
  BY DEF IndInv, HeldTickets, TicketsHonoured

\* closePendingLocalConnections, wherever it is called from.
LEMMA ClosePendingKeeps ==
  ASSUME IndInv, ClosePending, TypeOK', HeldTickets', asked' \subseteq asked,
         ready' => link' \in {"up", "broken"},
         UNCHANGED <<hadError, readEnded, writeEnded, bridge, connecting, setup>>,
         \/ UNCHANGED <<phase, waiting>>
         \/ phase' = "draining"
  PROVE  IndInv'
<1> DEFINE S == {Local(k) : k \in pending}
<1>1. life' = Destroyed(S) /\ pending' = {} /\ pending \subseteq Tunnels
  BY DEF ClosePending, IndInv, TypeOK
<1>2. \A s \in S : bridge[s] = None
  BY <1>1 DEF IndInv, RequestsFirst
<1>3. ReadinessInv'
  BY <1>1, <1>2, DestroyKeeps DEF IndInv, ReadinessInv, ReadinessTypeOK
<1>4. Fading /\ \A s \in Ends : s \in S => life'[s] # "open"
  BY <1>1, DestroyFades
<1>5. \A k \in Tunnels : life'[Local(k)] = "open" => k \in setup \/ bridge[Local(k)] # None
  BY <1>4, EndsOfTunnels DEF Fading, IndInv, LocalHeld
<1> QED
  BY <1>1, <1>3, <1>4, <1>5, FadingKeeps

-----------------------------------------------------------------------------
(* Local connections *)

LEMMA HandleLocalKeeps ==
  ASSUME IndInv, NEW k \in Tunnels, HandleLocalSocket(k)
  PROVE  IndInv'
<1> DEFINE l == IF Sendable THEN "open" ELSE "destroyed"
<1>1. /\ life[Local(k)] = "new" /\ ready /\ phase = "open"
      /\ life' = [life EXCEPT ![Local(k)] = l]
      /\ pending' = pending \cup {k}
      /\ asked' = IF Sendable THEN asked \cup {k} ELSE asked
      /\ UNCHANGED <<hadError, readEnded, writeEnded, bridge, connecting, setup,
                     link, over, tail, wrote, ready, phase, waiting, held>>
  BY DEF HandleLocalSocket, stopping, sessionVars
<1>2. ReadinessInv'
  BY <1>1, LocalAppears DEF IndInv
<1>3. TypeOK'
  BY <1>1, <1>2 DEF IndInv, TypeOK, ReadinessInv
<1>4. /\ \A s \in Ends : life'[s] = IF s = Local(k) THEN l ELSE life[s]
      /\ life[Data(k)] = "new" /\ bridge[Local(k)] = None
  BY <1>1, EndsOfTunnels
  DEF IndInv, RequestsFirst, ReadinessInv, ReadinessTypeOK, SocketsTypeOK, EndsFresh
<1>5. RequestsFirst'
  BY <1>1, <1>4, EndsOfTunnels DEF IndInv, RequestsFirst
<1>6. ReadyOnline' /\ LocalHeld'
  BY <1>1, <1>4, EndsOfTunnels DEF IndInv, ReadyOnline, LocalHeld
<1>7. WaitsWhileServed'
  <2>1. link \in {"up", "broken"}
    BY <1>1 DEF IndInv, ReadyOnline
  <2>2. \A j \in pending' : j \in asked' \/ life'[Local(j)] # "open"
    <3> SUFFICES ASSUME NEW j \in pending' PROVE j \in asked' \/ life'[Local(j)] # "open"
      OBVIOUS
    <3>1. j \in Tunnels
      BY <1>3 DEF TypeOK
    <3>2. CASE j = k
      BY <1>1, <1>4, <3>1, <3>2, EndsOfTunnels
    <3>3. CASE j # k
      BY <1>1, <1>4, <3>1, <3>3, EndsOfTunnels DEF IndInv, WaitsWhileServed
    <3> QED
      BY <3>2, <3>3
  <2> QED
    BY <1>1, <2>1, <2>2 DEF WaitsWhileServed, stopping
<1>8. HeldTickets' /\ CloseStages'
  BY <1>1 DEF IndInv, HeldTickets, TicketsHonoured, CloseStages
<1> QED
  BY <1>2, <1>3, <1>5, <1>6, <1>7, <1>8 DEF IndInv

\* The request's timeout.
LEMMA PendingTimeoutKeeps ==
  ASSUME IndInv, NEW k \in Tunnels, PendingTimeout(k)
  PROVE  IndInv'
<1>1. /\ k \in pending /\ life' = Destroyed({Local(k)})
      /\ UNCHANGED <<hadError, readEnded, writeEnded, bridge, connecting, setup, link, over,
                     tail, wrote, ready, pending, phase, waiting, asked, held>>
  BY DEF PendingTimeout, sessionVars, ownVars
<1>2. bridge[Local(k)] = None
  BY <1>1 DEF IndInv, RequestsFirst
<1>3. ReadinessInv'
  BY <1>1, <1>2, DestroyKeeps DEF IndInv, ReadinessInv, ReadinessTypeOK
<1>4. TypeOK'
  BY <1>1, <1>3 DEF IndInv, TypeOK, ReadinessInv
<1>5. /\ Fading
      /\ \A s \in Ends : /\ life'[s] = "closed" <=> life[s] = "closed"
                         /\ life'[s] = "open" => life[s] = "open"
  BY <1>1, DestroyFades DEF Fading
<1>6. HeldTickets'
  BY <1>1, HeldKeeps
<1>7. \A j \in pending : /\ bridge[Local(j)] = None /\ life'[Local(j)] # "closed"
                         /\ j \in asked \/ life'[Local(j)] # "open"
  BY <1>5, EndsOfTunnels DEF IndInv, TypeOK, RequestsFirst, WaitsWhileServed
<1>8. \A j \in Tunnels : life'[Local(j)] = "open" =>
        j \in pending \cup setup \/ bridge[Local(j)] # None
  BY <1>5, EndsOfTunnels DEF IndInv, LocalHeld
<1>9. pending # {} => ready /\ phase = "open"
  BY DEF IndInv, WaitsWhileServed, stopping
<1> QED
  BY <1>1, <1>3, <1>4, <1>5, <1>6, <1>7, <1>8, <1>9, FadingKeeps DEF IndInv, ReadyOnline

\* What a 'close' does to the sockets.
LEMMA CloseFades ==
  ASSUME IndInv, NEW s \in Ends, NEW S, SocketCloses(s, S)
  PROVE  /\ Fading
         /\ \A r \in Ends : /\ life'[r] = "closed" <=> r = s \/ life[r] = "closed"
                            /\ r \in S => life'[r] # "open"
         /\ UNCHANGED <<hadError, readEnded, bridge>>
<1>1. \A r \in Ends : life'[r] =
        IF r = s THEN "closed"
        ELSE IF r \in S \cup PeerToDestroy(s) /\ life[r] = "open" THEN "destroyed"
        ELSE life[r]
  BY DestroyedLife DEF SocketCloses, IndInv, ReadinessInv
<1> QED
  BY <1>1 DEF SocketCloses, Fading, IndInv, ReadinessInv, ReadinessTypeOK, SocketsTypeOK

\* A local connection that does not close stays pending as it was.
LEMMA PendingStay ==
  ASSUME IndInv, Fading, NEW k \in pending, life'[Local(k)] # "closed",
         UNCHANGED <<bridge, asked>>
  PROVE  /\ bridge'[Local(k)] = None
         /\ k \in asked' \/ life'[Local(k)] # "open"
  BY EndsOfTunnels DEF Fading, IndInv, TypeOK, RequestsFirst, WaitsWhileServed

\* 'close' of a local connection: it is not pending any more.
LEMMA LocalClosedKeeps ==
  ASSUME IndInv, NEW k \in Tunnels, LocalClose(k)
  PROVE  IndInv'
<1>1. /\ LocalCloses(k) /\ SocketCloses(Local(k), LocalTakes(k))
      /\ pending' = pending \ {k} /\ connecting' = connecting \ {Local(k)}
      /\ UNCHANGED <<setup, link, over, tail, wrote, ready, phase, waiting, asked, held>>
  BY DEF LocalClose, LocalCloses, sessionVars
<1>2. ReadinessInv'
  BY <1>1, LocalCloseKeeps DEF IndInv
<1>3. TypeOK'
  BY <1>1, <1>2 DEF IndInv, TypeOK, ReadinessInv
<1>4. /\ Fading /\ UNCHANGED <<hadError, readEnded, bridge>>
      /\ \A r \in Ends : life'[r] = "closed" <=> r = Local(k) \/ life[r] = "closed"
  BY <1>1, CloseFades, EndsOfTunnels
<1>5. HeldTickets'
  BY <1>1, EndsOfTunnels DEF IndInv, TypeOK, HeldTickets, TicketsHonoured
<1>6. \A j \in pending' : life'[Local(j)] # "closed"
  BY <1>1, <1>4, EndsOfTunnels DEF IndInv, TypeOK, RequestsFirst
<1>7. \A j \in Tunnels : life'[Local(j)] = "open" =>
        j \in pending' \cup setup \/ bridge[Local(j)] # None
  <2>1. life'[Local(k)] # "open"
    BY <1>4, EndsOfTunnels
  <2> QED
    BY <1>1, <1>4, <2>1, EndsOfTunnels DEF Fading, IndInv, LocalHeld
<1>8. pending' # {} => ready /\ phase = "open"
  BY <1>1 DEF IndInv, WaitsWhileServed, stopping
<1>9. \A j \in pending' : bridge'[Local(j)] = None /\ (j \in asked' \/ life'[Local(j)] # "open")
  BY <1>1, <1>4, <1>6, PendingStay
<1> QED
  BY <1>1, <1>2, <1>3, <1>4, <1>5, <1>6, <1>7, <1>8, <1>9, FadingKeeps DEF IndInv, ReadyOnline

-----------------------------------------------------------------------------
(* Data connections *)

\* A step of data connections only: requests and the control connection stay.
LEMMA DataKeeps ==
  ASSUME IndInv, ReadinessInv', Fading, HeldTickets',
         wrote' \in {wrote, "other"}, held' \in SUBSET Tunnels,
         \A k \in pending : life'[Local(k)] # "closed" /\ bridge'[Local(k)] = None,
         \A k \in Tunnels : life'[Local(k)] = "open" =>
                              k \in pending \cup setup' \/ bridge'[Local(k)] # None,
         UNCHANGED <<link, over, tail, ready, pending, phase, waiting, asked>>
  PROVE  IndInv'
<1>1. TypeOK'
  BY DEF IndInv, TypeOK, ReadinessInv
<1>2. \A k \in pending : k \in asked \/ life'[Local(k)] # "open"
  BY EndsOfTunnels DEF Fading, IndInv, TypeOK, WaitsWhileServed
<1>3. /\ pending # {} => ready /\ phase = "open"
      /\ ready => link \in {"up", "broken"}
  BY DEF IndInv, WaitsWhileServed, ReadyOnline, stopping
<1> QED
  BY <1>1, <1>2, <1>3, FadingKeeps

\* The ticket is presented.
LEMMA DataConnectedKeeps ==
  ASSUME IndInv, NEW k \in Tunnels, DataConnected(k)
  PROVE  IndInv'
<1>1. /\ connecting' = connecting \ {Data(k)} /\ held' = held \ {k}
      /\ UNCHANGED <<life, hadError, readEnded, writeEnded, bridge, setup, link, over, tail,
                     wrote, ready, pending, phase, waiting, asked>>
  BY DEF DataConnected, sessionVars
<1>2. ReadinessInv'
  BY <1>1 DEF IndInv, ReadinessInv, ReadinessTypeOK, SocketsTypeOK, EndsFresh, JoinedPairs,
              SetupApart, DataHeld, HalvesForwarded
<1>3. Fading
  BY <1>1 DEF Fading
<1>4. HeldTickets'
  BY <1>1, EndsOfTunnels DEF IndInv, TypeOK, HeldTickets, TicketsHonoured
<1>5. held' \in SUBSET Tunnels
  BY <1>1 DEF IndInv, TypeOK
<1>6. \A j \in pending : life'[Local(j)] # "closed" /\ bridge'[Local(j)] = None
  BY <1>1 DEF IndInv, TypeOK, RequestsFirst
<1>7. \A j \in Tunnels : life'[Local(j)] = "open" =>
        j \in pending \cup setup' \/ bridge'[Local(j)] # None
  BY <1>1 DEF IndInv, LocalHeld
<1> QED
  BY <1>1, <1>2, <1>3, <1>4, <1>5, <1>6, <1>7, DataKeeps

\* 'close' of a data connection: a set-up that was under way has failed, and its ticket
\* is given back.
LEMMA DataClosedKeeps ==
  ASSUME IndInv, NEW k \in Tunnels, DataClose(k)
  PROVE  IndInv'
<1>1. /\ DataCloses(k) /\ SocketCloses(Data(k), DataTakes(k)) /\ SetupFailed(k)
      /\ setup' = setup \ {k} /\ connecting' = connecting \ {Data(k)}
      /\ UNCHANGED <<link, over, tail, ready, pending, phase, waiting, asked>>
  BY DEF DataClose, DataCloses
<1>2. ReadinessInv'
  BY <1>1, DataCloseKeeps DEF IndInv
<1>3. /\ Fading /\ UNCHANGED <<hadError, readEnded, bridge>>
      /\ \A r \in Ends : /\ life'[r] = "closed" <=> r = Data(k) \/ life[r] = "closed"
                         /\ r \in DataTakes(k) => life'[r] # "open"
  BY <1>1, CloseFades, EndsOfTunnels
<1>4. /\ held' \in {held, held \ {k}}
      /\ k \in setup /\ link = "up" => k \notin held'
      /\ wrote' \in {wrote, "other"}
  BY <1>1 DEF SetupFailed, Cancel, Sendable
<1>5. HeldTickets'
  BY <1>1, <1>4, EndsOfTunnels DEF IndInv, TypeOK, HeldTickets, TicketsHonoured
<1>6. held' \in SUBSET Tunnels
  BY <1>4 DEF IndInv, TypeOK
<1>7. \A j \in pending : life'[Local(j)] # "closed" /\ bridge'[Local(j)] = None
  BY <1>3, EndsOfTunnels DEF IndInv, TypeOK, RequestsFirst
<1>8. \A j \in Tunnels : life'[Local(j)] = "open" =>
        j \in pending \cup setup' \/ bridge'[Local(j)] # None
  <2>1. k \in setup => life'[Local(k)] # "open"
    BY <1>3, EndsOfTunnels DEF DataTakes
  <2> QED
    BY <1>1, <1>3, <2>1, EndsOfTunnels DEF Fading, IndInv, LocalHeld
<1> QED
  BY <1>1, <1>2, <1>3, <1>4, <1>5, <1>6, <1>7, <1>8, DataKeeps

\* Everything else that happens to the sockets.
LEMMA SocketEventKeeps ==
  ASSUME IndInv, SocketEvent
  PROVE  IndInv'
<1>1. /\ UNCHANGED <<link, over, tail, wrote, ready, pending, phase, waiting, asked, held>>
      /\ held' \in SUBSET Tunnels /\ wrote' \in {wrote, "other"}
      /\ ReadinessInv
  BY DEF SocketEvent, sessionVars, ownVars, IndInv, TypeOK
<1>2. \A j \in pending : /\ j \in Tunnels /\ j \notin setup
                         /\ life[Local(j)] # "closed" /\ bridge[Local(j)] = None
  BY DEF IndInv, TypeOK, RequestsFirst, ReadinessInv, SetupApart
<1>3. ASSUME ReadinessInv', Fading, UNCHANGED <<bridge, connecting, setup>>,
             \A j \in Tunnels : life'[Local(j)] = "closed" => life[Local(j)] = "closed"
      PROVE  IndInv'
  <2>1. HeldTickets'
    BY <1>1, <1>3, HeldKeeps
  <2>2. \A j \in Tunnels : life'[Local(j)] = "open" =>
          j \in pending \cup setup' \/ bridge'[Local(j)] # None
    BY <1>3, EndsOfTunnels DEF Fading, IndInv, LocalHeld
  <2> QED
    BY <1>1, <1>2, <1>3, <2>1, <2>2, DataKeeps
<1>4. ASSUME NEW k \in Tunnels, Ready(k) PROVE IndInv'
  <2>1. ReadinessInv'
    BY <1>1, <1>4, ReadyKeeps
  <2>2. CASE life[Local(k)] = "open"
    <3>1. /\ k \in setup /\ setup' = setup \ {k} /\ Data(k) \notin connecting
          /\ bridge' = Bridged(Data(k), Local(k)) /\ UNCHANGED <<life, connecting>>
      BY <1>4, <2>2 DEF Ready
    <3>2. \A s \in Ends : bridge'[s] = IF s = Data(k) THEN Local(k)
                                       ELSE IF s = Local(k) THEN Data(k) ELSE bridge[s]
      BY <3>1, EndsOfTunnels DEF Bridged, IndInv, ReadinessInv, ReadinessTypeOK, SocketsTypeOK
    <3>3. HeldTickets'
      BY <1>1, <3>1 DEF IndInv, HeldTickets, TicketsHonoured
    <3>4. \A j \in pending : life'[Local(j)] # "closed" /\ bridge'[Local(j)] = None
      BY <1>2, <3>1, <3>2, EndsOfTunnels
    <3>5. \A j \in Tunnels : life'[Local(j)] = "open" =>
            j \in pending \cup setup' \/ bridge'[Local(j)] # None
      BY <3>1, <3>2, EndsOfTunnels, NoneAssumption DEF IndInv, LocalHeld
    <3>6. Fading
      BY <3>1 DEF Fading
    <3> QED
      BY <1>1, <2>1, <3>3, <3>4, <3>5, <3>6, DataKeeps
  <2>3. CASE life[Local(k)] # "open"
    <3>1. life' = Destroyed({Data(k)}) /\ UNCHANGED <<bridge, connecting, setup>>
      BY <1>4, <2>3 DEF Ready
    <3> QED
      BY <1>3, <2>1, <3>1, DestroyFades, EndsOfTunnels
  <2> QED
    BY <2>2, <2>3
<1>5. ASSUME NEW k \in Tunnels, SetupDeadline(k) \/ SetupEnds(k) PROVE IndInv'
  <2>1. ReadinessInv'
    BY <1>1, <1>5, SetupFailKeeps
  <2>2. life' = Destroyed({Data(k)}) /\ UNCHANGED <<bridge, connecting, setup>>
    BY <1>5 DEF SetupDeadline, SetupEnds
  <2> QED
    BY <1>3, <2>1, <2>2, DestroyFades, EndsOfTunnels
<1>6. ASSUME NEW s \in Ends, EndFails(s) \/ EndFinishes(s) PROVE IndInv'
  <2>1. ReadinessInv'
    BY <1>1, <1>6, FailKeeps, FinishKeeps
  <2>2. /\ \A r \in Ends : life'[r] = IF r = s THEN "destroyed" ELSE life[r]
        /\ life[s] = "open" /\ UNCHANGED <<bridge, connecting, setup>>
    BY <1>1, <1>6
    DEF EndFails, EndFinishes, SocketFails, SocketFinishes, ReadinessInv, ReadinessTypeOK,
        SocketsTypeOK
  <2>3. Fading
    BY <2>2 DEF Fading
  <2> QED
    BY <1>3, <2>1, <2>2, <2>3, EndsOfTunnels
<1>7. ASSUME NEW s \in Ends, EndEnds(s) PROVE IndInv'
  <2>1. ReadinessInv' /\ UNCHANGED <<life, bridge, connecting, setup>>
    BY <1>1, <1>7, EndKeeps DEF EndEnds, SocketEnds
  <2>2. Fading
    BY <2>1 DEF Fading
  <2> QED
    BY <1>3, <2>1, <2>2
<1> QED
  BY <1>4, <1>5, <1>6, <1>7 DEF SocketEvent

-----------------------------------------------------------------------------
(* Control messages and the control connection *)

\* A registration: completed, or the agent's readiness; without the agent the waiting
\* local connections are closed.
LEMMA RegistrationKeeps ==
  ASSUME IndInv, NEW r \in BOOLEAN, Registration(r)
  PROVE  IndInv'
<1>1. /\ ready' = r /\ link' \in {"up", "broken"}
      /\ link' = "up" => link \in {"open", "up"}
      /\ wrote = "nothing" => link' # "up"
      /\ UNCHANGED <<over, hadError, readEnded, writeEnded, bridge, connecting, setup, tail,
                     wrote, phase, waiting, asked, held>>
  BY DEF Registration, Handles, Control!Registers, IndInv, TypeOK
<1>2. CASE r
  <2>1. UNCHANGED <<endVars, pending>>
    BY <1>1, <1>2 DEF Registration, endVars
  <2>2. /\ link' \in {"none", "connecting", "open", "up", "lost", "broken"}
        /\ over' \in BOOLEAN /\ tail' \in BOOLEAN
        /\ wrote' \in {"nothing", "registration", "other"}
        /\ wrote' = "nothing" => link' \notin {"open", "up"}
        /\ link' \notin {"none", "connecting", "open", "lost"}
    BY <1>1 DEF IndInv, TypeOK
  <2>3. ready' \in BOOLEAN /\ ready'
    BY <1>1, <1>2
  <2>4. UNCHANGED <<setup, asked, held, phase, waiting>>
    BY <1>1
  <2> QED
    BY <1>1, <2>1, <2>2, <2>3, <2>4, SessionKeeps
<1>3. CASE ~r
  <2>1. ClosePending
    BY <1>3 DEF Registration
  <2>2. TypeOK'
    BY <1>1, <2>1, DestroyedLife
    DEF ClosePending, IndInv, TypeOK, ReadinessTypeOK, SocketsTypeOK
  <2>3. HeldTickets'
    BY <1>1 DEF IndInv, HeldTickets, TicketsHonoured
  <2> QED
    BY <1>1, <2>1, <2>2, <2>3, ClosePendingKeeps
<1> QED
  BY <1>2, <1>3

\* The answer to a request: a set-up begins if its local connection still waits.
LEMMA OpenDataKeeps ==
  ASSUME IndInv, NEW k \in Tunnels, OpenDataConnection(k)
  PROVE  IndInv'
<1>1. /\ link \in {"up", "broken"} /\ k \in asked
      /\ asked' = asked \ {k} /\ pending' = pending \ {k}
      /\ life[Data(k)] = "new"
      /\ UNCHANGED <<hadError, readEnded, writeEnded, bridge, link, over, tail, ready, phase,
                     waiting>>
  BY DEF OpenDataConnection, Handles, IndInv, RequestsFirst
<1>2. CASE k \in pending /\ life[Local(k)] = "open" /\ ~stopping
  <2>1. /\ life' = [life EXCEPT ![Data(k)] = "open"]
        /\ connecting' = connecting \cup {Data(k)}
        /\ setup' = setup \cup {k} /\ held' = held \cup {k} /\ wrote' = wrote
        /\ bridge[Local(k)] = None /\ phase = "open"
    BY <1>2 DEF OpenDataConnection, IndInv, RequestsFirst, stopping
  <2>2. \A s \in Ends : life'[s] = IF s \in {Data(k)} THEN "open" ELSE life[s]
    BY <2>1 DEF IndInv, ReadinessInv, ReadinessTypeOK, SocketsTypeOK
  <2>3. /\ life' \in [Ends -> {"new", "open", "destroyed", "closed"}]
        /\ connecting' \in SUBSET Ends /\ life'[Local(k)] = "open"
    BY <1>2, <2>1, <2>2, EndsOfTunnels
    DEF IndInv, ReadinessInv, ReadinessTypeOK, SocketsTypeOK
  <2>4. ReadinessInv'
    <3> DEFINE O == {Data(k)}
    <3>1. O \in {{Data(k)}, {Data(k), Local(k)}} /\ \A s \in O : life[s] = "new"
      BY <1>1
    <3>2. \A s \in Ends : life'[s] = IF s \in O THEN "open" ELSE life[s]
      BY <2>2
    <3> HIDE DEF O
    <3> QED
      BY <1>1, <2>1, <2>3, <3>1, <3>2, SetupBegins DEF IndInv
  <2>5. TypeOK'
    BY <1>1, <2>1, <2>4 DEF IndInv, TypeOK, ReadinessInv
  <2>6. RequestsFirst' /\ LocalHeld'
    BY <1>1, <1>2, <2>1, <2>2, EndsOfTunnels DEF IndInv, RequestsFirst, LocalHeld
  <2>7. ReadyOnline' /\ WaitsWhileServed'
    <3>1. \A j \in pending' : j \in asked' \/ life'[Local(j)] # "open"
      BY <1>1, <2>2, EndsOfTunnels DEF IndInv, TypeOK, WaitsWhileServed
    <3> QED
      BY <1>1, <3>1 DEF IndInv, ReadyOnline, WaitsWhileServed, stopping
  <2>8. HeldTickets'
    BY <1>1, <2>1 DEF IndInv, HeldTickets, TicketsHonoured
  <2>9. CloseStages'
    BY <1>1, <2>1 DEF CloseStages
  <2> QED
    BY <2>4, <2>5, <2>6, <2>7, <2>8, <2>9 DEF IndInv
<1>3. CASE ~(k \in pending /\ life[Local(k)] = "open" /\ ~stopping)
  <2> DEFINE S == IF k \in pending THEN {Local(k)} ELSE {}
  <2>1. /\ Cancel(held \cup {k}, k) /\ UNCHANGED <<connecting, setup>>
        /\ life' = IF k \in pending THEN Destroyed({Local(k)}) ELSE life
    BY <1>3 DEF OpenDataConnection
  <2>2. life' = Destroyed(S)
    <3>1. k \notin pending => Destroyed({}) = life
      BY DEF Destroyed, IndInv, ReadinessInv, ReadinessTypeOK, SocketsTypeOK
    <3> QED
      BY <2>1, <3>1
  <2>3. \A s \in S : bridge[s] = None
    BY DEF IndInv, RequestsFirst
  <2>4. ReadinessInv'
    BY <1>1, <2>1, <2>2, <2>3, DestroyKeeps DEF IndInv, ReadinessInv, ReadinessTypeOK
  <2>5. /\ held' \in {held, held \cup {k}, held \ {k}}
        /\ link = "up" => held' = held \ {k}
        /\ wrote' \in {wrote, "other"}
    BY <2>1 DEF Cancel, Sendable
  <2>6. TypeOK'
    BY <1>1, <2>4, <2>5 DEF IndInv, TypeOK, ReadinessInv
  <2>7. HeldTickets'
    <3>1. k \notin setup
      BY <1>1 DEF IndInv, ReadinessInv, SetupApart
    <3> QED
      BY <1>1, <2>1, <2>5, <3>1 DEF IndInv, HeldTickets, TicketsHonoured
  <2>8. /\ Fading
        /\ \A s \in Ends : /\ life'[s] = "closed" <=> life[s] = "closed"
                           /\ s \in S => life'[s] # "open"
    BY <2>2, DestroyFades
  <2>9. \A j \in Tunnels : life'[Local(j)] = "open" =>
          j \in pending' \cup setup' \/ bridge'[Local(j)] # None
    BY <1>1, <2>1, <2>8, EndsOfTunnels DEF Fading, IndInv, LocalHeld
  <2>10. \A j \in pending' : /\ bridge'[Local(j)] = None /\ life'[Local(j)] # "closed"
                             /\ j \in asked' \/ life'[Local(j)] # "open"
    BY <1>1, <2>8, EndsOfTunnels DEF Fading, IndInv, TypeOK, RequestsFirst, WaitsWhileServed
  <2>11. pending' # {} => ready' /\ phase' = "open"
    BY <1>1 DEF IndInv, WaitsWhileServed, stopping
  <2> QED
    BY <1>1, <2>4, <2>6, <2>7, <2>8, <2>9, <2>10, <2>11, FadingKeeps
    DEF IndInv, ReadyOnline
<1> QED
  BY <1>2, <1>3

\* A refusal.
LEMMA TunnelErrorKeeps ==
  ASSUME IndInv, NEW k \in Tunnels, TunnelError(k)
  PROVE  IndInv'
<1> DEFINE S == IF k \in pending THEN {Local(k)} ELSE {}
<1>1. /\ asked' = asked \ {k}
      /\ UNCHANGED <<hadError, readEnded, writeEnded, bridge, connecting, setup, link, over,
                     tail, wrote, ready, pending, phase, waiting, held>>
      /\ life' = IF k \in pending THEN Destroyed({Local(k)}) ELSE life
  BY DEF TunnelError, sessionVars
<1>2. life' = Destroyed(S)
  <2>1. k \notin pending => Destroyed({}) = life
    BY DEF Destroyed, IndInv, ReadinessInv, ReadinessTypeOK, SocketsTypeOK
  <2> QED
    BY <1>1, <2>1
<1>3. \A s \in S : bridge[s] = None
  BY DEF IndInv, RequestsFirst
<1>4. ReadinessInv'
  BY <1>1, <1>2, <1>3, DestroyKeeps DEF IndInv, ReadinessInv, ReadinessTypeOK
<1>5. TypeOK'
  BY <1>1, <1>4 DEF IndInv, TypeOK, ReadinessInv
<1>6. HeldTickets'
  BY <1>1, HeldKeeps
<1>7. /\ Fading
      /\ \A s \in Ends : /\ life'[s] = "closed" <=> life[s] = "closed"
                         /\ s \in S => life'[s] # "open"
  BY <1>2, DestroyFades
<1>8. \A j \in Tunnels : life'[Local(j)] = "open" =>
        j \in pending' \cup setup' \/ bridge'[Local(j)] # None
  BY <1>1, <1>7, EndsOfTunnels DEF Fading, IndInv, LocalHeld
<1>9. \A j \in pending' : /\ bridge'[Local(j)] = None /\ life'[Local(j)] # "closed"
                          /\ j \in asked' \/ life'[Local(j)] # "open"
  BY <1>1, <1>7, EndsOfTunnels DEF Fading, IndInv, TypeOK, RequestsFirst, WaitsWhileServed
<1>10. pending' # {} => ready' /\ phase' = "open"
  BY <1>1 DEF IndInv, WaitsWhileServed, stopping
<1> QED
  BY <1>1, <1>4, <1>5, <1>6, <1>7, <1>8, <1>9, <1>10, FadingKeeps DEF IndInv, ReadyOnline

\* Steps of the control connection that the rest does not see.
LEMMA ConnectionKeeps ==
  ASSUME IndInv, ErrorMessage \/ TailEnds \/ Connects \/ TcpUp \/ Breaks \/ RuntimeError
  PROVE  IndInv'
<1>1. CASE ErrorMessage \/ Breaks \/ RuntimeError
  <2>1. /\ link' = Control!Cut \/ link' = link
        /\ over' \in BOOLEAN /\ tail' \in BOOLEAN
        /\ UNCHANGED <<endVars, setup, wrote, ready, pending, phase, waiting, asked, held>>
    BY <1>1
    DEF ErrorMessage, Breaks, RuntimeError, Control!Finishes, Control!Breaks, ownVars, IndInv,
        TypeOK
  <2>2. /\ link' \in {"none", "lost", "broken", link}
        /\ link' \in {"up", "open"} => link' = link
        /\ link' \in {"none", "connecting", "open", "lost"} =>
             link \in {"none", "connecting", "open", "lost"}
        /\ link' = "broken" => link \in {"up", "broken"}
        /\ link \in {"up", "broken"} => link' \in {"up", "broken"}
    BY <2>1 DEF Control!Cut, IndInv, TypeOK
  <2> QED
    BY <2>1, <2>2, SessionKeeps DEF IndInv, TypeOK, ReadyOnline
<1>2. CASE TailEnds
  BY <1>2, SessionKeeps DEF TailEnds, ownVars, IndInv, TypeOK, ReadyOnline
<1>3. CASE Connects
  BY <1>3, SessionKeeps DEF Connects, Control!Connects, ownVars, IndInv, TypeOK, ReadyOnline
<1>4. CASE TcpUp
  BY <1>4, SessionKeeps DEF TcpUp, Control!TcpUp, ownVars, IndInv, TypeOK, ReadyOnline
<1> QED
  BY <1>1, <1>2, <1>3, <1>4

\* 'close' of the control socket: requests and tickets go with it, and the local
\* connections that waited.
LEMMA ClosesKeeps ==
  ASSUME IndInv, Closes
  PROVE  IndInv'
<1>1. /\ link \in {"lost", "broken"} /\ link' = "none" /\ asked' = {} /\ held' = {}
      /\ UNCHANGED <<over, hadError, readEnded, writeEnded, bridge, connecting, setup, tail,
                     wrote, phase, waiting>>
      /\ Sweep
  BY DEF Closes, Control!Closes
<1>2. HeldTickets'
  BY <1>1 DEF HeldTickets, TicketsHonoured
<1>3. CASE link = "broken"
  <2>1. ClosePending /\ ready' = FALSE
    BY <1>1, <1>3 DEF Sweep
  <2>2. TypeOK'
    BY <1>1, <2>1, DestroyedLife
    DEF ClosePending, IndInv, TypeOK, ReadinessTypeOK, SocketsTypeOK
  <2> QED
    BY <1>1, <1>2, <2>1, <2>2, ClosePendingKeeps
<1>4. CASE link = "lost"
  <2>1. UNCHANGED <<ready, life, pending>> /\ ready = FALSE /\ pending = {}
    BY <1>1, <1>4 DEF Sweep, IndInv, TypeOK, ReadyOnline, WaitsWhileServed
  <2>2. ReadinessInv'
    BY <1>1, <2>1
    DEF IndInv, ReadinessInv, ReadinessTypeOK, SocketsTypeOK, EndsFresh, JoinedPairs,
        SetupApart, DataHeld, HalvesForwarded
  <2>3. TypeOK' /\ Fading
    BY <1>1, <2>1, <2>2 DEF IndInv, TypeOK, ReadinessInv, Fading
  <2> QED
    BY <1>1, <1>2, <2>1, <2>2, <2>3, FadingKeeps DEF IndInv, LocalHeld
<1> QED
  BY <1>1, <1>3, <1>4

-----------------------------------------------------------------------------
(* close() *)

LEMMA CloseKeepsIndInv ==
  ASSUME IndInv, Close
  PROVE  IndInv'
<1>1. /\ ClosePending /\ phase' = "draining"
      /\ UNCHANGED <<hadError, readEnded, writeEnded, bridge, connecting, setup, link, over,
                     tail, wrote, ready, waiting, asked, held>>
  BY DEF Close, sessionVars
<1>2. TypeOK'
  BY <1>1, DestroyedLife DEF ClosePending, IndInv, TypeOK, ReadinessTypeOK, SocketsTypeOK
<1>3. HeldTickets'
  BY <1>1, HeldKeeps
<1> QED
  BY <1>1, <1>2, <1>3, ClosePendingKeeps DEF IndInv, ReadyOnline

LEMMA EndDrainKeeps ==
  ASSUME IndInv, EndDrain
  PROVE  IndInv'
<1>1. /\ phase = "draining" /\ phase' = "destroying"
      /\ waiting' = Remaining /\ life' = Destroyed(Remaining)
      /\ UNCHANGED <<hadError, readEnded, writeEnded, bridge, connecting, setup, link, over,
                     tail, wrote, ready, pending, asked, held>>
  BY DEF EndDrain, sessionVars
<1>2. Remaining = {s \in Ends : life[s] \in {"open", "destroyed"}}
  BY EndsOfTunnels DEF Remaining, localConnections, dataConnections
<1>3. /\ \A s \in Ends : /\ life'[s] # "open"
                         /\ life'[s] = "destroyed" => s \in Remaining
                         /\ life'[s] = "new" <=> life[s] = "new"
                         /\ life'[s] = "closed" <=> life[s] = "closed"
  BY <1>1, <1>2, DestroyedLife DEF IndInv, ReadinessInv
<1>4. ReadinessInv'
  <2>1. \A s \in Ends : s \in Remaining => bridge[s] = None \/ life'[bridge[s]] # "open"
    BY <1>3 DEF IndInv, ReadinessInv, JoinedPairs
  <2> QED
    BY <1>1, <2>1, DestroyKeeps DEF IndInv, ReadinessInv, ReadinessTypeOK
<1>5. TypeOK'
  BY <1>1, <1>2, <1>4 DEF IndInv, TypeOK, ReadinessInv
<1>6. pending = {}
  BY <1>1 DEF IndInv, WaitsWhileServed, stopping
<1>7. RequestsFirst' /\ LocalHeld' /\ CloseStages'
  BY <1>1, <1>3, <1>6, EndsOfTunnels DEF IndInv, RequestsFirst, LocalHeld, CloseStages
<1>8. ReadyOnline' /\ WaitsWhileServed' /\ HeldTickets'
  BY <1>1, <1>6, HeldKeeps DEF IndInv, ReadyOnline, WaitsWhileServed
<1> QED
  BY <1>4, <1>5, <1>7, <1>8 DEF IndInv

LEMMA SessionClosesKeep ==
  ASSUME IndInv, CloseSession \/ FinishClose
  PROVE  IndInv'
<1>1. /\ phase \in {"destroying", "session"} /\ phase' \in {"session", "closed"}
      /\ phase = "destroying" => \A s \in waiting : life[s] = "closed"
      /\ over' \in BOOLEAN /\ (link' = Control!Cut \/ link' = link)
      /\ UNCHANGED <<endVars, setup, tail, wrote, ready, pending, waiting, asked, held>>
  BY DEF CloseSession, FinishClose, sessionVars, IndInv, TypeOK
<1>2. /\ link' \in {"none", "lost", "broken", link}
      /\ link' \in {"up", "open"} => link' = link
      /\ link' = "broken" => link \in {"up", "broken"}
      /\ link \in {"up", "broken"} => link' \in {"up", "broken"}
  BY <1>1 DEF Control!Cut, IndInv, TypeOK
<1>3. UNCHANGED <<life, hadError, readEnded, writeEnded, bridge, connecting>>
  BY <1>1 DEF endVars
<1>4. ReadinessInv'
  BY <1>1, <1>3
  DEF IndInv, ReadinessInv, ReadinessTypeOK, SocketsTypeOK, EndsFresh, JoinedPairs, SetupApart,
      DataHeld, HalvesForwarded
<1>5. TypeOK'
  BY <1>1, <1>2, <1>4 DEF IndInv, TypeOK, ReadinessInv
<1>6. pending = {}
  BY <1>1 DEF IndInv, WaitsWhileServed, stopping
<1>7. RequestsFirst' /\ LocalHeld' /\ HeldTickets'
  <2>1. link' \in {"none", "connecting", "open", "lost"} => held = {}
    BY <1>2 DEF IndInv, TypeOK, HeldTickets
  <2> QED
    BY <1>1, <1>2, <1>3, <2>1
    DEF IndInv, RequestsFirst, LocalHeld, HeldTickets, TicketsHonoured
<1>8. ReadyOnline' /\ WaitsWhileServed'
  BY <1>1, <1>2, <1>6 DEF IndInv, ReadyOnline, WaitsWhileServed
<1>9. CloseStages'
  <2>1. \A s \in Ends : life[s] \notin {"open", "destroyed"}
    BY <1>1 DEF IndInv, CloseStages
  <2> QED
    BY <1>1, <1>3, <2>1 DEF CloseStages
<1> QED
  BY <1>4, <1>5, <1>7, <1>8, <1>9 DEF IndInv

-----------------------------------------------------------------------------

\* Every step preserves the invariant.
LEMMA NextIndInv == IndInv /\ [Next]_vars => IndInv'
<1> SUFFICES ASSUME IndInv, [Next]_vars PROVE IndInv'
  OBVIOUS
<1>1. ASSUME NEW k \in Tunnels, \/ HandleLocalSocket(k) \/ PendingTimeout(k) \/ LocalClose(k)
                                \/ DataConnected(k) \/ DataClose(k)
      PROVE  IndInv'
  BY <1>1, HandleLocalKeeps, PendingTimeoutKeeps, LocalClosedKeeps, DataConnectedKeeps,
     DataClosedKeeps
<1>2. CASE SocketEvent
  BY <1>2, SocketEventKeeps
<1>3. ASSUME NEW r \in BOOLEAN, Registration(r) PROVE IndInv'
  BY <1>3, RegistrationKeeps
<1>4. ASSUME NEW k \in Tunnels, OpenDataConnection(k) \/ TunnelError(k) PROVE IndInv'
  BY <1>4, OpenDataKeeps, TunnelErrorKeeps
<1>5. CASE ErrorMessage \/ TailEnds \/ Connects \/ TcpUp \/ Breaks \/ RuntimeError
  BY <1>5, ConnectionKeeps
<1>6. CASE Closes
  BY <1>6, ClosesKeeps
<1>7. CASE Close \/ EndDrain \/ CloseSession \/ FinishClose
  BY <1>7, CloseKeepsIndInv, EndDrainKeeps, SessionClosesKeep
<1>8. CASE UNCHANGED vars
  BY <1>8, SessionKeeps DEF vars, sessionVars, ownVars, IndInv, TypeOK, ReadyOnline
<1> QED
  BY <1>1, <1>2, <1>3, <1>4, <1>5, <1>6, <1>7, <1>8 DEF Next, Message

-----------------------------------------------------------------------------
(* Theorems *)

\* The inductive invariant.
THEOREM Invariant == Spec => []IndInv
  BY InitIndInv, NextIndInv, PTL DEF Spec

\* Every variable keeps its type.
THEOREM TypeCorrect == Spec => []TypeOK
<1>1. IndInv => TypeOK
  BY DEF IndInv
<1> QED
  BY <1>1, Invariant, PTL

\* A local connection waits for a ticket only while the client serves.
THEOREM WaitingIsServed == Spec => []WaitsWhileServed
<1>1. IndInv => WaitsWhileServed
  BY DEF IndInv
<1> QED
  BY <1>1, Invariant, PTL

\* Each half of a tunnel has somebody who ends it, and a closed client has none.
THEOREM NobodyIsStranded == Spec => []NobodyStranded
<1>1. IndInv => NobodyStranded
  <2> SUFFICES ASSUME IndInv PROVE NobodyStranded
    OBVIOUS
  <2>1. phase \in {"session", "closed"} => localConnections \cup dataConnections = {}
    BY EndsOfTunnels DEF IndInv, CloseStages, localConnections, dataConnections
  <2> QED
    BY <2>1, InvIsSound DEF IndInv, LocalHeld, NobodyStranded
<1> QED
  BY <1>1, Invariant, PTL

\* A ticket is presented, about to be, or given back.
THEOREM TicketsAreHonoured == Spec => []TicketsHonoured
<1>1. IndInv => TicketsHonoured
  BY DEF IndInv, HeldTickets
<1> QED
  BY <1>1, Invariant, PTL
=============================================================================
