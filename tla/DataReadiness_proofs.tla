------------------------- MODULE DataReadiness_proofs -------------------------
(***************************************************************************)
(* What the parts of DataReadiness preserve, for every set of tunnels.     *)
(* The proofs about Client and Agent rest on these lemmas.                 *)
(***************************************************************************)
EXTENDS DataReadiness, TLAPS

\* The two sockets of a tunnel, and no others.
LEMMA EndsOfTunnels ==
  /\ \A k \in Tunnels : Data(k) \in Ends /\ Local(k) \in Ends /\ Data(k) # Local(k)
  /\ \A j, k \in Tunnels : /\ Data(j) # Local(k)
                           /\ Data(j) = Data(k) => j = k
                           /\ Local(j) = Local(k) => j = k
  /\ \A s \in Ends : \E k \in Tunnels : s = Data(k) \/ s = Local(k)
  BY DEF Ends, Data, Local

\* What destroying sockets does to each of them.
LEMMA DestroyedLife ==
  ASSUME ReadinessTypeOK, NEW S
  PROVE  /\ Destroyed(S) \in [Ends -> {"new", "open", "destroyed", "closed"}]
         /\ \A s \in Ends : Destroyed(S)[s] =
              IF s \in S /\ life[s] = "open" THEN "destroyed" ELSE life[s]
  BY DEF ReadinessTypeOK, SocketsTypeOK, Destroyed

\* The initial state.
LEMMA ReadinessStarts == ReadinessInit => ReadinessInv
<1> SUFFICES ASSUME ReadinessInit PROVE ReadinessInv
  OBVIOUS
<1>1. ReadinessTypeOK
  BY DEF ReadinessInit, SocketsInit, ReadinessTypeOK, SocketsTypeOK
<1>2. EndsFresh /\ JoinedPairs /\ HalvesForwarded
  BY DEF ReadinessInit, SocketsInit, EndsFresh, JoinedPairs, HalvesForwarded
<1>3. SetupApart /\ DataHeld
  BY EndsOfTunnels DEF ReadinessInit, SocketsInit, SetupApart, DataHeld
<1> QED
  BY <1>1, <1>2, <1>3 DEF ReadinessInv

-----------------------------------------------------------------------------
(* Sockets appear and are destroyed *)

\* destroy(): sound for a socket that is not joined, and for joined ones that go
\* together.
LEMMA DestroyKeeps ==
  ASSUME ReadinessInv, NEW S, life' = Destroyed(S),
         \A s \in Ends : s \in S => bridge[s] = None \/ life'[bridge[s]] # "open",
         connecting' \in SUBSET Ends,
         UNCHANGED <<hadError, readEnded, writeEnded, bridge, setup>>
  PROVE  ReadinessInv'
<1>1. \A s \in Ends : life'[s] = IF s \in S /\ life[s] = "open" THEN "destroyed" ELSE life[s]
  BY DestroyedLife DEF ReadinessInv
<1>2. ReadinessTypeOK'
  BY DestroyedLife DEF ReadinessInv, ReadinessTypeOK, SocketsTypeOK
<1>3. EndsFresh' /\ JoinedPairs'
  BY <1>1, EndsOfTunnels DEF ReadinessInv, EndsFresh, JoinedPairs
<1>4. SetupApart' /\ DataHeld'
  BY <1>1, EndsOfTunnels DEF ReadinessInv, ReadinessTypeOK, SetupApart, DataHeld
<1>5. HalvesForwarded'
  BY <1>1 DEF ReadinessInv, JoinedPairs, HalvesForwarded
<1> QED
  BY <1>2, <1>3, <1>4, <1>5 DEF ReadinessInv

\* A new local socket, perhaps destroyed on the spot.
LEMMA LocalAppears ==
  ASSUME ReadinessInv, NEW k \in Tunnels, life[Local(k)] = "new",
         NEW l \in {"open", "destroyed"}, life' = [life EXCEPT ![Local(k)] = l],
         UNCHANGED <<hadError, readEnded, writeEnded, bridge, connecting, setup>>
  PROVE  ReadinessInv'
<1>1. \A s \in Ends : life'[s] = IF s = Local(k) THEN l ELSE life[s]
  BY EndsOfTunnels DEF ReadinessInv, ReadinessTypeOK, SocketsTypeOK
<1>2. bridge[Local(k)] = None
  BY EndsOfTunnels DEF ReadinessInv, EndsFresh
<1>3. ReadinessTypeOK'
  BY DEF ReadinessInv, ReadinessTypeOK, SocketsTypeOK
<1>4. EndsFresh' /\ JoinedPairs'
  BY <1>1, <1>2, EndsOfTunnels DEF ReadinessInv, EndsFresh, JoinedPairs
<1>5. SetupApart' /\ DataHeld'
  BY <1>1, EndsOfTunnels DEF ReadinessInv, ReadinessTypeOK, SetupApart, DataHeld
<1>6. HalvesForwarded'
  BY <1>1, <1>2, NoneAssumption DEF ReadinessInv, JoinedPairs, HalvesForwarded
<1> QED
  BY <1>3, <1>4, <1>5, <1>6 DEF ReadinessInv

\* bridgeWhenReady: a new data socket meets its local socket, which may be new as well.
LEMMA SetupBegins ==
  ASSUME ReadinessInv, NEW k \in Tunnels, NEW O \in {{Data(k)}, {Data(k), Local(k)}},
         \A s \in O : life[s] = "new", bridge[Local(k)] = None,
         life' \in [Ends -> {"new", "open", "destroyed", "closed"}],
         \A s \in Ends : life'[s] = IF s \in O THEN "open" ELSE life[s],
         life'[Local(k)] = "open",
         setup' = setup \cup {k}, connecting' \in SUBSET Ends,
         UNCHANGED <<hadError, readEnded, writeEnded, bridge>>
  PROVE  ReadinessInv'
<1>1. /\ O \subseteq Ends /\ O \subseteq {Data(k), Local(k)} /\ Data(k) \in O
      /\ \A s \in O : bridge[s] = None
  BY EndsOfTunnels DEF ReadinessInv, EndsFresh
<1>2. ReadinessTypeOK'
  BY DEF ReadinessInv, ReadinessTypeOK, SocketsTypeOK
<1>3. EndsFresh' /\ JoinedPairs'
  BY <1>1, EndsOfTunnels DEF ReadinessInv, EndsFresh, JoinedPairs
<1>4. SetupApart' /\ DataHeld'
  BY <1>1, EndsOfTunnels DEF ReadinessInv, ReadinessTypeOK, SetupApart, DataHeld
<1>5. HalvesForwarded'
  <2>1. \A s \in Ends : bridge[s] # None =>
          life'[s] = life[s] /\ life'[bridge[s]] = life[bridge[s]]
    BY <1>1, NoneAssumption DEF ReadinessInv, JoinedPairs
  <2> QED
    BY <2>1 DEF ReadinessInv, HalvesForwarded
<1> QED
  BY <1>2, <1>3, <1>4, <1>5 DEF ReadinessInv

-----------------------------------------------------------------------------
(* Events *)

\* The ready frame: the two open sockets are joined; an 'end' of the local one goes on
\* to the data socket.
LEMMA ReadyKeeps ==
  ASSUME ReadinessInv, NEW k \in Tunnels, Ready(k)
  PROVE  ReadinessInv'
<1>1. CASE life[Local(k)] = "open"
  <2>1. /\ life[Data(k)] = "open" /\ k \in setup /\ setup' = setup \ {k}
        /\ bridge[Data(k)] = None /\ bridge[Local(k)] = None
        /\ bridge' = Bridged(Data(k), Local(k))
        /\ writeEnded' = writeEnded \cup Forwarded(Data(k), Local(k))
        /\ UNCHANGED <<life, hadError, readEnded, connecting>>
    BY <1>1 DEF Ready, ReadinessInv, SetupApart
  <2>2. \A s \in Ends : bridge'[s] = IF s = Data(k) THEN Local(k)
                                     ELSE IF s = Local(k) THEN Data(k) ELSE bridge[s]
    BY <2>1, EndsOfTunnels DEF Bridged, ReadinessInv, ReadinessTypeOK, SocketsTypeOK
  <2>3. /\ {Data(k), Local(k)} \cap (hadError \cup writeEnded) = {}
        /\ Data(k) \notin readEnded
    BY <1>1, <2>1, EndsOfTunnels DEF ReadinessInv, EndsFresh
  <2>4. writeEnded' = writeEnded \cup (IF Local(k) \in readEnded THEN {Data(k)} ELSE {})
    BY <2>1, <2>3, EndsOfTunnels DEF Forwarded
  <2>5. ReadinessTypeOK'
    BY <2>1, <2>4, EndsOfTunnels DEF Bridged, ReadinessInv, ReadinessTypeOK, SocketsTypeOK
  <2>6. EndsFresh'
    BY <1>1, <2>1, <2>2, <2>4, EndsOfTunnels, NoneAssumption DEF ReadinessInv, EndsFresh
  <2>7. JoinedPairs'
    BY <2>1, <2>2, EndsOfTunnels, NoneAssumption DEF ReadinessInv, JoinedPairs
  <2>8. SetupApart' /\ DataHeld'
    BY <2>1, <2>2, EndsOfTunnels, NoneAssumption
    DEF ReadinessInv, ReadinessTypeOK, SetupApart, DataHeld
  <2>9. HalvesForwarded'
    BY <1>1, <2>1, <2>2, <2>3, <2>4, EndsOfTunnels DEF ReadinessInv, JoinedPairs, HalvesForwarded
  <2> QED
    BY <2>5, <2>6, <2>7, <2>8, <2>9 DEF ReadinessInv
<1>2. CASE life[Local(k)] # "open"
  BY <1>2, DestroyKeeps DEF Ready, ReadinessInv, ReadinessTypeOK, SetupApart
<1> QED
  BY <1>1, <1>2

\* The deadline of a set-up, and the early end of its data socket.
LEMMA SetupFailKeeps ==
  ASSUME ReadinessInv, NEW k \in Tunnels, SetupDeadline(k) \/ SetupEnds(k)
  PROVE  ReadinessInv'
<1>1. /\ k \in setup /\ bridge[Data(k)] = None
      /\ life' = Destroyed({Data(k)})
      /\ readEnded' \in {readEnded, readEnded \cup {Data(k)}}
      /\ UNCHANGED <<hadError, writeEnded, bridge, connecting, setup>>
  BY DEF SetupDeadline, SetupEnds, ReadinessInv, SetupApart
<1>2. \A s \in Ends : life'[s] =
        IF s = Data(k) /\ life[s] = "open" THEN "destroyed" ELSE life[s]
  BY <1>1, DestroyedLife DEF ReadinessInv
<1>3. life'[Data(k)] \notin {"new", "open"}
  BY <1>2, EndsOfTunnels DEF SetupDeadline, SetupEnds
<1>4. ReadinessTypeOK'
  BY <1>1, DestroyedLife, EndsOfTunnels DEF ReadinessInv, ReadinessTypeOK, SocketsTypeOK
<1>5. EndsFresh' /\ JoinedPairs'
  BY <1>1, <1>2, <1>3, EndsOfTunnels DEF ReadinessInv, EndsFresh, JoinedPairs
<1>6. SetupApart' /\ DataHeld'
  BY <1>1, <1>2, EndsOfTunnels DEF ReadinessInv, ReadinessTypeOK, SetupApart, DataHeld
<1>7. HalvesForwarded'
  BY <1>1, <1>2, NoneAssumption DEF ReadinessInv, JoinedPairs, HalvesForwarded
<1> QED
  BY <1>4, <1>5, <1>6, <1>7 DEF ReadinessInv

\* A network error.
LEMMA FailKeeps ==
  ASSUME ReadinessInv, NEW s \in Ends, EndFails(s)
  PROVE  ReadinessInv'
<1>1. /\ life[s] = "open"
      /\ \A r \in Ends : life'[r] = IF r = s THEN "destroyed" ELSE life[r]
      /\ hadError' = hadError \cup {s}
      /\ UNCHANGED <<readEnded, writeEnded, bridge, connecting, setup>>
  BY DEF EndFails, SocketFails, ReadinessInv, ReadinessTypeOK, SocketsTypeOK
<1>2. ReadinessTypeOK'
  BY DEF EndFails, SocketFails, ReadinessInv, ReadinessTypeOK, SocketsTypeOK
<1>3. EndsFresh' /\ JoinedPairs'
  BY <1>1, EndsOfTunnels DEF ReadinessInv, EndsFresh, JoinedPairs
<1>4. SetupApart' /\ DataHeld'
  BY <1>1, EndsOfTunnels DEF ReadinessInv, ReadinessTypeOK, SetupApart, DataHeld
<1>5. HalvesForwarded'
  BY <1>1 DEF ReadinessInv, JoinedPairs, HalvesForwarded
<1> QED
  BY <1>2, <1>3, <1>4, <1>5 DEF ReadinessInv

\* The end of a joined socket is forwarded to its peer.
LEMMA EndKeeps ==
  ASSUME ReadinessInv, NEW s \in Ends, EndEnds(s)
  PROVE  ReadinessInv'
<1>1. /\ life[s] = "open" /\ bridge[s] # None
      /\ readEnded' = readEnded \cup {s}
      /\ writeEnded' = writeEnded \cup {p \in Ends : p = bridge[s] /\ life[p] = "open"}
      /\ UNCHANGED <<life, hadError, bridge, connecting, setup>>
  BY DEF EndEnds, SocketEnds
<1>2. bridge[s] \in Ends /\ bridge[s] # s /\ bridge[bridge[s]] = s
  BY <1>1 DEF ReadinessInv, JoinedPairs
<1>3. ReadinessTypeOK'
  BY <1>1 DEF ReadinessInv, ReadinessTypeOK, SocketsTypeOK
<1>4. EndsFresh' /\ JoinedPairs'
  BY <1>1, <1>2, NoneAssumption DEF ReadinessInv, EndsFresh, JoinedPairs
<1>5. SetupApart' /\ DataHeld'
  BY <1>1 DEF ReadinessInv, SetupApart, DataHeld
<1>6. HalvesForwarded'
  BY <1>1, <1>2 DEF ReadinessInv, JoinedPairs, HalvesForwarded
<1> QED
  BY <1>3, <1>4, <1>5, <1>6 DEF ReadinessInv

\* The end of a local socket that is not joined yet.
LEMMA EarlyEndKeeps ==
  ASSUME ReadinessInv, NEW k \in Tunnels, LocalEndsEarly(k)
  PROVE  ReadinessInv' /\ UNCHANGED <<life, bridge, connecting, setup>>
<1>1. /\ k \in setup /\ readEnded' = readEnded \cup {Local(k)}
      /\ writeEnded' = writeEnded \cup {p \in Ends : p = bridge[Local(k)] /\ life[p] = "open"}
      /\ UNCHANGED <<life, hadError, bridge, connecting, setup>>
  BY DEF LocalEndsEarly, SocketEnds
<1>2. bridge[Local(k)] = None /\ writeEnded' = writeEnded
  BY <1>1, NoneAssumption DEF ReadinessInv, SetupApart
<1>3. ReadinessTypeOK'
  BY <1>1, <1>2, EndsOfTunnels DEF ReadinessInv, ReadinessTypeOK, SocketsTypeOK
<1>4. EndsFresh' /\ JoinedPairs'
  BY <1>1, <1>2, EndsOfTunnels DEF ReadinessInv, EndsFresh, JoinedPairs
<1>5. SetupApart' /\ DataHeld'
  BY <1>1 DEF ReadinessInv, SetupApart, DataHeld
<1>6. HalvesForwarded'
  BY <1>1, <1>2 DEF ReadinessInv, HalvesForwarded
<1> QED
  BY <1>1, <1>3, <1>4, <1>5, <1>6 DEF ReadinessInv

\* A socket that has ended both ways destroys itself; its peer has ended both ways too.
LEMMA FinishKeeps ==
  ASSUME ReadinessInv, NEW s \in Ends, EndFinishes(s)
  PROVE  ReadinessInv'
<1>1. /\ life[s] = "open" /\ s \in readEnded /\ s \in writeEnded
      /\ \A r \in Ends : life'[r] = IF r = s THEN "destroyed" ELSE life[r]
      /\ UNCHANGED <<hadError, readEnded, writeEnded, bridge, connecting, setup>>
  BY DEF EndFinishes, SocketFinishes, ReadinessInv, ReadinessTypeOK, SocketsTypeOK
<1>2. ReadinessTypeOK'
  BY DEF EndFinishes, SocketFinishes, ReadinessInv, ReadinessTypeOK, SocketsTypeOK
<1>3. EndsFresh' /\ JoinedPairs'
  BY <1>1, EndsOfTunnels DEF ReadinessInv, EndsFresh, JoinedPairs
<1>4. SetupApart' /\ DataHeld'
  BY <1>1, EndsOfTunnels DEF ReadinessInv, ReadinessTypeOK, SetupApart, DataHeld
<1>5. HalvesForwarded'
  BY <1>1 DEF ReadinessInv, JoinedPairs, HalvesForwarded
<1> QED
  BY <1>2, <1>3, <1>4, <1>5 DEF ReadinessInv

\* The 'close' of a socket that takes T with it, of a set-up that ends or stays: the
\* failed one destroys its peer, the clean one leaves a peer that has ended both ways.
LEMMA CloseKeeps ==
  ASSUME ReadinessInv, NEW s \in Ends, NEW T \in SUBSET Ends, SocketCloses(s, T),
         \A t \in T : bridge[t] = None, s \notin T,
         setup' \in SUBSET setup,
         \A k \in setup' : /\ s # Data(k)
                           /\ s = Local(k) => Data(k) \in T,
         \A k \in setup : k \notin setup' => s = Data(k),
         connecting' \in SUBSET Ends
  PROVE  ReadinessInv'
<1>1. /\ life[s] = "destroyed"
      /\ UNCHANGED <<hadError, readEnded, bridge>>
      /\ writeEnded' = writeEnded \cup PeerToEnd(s)
  BY DEF SocketCloses
<1>2. \A r \in Ends : life'[r] =
        IF r = s THEN "closed"
        ELSE IF r \in T \cup PeerToDestroy(s) /\ life[r] = "open" THEN "destroyed"
        ELSE life[r]
  BY DestroyedLife DEF SocketCloses, ReadinessInv
<1>3. /\ life' \in [Ends -> {"new", "open", "destroyed", "closed"}]
      /\ PeerToEnd(s) \subseteq Ends
  BY DestroyedLife DEF SocketCloses, ReadinessInv, PeerToEnd
<1>4. PeerToEnd(s) \subseteq writeEnded
  <2> SUFFICES ASSUME NEW p \in Ends, p = bridge[s], s \notin hadError, life[p] = "open"
               PROVE  p \in writeEnded
    BY DEF PeerToEnd
  <2>1. bridge[s] # None
    BY NoneAssumption
  <2> QED
    BY <1>1, <2>1 DEF ReadinessInv, HalvesForwarded
<1>5. writeEnded' = writeEnded
  BY <1>1, <1>4
<1>6. ReadinessTypeOK'
  BY <1>1, <1>3, <1>5 DEF ReadinessInv, ReadinessTypeOK, SocketsTypeOK
<1>7. EndsFresh' /\ JoinedPairs'
  BY <1>1, <1>2, <1>5, EndsOfTunnels DEF ReadinessInv, EndsFresh, JoinedPairs
<1>8. SetupApart'
  BY <1>1, <1>2, EndsOfTunnels DEF ReadinessInv, ReadinessTypeOK, SetupApart
<1>9. DataHeld'
  BY <1>1, <1>2, EndsOfTunnels DEF ReadinessInv, DataHeld
<1>10. HalvesForwarded'
  <2>1. \A r \in Ends : bridge[r] # None /\ life[r] = "open" /\ life'[r] # "open" =>
          r = bridge[s] /\ s \in hadError
    BY <1>1, <1>2 DEF PeerToDestroy
  <2>2. bridge[s] # None /\ s \in hadError => life'[bridge[s]] # "open"
    BY <1>1, <1>2 DEF PeerToDestroy, ReadinessInv, JoinedPairs
  <2>3. \A r \in Ends : life[r] # "open" => life'[r] # "open"
    BY <1>2
  <2>4. \A r \in Ends : r # s /\ life'[r] = "closed" => life[r] = "closed"
    BY <1>2
  <2>5. \A r \in Ends : life'[r] = "destroyed" => life[r] \in {"open", "destroyed"}
    BY <1>2
  <2> SUFFICES ASSUME NEW r \in Ends, bridge[r] # None
               PROVE  LET p == bridge[r]
                      IN  /\ r \in readEnded => p \in writeEnded \/ life'[p] # "open"
                          /\ r \in writeEnded => p \in readEnded
                          /\ life'[r] \in {"destroyed", "closed"} /\ r \notin hadError =>
                               life'[p] # "open" \/ p \in readEnded \cap writeEnded
                          /\ life'[r] = "closed" /\ r \in hadError => life'[p] # "open"
    BY <1>1, <1>5 DEF HalvesForwarded
  <2> DEFINE p == bridge[r]
  <2>6. /\ p \in Ends /\ p # r /\ bridge[p] = r
        /\ r \in readEnded => p \in writeEnded \/ life[p] # "open"
        /\ r \in writeEnded => p \in readEnded
        /\ life[r] \in {"destroyed", "closed"} /\ r \notin hadError =>
             life[p] # "open" \/ p \in readEnded \cap writeEnded
        /\ life[r] = "closed" /\ r \in hadError => life[p] # "open"
    BY DEF ReadinessInv, JoinedPairs, HalvesForwarded
  <2>7. life'[r] \in {"destroyed", "closed"} /\ r \notin hadError =>
          life'[p] # "open" \/ p \in readEnded \cap writeEnded
    <3>1. CASE r = s
      BY <1>1, <2>3, <2>6, <3>1
    <3>2. CASE r # s /\ life[r] = "open"
      <4>1. life'[r] # "open" => p = s /\ life'[s] = "closed"
        BY <1>2, <2>1, <2>6, <3>2, NoneAssumption DEF ReadinessInv, JoinedPairs
      <4> QED
        BY <2>6, <4>1
    <3>3. CASE r # s /\ life[r] # "open"
      BY <1>2, <2>3, <2>4, <2>5, <2>6, <3>3
    <3> QED
      BY <3>1, <3>2, <3>3
  <2>8. life'[r] = "closed" /\ r \in hadError => life'[p] # "open"
    BY <2>2, <2>3, <2>4, <2>6
  <2> QED
    BY <2>3, <2>6, <2>7, <2>8
<1> QED
  BY <1>6, <1>7, <1>8, <1>9, <1>10 DEF ReadinessInv

\* 'close' of the data socket of a tunnel, in its set-up or after it.
LEMMA DataCloseKeeps ==
  ASSUME ReadinessInv, NEW k \in Tunnels, DataCloses(k)
  PROVE  ReadinessInv'
<1>1. DataTakes(k) \in SUBSET Ends /\ Data(k) \notin DataTakes(k)
  BY EndsOfTunnels DEF DataTakes
<1>2. \A t \in DataTakes(k) : bridge[t] = None
  BY DEF DataTakes, ReadinessInv, SetupApart
<1>3. /\ setup' = setup \ {k} /\ SocketCloses(Data(k), DataTakes(k))
      /\ connecting' \in SUBSET Ends
  BY DEF DataCloses, ReadinessInv, ReadinessTypeOK
<1>4. \A j \in setup' : Data(k) # Data(j) /\ Data(k) # Local(j)
  BY <1>3, EndsOfTunnels DEF ReadinessInv, ReadinessTypeOK
<1> QED
  BY <1>1, <1>2, <1>3, <1>4, EndsOfTunnels, CloseKeeps

\* 'close' of the local socket.
LEMMA LocalCloseKeeps ==
  ASSUME ReadinessInv, NEW k \in Tunnels, LocalCloses(k)
  PROVE  ReadinessInv'
<1>1. LocalTakes(k) \in SUBSET Ends /\ Local(k) \notin LocalTakes(k)
  BY EndsOfTunnels DEF LocalTakes
<1>2. \A t \in LocalTakes(k) : bridge[t] = None
  BY DEF LocalTakes, ReadinessInv, SetupApart
<1>3. /\ setup' = setup /\ SocketCloses(Local(k), LocalTakes(k))
      /\ connecting' \in SUBSET Ends
  BY DEF LocalCloses, ReadinessInv, ReadinessTypeOK
<1>4. \A j \in setup' : /\ Local(k) # Data(j)
                        /\ Local(k) = Local(j) => Data(j) \in LocalTakes(k)
  BY <1>3, EndsOfTunnels DEF ReadinessInv, ReadinessTypeOK, LocalTakes
<1> QED
  BY <1>1, <1>2, <1>3, <1>4, EndsOfTunnels, CloseKeeps

-----------------------------------------------------------------------------

\* What joined and joining sockets owe each other follows.
LEMMA InvIsSound == ReadinessInv => SetupSound
<1> SUFFICES ASSUME ReadinessInv, NEW k \in Tunnels
             PROVE  /\ life[Data(k)] = "open" => k \in setup \/ bridge[Data(k)] # None
                    /\ k \in setup => /\ bridge[Data(k)] = None /\ bridge[Local(k)] = None
                                      /\ life[Data(k)] \in {"open", "destroyed"}
                                      /\ life[Local(k)] = "closed" =>
                                           life[Data(k)] = "destroyed"
                    /\ \A s \in {Data(k), Local(k)} :
                         bridge[s] # None /\ life[s] = "open" /\ life[bridge[s]] = "closed"
                           => s \in readEnded \cap writeEnded
  BY DEF SetupSound
<1>1. \A s \in Ends :
        bridge[s] # None /\ life[s] = "open" /\ life[bridge[s]] = "closed"
          => s \in readEnded \cap writeEnded
  BY NoneAssumption DEF ReadinessInv, JoinedPairs, HalvesForwarded
<1> QED
  BY <1>1, EndsOfTunnels DEF ReadinessInv, SetupApart, DataHeld
=============================================================================
