---------------------------- MODULE DataReadiness ----------------------------
(***************************************************************************)
(* The hand-over of a data connection to its local socket                  *)
(* (src/data-readiness.js): until the relay's ready frame arrives the data *)
(* socket is under a deadline, and whatever goes wrong on one of the two   *)
(* ends the other; with the frame they are joined (SocketBridge).  The     *)
(* deadline and the four listeners exist exactly while the tunnel is in    *)
(* `setup`.  Client and Agent build their handlers from these parts.       *)
(***************************************************************************)
CONSTANTS
  Tunnels,     \* one per ticket the application opens a data connection for
  None

Ends == {"data", "local"} \X Tunnels

ASSUME NoneAssumption == None \notin Ends

Data(k) == <<"data", k>>
Local(k) == <<"local", k>>

VARIABLES
  life, hadError, readEnded, writeEnded, bridge,
  connecting,  \* sockets created and not connected yet
  setup        \* tunnels between bridgeWhenReady and its outcome

INSTANCE SocketBridge WITH Sockets <- Ends

endVars == <<life, hadError, readEnded, writeEnded, bridge, connecting>>

ReadinessTypeOK ==
  /\ SocketsTypeOK
  /\ connecting \in SUBSET Ends
  /\ setup \in SUBSET Tunnels

ReadinessInit ==
  /\ SocketsInit
  /\ connecting = {}
  /\ setup = {}

\* The ready frame, which the relay sends once both sides have presented the ticket:
\* every listener is taken off and the sockets are joined, an 'end' of the local one
\* that nobody listened to included.
Ready(k) ==
  /\ k \in setup
  /\ life[Data(k)] = "open"
  /\ connecting \cap {Data(k), Local(k)} = {}
  /\ IF life[Local(k)] = "open"
     THEN /\ setup' = setup \ {k}
          /\ bridge' = Bridged(Data(k), Local(k))
          /\ writeEnded' = writeEnded \cup Forwarded(Data(k), Local(k))
          /\ UNCHANGED life
     ELSE /\ life' = Destroyed({Data(k)})
          /\ UNCHANGED <<setup, bridge, writeEnded>>
  /\ UNCHANGED <<hadError, readEnded, connecting>>

\* The deadline; an invalid first frame does the same.
SetupDeadline(k) ==
  /\ k \in setup
  /\ life[Data(k)] = "open"
  /\ life' = Destroyed({Data(k)})
  /\ UNCHANGED <<hadError, readEnded, writeEnded, bridge, connecting, setup>>

\* 'end' of the data socket before it is ready.
SetupEnds(k) ==
  /\ k \in setup
  /\ life[Data(k)] = "open"
  /\ Data(k) \notin connecting
  /\ readEnded' = readEnded \cup {Data(k)}
  /\ life' = Destroyed({Data(k)})
  /\ UNCHANGED <<hadError, writeEnded, bridge, connecting, setup>>

\* 'end' of a local socket that is not paused, before it is joined: nobody listens.
LocalEndsEarly(k) ==
  /\ k \in setup
  /\ Local(k) \notin connecting
  /\ SocketEnds(Local(k))
  /\ UNCHANGED <<connecting, setup>>

\* Network events; 'end' is that of a socket that is joined.
EndFails(s) == SocketFails(s) /\ UNCHANGED <<connecting, setup>>
EndEnds(s) == bridge[s] # None /\ SocketEnds(s) /\ UNCHANGED <<connecting, setup>>
EndFinishes(s) == SocketFinishes(s) /\ UNCHANGED <<connecting, setup>>

\* The failed set-up leaves the local socket open.
DataTakes_F1(k) == {}

\* The sockets that go with a data or a local socket during the set-up.
DataTakes(k) == IF k \in setup THEN {Local(k)} ELSE {}
LocalTakes(k) == IF k \in setup THEN {Data(k)} ELSE {}

\* 'close' of a data socket; the owner's onSetupFailed is run if it was in setup.
DataCloses(k) ==
  /\ SocketCloses(Data(k), DataTakes(k))
  /\ connecting' = connecting \ {Data(k)}
  /\ setup' = setup \ {k}

LocalCloses(k) ==
  /\ SocketCloses(Local(k), LocalTakes(k))
  /\ connecting' = connecting \ {Local(k)}
  /\ UNCHANGED setup

\* What joined and joining sockets owe each other.  An open data socket is being set
\* up or joined; a set-up has one outcome: while it may still fail, and give its
\* ticket back, neither socket is joined, and it keeps its data socket until the
\* 'close' that ends it; a joined socket outlives its peer only ended both ways.
SetupSound ==
  \A k \in Tunnels :
    /\ life[Data(k)] = "open" => k \in setup \/ bridge[Data(k)] # None
    /\ k \in setup => /\ bridge[Data(k)] = None /\ bridge[Local(k)] = None
                      /\ life[Data(k)] \in {"open", "destroyed"}
                      /\ life[Local(k)] = "closed" => life[Data(k)] = "destroyed"
    /\ \A s \in {Data(k), Local(k)} :
         bridge[s] # None /\ life[s] = "open" /\ life[bridge[s]] = "closed"
           => s \in readEnded \cap writeEnded

-----------------------------------------------------------------------------
(* The inductive invariant behind SetupSound *)

\* A socket that is new has nothing behind it; one that is not joined is not ended by
\* us, and a data socket not by the relay either.
EndsFresh ==
  /\ \A s \in Ends :
       /\ life[s] = "new" => bridge[s] = None
       /\ life[s] \in {"new", "open"} =>
            s \notin hadError /\ (bridge[s] = None => s \notin writeEnded)
  /\ \A k \in Tunnels :
       life[Data(k)] \in {"new", "open"} /\ bridge[Data(k)] = None => Data(k) \notin readEnded

\* Joined sockets are joined with each other.
JoinedPairs ==
  \A s \in Ends : bridge[s] # None =>
    bridge[s] \in Ends /\ bridge[s] # s /\ bridge[bridge[s]] = s

\* The two sockets of a set-up are not joined yet, and the data socket is there.
SetupApart ==
  \A k \in setup :
    /\ bridge[Data(k)] = None /\ bridge[Local(k)] = None
    /\ life[Data(k)] \in {"open", "destroyed"}
    /\ life[Local(k)] = "closed" => life[Data(k)] = "destroyed"

DataHeld ==
  \A k \in Tunnels : life[Data(k)] = "open" => k \in setup \/ bridge[Data(k)] # None

\* Between joined sockets an end that was read has been forwarded, an end that was
\* written was read on the other side, and a socket that went without an error leaves
\* a peer that goes too or has ended both ways.
HalvesForwarded ==
  \A s \in Ends : bridge[s] # None =>
    /\ s \in readEnded => bridge[s] \in writeEnded \/ life[bridge[s]] # "open"
    /\ s \in writeEnded => bridge[s] \in readEnded
    /\ life[s] \in {"destroyed", "closed"} /\ s \notin hadError =>
         life[bridge[s]] # "open" \/ bridge[s] \in readEnded \cap writeEnded
    /\ life[s] = "closed" /\ s \in hadError => life[bridge[s]] # "open"

ReadinessInv ==
  /\ ReadinessTypeOK
  /\ EndsFresh /\ JoinedPairs /\ SetupApart /\ DataHeld /\ HalvesForwarded
=============================================================================
