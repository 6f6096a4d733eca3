-------------------------------- MODULE Client --------------------------------
(***************************************************************************)
(* The client (src/client.js): a local connection asks the relay for a     *)
(* tunnel over the control session (ControlSession, which PeerSession      *)
(* implements); the answer brings a ticket, a data connection presents it, *)
(* and DataReadiness joins the two sockets.  A tunnel stands for a local   *)
(* connection and its request.  The relay may answer a request once, on    *)
(* the connection it came on, or never.                                    *)
(*                                                                         *)
(* Each frame is handled on its own, except those that follow, in the same *)
(* chunk, the frame on which the control connection was destroyed: they    *)
(* are handled before anything else (`tail`).                              *)
(***************************************************************************)
EXTENDS DataReadiness

VARIABLES
  link, over,  \* the control session
  tail,        \* frames behind the end of the connection are being decoded
  wrote,       \* first message written on it: "nothing" yet, "registration", "other"
  ready,       \* the agent is there, as the relay said last
  pending,     \* tunnels in pendingLocalConnections: each has its timer
  phase,       \* "open", then close(): "draining", "destroying", "session", "closed"
  waiting,     \* the sockets close() waits for
  asked,       \* tunnels requested on this control connection and not answered
  held         \* history: tickets got on it, neither presented nor given back

sessionVars == <<link, over, tail, wrote>>
ownVars == <<ready, pending, phase, waiting, asked, held>>
vars == <<endVars, setup, sessionVars, ownVars>>

Control == INSTANCE ControlSession

TypeOK ==
  /\ ReadinessTypeOK
  /\ link \in {"none", "connecting", "open", "up", "lost", "broken"}
  /\ over \in BOOLEAN /\ tail \in BOOLEAN /\ ready \in BOOLEAN
  /\ wrote \in {"nothing", "registration", "other"}
  /\ phase \in {"open", "draining", "destroying", "session", "closed"}
  /\ waiting \in SUBSET Ends
  /\ pending \in SUBSET Tunnels
  /\ asked \in SUBSET Tunnels /\ held \in SUBSET Tunnels
  /\ wrote = "nothing" => link \notin {"open", "up"}

Init ==
  /\ ReadinessInit
  /\ Control!Init
  /\ tail = FALSE
  /\ wrote = "nothing"
  /\ ready = FALSE
  /\ pending = {}
  /\ phase = "open"
  /\ waiting = {}
  /\ asked = {}
  /\ held = {}

stopping == phase # "open"

\* localConnections and dataConnections: a socket leaves them with its 'close'.
localConnections == {s \in {Local(k) : k \in Tunnels} : life[s] \in {"open", "destroyed"}}
dataConnections == {s \in {Data(k) : k \in Tunnels} : life[s] \in {"open", "destroyed"}}

\* controlSession.send: any control socket that is not destroyed takes the message,
\* also one that is still connecting.
Sendable == link \in {"connecting", "open", "up"}

\* A cancelTunnel for k is sent, if it can be; H are the tickets held so far.
Cancel(H, k) ==
  /\ held' = IF Sendable THEN H \ {k} ELSE H
  /\ wrote' = IF Sendable /\ wrote = "nothing" THEN "other" ELSE wrote

\* closePendingLocalConnections()
ClosePending ==
  /\ life' = Destroyed({Local(k) : k \in pending})
  /\ pending' = {}

-----------------------------------------------------------------------------
(* Local connections *)

\* A local connection; one that comes when the client does not serve is destroyed
\* on the spot.  A request that cannot be sent takes it down.
HandleLocalSocket(k) ==
  /\ ~tail
  /\ life[Local(k)] = "new"
  /\ ready /\ ~stopping
  /\ pending' = pending \cup {k}
  /\ IF Sendable
     THEN /\ life' = [life EXCEPT ![Local(k)] = "open"]
          /\ asked' = asked \cup {k}
     ELSE /\ life' = [life EXCEPT ![Local(k)] = "destroyed"]
          /\ UNCHANGED asked
  /\ UNCHANGED <<hadError, readEnded, writeEnded, bridge, connecting, setup,
                 sessionVars, ready, phase, waiting, held>>

\* The timer is only armed for requests that could not be sent.
PendingTimeout_F1(k) ==
  /\ ~tail
  /\ k \in pending \ asked
  /\ life[Local(k)] = "open"
  /\ life' = Destroyed({Local(k)})
  /\ UNCHANGED <<hadError, readEnded, writeEnded, bridge, connecting, setup,
                 sessionVars, ownVars>>

\* The timeout of a request.
PendingTimeout(k) ==
  /\ ~tail
  /\ k \in pending
  /\ life[Local(k)] = "open"
  /\ life' = Destroyed({Local(k)})
  /\ UNCHANGED <<hadError, readEnded, writeEnded, bridge, connecting, setup,
                 sessionVars, ownVars>>

LocalClose(k) ==
  /\ ~tail
  /\ LocalCloses(k)
  /\ pending' = pending \ {k}
  /\ UNCHANGED <<sessionVars, ready, phase, waiting, asked, held>>

-----------------------------------------------------------------------------
(* Data connections *)

\* The relay has accepted the TCP connection: the ticket is presented.
DataConnected(k) ==
  /\ ~tail
  /\ Data(k) \in connecting
  /\ life[Data(k)] = "open"
  /\ connecting' = connecting \ {Data(k)}
  /\ held' = held \ {k}
  /\ UNCHANGED <<life, hadError, readEnded, writeEnded, bridge, setup, sessionVars,
                 ready, pending, phase, waiting, asked>>

\* A ticket whose set-up failed is not given back.
SetupFailed_F1(k) == UNCHANGED <<held, wrote>>

\* onSetupFailed
SetupFailed(k) == IF k \in setup THEN Cancel(held, k) ELSE UNCHANGED <<held, wrote>>

DataClose(k) ==
  /\ ~tail
  /\ DataCloses(k)
  /\ SetupFailed(k)
  /\ UNCHANGED <<link, over, tail, ready, pending, phase, waiting, asked>>

\* Everything else that happens to the two sockets of a tunnel.  The local one is paused
\* until it is joined.
SocketEvent ==
  /\ ~tail
  /\ \/ \E k \in Tunnels : Ready(k) \/ SetupDeadline(k) \/ SetupEnds(k)
     \/ \E s \in Ends : EndFails(s) \/ EndEnds(s) \/ EndFinishes(s)
  /\ UNCHANGED <<sessionVars, ownVars>>

-----------------------------------------------------------------------------
(* Control messages *)

\* A frame is handled on a live registered connection, or behind the frame that
\* ended it.
Handles == link = "up" \/ (tail /\ link = "broken")

\* A registration: the first completes the connection, later ones report readiness.
Registration(r) ==
  /\ \/ Handles /\ UNCHANGED <<link, over>>
     \/ Control!Registers /\ (link = "lost" => tail)
  /\ ready' = r
  /\ IF r THEN UNCHANGED <<life, pending>> ELSE ClosePending
  /\ UNCHANGED <<hadError, readEnded, writeEnded, bridge, connecting, setup,
                 tail, wrote, phase, waiting, asked, held>>

\* openDataConnection: the answer to a request.
OpenDataConnection(k) ==
  /\ Handles
  /\ k \in asked
  /\ asked' = asked \ {k}
  /\ pending' = pending \ {k}
  /\ IF k \in pending /\ life[Local(k)] = "open" /\ ~stopping
     THEN /\ life' = [life EXCEPT ![Data(k)] = "open"]
          /\ connecting' = connecting \cup {Data(k)}
          /\ setup' = setup \cup {k}
          /\ held' = held \cup {k}
          /\ UNCHANGED wrote
     ELSE /\ Cancel(held \cup {k}, k)
          /\ life' = IF k \in pending THEN Destroyed({Local(k)}) ELSE life
          /\ UNCHANGED <<connecting, setup>>
  /\ UNCHANGED <<hadError, readEnded, writeEnded, bridge, link, over, tail,
                 ready, phase, waiting>>

\* tunnelError
TunnelError(k) ==
  /\ Handles
  /\ k \in asked
  /\ asked' = asked \ {k}
  /\ life' = IF k \in pending THEN Destroyed({Local(k)}) ELSE life
  /\ UNCHANGED <<hadError, readEnded, writeEnded, bridge, connecting, setup,
                 sessionVars, ready, pending, phase, waiting, held>>

\* An error of the relay, or another protocol version: the session has failed.
ErrorMessage ==
  /\ link \in {"open", "up"} \/ tail
  /\ over' = TRUE
  /\ link' = Control!Cut
  /\ tail' = TRUE
  /\ UNCHANGED <<endVars, setup, wrote, ownVars>>

TailEnds == tail /\ tail' = FALSE /\ UNCHANGED <<endVars, setup, link, over, wrote, ownVars>>

-----------------------------------------------------------------------------
(* The control connection *)

Connects ==
  /\ ~tail
  /\ Control!Connects
  /\ wrote' = "nothing"
  /\ UNCHANGED <<endVars, setup, tail, ownVars>>

\* The registration is written; what was written earlier has been queued before it.
TcpUp ==
  /\ ~tail
  /\ Control!TcpUp
  /\ wrote' = IF wrote = "nothing" THEN "registration" ELSE wrote
  /\ UNCHANGED <<endVars, setup, tail, ownVars>>

\* A loss, a missed deadline, or a message that is not understood: with more behind.
Breaks ==
  /\ ~tail
  /\ Control!Breaks
  /\ tail' \in (IF link = "connecting" THEN {FALSE} ELSE BOOLEAN)
  /\ UNCHANGED <<endVars, setup, wrote, ownVars>>

\* A disconnection leaves the waiting local connections alone.
Sweep_F1 == UNCHANGED <<ready, life, pending>>

\* onDisconnected, if the connection had been registered.
Sweep ==
  IF link = "broken"
  THEN ready' = FALSE /\ ClosePending
  ELSE UNCHANGED <<ready, life, pending>>

\* The 'close' of the control socket.  The relay drops its tickets with it.
Closes ==
  /\ ~tail
  /\ Control!Closes
  /\ Sweep
  /\ asked' = {}
  /\ held' = {}
  /\ UNCHANGED <<hadError, readEnded, writeEnded, bridge, connecting, setup,
                 tail, wrote, phase, waiting>>

\* onRuntimeError: a listener failed.
RuntimeError ==
  /\ ~tail
  /\ Control!Finishes
  /\ UNCHANGED <<endVars, setup, tail, wrote, ownVars>>

-----------------------------------------------------------------------------
(* close() *)

\* close(), also from a handler of the 'fatal' event.
Close ==
  /\ ~stopping
  /\ phase' = "draining"
  /\ ClosePending
  /\ UNCHANGED <<hadError, readEnded, writeEnded, bridge, connecting, setup,
                 sessionVars, ready, waiting, asked, held>>

Remaining == localConnections \cup dataConnections

\* The drain is over: complete, timed out, or skipped by force.
EndDrain ==
  /\ ~tail
  /\ phase = "draining"
  /\ phase' = "destroying"
  /\ waiting' = Remaining
  /\ life' = Destroyed(Remaining)
  /\ UNCHANGED <<hadError, readEnded, writeEnded, bridge, connecting, setup,
                 sessionVars, ready, pending, asked, held>>

\* The control connection is left to the relay.
CloseSession_F1 ==
  /\ ~tail
  /\ phase = "destroying"
  /\ \A s \in waiting : life[s] = "closed"
  /\ phase' = "session"
  /\ over' = TRUE
  /\ UNCHANGED <<endVars, setup, link, tail, wrote, ready, pending, waiting, asked, held>>

\* destroySockets has resolved: controlSession.close().
CloseSession ==
  /\ ~tail
  /\ phase = "destroying"
  /\ \A s \in waiting : life[s] = "closed"
  /\ phase' = "session"
  /\ over' = TRUE
  /\ link' = Control!Cut
  /\ UNCHANGED <<endVars, setup, tail, wrote, ready, pending, waiting, asked, held>>

FinishClose ==
  /\ ~tail
  /\ phase = "session"
  /\ link = "none"
  /\ phase' = "closed"
  /\ UNCHANGED <<endVars, setup, sessionVars, ready, pending, waiting, asked, held>>

-----------------------------------------------------------------------------
Message ==
  \/ \E r \in BOOLEAN : Registration(r)
  \/ \E k \in Tunnels : OpenDataConnection(k) \/ TunnelError(k)
  \/ ErrorMessage

Next ==
  \/ \E k \in Tunnels : \/ HandleLocalSocket(k) \/ PendingTimeout(k) \/ LocalClose(k)
                        \/ DataConnected(k) \/ DataClose(k)
  \/ SocketEvent \/ Message \/ TailEnds
  \/ Connects \/ TcpUp \/ Breaks \/ Closes \/ RuntimeError
  \/ Close \/ EndDrain \/ CloseSession \/ FinishClose

Spec == Init /\ [][Next]_vars

\* Timers fire, destroyed sockets emit 'close' and promises continue between the
\* turns of the control connection, however many of them there are.
Fairness ==
  /\ WF_vars(TailEnds)
  /\ SF_vars(Closes)
  /\ \A k \in Tunnels : /\ SF_vars(PendingTimeout(k))
                        /\ SF_vars(LocalClose(k))
                        /\ SF_vars(DataClose(k))
                        /\ SF_vars(~tail /\ SetupDeadline(k) /\ UNCHANGED <<sessionVars, ownVars>>)
  /\ SF_vars(EndDrain)
  /\ SF_vars(CloseSession)
  /\ SF_vars(FinishClose)

FairSpec == Spec /\ Fairness

-----------------------------------------------------------------------------
(* Safety *)

\* A local connection waits for a ticket only while the client serves: with the agent
\* there, on the control connection its request was sent on, and not while closing
\* (client.js: handleLocalSocket, onDisconnected, close).
WaitsWhileServed ==
  /\ pending # {} => ready /\ ~stopping /\ link \in {"up", "broken"}
  /\ \A k \in pending : k \in asked \/ life[Local(k)] # "open"

\* No socket is left to itself: an open local connection has a request and its
\* timer, a set-up and its deadline, or a peer, and SetupSound says what that is worth;
\* a closed client has none (client.js; data-readiness.js; socket-bridge.js).
NobodyStranded ==
  /\ SetupSound
  /\ \A k \in Tunnels :
       life[Local(k)] = "open" => k \in pending \cup setup \/ bridge[Local(k)] # None
  /\ phase \in {"session", "closed"} => localConnections \cup dataConnections = {}

\* A ticket of the current control connection is presented, about to be, or given
\* back: the relay need not wait for its timer (client.js: cancelTunnel).
TicketsHonoured == link = "up" => held \subseteq setup

\* The first message on a control connection is the registration, as
\* test/peer-session.test.js reads it and the relay demands.
RegistersFirst == wrote # "other"

-----------------------------------------------------------------------------
(* The inductive invariant *)

\* A request is made once for each local connection, before its data connection; while
\* it is pending nothing is joined.
RequestsFirst ==
  \A k \in Tunnels :
    /\ k \in asked => life[Data(k)] = "new" /\ life[Local(k)] # "new"
    /\ life[Local(k)] = "new" => life[Data(k)] = "new"
    /\ k \in pending => /\ life[Data(k)] = "new" /\ bridge[Local(k)] = None
                        /\ life[Local(k)] \in {"open", "destroyed"}

\* The agent is known to be there only on a registered connection.
ReadyOnline == ready => link \in {"up", "broken"}

LocalHeld ==
  \A k \in Tunnels :
    life[Local(k)] = "open" => k \in pending \cup setup \/ bridge[Local(k)] # None

\* Tickets belong to the registered connection they came on; one that is being set up
\* and not presented has a data connection that is not up yet.
HeldTickets ==
  /\ link \in {"none", "connecting", "open", "lost"} => held = {}
  /\ \A k \in held \cap setup : Data(k) \in connecting
  /\ TicketsHonoured

\* What each stage of close() has got rid of.
CloseStages ==
  /\ phase \in {"destroying", "session", "closed"} => \A s \in Ends : life[s] # "open"
  /\ phase = "destroying" => \A s \in Ends : life[s] = "destroyed" => s \in waiting
  /\ phase \in {"session", "closed"} => \A s \in Ends : life[s] # "destroyed"

IndInv ==
  /\ TypeOK /\ ReadinessInv
  /\ RequestsFirst /\ ReadyOnline /\ WaitsWhileServed /\ LocalHeld /\ HeldTickets /\ CloseStages

-----------------------------------------------------------------------------
(* Liveness *)

\* A local connection is joined with a data connection, or closed, in bounded time.
TunnelsSettle ==
  \A k \in Tunnels : k \in pending \cup setup ~> k \notin pending \cup setup

\* close() resolves.
ClientStops == stopping ~> phase = "closed"
=============================================================================
