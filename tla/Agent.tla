-------------------------------- MODULE Agent --------------------------------
(***************************************************************************)
(* The agent (src/agent.js): for every ticket the relay offers over the    *)
(* control session (ControlSession) it opens a data connection, and once   *)
(* that stands, a connection to the target; when this one stands too, the  *)
(* ticket is presented, and DataReadiness joins the two.  When the relay   *)
(* refuses its name it reconnects, up to Retries times in a row.           *)
(*                                                                         *)
(* A socket is in `connecting` until its connection handler has done its   *)
(* work, and the target is dialled by the data connection's handler.       *)
(* Frames are handled one by one, except those behind a frame on which the *)
(* control connection was destroyed (`tail`).                              *)
(***************************************************************************)
EXTENDS Naturals, DataReadiness

CONSTANT Retries  \* 3 in the code

ASSUME RetriesAssumption == Retries \in Nat

VARIABLES
  link, over,  \* the control session
  tail,        \* frames behind the end of the connection are being decoded
  ready,       \* registered, as the relay said last
  retries,     \* sameNameRetries
  phase,       \* "open", then close(): "draining", "destroying", "session", "closed"
  waiting,     \* the sockets close() waits for
  offered,     \* history: tickets the relay has offered; it never repeats one
  held         \* history: tickets got on this connection, neither presented,
               \* given back, nor ignored

sessionVars == <<link, over, tail, retries>>
ownVars == <<ready, phase, waiting, offered, held>>
vars == <<endVars, setup, sessionVars, ownVars>>

Control == INSTANCE ControlSession

TypeOK ==
  /\ ReadinessTypeOK
  /\ link \in {"none", "connecting", "open", "up", "lost", "broken"}
  /\ over \in BOOLEAN /\ tail \in BOOLEAN /\ ready \in BOOLEAN
  /\ retries \in 0 .. Retries
  /\ phase \in {"open", "draining", "destroying", "session", "closed"}
  /\ waiting \in SUBSET Ends
  /\ offered \in SUBSET Tunnels /\ held \in SUBSET Tunnels

Init ==
  /\ ReadinessInit
  /\ Control!Init
  /\ tail = FALSE
  /\ ready = FALSE
  /\ retries = Retries
  /\ phase = "open"
  /\ waiting = {}
  /\ offered = {}
  /\ held = {}

stopping == phase # "open"

\* localConnections and dataConnections: a socket leaves them with its 'close'.
localConnections == {s \in {Local(k) : k \in Tunnels} : life[s] \in {"open", "destroyed"}}
dataConnections == {s \in {Data(k) : k \in Tunnels} : life[s] \in {"open", "destroyed"}}

\* H without k, if a cancelTunnel for k can be sent.
GivenBack(H, k) == IF link \in {"connecting", "open", "up"} THEN H \ {k} ELSE H

-----------------------------------------------------------------------------
(* Control messages *)

\* A frame is handled on a live registered connection, or behind the frame that
\* ended it.
Handles == link = "up" \/ (tail /\ link = "broken")

\* The relay refuses the name or the agent: before the registration, or after it.
Refusable == link \in {"open", "up"} \/ tail

\* The retries are not counted down to zero but beyond.
RetriesLeft_F1 == retries >= 0

RetriesLeft == retries > 0

\* DUPLICATE_AGENT with retries left: disconnect, and let the session reconnect.
RefusedName ==
  /\ Refusable
  /\ RetriesLeft
  /\ retries' = retries - 1
  /\ link' = Control!Cut
  /\ tail' = TRUE
  /\ UNCHANGED <<endVars, setup, over, ownVars>>

\* Another error, or no retries left: the session fails.
Refused ==
  /\ Refusable
  /\ over' = TRUE
  /\ link' = Control!Cut
  /\ tail' = TRUE
  /\ UNCHANGED <<endVars, setup, retries, ownVars>>

Registration(r) ==
  /\ \/ Handles /\ UNCHANGED <<link, over>>
     \/ Control!Registers /\ (link = "lost" => tail)
  /\ retries' = Retries
  /\ ready' = r
  /\ UNCHANGED <<endVars, setup, tail, phase, waiting, offered, held>>

\* openTunnel: ignored unless ready and not closing; a bad port gives the ticket
\* back; else openDataConnection.
OpenTunnel(k, validPort) ==
  /\ Handles
  /\ k \notin offered
  /\ offered' = offered \cup {k}
  /\ retries' = Retries
  /\ IF ready /\ ~stopping /\ validPort
     THEN /\ life' = [life EXCEPT ![Data(k)] = "open", ![Local(k)] = "open"]
          /\ connecting' = connecting \cup {Data(k), Local(k)}
          /\ setup' = setup \cup {k}
          /\ held' = held \cup {k}
     ELSE /\ held' = IF ready /\ ~stopping THEN GivenBack(held \cup {k}, k) ELSE held
          /\ UNCHANGED <<life, connecting, setup>>
  /\ UNCHANGED <<hadError, readEnded, writeEnded, bridge, link, over, tail,
                 ready, phase, waiting>>

TailEnds == tail /\ tail' = FALSE /\ UNCHANGED <<endVars, setup, link, over, retries, ownVars>>

-----------------------------------------------------------------------------
(* A tunnel's two connections *)

\* The relay has accepted the data connection: the target is dialled.
DataConnected(k) ==
  /\ ~tail
  /\ Data(k) \in connecting
  /\ life[Data(k)] = "open"
  /\ IF stopping
     THEN life' = Destroyed({Data(k)}) /\ UNCHANGED connecting
     ELSE connecting' = connecting \ {Data(k)} /\ UNCHANGED life
  /\ UNCHANGED <<hadError, readEnded, writeEnded, bridge, setup, sessionVars, ownVars>>

Dialled(s) == \A k \in Tunnels : s = Local(k) => Data(k) \notin connecting

\* The target has accepted: the ticket is presented.
TargetConnected(k) ==
  /\ ~tail
  /\ Local(k) \in connecting
  /\ life[Local(k)] = "open"
  /\ Dialled(Local(k))
  /\ IF life[Data(k)] # "open" \/ stopping
     THEN life' = Destroyed({Local(k)}) /\ UNCHANGED <<connecting, held>>
     ELSE connecting' = connecting \ {Local(k)} /\ held' = held \ {k} /\ UNCHANGED life
  /\ UNCHANGED <<hadError, readEnded, writeEnded, bridge, setup, sessionVars,
                 ready, phase, waiting, offered>>

LocalClose(k) ==
  /\ ~tail
  /\ LocalCloses(k)
  /\ UNCHANGED <<sessionVars, ownVars>>

\* A ticket whose set-up failed is not given back.
SetupFailed_F1(k) == UNCHANGED held

\* onSetupFailed
SetupFailed(k) == held' = IF k \in setup THEN GivenBack(held, k) ELSE held

DataClose(k) ==
  /\ ~tail
  /\ DataCloses(k)
  /\ SetupFailed(k)
  /\ UNCHANGED <<sessionVars, ready, phase, waiting, offered>>

\* The deadline spares a connection that is waiting for its target.
Deadline_F1(k) == SetupDeadline(k) /\ Dialled(Local(k)) /\ Local(k) \notin connecting

Deadline(k) == SetupDeadline(k)

SetupTimeout(k) ==
  /\ ~tail
  /\ Deadline(k)
  /\ UNCHANGED <<sessionVars, ownVars>>

\* Everything else that happens to the two sockets of a tunnel.  The one to the target
\* is not paused while it waits to be joined.
SocketEvent ==
  /\ ~tail
  /\ \/ \E k \in Tunnels : Ready(k) \/ SetupEnds(k) \/ LocalEndsEarly(k)
     \/ \E s \in Ends : (Dialled(s) /\ EndFails(s)) \/ EndEnds(s) \/ EndFinishes(s)
  /\ UNCHANGED <<sessionVars, ownVars>>

-----------------------------------------------------------------------------
(* The control connection *)

Connects ==
  /\ ~tail
  /\ Control!Connects
  /\ UNCHANGED <<endVars, setup, tail, retries, ownVars>>

TcpUp ==
  /\ ~tail
  /\ Control!TcpUp
  /\ UNCHANGED <<endVars, setup, tail, retries, ownVars>>

\* A loss, a missed deadline, or a message that is not understood: with more behind.
Breaks ==
  /\ ~tail
  /\ Control!Breaks
  /\ tail' \in (IF link = "connecting" THEN {FALSE} ELSE BOOLEAN)
  /\ UNCHANGED <<endVars, setup, retries, ownVars>>

\* The 'close' of the control socket; onDisconnected if it had been registered.
Closes ==
  /\ ~tail
  /\ Control!Closes
  /\ ready' = (ready /\ link # "broken")
  /\ held' = {}
  /\ UNCHANGED <<endVars, setup, tail, retries, phase, waiting, offered>>

-----------------------------------------------------------------------------
(* close() *)

Close ==
  /\ ~stopping
  /\ phase' = "draining"
  /\ UNCHANGED <<endVars, setup, sessionVars, ready, waiting, offered, held>>

\* The connections to the targets are left to their data connections.
Remaining_F1 == dataConnections

Remaining == localConnections \cup dataConnections

\* The drain is over: complete, timed out, or skipped by force.
EndDrain ==
  /\ ~tail
  /\ phase = "draining"
  /\ phase' = "destroying"
  /\ waiting' = Remaining
  /\ life' = Destroyed(Remaining)
  /\ UNCHANGED <<hadError, readEnded, writeEnded, bridge, connecting, setup,
                 sessionVars, ready, offered, held>>

\* The control connection is left to the relay.
CloseSession_F1 ==
  /\ ~tail
  /\ phase = "destroying"
  /\ \A s \in waiting : life[s] = "closed"
  /\ phase' = "session"
  /\ over' = TRUE
  /\ UNCHANGED <<endVars, setup, link, tail, retries, ready, waiting, offered, held>>

\* destroySockets has resolved: controlSession.close().
CloseSession ==
  /\ ~tail
  /\ phase = "destroying"
  /\ \A s \in waiting : life[s] = "closed"
  /\ phase' = "session"
  /\ over' = TRUE
  /\ link' = Control!Cut
  /\ UNCHANGED <<endVars, setup, tail, retries, ready, waiting, offered, held>>

FinishClose ==
  /\ ~tail
  /\ phase = "session"
  /\ link = "none"
  /\ phase' = "closed"
  /\ UNCHANGED <<endVars, setup, sessionVars, ready, waiting, offered, held>>

-----------------------------------------------------------------------------
Message ==
  \/ RefusedName \/ Refused
  \/ \E r \in BOOLEAN : Registration(r)
  \/ \E k \in Tunnels, v \in BOOLEAN : OpenTunnel(k, v)

Next ==
  \/ Message \/ TailEnds
  \/ \E k \in Tunnels : \/ DataConnected(k) \/ TargetConnected(k) \/ SetupTimeout(k)
                        \/ LocalClose(k) \/ DataClose(k)
  \/ SocketEvent
  \/ Connects \/ TcpUp \/ Breaks \/ Closes
  \/ Close \/ EndDrain \/ CloseSession \/ FinishClose

Spec == Init /\ [][Next]_vars

\* Timers fire, destroyed sockets emit 'close' and promises continue between the
\* turns of the control connection.  Nothing is assumed of relay, target or network.
Fairness ==
  /\ WF_vars(TailEnds)
  /\ SF_vars(Closes)
  /\ \A k \in Tunnels : /\ SF_vars(SetupTimeout(k))
                        /\ SF_vars(LocalClose(k))
                        /\ SF_vars(DataClose(k))
  /\ SF_vars(EndDrain)
  /\ SF_vars(CloseSession)
  /\ SF_vars(FinishClose)

FairSpec == Spec /\ Fairness

-----------------------------------------------------------------------------
(* Safety *)

\* No connection is left to itself: one to a target has its tunnel's set-up or its
\* peer, SetupSound says what that is worth, and once close() has come to the control
\* session there is none (agent.js: openDataConnection, close; data-readiness.js).
NobodyStranded ==
  /\ SetupSound
  /\ \A k \in Tunnels :
       life[Local(k)] = "open" => k \in setup \/ bridge[Local(k)] # None
  /\ phase \in {"session", "closed"} => localConnections \cup dataConnections = {}

\* A ticket taken on the current control connection is presented, about to be, or
\* given back (agent.js: cancelTunnel).
TicketsHonoured == link = "up" => held \subseteq setup

\* The retries are those of a row of refusals: however many refusals one chunk brings,
\* they are not counted beyond zero, and whatever the relay accepts gives them all back
\* (agent.js: sameNameRetries).
RetriesWhole == retries \in 0 .. Retries /\ (link = "up" => retries = Retries)

\* The inductive invariant behind the first two.  A ticket's connections are opened when it is
\* offered.
OffersFirst ==
  \A k \in Tunnels : k \notin offered => life[Data(k)] = "new" /\ life[Local(k)] = "new"

LocalHeld ==
  \A k \in Tunnels : life[Local(k)] = "open" => k \in setup \/ bridge[Local(k)] # None

\* What is still connecting is not joined.
ConnectingApart == \A s \in connecting : bridge[s] = None

\* Tickets belong to the registered connection they came on; one that is being set up
\* and not presented has a target that has not answered yet, or is lost.
HeldTickets ==
  /\ link \in {"none", "connecting", "open", "lost"} => held = {}
  /\ \A k \in held \cap setup : Local(k) \in connecting \/ life[Local(k)] = "closed"
  /\ TicketsHonoured

\* What each stage of close() has got rid of.
CloseStages ==
  /\ phase \in {"destroying", "session", "closed"} => \A s \in Ends : life[s] # "open"
  /\ phase = "destroying" => \A s \in Ends : life[s] = "destroyed" => s \in waiting
  /\ phase \in {"session", "closed"} => \A s \in Ends : life[s] # "destroyed"

IndInv ==
  /\ TypeOK /\ ReadinessInv
  /\ OffersFirst /\ LocalHeld /\ ConnectingApart /\ HeldTickets /\ CloseStages

\* A target that does not answer is given up, and its ticket with it.
DialsSettle == \A k \in Tunnels : k \in setup ~> k \notin setup

\* close() resolves.
AgentStops == stopping ~> phase = "closed"
=============================================================================
