# node-tunnel: TLA+ models and proofs

`node-tunnel` lets a local client reach a private target through a public relay.
Client and agent each keep one *control* connection to the relay; for every local
connection the relay issues a *ticket* to both, each opens a *data* connection that
presents it, and the relay bridges the two into one byte stream.

This directory holds the models of that system, the TLC configurations that check
them, and the proofs TLAPS checks. `PROJECT.json` lists the components, runs, seeded
faults, hazards and theorems, and maps every definition to the source lines it stands
for.

    tlc -workers 2 -config MCRelayRoutes.cfg MCRelay      # a run
    tlapm Relay_proofs.tla                                # the proofs of a module

## 1. Inventory of the system

Each application is one Node.js process: handlers run to completion, one at a time,
and all concurrency is the order in which the event loop delivers socket events, timer
callbacks and promise continuations - and what the remote peers do meanwhile.

| Component (file) | State | Operations | What is hard about it |
| --- | --- | --- | --- |
| Data transport (`tcp-data-transport.js`) | `pendingTunnels`, `activeTunnels`, `dataSockets`, `closing`; per pending tunnel a timer and up to two seated sockets | `createPendingTunnel`, `acceptSocket`, `cancelPendingTunnel`, `cancelPendingForSession`, `replaceSession`, `closeAgentSession`, `close`, the pairing timer, `close` events | `destroy()` acts at once, `close` is delivered later, and the bookkeeping is split over three close handlers; limits; shutdown that awaits twice |
| Socket bridge (`socket-bridge.js`) | two pipes, two close handlers | `bridgeSockets`, `closePeer` | half-closes; a peer nobody reads any more; bytes read with the handshake; slow readers |
| Relay (`relay.js`) | `routes`, `controlSockets`, `handshakeSockets`, `cProps` of each socket, `closing` | `start`, accept, classify, register, notify, control messages, clean-up, `close` | reconnections overlapping the old socket's `close`; frames coalesced with a registration; notices computed from sockets that are already destroyed |
| Peer session (`peer-session.js`) | current `socket`, `uuid`, `connected`, `fatalError`, `stopping`, reconnect timer, ping interval, pong timer | `start`, `connect`, `handleMessage`, `fail`, `close` | five timers against losses, fatal errors and `close()`; frames behind the one that ended the session |
| Client (`client.js`) | listeners, `pendingLocalConnections`, `localConnections`, `dataConnections`, `ready` | `start`, local connection, `openDataConnection`, `onMessage`, `close` | several ports, of which one may be taken; answers that arrive after the local connection has gone; readiness notices |
| Agent (`agent.js`) | `localConnections`, `dataConnections`, `ready`, `sameNameRetries` | `onMessage`, `openDataConnection`, `close` | two connections in sequence before a ticket is presented |
| Data readiness (`data-readiness.js`) | one deadline, four listeners | `bridgeWhenReady` | exactly one of hand-over and failure |
| Lifecycle (`lifecycle.js`) | - | `startSocketDeadline`, `createBackoff`, `destroySockets`, `waitForSockets`, `stopListening`, `runCli` | waiting for events that may have happened already; `close()` during `start()`; whose exit code it is |
| Messaging (`utils.js`) | fragments of an incomplete frame | `sendJson`, frame decoders, cipher | limits and fragmentation; one chunk, many frames |
| Configuration (`config.js`), protocol, relay connection, diagnostics | - | parsing, constants, connecting, logging | port ranges and their limit |

How they interact: the relay calls the data transport with its control sockets as
*sessions* and never looks into it; the transport reports nothing back. Relay and peer
session exchange control messages. Client and agent own a peer session through
callbacks (`onConnected`, `onDisconnected`, `onMessage`, `onFatal`) and hand their data
connections to data readiness, which ends in the same socket bridge.

What makes each correct:

- *Data transport*: a ticket joins one client socket and one agent socket, once; no
  socket or tunnel is left without somebody who will free it; `close()` resolves and
  leaves nothing.
- *Socket bridge*: the bytes of each direction arrive in order, all of them, the end behind
  the last; neither side stays half open for ever.
- *Relay*: the route registry agrees with the live connections; a pending ticket is
  bound to the current client and agent; clients know whether they can be served;
  streams survive reconnections and end with their agent; nobody takes a route over.
- *Peer session*: one connection, always under a deadline; it reconnects until it is
  over, and then it is quiet.
- *Client, agent, readiness*: a local connection waits only while it can be served; a
  local socket and its data connection end together, before and after they are joined; a
  ticket that is not used is given back; `close()` resolves and leaves nothing.
- *Start and stop*: no port is left behind, whatever overlapped; the process ends, with the
  code that says why.
- *Frames*: the lines of the stream, however it is cut into chunks.

`PROJECT.json` lists the hazards line by line, with the properties that cover them.

## 2. Modules

| Module | Stands for |
| --- | --- |
| `SocketBridge` | sockets, their two ends and the bridge between two of them; the parts every owner of sockets builds its operations from |
| `Connection` | abstract: the byte streams of one connection |
| `ByteBridge` | a bridge with the bytes in it, on `SocketBridge`; `MCByteBridge` instantiates it |
| `TicketLedger` | abstract: what the transport promises about a ticket |
| `DataTransport` | data transport with its drain helpers, on `SocketBridge`; `MCDataTransport` |
| `Relay` | control plane, with `DataTransport` as its data plane (`T`, sessions are control connections); `MCRelay` |
| `ControlSession` | abstract: what a peer session promises to the client or agent that owns it |
| `PeerSession` | the session of a client or agent; `MCPeerSession` |
| `DataReadiness` | the hand-over of a data connection to its local socket, on `SocketBridge` |
| `Client` | the client, on `DataReadiness` and `ControlSession`; `MCClient` |
| `Agent` | the agent, on `DataReadiness` and `ControlSession`; `MCAgent` |
| `Startup` | `start()` and `close()` of an application that listens, and `runCli` around it; `MCStartup` |
| `FrameDecoder` | the decoder of frames and of first messages; `MCFrameDecoder` |
| `Bytes_proofs` | theorems about `FrameDecoder` and `ByteBridge` |
| other `*_proofs` | theorems about the module of that name |

`Relay` is composed with `DataTransport` itself; client and agent with the specification
`ControlSession`, which `PeerSession` is shown to implement. Likewise `DataTransport`
implements `TicketLedger`, and `ByteBridge` implements `Connection`.

### DataTransport

The variables are the code's maps and sets, and the state of each data socket, which comes
from `SocketBridge`: `life`
(`destroyed` when `destroy()` was called, `closed` when `close` has been delivered),
whether its two halves have ended, whether an error destroyed it, and its bridge
partner. Bytes are reduced to the two half-closes. A pairing timer is armed exactly
while its ticket is in `pendingTunnels`, which is what the code's pairs of
`set`/`setTimeout` and `delete`/`clearTimeout` amount to. `activeTunnels` is indexed by
ticket; the code's `Set` holds one object per ticket. `claim`, the message a socket was
accepted with, is history: no action's guard reads it.

One action per operation. `acceptSocket` is `Reject`, `Seat` or `Pair`; a `close` event
runs the three close handlers in the order they were added; `close()` is `BeginClose`,
`EndDrain` and `FinishClose`, cut at its two awaits. The drain may end at any moment
(`DrainOver`, here and in `Startup`, `Client`, `Agent`): early by the last stream, late by the
shutdown timeout, and durations are not modelled. The counting inside `waitForSockets` is
not modelled either; for safety any moment includes the right one, for liveness its timer is
assumed to fire. Tickets are 32 random bytes and never repeat (`issued`). A paired socket
may be one that is already destroyed, exactly as in the code.

### ByteBridge, Connection

In `DataTransport`, `Client` and `Agent` the bytes are reduced to the two half-closes;
`ByteBridge` has them: what the program at each far end has sent, what the bridge has read,
the write buffer of each socket, and what the programs have received. Of a byte only its
number in its stream is kept, which is enough to tell a byte that is lost, repeated, out of
order or in the wrong stream. `pipe()` pauses when `write()` has filled a buffer to its
high-water mark and goes on at `drain`; the initial data that came with the handshake are
written at once. The programs send, finish and read when they like; `reading` are those that
keep on reading. The owner of the two sockets (transport, client or agent) only ever destroys
both (`DestroyBoth`); before the bridge is there, the set-up destroys the one when the
other closes.

`Connection` is what the programs may rely on: until the connection breaks, every byte, in
order, the end behind the last. After a break an end may come early, because to the far
program a destroyed socket looks like any other end.

### Relay

A connection is accepted (`HandleIncoming`), must produce its first message before the
handshake deadline, and is refused, destroyed, or registered (`Register`). All frames of
a chunk are handled in one turn of the event loop, even behind a frame on which the
connection was ended or destroyed, and a registration is answered only after the frames
that came with it. `turn` names the connection whose chunk is being decoded; while it is
set nothing else happens, and `EndTurn` sends what `registerControlSocket` sends at its
end. `told` records the last registration notice each connection was sent, and `handed`
the tickets that both peers were sent; no action reads `handed`. `openTunnel` is
`MessageOpen`, or `MessageOpenUnsent` where one of the two cannot be written to: create and
cancel in one turn, of which a ticket that is used up remains. `cProps` may
be `None` for a connection that was replaced, as in the code.

An idle timeout, a network error and the automatic destruction of a connection that has
ended both ways are one action, `Lose`: no handler of the relay tells them apart. A ping
changes nothing and is not modelled; a missing uuid in a registration is replaced by a
random one, which the choice of any uuid covers. The handshake of a data connection shows
only when its first frame is complete (`AcceptData`). The guard `closing` of
`handleIncomingSocket` can be reached only when `close()` starts while the port is being
bound, and is in `Startup`. Once closed, a connection's own entries are forgotten.

### PeerSession

Sockets are `connecting`, `open`, `destroyed`, `closed`, and a closed one is used again as
the next connection. As in the relay a chunk is decoded in one turn (`decoding`), also
behind a frame on which the session failed; within it only messages and `close()` (which
an `onFatal` handler may call) happen. What the application does with a message is a
choice: nothing, `disconnect()`, or `fail()`. Delays and messages sent are not modelled.
`close()` happens once, because both applications keep its promise.

`ControlSession` keeps of it what the callbacks and `send()` show: whether there is a
connection, whether it is registered, whether it has been lost without the owner knowing,
and whether the session is over.

### DataReadiness, Client, Agent

A tunnel is a local socket, its request and, if it comes to that, its data connection.
`setup` holds the tunnels between `bridgeWhenReady` and its outcome: exactly then the
deadline is armed and the four listeners are there, because `cleanup` takes all of them off
at once. An invalid frame does what the deadline does and is one action with it. A client's
local socket is paused until it is joined, so its end cannot come earlier; the agent's target
socket is not, and its end may come before the join, when nobody listens
(`LocalEndsEarly`): `pipe()` finds it ended and passes the end on.

`Client`: `pending` is `pendingLocalConnections` with its timers. A local connection that is
turned away on arrival leaves no trace and is no step. The relay answers a request at most
once, on the connection it was sent on; it may refuse, and send any readiness at any time.
Connecting may begin at any time, which also covers a `close()` that overtakes `start()`
(`Startup` has the listeners). `held` and `asked` say what the relay has been asked and told; no code
reads them. `wrote` is the first message written on the control connection.

`Agent`: the relay offers every ticket once. An offer that comes while the agent is not ready
or is stopping is ignored (`agent.js:84`): it is neither presented nor given back, and its
ticket ends by the relay's pairing timer. Such offers never enter `held`. A socket stays in `connecting` until its
connection handler has done its work, so the target is dialled exactly when the data
connection has left that set, and the ticket presented when the target has.

Frames are handled one at a time. Only those behind a frame on which the connection was
destroyed must come in the same turn; while they do (`tail`) nothing else happens, except
`close()`. One of them may again be an error (`ErrorMessage`, `RefusedName`, `Refused`).

### Startup

The client binds its listeners one after another and starts its session when the last is up;
when a port cannot be bound, those before it are closed again and only then `start()`
rejects, after which it may be called again. The relay is the same with one listener (its
"session" is that it serves; after a `fatal` it goes on serving until it is closed).
`close()` is cut where it waits: for a `start()` under way, for
the streams to drain, for the destroyed sockets, for the session, for the listeners. A
server that is closing waits for its connections; those that were refused on arrival are in
no set of the application, and only the server waits for them. `cli` chooses whether `runCli` is the
caller, which starts once and turns the first of a signal, a `fatal` event and a rejected
`start()` into one shutdown; it removes the signal handlers with it, so another signal ends
the process at once (`killed`). Otherwise any program may call both when it likes.

### FrameDecoder

A byte is known by its position in the stream, so a frame, the bytes kept of an unfinished
one and the remainder behind a first message are sets of positions. One run of the loop in
`decode` is one action: `Decode` is the call with the next chunk, `Keep` and `Deliver` the
two cases of the loop. Whether a frame can be decrypted depends on its bytes: none of them
may have been forged.

## 3. Runs

| Run | Instance | Distinct states | Shows |
| --- | --- | --- | --- |
| `transport_safety` | 2 sessions, 3 sockets, 3 tickets, limit 2 | 38,058 | the safety of tickets, sockets and streams; refinement of `TicketLedger` |
| `relay_routes` | 3 connections, 1 name, 2 uuids, 2 ports, 1 ticket | 374,751 | registry, tickets, notices, takeover, shutdown |
| `relay_streams` | 3 connections, 1 uuid, 2 data sockets, 1 ticket | 1,044,162 | streams across reconnections and losses |
| `relay_liveness` | 2 connections, 1 data socket, 1 ticket | 29,746 | handshakes end, `close()` resolves |
| `relay_offline` | 2 connections, 2 ports | violation | see *Disagreements* |
| `peer_session` | 3 sockets, 2 uuids | 261 | the session's invariants and liveness, refinement of `ControlSession` |
| `client` | 1 tunnel | 13,660 | waiting, stranded sockets, tickets; tunnels settle, `close()` resolves |
| `client_first` | 1 tunnel | violation | see *Disagreements* |
| `agent` | 1 tunnel, 2 retries | 35,958 | retries, stranded connections, tickets, slow targets; `close()` resolves |
| `bridge` | 3 bytes one way, 1 the other, buffers of 1 | 527,784 | refinement of `Connection`, back-pressure, no stream held up |
| `startup` | 3 listeners, 2 starts | 2,271 | ports, exit code, every call settles |
| `frame_decoder` | every stream of 6 bytes, frames up to 2 | 32,873 | frames, remainder, memory, complaints |

Bounds, and why they are enough to see the interesting cases. Three data sockets allow a
complete stream and beside it a duplicate, a late presentation of a used ticket or half of
another stream; three tickets over a limit of two reach the full table. Two sessions are a
client and an agent, or a session and its successor. Four sockets with two tickets were also
checked (62,200 states). Three control connections are an agent, its successor or rival, and
a client; with two ports a client may ask for more than its agent has. `relay_routes` has no
data sockets and `relay_streams` has one uuid, because the registry does not depend on
streams and the streams not on who else registers; in `relay_liveness` one data socket waits
in its pending tunnel, and the end of a drained stream is left to `NoOrphanedHalf` and to the
run of the bridge; two names were also checked (routes do
not interact). `MaxPending`, `MaxPorts` stand for 1024 and 32. A peer session has one live
socket at a time (`OneConnection`); the third is there for it to go wrong. The tunnels of a
client or agent share only the control session and `close()`; their inductive invariants were
checked with two tunnels as well (1,423,942 states of the client, 4,431,593 of the agent, up
to symmetry), and the control connection may be lost and made again without a bound. `Retries`
stands for 3. Three bytes are the one in the buffer, the one on which the pipe waits and the
one behind it; with one the other way, the directions differ; reads and buffers of two bytes
were checked as well (534,692 states). Three listeners are one before
and one after the one that fails. Six bytes are a frame of the greatest length with its
newline and a longer one behind it. Where a proof exists (section 4), the bound is no limit
of the result.

Deadlock is not checked: the system may stop (all sockets used up, or closed).

Symmetry is used in the runs without liveness properties, over sets whose members no
definition distinguishes.

Each property has a seeded fault (`..._F1`, `..._F2` beside the definition it changes)
under which TLC finds it violated: a missing duplicate check, an off-by-one limit, a close
handler that forgets a case, a replacement that hands nothing over.

### What is checked

- `SingleUse`, `JoinedByTicket`: a replayed, duplicated or late data connection never
  gets into a stream, whatever was replaced or cancelled around it.
- `NoStrandedSocket`: every open data socket is reachable by a timer or a shutdown path.
- `NoOrphanedHalf`: `closePeer` only `end()`s the peer of a cleanly closed
  socket and takes its pipes away. That is enough because a socket destroyed without an
  error either had ended both ways, and both ends had been forwarded, or was destroyed
  together with its peer.
- `ImplementsLedger`: the ticket's life as a client or an agent sees it.
- `RoutesCurrent`, `TicketsCurrent`, `StreamsOwned`: registry, tickets and streams
  against reconnections whose predecessor has not closed yet; a ticket that only one of the
  peers could be sent is not left pending.
- `ReadinessTruth`: between turns the last notice a client got is right, up to an agent
  that is destroyed and not closed.
- `NoTakeover`, `StreamsSurvive`: action properties; what a step may never do.
- `AtRest`, `StoppedClean`, `RelayStops`, `ClientStops`, `AgentStops`, `CloseCompletes`:
  shutdown leaves nothing and ends.
- `HandshakeEnds`: no connection stays unclassified.
- `OneConnection`, `AlwaysWatched`, `QuietAtEnd`, `SilenceDetected`, `Reconnected`: the
  peer session's timers.
- `ImplementsControl`: losses, fatal errors and registrations as its owner sees them; no
  connection is made once it is over, and every loss is reported in the end.
- `WaitsWhileServed`: no local connection waits for an answer that cannot come, across
  disconnections, readiness notices and `close()`.
- `NobodyStranded` (client and agent): each half of a tunnel has somebody who will end it,
  a timer, a deadline or its peer, whichever of the two failed, and in whichever phase; a
  set-up has one outcome, since neither of its sockets is joined (`SetupSound`).
- `TicketsHonoured` (client and agent): a ticket that was taken up is presented or given back,
  also when its local connection went away before the answer, or its target was lost.
- `RetriesWhole`: several refusals in one chunk do not take the countdown below zero, and an
  agent that is registered has all its retries back.
- `TunnelsSettle`, `DialsSettle`: nobody waits for ever.
- `ImplementsConnection`: the bytes, through slow and stuck readers, half-closes, failures
  and shutdown; one direction goes on when the other is over. `BackPressure`: the bridge holds
  little, however slowly a program reads. `NothingStalls`: while nothing broke, whatever a
  program still has to come is in its buffer, or a pipe that flows can read it - so no `drain`
  is missed, no end is kept back, and `closePeer` takes no pipe away too early.
- `PortsReleased`: a start that failed half-way and a `close()` at any moment leave no port.
  `CallsSettle`: `close()` does not wait for a server that waits for connections only
  `close()` would destroy.
- `ExitCodeTrue`, `FailureEnds`: the process ends, with a code that tells why.
- `DecodesRightly`: frames, remainder, limit and complaints do not depend on the chunks.

### Fairness

Assumed only of the process itself: armed timers fire, a destroyed socket emits `close`,
promises continue, a decoding turn ends. In `Relay`, `PeerSession`, `Client` and `Agent` a
turn disables everything else for its duration, so these are strong fairness: between turns
the event loop comes round to every due timer and event. In `Relay` they include the pairing
timers and the shutdown of its data transport (`TicketProgress`, `CloseProgress`). In `Startup` and
`ByteBridge` weak fairness is enough: binding a port has an outcome; Node delivers the events
of a socket and sends what is buffered for a program that reads. A connection that nobody
destroys may stay for ever, a program need not send, finish or read. `DataTransport` is run
without fairness: its tickets and its `close()` are in the liveness run of the relay, the
ends of its streams in `NoOrphanedHalf` and in the bridge's run. Nothing is assumed of peers,
networks or applications.

### Disagreements

`relay_offline`. `docs/CONFIGURATION.md`, lines 65-66: "If the agent is offline, the client waits until it
becomes available before checking compatibility." `notifyRegistration` (`relay.js:210`)
compares port counts with `route.agent` also when that socket is destroyed and only its
`close` event is outstanding; a client that registers in this window is sent the port
mismatch error, which is fatal for it. The same function's readiness flag (line 219) and
`openTunnel` (line 250) do check `destroyed`. The violation takes eight steps.

`client_first`. A control connection that is still connecting takes messages:
`controlSession.send` is not tied to the registration (`peer-session.js:169-171`), and
`writeMessage` only refuses a socket that is destroyed or ended. The set-up of a tunnel
begun on the previous connection may fail just then, and its `cancelTunnel`
(`client.js:155`, `agent.js:124`) is queued before the connect callback writes the
registration. The relay destroys a control connection that begins with anything but a
registration (`relay.js:132-134`), so the peer has to wait for another reconnection.
`test/peer-session.test.js:103-105` expects the registration to be the first thing written on
a reconnected socket. The violation takes ten steps; `Agent` has the same code, and does not
repeat the check.

Seen while reading, and not the subject of a run: `docs/CONFIGURATION.md`, line 70, speaks of
protocol version 9, `protocol.js` has 8; a relay that is closing answers an `openTunnel` with
"too many pending tunnels", since `createPendingTunnel` returns `null` for both reasons; a
signal during the graceful shutdown ends the process at once, because `runCli` has removed its
handlers; and when a listener of the client breaks while `start()` is still binding the next
one, `start()` resolves without ever connecting, since the session is over by then.

## 4. Proofs

TLAPS proves the following for every value of the constants, from the named assumptions the
modules make of them (`None` is none of the sockets, connections or sessions; the limits are
numbers, positive where zero would make no sense). A theorem that names a property proves
`Spec => []property` or, for an action property, `Spec => [][...]_vars`.

| Module | Theorem | Property |
| --- | --- | --- |
| `DataTransport_proofs` | `TypeCorrect`, `Invariant` | `TypeOK`, `IndInv` |
| | `TicketsAreSingleUse` | `SingleUse` |
| | `StreamsJoinOneTicket` | `JoinedByTicket` |
| | `NoSocketIsStranded` | `NoStrandedSocket` |
| | `TunnelsAreTracked` | `TunnelsTracked` (the counts of `getState()` are true) |
| | `NoHalfIsOrphaned` | `NoOrphanedHalf` |
| | `ClosedIsAtRest` | `AtRest` |
| | `LedgerImplemented` | `ImplementsLedger` |
| `Relay_proofs` | `TypeCorrect`, `Invariant` | `TypeOK`, `IndInv` |
| | `RoutesAreCurrent` | `RoutesCurrent` |
| | `TicketsAreCurrent` | `TicketsCurrent` |
| | `StreamsAreOwned` | `StreamsOwned` |
| | `ReadinessIsTrue` | `ReadinessTruth` |
| | `StoppedIsClean` | `StoppedClean` |
| | `NobodyTakesOver` | `NoTakeover` |
| | `StreamsOutlive` | `StreamsSurvive` |
| | `DataPlaneKept` | `SingleUse`, `JoinedByTicket`, `NoStrandedSocket`, `TunnelsTracked`, `NoOrphanedHalf`, `AtRest` of its transport |
| | `LedgerKept` | `ImplementsLedger` of its transport |
| `PeerSession_proofs` | `Invariant` | `IndInv` |
| | `OneConnectionAtATime` | `OneConnection` |
| | `LiveIsWatched` | `AlwaysWatched` |
| | `EndIsQuiet` | `QuietAtEnd` |
| | `ControlImplemented` | the safety part of `ImplementsControl` |
| `Client_proofs` | `TypeCorrect`, `Invariant` | `TypeOK`, `IndInv` |
| | `WaitingIsServed` | `WaitsWhileServed` |
| | `NobodyIsStranded` | `NobodyStranded` |
| | `TicketsAreHonoured` | `TicketsHonoured` |
| `Agent_proofs` | `TypeCorrect`, `Invariant` | `TypeOK`, `IndInv` |
| | `RetriesAreWhole` | `RetriesWhole` |
| | `NobodyIsStranded` | `NobodyStranded` |
| | `TicketsAreHonoured` | `TicketsHonoured` |
| `Startup_proofs` | `Invariant` | `IndInv` |
| | `NoPortIsLeft` | `PortsReleased` |
| | `ExitCodeIsTrue` | `ExitCodeTrue` |
| `Bytes_proofs` | `DecoderInvariant` | `DecoderInv` |
| | `DecoderIsRight` | `DecodesRightly` |
| | `BridgeInvariant` | `IndInv` of `ByteBridge` |
| | `BridgeHoldsLittle` | `BackPressure` |
| | `BridgeNeverStalls` | `NothingStalls` |
| | `StreamsCarried` | `StreamSteps`, the safety part of `ImplementsConnection` |

`DataReadiness_proofs` holds the lemmas client and agent share: each step of a hand-over keeps
`ReadinessInv`.

Hardly any of the properties is inductive alone; each module ends in the conjunction `IndInv`
that is (`DecoderInv` in `FrameDecoder`), whose parts are named and commented there. TLC has checked each on the instances
above. One lemma per action shows that it is preserved.

*DataTransport.* That a ticket is used once depends on the seats agreeing with what was
claimed (`SeatsClaimed`, `ClaimsSeated`); that nobody is stranded, on tracked sockets being
exactly the accepted ones that have not closed (`TrackedExactly`), on every open socket being
in its tunnel (`OpenHeld`) and on active tunnels holding live members (`ActiveHeld`); that a
closed transport is at rest, on the stages of the shutdown (`CloseStages`). The subtle one is
`HalvesForwarded`: between joined sockets an end that was read has been forwarded, an end that
was written was read on the other side, and a socket destroyed without an error leaves behind
a peer that is destroyed too or has ended both ways. `NoOrphanedHalf` follows. For the ledger,
each action maps to the ledger's action of that ticket, to its seal, or to a stutter; the limit
on pending tickets needs that a new ticket adds one to their number.

*Relay.* Routes and registrations describe each other (`RoutesMatch`), a connection's sets
follow its stage (`ConnStages`), and what is true between turns is tied to the connection whose
chunk is being decoded (`TurnKept`, `Answered`). The transport's own invariant is a conjunct,
and its theorems are used through `INSTANCE DataTransport_proofs WITH Sessions <- Conns`: for a
step of the relay it is enough to know which operation of the transport it calls, and in
which order where it calls several. Every step is then one operation of the transport, or
leaves it alone, or is an `openTunnel` answered on a connection that cannot be written to:
a ticket is drawn and cancelled in the same turn (`PlaneStep`). For the ledger that is one
step as well (`Void`), which is why its refinement carries over to the relay (`LedgerKept`).
`StreamsOwned` then says who
the sessions of an open stream are, `StopStages` what each await of `close()` leaves.

*PeerSession.* Timers belong to the current socket and to the stage it is in
(`TimersCurrent`, `BetweenSockets`), and a session that is over has no live socket
(`OverIsDead`).

*Client, Agent.* A local socket that is open is held by a request, a set-up, a peer or the
shutdown (`LocalHeld`), the sockets of a tunnel that is not joined are in the sets the shutdown
goes through (`CloseStages`), and a ticket in hand belongs to the current control connection
(`HeldTickets`). In the client the requests come before the data connections
(`RequestsFirst`) and readiness is forgotten with the connection (`ReadyOnline`); in the agent
the two dials are in sequence (`ConnectingApart`).

*Startup.* Listeners are bound in order (`BindsInOrder`), and each stage of `start()` and
`close()` has got rid of its part (`StartStages`, `CloseStages`).

*FrameDecoder.* What is kept is exactly the unfinished line up to the offset.

*ByteBridge.* What a program has received, and behind it what waits in the buffer, are the
first bytes read from the other socket, and all of them as long as its own is open
(`InOrder`); an end that was read comes behind the last byte, and so does one that was
forwarded or sent (`EndsBehind`). A socket may be gone for many reasons, but while nothing
broke it has read, forwarded and sent all it had to (`GoneIsDone`): this is what makes the
`end()` of `closePeer` harmless, and an end that a program sees before a break a true one.
`FlowsShallow` gives `BackPressure`: a pipe reads only in front of a buffer below its mark,
and the initial data, which are written without looking, are one chunk. `NothingStalls` needs
in addition that a pipe which waits has bytes before it, whose last will wake it, and that an
end which was read has been forwarded (`NoneForgotten`). In the refinement only what a program can see - it sends, it finishes, it receives a byte or
the end - and the break are steps of `Connection`, and a byte that is received is the next one
because of `InOrder`.

Only model-checked: everything that must eventually happen, since the prover does not treat
`ENABLED` and fairness. This includes the fairness in `ControlSession` (a loss is reported in
the end) and in `Connection` (bytes and ends arrive in the end), whose safety parts are proved.

## 5. Plan

Done: the data plane and its ledger; the control plane composed with it; peer session and
control session; data readiness, client and agent; the bytes of a bridge; frames; start, stop
and the process; the proofs of their invariants, and of the refinements of ledger, control session and
connection as far as they are safety.

Left: `Tunnel`, three bridges in a row (client, relay, agent) as one `Connection`, with the
control plane that sets them up. The parts are there, and each is checked against what it
promises the next; the composition is not.

## 6. Not modelled

- Configuration: the environment is read and validated once, before anything runs; its rules
  are checks of single values.
- Opening a TCP or TLS connection to the relay, logging and tracing, benchmark and test tools:
  no state of the tunnel.
- Encryption: an external library, of which only the outcome shows (a frame decrypts or not).
- Message texts, keep-alive, and durations: a timer may fire at any time once armed. With them
  the numbers of `createBackoff`: the exponential delay may become `Infinity`, and `Math.min`
  with the maximum takes it back.
- `start()` of the agent, which only starts its session.
