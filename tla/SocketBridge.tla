----------------------------- MODULE SocketBridge -----------------------------
(***************************************************************************)
(* Sockets and the byte bridge between two of them (src/socket-bridge.js,  *)
(* on Node's net.Socket), without the bytes: of a stream only its two ends *)
(* are left.  A socket's destroy() takes effect at once while its 'close'  *)
(* event is delivered later, so any event of another socket may come in    *)
(* between: life "destroyed", then "closed".  Modules that own sockets     *)
(* build their operations and 'close' handlers from these parts.           *)
(***************************************************************************)
CONSTANTS
  Sockets,     \* each one is a fresh TCP connection, never reused
  None         \* "undefined"

VARIABLES
  life,        \* socket -> "new", "open", "destroyed", "closed"
  hadError,    \* sockets destroyed by an error: what 'close' reports
  readEnded,   \* sockets that have emitted 'end'
  writeEnded,  \* sockets on which end() was called
  bridge       \* socket -> the socket bridgeSockets joined it with

bridgeVars == <<life, hadError, readEnded, writeEnded, bridge>>

SocketsTypeOK ==
  /\ life \in [Sockets -> {"new", "open", "destroyed", "closed"}]
  /\ hadError \in SUBSET Sockets
  /\ readEnded \in SUBSET Sockets
  /\ writeEnded \in SUBSET Sockets
  /\ bridge \in [Sockets -> Sockets \cup {None}]

SocketsInit ==
  /\ life = [s \in Sockets |-> "new"]
  /\ hadError = {}
  /\ readEnded = {}
  /\ writeEnded = {}
  /\ bridge = [s \in Sockets |-> None]

\* A name ending in _F1, _F2, ... is a seeded fault of the definition it is named
\* after: it is used by no specification, only substituted for the definition to
\* see that a run can tell.

\* destroy() on each socket of S that is not destroyed yet.
Destroyed(S) ==
  [s \in Sockets |-> IF s \in S /\ life[s] = "open" THEN "destroyed" ELSE life[s]]

\* Joining two sockets: each is piped into the other.  An 'end' one of them has
\* emitted before is forwarded.
Bridged(left, right) == [bridge EXCEPT ![left] = right, ![right] = left]
Forwarded(left, right) ==
  {p \in {left, right} : \E q \in {left, right} \ {p} : q \in readEnded}

\* A network error: 'error', then later 'close' with hadError.
SocketFails(s) ==
  /\ life[s] = "open"
  /\ life' = [life EXCEPT ![s] = "destroyed"]
  /\ hadError' = hadError \cup {s}
  /\ UNCHANGED <<readEnded, writeEnded, bridge>>

\* The remote end finished sending: 'end'; a live pipe ends the bridged peer.
SocketEnds(s) ==
  /\ life[s] = "open"
  /\ s \notin readEnded
  /\ readEnded' = readEnded \cup {s}
  /\ writeEnded' = writeEnded \cup {p \in Sockets : p = bridge[s] /\ life[p] = "open"}
  /\ UNCHANGED <<life, hadError, bridge>>

\* Both halves are over: the socket destroys itself (autoDestroy).
SocketFinishes(s) ==
  /\ life[s] = "open"
  /\ s \in readEnded \cap writeEnded
  /\ life' = [life EXCEPT ![s] = "destroyed"]
  /\ UNCHANGED <<hadError, readEnded, writeEnded, bridge>>

\* An error is treated as a clean close.
PeerToDestroy_F1(s) == {}

\* closePeer: the socket a failed s takes down, and the one a clean s ends.
PeerToDestroy(s) == IF s \in hadError THEN {bridge[s]} \ {None} ELSE {}
PeerToEnd(s) ==
  {p \in Sockets : p = bridge[s] /\ s \notin hadError /\ life[p] = "open"}

\* 'close' of a destroyed socket whose handlers destroy the sockets S as well.
SocketCloses(s, S) ==
  /\ life[s] = "destroyed"
  /\ life' = [Destroyed(S \cup PeerToDestroy(s)) EXCEPT ![s] = "closed"]
  /\ writeEnded' = writeEnded \cup PeerToEnd(s)
  /\ UNCHANGED <<hadError, readEnded, bridge>>
=============================================================================
