------------------------------ MODULE ByteBridge ------------------------------
(***************************************************************************)
(* The bytes of a bridge (src/socket-bridge.js): two sockets, the program  *)
(* at the far end of each, what has arrived and is not read yet, and the   *)
(* write buffers.  Of the bytes only their number in the stream is kept.   *)
(* pipe() reads while the other socket's buffer is below its high-water    *)
(* mark and goes on when it has drained; what came with the handshake is   *)
(* written first.  The owner of the sockets only ever destroys both.       *)
(***************************************************************************)
EXTENDS SocketBridge, Naturals, Sequences

CONSTANTS
  MaxBytes,    \* bound: socket -> the bytes its program sends
  HighWater,   \* writableHighWaterMark
  ChunkSize    \* the most one read returns

ASSUME PairAssumption ==
  /\ \A s \in Sockets : \E p \in Sockets \ {s} : Sockets = {s, p}
  /\ None \notin Sockets
ASSUME BufferAssumption ==
  /\ {HighWater, ChunkSize} \subseteq Nat \ {0}
  /\ MaxBytes \in [Sockets -> Nat]

VARIABLES
  sent,        \* socket -> bytes its program has sent
  ended,       \* sockets whose program has finished sending
  read,        \* socket -> bytes read from it
  buffer,      \* socket -> bytes written to it and not sent yet
  got,         \* socket -> bytes its program has received
  eof,         \* sockets whose program has been told of the end
  paused,      \* sockets whose pipe waits for 'drain'
  piped,       \* the two pipes are in place
  cut,         \* the owner has destroyed the sockets
  reading      \* sockets whose program keeps on reading (chosen at the start)

byteVars == <<sent, ended, read, buffer, got, eof, paused, piped, cut, reading>>
vars == <<bridgeVars, byteVars>>

Other(s) == CHOOSE p \in Sockets : p # s
Range(m, n) == [i \in 1..(n - m) |-> m + i]

Init ==
  /\ life = [s \in Sockets |-> "open"]
  /\ hadError = {} /\ readEnded = {} /\ writeEnded = {}
  /\ bridge = [s \in Sockets |-> None]
  /\ sent = [s \in Sockets |-> 0]
  /\ ended = {}
  /\ read = [s \in Sockets |-> 0]
  /\ buffer = [s \in Sockets |-> <<>>]
  /\ got = [s \in Sockets |-> <<>>]
  /\ eof = {}
  /\ paused = {}
  /\ piped = FALSE /\ cut = FALSE
  /\ reading \in SUBSET Sockets

-----------------------------------------------------------------------------
(* The programs at the ends *)

Send(s) ==
  /\ s \notin ended /\ sent[s] < MaxBytes[s]
  /\ sent' = [sent EXCEPT ![s] = @ + 1]
  /\ UNCHANGED <<bridgeVars, ended, read, buffer, got, eof, paused, piped, cut, reading>>

Finish(s) ==
  /\ s \notin ended
  /\ ended' = ended \cup {s}
  /\ UNCHANGED <<bridgeVars, sent, read, buffer, got, eof, paused, piped, cut, reading>>

\* The pipes that wait when s has sent a byte: at the last one, 'drain' lets the
\* other one flow again.  Fault: only a pipe waiting at s itself.
Waiting_F1(s) == IF Len(buffer[s]) = 1 THEN paused \ {s} ELSE paused
Waiting(s) == IF Len(buffer[s]) = 1 THEN paused \ {Other(s)} ELSE paused

\* The socket sends from its buffer.
Flush(s) ==
  /\ life[s] = "open" /\ buffer[s] # <<>>
  /\ got' = [got EXCEPT ![s] = Append(@, Head(buffer[s]))]
  /\ buffer' = [buffer EXCEPT ![s] = Tail(@)]
  /\ paused' = Waiting(s)
  /\ UNCHANGED <<bridgeVars, sent, ended, read, eof, piped, cut, reading>>

\* 'finish': the buffer is empty and the end is sent.  A socket that is gone
\* ends its connection too.
FlushEnd(s) ==
  /\ s \notin eof
  /\ life[s] = "open" => s \in writeEnded /\ buffer[s] = <<>>
  /\ eof' = eof \cup {s}
  /\ UNCHANGED <<bridgeVars, sent, ended, read, buffer, got, paused, piped, cut, reading>>

-----------------------------------------------------------------------------
(* The bridge *)

\* write() on a socket that is destroyed goes nowhere.
Written(s, bytes) ==
  IF life[s] = "open" THEN [buffer EXCEPT ![s] = @ \o bytes] ELSE buffer

\* What the initial data add to the buffers.  Fault: to the socket they came from.
Initial_F1(first) == [s \in Sockets |-> Written(s, Range(0, first[s]))[s]]
Initial(first) == [s \in Sockets |-> Written(s, Range(0, first[Other(s)]))[s]]

\* bridgeSockets.  Of each stream the first bytes may have been read with the
\* handshake: they are the initial data.
Bridge ==
  /\ \A s \in Sockets : bridge[s] = None /\ life[s] # "closed"
  /\ \E first \in [Sockets -> 0..ChunkSize] :
       /\ \A s \in Sockets : first[s] <= sent[s]
       /\ read' = first
       /\ buffer' = Initial(first)
  /\ bridge' = [s \in Sockets |-> Other(s)]
  /\ piped' = TRUE
  /\ UNCHANGED <<life, hadError, readEnded, writeEnded,
                 sent, ended, got, eof, paused, cut, reading>>

\* write() returns false.  Fault: nobody looks.
Full_F1(bytes) == FALSE
Full(bytes) == Len(bytes) >= HighWater

\* 'data': the pipe writes the chunk to the other socket, and waits if its
\* buffer is full.
Data(s) ==
  /\ piped /\ life[s] = "open" /\ s \notin paused
  /\ \E n \in 1..ChunkSize :
       /\ read[s] + n <= sent[s]
       /\ read' = [read EXCEPT ![s] = @ + n]
       /\ buffer' = Written(Other(s), Range(read[s], read[s] + n))
  /\ paused' = IF Full(buffer'[Other(s)]) THEN paused \cup {s} ELSE paused
  /\ UNCHANGED <<bridgeVars, sent, ended, got, eof, piped, cut, reading>>

\* 'end', behind the last byte, a paused pipe or not: the pipe ends the other
\* socket.
End(s) ==
  /\ piped
  /\ s \in ended /\ read[s] = sent[s]
  /\ SocketEnds(s)
  /\ UNCHANGED byteVars

\* Both halves are over, the buffer is sent: the socket destroys itself.
AutoDestroy(s) ==
  /\ s \in eof
  /\ SocketFinishes(s)
  /\ UNCHANGED byteVars

Fail(s) == SocketFails(s) /\ UNCHANGED byteVars

\* 'close': closePeer takes the pipes away.  Before the bridge it is the set-up
\* that destroys the other socket.
Close(s) ==
  /\ SocketCloses(s, IF bridge[s] = None THEN {Other(s)} ELSE {})
  /\ piped' = FALSE
  /\ UNCHANGED <<sent, ended, read, buffer, got, eof, paused, cut, reading>>

\* The owner shuts down, or the agent's session is lost.
DestroyBoth ==
  /\ ~cut /\ cut' = TRUE
  /\ life' = Destroyed(Sockets)
  /\ UNCHANGED <<hadError, readEnded, writeEnded, bridge,
                 sent, ended, read, buffer, got, eof, paused, piped, reading>>

Next ==
  \/ \E s \in Sockets : \/ Send(s) \/ Finish(s) \/ Flush(s) \/ FlushEnd(s)
                        \/ Data(s) \/ End(s) \/ AutoDestroy(s) \/ Fail(s) \/ Close(s)
  \/ Bridge \/ DestroyBoth

Spec == Init /\ [][Next]_vars

\* Node delivers the events of a socket, and a program that reads takes what
\* the socket sends.  Nothing makes a program send, finish or read.
Fairness ==
  /\ WF_vars(Bridge)
  /\ \A s \in Sockets :
       /\ WF_vars(Data(s)) /\ WF_vars(End(s))
       /\ WF_vars(AutoDestroy(s)) /\ WF_vars(Close(s))
       /\ WF_vars(s \in reading /\ Flush(s))
       /\ WF_vars((s \in reading \/ life[s] # "open") /\ FlushEnd(s))

FairSpec == Spec /\ Fairness

-----------------------------------------------------------------------------
\* Back-pressure: however slowly a program reads, the bridge holds no more for
\* it than what the high-water mark or the initial data let in, and one chunk on
\* top (the pipes, and the initial data that are written past them).
BackPressure ==
  \A s \in Sockets :
    \/ Len(buffer[s]) <= HighWater - 1 + ChunkSize
    \/ Len(buffer[s]) <= 2 * ChunkSize

\* The bridge is never what holds a stream up: while nothing broke and a program
\* has bytes or an end to come, there are bytes in its buffer, or its end can be
\* sent, or its pipe flows from a socket that has more to be read.  No 'drain' is
\* missed, no end is kept back, and no pipe is taken away too early.
NothingStalls ==
  ~cut /\ hadError = {} /\ (\E s \in Sockets : bridge[s] # None) =>
    \A s \in Sockets \ eof :
      LET o == Other(s) IN
      Len(got[s]) < sent[o] \/ o \in ended =>
        \/ buffer[s] # <<>> \/ s \in writeEnded
        \/ /\ piped /\ o \notin paused /\ life[o] = "open"
           /\ read[o] < sent[o] \/ o \in ended \ readEnded

-----------------------------------------------------------------------------
(* The inductive invariant *)

TypeOK ==
  /\ SocketsTypeOK
  /\ {sent, read} \subseteq [Sockets -> Nat]
  /\ {buffer, got} \subseteq [Sockets -> Seq(Nat)]
  /\ {ended, eof, paused, reading} \subseteq SUBSET Sockets
  /\ piped \in BOOLEAN /\ cut \in BOOLEAN

\* Until it is bridged a socket is not read, and nothing is written to it.
BridgedFirst ==
  \/ \A s \in Sockets : bridge[s] = Other(s)
  \/ /\ \A s \in Sockets : bridge[s] = None /\ read[s] = 0 /\ buffer[s] = <<>> /\ got[s] = <<>>
     /\ readEnded = {} /\ writeEnded = {} /\ paused = {} /\ ~piped

\* What a program has received, and behind it what waits for it in the buffer,
\* are the first bytes read from the other socket; all of them, while its own is
\* open.
InOrder ==
  \A s \in Sockets :
    /\ read[s] <= sent[s]
    /\ \A i \in 1..Len(got[s]) : got[s][i] = i
    /\ \A i \in 1..Len(buffer[s]) : buffer[s][i] = Len(got[s]) + i
    /\ Len(got[s]) + Len(buffer[s]) <= read[Other(s)]
    /\ life[s] = "open" => Len(got[s]) + Len(buffer[s]) = read[Other(s)]

\* An end that was read comes behind the last byte, and so does one that was
\* forwarded or sent.
EndsBehind ==
  \A s \in Sockets :
    /\ s \in readEnded => s \in ended /\ read[s] = sent[s]
    /\ s \in writeEnded => Other(s) \in readEnded \/ life[Other(s)] = "closed"
    /\ s \in eof /\ life[s] = "open" => s \in writeEnded /\ buffer[s] = <<>>

\* As long as nothing broke, a socket that is gone has done all it had to.
GoneIsDone ==
  ~cut /\ hadError = {} =>
    \A s \in Sockets :
      /\ s \in writeEnded => Other(s) \in readEnded
      /\ s \in eof => s \in writeEnded /\ buffer[s] = <<>>
      /\ Len(got[s]) + Len(buffer[s]) = read[Other(s)]
      /\ life[s] # "open" => s \in eof \cap readEnded

\* A pipe that flows has little in the buffer before it.
FlowsShallow ==
  \A s \in Sockets :
    Other(s) \notin paused => Len(buffer[s]) < HighWater \/ Len(buffer[s]) <= ChunkSize

IndInv ==
  /\ TypeOK
  /\ BridgedFirst /\ InOrder /\ EndsBehind /\ GoneIsDone
  /\ FlowsShallow /\ BackPressure

\* A pipe that waits has bytes before it whose sending will wake it, an end that
\* was read has been forwarded, and the pipes stay until a socket has closed.
NoneForgotten ==
  /\ \A s \in paused : buffer[Other(s)] # <<>>
  /\ \A s \in readEnded : life[Other(s)] = "open" => Other(s) \in writeEnded
  /\ piped \/ (\A s \in Sockets : bridge[s] = None) \/ \E s \in Sockets : life[s] = "closed"

-----------------------------------------------------------------------------
Stream == INSTANCE Connection WITH
  Ends <- Sockets, broken <- cut \/ hadError # {}

\* The bridge carries the byte streams of a connection in both directions: in
\* order, complete, the end behind the last byte, one direction going on when
\* the other is finished or stuck, and a failure told to both programs
\* (bridgeSockets, closePeer).
ImplementsConnection == Stream!Spec

\* Its safety part: every step is one of the connection, or means nothing to it.
StreamSteps == Stream!Safe
=============================================================================
