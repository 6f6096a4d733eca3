------------------------------- MODULE Startup -------------------------------
(***************************************************************************)
(* start() and close() of an application that listens, and the process     *)
(* around it: src/client.js binds its listeners one after the other and    *)
(* then starts its control session, src/relay.js binds a single one;       *)
(* runCli (src/lifecycle.js) turns signals and fatal errors into one       *)
(* shutdown and an exit code.  A program that embeds the application calls *)
(* start() and close() when it likes.                                      *)
(*                                                                         *)
(* Of a listener's connections it matters only whether some are open.      *)
(***************************************************************************)
EXTENDS Naturals

CONSTANTS
  Listeners,  \* how many listeners: localPorts.length, or 1
  MaxStarts   \* bound: attempts at starting

ASSUME BoundsAssumption == Listeners \in Nat \ {0} /\ MaxStarts \in Nat

VARIABLES
  cli,        \* under runCli (chosen at the start)
  starting,   \* startPromise: "none" (undefined), "binding", "rollback", "done"
  starts,     \* attempts made
  server,     \* listener -> "none", "binding", "listening", "closing"
  conns,      \* listener -> its connections: "none", "open", "dying" (destroyed by
              \* close(), which awaits them), "refused" (destroyed on arrival)
  session,    \* control session: "off", "on", "failed"
  closing,    \* close(): "no", "waiting", "draining", "destroying", "listeners", "closed"
  failed,     \* something reported a failure: a start that failed, or 'fatal'
  signalled,  \* a signal was handled
  shutdown,   \* shutdownPromise: the exit code it will set, or "none"
  exitCode,   \* process.exitCode, or "none"
  killed      \* ended by a signal nobody handles

start == <<starting, starts>>
net == <<server, conns>>
process == <<cli, failed, signalled, shutdown, exitCode, killed>>
vars == <<start, net, session, closing, process>>

All == 1..Listeners

TypeOK ==
  /\ {cli, failed, signalled, killed} \subseteq BOOLEAN
  /\ starting \in {"none", "binding", "rollback", "done"}
  /\ starts \in 0..MaxStarts
  /\ server \in [All -> {"none", "binding", "listening", "closing"}]
  /\ conns \in [All -> {"none", "open", "dying", "refused"}]
  /\ session \in {"off", "on", "failed"}
  /\ closing \in {"no", "waiting", "draining", "destroying", "listeners", "closed"}
  /\ {shutdown, exitCode} \subseteq {"0", "1", "none"}

Init ==
  /\ cli \in BOOLEAN
  /\ starting = "none" /\ starts = 0
  /\ server = [i \in All |-> "none"]
  /\ conns = [i \in All |-> "none"]
  /\ session = "off"
  /\ closing = "no"
  /\ failed = FALSE /\ signalled = FALSE
  /\ shutdown = "none" /\ exitCode = "none"
  /\ killed = FALSE

-----------------------------------------------------------------------------
(* Helpers *)

\* stopListening, for each listener of S: a closing server waits for its
\* connections.
Stopped(S) ==
  [i \in All |-> IF i \in S /\ server[i] = "listening" THEN "closing" ELSE server[i]]

\* shutdown(): the first one decides the exit code, takes the signal handlers
\* away and calls close().
Shutdown(code) ==
  IF cli /\ shutdown = "none"
  THEN shutdown' = code /\ closing' = IF closing = "no" THEN "waiting" ELSE closing
  ELSE UNCHANGED <<shutdown, closing>>

-----------------------------------------------------------------------------
(* start() *)

\* Nothing to do while one is under way or done, or when closing (rejected).
\* runCli starts once.
Start ==
  /\ closing = "no" /\ starting = "none"
  /\ starts < MaxStarts /\ (cli => starts = 0 /\ ~failed)
  /\ starting' = "binding" /\ starts' = starts + 1
  /\ server' = [server EXCEPT ![1] = "binding"]
  /\ UNCHANGED <<conns, session, closing, process>>

\* 'listening': the next port; after the last one the control session, unless
\* it has failed already.
Listening(i) ==
  /\ server[i] = "binding"
  /\ IF i < Listeners
     THEN /\ server' = [server EXCEPT ![i] = "listening", ![i + 1] = "binding"]
          /\ UNCHANGED <<starting, session>>
     ELSE /\ server' = [server EXCEPT ![i] = "listening"]
          /\ starting' = "done"
          /\ session' = IF session = "off" THEN "on" ELSE session
  /\ UNCHANGED <<starts, conns, closing, process>>

\* A port that cannot be bound: the listeners before it are closed again.
BindFails(i) ==
  /\ server[i] = "binding"
  /\ server' = [Stopped(All) EXCEPT ![i] = "none"]
  /\ starting' = "rollback"
  /\ UNCHANGED <<starts, conns, session, closing, process>>

\* runCli's catch of start(): a failure.  Fault: an exit like any other.
StartFailed_F1 == Shutdown("0")
StartFailed == Shutdown("1")

\* The rejection comes after the last of them; start() may be called again.
StartRejects ==
  /\ starting = "rollback" /\ \A i \in All : server[i] = "none"
  /\ starting' = "none"
  /\ failed' = TRUE
  /\ StartFailed
  /\ UNCHANGED <<starts, net, session, cli, signalled, exitCode, killed>>

-----------------------------------------------------------------------------
(* Listeners and their connections *)

\* A connection that is not served is destroyed at once: while the control
\* session is not up, or the application is closing.  No set keeps it.
Accept(i) ==
  /\ server[i] = "listening" /\ conns[i] = "none"
  /\ conns' = [conns EXCEPT ![i] = "refused"]
  /\ UNCHANGED <<start, server, session, closing, process>>

\* Once started, also after a 'fatal': the relay goes on serving until it is
\* closed (the client does not, its session being over).
AcceptServed(i) ==
  /\ server[i] = "listening" /\ conns[i] = "none"
  /\ starting = "done" /\ closing = "no"
  /\ conns' = [conns EXCEPT ![i] = "open"]
  /\ UNCHANGED <<start, server, session, closing, process>>

\* 'close' of the last connection: certain if they are destroyed.
ConnsClose(i) ==
  /\ conns[i] # "none"
  /\ conns' = [conns EXCEPT ![i] = "none"]
  /\ UNCHANGED <<start, server, session, closing, process>>

\* server.close() is done.
ServerCloses(i) ==
  /\ server[i] = "closing" /\ conns[i] = "none"
  /\ server' = [server EXCEPT ![i] = "none"]
  /\ UNCHANGED <<start, conns, session, closing, process>>

\* runCli's 'fatal' handler.  Fault: there is none.
OnFatal_F1 == UNCHANGED <<shutdown, closing>>
OnFatal == Shutdown("1")

\* A listener breaks, or the relay refuses the session for good: 'fatal', once.
Fatal ==
  /\ \/ session = "on"
     \/ session = "off" /\ \E i \in All : server[i] = "listening"
  /\ session' = "failed"
  /\ failed' = TRUE
  /\ OnFatal
  /\ UNCHANGED <<start, net, cli, signalled, exitCode, killed>>

-----------------------------------------------------------------------------
(* close() *)

\* The embedding program calls close(), perhaps before or during start().
Close ==
  /\ ~cli /\ closing = "no"
  /\ closing' = "waiting"
  /\ UNCHANGED <<start, net, session, process>>

\* startPromise?.catch(): a start under way is waited for.  Fault: it is not.
StartSettled_F1 == TRUE
StartSettled == starting \notin {"binding", "rollback"}

\* Then nothing is accepted any more, and streams have time to drain.
StopListening ==
  /\ closing = "waiting" /\ StartSettled
  /\ closing' = "draining"
  /\ server' = Stopped(All)
  /\ UNCHANGED <<start, conns, session, process>>

\* Streams have closed or their time is over (at once if forced).  Fault: the
\* listeners are awaited first.
DrainOver_F1 == \A i \in All : server[i] = "none"
DrainOver == TRUE

DestroySockets ==
  /\ closing = "draining" /\ DrainOver
  /\ closing' = "destroying"
  /\ conns' = [i \in All |-> IF conns[i] = "open" THEN "dying" ELSE conns[i]]
  /\ UNCHANGED <<start, server, session, process>>

\* destroySockets has resolved, and the control session is closed.  Connections
\* that were refused are left to their server.
CloseSession ==
  /\ closing = "destroying" /\ \A i \in All : conns[i] # "dying"
  /\ closing' = "listeners"
  /\ session' = IF session = "on" THEN "off" ELSE session
  /\ UNCHANGED <<start, net, process>>

\* The listeners are awaited last; a shutdown of runCli sets the exit code.
CloseResolves ==
  /\ closing = "listeners" /\ \A i \in All : server[i] = "none"
  /\ closing' = "closed"
  /\ exitCode' = shutdown
  /\ UNCHANGED <<start, net, session, cli, failed, signalled, shutdown, killed>>

-----------------------------------------------------------------------------
(* The process *)

\* SIGINT or SIGTERM.  Once a shutdown has begun nobody handles them, and the
\* process ends at once.
Signal ==
  /\ cli /\ starts > 0
  /\ IF shutdown = "none"
     THEN signalled' = TRUE /\ Shutdown("0") /\ UNCHANGED killed
     ELSE killed' = TRUE /\ UNCHANGED <<signalled, shutdown, closing>>
  /\ UNCHANGED <<start, net, session, cli, failed, exitCode>>

\* createApplication throws: a bad configuration.
CreateFails ==
  /\ cli /\ starts = 0 /\ ~failed
  /\ failed' = TRUE /\ exitCode' = "1"
  /\ UNCHANGED <<start, net, session, closing, cli, signalled, shutdown, killed>>

Step ==
  \/ CreateFails \/ Start \/ StartRejects \/ Fatal
  \/ \E i \in All : \/ Listening(i) \/ BindFails(i) \/ Accept(i) \/ AcceptServed(i)
                    \/ ConnsClose(i) \/ ServerCloses(i)
  \/ Close \/ StopListening \/ DestroySockets \/ CloseSession \/ CloseResolves \/ Signal

Next == ~killed /\ Step

Spec == Init /\ [][Next]_vars

\* Binding has an outcome, timers fire and events are delivered; a connection
\* that is not destroyed may stay for ever.
Fairness ==
  /\ \A i \in All :
       /\ WF_vars(~killed /\ (Listening(i) \/ BindFails(i)))
       /\ WF_vars(~killed /\ conns[i] # "open" /\ ConnsClose(i))
       /\ WF_vars(~killed /\ ServerCloses(i))
  /\ WF_vars(~killed /\ StartRejects)
  /\ WF_vars(~killed /\ (StopListening \/ DestroySockets \/ CloseSession \/ CloseResolves))

FairSpec == Spec /\ Fairness

-----------------------------------------------------------------------------
(* Properties *)

Quiet ==
  /\ \A i \in All : server[i] = "none" /\ conns[i] = "none"
  /\ session # "on"

\* An application that is not started holds no port and no connection, also
\* after a start that failed half-way; one whose close() has resolved never will
\* again, however start() and close() overlapped (start, stopListening, close).
PortsReleased ==
  /\ starting = "none" => Quiet
  /\ closing = "closed" => Quiet /\ starting \notin {"binding", "rollback"}

\* The exit code is 0 only if somebody asked the process to stop, and 1 only if
\* something failed; it is set when nothing is left that would keep the process
\* from ending (runCli).
ExitCodeTrue ==
  /\ exitCode = "0" => signalled
  /\ exitCode = "1" => failed
  /\ exitCode # "none" => Quiet

\* The inductive invariant behind the two.  Listeners are bound in order, by a
\* start() that has not settled; one that is not up has no connections.
BindsInOrder ==
  \A i \in All :
    /\ server[i] \in {"none", "binding"} => conns[i] = "none"
    /\ server[i] = "binding" =>
         /\ starting = "binding"
         /\ \A j \in All : j > i => server[j] = "none"

\* What each outcome of start() leaves: nothing, or closing listeners.
StartStages ==
  /\ starting = "none" => Quiet
  /\ starting = "rollback" => \A i \in All : server[i] \in {"none", "closing"}
  /\ session = "on" => starting = "done"
  /\ starts = 0 => starting = "none"

\* What each stage of close() has got rid of.
CloseStages ==
  /\ closing \notin {"no", "waiting"} =>
       /\ StartSettled
       /\ \A i \in All : server[i] \in {"none", "closing"}
  /\ closing = "destroying" => \A i \in All : conns[i] # "open"
  /\ closing \in {"listeners", "closed"} =>
       session # "on" /\ \A i \in All : conns[i] \in {"none", "refused"}
  /\ closing = "closed" => \A i \in All : server[i] = "none"

\* Why the process ends, and with which code.
ExitReasons ==
  /\ shutdown = "0" => signalled
  /\ shutdown = "1" => failed
  /\ exitCode = "0" => signalled
  /\ exitCode = "1" => failed
  /\ exitCode # "none" => closing = "closed" \/ (cli /\ starts = 0 /\ failed)

IndInv == TypeOK /\ BindsInOrder /\ StartStages /\ CloseStages /\ ExitReasons

\* Every start() and every close() settles: close() although server.close()
\* waits for connections that only close() itself destroys.
CallsSettle ==
  /\ starting \in {"binding", "rollback"} ~> starting \in {"none", "done"} \/ killed
  /\ closing # "no" ~> closing = "closed" \/ killed

\* Under runCli whatever failed, and the first signal, ends the process.
FailureEnds ==
  cli /\ (failed \/ signalled) ~> exitCode # "none" \/ killed
=============================================================================
