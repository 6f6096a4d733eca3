---------------------------- MODULE Startup_proofs ----------------------------
(***************************************************************************)
(* Proofs about Startup, for any number of listeners and of starts.        *)
(***************************************************************************)
EXTENDS Startup, TLAPS

\* What stopping listeners does to each of them.
LEMMA StoppedServers ==
  ASSUME TypeOK, NEW S
  PROVE  /\ Stopped(S) \in [All -> {"none", "binding", "listening", "closing"}]
         /\ \A i \in All : Stopped(S)[i] =
              IF i \in S /\ server[i] = "listening" THEN "closing" ELSE server[i]
  BY DEF TypeOK, Stopped

\* The initial state.
LEMMA InitIndInv == Init => IndInv
<1> SUFFICES ASSUME Init PROVE IndInv
  OBVIOUS
<1>1. starts \in 0..MaxStarts
  BY BoundsAssumption DEF Init
<1>2. TypeOK
  BY <1>1 DEF Init, TypeOK
<1>3. BindsInOrder /\ StartStages /\ CloseStages /\ ExitReasons
  BY DEF Init, BindsInOrder, StartStages, CloseStages, ExitReasons, Quiet
<1> QED
  BY <1>2, <1>3 DEF IndInv

-----------------------------------------------------------------------------
(* Steps *)

\* A shutdown asks for close() at most, and its code is that of the caller.
LEMMA ShutdownAsks ==
  ASSUME TypeOK, NEW code \in {"0", "1"}, Shutdown(code)
  PROVE  /\ closing' \in {closing, "waiting"} /\ (closing' # closing => closing = "no")
         /\ shutdown' \in {shutdown, code}
  BY DEF Shutdown

\* A step that leaves the listeners, their connections and the stages of start() and
\* close() as they are, but for a close() asked for.
LEMMA AsksIndInv ==
  ASSUME IndInv, UNCHANGED <<start, net, cli, exitCode>>,
         session' \in {session, "failed"},
         closing' \in {closing, "waiting"}, closing' # closing => closing = "no",
         failed' \in BOOLEAN, failed => failed',
         signalled' \in BOOLEAN, signalled => signalled',
         killed' \in BOOLEAN,
         shutdown' = shutdown \/ (shutdown' = "0" /\ signalled')
                              \/ (shutdown' = "1" /\ failed')
  PROVE  IndInv'
<1>1. UNCHANGED <<starting, starts, server, conns>>
  BY DEF start, net
<1>2. TypeOK'
  BY <1>1 DEF IndInv, TypeOK
<1>3. BindsInOrder' /\ StartStages'
  BY <1>1 DEF IndInv, BindsInOrder, StartStages, Quiet
<1>4. CloseStages'
  BY <1>1 DEF IndInv, CloseStages, StartSettled
<1>5. ExitReasons'
  BY <1>1 DEF IndInv, ExitReasons
<1> QED
  BY <1>2, <1>3, <1>4, <1>5 DEF IndInv

\* start()
LEMMA StartIndInv ==
  ASSUME IndInv, Start
  PROVE  IndInv'
<1>1. \A i \in All : server[i] = "none" /\ conns[i] = "none"
  BY DEF Start, IndInv, StartStages, Quiet
<1>2. \A i \in All : server'[i] = IF i = 1 THEN "binding" ELSE "none"
  BY <1>1 DEF Start, IndInv, TypeOK
<1>3. /\ starting' = "binding" /\ starts' = starts + 1 /\ closing = "no"
      /\ UNCHANGED <<conns, session, closing, cli, failed, signalled, shutdown, exitCode,
                     killed>>
  BY DEF Start, process
<1>4. TypeOK' /\ starts' # 0
  <2>1. starts' \in 0..MaxStarts /\ starts' # 0
    BY <1>3, BoundsAssumption DEF Start, IndInv, TypeOK
  <2> QED
    BY <1>3, <2>1 DEF Start, IndInv, TypeOK
<1>5. BindsInOrder'
  BY <1>1, <1>2, <1>3 DEF BindsInOrder, All
<1>6. StartStages' /\ CloseStages'
  BY <1>3, <1>4 DEF IndInv, StartStages, CloseStages, Start
<1>7. ExitReasons'
  BY <1>3 DEF Start, IndInv, ExitReasons
<1> QED
  BY <1>4, <1>5, <1>6, <1>7 DEF IndInv

\* A listener is up.
LEMMA ListeningIndInv ==
  ASSUME IndInv, NEW i \in All, Listening(i)
  PROVE  IndInv'
<1>1. /\ server[i] = "binding" /\ starting = "binding"
      /\ closing \in {"no", "waiting"} /\ session # "on" /\ starts # 0
  BY DEF Listening, IndInv, TypeOK, BindsInOrder, StartStages, CloseStages, StartSettled
<1>2. \A j \in All : /\ server[j] = "binding" => j = i
                     /\ j > i => server[j] = "none"
                     /\ server[j] \in {"none", "binding"} => conns[j] = "none"
  BY <1>1 DEF IndInv, BindsInOrder, All
<1>3. /\ UNCHANGED <<starts, conns, closing, cli, failed, signalled, shutdown, exitCode,
                     killed>>
      /\ session' \in {session, "on"}
      /\ starting' \in {"binding", "done"}
      /\ session' = "on" => starting' = "done"
  BY <1>1 DEF Listening, process
<1>4. \A j \in All : server'[j] =
        IF j = i THEN "listening"
        ELSE IF j = i + 1 THEN "binding" ELSE server[j]
  <2>1. CASE i < Listeners
    <3>1. i + 1 \in All /\ i + 1 # i
      BY <2>1, BoundsAssumption DEF All
    <3>2. server' = [server EXCEPT ![i] = "listening", ![i + 1] = "binding"]
      BY <2>1 DEF Listening
    <3> QED
      BY <3>1, <3>2 DEF IndInv, TypeOK
  <2>2. CASE ~(i < Listeners)
    <3>1. \A j \in All : j # i + 1
      BY <2>2, BoundsAssumption DEF All
    <3>2. server' = [server EXCEPT ![i] = "listening"]
      BY <2>2 DEF Listening
    <3> QED
      BY <3>1, <3>2 DEF IndInv, TypeOK
  <2> QED
    BY <2>1, <2>2
<1>5. i < Listeners => starting' = "binding"
  BY <1>1 DEF Listening
<1>6. \A j \in All : server'[j] = "binding" => j = i + 1 /\ i < Listeners
  BY <1>2, <1>4, BoundsAssumption DEF All
<1>7. TypeOK'
  BY <1>3 DEF Listening, IndInv, TypeOK
<1>8. BindsInOrder'
  <2> SUFFICES ASSUME NEW j \in All
               PROVE  /\ server'[j] \in {"none", "binding"} => conns'[j] = "none"
                      /\ server'[j] = "binding" =>
                           /\ starting' = "binding"
                           /\ \A k \in All : k > j => server'[k] = "none"
    BY DEF BindsInOrder
  <2>1. server'[j] \in {"none", "binding"} => conns'[j] = "none"
    <3>1. j = i + 1 => server[j] = "none"
      BY <1>2 DEF All
    <3> QED
      BY <1>2, <1>3, <1>4, <3>1
  <2>2. server'[j] = "binding" => \A k \in All : k > j => server'[k] = "none"
    BY <1>2, <1>4, <1>6 DEF All
  <2> QED
    BY <1>5, <1>6, <2>1, <2>2
<1>9. StartStages' /\ CloseStages' /\ ExitReasons'
  BY <1>1, <1>3 DEF IndInv, StartStages, CloseStages, ExitReasons
<1> QED
  BY <1>7, <1>8, <1>9 DEF IndInv

\* A port that cannot be bound.
LEMMA BindFailsIndInv ==
  ASSUME IndInv, NEW i \in All, BindFails(i)
  PROVE  IndInv'
<1>1. /\ server[i] = "binding" /\ starting = "binding"
      /\ closing \in {"no", "waiting"} /\ session # "on" /\ starts # 0
  BY DEF BindFails, IndInv, TypeOK, BindsInOrder, StartStages, CloseStages, StartSettled
<1>2. \A j \in All : /\ server[j] = "binding" => j = i
                     /\ server[j] \in {"none", "binding"} => conns[j] = "none"
  BY <1>1 DEF IndInv, BindsInOrder, All
<1>3. /\ UNCHANGED <<starts, conns, session, closing, cli, failed, signalled, shutdown,
                     exitCode, killed>>
      /\ starting' = "rollback"
  BY DEF BindFails, process
<1>4. \A j \in All : server'[j] =
        IF j = i THEN "none" ELSE IF server[j] = "listening" THEN "closing" ELSE server[j]
  BY StoppedServers DEF BindFails, IndInv
<1>5. \A j \in All : server'[j] \in {"none", "closing"}
  BY <1>2, <1>4 DEF IndInv, TypeOK
<1>6. TypeOK'
  BY <1>3, StoppedServers DEF BindFails, IndInv, TypeOK
<1>7. BindsInOrder'
  BY <1>1, <1>2, <1>3, <1>4, <1>5 DEF BindsInOrder
<1>8. StartStages' /\ CloseStages' /\ ExitReasons'
  BY <1>1, <1>3, <1>5 DEF IndInv, StartStages, CloseStages, ExitReasons
<1> QED
  BY <1>6, <1>7, <1>8 DEF IndInv

\* start() is rejected, and may be called again.
LEMMA StartRejectsIndInv ==
  ASSUME IndInv, StartRejects
  PROVE  IndInv'
<1>1. /\ closing' \in {closing, "waiting"} /\ (closing' # closing => closing = "no")
      /\ shutdown' \in {shutdown, "1"}
  BY ShutdownAsks DEF StartRejects, StartFailed, IndInv
<1>2. Quiet'
  BY DEF StartRejects, net, IndInv, TypeOK, BindsInOrder, StartStages, Quiet
<1>3. starting' = "none" /\ failed'
      /\ UNCHANGED <<starts, server, conns, session, cli, signalled, exitCode, killed>>
  BY DEF StartRejects, net
<1>4. TypeOK'
  BY <1>1, <1>3 DEF IndInv, TypeOK
<1>5. BindsInOrder' /\ StartStages'
  BY <1>2, <1>3 DEF IndInv, BindsInOrder, StartStages, Quiet
<1>6. CloseStages'
  BY <1>1, <1>2, <1>3 DEF CloseStages, IndInv, StartSettled, Quiet
<1>7. ExitReasons'
  BY <1>1, <1>3 DEF IndInv, ExitReasons
<1> QED
  BY <1>4, <1>5, <1>6, <1>7 DEF IndInv

\* Connections come only to a listener that is up, and are served only while the
\* application is open.
LEMMA ConnsIndInv ==
  ASSUME IndInv, NEW i \in All, NEW c \in {"none", "open", "refused"},
         c # "none" => server[i] = "listening", c = "open" => closing = "no",
         conns' = [conns EXCEPT ![i] = c],
         UNCHANGED <<start, server, session, closing, process>>
  PROVE  IndInv'
<1>1. \A j \in All : conns'[j] = IF j = i THEN c ELSE conns[j]
  BY DEF IndInv, TypeOK
<1>2. UNCHANGED <<starting, starts, server, session, closing, cli, failed, signalled,
                  shutdown, exitCode, killed>>
  BY DEF start, process
<1>3. TypeOK'
  BY <1>2 DEF IndInv, TypeOK
<1>4. BindsInOrder' /\ StartStages'
  BY <1>1, <1>2 DEF IndInv, BindsInOrder, StartStages, Quiet
<1>5. CloseStages'
  BY <1>1, <1>2 DEF IndInv, TypeOK, CloseStages, StartSettled
<1>6. ExitReasons'
  BY <1>2 DEF IndInv, ExitReasons
<1> QED
  BY <1>3, <1>4, <1>5, <1>6 DEF IndInv

\* server.close() is done.
LEMMA ServerClosesIndInv ==
  ASSUME IndInv, NEW i \in All, ServerCloses(i)
  PROVE  IndInv'
<1>1. \A j \in All : server'[j] = IF j = i THEN "none" ELSE server[j]
  BY DEF ServerCloses, IndInv, TypeOK
<1>2. UNCHANGED <<starting, starts, conns, session, closing, cli, failed, signalled,
                  shutdown, exitCode, killed>>
  BY DEF ServerCloses, start, process
<1>3. TypeOK'
  BY <1>2 DEF ServerCloses, IndInv, TypeOK
<1>4. BindsInOrder' /\ StartStages'
  BY <1>1, <1>2 DEF ServerCloses, IndInv, BindsInOrder, StartStages, Quiet
<1>5. CloseStages' /\ ExitReasons'
  BY <1>1, <1>2 DEF IndInv, CloseStages, StartSettled, ExitReasons
<1> QED
  BY <1>3, <1>4, <1>5 DEF IndInv

\* The stages of close().
LEMMA CloseIndInv ==
  ASSUME IndInv, StopListening \/ DestroySockets \/ CloseSession \/ CloseResolves
  PROVE  IndInv'
<1>1. CASE StopListening
  <2>1. \A j \in All : server'[j] =
          IF server[j] = "listening" THEN "closing" ELSE server[j]
    BY <1>1, StoppedServers DEF StopListening, IndInv
  <2>2. /\ UNCHANGED <<starting, starts, conns, session, cli, failed, signalled,
                       shutdown, exitCode, killed>>
        /\ closing = "waiting" /\ closing' = "draining" /\ StartSettled
    BY <1>1 DEF StopListening, start, process
  <2>3. \A j \in All : server[j] # "binding"
    BY <2>2 DEF IndInv, BindsInOrder, StartSettled
  <2>4. TypeOK'
    BY <1>1, <2>2, StoppedServers DEF StopListening, IndInv, TypeOK
  <2>5. BindsInOrder' /\ StartStages'
    BY <2>1, <2>2, <2>3 DEF IndInv, BindsInOrder, StartStages, Quiet
  <2>6. CloseStages'
    BY <2>1, <2>2, <2>3 DEF IndInv, TypeOK, CloseStages, StartSettled
  <2>7. ExitReasons'
    BY <2>2 DEF IndInv, ExitReasons
  <2> QED
    BY <2>4, <2>5, <2>6, <2>7 DEF IndInv
<1>2. CASE DestroySockets
  <2>1. \A j \in All : conns'[j] = IF conns[j] = "open" THEN "dying" ELSE conns[j]
    BY <1>2 DEF DestroySockets
  <2>2. /\ UNCHANGED <<starting, starts, server, session, cli, failed, signalled,
                       shutdown, exitCode, killed>>
        /\ closing = "draining" /\ closing' = "destroying"
    BY <1>2 DEF DestroySockets, start, process
  <2>3. TypeOK'
    BY <1>2, <2>2 DEF DestroySockets, IndInv, TypeOK
  <2>4. BindsInOrder' /\ StartStages' /\ ExitReasons'
    BY <2>1, <2>2 DEF IndInv, BindsInOrder, StartStages, Quiet, ExitReasons
  <2>5. CloseStages'
    BY <2>1, <2>2 DEF IndInv, CloseStages, StartSettled
  <2> QED
    BY <2>3, <2>4, <2>5 DEF IndInv
<1>3. CASE CloseSession
  <2>1. /\ UNCHANGED <<starting, starts, server, conns, cli, failed, signalled,
                       shutdown, exitCode, killed>>
        /\ closing = "destroying" /\ closing' = "listeners"
        /\ session' \in {session, "off"} /\ session' # "on"
        /\ \A j \in All : conns[j] \in {"none", "refused"}
    BY <1>3 DEF CloseSession, start, net, process, IndInv, TypeOK, CloseStages
  <2>2. TypeOK'
    BY <2>1 DEF IndInv, TypeOK
  <2>3. BindsInOrder' /\ StartStages' /\ CloseStages' /\ ExitReasons'
    BY <2>1
    DEF IndInv, BindsInOrder, StartStages, Quiet, CloseStages, StartSettled, ExitReasons
  <2> QED
    BY <2>2, <2>3 DEF IndInv
<1>4. CASE CloseResolves
  <2>1. /\ UNCHANGED <<starting, starts, server, conns, session, cli, failed, signalled,
                       shutdown, killed>>
        /\ closing = "listeners" /\ closing' = "closed" /\ exitCode' = shutdown
        /\ \A j \in All : server[j] = "none"
    BY <1>4 DEF CloseResolves, start, net
  <2>2. TypeOK'
    BY <2>1 DEF IndInv, TypeOK
  <2>3. BindsInOrder' /\ StartStages' /\ CloseStages' /\ ExitReasons'
    BY <2>1
    DEF IndInv, BindsInOrder, StartStages, Quiet, CloseStages, StartSettled, ExitReasons
  <2> QED
    BY <2>2, <2>3 DEF IndInv
<1> QED
  BY <1>1, <1>2, <1>3, <1>4

\* Every step preserves the invariant.
LEMMA NextIndInv == IndInv /\ [Next]_vars => IndInv'
<1> SUFFICES ASSUME IndInv, [Next]_vars PROVE IndInv'
  OBVIOUS
<1>1. CASE CreateFails
  <2>1. UNCHANGED <<starting, starts, server, conns, session, closing, cli, signalled,
                    shutdown, killed>>
        /\ cli /\ starts = 0 /\ failed' = TRUE /\ exitCode' = "1"
    BY <1>1 DEF CreateFails, start, net
  <2>2. TypeOK' /\ ExitReasons'
    BY <2>1 DEF IndInv, TypeOK, ExitReasons
  <2>3. BindsInOrder' /\ StartStages' /\ CloseStages'
    BY <2>1 DEF IndInv, BindsInOrder, StartStages, Quiet, CloseStages, StartSettled
  <2> QED
    BY <2>2, <2>3 DEF IndInv
<1>2. CASE Start
  BY <1>2, StartIndInv
<1>3. CASE StartRejects
  BY <1>3, StartRejectsIndInv
<1>4. CASE Fatal
  <2>1. TypeOK /\ Shutdown("1")
    BY <1>4 DEF Fatal, OnFatal, IndInv
  <2> QED
    BY <1>4, <2>1, ShutdownAsks, AsksIndInv DEF Fatal, TypeOK
<1>5. ASSUME NEW i \in All, Listening(i) PROVE IndInv'
  BY <1>5, ListeningIndInv
<1>6. ASSUME NEW i \in All, BindFails(i) PROVE IndInv'
  BY <1>6, BindFailsIndInv
<1>7. ASSUME NEW i \in All, Accept(i) \/ AcceptServed(i) \/ ConnsClose(i) PROVE IndInv'
  BY <1>7, ConnsIndInv DEF Accept, AcceptServed, ConnsClose
<1>8. ASSUME NEW i \in All, ServerCloses(i) PROVE IndInv'
  BY <1>8, ServerClosesIndInv
<1>9. CASE Close
  BY <1>9, AsksIndInv DEF Close, process, IndInv, TypeOK
<1>10. CASE StopListening \/ DestroySockets \/ CloseSession \/ CloseResolves
  BY <1>10, CloseIndInv
<1>11. CASE Signal
  <2>1. TypeOK
    BY DEF IndInv
  <2> QED
    BY <1>11, <2>1, ShutdownAsks, AsksIndInv DEF Signal, TypeOK
<1>12. CASE UNCHANGED vars
  BY <1>12, AsksIndInv DEF vars, process, IndInv, TypeOK
<1> QED
  BY <1>1, <1>2, <1>3, <1>4, <1>5, <1>6, <1>7, <1>8, <1>9, <1>10, <1>11, <1>12
  DEF Next, Step

-----------------------------------------------------------------------------
(* Theorems *)

\* The inductive invariant: listeners bound in order, and what the stages of start()
\* and close() have left.
THEOREM Invariant == Spec => []IndInv
  BY InitIndInv, NextIndInv, PTL DEF Spec

\* No port and no connection is left by a start() that failed or a close() that
\* resolved, in whatever way the two overlapped.
THEOREM NoPortIsLeft == Spec => []PortsReleased
<1>1. IndInv => PortsReleased
  BY DEF IndInv, BindsInOrder, StartStages, CloseStages, StartSettled, PortsReleased, Quiet
<1> QED
  BY <1>1, Invariant, PTL

\* The exit code tells why the process ended, and nothing keeps it from ending.
THEOREM ExitCodeIsTrue == Spec => []ExitCodeTrue
<1>1. IndInv => ExitCodeTrue
  BY DEF IndInv, BindsInOrder, StartStages, CloseStages, ExitReasons, ExitCodeTrue, Quiet
<1> QED
  BY <1>1, Invariant, PTL
=============================================================================
