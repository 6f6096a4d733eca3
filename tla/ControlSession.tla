---------------------------- MODULE ControlSession ----------------------------
(***************************************************************************)
(* What a peer session (PeerSession) promises to the client or the agent   *)
(* that owns it: the states of its control connection as the callbacks and *)
(* send() show them.  There is one connection at a time; it is usable      *)
(* between its registration and its loss; once the session has failed or   *)
(* been closed none is usable, and after the last one no other is made.    *)
(* A registration can still be reported on a connection that is lost       *)
(* already: when it came in the same chunk as the frame that ended it.     *)
(***************************************************************************)
VARIABLES
  link,  \* "none"; "connecting", "open" (TCP), "lost": not registered;
         \* "up", "broken": registered, and the loss not reported before "none"
  over   \* failed for good, or closed

Init == link = "none" /\ over = FALSE

Connects == link = "none" /\ ~over /\ link' = "connecting" /\ UNCHANGED over

TcpUp == link = "connecting" /\ link' = "open" /\ UNCHANGED over

Registers ==
  /\ \/ link = "open" /\ link' = "up"
     \/ link = "lost" /\ link' = "broken"
  /\ UNCHANGED over

\* What destroying the connection makes of the link.
Cut == CASE link \in {"connecting", "open"} -> "lost"
         [] link = "up" -> "broken"
         [] OTHER -> link

Breaks == link \in {"connecting", "open", "up"} /\ link' = Cut /\ UNCHANGED over

Closes == link \in {"lost", "broken"} /\ link' = "none" /\ UNCHANGED over

\* fail() or close(), whichever comes first.
Finishes == ~over /\ over' = TRUE /\ link' = Cut

Next == Connects \/ TcpUp \/ Registers \/ Breaks \/ Closes \/ Finishes

vars == <<link, over>>

Safe == Init /\ [][Next]_vars

Spec == Safe /\ WF_vars(Closes)
=============================================================================
