----------------------------- MODULE TicketLedger -----------------------------
(***************************************************************************)
(* What the data transport promises about a ticket: it is issued once and  *)
(* only while fewer than MaxPending are waiting, each side joins it at     *)
(* most once, the second side pairs it, and a ticket that was paired or    *)
(* given up never comes back.  Closing gives up every waiting ticket and   *)
(* issues no more.                                                         *)
(***************************************************************************)
EXTENDS Naturals, FiniteSets

CONSTANTS Tickets, MaxPending

Sides == {"client", "agent"}

VARIABLES
  status,  \* ticket -> "unissued", "pending", "paired", "over"
  joined,  \* ticket -> the sides that have joined it
  sealed   \* no ticket is issued any more

vars == <<status, joined, sealed>>

Having(st) == {t \in Tickets : status[t] = st}

Init ==
  /\ status = [t \in Tickets |-> "unissued"]
  /\ joined = [t \in Tickets |-> {}]
  /\ sealed = FALSE

Issue(t) ==
  /\ ~sealed
  /\ status[t] = "unissued"
  /\ Cardinality(Having("pending")) < MaxPending
  /\ status' = [status EXCEPT ![t] = "pending"]
  /\ UNCHANGED <<joined, sealed>>

Join(t, side) ==
  /\ ~sealed
  /\ status[t] = "pending"
  /\ side \notin joined[t]
  /\ joined' = [joined EXCEPT ![t] = @ \cup {side}]
  /\ status' = [status EXCEPT ![t] = IF joined'[t] = Sides THEN "paired" ELSE "pending"]
  /\ UNCHANGED sealed

\* A ticket that cannot be handed to both sides is issued and given up at once.
Void(t) ==
  /\ ~sealed
  /\ status[t] = "unissued"
  /\ Cardinality(Having("pending")) < MaxPending
  /\ status' = [status EXCEPT ![t] = "over"]
  /\ UNCHANGED <<joined, sealed>>

\* Tickets that are waiting are given up together: a session went, a timer
\* fired, a waiting side was lost.
GiveUp(T) ==
  /\ T \subseteq Having("pending")
  /\ status' = [t \in Tickets |-> IF t \in T THEN "over" ELSE status[t]]
  /\ UNCHANGED <<joined, sealed>>

\* Both sides of a paired ticket are gone.
Finish(t) ==
  /\ status[t] = "paired"
  /\ status' = [status EXCEPT ![t] = "over"]
  /\ UNCHANGED <<joined, sealed>>

Seal ==
  /\ ~sealed
  /\ sealed' = TRUE
  /\ status' = [t \in Tickets |-> IF status[t] = "pending" THEN "over" ELSE status[t]]
  /\ UNCHANGED joined

Next ==
  \/ \E t \in Tickets : Issue(t) \/ Void(t) \/ Finish(t)
  \/ \E t \in Tickets, side \in Sides : Join(t, side)
  \/ \E T \in SUBSET Tickets : GiveUp(T)
  \/ Seal

Spec == Init /\ [][Next]_vars
=============================================================================
