------------------------------ MODULE Connection ------------------------------
(***************************************************************************)
(* What a bridge promises the two programs at its ends: the byte stream of *)
(* one connection, in each direction on its own.  Until the connection     *)
(* breaks, the bytes come in order, none is lost or made up, and the end   *)
(* comes after the last of them; a break ends both directions.  After a    *)
(* break an end may come early: it looks like any other end.               *)
(***************************************************************************)
EXTENDS Naturals

CONSTANTS
  Ends,      \* the two ends
  MaxBytes   \* bound: end -> the bytes it sends

VARIABLES
  sent,      \* end -> how many bytes it has sent: 1, 2, ...
  ended,     \* the ends that have finished sending
  got,       \* end -> the bytes it has received
  eof,       \* the ends that have been told that no more will come
  broken,    \* the connection has been cut
  reading    \* the ends that keep on reading; the others may stop at any time

vars == <<sent, ended, got, eof, broken, reading>>

Bytes(n) == [i \in 1..n |-> i]
Far(e) == CHOOSE f \in Ends : f # e

Init ==
  /\ sent = [e \in Ends |-> 0]
  /\ ended = {}
  /\ got = [e \in Ends |-> <<>>]
  /\ eof = {}
  /\ broken = FALSE
  /\ reading \in SUBSET Ends

Send(e) ==
  /\ e \notin ended /\ sent[e] < MaxBytes[e]
  /\ sent' = [sent EXCEPT ![e] = @ + 1]
  /\ UNCHANGED <<ended, got, eof, broken, reading>>

Finish(e) ==
  /\ e \notin ended
  /\ ended' = ended \cup {e}
  /\ UNCHANGED <<sent, got, eof, broken, reading>>

\* Some more bytes arrive.
Deliver(e) ==
  /\ e \notin eof
  /\ \E n \in 1..sent[Far(e)] :
       /\ got[e] \in {Bytes(k) : k \in 0..(n - 1)}
       /\ got' = [got EXCEPT ![e] = Bytes(n)]
  /\ UNCHANGED <<sent, ended, eof, broken, reading>>

Eof(e) ==
  /\ e \notin eof
  /\ ~broken => Far(e) \in ended /\ got[e] = Bytes(sent[Far(e)])
  /\ eof' = eof \cup {e}
  /\ UNCHANGED <<sent, ended, got, broken, reading>>

Break ==
  /\ ~broken /\ broken' = TRUE
  /\ UNCHANGED <<sent, ended, got, eof, reading>>

Next ==
  \/ \E e \in Ends : Send(e) \/ Finish(e) \/ Deliver(e) \/ Eof(e)
  \/ Break

Safe == Init /\ [][Next]_vars

\* A direction whose receiver reads makes progress whatever becomes of the
\* other one, and after a break everybody is told.
Spec ==
  /\ Safe
  /\ \A e \in Ends : /\ WF_vars(e \in reading /\ ~broken /\ Deliver(e))
                     /\ WF_vars((e \in reading \/ broken) /\ Eof(e))
=============================================================================
