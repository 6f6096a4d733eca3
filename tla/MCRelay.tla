------------------------------- MODULE MCRelay -------------------------------
(* Instance of Relay for TLC. *)
EXTENDS Relay, TLC

\* Connections, identities, routes, data sockets and tickets are interchangeable
\* in every safety property.
Symmetry ==
  Permutations(Conns) \cup Permutations(Uuids) \cup Permutations(Names)
    \cup Permutations(Sockets) \cup Permutations(Tickets)
=============================================================================
