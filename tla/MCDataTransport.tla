--------------------------- MODULE MCDataTransport ---------------------------
(* Instance of DataTransport for TLC. *)
EXTENDS DataTransport, TLC

\* Sessions, sockets and tickets are interchangeable in every safety property.
Symmetry ==
  Permutations(Sessions) \cup Permutations(Sockets) \cup Permutations(Tickets)
=============================================================================
