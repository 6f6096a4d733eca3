----------------------------- MODULE MCByteBridge -----------------------------
(* Instance of ByteBridge for TLC: more bytes in one direction than the other. *)
EXTENDS ByteBridge

CONSTANTS left, right

Bytes == [s \in Sockets |-> IF s = left THEN 3 ELSE 1]
=============================================================================
