---------------------------- MODULE MCHandshake ----------------------------
(* Handshake for TLC, with the two ends of a connection as model values. *)
EXTENDS Handshake

CONSTANTS s1, s2

Opposite == [s \in {s1, s2} |-> IF s = s1 THEN s2 ELSE s1]
=============================================================================
