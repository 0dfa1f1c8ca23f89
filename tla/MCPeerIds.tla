----------------------------- MODULE MCPeerIds -----------------------------
(* Instances of PeerIds for TLC. *)
EXTENDS PeerIds, TLC

CONSTANTS a, b, c

Three == {a, b, c}
Chain == {{a, b}, {b, c}}
Ends == {a, c}
Mirror == Permutations(Ends)
=============================================================================
