--------------------------- MODULE MCReplication ---------------------------
(***************************************************************************)
(* Replication and another instance of it over the same variables, for TLC: *)
(* every behaviour is of one kind, chosen at the start.                     *)
(*   busy      the constants of the cfg                                     *)
(*   calm      files of two blocks, edited or truncated between             *)
(*             synchronisations, on connections that break                  *)
(***************************************************************************)
EXTENDS Replication, TLC

CONSTANTS a, b

Two == {a, b}
Swap == Permutations({a, b})

VARIABLE kind

Calm == INSTANCE Replication
    WITH NChunks <- 2, MaxSyncs <- 2, Env <- {"truncate", "disconnect"}

MCInit == Init /\ kind \in {"busy", "calm"}
MCNext ==
    /\ \/ kind = "busy" /\ Next
       \/ kind = "calm" /\ Calm!Next
    /\ UNCHANGED kind
MCSpec == MCInit /\ [][MCNext]_<<vars, kind>>
=============================================================================
