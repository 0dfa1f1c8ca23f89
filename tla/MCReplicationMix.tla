-------------------------- MODULE MCReplicationMix --------------------------
(***************************************************************************)
(* Replication and two more instances of it over the same variables, for    *)
(* TLC: every behaviour is of one kind, chosen at the start.                *)
(*   fair      the constants of the cfg, with fair threads                  *)
(*   released  the file is released and checked out during transfers        *)
(*   quiet     files of two blocks, edited only between synchronisations   *)
(***************************************************************************)
EXTENDS Replication

CONSTANTS a, b

Two == {a, b}
OnlyA == {a}

VARIABLE kind

Released == INSTANCE Replication
    WITH NChunks <- 1, MaxEdits <- 1, MaxSyncs <- 2,
         MaxBacklog <- 1, Env <- {"busyWrite", "release"}
Quiet == INSTANCE Replication
    WITH Writers <- Two, NChunks <- 2, MaxEdits <- 2, MaxSyncs <- 2, Env <- {"truncate"}

MCInit == Init /\ kind \in {"fair", "released", "quiet"}
MCNext ==
    /\ \/ kind = "fair" /\ Next
       \/ kind = "released" /\ Released!Next
       \/ kind = "quiet" /\ Quiet!Next
    /\ UNCHANGED kind
MCSpec ==
    /\ MCInit /\ [][MCNext]_<<vars, kind>>
    /\ \A n \in Peer : WF_vars(kind = "fair" /\ JobStep(n))
    /\ \A l \in Link :
        /\ WF_vars(kind = "fair" /\ Shout(l[1], l[2]))
        /\ WF_vars(kind = "fair" /\ Handle(l[1], l[2]))
-----------------------------------------------------------------------------
\* Properties of Replication that hold only in one kind of behaviour: an edit
\* that overtakes a transfer mixes the bytes of two versions, and a released
\* file is not fetched.
QuietSameContent == kind = "quiet" => SameVersionSameContent
QuietIsComplete == kind = "quiet" => InstalledIsComplete
FairIsFetched == kind = "fair" => NewerIsFetched
=============================================================================
