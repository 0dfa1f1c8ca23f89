----------------------------- MODULE MCBackend -----------------------------
(***************************************************************************)
(* Handshake, Framing and Daemon for TLC: every behaviour is of one kind,   *)
(* chosen at the start.                                                     *)
(*   handshake  two ends of a connection                                    *)
(*   framing    one direction of a socket                                   *)
(*   talk       two clients of a backend that goes on                       *)
(*   stop       one client, any command, and a backend that is told to end  *)
(*   mount      two clients, one that unmounts and one that mounts or       *)
(*              unmounts, and the same                                      *)
(***************************************************************************)
EXTENDS MCHandshake, Framing, Daemon

CONSTANTS i1, i2, m1, m2, u1, u2

VARIABLE kind

Startup == <<[op |-> "mount", at |-> m1]>>
Questions == {<<SetMaxConnections(2)>>, <<Connect>>, <<ListKnownPeers>>}
Commands == {<<AddMountPoint(m2)>>, <<RemoveMountPoint(1)>>, <<SetMaxConnections(1)>>}
            \cup {UpdateParams(TRUE)} \cup Buttons \cup CommandLine({i1})
Mounts == {<<AddMountPoint(m1)>>, <<RemoveMountPoint(1)>>}
Agendas == Questions \cup Commands \cup Mounts

NewSocket == <<[op |-> "socket", to |-> i2]>>
Talk == INSTANCE Daemon WITH Env <- {}, ByHand <- {}, Config <- NewSocket
Stop == INSTANCE Daemon WITH User <- {u1}
Two == Startup \o <<[op |-> "mount", at |-> m2]>>
Mount == INSTANCE Daemon WITH Config <- Two, ByHand <- {}, Env <- {"interrupt", "busyMount"}

MCInit ==
    /\ ShakeInit /\ FrameInit /\ DaemonInit
    /\ kind \in {"handshake", "framing", "talk", "stop", "mount"}
    /\ kind # "handshake" => cek[s1] = Unset /\ role = [s \in Side |-> "local"]
    /\ \/ kind \in {"handshake", "framing"} /\ agenda = [u \in User |-> <<>>]
       \/ kind = "talk" /\ agenda[u1] = <<Connect>> /\ agenda[u2] \in Questions
       \/ kind = "stop" /\ agenda[u1] \in Commands /\ agenda[u2] = <<>>
       \/ kind = "mount" /\ agenda[u1] = <<RemoveMountPoint(1)>> /\ agenda[u2] \in Mounts
MCNext ==
    /\ \/ kind = "handshake" /\ ShakeNext /\ UNCHANGED <<frameVars, daemonVars>>
       \/ kind = "framing" /\ FrameNext /\ UNCHANGED <<shakeVars, daemonVars>>
       \/ kind = "talk" /\ Talk!DaemonNext /\ UNCHANGED <<shakeVars, frameVars>>
       \/ kind = "mount" /\ Mount!DaemonNext /\ UNCHANGED <<shakeVars, frameVars>>
       \/ kind = "stop" /\ Stop!DaemonNext /\ UNCHANGED <<shakeVars, frameVars>>
    /\ UNCHANGED kind

\* The fairness of Daemon, in the kinds that run it.
Serving == kind \in {"talk", "stop", "mount"} /\ Alive
MCFairness ==
    /\ \A t \in Thread : WF_daemonVars(Serving /\ Do(t))
    /\ \A u \in User : WF_daemonVars(Serving /\ ClientStep(u))
    /\ WF_daemonVars(Serving /\ \E o \in MountPoint : FuseLoopEnds(o))
    /\ WF_daemonVars(Serving /\ ListenerStep)
    /\ WF_daemonVars(Serving /\ JobStep)
    /\ WF_daemonVars(Serving /\ (MainStep \/ Made))
    /\ WF_daemonVars(Serving /\ (ReturnConnection \/ (term /\ PeerStep)))
MCSpec == MCInit /\ [][MCNext]_<<shakeVars, frameVars, daemonVars, kind>> /\ MCFairness
=============================================================================
