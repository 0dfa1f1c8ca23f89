------------------------------ MODULE Clients ------------------------------
(***************************************************************************)
(* The command line and the Qt client.  Either is one program per command    *)
(* or button: for each command it connects, shows that it is a user          *)
(* interface, sends one message and waits for the reply.  A command is a      *)
(* record of the message, the operations its handler makes the backend       *)
(* carry out and the type of reply that go() expects.                        *)
(***************************************************************************)
EXTENDS Sequences

Set(op) == [msg |-> "set", do |-> <<op>>, reply |-> "UserInterfaceReply"]
SetDisplayName == Set([op |-> "value"])
SetClientSocket == Set([op |-> "value"])
SetDataDir == Set([op |-> "directory"])
SetLocalSocket(i) == Set([op |-> "socket", to |-> i])
SetRemoteSocket(i) == Set([op |-> "socket", to |-> i])
SetMaxConnections(n) == Set([op |-> "max", n |-> n])
AddMountPoint(m) == Set([op |-> "mount", at |-> m])
RemoveMountPoint(k) == Set([op |-> "unmount", imp |-> k])
Connect == Set([op |-> "connect"])
StartSync == Set([op |-> "sync"])
SaveConfig == Set([op |-> "save"])
LoadConfig == Set([op |-> "load"])
ListKnownPeers == [msg |-> "KNOWN_PEERS", do |-> <<[op |-> "peers"]>>, reply |-> "PeerList"]
ListMounts == [msg |-> "MOUNT_POINTS", do |-> <<[op |-> "mounts"]>>, reply |-> "MountList"]
-----------------------------------------------------------------------------
\* The command line, `obfs <command>`: one command each; the settings of
\* interfaces are for any of Interfaces.
CommandLine(Interfaces) ==
    {<<c>> : c \in {Connect, LoadConfig, SaveConfig, StartSync}
                   \cup {ListKnownPeers, ListMounts}
                   \cup {SetClientSocket, SetDataDir, SetDisplayName}
                   \cup {SetLocalSocket(i) : i \in Interfaces}
                   \cup {SetRemoteSocket(i) : i \in Interfaces}}

\* LocalClient::update_params: the slot of a button gives several commands,
\* the last one when a directory has been chosen.
UpdateParams(chosen) ==
    <<Connect, ListMounts, ListKnownPeers, SetDisplayName>>
        \o IF chosen THEN <<SetDataDir>> ELSE <<>>

\* The other buttons of the Qt window that talk to the backend.
Buttons == {<<c>> : c \in {Connect, ListMounts, ListKnownPeers, SetDisplayName, SetDataDir, StartSync}}
=============================================================================
