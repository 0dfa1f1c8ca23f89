------------------------------ MODULE Listener ------------------------------
(***************************************************************************)
(* SocketListener: a thread that listens on an interface which other        *)
(* threads change while it runs.  A change is written without a lock and    *)
(* then announced through a pipe; the thread empties the pipe, reads the     *)
(* interface, opens a socket and waits for clients, for the pipe or for the  *)
(* end of the program.                                                      *)
(***************************************************************************)
EXTENDS Naturals, SequencesExt

CONSTANTS Interface,   \* what m_node and m_service can name
          First,       \* what the program starts with
          NoSocket

ASSUME InterfaceAssumption == First \in Interface /\ NoSocket \notin Interface

VARIABLES
    iface,      \* m_node and m_service
    writing,    \* what a setInterface is assigning to them, or NoSocket
    noted,      \* m_notify is readable
    listens,    \* what the thread does next
    tried,      \* the interface it read last
    sock,       \* the interface m_sockfd listens on
    backlog     \* clients the kernel holds for accept

listenVars == <<iface, writing, noted, listens, tried, sock, backlog>>

ListenInit ==
    /\ iface = First /\ writing = NoSocket /\ noted = FALSE
    /\ listens = "setup" /\ tried = First /\ sock = NoSocket
    /\ backlog = <<>>

\* setInterface assigns the strings ...
BeginSet(i) ==
    /\ writing = NoSocket /\ writing' = i
    /\ UNCHANGED <<iface, noted, listens, tried, sock, backlog>>

\* ... and notifies the thread.
EndSet ==
    /\ writing # NoSocket
    /\ iface' = writing /\ writing' = NoSocket
    /\ noted' = TRUE
    /\ UNCHANGED <<listens, tried, sock, backlog>>

\* mainLoop, at the top: the old socket goes, the pipe is emptied.
ClearPipe ==
    /\ listens = "setup"
    /\ sock' = NoSocket /\ backlog' = <<>>
    /\ noted' = FALSE
    /\ listens' = "read"
    /\ UNCHANGED <<iface, writing, tried>>

\* It reads the interface; in the middle of a change that may be anything.
ReadInterface ==
    /\ listens = "read"
    /\ tried' \in IF writing = NoSocket THEN {iface} ELSE Interface
    /\ listens' = "open"
    /\ UNCHANGED <<iface, writing, noted, sock, backlog>>

\* Mutant: the pipe is emptied after the interface was read.
OpenSocket_ThenClear ==
    /\ listens = "open"
    /\ sock' \in {tried, NoSocket}
    /\ noted' = FALSE
    /\ listens' = "wait"
    /\ UNCHANGED <<iface, writing, tried, backlog>>

\* getaddrinfo, socket, bind, listen; when one fails the thread waits without
\* a socket.
OpenSocket ==
    /\ listens = "open"
    /\ sock' \in {tried, NoSocket}
    /\ listens' = "wait"
    /\ UNCHANGED <<iface, writing, noted, tried, backlog>>

\* select returns for the pipe.
Restart ==
    /\ listens = "wait" /\ noted
    /\ sock' = NoSocket /\ backlog' = <<>>
    /\ listens' = "setup"
    /\ UNCHANGED <<iface, writing, noted, tried>>

\* It returns for the end of the program.
StopListening ==
    /\ listens = "wait" /\ ~noted
    /\ sock' = NoSocket /\ backlog' = <<>>
    /\ listens' = "stopped"
    /\ UNCHANGED <<iface, writing, noted, tried>>

\* The kernel takes a client's connection.
Dial(u) ==
    /\ sock # NoSocket
    /\ backlog' = Append(backlog, u)
    /\ UNCHANGED <<iface, writing, noted, listens, tried, sock>>

\* accept.
Accept ==
    /\ listens = "wait" /\ ~noted /\ backlog # <<>>
    /\ backlog' = Tail(backlog)
    /\ UNCHANGED <<iface, writing, noted, listens, tried, sock>>

ListenStep == ClearPipe \/ ReadInterface \/ OpenSocket \/ Restart
=============================================================================
