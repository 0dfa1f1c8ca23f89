----------------------------- MODULE Handshake -----------------------------
(***************************************************************************)
(* The handshake on one TCP connection.  Each side writes and reads in turn *)
(* over a channel that keeps the order.  A remote peer draws numbers until  *)
(* they differ, exchanges keys, makes its cipher and then authenticates     *)
(* under it; a local peer and a user interface authenticate in plain.  A     *)
(* side on which handshake() throws stops, and leaves its socket open.       *)
(***************************************************************************)
EXTENDS Naturals, Sequences

CONSTANTS Side, Other,   \* the two ends, and the far one of each
          Byte,          \* bound: what GenerateByte returns
          MaxRounds      \* bound: draws of a side

ASSUME OtherAssumption ==
    /\ Other \in [Side -> Side]
    /\ \A s \in Side : Other[s] # s /\ Other[Other[s]] = s
    /\ \A s, t \in Side : t \in {s, Other[s]}
ASSUME ByteAssumption == Byte \subseteq Nat /\ MaxRounds \in Nat

Role == {"remote", "local", "ui"}
Plain == [plain |-> TRUE]
Unset == [unset |-> TRUE]
Old(s) == [old |-> s]        \* m_cek of an earlier session that s led
Fresh(s) == [cek |-> s]

VARIABLES
    role,     \* m_isRemote of a Connection, or a client program
    at,       \* what a side does next
    myNum,    \* the last number it drew
    rounds,   \* how often it drew
    leads,    \* what leaderElect returned: "unset", "leader" or "follower"
    cek,      \* m_cek
    cipher,   \* the key of m_marshall
    wire      \* frames on their way to a side

shakeVars == <<role, at, myNum, rounds, leads, cek, cipher, wire>>

Start(r) == IF r = "remote" THEN "draw" ELSE "greet"

ShakeInit ==
    /\ role \in [Side -> Role]
    /\ \E s \in Side : role[s] # "ui"
    /\ at = [s \in Side |-> Start(role[s])]
    /\ myNum = [s \in Side |-> 0]
    /\ rounds = [s \in Side |-> 0]
    /\ leads = [s \in Side |-> "unset"]
    /\ cek \in {f \in [Side -> {Unset} \cup {Old(s) : s \in Side}] :
                  \A s \in Side : f[s] \in {Unset, Old(s)} /\ (role[s] # "remote" => f[s] = Unset)}
    /\ cipher = [s \in Side |-> Unset]
    /\ wire = [s \in Side |-> <<>>]

Go(s, label) == at' = [at EXCEPT ![s] = label]
Frame(type, val, seal) == [type |-> type, val |-> val, seal |-> seal]
Write(s, frame) == wire' = [wire EXCEPT ![Other[s]] = Append(@, frame)]
Read(s) == wire' = [wire EXCEPT ![s] = Tail(@)]

\* Marshall::read and validate_message: a frame of the expected type under
\* the key this side reads with; otherwise both throw.
Expected(s, type, seal) == Head(wire[s]).type = type /\ Head(wire[s]).seal = seal
Fails(s, label, type, seal) ==
    /\ at[s] = label /\ wire[s] # <<>> /\ ~Expected(s, type, seal)
    /\ Read(s) /\ Go(s, "failed")
    /\ UNCHANGED <<role, myNum, rounds, leads, cek, cipher>>
-----------------------------------------------------------------------------
(* leaderElect *)

Draw(s) ==
    /\ at[s] = "draw"
    /\ rounds[s] < MaxRounds /\ rounds' = [rounds EXCEPT ![s] = @ + 1]
    /\ \E n \in Byte :
        /\ myNum' = [myNum EXCEPT ![s] = n]
        /\ Write(s, Frame("LeaderElect", n, Plain))
    /\ Go(s, "compare")
    /\ UNCHANGED <<role, leads, cek, cipher>>

\* Mutant: a tie is decided at once.
Again_Never(mine, theirs) == FALSE
\* The loop of leaderElect.
Again(mine, theirs) == mine = theirs
Outcome(mine, theirs) == IF mine > theirs THEN "leader" ELSE "follower"

Compare(s) ==
    /\ at[s] = "compare" /\ wire[s] # <<>> /\ Expected(s, "LeaderElect", Plain)
    /\ Read(s)
    /\ LET peerNum == Head(wire[s]).val
       IN  IF Again(myNum[s], peerNum)
           THEN Go(s, "draw") /\ UNCHANGED leads
           ELSE Go(s, "offer") /\ leads' = [leads EXCEPT ![s] = Outcome(myNum[s], peerNum)]
    /\ UNCHANGED <<role, myNum, rounds, cek, cipher>>
-----------------------------------------------------------------------------
(* keyExchange, sendCEK and the cipher *)

Offer(s) ==
    /\ at[s] = "offer"
    /\ Write(s, Frame("KeyExchange", s, Plain))
    /\ Go(s, "agree")
    /\ UNCHANGED <<role, myNum, rounds, leads, cek, cipher>>

Agree(s) ==
    /\ at[s] = "agree" /\ wire[s] # <<>> /\ Expected(s, "KeyExchange", Plain)
    /\ Read(s)
    /\ Go(s, IF leads[s] = "leader" THEN "sendCEK" ELSE "initAES")
    /\ UNCHANGED <<role, myNum, rounds, leads, cek, cipher>>

\* The leader makes a key, installs it and sends it.
SendCEK(s) ==
    /\ at[s] = "sendCEK"
    /\ cek' = [cek EXCEPT ![s] = Fresh(s)]
    /\ cipher' = [cipher EXCEPT ![s] = Fresh(s)]
    /\ Write(s, Frame("ContentKey", Fresh(s), Plain))
    /\ Go(s, "greet")
    /\ UNCHANGED <<role, myNum, rounds, leads>>

\* The call after the empty else belongs to the follower, and recvCEK has no
\* caller: it installs what m_cek has been left with, and Crypto++ throws
\* when that has no bytes.
InitAES(s) ==
    /\ at[s] = "initAES"
    /\ cipher' = [cipher EXCEPT ![s] = cek[s]]
    /\ Go(s, IF cek[s] = Unset THEN "failed" ELSE "greet")
    /\ UNCHANGED <<role, myNum, rounds, leads, cek, wire>>
-----------------------------------------------------------------------------
(* authenticatePeer *)

Seal(s) == IF role[s] = "remote" THEN cipher[s] ELSE Plain

Greet(s) ==
    /\ at[s] = "greet"
    /\ Write(s, Frame("AuthRequest", IF role[s] = "ui" THEN "UserInterface" ELSE s, Seal(s)))
    /\ Go(s, "meet")
    /\ UNCHANGED <<role, myNum, rounds, leads, cek, cipher>>

\* A local connection ends here.  A remote one goes on to the challenge.
Meet(s) ==
    /\ at[s] = "meet" /\ wire[s] # <<>> /\ Expected(s, "AuthRequest", Seal(s))
    /\ Read(s)
    /\ Go(s, IF role[s] = "remote" THEN "challenge" ELSE "done")
    /\ UNCHANGED <<role, myNum, rounds, leads, cek, cipher>>
-----------------------------------------------------------------------------
Mistake(s) ==
    \/ Fails(s, "compare", "LeaderElect", Plain)
    \/ Fails(s, "meet", "AuthRequest", Seal(s))

ShakeStep(s) ==
    \/ Draw(s) \/ Compare(s) \/ Offer(s) \/ Agree(s) \/ SendCEK(s) \/ InitAES(s)
    \/ Greet(s) \/ Meet(s) \/ Mistake(s)
ShakeNext == \E s \in Side : ShakeStep(s)
ShakeSpec == ShakeInit /\ [][ShakeNext]_shakeVars
-----------------------------------------------------------------------------
(* Properties *)

\* The two sides of a connection that both leave leaderElect agree on which of
\* them leads, however often they draw the same number and however far one is
\* ahead of the other.
OneLeader == \A s \in Side :
    leads[s] # "unset" /\ leads[Other[s]] # "unset" => leads[s] # leads[Other[s]]

\* "performs handshake protocol whereby two peers agree on a shared key for
\* this session" (Connection.h): the ciphers that both sides have made agree.
KeysAgree == \A s \in Side :
    cipher[s] # Unset /\ cipher[Other[s]] # Unset => cipher[s] = cipher[Other[s]]
=============================================================================
