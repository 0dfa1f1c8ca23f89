-------------------------- MODULE Connection_proofs --------------------------
(***************************************************************************)
(* Machine-checked proofs about a connection.  Its two ends: Handshake, that *)
(* an election never makes two leaders, for every set of numbers that the    *)
(* sides can draw; and Framing, that the messages that arrive are those      *)
(* written, in order, for every size of a message and of the socket.  Its    *)
(* life in the backend: Session, for any pools, peers, bounds and            *)
(* environment.                                                              *)
(***************************************************************************)
EXTENDS Session, Handshake, Framing, ListLemmas, FiniteSetTheorems
-----------------------------------------------------------------------------
(* The election of a leader *)

\* Labels of a side that is past leaderElect.
Later == {"offer", "agree", "sendCEK", "initAES", "greet", "meet", "challenge", "done", "failed"}
Greetings == {"greet", "meet", "challenge", "done", "failed"}
Key == {Plain, Unset} \cup {Old(s) : s \in Side} \cup {Fresh(s) : s \in Side}
FrameSet == [type : {"LeaderElect", "KeyExchange", "ContentKey", "AuthRequest"},
             val : Byte \cup Side \cup Key \cup {"UserInterface"}, seal : Key]

ShakeTypes ==
    /\ role \in [Side -> Role]
    /\ at \in [Side -> {"draw", "compare"} \cup Later]
    /\ myNum \in [Side -> Nat]
    /\ rounds \in [Side -> Nat]
    /\ leads \in [Side -> {"unset", "leader", "follower"}]
    /\ cek \in [Side -> Key] /\ cipher \in [Side -> Key]
    /\ wire \in [Side -> Seq(FrameSet)]

\* Only a remote peer takes part in leaderElect, and it leaves it by its
\* result or by an exception.
Electing == \A s \in Side :
    /\ role[s] # "remote" => leads[s] = "unset" /\ at[s] \in Greetings
    /\ leads[s] # "unset" => at[s] \in Later
    /\ role[s] = "remote" /\ leads[s] = "unset" => at[s] \in {"draw", "compare", "failed"}

Number(s) == Frame("LeaderElect", myNum[s], Plain)

\* How far s and the other side, both remote, may be apart.
BothDraw(s, o) == at[s] = "draw" /\ at[o] = "draw" /\ wire[s] = <<>> /\ wire[o] = <<>>
DrawnFirst(s, o) ==
    at[s] = "compare" /\ at[o] = "draw" /\ wire[s] = <<>> /\ wire[o] = <<Number(s)>>
TiedFirst(s, o) ==
    at[s] = "compare" /\ at[o] = "draw" /\ wire[s] = <<Number(s)>> /\ wire[o] = <<>>
Crossed(s, o) ==
    at[s] = "compare" /\ at[o] = "compare" /\ wire[s] = <<Number(o)>> /\ wire[o] = <<Number(s)>>
RoundBehind(s, o) ==
    at[s] = "compare" /\ at[o] = "compare" /\ wire[s] = <<Number(s), Number(o)>> /\ wire[o] = <<>>
DecidedFirst(s, o) ==
    /\ leads[s] = Outcome(myNum[s], myNum[o]) /\ myNum[s] # myNum[o]
    /\ at[o] = "compare" /\ leads[o] = "unset"
    /\ wire[o] # <<>> /\ Head(wire[o]) = Number(s)
Agreed(s, o) == leads[s] # "unset" /\ leads[o] # "unset" /\ leads[s] # leads[o]

Race(s, o) ==
    \/ BothDraw(s, o) \/ DrawnFirst(s, o) \/ TiedFirst(s, o) \/ Crossed(s, o)
    \/ RoundBehind(s, o) \/ DecidedFirst(s, o) \/ Agreed(s, o)

InStep ==
    (\A s \in Side : role[s] = "remote") => \E s \in Side : Race(s, Other[s])

ElectInv == ShakeTypes /\ Electing /\ InStep

LEMMA TwoSides ==
    ASSUME NEW s \in Side
    PROVE  Other[s] \in Side /\ Other[s] # s /\ Other[Other[s]] = s /\ \A t \in Side : t = s \/ t = Other[s]
BY OtherAssumption

LEMMA ElectInvInit == ShakeInit => ElectInv
<1> SUFFICES ASSUME ShakeInit PROVE ElectInv
  OBVIOUS
<1> USE DEF ShakeInit
<1>1. ShakeTypes
  <2>1. \A s \in Side : Start(role[s]) \in {"draw", "compare"} \cup Later
    BY DEF Start, Later
  <2>2. cek \in [Side -> {Unset} \cup {Old(s) : s \in Side}]
    OBVIOUS
  <2> QED
    BY <2>1, <2>2 DEF ShakeTypes, Key
<1>2. Electing
  BY DEF Electing, Start, Greetings, Later, Role
<1>3. InStep
  <2> SUFFICES ASSUME \A s \in Side : role[s] = "remote" PROVE \E s \in Side : Race(s, Other[s])
    BY DEF InStep
  <2>1. PICK s \in Side : TRUE
    OBVIOUS
  <2> QED
    BY <2>1, TwoSides DEF Race, BothDraw, Start
<1> QED
  BY <1>1, <1>2, <1>3 DEF ElectInv

\* The frames that a step writes are frames.
LEMMA FramesWritten ==
    ASSUME ShakeTypes, NEW s \in Side, NEW f \in FrameSet, Write(s, f)
    PROVE  wire' \in [Side -> Seq(FrameSet)]
<1>1. Other[s] \in Side /\ wire[Other[s]] \in Seq(FrameSet)
  BY TwoSides DEF ShakeTypes
<1>2. Append(wire[Other[s]], f) \in Seq(FrameSet)
  BY <1>1
<1> QED
  BY <1>1, <1>2 DEF ShakeTypes, Write
LEMMA FramesRead ==
    ASSUME ShakeTypes, NEW s \in Side, Read(s), wire[s] # <<>>
    PROVE  wire' \in [Side -> Seq(FrameSet)] /\ Head(wire[s]) \in FrameSet
<1>1. wire[s] \in Seq(FrameSet)
  BY DEF ShakeTypes
<1>2. Tail(wire[s]) \in Seq(FrameSet) /\ Head(wire[s]) \in FrameSet
  BY <1>1
<1> QED
  BY <1>1, <1>2 DEF ShakeTypes, Read

LEMMA ShakeTypesNext == ASSUME ShakeTypes, Electing, [ShakeNext]_shakeVars PROVE ShakeTypes'
<1>1. CASE UNCHANGED shakeVars
  BY <1>1 DEF shakeVars, ShakeTypes
<1>2. CASE ShakeNext
  <2> PICK s \in Side : ShakeStep(s)
    BY <1>2 DEF ShakeNext
  <2> USE DEF ShakeTypes, Go
  <2>1. CASE Draw(s)
    <3>1. PICK n \in Byte : myNum' = [myNum EXCEPT ![s] = n] /\ Write(s, Frame("LeaderElect", n, Plain))
      BY <2>1 DEF Draw
    <3>2. Frame("LeaderElect", n, Plain) \in FrameSet
      BY DEF Frame, FrameSet, Key
    <3>3. wire' \in [Side -> Seq(FrameSet)]
      BY <3>1, <3>2, FramesWritten
    <3>4. /\ rounds' = [rounds EXCEPT ![s] = rounds[s] + 1] /\ Go(s, "compare")
          /\ UNCHANGED <<role, leads, cek, cipher>>
      BY <2>1 DEF Draw
    <3> QED
      BY <3>1, <3>3, <3>4, ByteAssumption
  <2>2. CASE Compare(s)
    <3>1. wire' \in [Side -> Seq(FrameSet)]
      BY <2>2, FramesRead DEF Compare
    <3>2. Outcome(myNum[s], Head(wire[s]).val) \in {"unset", "leader", "follower"}
      BY DEF Outcome
    <3> QED
      BY <2>2, <3>1, <3>2 DEF Compare, Later
  <2>3. CASE Offer(s)
    <3>1. Frame("KeyExchange", s, Plain) \in FrameSet
      BY DEF Frame, FrameSet, Key
    <3>2. wire' \in [Side -> Seq(FrameSet)]
      BY <3>1, <2>3, FramesWritten DEF Offer
    <3> QED
      BY <2>3, <3>2 DEF Offer, Later
  <2>4. CASE Agree(s)
    <3>1. wire' \in [Side -> Seq(FrameSet)]
      BY <2>4, FramesRead DEF Agree
    <3> QED
      BY <2>4, <3>1 DEF Agree, Later
  <2>5. CASE SendCEK(s)
    <3>1. Frame("ContentKey", Fresh(s), Plain) \in FrameSet
      BY DEF Frame, FrameSet, Key
    <3>2. wire' \in [Side -> Seq(FrameSet)]
      BY <3>1, <2>5, FramesWritten DEF SendCEK
    <3>3. Fresh(s) \in Key
      BY DEF Key
    <3> QED
      BY <2>5, <3>2, <3>3 DEF SendCEK, Later
  <2>6. CASE InitAES(s)
    BY <2>6 DEF InitAES, Later
  <2>7. CASE Greet(s)
    <3> DEFINE f == Frame("AuthRequest", IF role[s] = "ui" THEN "UserInterface" ELSE s, Seal(s))
    <3>1. f \in FrameSet
      <4>1. Seal(s) \in Key
        BY DEF Seal, Key
      <4> QED
        BY <4>1 DEF Frame, FrameSet
    <3>2. Write(s, f)
      BY <2>7 DEF Greet
    <3> HIDE DEF f
    <3>3. wire' \in [Side -> Seq(FrameSet)]
      BY <3>1, <3>2, FramesWritten
    <3> QED
      BY <2>7, <3>3 DEF Greet, Later
  <2>8. CASE Meet(s)
    <3>1. wire' \in [Side -> Seq(FrameSet)]
      BY <2>8, FramesRead DEF Meet
    <3> QED
      BY <2>8, <3>1 DEF Meet, Later
  <2>9. CASE Mistake(s)
    <3>1. wire' \in [Side -> Seq(FrameSet)]
      BY <2>9, FramesRead DEF Mistake, Fails
    <3> QED
      BY <2>9, <3>1 DEF Mistake, Fails, Later
  <2> QED
    BY <2>1, <2>2, <2>3, <2>4, <2>5, <2>6, <2>7, <2>8, <2>9 DEF ShakeStep
<1> QED
  BY <1>1, <1>2

LEMMA ElectingNext == ASSUME ElectInv, [ShakeNext]_shakeVars PROVE Electing'
<1> USE DEF ElectInv
<1>1. CASE UNCHANGED shakeVars
  BY <1>1 DEF shakeVars, Electing
<1>2. CASE ShakeNext
  <2> PICK s \in Side : ShakeStep(s)
    BY <1>2 DEF ShakeNext
  <2> USE DEF ShakeTypes, Electing, Go, Later, Greetings, Role
  <2>1. CASE Draw(s)
    BY <2>1 DEF Draw
  <2>2. CASE Compare(s)
    <3>1. at[s] = "compare" /\ role' = role
      BY <2>2, Zenon DEF Compare
    <3>2. \/ at' = [at EXCEPT ![s] = "draw"] /\ leads' = leads
          \/ /\ at' = [at EXCEPT ![s] = "offer"]
             /\ \E r \in {"leader", "follower"} : leads' = [leads EXCEPT ![s] = r]
      BY <2>2, Zenon DEF Compare, Outcome
    <3>3. role[s] = "remote" /\ leads[s] = "unset"
      BY <3>1
    <3>4. ASSUME NEW x \in Side, x # s
          PROVE  role'[x] = role[x] /\ at'[x] = at[x] /\ leads'[x] = leads[x]
      BY <3>1, <3>2, <3>4
    <3>5. \/ at'[s] = "draw" /\ leads'[s] = "unset"
          \/ at'[s] = "offer" /\ leads'[s] # "unset"
      BY <3>2, <3>3
    <3>6. ASSUME NEW x \in Side
          PROVE  /\ role'[x] # "remote" => leads'[x] = "unset" /\ at'[x] \in Greetings
                 /\ leads'[x] # "unset" => at'[x] \in Later
                 /\ role'[x] = "remote" /\ leads'[x] = "unset" => at'[x] \in {"draw", "compare", "failed"}
      <4>1. CASE x = s
        BY <3>1, <3>3, <3>5, <4>1
      <4>2. CASE x # s
        BY <3>4, <4>2, Zenon
      <4> QED
        BY <4>1, <4>2, Zenon
    <3> QED
      BY <3>6, Zenon
  <2>3. CASE Offer(s)
    BY <2>3 DEF Offer
  <2>4. CASE Agree(s)
    BY <2>4 DEF Agree
  <2>5. CASE SendCEK(s)
    BY <2>5 DEF SendCEK
  <2>6. CASE InitAES(s)
    BY <2>6 DEF InitAES
  <2>7. CASE Greet(s)
    BY <2>7 DEF Greet
  <2>8. CASE Meet(s)
    BY <2>8 DEF Meet
  <2>9. CASE Mistake(s)
    BY <2>9 DEF Mistake, Fails
  <2> QED
    BY <2>1, <2>2, <2>3, <2>4, <2>5, <2>6, <2>7, <2>8, <2>9 DEF ShakeStep
<1> QED
  BY <1>1, <1>2

Together(t, u) == Race(t, u) \/ Race(u, t)

\* What the side of a step says of the race.
LEMMA RaceAt ==
    ASSUME ElectInv, NEW t \in Side, NEW u \in Side, Together(t, u)
    PROVE  /\ at[t] = "draw" => BothDraw(t, u) \/ BothDraw(u, t) \/ DrawnFirst(u, t) \/ TiedFirst(u, t)
           /\ at[t] = "compare" /\ wire[t] # <<>> =>
                TiedFirst(t, u) \/ Crossed(t, u) \/ Crossed(u, t) \/ RoundBehind(t, u) \/ DecidedFirst(u, t)
           /\ at[t] \notin {"draw", "compare"} => DecidedFirst(t, u) \/ Agreed(t, u)
BY DEF Together, Race, BothDraw, DrawnFirst, TiedFirst, Crossed, RoundBehind, DecidedFirst, Agreed,
   Outcome, ElectInv, Electing, Later

\* What a step of t does to the race of t and u.
LEMMA RaceDraw ==
    ASSUME ElectInv, NEW t \in Side, NEW u \in Side, u = Other[t], t = Other[u], t # u,
           Together(t, u), Draw(t)
    PROVE  Together(t, u)'
<1>1. PICK n \in Byte : myNum' = [myNum EXCEPT ![t] = n] /\ Write(t, Frame("LeaderElect", n, Plain))
  BY Zenon DEF Draw
<1>2. at[t] = "draw" /\ at'[t] = "compare" /\ at'[u] = at[u]
  <2>1. at[t] = "draw" /\ at' = [at EXCEPT ![t] = "compare"]
    BY Zenon DEF Draw, Go
  <2>2. at \in [Side -> {"draw", "compare"} \cup Later]
    BY Zenon DEF ElectInv, ShakeTypes
  <2> QED
    BY <2>1, <2>2
<1>3. /\ wire'[t] = wire[t] /\ wire'[u] = Append(wire[u], Number(t)') /\ Number(u)' = Number(u)
      /\ wire[u] \in Seq(FrameSet)
  BY <1>1 DEF Write, Number, ElectInv, ShakeTypes
<1>4. CASE BothDraw(t, u) \/ BothDraw(u, t)
  <2>1. wire[u] = <<>> /\ wire[t] = <<>> /\ at[u] = "draw"
    BY <1>4, Zenon DEF BothDraw
  <2>2. wire'[u] = <<Number(t)'>>
    BY <1>3, <2>1, OneElement, Zenon
  <2>3. DrawnFirst(t, u)'
    BY <1>2, <1>3, <2>1, <2>2, Zenon DEF DrawnFirst
  <2> QED
    BY <2>3, Zenon DEF Together, Race
<1>5. CASE DrawnFirst(u, t)
  <2>1. wire[u] = <<>> /\ wire[t] = <<Number(u)>> /\ at[u] = "compare"
    BY <1>5, Zenon DEF DrawnFirst
  <2>2. wire'[u] = <<Number(t)'>> /\ wire'[t] = <<Number(u)'>>
    BY <1>3, <2>1, OneElement, Zenon
  <2>3. Crossed(t, u)'
    BY <1>2, <2>1, <2>2, Zenon DEF Crossed
  <2> QED
    BY <2>3, Zenon DEF Together, Race
<1>6. CASE TiedFirst(u, t)
  <2>0. wire[u] = <<Number(u)>> /\ wire[t] = <<>> /\ at[u] = "compare"
    BY <1>6, Zenon DEF TiedFirst
  <2>1. wire[u] = <<Number(u)'>> /\ wire'[t] = <<>> /\ at'[u] = "compare"
    BY <1>2, <1>3, <2>0, Zenon
  <2>2. wire'[u] = <<Number(u)', Number(t)'>>
    BY <1>3, <2>1, TwoElements, Zenon
  <2>3. RoundBehind(u, t)'
    BY <1>2, <2>1, <2>2, Zenon DEF RoundBehind
  <2> QED
    BY <2>3, Zenon DEF Together, Race
<1>7. BothDraw(t, u) \/ BothDraw(u, t) \/ DrawnFirst(u, t) \/ TiedFirst(u, t)
  BY <1>2, RaceAt, Zenon
<1> QED
  BY <1>4, <1>5, <1>6, <1>7, Zenon

LEMMA RaceCompare ==
    ASSUME ElectInv, NEW t \in Side, NEW u \in Side, u = Other[t], t = Other[u], t # u,
           Together(t, u), Compare(t)
    PROVE  Together(t, u)'
<1>1. /\ at[t] = "compare" /\ wire[t] # <<>> /\ at'[u] = at[u] /\ leads'[u] = leads[u]
      /\ wire'[t] = Tail(wire[t]) /\ wire'[u] = wire[u] /\ myNum' = myNum
      /\ leads[t] = "unset" /\ wire[t] \in Seq(FrameSet)
  BY DEF Compare, Go, Read, ElectInv, ShakeTypes, Electing, Later
<1>2. /\ Number(t)' = Number(t) /\ Number(u)' = Number(u)
      /\ Number(t).val = myNum[t] /\ Number(u).val = myNum[u]
  BY <1>1 DEF Number, Frame
<1>3. Head(wire[t]).val = myNum[t] => at'[t] = "draw"
  BY DEF Compare, Again, Go, ElectInv, ShakeTypes
<1>4. Head(wire[t]).val # myNum[t] => leads'[t] = Outcome(myNum[t], Head(wire[t]).val)
  BY DEF Compare, Again, ElectInv, ShakeTypes
<1>5. CASE TiedFirst(t, u)
  <2>1. wire'[t] = <<>> /\ wire'[u] = <<>> /\ at'[u] = "draw" /\ Head(wire[t]) = Number(t)
    BY <1>1, <1>5 DEF TiedFirst
  <2>2. BothDraw(t, u)'
    BY <1>2, <1>3, <2>1 DEF BothDraw
  <2> QED
    BY <2>2, Zenon DEF Together, Race
<1>6. CASE RoundBehind(t, u)
  <2>1. wire'[t] = <<Number(u)>> /\ wire'[u] = <<>> /\ at'[u] = "compare" /\ Head(wire[t]) = Number(t)
    <3>1. wire[t] = <<Number(t), Number(u)>> /\ wire[u] = <<>> /\ at[u] = "compare"
      BY <1>6, Zenon DEF RoundBehind
    <3>2. Tail(wire[t]) = <<Number(u)>> /\ Head(wire[t]) = Number(t)
      BY <3>1, TwoElements, Zenon
    <3> QED
      BY <1>1, <3>1, <3>2, Zenon
  <2>2. DrawnFirst(u, t)'
    BY <1>2, <1>3, <2>1 DEF DrawnFirst
  <2> QED
    BY <2>2, Zenon DEF Together, Race
<1>7. CASE Crossed(t, u) \/ Crossed(u, t)
  <2>0. /\ wire[t] = <<Number(u)>> /\ wire[u] = <<Number(t)>>
        /\ at[u] = "compare"
    BY <1>7, Zenon DEF Crossed
  <2>1. wire'[t] = <<>> /\ wire'[u] = <<Number(t)>> /\ at'[u] = "compare" /\ Head(wire[t]) = Number(u)
    BY <1>1, <2>0, OneElement, Zenon
  <2>2. CASE myNum[t] = myNum[u]
    <3>1. Number(t) = Number(u)
      BY <2>2 DEF Number
    <3>2. TiedFirst(u, t)'
      BY <1>2, <1>3, <2>1, <2>2, <3>1 DEF TiedFirst
    <3> QED
      BY <3>2, Zenon DEF Together, Race
  <2>3. CASE myNum[t] # myNum[u]
    <3>1. leads'[t] = Outcome(myNum'[t], myNum'[u])
      BY <1>1, <1>2, <1>4, <2>1, <2>3
    <3>2. leads'[u] = "unset"
      BY <1>1, <1>7 DEF Crossed, ElectInv, Electing, Later
    <3>3. wire'[u] # <<>> /\ Head(wire'[u]) = Number(t)'
      <4>1. <<Number(t)>> # <<>> /\ Head(<<Number(t)>>) = Number(t)
        BY OneElement
      <4> QED
        BY <1>2, <2>1, <4>1, Zenon
    <3>4. DecidedFirst(t, u)'
      BY <1>1, <2>1, <2>3, <3>1, <3>2, <3>3 DEF DecidedFirst
    <3> QED
      BY <3>4, Zenon DEF Together, Race
  <2> QED
    BY <2>2, <2>3
<1>8. CASE DecidedFirst(u, t)
  <2>1. leads[u] = Outcome(myNum[u], myNum[t]) /\ myNum[t] # myNum[u] /\ Head(wire[t]) = Number(u)
    BY <1>8 DEF DecidedFirst
  <2>2. leads'[t] # leads'[u] /\ leads'[t] # "unset" /\ leads'[u] # "unset"
    BY <1>1, <1>2, <1>4, <2>1 DEF Outcome, ElectInv, ShakeTypes
  <2>3. Agreed(t, u)'
    BY <2>2 DEF Agreed
  <2> QED
    BY <2>3, Zenon DEF Together, Race
<1> QED
  BY <1>1, <1>5, <1>6, <1>7, <1>8, RaceAt

\* No other step of t touches a number, a result or a frame that is to be compared.
LEMMA RaceOther ==
    ASSUME ElectInv, NEW t \in Side, NEW u \in Side, u = Other[t], t = Other[u], t # u,
           Together(t, u), role[t] = "remote", ShakeStep(t), ~Draw(t), ~Compare(t)
    PROVE  Together(t, u)'
<1>1. at[t] # "compare"
  <2> SUFFICES ASSUME at[t] = "compare" PROVE FALSE
    OBVIOUS
  <2>1. Fails(t, "compare", "LeaderElect", Plain)
    BY DEF ShakeStep, Offer, Agree, SendCEK, InitAES, Greet, Meet, Mistake, Fails
  <2>2. wire[t] # <<>>
    BY <2>1 DEF Fails
  <2>3. Head(wire[t]) \in {Number(t), Number(u)}
    <3>1. \/ wire[t] = <<Number(t)>> \/ wire[t] = <<Number(u)>> \/ wire[t] = <<Number(t), Number(u)>>
          \/ Head(wire[t]) = Number(u)
      BY <2>2, RaceAt, Zenon DEF TiedFirst, Crossed, RoundBehind, DecidedFirst
    <3>2. Head(<<Number(t)>>) = Number(t) /\ Head(<<Number(u)>>) = Number(u)
      BY OneElement
    <3>3. Head(<<Number(t), Number(u)>>) = Number(t)
      BY TwoElements
    <3> QED
      BY <3>1, <3>2, <3>3
  <2> QED
    BY <2>1, <2>3 DEF Fails, Expected, Number, Frame
<1>2. at[t] # "draw"
  BY <1>1 DEF ShakeStep, Offer, Agree, SendCEK, InitAES, Greet, Meet, Mistake, Fails
<1>3. myNum' = myNum /\ leads' = leads /\ at'[u] = at[u]
  BY <1>1, <1>2 DEF ShakeStep, Offer, Agree, SendCEK, InitAES, Greet, Meet, Mistake, Fails,
     Go, ElectInv, ShakeTypes
<1>4. wire[u] \in Seq(FrameSet) /\ (wire'[u] = wire[u] \/ \E f : wire'[u] = Append(wire[u], f))
  <2>1. /\ wire[u] \in Seq(FrameSet) /\ wire \in [Side -> Seq(FrameSet)]
        /\ UNCHANGED wire \/ Read(t) \/ \E f : Write(t, f)
    BY <1>1, <1>2 DEF ShakeStep, Offer, Agree, SendCEK, InitAES, Greet, Meet, Mistake, Fails,
       ElectInv, ShakeTypes
  <2> QED
    BY <2>1, Zenon DEF Write, Read
<1>5. wire[u] # <<>> => wire'[u] # <<>> /\ Head(wire'[u]) = Head(wire[u])
  BY <1>4, HeadStays, Zenon
<1>6. Number(t)' = Number(t) /\ Number(u)' = Number(u)
  BY <1>3 DEF Number
<1>7. CASE DecidedFirst(t, u)
  <2>1. DecidedFirst(t, u)'
    BY <1>3, <1>5, <1>6, <1>7 DEF DecidedFirst
  <2> QED
    BY <2>1, Zenon DEF Together, Race
<1>8. CASE Agreed(t, u)
  <2>1. Agreed(t, u)'
    BY <1>3, <1>8 DEF Agreed
  <2> QED
    BY <2>1, Zenon DEF Together, Race
<1> QED
  BY <1>1, <1>2, <1>7, <1>8, RaceAt

LEMMA ElectInvNext == ElectInv /\ [ShakeNext]_shakeVars => ElectInv'
<1> SUFFICES ASSUME ElectInv, [ShakeNext]_shakeVars PROVE ElectInv'
  OBVIOUS
<1>1. ShakeTypes' /\ Electing'
  BY ShakeTypesNext, ElectingNext DEF ElectInv
<1>2. CASE UNCHANGED shakeVars
  <2>1. \A s \in Side : Number(s)' = Number(s)
    BY <1>2 DEF shakeVars, Number
  <2>2. \A s, o \in Side : Race(s, o)' = Race(s, o)
    BY <1>2, <2>1 DEF shakeVars, Race, BothDraw, DrawnFirst, TiedFirst, Crossed, RoundBehind,
       DecidedFirst, Agreed
  <2> QED
    BY <1>1, <1>2, <2>2, TwoSides DEF ElectInv, InStep, shakeVars
<1>3. CASE ShakeNext
  <2> SUFFICES ASSUME \A s \in Side : role'[s] = "remote"
               PROVE  \E s \in Side : Race(s, Other[s])'
    BY <1>1 DEF ElectInv, InStep
  <2>1. PICK t \in Side : ShakeStep(t)
    BY <1>3 DEF ShakeNext
  <2> DEFINE u == Other[t]
  <2>2. role' = role
    BY <2>1 DEF ShakeStep, Draw, Compare, Offer, Agree, SendCEK, InitAES, Greet, Meet, Mistake, Fails
  <2>3. u \in Side /\ Other[u] = t /\ t # u /\ \A x \in Side : x = t \/ x = u
    BY TwoSides
  <2>4. Together(t, u)
    BY <2>2, <2>3 DEF ElectInv, InStep, Together
  <2>5. Together(t, u)'
    <3> HIDE DEF u
    <3>1. u = Other[t]
      BY DEF u
    <3> QED
      BY <2>1, <2>2, <2>3, <2>4, <3>1, RaceDraw, RaceCompare, RaceOther
  <2> QED
    BY <2>3, <2>5 DEF Together
<1> QED
  BY <1>1, <1>2, <1>3

\* Two sides that both leave leaderElect agree on the leader, whatever numbers
\* they draw, however often they tie and however their steps interleave.
THEOREM ElectionAgrees == ShakeSpec => []OneLeader
<1>1. ElectInv => OneLeader
  <2> SUFFICES ASSUME ElectInv, NEW s \in Side, leads[s] # "unset", leads[Other[s]] # "unset"
               PROVE  leads[s] # leads[Other[s]]
    BY DEF OneLeader
  <2> DEFINE o == Other[s]
  <2>1. o \in Side /\ Other[o] = s /\ o # s /\ \A t \in Side : t = s \/ t = o
    BY TwoSides
  <2>2. \A t \in Side : role[t] = "remote"
    BY <2>1 DEF ElectInv, Electing
  <2>3. Race(s, o) \/ Race(o, s)
    BY <2>1, <2>2 DEF ElectInv, InStep
  <2>4. at[s] \in Later /\ at[o] \in Later
    BY <2>1 DEF ElectInv, Electing
  <2> QED
    BY <2>1, <2>3, <2>4 DEF Race, BothDraw, DrawnFirst, TiedFirst, Crossed, RoundBehind, DecidedFirst,
       Agreed, Later
<1> QED
  BY ElectInvInit, ElectInvNext, <1>1, PTL DEF ShakeSpec

-----------------------------------------------------------------------------
(* The messages of a socket *)

Octet == [digit : Nat] \cup [msg : Nat, pos : Nat, digit : Nat]
Message == {m \in Seq(Octet) : Len(m) \in 1 .. BUFSIZE}

FrameTypes ==
    /\ written \in Seq(Message) /\ delivered \in Seq(Message)
    /\ unsent \in Seq(Octet) /\ stream \in Seq(Octet)
    /\ header \in Seq(Octet) /\ data \in Seq(Octet)
    /\ writer \in {"idle", "busy", "dead"} /\ reader \in {"size", "data", "dead"}

\* Where writeSize and writeData, and readSize and readData, stand in a frame.
Places ==
    /\ writer = "idle" => unsent = <<>>
    /\ reader = "size" => Len(header) < 2 /\ data = <<>>
    /\ reader = "data" => Len(header) = 2 /\ Len(data) < Announced

\* A message on the socket.
OnWire(m) == Header(Len(m)) \o m
\* Bytes that are the frames of some messages, one after the other, and where
\* each of them ends.
Cuts(bytes, ms, cut) ==
    /\ cut \in [0 .. Len(ms) -> Nat] /\ cut[0] = 0 /\ cut[Len(ms)] = Len(bytes)
    /\ \A i \in 0 .. Len(ms) : \A k \in 0 .. i : cut[k] <= cut[i]
    /\ \A i \in 1 .. Len(ms) :
         /\ cut[i] = cut[i - 1] + 2 + Len(ms[i])
         /\ \A j \in 1 .. 2 + Len(ms[i]) : bytes[cut[i - 1] + j] = OnWire(ms[i])[j]
Framed(bytes, ms) == \E cut : Cuts(bytes, ms, cut)

\* What the reader has kept, what the socket holds and what the writer still
\* has: whole frames, of the messages that are not delivered yet.
Pending == ((header \o data) \o stream) \o unsent
Accounted == \E ms \in Seq(Message) : written = delivered \o ms /\ Framed(Pending, ms)

FrameInv == FrameTypes /\ Places /\ Accounted

LEMMA OctetsJoined == \A s, t \in Seq(Octet) :
    /\ s \o t \in Seq(Octet) /\ Len(s \o t) = Len(s) + Len(t)
    /\ \A i \in 1 .. Len(s) : (s \o t)[i] = s[i]
    /\ \A j \in 1 .. Len(t) : (s \o t)[Len(s) + j] = t[j]
<1> TAKE s, t \in Seq(Octet)
<1> QED
  BY Joined
LEMMA OctetsRegrouped == \A s, t, u \in Seq(Octet) : (s \o t) \o u = s \o (t \o u)
<1> TAKE s, t, u \in Seq(Octet)
<1> QED
  BY ConcatAssociative

LEMMA MessageAppended == \A s, t \in Seq(Message), m \in Message : Append(s \o t, m) = s \o Append(t, m)
<1> TAKE s, t \in Seq(Message), m \in Message
<1>1. s \o t \in Seq(Message) /\ <<m>> \in Seq(Message)
  OBVIOUS
<1>2. Append(s \o t, m) = (s \o t) \o <<m>> /\ Append(t, m) = t \o <<m>>
  BY <1>1, AppendIsConcat
<1>3. (s \o t) \o <<m>> = s \o (t \o <<m>>)
  BY <1>1, ConcatAssociative
<1> QED
  BY <1>2, <1>3, Zenon
\* A header and what follows it.
LEMMA AfterHeader ==
    ASSUME NEW h \in Seq(Octet), NEW r \in Seq(Octet), Len(h) = 2
    PROVE  \E b \in Seq(Octet) :
             /\ b = h \o r /\ Len(b) = 2 + Len(r)
             /\ \A i \in 1 .. 2 : b[i] = h[i]
             /\ \A j \in 1 .. Len(r) : b[2 + j] = r[j]
<1>1. PICK b : b = h \o r
  OBVIOUS
<1>2. b \in Seq(Octet) /\ Len(b) = Len(h) + Len(r)
  BY <1>1, OctetsJoined, Zenon
<1>3. \A i \in 1 .. Len(h) : b[i] = h[i]
  BY <1>1, OctetsJoined, Zenon
<1>4. \A j \in 1 .. Len(r) : b[Len(h) + j] = r[j]
  BY <1>1, OctetsJoined, Zenon
<1>5. Len(b) = 2 + Len(r) /\ \A i \in 1 .. 2 : b[i] = h[i]
  BY <1>2, <1>3
<1>6. \A j \in 1 .. Len(r) : b[2 + j] = r[j]
  BY <1>4
<1> QED
  BY <1>1, <1>2, <1>5, <1>6, Zenon

\* The bytes of a frame between header, data, socket and writer: concatenation
\* as an operation of its own, that the provers need not open.
Octets == Seq(Octet)
Join(s, t) == s \o t
LEMMA JoinAssociative == \A s, t, u \in Octets :
    Join(s, t) \in Octets /\ Join(Join(s, t), u) = Join(s, Join(t, u))
<1> TAKE s, t, u \in Octets
<1> QED
  BY ConcatAssociative DEF Octets, Join
LEMMA JoinGrouped == \A h, d, x, y, u \in Octets :
    /\ Join(Join(Join(h, d), Join(x, y)), u) = Join(Join(h, Join(d, x)), Join(y, u))
    /\ Join(d, Join(Join(x, y), u)) = Join(Join(d, x), Join(y, u))
    /\ Join(Join(Join(h, Join(d, x)), y), u) = Join(Join(h, Join(d, x)), Join(y, u))
<1> TAKE h, d, x, y, u \in Octets
<1> QED
  BY JoinAssociative
\* The same of four pieces, in the shapes in which the steps need it.
LEMMA FourGrouped == \A h, d, s, u \in Octets :
    /\ Join(Join(Join(h, d), s), u) = Join(h, Join(d, Join(s, u)))
    /\ Join(Join(h, Join(d, s)), u) = Join(Join(h, d), Join(s, u))
    /\ Join(Join(h, Join(d, s)), u) = Join(Join(Join(h, d), s), u)
    /\ Join(Join(Join(h, d), s), u) = Join(Join(h, d), Join(s, u))
<1> TAKE h, d, s, u \in Octets
<1> QED
  BY JoinAssociative


LEMMA OnWireIs ==
    ASSUME NEW m \in Message
    PROVE  /\ OnWire(m) \in Seq(Octet) /\ Len(OnWire(m)) = 2 + Len(m) /\ Len(m) \in Nat
           /\ OnWire(m)[1].digit + Base * OnWire(m)[2].digit = Len(m)
           /\ \A j \in 1 .. Len(m) : OnWire(m)[2 + j] = m[j]
<1> DEFINE h == Header(Len(m))
<1>1. Len(m) \in Nat \ {0} /\ m \in Seq(Octet) /\ Base \in Nat \ {0}
  BY FrameAssumption DEF Message
<1>2. Len(m) % Base \in Nat /\ Len(m) \div Base \in Nat /\ (Len(m) % Base) + Base * (Len(m) \div Base) = Len(m)
  BY <1>1
<1>3. /\ h \in Seq(Octet) /\ Len(h) = 2
      /\ h[1].digit = Len(m) % Base /\ h[2].digit = Len(m) \div Base
  BY <1>2 DEF Header, Octet
<1> HIDE DEF h
<1>4. /\ h \o m \in Seq(Octet) /\ Len(h \o m) = 2 + Len(m)
      /\ \A i \in 1 .. 2 : (h \o m)[i] = h[i]
      /\ \A j \in 1 .. Len(m) : (h \o m)[2 + j] = m[j]
  <2>1. /\ h \o m \in Seq(Octet) /\ Len(h \o m) = Len(h) + Len(m)
        /\ \A i \in 1 .. Len(h) : (h \o m)[i] = h[i]
        /\ \A j \in 1 .. Len(m) : (h \o m)[Len(h) + j] = m[j]
    <3>1. h \in Seq(Octet) /\ m \in Seq(Octet)
      BY <1>1, <1>3
    <3> QED
      BY <3>1, Joined
  <2> QED
    BY <1>3, <2>1
<1>5. (h \o m)[1] = h[1] /\ (h \o m)[2] = h[2]
  BY <1>4
<1> QED
  BY <1>1, <1>2, <1>3, <1>4, <1>5 DEF OnWire, h

\* The bytes at hand begin with the frame of the first message.
LEMMA FirstFrame ==
    ASSUME NEW bytes \in Seq(Octet), NEW ms \in Seq(Message), Framed(bytes, ms), bytes # <<>>
    PROVE  /\ ms # <<>> /\ ms[1] \in Message /\ 2 + Len(ms[1]) <= Len(bytes)
           /\ bytes[1].digit + Base * bytes[2].digit = Len(ms[1])
           /\ \A j \in 1 .. Len(ms[1]) : bytes[2 + j] = ms[1][j]
<1>1. PICK cut : Cuts(bytes, ms, cut)
  BY DEF Framed
<1>2. Len(bytes) \in Nat /\ Len(bytes) # 0 /\ Len(ms) \in Nat
  BY EmptySeq
<1>3. 1 \in 1 .. Len(ms) /\ 0 \in 0 .. 1 /\ 1 \in 0 .. Len(ms) /\ Len(ms) \in 0 .. Len(ms)
  BY <1>1, <1>2 DEF Cuts
<1>4. ms[1] \in Message /\ Len(ms[1]) \in Nat
  BY <1>3 DEF Message
<1> DEFINE c == 2 + Len(ms[1])
<1>5. cut[1] = c /\ c <= Len(bytes)
  <2>1. cut[1] = cut[1 - 1] + 2 + Len(ms[1]) /\ cut[0] = 0 /\ cut[1] <= cut[Len(ms)]
    BY <1>1, <1>3 DEF Cuts
  <2> QED
    BY <1>1, <1>4, <2>1 DEF Cuts
<1>6. \A j \in 1 .. c : bytes[j] = OnWire(ms[1])[j]
  <2> TAKE j \in 1 .. c
  <2>1. bytes[cut[1 - 1] + j] = OnWire(ms[1])[j]
    BY <1>1, <1>3 DEF Cuts
  <2>2. cut[1 - 1] + j = j
    BY <1>1, <1>4 DEF Cuts
  <2> QED
    BY <2>1, <2>2
<1>7. bytes[1] = OnWire(ms[1])[1] /\ bytes[2] = OnWire(ms[1])[2]
  BY <1>4, <1>6
<1>8. ASSUME NEW j \in 1 .. Len(ms[1]) PROVE bytes[2 + j] = ms[1][j]
  <2>1. 2 + j \in 1 .. c
    BY <1>4
  <2>2. bytes[2 + j] = OnWire(ms[1])[2 + j]
    BY <2>1, <1>6
  <2> QED
    BY <2>2, <1>4, OnWireIs
<1>9. OnWire(ms[1])[1].digit + Base * OnWire(ms[1])[2].digit = Len(ms[1])
  BY <1>4, OnWireIs, Zenon
<1>10. ms # <<>>
  BY <1>3
<1> QED
  BY <1>4, <1>5, <1>7, <1>8, <1>9, <1>10, Zenon

\* write() adds a frame.
LEMMA FrameAdded ==
    ASSUME NEW bytes \in Seq(Octet), NEW ms \in Seq(Message), Framed(bytes, ms), NEW m \in Message
    PROVE  Framed(bytes \o OnWire(m), Append(ms, m))
<1> DEFINE n == Len(ms)
           b == Len(bytes)
           more == Append(ms, m)
           longer == bytes \o OnWire(m)
<1>1. PICK cut : Cuts(bytes, ms, cut)
  BY DEF Framed
<1>2. n \in Nat /\ Len(m) \in Nat /\ b \in Nat
  BY DEF Message
<1>3. /\ more \in Seq(Message) /\ Len(more) = n + 1 /\ more[n + 1] = m
      /\ \A i \in 1 .. n : more[i] = ms[i]
  BY <1>2
<1>4. /\ longer \in Seq(Octet) /\ Len(longer) = b + (2 + Len(m))
      /\ \A k \in 1 .. b : longer[k] = bytes[k]
      /\ \A j \in 1 .. 2 + Len(m) : longer[b + j] = OnWire(m)[j]
  <2>1. OnWire(m) \in Seq(Octet) /\ Len(OnWire(m)) = 2 + Len(m)
    BY OnWireIs
  <2> DEFINE w == OnWire(m)
  <2> HIDE DEF w
  <2>2. /\ bytes \o w \in Seq(Octet) /\ Len(bytes \o w) = Len(bytes) + Len(w)
        /\ \A i \in 1 .. Len(bytes) : (bytes \o w)[i] = bytes[i]
        /\ \A j \in 1 .. Len(w) : (bytes \o w)[Len(bytes) + j] = w[j]
    <3>1. w \in Seq(Octet)
      BY <2>1 DEF w
    <3> QED
      BY <3>1, Joined
  <2> QED
    BY <2>1, <2>2 DEF w
<1>5. /\ cut \in [0 .. n -> Nat] /\ cut[0] = 0 /\ cut[n] = b
      /\ \A i \in 0 .. n : \A k \in 0 .. i : cut[k] <= cut[i]
      /\ \A i \in 1 .. n :
           /\ cut[i] = cut[i - 1] + 2 + Len(ms[i])
           /\ \A j \in 1 .. 2 + Len(ms[i]) : bytes[cut[i - 1] + j] = OnWire(ms[i])[j]
  BY <1>1 DEF Cuts
<1>6. \A i \in 1 .. n : ms[i] \in Message /\ Len(ms[i]) \in Nat
  BY DEF Message
<1> DEFINE new == [i \in 0 .. n + 1 |-> IF i = n + 1 THEN b + (2 + Len(m)) ELSE cut[i]]
<1> HIDE DEF longer, more, n, b
<1>7. new \in [0 .. n + 1 -> Nat]
  BY <1>2, <1>5
<1>8. new[n + 1] = b + (2 + Len(m))
  BY <1>2
<1>9. \A i \in 0 .. n : new[i] = cut[i] /\ cut[i] \in Nat /\ cut[i] <= b
  <2> TAKE i \in 0 .. n
  <2>1. new[i] = cut[i] /\ cut[i] \in Nat
    BY <1>2, <1>5
  <2>2. cut[i] <= cut[n]
    BY <1>2, <1>5
  <2> QED
    BY <2>1, <2>2, <1>5
<1> HIDE DEF new
<1>10. new[0] = 0
  BY <1>2, <1>5, <1>9
<1>11. ASSUME NEW i \in 0 .. n + 1, NEW k \in 0 .. i PROVE new[k] <= new[i]
  <2>1. CASE i = n + 1 /\ k = n + 1
    BY <2>1, <1>2, <1>8
  <2>2. CASE i = n + 1 /\ k \in 0 .. n
    BY <2>2, <1>2, <1>8, <1>9
  <2>3. CASE i \in 0 .. n
    <3>1. k \in 0 .. n /\ cut[k] <= cut[i]
      BY <2>3, <1>2, <1>5
    <3> QED
      BY <2>3, <3>1, <1>9
  <2> QED
    BY <1>2, <2>1, <2>2, <2>3
<1>12. ASSUME NEW i \in 1 .. n + 1
       PROVE  /\ new[i] = new[i - 1] + 2 + Len(more[i])
              /\ \A j \in 1 .. 2 + Len(more[i]) : longer[new[i - 1] + j] = OnWire(more[i])[j]
  <2>1. CASE i = n + 1
    <3>1. i - 1 = n /\ n \in 0 .. n
      BY <1>2, <2>1
    <3>2. new[i - 1] = b /\ more[i] = m
      BY <1>3, <1>5, <1>9, <2>1, <3>1
    <3> QED
      BY <3>2, <1>2, <1>4, <1>8, <2>1
  <2>2. CASE i \in 1 .. n
    <3>1. i \in 0 .. n /\ i - 1 \in 0 .. n
      BY <1>2, <2>2
    <3>2. new[i - 1] = cut[i - 1] /\ new[i] = cut[i] /\ more[i] = ms[i]
      BY <1>3, <1>9, <2>2, <3>1
    <3>3. /\ Len(ms[i]) \in Nat /\ cut[i - 1] \in Nat /\ cut[i] <= b
          /\ cut[i] = cut[i - 1] + 2 + Len(ms[i])
      BY <1>5, <1>6, <1>9, <2>2, <3>1
    <3>4. ASSUME NEW j \in 1 .. 2 + Len(ms[i]) PROVE longer[cut[i - 1] + j] = OnWire(ms[i])[j]
      <4>1. cut[i - 1] + j \in 1 .. b
        <5>1. \A l, p, q \in Nat : p + 2 + l <= q => \A x \in 1 .. 2 + l : p + x \in 1 .. q
          OBVIOUS
        <5> QED
          BY <5>1, <1>2, <3>3
      <4>2. longer[cut[i - 1] + j] = bytes[cut[i - 1] + j]
        BY <4>1, <1>4
      <4> QED
        BY <4>2, <1>5, <2>2
    <3> QED
      BY <3>2, <3>3, <3>4
  <2> QED
    BY <1>2, <2>1, <2>2
<1>13. Cuts(longer, more, new)
  BY <1>3, <1>4, <1>7, <1>8, <1>10, <1>11, <1>12 DEF Cuts
<1> QED
  BY <1>13 DEF Framed, longer, more

\* read() takes the first frame.
LEMMA FrameTaken ==
    ASSUME NEW bytes \in Seq(Octet), NEW ms \in Seq(Message), Framed(bytes, ms), ms # <<>>
    PROVE  Framed(SubSeq(bytes, (2 + Len(ms[1])) + 1, Len(bytes)), Tail(ms))
<1> DEFINE n == Len(ms)
           b == Len(bytes)
           less == Tail(ms)
           c == 2 + Len(ms[1])
           shorter == SubSeq(bytes, c + 1, b)
<1>1. PICK cut : Cuts(bytes, ms, cut)
  BY DEF Framed
<1>2. n \in Nat \ {0} /\ 1 \in 1 .. n /\ b \in Nat
  BY EmptySeq
<1>3. \A i \in 1 .. n : ms[i] \in Message /\ Len(ms[i]) \in Nat
  BY DEF Message
<1>4. /\ cut \in [0 .. n -> Nat] /\ cut[0] = 0 /\ cut[n] = b
      /\ \A i \in 0 .. n : \A k \in 0 .. i : cut[k] <= cut[i]
      /\ \A i \in 1 .. n :
           /\ cut[i] = cut[i - 1] + 2 + Len(ms[i])
           /\ \A j \in 1 .. 2 + Len(ms[i]) : bytes[cut[i - 1] + j] = OnWire(ms[i])[j]
  BY <1>1 DEF Cuts
<1>5. c \in Nat /\ cut[1] = c /\ c <= b
  <2>1. cut[1] = cut[1 - 1] + 2 + Len(ms[1]) /\ Len(ms[1]) \in Nat
    BY <1>2, <1>3, <1>4
  <2>2. cut[1] <= cut[n]
    BY <1>2, <1>4
  <2> QED
    BY <2>1, <2>2, <1>4
<1>6. /\ less \in Seq(Message) /\ Len(less) = n - 1
      /\ \A i \in 1 .. n - 1 : less[i] = ms[i + 1]
  BY <1>2, HeadTailProperties
<1>7. /\ shorter \in Seq(Octet) /\ Len(shorter) = b - c
      /\ \A k \in 1 .. b - c : shorter[k] = bytes[c + k]
  <2>1. c \in 0 .. b
    BY <1>2, <1>5
  <2> QED
    BY <2>1, Suffix
<1> DEFINE new == [i \in 0 .. n - 1 |-> cut[i + 1] - c]
<1> HIDE DEF shorter, less, c, n, b
<1>8. \A i \in 0 .. n - 1 :
        /\ i + 1 \in 1 .. n /\ i + 1 \in 0 .. n /\ cut[i + 1] \in Nat /\ c <= cut[i + 1]
        /\ new[i] = cut[i + 1] - c
  <2> TAKE i \in 0 .. n - 1
  <2>1. i + 1 \in 1 .. n /\ i + 1 \in 0 .. n /\ 1 \in 0 .. i + 1
    BY <1>2
  <2>2. cut[1] <= cut[i + 1] /\ cut[i + 1] \in Nat
    BY <2>1, <1>4
  <2> QED
    BY <2>1, <2>2, <1>5
<1>9. new \in [0 .. n - 1 -> Nat]
  <2>1. \A i \in 0 .. n - 1 : cut[i + 1] - c \in Nat
    BY <1>5, <1>8
  <2> QED
    BY <2>1
<1> HIDE DEF new
<1>10. new[0] = 0
  <2>1. 0 \in 0 .. n - 1 /\ 0 + 1 = 1
    BY <1>2
  <2> QED
    BY <2>1, <1>5, <1>8
<1>11. new[n - 1] = b - c
  <2>1. n - 1 \in 0 .. n - 1 /\ (n - 1) + 1 = n
    BY <1>2
  <2> QED
    BY <2>1, <1>4, <1>8
<1>12. ASSUME NEW i \in 0 .. n - 1, NEW k \in 0 .. i PROVE new[k] <= new[i]
  <2>1. k \in 0 .. n - 1 /\ k + 1 \in 0 .. i + 1
    BY <1>2
  <2>2. cut[k + 1] <= cut[i + 1]
    BY <2>1, <1>4, <1>8
  <2> QED
    BY <2>1, <2>2, <1>5, <1>8
<1>13. ASSUME NEW i \in 1 .. n - 1
       PROVE  /\ new[i] = new[i - 1] + 2 + Len(less[i])
              /\ \A j \in 1 .. 2 + Len(less[i]) : shorter[new[i - 1] + j] = OnWire(less[i])[j]
  <2>1. /\ i + 1 \in 1 .. n /\ i \in 0 .. n - 1 /\ i - 1 \in 0 .. n - 1
        /\ (i - 1) + 1 = i /\ (i + 1) - 1 = i /\ i + 1 \in 0 .. n
    BY <1>2
  <2>2. new[i] = cut[i + 1] - c /\ new[i - 1] = cut[i] - c /\ less[i] = ms[i + 1]
    BY <1>6, <1>8, <2>1
  <2>3. /\ cut[i] \in Nat /\ c <= cut[i] /\ cut[i + 1] \in Nat
        /\ Len(ms[i + 1]) \in Nat
        /\ cut[i + 1] = cut[i] + 2 + Len(ms[i + 1])
    BY <1>3, <1>4, <1>8, <2>1
  <2>4. cut[i + 1] <= b
    BY <1>2, <1>4, <2>1
  <2> DEFINE p == cut[i]
             q == cut[i + 1]
             m == ms[i + 1]
             l == Len(m)
  <2>5. p \in Nat /\ l \in Nat /\ c \in Nat /\ b \in Nat /\ q = p + 2 + l /\ c <= p /\ q <= b
    BY <2>3, <2>4, <1>2, <1>5
  <2>6. ASSUME NEW j \in 1 .. 2 + l PROVE shorter[(p - c) + j] = OnWire(m)[j]
    <3>1. bytes[p + j] = OnWire(m)[j]
      BY <1>4, <2>1
    <3>2. (p - c) + j \in 1 .. b - c /\ c + ((p - c) + j) = p + j
      <4> HIDE DEF p, q, m, l
      <4> QED
        BY <2>5
    <3> HIDE DEF p, m
    <3> QED
      BY <3>1, <3>2, <1>7
  <2>7. q - c = (p - c) + 2 + l
    <3> HIDE DEF p, q, m, l
    <3> QED
      BY <2>5
  <2> QED
    BY <2>2, <2>6, <2>7
<1>14. Cuts(shorter, less, new)
  BY <1>2, <1>6, <1>7, <1>9, <1>10, <1>11, <1>12, <1>13 DEF Cuts
<1> QED
  BY <1>14 DEF Framed, shorter, less, c, b
-----------------------------------------------------------------------------
LEMMA DataIsMessage ==
    ASSUME NEW n \in Nat, NEW size \in 1 .. BUFSIZE
    PROVE  Data(n, size) \in Message /\ Len(Data(n, size)) = size
<1>1. size \in Nat /\ Base - 1 \in Nat
  BY FrameAssumption
<1>2. \A k \in 1 .. size : [msg |-> n, pos |-> k, digit |-> Base - 1] \in Octet
  BY <1>1 DEF Octet
<1>3. Data(n, size) \in Seq(Octet) /\ Len(Data(n, size)) = size
  BY <1>1, <1>2 DEF Data
<1> QED
  BY <1>3 DEF Message

LEMMA FrameInvInit == FrameInit => FrameInv
<1> SUFFICES ASSUME FrameInit PROVE FrameInv
  OBVIOUS
<1>1. FrameTypes /\ Places
  BY DEF FrameInit, FrameTypes, Places
<1>2. Pending = <<>> /\ Len(<<>>) = 0
  BY DEF FrameInit, Pending
<1>3. Framed(<<>>, <<>>)
  <2>1. Cuts(<<>>, <<>>, [i \in 0 .. 0 |-> 0])
    BY <1>2 DEF Cuts
  <2> QED
    BY <2>1 DEF Framed
<1>4. <<>> \in Seq(Message) /\ written = delivered \o <<>>
  BY DEF FrameInit
<1> QED
  BY <1>1, <1>2, <1>3, <1>4 DEF FrameInv, Accounted

\* Accounted speaks of the bytes in Pending, of what was written and delivered.
LEMMA SameBytes ==
    ASSUME Accounted, Pending' = Pending, UNCHANGED <<written, delivered>>
    PROVE  Accounted'
BY DEF Accounted

LEMMA WriteStep == ASSUME FrameInv, NEW size \in Sizes, WriteMessage(size) PROVE FrameInv'
<1> USE DEF FrameInv
<1>1. CASE ~Fits(size)
  <2>1. Pending' = Pending /\ UNCHANGED <<written, delivered>>
    BY <1>1 DEF WriteMessage, Pending, input
  <2>2. FrameTypes' /\ Places'
    BY <1>1 DEF WriteMessage, FrameTypes, Places, input, Announced
  <2> QED
    BY <2>1, <2>2, SameBytes
<1>2. CASE Fits(size)
  <2> DEFINE m == Data(Len(written) + 1, size + Tag)
             p == (header \o data) \o stream
  <2>1. m \in Message /\ Len(m) = size + Tag
    <3>1. size + Tag \in 1 .. BUFSIZE
      BY <1>2, FrameAssumption DEF Fits
    <3>2. Len(written) + 1 \in Nat
      BY DEF FrameTypes
    <3> QED
      BY <3>1, <3>2, DataIsMessage
  <2>2. /\ written' = Append(written, m) /\ unsent' = OnWire(m) /\ writer' = "busy"
        /\ UNCHANGED <<stream, input>>
    BY <1>2, <2>1 DEF WriteMessage, OnWire
  <2>3. unsent = <<>>
    BY DEF WriteMessage, Places
  <2> HIDE DEF m, p
  <2>4. p \in Seq(Octet) /\ Pending = p /\ Pending' = p \o OnWire(m)
    <3>1. p \in Seq(Octet)
      BY Joined DEF p, FrameTypes
    <3>2. Pending = p
      BY <2>3, <3>1 DEF Pending, p
    <3>3. p' = p
      BY <2>2 DEF p, input
    <3> QED
      BY <2>2, <3>1, <3>2, <3>3 DEF Pending, p
  <2>5. PICK ms \in Seq(Message) : written = delivered \o ms /\ Framed(p, ms)
    BY <2>4 DEF Accounted
  <2>6. Append(ms, m) \in Seq(Message) /\ Framed(Pending', Append(ms, m))
    BY <2>1, <2>4, <2>5, FrameAdded
  <2>7. written' = delivered' \o Append(ms, m)
    <3>1. delivered \in Seq(Message)
      BY Zenon DEF FrameTypes
    <3>2. Append(delivered \o ms, m) = delivered \o Append(ms, m)
      BY <2>1, <3>1, MessageAppended
    <3>3. written' = Append(written, m) /\ delivered' = delivered
      BY <2>2, Zenon DEF input
    <3> QED
      BY <2>5, <3>2, <3>3, Zenon
  <2>8. FrameTypes' /\ Places'
    <3>1. OnWire(m) \in Seq(Octet) /\ Append(written, m) \in Seq(Message)
      BY <2>1, OnWireIs DEF FrameTypes
    <3> QED
      BY <2>2, <3>1 DEF FrameTypes, Places, Announced, input
  <2> QED
    BY <2>6, <2>7, <2>8 DEF Accounted
<1> QED
  BY <1>1, <1>2

LEMMA SendStep == ASSUME FrameInv, SendSome PROVE FrameInv'
<1> USE DEF FrameInv
<1>1. PICK n \in 1 .. Len(unsent) :
        /\ stream' = stream \o SubSeq(unsent, 1, n)
        /\ unsent' = SubSeq(unsent, n + 1, Len(unsent))
  BY DEF SendSome, Rest
<1>2. /\ UNCHANGED <<written, header, data, reader, delivered>>
      /\ writer' \in {"idle", "busy"} /\ (writer' = "idle" => unsent' = <<>>)
  BY DEF SendSome, input
<1>3. PICK x \in Seq(Octet), y \in Seq(Octet) :
        unsent = x \o y /\ stream' = stream \o x /\ unsent' = y
  <2>1. unsent \in Seq(Octet)
    BY Zenon DEF FrameTypes
  <2>2. n \in 0 .. Len(unsent)
    BY <2>1
  <2>3. /\ SubSeq(unsent, 1, n) \in Seq(Octet) /\ SubSeq(unsent, n + 1, Len(unsent)) \in Seq(Octet)
        /\ SubSeq(unsent, 1, n) \o SubSeq(unsent, n + 1, Len(unsent)) = unsent
    BY <2>1, <2>2, Divided, Zenon
  <2> QED
    BY <1>1, <2>3, Zenon
<1>4. PICK a \in Seq(Octet) : a = header \o data
  <2>1. header \in Seq(Octet) /\ data \in Seq(Octet)
    BY DEF FrameTypes
  <2>2. header \o data \in Seq(Octet)
    BY <2>1, OctetsJoined, Zenon
  <2> QED
    BY <2>2
<1>5. stream \in Seq(Octet)
  BY DEF FrameTypes
<1>6. Pending = (a \o stream) \o (x \o y) /\ Pending' = (a \o (stream \o x)) \o y
  BY <1>2, <1>3, <1>4 DEF Pending
<1>7. (a \o (stream \o x)) \o y = (a \o stream) \o (x \o y) /\ stream \o x \in Seq(Octet)
  <2>1. stream \o x \in Seq(Octet)
    BY <1>5, OctetsJoined, Zenon
  <2>2. (a \o (stream \o x)) \o y = (a \o stream) \o (x \o y)
    <3>1. a \in Octets /\ stream \in Octets /\ x \in Octets /\ y \in Octets
      BY <1>5, Zenon DEF Octets
    <3>2. Join(Join(a, Join(stream, x)), y) = Join(Join(a, stream), Join(x, y))
      BY <3>1, FourGrouped
    <3> QED
      BY <3>2, Zenon DEF Join
  <2> QED
    BY <2>1, <2>2, Zenon
<1>8. FrameTypes' /\ Places'
  BY <1>2, <1>3, <1>7 DEF FrameTypes, Places, Announced
<1> QED
  BY <1>2, <1>6, <1>7, <1>8, SameBytes

\* What the two bytes of a header announce.
LEMMA HeaderSays ==
    ASSUME NEW h \in Seq(Octet), NEW r \in Seq(Octet), Len(h) = 2,
           NEW ms \in Seq(Message), Framed(h \o r, ms)
    PROVE  /\ ms # <<>> /\ ms[1] \in Message /\ Len(ms[1]) \in Nat \ {0}
           /\ h[1].digit + Base * h[2].digit = Len(ms[1])
           /\ \A j \in 1 .. Len(ms[1]) : j \in 1 .. Len(r) /\ r[j] = ms[1][j]
<1>1. PICK b \in Seq(Octet) :
        /\ b = h \o r /\ Len(b) = 2 + Len(r)
        /\ \A i \in 1 .. 2 : b[i] = h[i]
        /\ \A j \in 1 .. Len(r) : b[2 + j] = r[j]
  BY AfterHeader, Zenon
<1>2. b[1] = h[1] /\ b[2] = h[2] /\ b # <<>> /\ Len(r) \in Nat
  BY <1>1
<1>3. Framed(b, ms)
  BY <1>1
<1>4. /\ ms # <<>> /\ ms[1] \in Message /\ 2 + Len(ms[1]) <= Len(b)
      /\ b[1].digit + Base * b[2].digit = Len(ms[1])
      /\ \A j \in 1 .. Len(ms[1]) : b[2 + j] = ms[1][j]
  BY <1>2, <1>3, FirstFrame
<1>5. Len(ms[1]) \in Nat \ {0} /\ Len(ms[1]) <= Len(r)
  BY <1>1, <1>2, <1>4 DEF Message
<1>6. \A j \in 1 .. Len(ms[1]) : j \in 1 .. Len(r)
  BY <1>2, <1>5
<1> QED
  BY <1>1, <1>2, <1>4, <1>5, <1>6

LEMMA ReadSizeStep == ASSUME FrameInv, ReadSize PROVE FrameInv'
<1> USE DEF FrameInv
<1>1. PICK n \in 1 .. 2 - Len(header) :
        /\ n <= Len(stream)
        /\ header' = header \o SubSeq(stream, 1, n)
        /\ stream' = SubSeq(stream, n + 1, Len(stream))
  BY DEF ReadSize
<1>2. /\ reader = "size" /\ UNCHANGED <<written, unsent, writer, data, delivered>>
      /\ reader' = IF Len(header') < 2 THEN "size" ELSE IF Announced' > BUFSIZE THEN "dead" ELSE "data"
  BY DEF ReadSize, output
<1>3. /\ header \in Seq(Octet) /\ stream \in Seq(Octet) /\ unsent \in Seq(Octet)
      /\ data = <<>> /\ Len(header) \in Nat /\ Len(stream) \in Nat /\ n \in 0 .. Len(stream)
  BY <1>1, <1>2 DEF FrameTypes, Places
<1>4. PICK x \in Seq(Octet), y \in Seq(Octet) :
        stream = x \o y /\ header' = header \o x /\ stream' = y /\ Len(x) = n
  BY <1>1, <1>3, Divided
<1>5. header' \in Seq(Octet) /\ Len(header') = Len(header) + n
  <2>1. header \in Seq(Octet)
    BY <1>3
  <2>2. header \o x \in Seq(Octet) /\ Len(header \o x) = Len(header) + Len(x)
    BY <2>1, OctetsJoined, Zenon
  <2> QED
    BY <1>4, <2>2
<1>6. FrameTypes'
  BY <1>2, <1>4, <1>5 DEF FrameTypes
<1>7. Pending = (header \o (x \o y)) \o unsent /\ Pending' = ((header \o x) \o y) \o unsent
  <2>1. header \o data = header /\ header' \o data' = header'
    BY <1>2, <1>3, <1>5
  <2> QED
    BY <2>1, <1>2, <1>4 DEF Pending
<1>8. /\ (header \o (x \o y)) \o unsent = ((header \o x) \o y) \o unsent
      /\ ((header \o x) \o y) \o unsent = (header \o x) \o (y \o unsent)
      /\ y \o unsent \in Seq(Octet)
  <2>1. header \in Seq(Octet) /\ unsent \in Seq(Octet)
    BY <1>3
  <2>2. y \o unsent \in Seq(Octet) /\ header \o x \in Seq(Octet)
    BY <2>1, OctetsJoined, Zenon
  <2> header \in Octets /\ x \in Octets /\ y \in Octets /\ unsent \in Octets
    BY <2>1, Zenon DEF Octets
  <2>3. (header \o (x \o y)) \o unsent = ((header \o x) \o y) \o unsent
    <3>1. Join(Join(header, Join(x, y)), unsent) = Join(Join(Join(header, x), y), unsent)
      BY FourGrouped
    <3> QED
      BY <3>1, Zenon DEF Join
  <2>4. ((header \o x) \o y) \o unsent = (header \o x) \o (y \o unsent)
    <3>1. Join(Join(Join(header, x), y), unsent) = Join(Join(header, x), Join(y, unsent))
      BY FourGrouped
    <3> QED
      BY <3>1, Zenon DEF Join
  <2> QED
    BY <2>2, <2>3, <2>4, Zenon
<1>9. Accounted'
  BY <1>2, <1>7, <1>8, SameBytes
<1>10. Places'
  <2>1. CASE Len(header') < 2
    BY <2>1, <1>2, <1>3 DEF Places
  <2>2. CASE ~(Len(header') < 2)
    <3>1. Len(header') = 2
      BY <2>2, <1>1, <1>3, <1>5
    <3>2. PICK ms \in Seq(Message) : Framed(Pending', ms)
      BY <1>9 DEF Accounted
    <3>3. PICK r \in Seq(Octet) : Pending' = header' \o r
      BY <1>4, <1>7, <1>8
    <3>4. Announced' = Len(ms[1]) /\ Len(ms[1]) \in Nat \ {0}
      BY <1>5, <3>1, <3>2, <3>3, HeaderSays DEF Announced
    <3>5. Len(data') < Announced'
      BY <1>2, <1>3, <3>4
    <3> QED
      BY <1>2, <2>2, <3>1, <3>5 DEF Places
  <2> QED
    BY <2>1, <2>2
<1> QED
  BY <1>6, <1>9, <1>10

\* In the middle of a frame: the bytes that complete it are next.
LEMMA ReadingFirst ==
    ASSUME FrameInv, reader = "data"
    PROVE  \E ms \in Seq(Message) :
             /\ written = delivered \o ms /\ Framed(Pending, ms)
             /\ ms # <<>> /\ ms[1] \in Message
             /\ Announced = Len(ms[1]) /\ Len(ms[1]) \in Nat
             /\ \A j \in 1 .. Len(ms[1]) : (data \o (stream \o unsent))[j] = ms[1][j]
<1>1. /\ header \in Seq(Octet) /\ data \in Seq(Octet) /\ stream \in Seq(Octet) /\ unsent \in Seq(Octet)
  BY DEF FrameInv, FrameTypes
<1>2. Len(header) = 2
  BY DEF FrameInv, Places
<1>3. PICK ms \in Seq(Message) : written = delivered \o ms /\ Framed(Pending, ms)
  BY DEF FrameInv, Accounted
<1>4. PICK r \in Seq(Octet) : r = data \o (stream \o unsent) /\ Pending = header \o r
  <2>1. stream \o unsent \in Seq(Octet)
    BY <1>1, OctetsJoined, Zenon
  <2>2. data \o (stream \o unsent) \in Seq(Octet)
    BY <1>1, <2>1, OctetsJoined, Zenon
  <2>3. Pending = header \o (data \o (stream \o unsent))
    <3>1. header \in Octets /\ data \in Octets /\ stream \in Octets /\ unsent \in Octets
      BY <1>1, Zenon DEF Octets
    <3>2. Join(Join(Join(header, data), stream), unsent) = Join(header, Join(data, Join(stream, unsent)))
      BY <3>1, FourGrouped
    <3> QED
      BY <3>2, Zenon DEF Join, Pending
  <2> QED
    BY <2>2, <2>3, Zenon
<1>5. /\ ms # <<>> /\ ms[1] \in Message /\ Len(ms[1]) \in Nat \ {0}
      /\ header[1].digit + Base * header[2].digit = Len(ms[1])
      /\ \A j \in 1 .. Len(ms[1]) : j \in 1 .. Len(r) /\ r[j] = ms[1][j]
  <2>1. header \in Seq(Octet) /\ Framed(header \o r, ms)
    BY <1>1, <1>3, <1>4
  <2> QED
    BY <1>2, <2>1, HeaderSays
<1> QED
  BY <1>3, <1>4, <1>5 DEF Announced

LEMMA ReadDataStep == ASSUME FrameInv, ReadData PROVE FrameInv'
<1> USE DEF FrameInv
<1>1. /\ reader = "data" /\ Len(data) < Announced
      /\ UNCHANGED <<written, unsent, writer>>
  BY DEF ReadData, Places, output
<1>2. /\ header \in Seq(Octet) /\ data \in Seq(Octet) /\ stream \in Seq(Octet)
      /\ unsent \in Seq(Octet) /\ delivered \in Seq(Message)
  BY DEF FrameTypes
<1>3. PICK ms \in Seq(Message) :
        /\ written = delivered \o ms /\ Framed(Pending, ms)
        /\ ms # <<>> /\ ms[1] \in Message
        /\ Announced = Len(ms[1]) /\ Len(ms[1]) \in Nat
        /\ \A j \in 1 .. Len(ms[1]) : (data \o (stream \o unsent))[j] = ms[1][j]
  BY <1>1, ReadingFirst
<1>4. PICK n \in 1 .. Announced - Len(data) :
        /\ n <= Len(stream) /\ stream' = SubSeq(stream, n + 1, Len(stream))
        /\ LET got == data \o SubSeq(stream, 1, n)
           IN  IF Len(got) = Announced
               THEN /\ delivered' = Append(delivered, got)
                    /\ header' = <<>> /\ data' = <<>> /\ reader' = "size"
               ELSE data' = got /\ UNCHANGED <<header, reader, delivered>>
  BY DEF ReadData
<1>5. n \in 0 .. Len(stream) /\ n \in Nat /\ n <= Announced - Len(data) /\ Len(data) \in Nat
  <2>1. Announced \in Nat /\ n <= Len(stream)
    BY <1>3, <1>4, Zenon
  <2>2. Len(data) \in Nat /\ Len(stream) \in Nat
    BY <1>2
  <2> HIDE DEF FrameInv
  <2> QED
    BY <2>1, <2>2
<1>6. PICK x \in Seq(Octet), y \in Seq(Octet) :
        /\ stream = x \o y /\ stream' = y /\ Len(x) = n
        /\ IF Len(data \o x) = Announced
           THEN /\ delivered' = Append(delivered, data \o x)
                /\ header' = <<>> /\ data' = <<>> /\ reader' = "size"
           ELSE data' = data \o x /\ UNCHANGED <<header, reader, delivered>>
  <2>1. stream \in Seq(Octet) /\ n \in 0 .. Len(stream)
    BY <1>2, <1>5, Zenon
  <2>2. PICK x \in Seq(Octet), y \in Seq(Octet) :
          x = SubSeq(stream, 1, n) /\ y = SubSeq(stream, n + 1, Len(stream)) /\ stream = x \o y /\ Len(x) = n
    BY <2>1, Divided, Zenon
  <2> QED
    BY <1>4, <2>2, Zenon
<1>7. PICK got \in Seq(Octet) : got = data \o x /\ Len(got) = Len(data) + n
  <2>1. data \in Seq(Octet)
    BY <1>2
  <2>2. data \o x \in Seq(Octet) /\ Len(data \o x) = Len(data) + Len(x)
    BY <2>1, OctetsJoined, Zenon
  <2> QED
    BY <1>6, <2>2
<1>8. /\ Pending = (header \o got) \o (y \o unsent)
      /\ data \o (stream \o unsent) = got \o (y \o unsent)
      /\ header \o got \in Seq(Octet) /\ Len(header \o got) = Len(header) + Len(got)
      /\ y \o unsent \in Seq(Octet)
  <2>1. header \in Seq(Octet) /\ data \in Seq(Octet) /\ unsent \in Seq(Octet)
    BY <1>2
  <2>2. Pending = ((header \o data) \o (x \o y)) \o unsent
    BY <1>6 DEF Pending
  <2>3. header \o got \in Seq(Octet) /\ Len(header \o got) = Len(header) + Len(got) /\ y \o unsent \in Seq(Octet)
    BY <2>1, OctetsJoined, Zenon
  <2>4. /\ ((header \o data) \o (x \o y)) \o unsent = (header \o (data \o x)) \o (y \o unsent)
        /\ data \o ((x \o y) \o unsent) = (data \o x) \o (y \o unsent)
    <3>1. header \in Octets /\ data \in Octets /\ x \in Octets /\ y \in Octets /\ unsent \in Octets
      BY <2>1 DEF Octets
    <3>2. /\ Join(Join(Join(header, data), Join(x, y)), unsent) = Join(Join(header, Join(data, x)), Join(y, unsent))
          /\ Join(data, Join(Join(x, y), unsent)) = Join(Join(data, x), Join(y, unsent))
      BY <3>1, JoinGrouped
    <3> QED
      BY <3>2, Zenon DEF Join
  <2> QED
    BY <1>6, <1>7, <2>2, <2>3, <2>4
<1>9. CASE Len(got) # Announced
  <2>1. data' = got /\ UNCHANGED <<header, reader, delivered>>
    BY <1>6, <1>7, <1>9
  <2>2. Pending' = Pending
    <3>1. Pending' = ((header \o got) \o y) \o unsent
      BY <1>1, <1>6, <2>1 DEF Pending
    <3>2. header \in Seq(Octet) /\ unsent \in Seq(Octet)
      BY <1>2
    <3>3. ((header \o (data \o x)) \o y) \o unsent = (header \o (data \o x)) \o (y \o unsent)
      <4>1. header \in Octets /\ data \in Octets /\ x \in Octets /\ y \in Octets /\ unsent \in Octets
        BY <1>2 DEF Octets
      <4>2. Join(Join(Join(header, Join(data, x)), y), unsent) = Join(Join(header, Join(data, x)), Join(y, unsent))
        BY <4>1, JoinGrouped
      <4> QED
        BY <4>2, Zenon DEF Join
    <3> QED
      BY <1>7, <1>8, <3>1, <3>3, Zenon
  <2>3. Len(got) < Announced
    <3>1. Announced \in Nat /\ Len(got) \in Nat
      BY <1>3
    <3>2. \A k, l, a, i \in Nat : (i <= a - k /\ l = k + i /\ l # a) => l < a
      OBVIOUS
    <3>3. Len(data) \in Nat /\ n \in Nat /\ n <= Announced - Len(data)
      BY <1>5
    <3>4. Len(got) = Len(data) + n /\ Len(got) # Announced
      BY <1>7, <1>9
    <3> QED
      BY <3>1, <3>2, <3>3, <3>4, Zenon
  <2>4. FrameTypes' /\ Places'
    BY <1>1, <1>6, <2>1, <2>3 DEF FrameTypes, Places, Announced
  <2> QED
    BY <1>1, <2>1, <2>2, <2>4, SameBytes
<1>10. CASE Len(got) = Announced
  <2>1. delivered' = Append(delivered, got) /\ header' = <<>> /\ data' = <<>> /\ reader' = "size"
    BY <1>6, <1>7, <1>10
  <2>2. got = ms[1]
    <3>1. PICK b \in Seq(Octet) : b = y \o unsent
      BY <1>8
    <3>2. \A j \in 1 .. Len(got) : (got \o b)[j] = got[j]
      BY OctetsJoined, Zenon
    <3>3. Len(got) = Len(ms[1]) /\ ms[1] \in Seq(Octet)
      BY <1>3, <1>10 DEF Message
    <3>4. \A j \in 1 .. Len(ms[1]) : (got \o b)[j] = ms[1][j]
      BY <1>3, <1>8, <3>1
    <3>5. \A j \in 1 .. Len(got) : got[j] = ms[1][j]
      BY <3>2, <3>3, <3>4
    <3> QED
      BY <3>3, <3>5, SeqEqual
  <2>3. /\ Tail(ms) \in Seq(Message) /\ written' = delivered' \o Tail(ms)
        /\ delivered' \in Seq(Message)
    <3>1. delivered \in Seq(Message) /\ Head(ms) = ms[1]
      BY <1>2, <1>3
    <3>2. Tail(ms) \in Seq(Message) /\ Append(delivered, Head(ms)) \in Seq(Message)
      BY <1>3, <3>1
    <3>3. Append(delivered, Head(ms)) \o Tail(ms) = delivered \o ms
      BY <1>3, <3>1, HeadJoins
    <3> QED
      BY <1>1, <1>3, <2>1, <2>2, <3>1, <3>2, <3>3
  <2>4. Framed(Pending', Tail(ms))
    <3>1. PICK a \in Seq(Octet), b \in Seq(Octet) :
            a = header \o got /\ b = y \o unsent /\ Len(a) = 2 + Len(ms[1])
      <4>1. Len(header) = 2
        BY <1>1 DEF Places
      <4> QED
        BY <1>8, <2>2, <4>1
    <3>2. Pending = a \o b
      BY <1>8, <3>1
    <3>3. Pending' = b
      <4>1. Pending' = ((<<>> \o <<>>) \o y) \o unsent
        BY <1>1, <1>6, <2>1 DEF Pending
      <4> QED
        BY <3>1, <4>1
    <3>4. SubSeq(a \o b, (2 + Len(ms[1])) + 1, Len(a \o b)) = b
      <4>1. SubSeq(a \o b, Len(a) + 1, Len(a \o b)) = b
        BY RestOfJoined, Zenon
      <4>2. Len(a) = 2 + Len(ms[1])
        BY <3>1, Zenon
      <4> QED
        BY <4>1, <4>2, Zenon
    <3>5. a \o b \in Seq(Octet)
      BY OctetsJoined, Zenon
    <3>6. Framed(SubSeq(a \o b, (2 + Len(ms[1])) + 1, Len(a \o b)), Tail(ms))
      BY <1>3, <3>2, <3>5, FrameTaken
    <3> QED
      BY <3>3, <3>4, <3>6
  <2>5. FrameTypes' /\ Places'
    BY <1>1, <1>6, <2>1, <2>3 DEF FrameTypes, Places
  <2> QED
    BY <2>3, <2>4, <2>5 DEF Accounted
<1> QED
  BY <1>9, <1>10

LEMMA FrameInvNext == FrameInv /\ [FrameNext]_frameVars => FrameInv'
<1> SUFFICES ASSUME FrameInv, [FrameNext]_frameVars PROVE FrameInv'
  OBVIOUS
<1>1. ASSUME NEW size \in Sizes, WriteMessage(size) PROVE FrameInv'
  BY <1>1, WriteStep
<1>2. CASE SendSome
  BY <1>2, SendStep
<1>3. CASE ReadSize
  BY <1>3, ReadSizeStep
<1>4. CASE ReadData
  BY <1>4, ReadDataStep
<1>5. ASSUME UNCHANGED <<written, unsent, stream, header, data, delivered>>,
             writer' \in {writer, "dead"}, reader' \in {reader, "dead"}
      PROVE  FrameInv'
  <2>1. Pending' = Pending
    BY <1>5 DEF Pending
  <2>2. FrameTypes' /\ Places'
    BY <1>5 DEF FrameInv, FrameTypes, Places, Announced
  <2> QED
    BY <1>5, <2>1, <2>2, SameBytes DEF FrameInv
<1>6. CASE WriteThrows \/ ReadThrows \/ Disturb \/ UNCHANGED frameVars
  BY <1>5, <1>6 DEF WriteThrows, ReadThrows, Disturb, frameVars, input, output
<1> QED
  BY <1>1, <1>2, <1>3, <1>4, <1>6 DEF FrameNext

\* What read() returns are the messages given to write(), whole and in order,
\* for every size, for every part that send() and recv() take, and wherever the
\* connection ends.
THEOREM FramesArriveInOrder == FrameSpec => []DeliveredInOrder
<1>1. FrameInv => DeliveredInOrder
  <2> SUFFICES ASSUME FrameInv PROVE DeliveredInOrder
    OBVIOUS
  <2>1. PICK ms \in Seq(Message) : written = delivered \o ms
    BY DEF FrameInv, Accounted
  <2>2. delivered \in Seq(Message)
    BY DEF FrameInv, FrameTypes
  <2>3. Len(delivered) <= Len(written) /\ SubSeq(delivered, 1, Len(delivered)) = SubSeq(written, 1, Len(delivered))
    BY <2>1, <2>2
  <2> QED
    BY <2>3 DEF DeliveredInOrder, IsPrefix
<1> QED
  BY FrameInvInit, FrameInvNext, <1>1, PTL DEF FrameSpec
-----------------------------------------------------------------------------
(* The life of a connection in the backend *)

Free == {"idle", "returnWorker", "unlock"}
Looping == {"work", "joinListener", "joinShouter"}

\* A connection has a client from handleClient until it returns to its pool,
\* and a peer to register unless that is a user interface; m_peerId is that peer.
ClientsExact ==
    \A c \in Conn :
        /\ client[c] = None <=> pc[c] \in Free
        /\ pc[c] \in {"register", "registered"} => client[c] \in Peer
        /\ peerId[c] # None => peerId[c] = client[c] /\ pc[c] \in Looping \cup {"reset"}

\* The queues: only a worker's loop has messages to handle, the Quit comes last,
\* and nothing is left when the session is over.
QueueOf(c) ==
    /\ inbound[c] \in Seq({client[c], Quit}) /\ outbound[c] \in Seq({client[c], Quit})
    /\ listening[c] => pc[c] = "work"
    /\ pc[c] # "work" => inbound[c] = <<>>
    /\ pc[c] \notin Looping \cup {"reset"} => outbound[c] = <<>>
    /\ \A i \in DOMAIN inbound[c] :
          inbound[c][i] = Quit => i = Len(inbound[c]) /\ ~listening[c]
QueuesExact == \A c \in Conn : QueueOf(c)

Holds(c, w) ==
    \/ Serving(c) /\ worker[c] = w
    \/ claimed[c] # None /\ claimed[c].worker = w

\* The pools: what they list, they list once and nobody uses; what they do not
\* list, one connection uses.
PoolsExact ==
    /\ IsInjective(connPool) /\ IsInjective(workerPool)
    /\ \A c \in Conn :
        /\ c \in Range(connPool) => claimed[c] = None
        /\ c \in Range(connPool) \/ claimed[c] # None => pc[c] \in Free
        /\ worker[c] = None <=> pc[c] = "idle"
        /\ claimed[c] # None => ~(Serving(c) /\ worker[c] = claimed[c].worker)
    /\ \A w \in Worker :
        /\ w \in Range(workerPool) => \A c \in Conn : ~Holds(c, w)
        /\ w \notin Range(workerPool) => \E c \in Conn : Holds(c, w)
        /\ \A c, d \in Conn : Holds(c, w) /\ Holds(d, w) => c = d

IInv == TypeOK /\ ClientsExact /\ MapIsExact /\ QueuesExact /\ PoolsExact

\* A signal wakes nobody who did not sleep.
LEMMA Signalled == ASSUME NEW S, NEW T, S \subseteq T, NEW R \in Signal(S) PROVE R \subseteq T
  BY DEF Signal

LEMMA Distinct ==
    /\ None # Quit
    /\ \A c \in Client, w \in Worker : [client |-> c, worker |-> w] # None
  BY DEF None, Quit
-----------------------------------------------------------------------------
(* Types *)

Labels == {"idle", "handshake", "register", "registered", "work", "joinListener",
           "joinShouter", "reset", "return", "returnWorker", "unlock"}

PoolTypes == connPool \in Seq(Conn) /\ workerPool \in Seq(Worker)
SocketTypes ==
    /\ client \in [Conn -> Client \cup {None}]
    /\ alive \in [Conn -> BOOLEAN]
ThreadTypes == listening \in [Conn -> BOOLEAN] /\ shouting \in [Conn -> BOOLEAN]
WorkTypes ==
    /\ worker \in [Conn -> Worker \cup {None}]
    /\ claimed \in [Conn -> [client : Client, worker : Worker] \cup {None}]
NameTypes ==
    /\ peerMap \in [Peer -> Conn \cup {None}]
    /\ asleep \subseteq Conn
    /\ pc \in [Conn -> Labels]
    /\ peerId \in [Conn -> Peer \cup {None}]
QueueTypes ==
    /\ inbound \in [Conn -> Seq(Client \cup {Quit})]
    /\ outbound \in [Conn -> Seq(Client \cup {Quit})]

LEMMA TypeParts ==
    TypeOK <=> /\ PoolTypes /\ SocketTypes /\ ThreadTypes /\ WorkTypes /\ NameTypes /\ QueueTypes
               /\ clients \in Nat /\ msgs \in Nat
  BY DEF TypeOK, PoolTypes, SocketTypes, ThreadTypes, WorkTypes, NameTypes, QueueTypes, Labels

LEMMA InitIInv == Init => IInv
<1> SUFFICES ASSUME Init PROVE IInv
  OBVIOUS
<1>1. ASSUME NEW S, IsFiniteSet(S)
      PROVE  SetToSeq(S) \in Seq(S) /\ IsInjective(SetToSeq(S)) /\ Range(SetToSeq(S)) = S
  <2>1. PICK f : f \in Bijection(1 .. Cardinality(S), S)
    BY <1>1, FS_CardinalityType DEF ExistsBijection
  <2>2. f \in [1 .. Cardinality(S) -> S] /\ IsInjective(f)
    BY <2>1 DEF Bijection, Injection, IsInjective
  <2>3. SetToSeq(S) \in [1 .. Cardinality(S) -> S] /\ IsInjective(SetToSeq(S))
    BY <2>2 DEF SetToSeq
  <2>4. Cardinality(S) \in Nat /\ IsFiniteSet(1 .. Cardinality(S))
        /\ Cardinality(1 .. Cardinality(S)) = Cardinality(S)
    BY <1>1, FS_CardinalityType, FS_Interval
  <2>5. SetToSeq(S) \in Seq(S)
    BY <2>3, <2>4, SeqDef
  <2>6. SetToSeq(S) \in Injection(1 .. Cardinality(S), S)
    BY <2>3 DEF Injection, IsInjective
  <2>7. SetToSeq(S) \in Surjection(1 .. Cardinality(S), S)
    BY <1>1, <2>4, <2>6, FS_Injection
  <2>8. Range(SetToSeq(S)) = S
    BY <2>3, <2>7 DEF Surjection, Range
  <2> QED
    BY <2>3, <2>5, <2>8
<1>2. /\ connPool \in Seq(Conn) /\ IsInjective(connPool)
      /\ workerPool \in Seq(Worker) /\ IsInjective(workerPool) /\ Range(workerPool) = Worker
  BY <1>1, PoolAssumption DEF Init
<1>3. TypeOK
  BY <1>2 DEF Init, TypeOK
<1>4. ClientsExact /\ QueuesExact
  BY DEF Init, ClientsExact, QueuesExact, QueueOf, Free, Looping
<1>5. MapIsExact
  BY NoneAssumption DEF Init, MapIsExact, Registered
<1>6. PoolsExact
  BY <1>2, NoneAssumption DEF Init, PoolsExact, Holds, Serving, Free
<1> QED
  BY <1>3, <1>4, <1>5, <1>6 DEF IInv
-----------------------------------------------------------------------------
\* Every step keeps the pools' and the sockets' types.
LEMMA NextSocketTypes == IInv /\ [Next]_vars => (PoolTypes /\ SocketTypes)'
<1> SUFFICES ASSUME IInv, [Next]_vars PROVE (PoolTypes /\ SocketTypes)'
  OBVIOUS
<1> USE TypeParts DEF IInv
<1> USE DEF PoolTypes, SocketTypes, socket, pools
<1>1. CASE UNCHANGED <<pools, socket>>
  BY <1>1
<1>2. ASSUME NEW p \in Client, OnConnect(p) PROVE (PoolTypes /\ SocketTypes)'
  BY <1>2, DropLast DEF OnConnect, PoolsExact
<1>3. ASSUME NEW c \in Conn, HandleClient(c) PROVE (PoolTypes /\ SocketTypes)'
  BY <1>3 DEF HandleClient, WorkTypes
<1>4. ASSUME NEW c \in Conn, Hangup(c) PROVE (PoolTypes /\ SocketTypes)'
  <2>1. alive' \in [Conn -> BOOLEAN]
    BY <1>4 DEF Hangup
  <2> QED
    BY <1>4, <2>1 DEF Hangup
<1>5. ASSUME NEW c \in Conn, ReturnConn(c) PROVE (PoolTypes /\ SocketTypes)'
  BY <1>5, Appended DEF ReturnConn
<1>6. ASSUME NEW c \in Conn, ReturnWorker(c) PROVE (PoolTypes /\ SocketTypes)'
  <2>1. worker[c] \in Worker
    BY <1>6 DEF ReturnWorker, PoolsExact, WorkTypes
  <2> QED
    BY <1>6, <2>1, Appended DEF ReturnWorker
<1>7. ASSUME NEW c \in Conn,
             \/ Handshake(c) \/ RegisterPeer(c) \/ Launch(c) \/ Handle(c) \/ JoinListener(c)
             \/ Unregister(c) \/ Reset(c) \/ Unlock(c) \/ ShouterStep(c) \/ ListenEnd(c)
             \/ HandshakeFails(c) \/ SpuriousWakeup(c) \/ Listen(c)
      PROVE  UNCHANGED <<pools, socket>>
  BY <1>7 DEF Handshake, RegisterPeer, Launch, Handle, JoinListener, Unregister, Reset, Unlock,
              ShouterStep, Shout, ShoutQuit, ListenEnd, HandshakeFails, SpuriousWakeup, Listen
<1>8. ASSUME NEW p \in Peer, SendMessage(p) PROVE UNCHANGED <<pools, socket>>
  BY <1>8 DEF SendMessage
<1> QED
  BY <1>1, <1>2, <1>3, <1>4, <1>5, <1>6, <1>7, <1>8 DEF Next, MainStep, vars

\* Every step keeps the types of m_worker and the claims.
LEMMA NextWorkTypes == IInv /\ [Next]_vars => WorkTypes'
<1> SUFFICES ASSUME IInv, [Next]_vars PROVE WorkTypes'
  OBVIOUS
<1> USE TypeParts DEF IInv, WorkTypes
<1>1. CASE UNCHANGED <<worker, claimed>>
  BY <1>1
<1>2. ASSUME NEW p \in Client, OnConnect(p) PROVE WorkTypes'
  <2>1. Last(workerPool) \in Worker
    BY <1>2, DropLast DEF OnConnect, PoolsExact, PoolTypes
  <2> QED
    BY <1>2, <2>1 DEF OnConnect
<1>3. ASSUME NEW c \in Conn, HandleClient(c) PROVE WorkTypes'
  BY <1>3 DEF HandleClient
<1>4. ASSUME NEW c \in Conn, ReturnConn(c) \/ Unlock(c) PROVE WorkTypes'
  BY <1>4 DEF ReturnConn, Unlock, WorkerThen
<1>5. ASSUME NEW c \in Conn,
             \/ Handshake(c) \/ RegisterPeer(c) \/ Launch(c) \/ Handle(c) \/ JoinListener(c)
             \/ Unregister(c) \/ Reset(c) \/ ReturnWorker(c) \/ ShouterStep(c) \/ ListenEnd(c)
             \/ HandshakeFails(c) \/ SpuriousWakeup(c) \/ Listen(c) \/ Hangup(c)
      PROVE  UNCHANGED <<worker, claimed>>
  BY <1>5 DEF Handshake, RegisterPeer, Launch, Handle, JoinListener, Unregister, Reset,
              ReturnWorker, ShouterStep, Shout, ShoutQuit, ListenEnd, HandshakeFails,
              SpuriousWakeup, Listen, Hangup
<1>6. ASSUME NEW p \in Peer, SendMessage(p) PROVE UNCHANGED <<worker, claimed>>
  BY <1>6 DEF SendMessage
<1> QED
  BY <1>1, <1>2, <1>3, <1>4, <1>5, <1>6 DEF Next, MainStep, vars

\* Every step keeps the types of the threads' flags.
LEMMA NextThreadTypes == IInv /\ [Next]_vars => ThreadTypes'
<1> SUFFICES ASSUME IInv, [Next]_vars PROVE ThreadTypes'
  OBVIOUS
<1> USE TypeParts DEF IInv, ThreadTypes, SocketTypes
<1>1. CASE UNCHANGED threads
  BY <1>1 DEF threads
<1>2. ASSUME NEW c \in Conn, Handshake(c) \/ Launch(c) PROVE ThreadTypes'
  <2>1. CASE UNCHANGED threads
    BY <2>1 DEF threads
  <2>2. CASE /\ listening' = [listening EXCEPT ![c] = TRUE]
             /\ shouting' = [shouting EXCEPT ![c] = TRUE]
    BY <2>2
  <2> QED
    BY <1>2, <2>1, <2>2 DEF Handshake, Launch
<1>3. ASSUME NEW c \in Conn, ListenEnd(c) PROVE ThreadTypes'
  <2>1. listening' = [listening EXCEPT ![c] = FALSE] /\ UNCHANGED shouting
    BY <1>3 DEF ListenEnd
  <2> QED
    BY <2>1
<1>4. ASSUME NEW c \in Conn, ShouterStep(c) PROVE ThreadTypes'
  <2>1. PICK b \in BOOLEAN : shouting' = [shouting EXCEPT ![c] = b]
    <3>1. alive[c] \in BOOLEAN
      OBVIOUS
    <3> QED
      BY <1>4, <3>1 DEF ShouterStep, Shout, ShoutQuit
  <2>2. UNCHANGED listening
    BY <1>4 DEF ShouterStep, Shout, ShoutQuit
  <2> QED
    BY <2>1, <2>2
<1>5. ASSUME NEW c \in Conn,
             \/ HandleClient(c) \/ RegisterPeer(c) \/ Handle(c) \/ JoinListener(c)
             \/ Unregister(c) \/ Reset(c) \/ ReturnConn(c) \/ ReturnWorker(c) \/ Unlock(c)
             \/ HandshakeFails(c) \/ SpuriousWakeup(c) \/ Listen(c) \/ Hangup(c)
      PROVE  UNCHANGED threads
  BY <1>5 DEF HandleClient, RegisterPeer, Handle, JoinListener, Unregister, Reset, ReturnConn,
              ReturnWorker, Unlock, HandshakeFails, SpuriousWakeup, Listen, Hangup
<1>6. ASSUME NEW p \in Client, OnConnect(p) PROVE UNCHANGED threads
  BY <1>6 DEF OnConnect
<1>7. ASSUME NEW p \in Peer, SendMessage(p) PROVE UNCHANGED threads
  BY <1>7 DEF SendMessage
<1> QED
  BY <1>1, <1>2, <1>3, <1>4, <1>5, <1>6, <1>7 DEF Next, MainStep, vars

\* Every step keeps the types of pc, m_peerId, the peer map and its sleepers.
LEMMA NextNameTypes == IInv /\ [Next]_vars => NameTypes'
<1> SUFFICES ASSUME IInv, [Next]_vars PROVE NameTypes'
  OBVIOUS
<1> USE TypeParts DEF IInv, NameTypes
<1>1. CASE UNCHANGED <<registry, pc, peerId>>
  BY <1>1 DEF registry
<1>2. ASSUME NEW c \in Conn, RegisterPeer(c) PROVE NameTypes'
  <2>1. asleep' \subseteq Conn
    BY <1>2, Signalled DEF RegisterPeer
  <2>2. peerMap' \in [Peer -> Conn \cup {None}]
    BY <1>2 DEF RegisterPeer
  <2>3. pc' \in [Conn -> Labels]
    BY <1>2 DEF RegisterPeer, Goto, Labels
  <2> QED
    BY <1>2, <2>1, <2>2, <2>3 DEF RegisterPeer
<1>3. ASSUME NEW c \in Conn, Launch(c) PROVE NameTypes'
  <2>1. client[c] \in Peer
    BY <1>3 DEF Launch, ClientsExact
  <2>2. peerId' \in [Conn -> Peer \cup {None}]
    BY <1>3, <2>1 DEF Launch
  <2> QED
    BY <1>3, <2>2 DEF Launch, Goto, Labels, registry
<1>4. ASSUME NEW c \in Conn, Unregister(c) PROVE NameTypes'
  <2>1. asleep' \subseteq Conn
    BY <1>4, Signalled DEF Unregister, registry
  <2>2. peerMap' \in [Peer -> Conn \cup {None}]
    BY <1>4 DEF Unregister, registry
  <2>3. pc' \in [Conn -> Labels]
    BY <1>4 DEF Unregister, Goto, Labels
  <2> QED
    BY <1>4, <2>1, <2>2, <2>3 DEF Unregister
<1>5. ASSUME NEW c \in Conn,
             \/ HandleClient(c) \/ Handshake(c) \/ HandshakeFails(c) \/ Handle(c)
             \/ JoinListener(c) \/ ReturnConn(c) \/ ReturnWorker(c) \/ Unlock(c)
      PROVE  NameTypes'
  <2>1. UNCHANGED <<registry, peerId>>
    BY <1>5 DEF HandleClient, Handshake, HandshakeFails, Handle, JoinListener, ReturnConn,
                ReturnWorker, Unlock
  <2>2. pc' = pc \/ \E label \in Labels : pc' = [pc EXCEPT ![c] = label]
    BY <1>5 DEF HandleClient, Handshake, HandshakeFails, Handle, JoinListener, ReturnConn,
                ReturnWorker, Unlock, Goto, Labels
  <2> QED
    BY <2>1, <2>2 DEF registry
<1>6. ASSUME NEW c \in Conn, Reset(c) PROVE NameTypes'
  BY <1>6 DEF Reset, Goto, Labels, IdAfter, registry
<1>7. ASSUME NEW c \in Conn, SpuriousWakeup(c) PROVE NameTypes'
  BY <1>7 DEF SpuriousWakeup
<1>8. ASSUME NEW p \in Peer, SendMessage(p) PROVE NameTypes'
  BY <1>8, Signalled DEF SendMessage
<1>9. ASSUME NEW c \in Conn, ShouterStep(c) \/ ListenEnd(c) \/ Listen(c) \/ Hangup(c)
      PROVE  UNCHANGED <<registry, pc, peerId>>
  BY <1>9 DEF ShouterStep, Shout, ShoutQuit, ListenEnd, Listen, Hangup
<1>10. ASSUME NEW p \in Client, OnConnect(p)
       PROVE  UNCHANGED <<registry, pc, peerId>>
  <2>1. UNCHANGED pc
    BY <1>10 DEF OnConnect
  <2> QED
    BY <1>10, <2>1 DEF OnConnect
<1> QED
  BY <1>1, <1>2, <1>3, <1>4, <1>5, <1>6, <1>7, <1>8, <1>9, <1>10 DEF Next, MainStep, vars
-----------------------------------------------------------------------------
(* Who is served *)

LEMMA NextClientsExact == IInv /\ [Next]_vars => ClientsExact'
<1> SUFFICES ASSUME IInv, [Next]_vars PROVE ClientsExact'
  OBVIOUS
<1> USE TypeParts DEF IInv, ClientsExact, Free, Looping, NameTypes, SocketTypes
<1>1. CASE UNCHANGED <<pc, client, peerId>>
  BY <1>1
<1>2. ASSUME NEW c \in Conn, HandleClient(c) PROVE ClientsExact'
  <2>1. claimed[c].client \in Client
    BY <1>2 DEF HandleClient, WorkTypes
  <2>2. claimed[c].client # None
    BY <2>1, NoneAssumption
  <2> QED
    BY <1>2, <2>2 DEF HandleClient, Goto, MutexFree
<1>3. ASSUME NEW c \in Conn, Handshake(c) \/ HandshakeFails(c) PROVE ClientsExact'
  <2>1. client[c] # UI => client[c] \in Peer
    BY <1>3 DEF Handshake, HandshakeFails, Client
  <2> QED
    BY <1>3, <2>1 DEF Handshake, HandshakeFails, Goto, socket
<1>4. ASSUME NEW c \in Conn, RegisterPeer(c) \/ Launch(c) PROVE ClientsExact'
  BY <1>4 DEF RegisterPeer, Launch, Goto, socket
<1>5. ASSUME NEW c \in Conn, Handle(c) \/ JoinListener(c) \/ Unregister(c) PROVE ClientsExact'
  BY <1>5 DEF Handle, JoinListener, Unregister, Goto, socket
<1>6. ASSUME NEW c \in Conn, Reset(c) PROVE ClientsExact'
  BY <1>6 DEF Reset, IdAfter, Goto, socket
<1>7. ASSUME NEW c \in Conn, ReturnConn(c) \/ ReturnWorker(c) \/ Unlock(c) PROVE ClientsExact'
  BY <1>7 DEF ReturnConn, ReturnWorker, Unlock, Goto, socket
<1>8. ASSUME NEW c \in Conn,
             \/ ShouterStep(c) \/ ListenEnd(c) \/ Listen(c) \/ Hangup(c) \/ SpuriousWakeup(c)
      PROVE  UNCHANGED <<pc, client, peerId>>
  BY <1>8 DEF ShouterStep, Shout, ShoutQuit, ListenEnd, Listen, Hangup, SpuriousWakeup, socket
<1>9. ASSUME NEW p \in Client, OnConnect(p) PROVE UNCHANGED <<pc, client, peerId>>
  <2>1. UNCHANGED pc
    BY <1>9 DEF OnConnect
  <2> QED
    BY <1>9, <2>1 DEF OnConnect, socket
<1>10. ASSUME NEW p \in Peer, SendMessage(p) PROVE UNCHANGED <<pc, client, peerId>>
  BY <1>10 DEF SendMessage, socket
<1> QED
  BY <1>1, <1>2, <1>3, <1>4, <1>5, <1>6, <1>7, <1>8, <1>9, <1>10 DEF Next, MainStep, vars, socket

LEMMA NextMapIsExact == IInv /\ [Next]_vars => MapIsExact'
<1> SUFFICES ASSUME IInv, [Next]_vars PROVE MapIsExact'
  OBVIOUS
<1> USE TypeParts, NoneAssumption DEF IInv, MapIsExact, Registered, NameTypes, SocketTypes
<1>1. CASE UNCHANGED <<peerMap, pc, client, peerId>>
  BY <1>1
<1>2. ASSUME NEW c \in Conn, HandleClient(c) PROVE MapIsExact'
  BY <1>2 DEF HandleClient, Goto, MutexFree, registry
<1>3. ASSUME NEW c \in Conn, Handshake(c) \/ HandshakeFails(c) PROVE MapIsExact'
  <2>1. peerId[c] = None
    BY <1>3 DEF Handshake, HandshakeFails, ClientsExact, Looping
  <2> QED
    BY <1>3, <2>1 DEF Handshake, HandshakeFails, Goto, socket, registry
<1>4. ASSUME NEW c \in Conn, RegisterPeer(c) PROVE MapIsExact'
  <2>1. CASE Vacant(client[c])
    <3>1. client[c] \in Peer
      BY <1>4 DEF RegisterPeer, ClientsExact
    <3>2. /\ peerMap' = [peerMap EXCEPT ![client[c]] = c]
          /\ pc' = [pc EXCEPT ![c] = "registered"]
          /\ UNCHANGED <<client, peerId>>
      BY <1>4, <2>1 DEF RegisterPeer, Goto, socket
    <3>3. peerMap[client[c]] = None
      BY <2>1 DEF Vacant
    <3> QED
      BY <3>1, <3>2, <3>3
  <2>2. CASE ~Vacant(client[c])
    BY <1>4, <2>2 DEF RegisterPeer, socket
  <2> QED
    BY <2>1, <2>2
<1>5. ASSUME NEW c \in Conn, Launch(c) PROVE MapIsExact'
  <2>1. client[c] \in Peer
    BY <1>5 DEF Launch, ClientsExact
  <2> QED
    BY <1>5, <2>1 DEF Launch, Goto, socket, registry, Client
<1>6. ASSUME NEW c \in Conn, Handle(c) \/ JoinListener(c) PROVE MapIsExact'
  BY <1>6 DEF Handle, JoinListener, Goto, socket, registry
<1>7. ASSUME NEW c \in Conn, Unregister(c) PROVE MapIsExact'
  <2>1. CASE peerId[c] = None
    BY <1>7, <2>1 DEF Unregister, Goto, socket, registry
  <2>2. CASE peerId[c] # None
    <3>1. peerId[c] = client[c] /\ client[c] \in Peer /\ peerMap[client[c]] = c
      BY <1>7, <2>2 DEF Unregister, ClientsExact
    <3>2. /\ peerMap' = [peerMap EXCEPT ![client[c]] = None]
          /\ pc' = [pc EXCEPT ![c] = "reset"]
          /\ UNCHANGED <<client, peerId>>
      BY <1>7, <2>2, <3>1 DEF Unregister, Goto, socket
    <3> QED
      BY <3>1, <3>2
  <2> QED
    BY <2>1, <2>2
<1>8. ASSUME NEW c \in Conn, Reset(c) \/ ReturnConn(c) \/ ReturnWorker(c) \/ Unlock(c)
      PROVE  MapIsExact'
  BY <1>8 DEF Reset, ReturnConn, ReturnWorker, Unlock, Goto, socket, registry
<1>9. ASSUME NEW c \in Conn,
             \/ ShouterStep(c) \/ ListenEnd(c) \/ Listen(c) \/ Hangup(c) \/ SpuriousWakeup(c)
      PROVE  UNCHANGED <<peerMap, pc, client, peerId>>
  BY <1>9 DEF ShouterStep, Shout, ShoutQuit, ListenEnd, Listen, Hangup, SpuriousWakeup,
              socket, registry
<1>10. ASSUME NEW p \in Client, OnConnect(p) PROVE UNCHANGED <<peerMap, pc, client, peerId>>
  <2>1. UNCHANGED <<pc, registry, socket>>
    BY <1>10 DEF OnConnect
  <2> QED
    BY <1>10, <2>1 DEF OnConnect, socket, registry
<1>11. ASSUME NEW p \in Peer, SendMessage(p) PROVE UNCHANGED <<peerMap, pc, client, peerId>>
  BY <1>11 DEF SendMessage, socket
<1> QED
  BY <1>1, <1>2, <1>3, <1>4, <1>5, <1>6, <1>7, <1>8, <1>9, <1>10, <1>11
     DEF Next, MainStep, vars, socket, registry
-----------------------------------------------------------------------------
(* Pools *)

\* A step that gives no worker away, takes none and starts or ends no session.
LEMMA SamePools ==
    ASSUME PoolsExact, UNCHANGED <<pools, worker, claimed>>,
           \A c \in Conn : (pc'[c] \in Free <=> pc[c] \in Free) /\ (pc'[c] = "idle" <=> pc[c] = "idle")
                           /\ (pc'[c] = "unlock" <=> pc[c] = "unlock")
    PROVE  PoolsExact'
<1>1. \A c \in Conn : Serving(c)' <=> Serving(c)
  BY DEF Serving
<1>2. \A c \in Conn, w \in Worker : Holds(c, w)' <=> Holds(c, w)
  BY <1>1 DEF Holds
<1> QED
  BY <1>1, <1>2 DEF PoolsExact, pools

LEMMA NextPoolsExact == IInv /\ [Next]_vars => PoolsExact'
<1> SUFFICES ASSUME IInv, [Next]_vars PROVE PoolsExact'
  OBVIOUS
<1> USE TypeParts, NoneAssumption DEF IInv, NameTypes, PoolTypes, WorkTypes
<1>1. ASSUME NEW p \in Client, OnConnect(p) PROVE PoolsExact'
  <2>0. PICK d \in Conn, v \in Worker : d = Last(connPool) /\ v = Last(workerPool)
    BY <1>1, DropLast DEF OnConnect, PoolsExact
  <2>1. /\ d \in Range(connPool) /\ d \in Conn /\ IsInjective(connPool')
        /\ Range(connPool') = Range(connPool) \ {d}
    BY <1>1, <2>0, DropLast DEF OnConnect, PoolsExact
  <2>2. /\ v \in Range(workerPool) /\ v \in Worker /\ IsInjective(workerPool')
        /\ Range(workerPool') = Range(workerPool) \ {v}
    BY <1>1, <2>0, DropLast DEF OnConnect, PoolsExact
  <2>3. claimed' = [claimed EXCEPT ![d] = [client |-> p, worker |-> v]] /\ UNCHANGED <<pc, worker>>
    BY <1>1, <2>0 DEF OnConnect
  <2>4. claimed[d] = None /\ pc[d] \in Free
    BY <2>1 DEF PoolsExact
  <2>5. \A c \in Conn : Serving(c)' <=> Serving(c)
    BY <2>3 DEF Serving
  <2>6. claimed'[d] # None /\ claimed'[d].worker = v
    BY <2>1, <2>2, <2>3, Distinct
  <2>7. \A c \in Conn \ {d} : claimed'[c] = claimed[c]
    BY <2>1, <2>3
  <2>8. \A c \in Conn, w \in Worker : Holds(c, w)' <=> Holds(c, w) \/ (c = d /\ w = v)
    BY <2>3, <2>4, <2>5, <2>6, <2>7 DEF Holds
  <2>9. \A c \in Conn : ~Holds(c, v)
    BY <2>2 DEF PoolsExact
  <2>10. \A c \in Conn :
            /\ c \in Range(connPool') => claimed'[c] = None
            /\ c \in Range(connPool') \/ claimed'[c] # None => pc'[c] \in Free
            /\ worker'[c] = None <=> pc'[c] = "idle"
    BY <2>1, <2>3, <2>4, <2>6, <2>7 DEF PoolsExact
  <2>11. \A c \in Conn : claimed'[c] # None => ~(Serving(c)' /\ worker'[c] = claimed'[c].worker)
    <3>1. ~(Serving(d) /\ worker[d] = v)
      BY <2>1, <2>9 DEF Holds
    <3> QED
      BY <2>3, <2>5, <2>6, <2>7, <3>1 DEF PoolsExact
  <2>12. \A w \in Worker :
            /\ w \in Range(workerPool') => \A c \in Conn : ~Holds(c, w)'
            /\ w \notin Range(workerPool') => \E c \in Conn : Holds(c, w)'
            /\ \A c, e \in Conn : Holds(c, w)' /\ Holds(e, w)' => c = e
    <3>1. ASSUME NEW w \in Worker, w # v
          PROVE  \A c \in Conn : Holds(c, w)' <=> Holds(c, w)
      BY <2>8, <3>1
    <3>2. \A c \in Conn : Holds(c, v)' <=> c = d
      BY <2>2, <2>8, <2>9
    <3> QED
      BY <2>1, <2>2, <3>1, <3>2 DEF PoolsExact
  <2> QED
    BY <2>1, <2>2, <2>10, <2>11, <2>12 DEF PoolsExact
<1>2. ASSUME NEW c \in Conn, HandleClient(c) PROVE PoolsExact'
  <2>1. /\ claimed[c] # None /\ pc[c] = "idle"
        /\ pc' = [pc EXCEPT ![c] = "handshake"]
        /\ worker' = [worker EXCEPT ![c] = claimed[c].worker]
        /\ claimed' = [claimed EXCEPT ![c] = None]
        /\ UNCHANGED pools
    BY <1>2 DEF HandleClient, MutexFree, Goto
  <2>2. claimed[c].worker \in Worker
    BY <2>1
  <2>3. \A d \in Conn, w \in Worker : Holds(d, w)' <=> Holds(d, w)
    BY <2>1 DEF Holds, Serving
  <2> QED
    BY <2>1, <2>2, <2>3 DEF PoolsExact, Serving, Free, pools
<1>3. ASSUME NEW c \in Conn, ReturnConn(c) PROVE PoolsExact'
  <2>1. /\ pc[c] = "return" /\ pc' = [pc EXCEPT ![c] = "returnWorker"]
        /\ connPool' = Append(connPool, c)
        /\ UNCHANGED <<workerPool, claimed>> /\ worker' = worker
    BY <1>3 DEF ReturnConn, Goto, WorkerThen
  <2>2. c \notin Range(connPool) /\ claimed[c] = None
    BY <2>1 DEF PoolsExact, Free
  <2>3. IsInjective(connPool') /\ Range(connPool') = Range(connPool) \cup {c}
    BY <2>1, <2>2, AppendNew DEF PoolsExact
  <2>4. \A d \in Conn : Serving(d)' <=> Serving(d)
    BY <2>1 DEF Serving
  <2>5. \A d \in Conn, w \in Worker : Holds(d, w)' <=> Holds(d, w)
    BY <2>1, <2>4 DEF Holds
  <2> QED
    BY <2>1, <2>2, <2>3, <2>4, <2>5 DEF PoolsExact, Free
<1>4. ASSUME NEW c \in Conn, ReturnWorker(c) PROVE PoolsExact'
  <2>0. PICK v : v = worker[c]
    OBVIOUS
  <2>1. /\ pc[c] = "returnWorker" /\ pc' = [pc EXCEPT ![c] = "unlock"]
        /\ workerPool' = Append(workerPool, v)
        /\ UNCHANGED <<connPool, claimed, worker>>
    BY <1>4, <2>0 DEF ReturnWorker, Goto
  <2>2. v \in Worker /\ Holds(c, v)
    BY <2>0, <2>1 DEF PoolsExact, Holds, Serving
  <2>3. v \notin Range(workerPool)
    BY <2>2 DEF PoolsExact
  <2>4. IsInjective(workerPool') /\ Range(workerPool') = Range(workerPool) \cup {v}
    BY <2>1, <2>2, <2>3, AppendNew DEF PoolsExact
  <2>5. \A d \in Conn : Serving(d)' <=> Serving(d) /\ d # c
    BY <2>1 DEF Serving
  <2>6. \A d \in Conn, w \in Worker : Holds(d, w)' <=> Holds(d, w) /\ ~(d = c /\ w = v)
    BY <2>0, <2>1, <2>5 DEF Holds, PoolsExact, Serving
  <2>7. \A w \in Worker :
            /\ w \in Range(workerPool') => \A d \in Conn : ~Holds(d, w)'
            /\ w \notin Range(workerPool') => \E d \in Conn : Holds(d, w)'
            /\ \A d, e \in Conn : Holds(d, w)' /\ Holds(e, w)' => d = e
    BY <2>2, <2>4, <2>6 DEF PoolsExact
  <2> QED
    BY <2>1, <2>4, <2>5, <2>7 DEF PoolsExact, Free
<1>5. ASSUME NEW c \in Conn, Unlock(c) PROVE PoolsExact'
  <2>1. /\ pc[c] = "unlock" /\ pc' = [pc EXCEPT ![c] = "idle"]
        /\ worker' = [worker EXCEPT ![c] = None]
        /\ UNCHANGED <<pools, claimed>>
    BY <1>5 DEF Unlock, Goto
  <2>2. \A d \in Conn : /\ Serving(d)' <=> Serving(d)
                        /\ Serving(d) => worker'[d] = worker[d]
    BY <2>1 DEF Serving
  <2>3. \A d \in Conn, w \in Worker : Holds(d, w)' <=> Holds(d, w)
    BY <2>1, <2>2 DEF Holds
  <2> QED
    BY <2>1, <2>2, <2>3 DEF PoolsExact, Free, pools
<1>6. ASSUME NEW c \in Conn,
             \/ Handshake(c) \/ HandshakeFails(c) \/ RegisterPeer(c) \/ Launch(c) \/ Handle(c)
             \/ JoinListener(c) \/ Unregister(c) \/ Reset(c)
      PROVE  PoolsExact'
  <2>1. UNCHANGED <<pools, worker, claimed>>
    BY <1>6 DEF Handshake, HandshakeFails, RegisterPeer, Launch, Handle, JoinListener,
                Unregister, Reset
  <2>2. /\ pc[c] \notin Free
        /\ pc' = pc \/ \E label \in Labels \ Free : pc' = [pc EXCEPT ![c] = label]
    BY <1>6 DEF Handshake, HandshakeFails, RegisterPeer, Launch, Handle, JoinListener,
                Unregister, Reset, Goto, Labels, Free
  <2> QED
    BY <2>1, <2>2, SamePools DEF Free
<1>7. ASSUME NEW c \in Conn,
             \/ ShouterStep(c) \/ ListenEnd(c) \/ Listen(c) \/ Hangup(c) \/ SpuriousWakeup(c)
      PROVE  UNCHANGED <<pools, pc, worker, claimed>>
  BY <1>7 DEF ShouterStep, Shout, ShoutQuit, ListenEnd, Listen, Hangup, SpuriousWakeup
<1>8. ASSUME NEW p \in Peer, SendMessage(p) PROVE UNCHANGED <<pools, pc, worker, claimed>>
  BY <1>8 DEF SendMessage
<1>9. ASSUME UNCHANGED <<pools, pc, worker, claimed>> PROVE PoolsExact'
  BY <1>9, SamePools
<1> QED
  BY <1>1, <1>2, <1>3, <1>4, <1>5, <1>6, <1>7, <1>8, <1>9 DEF Next, MainStep, vars
-----------------------------------------------------------------------------
(* Queues *)

\* Only what changes at a connection matters for its queues.
LEMMA SameQueue ==
    ASSUME NEW c \in Conn, QueueOf(c),
           inbound'[c] = inbound[c], outbound'[c] = outbound[c], client'[c] = client[c],
           listening'[c] = listening[c], pc'[c] = pc[c]
    PROVE  QueueOf(c)'
  BY DEF QueueOf

LEMMA NextQueuesExact == IInv /\ [Next]_vars => QueuesExact'
<1> SUFFICES ASSUME IInv, [Next]_vars PROVE QueuesExact'
  OBVIOUS
<1> USE TypeParts DEF IInv, QueuesExact, NameTypes, SocketTypes, QueueTypes, ThreadTypes
<1>1. ASSUME UNCHANGED <<inbound, outbound, client, listening, pc>> PROVE QueuesExact'
  BY <1>1, SameQueue
<1>2. ASSUME NEW c \in Conn, HandleClient(c) PROVE QueuesExact'
  <2>1. /\ pc[c] = "idle" /\ pc' = [pc EXCEPT ![c] = "handshake"]
        /\ client' = [client EXCEPT ![c] = claimed[c].client]
        /\ UNCHANGED <<inbound, outbound, listening>>
    BY <1>2 DEF HandleClient, MutexFree, Goto, threads, queues
  <2>2. inbound[c] = <<>> /\ outbound[c] = <<>> /\ ~listening[c]
    BY <2>1 DEF QueueOf, Looping
  <2>3. QueueOf(c)'
    BY <2>1, <2>2 DEF QueueOf
  <2> QED
    BY <2>1, <2>3, SameQueue
<1>3. ASSUME NEW c \in Conn,
             Handshake(c) \/ HandshakeFails(c) \/ RegisterPeer(c) \/ Launch(c)
      PROVE  QueuesExact'
  <2>1. /\ pc[c] \notin Looping \cup {"reset"}
        /\ \/ pc' = pc /\ listening' = listening
           \/ \E label \in {"register", "registered", "work"} :
                 pc' = [pc EXCEPT ![c] = label] /\ listening' = listening
           \/ pc' = [pc EXCEPT ![c] = "work"] /\ listening' = [listening EXCEPT ![c] = TRUE]
        /\ UNCHANGED <<inbound, outbound, client>>
    BY <1>3 DEF Handshake, HandshakeFails, RegisterPeer, Launch, Goto, Looping, threads, queues,
                socket
  <2>2. inbound[c] = <<>> /\ outbound[c] = <<>> /\ ~listening[c]
    BY <2>1 DEF QueueOf, Looping
  <2>3. QueueOf(c)'
    BY <2>1, <2>2 DEF QueueOf
  <2> QED
    BY <2>1, <2>3, SameQueue
<1>4. ASSUME NEW p \in Peer, SendMessage(p) PROVE QueuesExact'
  <2>1. UNCHANGED <<inbound, client, listening, pc>>
    BY <1>4 DEF SendMessage, socket, threads
  <2>2. CASE outbound' = outbound
    BY <1>1, <2>1, <2>2
  <2>3. CASE outbound' # outbound
    <3>1. PICK c \in Conn : /\ peerId[c] = p
                            /\ outbound' = [outbound EXCEPT ![c] = Append(@, p)]
      BY <1>4, <2>3 DEF SendMessage, Enqueued
    <3>2. client[c] = p /\ pc[c] \in Looping \cup {"reset"}
      BY <3>1, NoneAssumption DEF ClientsExact, Client
    <3>3. outbound'[c] \in Seq({client[c], Quit})
      BY <3>1, <3>2, Appended DEF QueueOf
    <3>4. QueueOf(c)'
      BY <2>1, <3>1, <3>2, <3>3 DEF QueueOf
    <3> QED
      BY <2>1, <3>1, <3>4, SameQueue
  <2> QED
    BY <2>2, <2>3
<1>5. ASSUME NEW c \in Conn, Listen(c) \/ ListenEnd(c) PROVE QueuesExact'
  <2>1. PICK e \in {client[c], Quit} :
           /\ listening[c] /\ inbound' = [inbound EXCEPT ![c] = Append(@, e)]
           /\ \/ e = client[c] /\ listening' = listening
              \/ e = Quit /\ listening' = [listening EXCEPT ![c] = FALSE]
           /\ UNCHANGED <<outbound, client, pc>>
    BY <1>5 DEF Listen, ListenEnd, socket, threads
  <2>2. pc[c] = "work" /\ client[c] # Quit
    <3>1. pc[c] = "work"
      BY <2>1 DEF QueueOf
    <3>2. client[c] \in Client
      BY <3>1 DEF ClientsExact, Free
    <3> QED
      BY <3>1, <3>2, NoneAssumption
  <2>3. inbound'[c] \in Seq({client[c], Quit}) /\ inbound[c] \in Seq({client[c], Quit})
    BY <2>1, Appended DEF QueueOf
  <2>4. \A i \in DOMAIN inbound[c] : inbound[c][i] # Quit
    BY <2>1 DEF QueueOf
  <2>5. \A i \in DOMAIN inbound'[c] :
           inbound'[c][i] = Quit => i = Len(inbound'[c]) /\ ~listening'[c]
    <3>1. /\ inbound'[c] = Append(inbound[c], e)
          /\ DOMAIN inbound'[c] = 1 .. Len(inbound[c]) + 1
          /\ Len(inbound'[c]) = Len(inbound[c]) + 1
          /\ \A i \in DOMAIN inbound[c] : inbound'[c][i] = inbound[c][i]
          /\ inbound'[c][Len(inbound[c]) + 1] = e
          /\ DOMAIN inbound[c] = 1 .. Len(inbound[c]) /\ Len(inbound[c]) \in Nat
      BY <2>1, <2>3
    <3>2. e = Quit => ~listening'[c]
      BY <2>1, <2>2
    <3> QED
      BY <2>4, <3>1, <3>2
  <2>6. QueueOf(c)'
    BY <2>1, <2>2, <2>3, <2>5 DEF QueueOf
  <2> QED
    BY <2>1, <2>6, SameQueue
<1>6. ASSUME NEW c \in Conn, Handle(c) PROVE QueuesExact'
  <2>1. /\ pc[c] = "work" /\ inbound[c] # <<>>
        /\ inbound' = [inbound EXCEPT ![c] = Tail(@)]
        /\ UNCHANGED <<client, listening>>
        /\ IF Head(inbound[c]) = Quit
           THEN pc' = [pc EXCEPT ![c] = "joinListener"] /\ outbound' = outbound
           ELSE /\ pc' = pc
                /\ \/ outbound' = outbound
                   \/ outbound' = [outbound EXCEPT ![c] = Append(@, client[c])]
    BY <1>6 DEF Handle, Goto, socket, threads
  <2>2. /\ inbound[c] \in Seq({client[c], Quit}) /\ inbound'[c] = Tail(inbound[c])
        /\ inbound'[c] \in Seq({client[c], Quit})
    BY <2>1, Popped DEF QueueOf
  <2>3. outbound'[c] \in Seq({client[c], Quit})
    <3>1. outbound[c] \in Seq({client[c], Quit})
      BY DEF QueueOf
    <3>2. Append(outbound[c], client[c]) \in Seq({client[c], Quit})
      BY <3>1
    <3>3. outbound'[c] = outbound[c] \/ outbound'[c] = Append(outbound[c], client[c])
      BY <2>1
    <3> QED
      BY <3>1, <3>2, <3>3
  <2>4. /\ Len(inbound[c]) \in Nat \ {0} /\ DOMAIN inbound[c] = 1 .. Len(inbound[c])
        /\ Head(inbound[c]) = inbound[c][1]
        /\ Len(inbound'[c]) = Len(inbound[c]) - 1
        /\ DOMAIN inbound'[c] = 1 .. Len(inbound[c]) - 1
        /\ \A i \in DOMAIN inbound'[c] : inbound'[c][i] = inbound[c][i + 1]
    BY <2>1, <2>2
  <2>5. \A i \in DOMAIN inbound[c] :
           inbound[c][i] = Quit => i = Len(inbound[c]) /\ ~listening[c]
    BY Zenon DEF QueueOf
  <2>6. Head(inbound[c]) = Quit => inbound'[c] = <<>> /\ ~listening[c]
    <3>1. 1 \in DOMAIN inbound[c]
      BY <2>1, <2>2, EmptySeq
    <3>2. Head(inbound[c]) = Quit => 1 = Len(inbound[c]) /\ ~listening[c]
      BY <2>4, <2>5, <3>1, Zenon
    <3>3. 1 = Len(inbound[c]) => Len(inbound'[c]) = 0
      <4>1. Len(inbound'[c]) = Len(inbound[c]) - 1
        BY <2>4, Zenon
      <4>2. \A k : k = 1 => k - 1 = 0
        OBVIOUS
      <4> QED
        BY <4>1, <4>2
    <3>4. Len(inbound'[c]) = 0 => inbound'[c] = <<>>
      BY <2>2, EmptySeq, Zenon
    <3> QED
      BY <3>2, <3>3, <3>4
  <2>7. \A i \in DOMAIN inbound'[c] :
           inbound'[c][i] = Quit => i = Len(inbound'[c]) /\ ~listening[c]
    <3>1. SUFFICES ASSUME NEW i \in DOMAIN inbound'[c], inbound'[c][i] = Quit
                   PROVE  i = Len(inbound'[c]) /\ ~listening[c]
      OBVIOUS
    <3>2. i \in 1 .. Len(inbound[c]) - 1 /\ inbound[c][i + 1] = Quit
      BY <2>4, <3>1, Zenon
    <3>3. i + 1 \in DOMAIN inbound[c]
      BY <2>2, <3>2
    <3>4. i + 1 = Len(inbound[c]) /\ ~listening[c]
      BY <2>5, <3>2, <3>3
    <3>5. \A n \in Nat \ {0} : \A k \in 1 .. n - 1 : k + 1 = n => k = n - 1
      OBVIOUS
    <3>6. i = Len(inbound[c]) - 1
      BY <2>4, <3>2, <3>4, <3>5, Zenon
    <3> QED
      BY <2>4, <3>4, <3>6, Zenon
  <2>8. QueueOf(c)'
    BY <2>1, <2>2, <2>3, <2>6, <2>7 DEF QueueOf, Looping
  <2> QED
    BY <2>1, <2>8, SameQueue
<1>7. ASSUME NEW c \in Conn, JoinListener(c) \/ ShouterStep(c) PROVE QueuesExact'
  <2>1. /\ UNCHANGED <<inbound, client, listening>>
        /\ \/ pc' = pc
           \/ pc[c] = "joinListener" /\ ~listening[c] /\ pc' = [pc EXCEPT ![c] = "joinShouter"]
    BY <1>7 DEF JoinListener, ShouterStep, Shout, ShoutQuit, Goto, socket, threads
  <2>2. outbound[c] \in Seq({client[c], Quit})
    BY DEF QueueOf
  <2>3. /\ outbound' = [outbound EXCEPT ![c] = outbound'[c]]
        /\ outbound'[c] \in Seq({client[c], Quit})
    <3>1. CASE JoinListener(c)
      BY <2>2, <3>1, Appended DEF JoinListener, AfterListener
    <3>2. CASE Shout(c)
      BY <2>2, <3>2, Popped DEF Shout
    <3>3. CASE ShoutQuit(c)
      <4>1. PICK i \in DOMAIN outbound[c] :
               outbound' = [outbound EXCEPT ![c] = SubSeq(@, 1, i - 1) \o SubSeq(@, i + 1, Len(@))]
        BY <3>3 DEF ShoutQuit
      <4>2. SubSeq(outbound[c], 1, i - 1) \o SubSeq(outbound[c], i + 1, Len(outbound[c]))
               \in Seq({client[c], Quit})
        BY <2>2, CutOut
      <4> QED
        BY <4>1, <4>2
    <3> QED
      BY <1>7, <3>1, <3>2, <3>3 DEF ShouterStep
  <2>4. pc[c] \notin Looping \cup {"reset"} => outbound'[c] = <<>>
    <3>1. outbound[c] # <<>> \/ pc[c] = "joinListener"
      BY <1>7, <2>2 DEF JoinListener, ShouterStep, Shout, ShoutQuit
    <3> QED
      BY <3>1 DEF QueueOf, Looping
  <2>5. QueueOf(c)'
    BY <2>1, <2>3, <2>4 DEF QueueOf, Looping
  <2> QED
    BY <2>1, <2>3, <2>5, SameQueue
<1>8. ASSUME NEW c \in Conn, Unregister(c) \/ Reset(c) PROVE QueuesExact'
  <2>1. /\ UNCHANGED <<inbound, client, listening>>
        /\ \/ /\ pc[c] = "joinShouter" /\ pc' = [pc EXCEPT ![c] = "reset"]
              /\ UNCHANGED outbound
           \/ /\ pc[c] = "reset" /\ pc' = [pc EXCEPT ![c] = "return"]
              /\ outbound' = [outbound EXCEPT ![c] = <<>>]
    BY <1>8 DEF Unregister, Reset, QueueAfter, Goto, socket, threads, queues
  <2>2. inbound[c] = <<>> /\ ~listening[c] /\ outbound[c] \in Seq({client[c], Quit})
    BY <2>1 DEF QueueOf
  <2>3. QueueOf(c)'
    BY <2>1, <2>2 DEF QueueOf, Looping
  <2> QED
    BY <2>1, <2>3, SameQueue
<1>9. ASSUME NEW c \in Conn, ReturnConn(c) \/ ReturnWorker(c) \/ Unlock(c) PROVE QueuesExact'
  <2>1. /\ UNCHANGED <<inbound, outbound, listening>>
        /\ pc[c] \in {"return", "returnWorker", "unlock"}
        /\ \E label \in Free : pc' = [pc EXCEPT ![c] = label]
        /\ \E who : client' = [client EXCEPT ![c] = who]
    BY <1>9 DEF ReturnConn, ReturnWorker, Unlock, Goto, Free, threads, queues, socket
  <2>2. inbound[c] = <<>> /\ outbound[c] = <<>> /\ ~listening[c]
    BY <2>1 DEF QueueOf, Looping
  <2>3. QueueOf(c)'
    BY <2>1, <2>2 DEF QueueOf
  <2> QED
    BY <2>1, <2>3, SameQueue
<1>10. ASSUME NEW p \in Client, OnConnect(p) PROVE QueuesExact'
  <2>1. UNCHANGED <<pc, socket, threads, queues>>
    BY <1>10 DEF OnConnect
  <2> QED
    BY <1>1, <2>1 DEF socket, threads, queues
<1>11. ASSUME NEW c \in Conn, Hangup(c) \/ SpuriousWakeup(c) PROVE QueuesExact'
  BY <1>1, <1>11 DEF Hangup, SpuriousWakeup, socket, threads, queues
<1>12. CASE UNCHANGED vars
  BY <1>1, <1>12 DEF vars, socket, threads, queues
<1> QED
  BY <1>2, <1>3, <1>4, <1>5, <1>6, <1>7, <1>8, <1>9, <1>10, <1>11, <1>12 DEF Next, MainStep

\* A step changes one inbound and one outbound queue at most.
LEMMA QueueByQueue ==
    ASSUME [Next]_vars
    PROVE  /\ inbound' = inbound \/ \E c, q : inbound' = [inbound EXCEPT ![c] = q]
           /\ outbound' = outbound \/ \E c, q : outbound' = [outbound EXCEPT ![c] = q]
<1>1. CASE UNCHANGED vars
  BY <1>1, Zenon DEF vars, queues
<1>2. ASSUME NEW c \in Conn,
             \/ HandleClient(c) \/ Handshake(c) \/ HandshakeFails(c) \/ RegisterPeer(c)
             \/ SpuriousWakeup(c) \/ Launch(c) \/ Hangup(c) \/ Unregister(c)
             \/ ReturnConn(c) \/ ReturnWorker(c) \/ Unlock(c)
      PROVE  UNCHANGED queues
  BY <1>2, Zenon DEF HandleClient, Handshake, HandshakeFails, RegisterPeer, SpuriousWakeup, Launch,
     Hangup, Unregister, ReturnConn, ReturnWorker, Unlock
<1>3. ASSUME NEW p \in Client, OnConnect(p) PROVE UNCHANGED queues
  BY <1>3, Zenon DEF OnConnect
<1>4. ASSUME NEW p \in Peer, SendMessage(p)
      PROVE  inbound' = inbound /\ (outbound' = outbound \/ \E c, q : outbound' = [outbound EXCEPT ![c] = q])
  BY <1>4, Zenon DEF SendMessage, Enqueued
<1>5. ASSUME NEW c \in Conn, Listen(c) \/ ListenEnd(c)
      PROVE  outbound' = outbound /\ \E q : inbound' = [inbound EXCEPT ![c] = q]
  BY <1>5, Zenon DEF Listen, ListenEnd
<1>6. ASSUME NEW c \in Conn, Handle(c)
      PROVE  /\ \E q : inbound' = [inbound EXCEPT ![c] = q]
             /\ outbound' = outbound \/ \E q : outbound' = [outbound EXCEPT ![c] = q]
  BY <1>6, Zenon DEF Handle
<1>7. ASSUME NEW c \in Conn, JoinListener(c) \/ Shout(c) \/ ShoutQuit(c) \/ Reset(c)
      PROVE  inbound' = inbound /\ \E q : outbound' = [outbound EXCEPT ![c] = q]
  BY <1>7, Zenon DEF JoinListener, Shout, ShoutQuit, Reset
<1>8. CASE Next
  <2>1. ASSUME NEW c \in Conn, MainStep(c) \/ ShouterStep(c) \/ ListenEnd(c) \/ HandshakeFails(c)
                               \/ SpuriousWakeup(c) \/ Hangup(c) \/ Listen(c)
        PROVE  /\ inbound' = inbound \/ \E d, q : inbound' = [inbound EXCEPT ![d] = q]
               /\ outbound' = outbound \/ \E d, q : outbound' = [outbound EXCEPT ![d] = q]
    <3>1. CASE UNCHANGED queues
      BY <3>1, Zenon DEF queues
    <3>2. CASE Listen(c) \/ ListenEnd(c)
      BY <1>5, <3>2, Zenon
    <3>3. CASE Handle(c)
      BY <1>6, <3>3, Zenon
    <3>4. CASE JoinListener(c) \/ Shout(c) \/ ShoutQuit(c) \/ Reset(c)
      BY <1>7, <3>4, Zenon
    <3> QED
      BY <1>2, <2>1, <3>1, <3>2, <3>3, <3>4, Zenon DEF MainStep, ShouterStep
  <2> QED
    BY <1>3, <1>4, <1>8, <2>1, Zenon DEF Next, queues
<1> QED
  BY <1>1, <1>8

\* The queues of a connection hold what its client's queues may hold.
LEMMA NextQueueTypes == IInv /\ [Next]_vars => QueueTypes'
<1> SUFFICES ASSUME IInv, [Next]_vars PROVE QueueTypes'
  OBVIOUS
<1>1. QueuesExact' /\ ClientsExact' /\ SocketTypes'
  BY NextQueuesExact, NextClientsExact, NextSocketTypes
<1>2. ASSUME NEW c \in Conn
      PROVE  inbound'[c] \in Seq(Client \cup {Quit}) /\ outbound'[c] \in Seq(Client \cup {Quit})
  <2>1. CASE client'[c] = None
    <3>1. pc'[c] \in Free
      BY <1>1, <2>1 DEF ClientsExact
    <3>2. inbound'[c] = <<>> /\ outbound'[c] = <<>>
      BY <1>1, <3>1 DEF QueuesExact, QueueOf, Free, Looping
    <3> QED
      BY <3>2
  <2>2. CASE client'[c] # None
    <3>1. {client'[c], Quit} \subseteq Client \cup {Quit}
      BY <1>1, <2>2 DEF SocketTypes
    <3>2. inbound'[c] \in Seq({client'[c], Quit}) /\ outbound'[c] \in Seq({client'[c], Quit})
      BY <1>1 DEF QueuesExact, QueueOf
    <3> QED
      BY <3>1, <3>2, SeqGrows
  <2> QED
    BY <2>1, <2>2
<1>3. /\ inbound' = [c \in Conn |-> inbound'[c]]
      /\ outbound' = [c \in Conn |-> outbound'[c]]
  <2>1. /\ inbound = [c \in Conn |-> inbound[c]]
        /\ outbound = [c \in Conn |-> outbound[c]]
    BY TypeParts DEF IInv, QueueTypes
  <2>2. inbound' = inbound \/ \E c, q : inbound' = [inbound EXCEPT ![c] = q]
    BY QueueByQueue, Zenon
  <2>3. outbound' = outbound \/ \E c, q : outbound' = [outbound EXCEPT ![c] = q]
    BY QueueByQueue, Zenon
  <2>4. inbound' = [c \in Conn |-> inbound'[c]]
    BY <2>1, <2>2
  <2>5. outbound' = [c \in Conn |-> outbound'[c]]
    BY <2>1, <2>3
  <2> QED
    BY <2>4, <2>5, Zenon
<1>4. inbound' \in [Conn -> Seq(Client \cup {Quit})]
  BY <1>2, <1>3
<1>5. outbound' \in [Conn -> Seq(Client \cup {Quit})]
  BY <1>2, <1>3
<1> QED
  BY <1>4, <1>5, Zenon DEF QueueTypes

LEMMA NextIInv == IInv /\ [Next]_vars => IInv'
<1> SUFFICES ASSUME IInv, [Next]_vars PROVE IInv'
  OBVIOUS
<1>1. clients' \in Nat /\ msgs' \in Nat
  BY TypeParts
     DEF IInv, Next, MainStep, OnConnect, HandleClient, Handshake, HandshakeFails, RegisterPeer,
         SpuriousWakeup, Launch, SendMessage, Hangup, Listen, ListenEnd, Handle, JoinListener,
         ShouterStep, Shout, ShoutQuit, Unregister, Reset, ReturnConn, ReturnWorker, Unlock,
         vars, bounds
<1>2. TypeOK'
  BY <1>1, NextSocketTypes, NextThreadTypes, NextWorkTypes, NextNameTypes, NextQueueTypes
     DEF TypeOK, PoolTypes, SocketTypes, ThreadTypes, WorkTypes, NameTypes, QueueTypes, Labels
<1> QED
  BY <1>2, NextClientsExact, NextMapIsExact, NextQueuesExact, NextPoolsExact DEF IInv
-----------------------------------------------------------------------------
(* What always holds *)

\* The strengthened invariant: clients and peer ids follow the main thread, the
\* peer map is exact, queues are empty between sessions, pools list what is unused.
THEOREM Invariance == Spec => []IInv
<1> QED
  BY InitIInv, NextIInv, PTL DEF Spec

\* Types of the state, in particular that a worker that is given back is one
\* (Connection::returnToPool reads m_worker after it gave the connection away).
THEOREM TypeCorrect == Spec => []TypeOK
<1>1. IInv => TypeOK
  BY DEF IInv
<1> QED
  BY <1>1, Invariance, PTL

\* Backend::m_peerMap names the one registered connection of each peer, for any
\* number of connections and peers and however sessions end.
THEOREM MapStaysExact == Spec => []MapIsExact
<1>1. IInv => MapIsExact
  BY DEF IInv
<1> QED
  BY <1>1, Invariance, PTL

\* A worker is in the pool or with one connection, although a connection is
\* back in its pool before its worker (Connection::returnToPool).
THEOREM WorkersStayExclusive == Spec => []WorkersAreExclusive
<1>1. ASSUME IInv, NEW w \in Worker
      PROVE  Cardinality(HolderOf(w)) = IF w \in Range(workerPool) THEN 0 ELSE 1
  <2>1. HolderOf(w) = {c \in Conn : Holds(c, w)}
    BY DEF HolderOf, Holds
  <2>2. CASE w \in Range(workerPool)
    <3>1. HolderOf(w) = {}
      BY <1>1, <2>1, <2>2 DEF IInv, PoolsExact
    <3> QED
      BY <2>2, <3>1, FS_EmptySet
  <2>3. CASE w \notin Range(workerPool)
    <3>1. PICK c \in Conn : Holds(c, w)
      BY <1>1, <2>3 DEF IInv, PoolsExact
    <3>2. HolderOf(w) = {c}
      BY <1>1, <2>1, <3>1 DEF IInv, PoolsExact
    <3> QED
      BY <2>3, <3>2, FS_Singleton
  <2> QED
    BY <2>2, <2>3
<1>2. IInv => WorkersAreExclusive
  BY <1>1 DEF WorkersAreExclusive
<1> QED
  BY <1>2, Invariance, PTL

\* No message crosses from one session of a pooled connection to the next: the
\* clean-up of Connection::main leaves both queues empty.
THEOREM NothingCrosses == Spec => []OnlyItsClient
<1>1. IInv => OnlyItsClient
  <2>1. SUFFICES ASSUME IInv, NEW c \in Conn, NEW q \in {inbound[c], outbound[c]},
                        NEW i \in DOMAIN q
                 PROVE  q[i] \in {client[c], Quit}
    BY DEF OnlyItsClient
  <2>2. q \in Seq({client[c], Quit})
    BY <2>1 DEF IInv, QueuesExact, QueueOf
  <2> QED
    BY <2>2
<1> QED
  BY <1>1, Invariance, PTL
=============================================================================
