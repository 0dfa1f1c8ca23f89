---------------------------- MODULE Daemon_proofs ----------------------------
(***************************************************************************)
(* Machine-checked proofs about Daemon and the JobQueue in it, for every     *)
(* set of clients and jobs, every configuration and every list of commands:  *)
(* the jobs are done in the order of posting, the threads of a backend use    *)
(* the queue as JobQueue says, and every fuse loop is known to somebody who   *)
(* will end it.                                                            *)
(***************************************************************************)
EXTENDS Daemon, ListLemmas
-----------------------------------------------------------------------------
(* The queue of jobs *)

JobTypes ==
    /\ first \in Work \cup {NoJob} /\ last \in Work \cup {NoJob}
    /\ next \in [Work -> Work \cup {NoJob}]
    /\ doing \in Work \cup {NoJob} /\ working \in BOOLEAN
    /\ posted \in Seq(Work) /\ done \in Seq(Job)

\* A job is given to enqueue once.
NoRepeat == \A i, k \in 1 .. Len(posted) : posted[i] = posted[k] => i = k

\* A job that was not enqueued yet names no successor.
NewIsUnlinked ==
    working => \A j \in Work : (\A i \in 1 .. Len(posted) : posted[i] # j) => next[j] = NoJob

\* The inductive invariant: when m_last gets a successor, the job that comes
\* behind it must end the list, and no other job of the list may be m_last.
JobInv == JobTypes /\ NoRepeat /\ NewIsUnlinked /\ JobsInOrder

LEMMA JobInvInit == JobInit => JobInv
<1> SUFFICES ASSUME JobInit PROVE JobInv
  OBVIOUS
<1> USE DEF JobInit
<1>1. posted = <<>> /\ done = <<>> /\ Len(posted) = 0 /\ Len(done) = 0
  OBVIOUS
<1>2. JobTypes
  BY <1>1 DEF JobTypes, Work
<1>3. NoRepeat /\ NewIsUnlinked
  BY <1>1 DEF NoRepeat, NewIsUnlinked
<1>4. Taken = 0
  BY <1>1 DEF Taken
<1>5. JobsInOrder
  BY <1>1, <1>4 DEF JobsInOrder
<1> QED
  BY <1>2, <1>3, <1>5 DEF JobInv

LEMMA TakenIs ==
    /\ doing = NoJob => Taken = Len(done)
    /\ doing # NoJob => Taken = Len(done) + 1
    /\ Len(done) \in Nat => Taken \in Nat
<1>1. CASE doing = NoJob
  <2>1. Taken = Len(done) + 0
    BY <1>1 DEF Taken
  <2> QED
    BY <1>1, <2>1
<1>2. CASE doing # NoJob
  BY <1>2 DEF Taken
<1> QED
  BY <1>1, <1>2

\* The numbers and the two ends of the list that JobsInOrder fixes.
LEMMA Ends ==
    ASSUME JobInv, working
    PROVE  /\ Taken \in Nat /\ Len(posted) \in Nat /\ Taken <= Len(posted)
           /\ first = NoJob <=> Taken = Len(posted)
           /\ last = NoJob <=> Taken = Len(posted)
<1>1. Len(posted) \in Nat /\ Len(done) \in Nat
  BY DEF JobInv, JobTypes
<1>2. Taken \in Nat /\ Taken <= Len(posted)
  <2>1. Taken \in Nat
    BY <1>1, TakenIs
  <2> QED
    BY <2>1 DEF JobInv, JobsInOrder
<1>3. \A i \in 1 .. Len(posted) : posted[i] \in Work
  BY <1>1 DEF JobInv, JobTypes
<1>4. \A i \in 1 .. Len(posted) : posted[i] # NoJob
  BY <1>3, JobAssumption DEF Work
<1>5. Taken # Len(posted) => Taken + 1 \in 1 .. Len(posted) /\ Len(posted) \in 1 .. Len(posted)
  BY <1>1, <1>2
<1> QED
  BY <1>1, <1>2, <1>4, <1>5 DEF JobInv, JobsInOrder

\* enqueue.
LEMMA EnqueueStep == ASSUME JobInv, NEW j \in Work, Enqueue(j) PROVE JobInv'
<1> USE DEF JobInv
<1>1. /\ Len(posted) \in Nat /\ Len(done) \in Nat
      /\ posted' \in Seq(Work) /\ Len(posted') = Len(posted) + 1
      /\ posted'[Len(posted) + 1] = j
      /\ \A i \in 1 .. Len(posted) : posted'[i] = posted[i]
  BY DEF JobTypes, Enqueue
<1>2. \A i \in 1 .. Len(posted) : posted[i] # j
  BY DEF Enqueue, JobTypes
<1>3. JobTypes'
  BY <1>1 DEF JobTypes, Enqueue
<1>4. NoRepeat'
  BY <1>1, <1>2 DEF NoRepeat
<1>5. CASE ~working
  BY <1>3, <1>4, <1>5 DEF Enqueue, NewIsUnlinked, JobsInOrder
<1>6. CASE working
  <2> DEFINE n == Len(posted)
             T == Taken
  <2>1. /\ T \in Nat /\ T <= n /\ (T = n <=> last = NoJob)
        /\ Taken' = T /\ working' /\ doing' = doing /\ done' = done /\ last' = j
    BY <1>1, <1>6, Ends DEF Enqueue, Taken
  <2>2. next[j] = NoJob
    BY <1>1, <1>2, <1>6 DEF NewIsUnlinked
  <2>3. CASE T = n
    <3>1. first' = j /\ next' = next
      BY <2>1, <2>3 DEF Enqueue
    <3>2. NewIsUnlinked'
      BY <1>1, <1>6, <3>1, <2>1 DEF NewIsUnlinked
    <3>3. JobsInOrder'
      <4>1. \A i \in T + 1 .. n + 1 : i = n + 1
        BY <1>1, <2>3
      <4>2. \A i \in 1 .. Len(done) : done[i] = posted'[i]
        BY <1>1, <1>6, <2>1 DEF JobsInOrder, Taken
      <4>3. doing # NoJob => doing = posted'[T]
        <5>1. doing # NoJob => T \in 1 .. n
          BY <1>1, <2>1, TakenIs
        <5> QED
          BY <5>1, <1>1, <1>6 DEF JobsInOrder
      <4>4. \A i \in Taken' + 1 .. Len(posted') :
              next'[posted'[i]] = IF i = Len(posted') THEN NoJob ELSE posted'[i + 1]
        BY <1>1, <2>1, <2>2, <3>1, <4>1
      <4>5. first' = (IF Taken' = Len(posted') THEN NoJob ELSE posted'[Taken' + 1])
        BY <1>1, <2>1, <2>3, <3>1
      <4>6. last' = (IF Taken' = Len(posted') THEN NoJob ELSE posted'[Len(posted')])
        BY <1>1, <2>1, <2>3
      <4>7. Taken' <= Len(posted')
        BY <1>1, <2>1
      <4> QED
        BY <2>1, <4>2, <4>3, <4>4, <4>5, <4>6, <4>7 DEF JobsInOrder
    <3> QED
      BY <1>3, <1>4, <3>2, <3>3
  <2>4. CASE T # n
    <3>1. last = posted[n] /\ last # NoJob /\ n \in 1 .. n /\ last # j
      BY <1>1, <1>2, <1>6, <2>1, <2>4 DEF JobsInOrder
    <3>2. first' = first /\ next' = [next EXCEPT ![last] = j]
      BY <3>1 DEF Enqueue
    <3>3. last \in Work /\ next \in [Work -> Work \cup {NoJob}]
      BY <3>1 DEF JobTypes
    <3>4. NewIsUnlinked'
      <4> SUFFICES ASSUME NEW x \in Work, \A i \in 1 .. Len(posted') : posted'[i] # x
                   PROVE  next'[x] = NoJob
        BY DEF NewIsUnlinked
      <4>1. \A i \in 1 .. n : posted[i] # x
        BY <1>1
      <4>2. x # last
        BY <1>1, <3>1, <4>1
      <4>3. next[x] = NoJob
        BY <4>1, <1>6 DEF NewIsUnlinked
      <4> QED
        BY <3>2, <3>3, <4>2, <4>3
    <3>5. JobsInOrder'
      <4>1. \A i \in 1 .. Len(done) : done[i] = posted'[i]
        BY <1>1, <1>6, <2>1 DEF JobsInOrder, Taken
      <4>2. doing # NoJob => doing = posted'[T]
        <5>1. doing # NoJob => T \in 1 .. n
          BY <1>1, <2>1, TakenIs
        <5> QED
          BY <5>1, <1>1, <1>6 DEF JobsInOrder
      <4>3. ASSUME NEW i \in Taken' + 1 .. Len(posted')
            PROVE  next'[posted'[i]] = IF i = Len(posted') THEN NoJob ELSE posted'[i + 1]
        <5>1. CASE i = n + 1
          BY <5>1, <1>1, <2>2, <3>1, <3>2, <3>3
        <5>2. CASE i = n
          BY <5>2, <1>1, <3>1, <3>2, <3>3
        <5>3. CASE i \in T + 1 .. n - 1
          <6>1. i \in 1 .. n /\ i # n /\ i + 1 \in 1 .. n
            BY <5>3, <1>1, <2>1
          <6>2. posted[i] # last /\ posted[i] \in Work
            BY <6>1, <3>1, <1>1 DEF NoRepeat, JobTypes
          <6>3. next[posted[i]] = posted[i + 1]
            BY <5>3, <6>1, <1>1, <1>6, <2>1 DEF JobsInOrder
          <6> QED
            BY <6>1, <6>2, <6>3, <1>1, <3>2, <3>3
        <5>4. i \in T + 1 .. n + 1
          BY <1>1, <2>1
        <5> QED
          BY <5>1, <5>2, <5>3, <5>4, <1>1, <2>1
      <4>4. first' = (IF Taken' = Len(posted') THEN NoJob ELSE posted'[Taken' + 1])
        <5>1. first = posted[T + 1] /\ T + 1 \in 1 .. n
          BY <1>1, <1>6, <2>1, <2>4 DEF JobsInOrder
        <5> QED
          BY <5>1, <1>1, <2>1, <2>4, <3>2
      <4>5. last' = (IF Taken' = Len(posted') THEN NoJob ELSE posted'[Len(posted')])
        BY <1>1, <2>1, <2>4
      <4>6. Taken' <= Len(posted')
        BY <1>1, <2>1
      <4> QED
        BY <2>1, <4>1, <4>2, <4>3, <4>4, <4>5, <4>6 DEF JobsInOrder
    <3> QED
      BY <1>3, <1>4, <3>4, <3>5
  <2> QED
    BY <2>3, <2>4
<1> QED
  BY <1>5, <1>6 DEF JobTypes

\* The worker takes the first job.
LEMMA TakeStep == ASSUME JobInv, TakeJob PROVE JobInv'
<1> USE DEF JobInv
<1> DEFINE n == Len(posted)
           T == Taken
<1>1. /\ working /\ doing = NoJob /\ first # NoJob /\ first \in Work
      /\ doing' = first /\ first' = next[first] /\ last' = LastAfter
      /\ next' = [next EXCEPT ![first] = NoJob]
      /\ working' /\ posted' = posted /\ done' = done
  BY DEF TakeJob, JobTypes
<1>2. n \in Nat /\ Len(done) \in Nat /\ T = Len(done)
  BY <1>1 DEF JobTypes, Taken
<1>3. T < n /\ T + 1 \in 1 .. n
  BY <1>1, <1>2, Ends
<1>4. /\ first = posted[T + 1] /\ last = posted[n] /\ Taken' = T + 1
      /\ next[first] = IF T + 1 = n THEN NoJob ELSE posted[T + 2]
  <2>1. first = posted[T + 1] /\ last = posted[n]
    BY <1>1, <1>2, <1>3 DEF JobsInOrder
  <2>2. next[posted[T + 1]] = IF T + 1 = n THEN NoJob ELSE posted[T + 1 + 1]
    BY <1>1, <1>2, <1>3 DEF JobsInOrder
  <2>3. Taken' = T + 1
    BY <1>1, <1>2 DEF Taken
  <2> QED
    BY <2>1, <2>2, <2>3, <1>2
<1>5. first = last <=> T + 1 = n
  BY <1>2, <1>3, <1>4 DEF NoRepeat
<1>6. JobTypes'
  BY <1>1 DEF JobTypes, LastAfter
<1>7. NoRepeat'
  BY <1>1 DEF NoRepeat
<1>8. NewIsUnlinked'
  BY <1>1 DEF NewIsUnlinked, JobTypes
<1>9. JobsInOrder'
  <2>1. \A i \in 1 .. Len(done) : done[i] = posted[i]
    BY <1>1 DEF JobsInOrder
  <2>2. first' = (IF T + 1 = n THEN NoJob ELSE posted[T + 1 + 1])
    BY <1>1, <1>2, <1>4
  <2>3. last' = (IF T + 1 = n THEN NoJob ELSE posted[n])
    BY <1>1, <1>4, <1>5 DEF LastAfter
  <2>4. ASSUME NEW i \in T + 1 + 1 .. n
        PROVE  next'[posted[i]] = IF i = n THEN NoJob ELSE posted[i + 1]
    <3>1. i \in 1 .. n /\ i # T + 1 /\ i \in T + 1 .. n
      BY <1>2
    <3>2. posted[i] # first /\ posted[i] \in Work
      BY <3>1, <1>2, <1>3, <1>4 DEF NoRepeat, JobTypes
    <3>3. next'[posted[i]] = next[posted[i]]
      BY <1>1, <3>2 DEF JobTypes
    <3> QED
      BY <3>1, <3>3, <1>1 DEF JobsInOrder
  <2> QED
    BY <1>1, <1>2, <1>3, <1>4, <2>1, <2>2, <2>3, <2>4 DEF JobsInOrder
<1> QED
  BY <1>6, <1>7, <1>8, <1>9

\* The worker does the job it has taken.
LEMMA DoStep == ASSUME JobInv, DoJob PROVE JobInv'
<1> USE DEF JobInv
<1>1. /\ doing \in Job /\ doing # NoJob /\ doing' = NoJob
      /\ done' = Append(done, doing)
      /\ UNCHANGED <<first, last, next, working, posted>>
  BY JobAssumption DEF DoJob
<1>2. /\ Len(done) \in Nat /\ done' \in Seq(Job) /\ Len(done') = Len(done) + 1
      /\ done'[Len(done) + 1] = doing
      /\ \A i \in 1 .. Len(done) : done'[i] = done[i]
  BY <1>1 DEF JobTypes
<1>3. Taken' = Taken /\ Taken = Len(done) + 1
  BY <1>1, <1>2 DEF Taken
<1>4. JobTypes'
  BY <1>1, <1>2 DEF JobTypes
<1>5. NoRepeat' /\ NewIsUnlinked'
  BY <1>1 DEF NoRepeat, NewIsUnlinked
<1>6. JobsInOrder'
  <2> SUFFICES ASSUME working PROVE JobsInOrder'
    BY <1>1 DEF JobsInOrder
  <2>1. \A i \in 1 .. Len(done') : done'[i] = posted'[i]
    BY <1>1, <1>2, <1>3 DEF JobsInOrder
  <2> QED
    BY <1>1, <1>3, <2>1 DEF JobsInOrder
<1> QED
  BY <1>4, <1>5, <1>6

\* The JobKiller.
LEMMA KillStep == ASSUME JobInv, KillWorker PROVE JobInv'
<1>1. JobTypes' /\ ~working'
  BY DEF JobInv, JobTypes, KillWorker
<1> QED
  BY <1>1 DEF JobInv, KillWorker, NoRepeat, NewIsUnlinked, JobsInOrder

LEMMA JobInvNext == JobInv /\ [JobNext]_jobVars => JobInv'
<1> SUFFICES ASSUME JobInv, [JobNext]_jobVars PROVE JobInv'
  OBVIOUS
<1>1. ASSUME NEW j \in Work, Enqueue(j) PROVE JobInv'
  BY <1>1, EnqueueStep
<1>2. CASE TakeJob
  BY <1>2, TakeStep
<1>3. CASE DoJob
  BY <1>3, DoStep
<1>4. CASE KillWorker
  BY <1>4, KillStep
<1>5. CASE UNCHANGED jobVars
  BY <1>5 DEF JobInv, JobTypes, NoRepeat, NewIsUnlinked, JobsInOrder, Taken, jobVars
<1> QED
  BY <1>1, <1>2, <1>3, <1>4, <1>5 DEF JobNext, WorkerStep

\* However jobs are enqueued while the worker takes and does them, until the
\* JobKiller the list holds exactly the jobs still to do, in order
\* (JobWorker::enqueue and main).
THEOREM JobsStayInOrder == JobSpec => []JobsInOrder
<1>1. JobInv => JobsInOrder
  BY DEF JobInv
<1> QED
  BY JobInvInit, JobInvNext, <1>1, PTL DEF JobSpec
-----------------------------------------------------------------------------
(* Threads and mount points *)

\* What a thread has to carry out: operations, and the MountPoints that
\* Backend::run takes down one by one.
Task == Operation \cup [op : {"leave"}, of : MountPoint]

SessionState == {"out", "dialled", "greeting", "sent", "asked", "answered", "gone"}

DaemonTypes ==
    /\ todo \in [Thread -> Seq(Task)]
    /\ mp \in [Thread -> SUBSET MountPoint]
    /\ cmd \in [User -> Command] /\ agenda \in [User -> Seq(Command)]
    /\ session \in [User -> SessionState]
    /\ mounts \in Seq(MountPoint)

\* The thread of a client works only while the client waits for its reply.
Idle == \A u \in User : session[u] # "asked" => todo[u] = <<>>

\* The main thread never asks for a synchronisation, and while the list of
\* mount points is locked it only takes them down.
MainWork == \A i \in 1 .. Len(todo[Main]) :
    todo[Main][i].op # "sync" /\ (run = "unmount" => todo[Main][i].op = "leave")

\* A thread has a MountPoint in hand only in the middle of its operation.
InHand == \A t \in Thread : mp[t] # {} => Amid(t, "mount") \/ Amid(t, "unmount")

\* Every MountPoint that is listed or in hand is allocated, and has one owner:
\* one place in the list, or one thread.
Owned ==
    /\ IsInjective(mounts) /\ Range(mounts) \subseteq objects
    /\ \A t \in Thread : mp[t] \subseteq objects \ Range(mounts) /\ \A x, y \in mp[t] : x = y
    /\ \A t, x \in Thread : t # x => mp[t] \cap mp[x] = {}

\* The file systems that are not down yet are still to be taken down; after
\* that only those are listed that came later.
TakenDown ==
    /\ run = "unmount" => \A o \in Range(mounts) \cap loops :
         \E i \in 1 .. Len(todo[Main]) : todo[Main][i].of = o
    /\ run = "save" => Range(mounts) \cap loops \subseteq late

\* The inductive invariant: LoopsAreKnown survives the deletions only when
\* nobody deletes what another one owns (Owned), and when Backend::run has
\* waited for every loop of the list that it empties (TakenDown).
DaemonInv ==
    DaemonTypes /\ Idle /\ MainWork /\ InHand /\ Owned /\ TakenDown /\ LoopsAreKnown

LEMMA OperationIs == ASSUME NEW o \in Operation PROVE o \in Task /\ o.op # "leave"
BY DEF Task, Operation, Setting

LEMMA TailIs == ASSUME NEW s \in Seq(Task), s # <<>>
    PROVE  /\ Tail(s) \in Seq(Task) /\ Len(s) \in Nat /\ Len(Tail(s)) = Len(s) - 1
           /\ Head(s) = s[1] /\ s[1] \in Task /\ 1 \in 1 .. Len(s)
           /\ \A i \in 1 .. Len(s) - 1 : Tail(s)[i] = s[i + 1] /\ i + 1 \in 1 .. Len(s)
<1>1. /\ Tail(s) \in Seq(Task) /\ Len(Tail(s)) = Len(s) - 1 /\ Head(s) = s[1]
      /\ \A i \in 1 .. Len(s) - 1 : Tail(s)[i] = s[i + 1]
  BY HeadTailProperties
<1>2. Len(s) \in Nat /\ Len(s) # 0
  OBVIOUS
<1>3. 1 \in 1 .. Len(s) /\ s[1] \in Task
  BY <1>2
<1>4. \A i \in 1 .. Len(s) - 1 : i + 1 \in 1 .. Len(s)
  BY <1>2
<1> QED
  BY <1>1, <1>2, <1>3, <1>4

LEMMA HeadIs ==
    ASSUME DaemonTypes, NEW t \in Thread, todo[t] # <<>>
    PROVE  /\ todo[t] \in Seq(Task) /\ Head(todo[t]) = todo[t][1] /\ todo[t][1] \in Task
           /\ 1 \in 1 .. Len(todo[t]) /\ Len(todo[t]) \in Nat
<1>1. todo[t] \in Seq(Task)
  BY DEF DaemonTypes
<1> QED
  BY <1>1, TailIs

LEMMA ThreadIs == Main \in Thread /\ User \subseteq Thread /\ Main \notin User
BY DaemonAssumption DEF Thread

\* A list without repetitions gets an entry that it does not have.
LEMMA AppendRange ==
    ASSUME NEW S, NEW s \in Seq(S), NEW e \in S, IsInjective(s), e \notin Range(s)
    PROVE  /\ Append(s, e) \in Seq(S) /\ Range(Append(s, e)) = Range(s) \cup {e}
           /\ IsInjective(Append(s, e))
<1>1. /\ Append(s, e) \in Seq(S) /\ Len(s) \in Nat
      /\ DOMAIN Append(s, e) = 1 .. Len(s) + 1 /\ DOMAIN s = 1 .. Len(s)
      /\ \A i \in 1 .. Len(s) : Append(s, e)[i] = s[i]
      /\ Append(s, e)[Len(s) + 1] = e
  OBVIOUS
<1>2. Range(s) \cup {e} \subseteq Range(Append(s, e))
  <2>1. \A i \in 1 .. Len(s) : i \in 1 .. Len(s) + 1
    BY <1>1
  <2>2. Len(s) + 1 \in 1 .. Len(s) + 1
    BY <1>1
  <2> QED
    BY <1>1, <2>1, <2>2 DEF Range
<1>3. \A i \in 1 .. Len(s) + 1 : i \in 1 .. Len(s) \/ i = Len(s) + 1
  BY <1>1
<1>4. Range(Append(s, e)) \subseteq Range(s) \cup {e}
  BY <1>1, <1>3 DEF Range
<1>5. IsInjective(Append(s, e))
  <2>1. \A i, j \in 1 .. Len(s) : s[i] = s[j] => i = j
    BY <1>1 DEF IsInjective
  <2>2. \A i \in 1 .. Len(s) : s[i] # e
    BY <1>1 DEF Range
  <2> QED
    BY <1>1, <1>3, <2>1, <2>2 DEF IsInjective
<1> QED
  BY <1>1, <1>2, <1>4, <1>5

LEMMA DaemonInvInit == DaemonInit => DaemonInv
<1> SUFFICES ASSUME DaemonInit PROVE DaemonInv
  OBVIOUS
<1> USE DEF DaemonInit
<1>1. todo[Main] = <<[op |-> "socket", to |-> First]>> /\ \A u \in User : todo[u] = <<>>
  BY ThreadIs
<1>2. [op |-> "socket", to |-> First] \in Task /\ [op |-> "socket", to |-> First].op = "socket"
  BY InterfaceAssumption DEF Task, Operation, Setting
<1>3. /\ <<[op |-> "socket", to |-> First]>> \in Seq(Task)
      /\ \A i \in 1 .. Len(todo[Main]) : todo[Main][i].op = "socket"
  BY <1>1, <1>2
<1>4. todo \in [Thread -> Seq(Task)]
  BY <1>3
<1>5. ListMounts \in Command
  <2>1. [op |-> "mounts"] \in Operation
    BY DEF Operation, Setting
  <2>2. <<[op |-> "mounts"]>> \in Seq(Operation)
    BY <2>1
  <2> QED
    BY <2>2 DEF ListMounts, Command
<1>6. agenda \in [User -> Seq(Command)]
  <2>1. Asks \subseteq Seq(Command)
    BY DaemonAssumption
  <2>2. <<>> \in Seq(Command)
    OBVIOUS
  <2>3. Asks \cup {<<>>} \subseteq Seq(Command)
    BY <2>1, <2>2
  <2>4. agenda \in [User -> Asks \cup {<<>>}]
    OBVIOUS
  <2> QED
    BY <2>3, <2>4
<1>7. DaemonTypes
  <2>1. cmd \in [User -> Command]
    BY <1>5
  <2>3. session \in [User -> SessionState]
    BY DEF SessionState
  <2>2. mp \in [Thread -> SUBSET MountPoint] /\ mounts \in Seq(MountPoint)
    OBVIOUS
  <2> QED
    BY <1>4, <1>6, <2>1, <2>2, <2>3 DEF DaemonTypes
<1>8. Idle
  BY <1>1 DEF Idle
<1>9. MainWork
  <2>1. run = "boot"
    OBVIOUS
  <2> QED
    BY <1>3, <2>1 DEF MainWork
<1>10. InHand
  BY DEF InHand
<1>11. Owned
  <2>1. mounts = <<>> /\ Range(mounts) = {} /\ IsInjective(mounts)
    BY DEF Range, IsInjective
  <2>2. \A t \in Thread : mp[t] = {}
    OBVIOUS
  <2> QED
    BY <2>1, <2>2 DEF Owned
<1>12. TakenDown /\ LoopsAreKnown
  BY DEF TakenDown, LoopsAreKnown
<1> QED
  BY <1>7, <1>8, <1>9, <1>10, <1>11, <1>12 DEF DaemonInv

\* What the mount points depend on.
mountVars == <<run, session, cmd, agenda, todo, midway, mp, mounts, objects, loops, late>>

LEMMA DaemonInvSame == ASSUME DaemonInv, UNCHANGED mountVars PROVE DaemonInv'
BY DEF mountVars, DaemonInv, DaemonTypes, Idle, MainWork, InHand, Owned, TakenDown, LoopsAreKnown,
       Held, Amid, Now

\* A thread has done the head of its list.
LEMMA DoneThreads ==
    ASSUME DaemonInv, NEW t \in Thread, todo[t] # <<>>, Finished(t), UNCHANGED <<run, session>>
    PROVE  /\ todo' \in [Thread -> Seq(Task)] /\ Idle' /\ MainWork'
           /\ \A x \in Thread \ {t} : todo'[x] = todo[x] /\ (x \in midway' <=> x \in midway)
<1> USE DEF DaemonInv
<1>1. todo \in [Thread -> Seq(Task)] /\ todo' = [todo EXCEPT ![t] = Tail(@)] /\ midway' = midway \ {t}
  BY DEF DaemonTypes, Finished
<1>2. PICK q \in Seq(Task) : q = todo[t] /\ q # <<>>
  BY <1>1
<1>3. todo'[t] = Tail(q) /\ \A x \in Thread \ {t} : todo'[x] = todo[x] /\ (x \in midway' <=> x \in midway)
  BY <1>1, <1>2
<1>4. /\ Tail(q) \in Seq(Task) /\ Len(q) \in Nat /\ Len(Tail(q)) = Len(q) - 1
      /\ \A i \in 1 .. Len(q) - 1 : Tail(q)[i] = q[i + 1] /\ i + 1 \in 1 .. Len(q)
  BY <1>2, TailIs, Zenon
<1>5. todo' \in [Thread -> Seq(Task)]
  BY <1>1, <1>2, <1>4
<1>6. Idle'
  <2>1. ASSUME NEW u \in User, session'[u] # "asked" PROVE todo'[u] = <<>>
    <3>1. todo[u] = <<>>
      BY <2>1 DEF Idle
    <3>2. u # t /\ u \in Thread
      BY <3>1, ThreadIs
    <3> QED
      BY <1>3, <3>1, <3>2
  <2> QED
    BY <2>1 DEF Idle
<1>7. MainWork'
  <2>1. CASE Main # t
    <3>1. todo'[Main] = todo[Main]
      BY <2>1, <1>3, ThreadIs
    <3> QED
      BY <3>1 DEF MainWork
  <2>2. CASE Main = t
    <3>1. \A i \in 1 .. Len(q) : q[i].op # "sync" /\ (run = "unmount" => q[i].op = "leave")
      BY <1>2, <2>2 DEF MainWork
    <3>2. \A i \in 1 .. Len(Tail(q)) :
            Tail(q)[i].op # "sync" /\ (run = "unmount" => Tail(q)[i].op = "leave")
      BY <1>4, <3>1
    <3> QED
      BY <1>3, <2>2, <3>2 DEF MainWork
  <2> QED
    BY <2>1, <2>2
<1> QED
  BY <1>3, <1>5, <1>6, <1>7

\* A thread that has nothing in hand finishes an operation that leaves the
\* mount points alone; a loop that Backend::run waited for has ended.
Passes(t) ==
    /\ todo[t] # <<>> /\ Finished(t)
    /\ ~Amid(t, "mount") /\ ~Amid(t, "unmount")
    /\ Now(t, "leave") => Head(todo[t]).of \notin loops
    /\ UNCHANGED <<run, session, cmd, agenda, mp, mounts, objects, loops, late>>

LEMMA Passed == ASSUME DaemonInv, NEW t \in Thread, Passes(t) PROVE DaemonInv'
<1>1. /\ todo[t] # <<>> /\ Finished(t)
      /\ UNCHANGED <<run, session, cmd, agenda, mp, mounts, objects, loops, late>>
  BY DEF Passes
<1>2. /\ todo' \in [Thread -> Seq(Task)] /\ Idle' /\ MainWork'
      /\ \A x \in Thread \ {t} : todo'[x] = todo[x] /\ (x \in midway' <=> x \in midway)
  BY <1>1, DoneThreads
<1> USE DEF DaemonInv
<1>3. DaemonTypes'
  BY <1>1, <1>2 DEF DaemonTypes
<1>4. InHand'
  <2>1. mp[t] = {}
    BY DEF InHand, Passes
  <2> QED
    BY <1>1, <1>2, <2>1 DEF InHand, Amid, Now
<1>5. Owned' /\ LoopsAreKnown'
  BY <1>1 DEF Owned, LoopsAreKnown, Held
<1>6. TakenDown'
  <2>1. ASSUME run = "unmount", NEW o \in Range(mounts) \cap loops
        PROVE  \E i \in 1 .. Len(todo'[Main]) : todo'[Main][i].of = o
    <3>1. PICK i \in 1 .. Len(todo[Main]) : todo[Main][i].of = o
      BY <2>1 DEF TakenDown
    <3>2. CASE t # Main
      BY <3>1, <3>2, <1>2, ThreadIs
    <3>3. CASE t = Main
      <4>1. PICK q \in Seq(Task) : q = todo[Main] /\ q # <<>> /\ todo'[Main] = Tail(q)
        BY <1>1, <3>3 DEF DaemonTypes, Finished
      <4>2. /\ Len(q) \in Nat /\ Len(Tail(q)) = Len(q) - 1 /\ Head(q) = q[1] /\ 1 \in 1 .. Len(q)
            /\ \A k \in 1 .. Len(q) - 1 : Tail(q)[k] = q[k + 1]
        BY <4>1, TailIs, Zenon
      <4>3. q[1].op = "leave"
        BY <2>1, <4>1, <4>2 DEF MainWork
      <4>4. q[1].of \notin loops
        BY <1>1, <3>3, <4>1, <4>2, <4>3 DEF Passes, Now
      <4>5. i \in 1 .. Len(q) /\ q[i].of = o /\ i # 1
        BY <2>1, <3>1, <4>1, <4>4
      <4>6. i - 1 \in 1 .. Len(Tail(q)) /\ (i - 1) + 1 = i /\ i - 1 \in 1 .. Len(q) - 1
        BY <4>2, <4>5
      <4> QED
        BY <4>1, <4>2, <4>5, <4>6
    <3> QED
      BY <3>2, <3>3
  <2> QED
    BY <1>1, <2>1 DEF TakenDown
<1> QED
  BY <1>2, <1>3, <1>4, <1>5, <1>6

\* No list changes: a thread begins an operation, or a fuse loop ends.
Winds ==
    /\ midway \subseteq midway' /\ loops' \subseteq loops
    /\ UNCHANGED <<run, session, cmd, agenda, todo, mp, mounts, objects, late>>

LEMMA Wound == ASSUME DaemonInv, Winds PROVE DaemonInv'
<1> USE DEF DaemonInv, Winds
<1>1. DaemonTypes' /\ Idle' /\ MainWork' /\ Owned'
  BY DEF DaemonTypes, Idle, MainWork, Owned
<1>2. InHand'
  BY DEF InHand, Amid, Now
<1>3. TakenDown' /\ LoopsAreKnown'
  BY DEF TakenDown, LoopsAreKnown, Held
<1> QED
  BY <1>1, <1>2, <1>3

LEMMA LoopStep ==
    ASSUME DaemonInv, \/ \E o \in MountPoint : FuseLoopEnds(o)
                      \/ \E m \in MountAt : UnmountedByHand(m)
    PROVE  DaemonInv'
<1>1. ASSUME NEW o \in MountPoint, FuseLoopEnds(o) PROVE Winds
  BY <1>1 DEF FuseLoopEnds, Winds, clients, threads
<1>2. ASSUME NEW m \in MountAt, UnmountedByHand(m) PROVE Winds
  BY <1>2 DEF UnmountedByHand, Winds, process, clients, threads
<1> QED
  BY <1>1, <1>2, Wound

\* The operations that neither mount nor unmount.
LEMMA PlainStep ==
    ASSUME DaemonInv, NEW t \in Thread,
           \/ DoValue(t) \/ DoDirectory(t) \/ DoSocket(t) \/ DoMax(t) \/ DoConnect(t)
           \/ DoSync(t) \/ DoQuery(t) \/ DoSave(t) \/ DoLeave(t)
    PROVE  DaemonInv'
<1> USE DEF process, clients, threads, fuse, Passes, At, Amid, Now
<1>1. CASE DoValue(t) \/ DoDirectory(t) \/ DoMax(t)
  <2>1. Passes(t)
    BY <1>1 DEF DoValue, DoDirectory, DoMax
  <2> QED
    BY <2>1, Passed
<1>2. CASE DoSync(t) \/ DoQuery(t) \/ DoSave(t)
  <2>1. Passes(t)
    BY <1>2 DEF DoSync, DoQuery, DoSave
  <2> QED
    BY <2>1, Passed
<1>3. CASE DoSocket(t)
  <2>1. Winds \/ Passes(t)
    BY <1>3 DEF DoSocket, Winds, Begun
  <2> QED
    BY <2>1, Passed, Wound
<1>4. CASE DoConnect(t)
  <2>1. Winds \/ Passes(t)
    BY <1>4 DEF DoConnect, Winds, Begun
  <2> QED
    BY <2>1, Passed, Wound
<1>5. CASE DoLeave(t)
  <2>1. Winds \/ Passes(t)
    BY <1>5 DEF DoLeave, Winds, Begun
  <2> QED
    BY <2>1, Passed, Wound
<1> QED
  BY <1>1, <1>2, <1>3, <1>4, <1>5

\* Backend::mount.
LEMMA MountStep == ASSUME DaemonInv, NEW t \in Thread, DoMount(t) PROVE DaemonInv'
<1> USE DEF process, clients, threads, fuse
<1> DEFINE m == Head(todo[t]).at
           o == CHOOSE x \in Vacant(m) : TRUE
<1>1. CASE /\ At(t, "mount") /\ Vacant(m) # {}
           /\ objects' = objects \cup {o} /\ loops' = loops \cup {o}
           /\ late' = late \ {o} /\ mp' = [mp EXCEPT ![t] = {o}] /\ Begun(t)
           /\ UNCHANGED <<mounts, run, session, cmd, agenda>>
  <2>1. o \in MountPoint /\ o \notin objects
    <3>1. o \in Vacant(m)
      BY <1>1
    <3> QED
      BY <3>1 DEF Vacant
  <2> HIDE DEF o, m
  <2> USE DEF DaemonInv
  <2>2. /\ midway' = midway \cup {t} /\ todo' = todo /\ ~Amid(t, "mount") /\ ~Amid(t, "unmount")
        /\ Amid(t, "mount")'
    BY <1>1 DEF Begun, At, Amid, Now
  <2>3. /\ mp[t] = {} /\ mp' \in [Thread -> SUBSET MountPoint]
        /\ mp'[t] = {o} /\ \A x \in Thread \ {t} : mp'[x] = mp[x]
    BY <1>1, <2>1, <2>2 DEF InHand, DaemonTypes
  <2>4. DaemonTypes' /\ Idle' /\ MainWork'
    BY <1>1, <2>2, <2>3 DEF DaemonTypes, Idle, MainWork
  <2>5. InHand'
    <3>1. \A x \in Thread : Amid(x, "mount") \/ Amid(x, "unmount") => Amid(x, "mount")' \/ Amid(x, "unmount")'
      BY <2>2 DEF Amid, Now
    <3> QED
      BY <2>2, <2>3, <3>1 DEF InHand
  <2>6. o \notin Range(mounts) /\ \A x \in Thread : o \notin mp[x]
    BY <2>1 DEF Owned
  <2>7. Owned'
    BY <1>1, <2>3, <2>6 DEF Owned
  <2>8. TakenDown'
    BY <1>1, <2>2, <2>6 DEF TakenDown
  <2>9. LoopsAreKnown'
    <3>1. Held' = Held \cup {o}
      BY <1>1, <2>3 DEF Held
    <3> QED
      BY <1>1, <3>1 DEF LoopsAreKnown
  <2> QED
    BY <2>4, <2>5, <2>7, <2>8, <2>9
<1>2. CASE At(t, "mount") /\ Finished(t) /\ UNCHANGED <<run, session, cmd, agenda, mp, mounts, objects, loops, late>>
  <2>1. Passes(t)
    BY <1>2 DEF Passes, At, Amid, Now
  <2> QED
    BY <2>1, Passed
<1>3. CASE /\ Amid(t, "mount") /\ run # "unmount"
           /\ \E x \in mp[t] : mounts' = Append(mounts, x)
           /\ late' = IF run \in {"save", "drain"} THEN late \cup mp[t] ELSE late
           /\ mp' = [mp EXCEPT ![t] = {}] /\ Finished(t)
           /\ UNCHANGED <<run, session, cmd, agenda, objects, loops>>
  <2>1. todo[t] # <<>> /\ UNCHANGED <<run, session>>
    BY <1>3 DEF Amid, Now
  <2>2. /\ todo' \in [Thread -> Seq(Task)] /\ Idle' /\ MainWork'
        /\ \A x \in Thread \ {t} : todo'[x] = todo[x] /\ (x \in midway' <=> x \in midway)
    BY <1>3, <2>1, DoneThreads
  <2> USE DEF DaemonInv
  <2>3. PICK x \in mp[t] : mounts' = Append(mounts, x)
    BY <1>3
  <2>4. mp[t] = {x} /\ x \in MountPoint /\ x \in objects /\ x \notin Range(mounts)
    BY <2>3 DEF Owned, DaemonTypes
  <2>5. mounts' \in Seq(MountPoint) /\ Range(mounts') = Range(mounts) \cup {x} /\ IsInjective(mounts')
    BY <2>3, <2>4, AppendRange DEF DaemonTypes, Owned
  <2>6. /\ mp' \in [Thread -> SUBSET MountPoint]
        /\ mp'[t] = {} /\ \A y \in Thread \ {t} : mp'[y] = mp[y]
    BY <1>3 DEF DaemonTypes
  <2>7. DaemonTypes'
    BY <1>3, <2>2, <2>5, <2>6 DEF DaemonTypes
  <2>8. InHand'
    BY <2>2, <2>6 DEF InHand, Amid, Now
  <2>9. Owned'
    <3>1. \A y \in Thread \ {t} : x \notin mp[y]
      BY <2>4 DEF Owned
    <3> QED
      BY <1>3, <2>4, <2>5, <2>6, <3>1 DEF Owned
  <2>10. TakenDown'
    BY <1>3, <2>4, <2>5 DEF TakenDown
  <2>11. LoopsAreKnown'
    <3>1. Held \subseteq Held'
      BY <2>4, <2>5, <2>6 DEF Held
    <3> QED
      BY <1>3, <3>1 DEF LoopsAreKnown
  <2> QED
    BY <2>2, <2>7, <2>8, <2>9, <2>10, <2>11
<1> QED
  BY <1>1, <1>2, <1>3 DEF DoMount

\* What is left of the list when one entry is taken out: all the others, each
\* once.
LEMMA RemovedIs ==
    ASSUME mounts \in Seq(MountPoint), NEW k \in DOMAIN mounts, IsInjective(mounts)
    PROVE  /\ Removed(k) \in Seq(MountPoint) /\ mounts[k] \in MountPoint
           /\ Range(Removed(k)) = Range(mounts) \ {mounts[k]} /\ mounts[k] \in Range(mounts)
           /\ IsInjective(Removed(k))
<1> DEFINE n == Len(mounts)
           s == [mounts EXCEPT ![k] = Last(mounts)]
<1>1. n \in Nat /\ DOMAIN mounts = 1 .. n /\ k \in 1 .. n /\ n \in 1 .. n /\ n # 0
  OBVIOUS
<1>2. Last(mounts) = mounts[n] /\ mounts[n] \in MountPoint /\ mounts[k] \in MountPoint
  BY <1>1 DEF Last
<1>3. /\ s \in Seq(MountPoint) /\ Len(s) = n
      /\ \A i \in 1 .. n : s[i] = IF i = k THEN mounts[n] ELSE mounts[i]
  BY <1>1, <1>2, ExceptSeq
<1>4. \A i, j \in 1 .. n : mounts[i] = mounts[j] => i = j
  BY <1>1 DEF IsInjective
<1> HIDE DEF s, n
<1>5. /\ Front(s) \in Seq(MountPoint) /\ DOMAIN Front(s) = 1 .. n - 1
      /\ \A i \in 1 .. n - 1 : Front(s)[i] = s[i]
  BY <1>1, <1>3 DEF Front
<1>6. \A i \in 1 .. n - 1 : i \in 1 .. n /\ i # n
  BY <1>1
<1>7. \A i \in 1 .. n - 1 : Front(s)[i] = IF i = k THEN mounts[n] ELSE mounts[i]
  BY <1>3, <1>5, <1>6
<1>8. ASSUME NEW o \in Range(mounts), o # mounts[k] PROVE o \in Range(Front(s))
  <2>1. PICK i \in 1 .. n : mounts[i] = o
    BY <1>1 DEF Range
  <2>2. i # k
    BY <1>8, <2>1
  <2>3. CASE i = n
    <3>1. k \in 1 .. n - 1
      BY <1>1, <2>2, <2>3
    <3> QED
      BY <1>5, <1>7, <2>1, <2>3, <3>1 DEF Range
  <2>4. CASE i # n
    <3>1. i \in 1 .. n - 1
      BY <1>1, <2>4
    <3> QED
      BY <1>5, <1>7, <2>1, <2>2, <3>1 DEF Range
  <2> QED
    BY <2>3, <2>4
<1>9. \A i \in 1 .. n - 1 : Front(s)[i] \in Range(mounts) /\ Front(s)[i] # mounts[k]
  BY <1>1, <1>4, <1>6, <1>7 DEF Range
<1>10. Range(Front(s)) = Range(mounts) \ {mounts[k]} /\ mounts[k] \in Range(mounts)
  BY <1>1, <1>5, <1>8, <1>9 DEF Range
<1>11. IsInjective(Front(s))
  <2>1. \A i, j \in 1 .. n - 1 : Front(s)[i] = Front(s)[j] => i = j
    BY <1>1, <1>4, <1>6, <1>7
  <2> QED
    BY <1>5, <2>1 DEF IsInjective
<1>12. Removed(k) = Front(s)
  BY DEF Removed, s
<1> QED
  BY <1>2, <1>5, <1>10, <1>11, <1>12

\* Backend::unmount.
LEMMA UnmountStep == ASSUME DaemonInv, NEW t \in Thread, DoUnmount(t) PROVE DaemonInv'
<1> USE DEF process, clients, threads, fuse
<1> DEFINE k == Head(todo[t]).imp
<1>1. CASE /\ At(t, "unmount") /\ run # "unmount" /\ k \in DOMAIN mounts
           /\ mounts' = Removed(k) /\ mp' = [mp EXCEPT ![t] = {mounts[k]}] /\ Begun(t)
           /\ UNCHANGED <<run, session, cmd, agenda, objects, loops, late>>
  <2> HIDE DEF k
  <2> USE DEF DaemonInv
  <2>1. PICK o : o = mounts[k]
    OBVIOUS
  <2>2. /\ mounts' \in Seq(MountPoint) /\ IsInjective(mounts') /\ o \in MountPoint
        /\ Range(mounts') = Range(mounts) \ {o} /\ o \in Range(mounts)
    BY <1>1, <2>1, RemovedIs DEF DaemonTypes, Owned
  <2>3. /\ midway' = midway \cup {t} /\ todo' = todo /\ ~Amid(t, "mount") /\ ~Amid(t, "unmount")
        /\ Amid(t, "unmount")'
    BY <1>1 DEF Begun, At, Amid, Now
  <2>4. /\ mp[t] = {} /\ mp' \in [Thread -> SUBSET MountPoint]
        /\ mp'[t] = {o} /\ \A x \in Thread \ {t} : mp'[x] = mp[x]
    BY <1>1, <2>1, <2>2, <2>3 DEF InHand, DaemonTypes
  <2>5. DaemonTypes' /\ Idle' /\ MainWork'
    BY <1>1, <2>2, <2>3, <2>4 DEF DaemonTypes, Idle, MainWork
  <2>6. InHand'
    <3>1. \A x \in Thread : Amid(x, "mount") \/ Amid(x, "unmount") => Amid(x, "mount")' \/ Amid(x, "unmount")'
      BY <2>3 DEF Amid, Now
    <3> QED
      BY <2>3, <2>4, <3>1 DEF InHand
  <2>7. Owned'
    <3>1. o \in objects /\ \A x \in Thread : o \notin mp[x]
      BY <2>2 DEF Owned
    <3> QED
      BY <1>1, <2>2, <2>4, <3>1 DEF Owned
  <2>8. TakenDown'
    BY <1>1, <2>2 DEF TakenDown
  <2>9. LoopsAreKnown'
    <3>1. Held \subseteq Held'
      BY <2>2, <2>4 DEF Held
    <3> QED
      BY <1>1, <3>1 DEF LoopsAreKnown
  <2> QED
    BY <2>5, <2>6, <2>7, <2>8, <2>9
<1>2. CASE At(t, "unmount") /\ Finished(t) /\ UNCHANGED <<run, session, cmd, agenda, mp, mounts, objects, loops, late>>
  <2>1. Passes(t)
    BY <1>2 DEF Passes, At, Amid, Now
  <2> QED
    BY <2>1, Passed
<1>3. CASE /\ Amid(t, "unmount") /\ mp[t] \cap loops = {}
           /\ objects' = objects \ mp[t] /\ mp' = [mp EXCEPT ![t] = {}] /\ Finished(t)
           /\ UNCHANGED <<run, session, cmd, agenda, mounts, loops, late>>
  <2>1. todo[t] # <<>> /\ UNCHANGED <<run, session>> /\ Now(t, "unmount")
    BY <1>3 DEF Amid, Now
  <2>2. /\ todo' \in [Thread -> Seq(Task)] /\ Idle' /\ MainWork'
        /\ \A x \in Thread \ {t} : todo'[x] = todo[x] /\ (x \in midway' <=> x \in midway)
    BY <1>3, <2>1, DoneThreads
  <2> USE DEF DaemonInv
  <2>3. /\ mp' \in [Thread -> SUBSET MountPoint]
        /\ mp'[t] = {} /\ \A y \in Thread \ {t} : mp'[y] = mp[y]
    BY <1>3 DEF DaemonTypes
  <2>4. DaemonTypes'
    BY <1>3, <2>2, <2>3 DEF DaemonTypes
  <2>5. InHand'
    BY <2>2, <2>3 DEF InHand, Amid, Now
  <2>6. Owned'
    <3>1. Range(mounts) \subseteq objects' /\ \A y \in Thread \ {t} : mp[y] \subseteq objects' \ Range(mounts)
      BY <1>3 DEF Owned
    <3> QED
      BY <1>3, <2>3, <3>1 DEF Owned
  <2>7. TakenDown'
    <3>1. run = "unmount" => t # Main
      <4>1. ASSUME run = "unmount", t = Main PROVE FALSE
        <5>1. Head(todo[t]) = todo[t][1] /\ 1 \in 1 .. Len(todo[t])
          BY <2>1, HeadIs
        <5> QED
          BY <2>1, <4>1, <5>1 DEF MainWork, Now
      <4> QED
        BY <4>1
    <3>2. run = "unmount" => todo'[Main] = todo[Main]
      BY <2>2, <3>1, ThreadIs
    <3> QED
      BY <1>3, <3>2 DEF TakenDown
  <2>8. LoopsAreKnown'
    <3>1. Held \subseteq Held' \cup mp[t]
      BY <1>3, <2>3 DEF Held
    <3> QED
      BY <1>3, <3>1 DEF LoopsAreKnown
  <2> QED
    BY <2>2, <2>4, <2>5, <2>6, <2>7, <2>8
<1> QED
  BY <1>1, <1>2, <1>3 DEF DoUnmount

\* loadConfig.
LEMMA LoadStep == ASSUME DaemonInv, NEW t \in Thread, DoLoad(t) PROVE DaemonInv'
<1> USE DEF process, clients, fuse
<1>1. /\ todo[t] # <<>> /\ Head(todo[t]).op = "load" /\ t \notin midway
      /\ todo' = [todo EXCEPT ![t] = Config \o Tail(@)]
      /\ UNCHANGED <<run, session, cmd, agenda, midway, mp, mounts, objects, loops, late>>
  BY DEF DoLoad, At, Now
<1>0. todo \in [Thread -> Seq(Task)]
  BY DEF DaemonInv, DaemonTypes
<1>2. PICK s \in Seq(Task) : s = todo[t] /\ s # <<>>
  <2>1. todo[t] # <<>>
    BY <1>1
  <2>2. todo[t] \in Seq(Task)
    BY <1>0, SMT
  <2> QED
    BY <2>1, <2>2, Zenon
<1> USE DEF DaemonInv
<1>3. PICK r \in Seq(Task) :
        /\ r = Tail(s) /\ Len(r) = Len(s) - 1 /\ Len(s) \in Nat
        /\ s[1].op = "load" /\ 1 \in 1 .. Len(s)
        /\ \A i \in 1 .. Len(s) - 1 : r[i] = s[i + 1] /\ i + 1 \in 1 .. Len(s)
  <2>1. Head(s).op = "load"
    BY <1>1, <1>2
  <2>2. /\ Tail(s) \in Seq(Task) /\ Len(s) \in Nat /\ Len(Tail(s)) = Len(s) - 1
        /\ Head(s) = s[1] /\ 1 \in 1 .. Len(s)
        /\ \A i \in 1 .. Len(s) - 1 : Tail(s)[i] = s[i + 1] /\ i + 1 \in 1 .. Len(s)
    BY <1>2, TailIs, Zenon
  <2> HIDE DEF DaemonInv
  <2> QED
    BY <2>1, <2>2
<1>4. /\ Config \in Seq(Task) /\ \A i \in 1 .. Len(Config) : Config[i].op # "sync"
  <2>1. Config \in Seq(Setting)
    BY DaemonAssumption
  <2>2. \A i \in 1 .. Len(Config) : Config[i] \in Setting
    BY <2>1
  <2>3. Setting \subseteq Task /\ \A o \in Setting : o.op # "sync"
    BY DEF Setting, Operation, Task
  <2>4. Config \in Seq(Task)
    BY <2>1, <2>3, SeqGrows
  <2> QED
    BY <2>2, <2>3, <2>4
<1>5. /\ Config \o r \in Seq(Task) /\ Len(Config) \in Nat /\ Len(Config \o r) = Len(Config) + Len(r)
      /\ \A i \in 1 .. Len(Config) : (Config \o r)[i] = Config[i]
      /\ \A j \in 1 .. Len(r) : (Config \o r)[Len(Config) + j] = r[j]
  <2>1. Config \in Seq(Task) /\ r \in Seq(Task) /\ Len(Config) \in Nat
    BY <1>3, <1>4
  <2> QED
    BY <2>1, Joined
<1>6. PICK w \in Seq(Task) : w = Config \o r
  BY <1>5
<1>7. /\ todo' \in [Thread -> Seq(Task)] /\ todo'[t] = w
      /\ \A x \in Thread \ {t} : todo'[x] = todo[x]
  <2>1. todo' = [todo EXCEPT ![t] = w]
    BY <1>1, <1>2, <1>3, <1>6
  <2> QED
    BY <2>1 DEF DaemonTypes
<1>8. DaemonTypes'
  BY <1>1, <1>7 DEF DaemonTypes
<1>9. Idle'
  <2>1. ASSUME NEW u \in User, session[u] # "asked" PROVE todo'[u] = <<>>
    <3>1. todo[u] = <<>> /\ u \in Thread
      BY <2>1, ThreadIs DEF Idle
    <3> QED
      BY <1>1, <1>7, <3>1
  <2> QED
    BY <1>1, <2>1 DEF Idle
<1>10. t = Main => run # "unmount"
  <2>1. s[1].op # "leave"
    BY <1>3
  <2> QED
    BY <1>2, <1>3, <2>1 DEF MainWork
<1>11. MainWork'
  <2>1. CASE t # Main
    BY <1>1, <1>7, <2>1, ThreadIs DEF MainWork
  <2>2. CASE t = Main
    <3>1. SUFFICES ASSUME NEW i \in 1 .. Len(w) PROVE w[i].op # "sync"
      BY <1>1, <1>7, <1>10, <2>2, <3>1 DEF MainWork
    <3>2. CASE i <= Len(Config)
      <4>1. i \in 1 .. Len(Config)
        BY <1>5, <3>2
      <4> QED
        BY <1>4, <1>5, <1>6, <4>1
    <3>3. CASE ~(i <= Len(Config))
      <4>1. PICK j \in 1 .. Len(r) : i = Len(Config) + j
        <5>1. \A a, b \in Nat : \A c \in 1 .. a + b : ~(c <= a) => c - a \in 1 .. b /\ c = a + (c - a)
          OBVIOUS
        <5>2. Len(r) \in Nat /\ i \in 1 .. Len(Config) + Len(r)
          BY <1>3, <1>5, <1>6
        <5> QED
          BY <1>5, <3>3, <5>1, <5>2
      <4>2. j \in 1 .. Len(s) - 1 /\ w[i] = r[j]
        BY <1>3, <1>5, <1>6, <4>1
      <4>3. w[i] = s[j + 1] /\ j + 1 \in 1 .. Len(s)
        BY <1>3, <4>2
      <4> QED
        BY <1>2, <2>2, <4>3 DEF MainWork
    <3> QED
      BY <3>2, <3>3
  <2> QED
    BY <2>1, <2>2
<1>12. InHand'
  <2>1. mp[t] = {}
    BY <1>1 DEF InHand, Amid
  <2> QED
    BY <1>1, <1>7, <2>1 DEF InHand, Amid, Now
<1>13. Owned' /\ LoopsAreKnown'
  BY <1>1 DEF Owned, LoopsAreKnown, Held
<1>14. TakenDown'
  <2>1. run = "unmount" => todo'[Main] = todo[Main]
    BY <1>7, <1>10, ThreadIs
  <2>2. UNCHANGED <<run, mounts, loops, late>> /\ TakenDown
    BY <1>1
  <2> HIDE DEF DaemonInv
  <2> QED
    BY <2>1, <2>2 DEF TakenDown
<1> QED
  BY <1>8, <1>9, <1>11, <1>12, <1>13, <1>14

\* A client goes on, or another one comes: nobody's work changes.
Talks ==
    /\ UNCHANGED <<run, todo, midway, mp, mounts, objects, loops, late>>
    /\ cmd' \in [User -> Command] /\ agenda' \in [User -> Seq(Command)]
    /\ session' \in [User -> SessionState]
    /\ \A u \in User : todo[u] = <<>> \/ session'[u] = session[u]

LEMMA Talked == ASSUME DaemonInv, Talks PROVE DaemonInv'
<1> USE DEF DaemonInv, Talks
<1>1. DaemonTypes' /\ Idle' /\ MainWork'
  BY DEF DaemonTypes, Idle, MainWork
<1>2. InHand' /\ Owned'
  BY DEF InHand, Owned, Amid, Now
<1>3. TakenDown' /\ LoopsAreKnown'
  BY DEF TakenDown, LoopsAreKnown, Held
<1> QED
  BY <1>1, <1>2, <1>3

\* A session goes from one state to the next.
LEMMA SessionTalks ==
    ASSUME DaemonInv, NEW u, NEW from, NEW to \in SessionState, Step(u, from, to),
           from # "asked" \/ (u \in User => todo[u] = <<>>),
           UNCHANGED <<run, todo, midway, mp, mounts, objects, loops, late, cmd, agenda>>
    PROVE  DaemonInv'
<1> USE DEF DaemonInv
<1>1. /\ session' = [session EXCEPT ![u] = to] /\ session[u] = from
      /\ session' \in [User -> SessionState]
  BY DEF Step, DaemonTypes
<1>2. ASSUME NEW x \in User PROVE todo[x] = <<>> \/ session'[x] = session[x]
  BY <1>1 DEF DaemonTypes, Idle
<1>3. Talks
  BY <1>1, <1>2 DEF Talks, DaemonTypes
<1> QED
  BY <1>3, Talked

LEMMA ClientSteps ==
    ASSUME DaemonInv, NEW u \in User,
           ClientDropped(u) \/ Welcome(u) \/ WelcomeCut(u) \/ ReadCut(u) \/ Reply(u) \/ HangUp(u)
    PROVE  DaemonInv'
<1> USE DEF process, threads, fuse, SessionState
<1> DEFINE Still == UNCHANGED <<run, todo, midway, mp, mounts, objects, loops, late, cmd, agenda>>
<1>1. CASE ClientDropped(u)
  <2>1. Step(u, "dialled", "gone") /\ Still
    BY <1>1 DEF ClientDropped
  <2> QED
    BY <2>1, SessionTalks
<1>2. CASE Welcome(u)
  <2>1. Step(u, "greeting", "sent") /\ Still
    BY <1>2 DEF Welcome
  <2> QED
    BY <2>1, SessionTalks
<1>3. CASE WelcomeCut(u)
  <2>1. Step(u, "greeting", "gone") /\ Still
    BY <1>3 DEF WelcomeCut
  <2> QED
    BY <2>1, SessionTalks
<1>4. CASE ReadCut(u)
  <2>1. Step(u, "sent", "gone") /\ Still
    BY <1>4 DEF ReadCut
  <2> QED
    BY <2>1, SessionTalks
<1>5. CASE Reply(u)
  <2>1. Step(u, "asked", "answered") /\ Still /\ todo[u] = <<>>
    BY <1>5 DEF Reply
  <2> QED
    BY <2>1, SessionTalks
<1>6. CASE HangUp(u)
  <2>1. Step(u, "answered", "out") /\ Still
    BY <1>6 DEF HangUp
  <2> QED
    BY <2>1, SessionTalks
<1> QED
  BY <1>1, <1>2, <1>3, <1>4, <1>5, <1>6

LEMMA AcceptSteps == ASSUME DaemonInv, AcceptClient PROVE DaemonInv'
<1> USE DEF process, threads, fuse, SessionState
<1>1. /\ Step(Head(backlog), "dialled", "greeting") \/ Step(Head(backlog), "dialled", "gone")
      /\ UNCHANGED <<run, todo, midway, mp, mounts, objects, loops, late, cmd, agenda>>
  BY DEF AcceptClient
<1> QED
  BY <1>1, SessionTalks

LEMMA DialStep == ASSUME DaemonInv, NEW u \in User, ClientDials(u) PROVE DaemonInv'
<1> USE DEF DaemonInv, process, threads, fuse
<1>1. /\ session[u] = "out" /\ session' = [session EXCEPT ![u] = "dialled"] /\ agenda[u] # <<>>
      /\ cmd' = [cmd EXCEPT ![u] = Head(agenda[u])]
      /\ agenda' = [agenda EXCEPT ![u] = Tail(@)]
      /\ UNCHANGED <<run, todo, midway, mp, mounts, objects, loops, late>>
  BY DEF ClientDials, Step
<1>2. Head(agenda[u]) \in Command /\ Tail(agenda[u]) \in Seq(Command)
  <2>1. agenda[u] \in Seq(Command)
    BY DEF DaemonTypes
  <2> QED
    BY <1>1, <2>1, Popped
<1>3. /\ cmd' \in [User -> Command] /\ agenda' \in [User -> Seq(Command)]
      /\ session' \in [User -> SessionState]
  BY <1>1, <1>2 DEF DaemonTypes, SessionState
<1>4. \A x \in User : todo[x] = <<>> \/ session'[x] = session[x]
  BY <1>1 DEF DaemonTypes, Idle
<1>5. Talks
  BY <1>1, <1>3, <1>4 DEF Talks
<1> QED
  BY <1>5, Talked

LEMMA ReadStep == ASSUME DaemonInv, NEW u \in User, ReadCommand(u) PROVE DaemonInv'
<1> USE DEF DaemonInv, process, fuse
<1>1. /\ session[u] = "sent" /\ session' = [session EXCEPT ![u] = "asked"]
      /\ todo' = [todo EXCEPT ![u] = cmd[u].do]
      /\ UNCHANGED <<run, cmd, agenda, midway, mp, mounts, objects, loops, late>>
  BY DEF ReadCommand, Step
<1>2. u \in Thread /\ u # Main
  BY ThreadIs
<1>3. todo[u] = <<>>
  BY <1>1 DEF Idle
<1>4. cmd[u].do \in Seq(Task)
  <2>1. cmd[u].do \in Seq(Operation)
    BY DEF DaemonTypes, Command
  <2>2. Operation \subseteq Task
    BY OperationIs
  <2> QED
    BY <2>1, <2>2, SeqGrows
<1>5. /\ todo' \in [Thread -> Seq(Task)]
      /\ \A x \in Thread \ {u} : todo'[x] = todo[x]
  BY <1>1, <1>2, <1>4 DEF DaemonTypes
<1>6. DaemonTypes'
  BY <1>1, <1>5 DEF DaemonTypes, SessionState
<1>7. Idle'
  BY <1>1, <1>5, ThreadIs DEF Idle, DaemonTypes
<1>8. todo'[Main] = todo[Main]
  BY <1>2, <1>5, ThreadIs
<1>9. MainWork' /\ TakenDown'
  BY <1>1, <1>8 DEF MainWork, TakenDown
<1>10. InHand'
  <2>1. mp[u] = {}
    BY <1>2, <1>3 DEF InHand, Amid, Now
  <2> QED
    BY <1>1, <1>5, <2>1 DEF InHand, Amid, Now
<1>11. Owned' /\ LoopsAreKnown'
  BY <1>1 DEF Owned, LoopsAreKnown, Held
<1> QED
  BY <1>6, <1>7, <1>9, <1>10, <1>11
-----------------------------------------------------------------------------
(* Backend::run *)

\* A turn of Backend::run that leaves the mount points where they are and
\* gives the main thread a new list.
LEMMA TurnStep ==
    ASSUME DaemonInv, NEW ops \in Seq(Task), todo[Main] = <<>>,
           todo' = [todo EXCEPT ![Main] = ops],
           UNCHANGED <<session, cmd, agenda, midway, mp, mounts, objects, loops, late>>,
           MainWork', TakenDown'
    PROVE  DaemonInv'
<1> USE DEF DaemonInv
<1>1. /\ todo' \in [Thread -> Seq(Task)]
      /\ \A x \in Thread \ {Main} : todo'[x] = todo[x]
  BY ThreadIs DEF DaemonTypes
<1>2. DaemonTypes' /\ Idle'
  BY <1>1, ThreadIs DEF DaemonTypes, Idle
<1>3. InHand'
  <2>1. mp[Main] = {}
    BY ThreadIs DEF InHand, Amid, Now
  <2> QED
    BY <1>1, <2>1 DEF InHand, Amid, Now
<1>4. Owned' /\ LoopsAreKnown'
  BY DEF Owned, LoopsAreKnown, Held
<1> QED
  BY <1>2, <1>3, <1>4

LEMMA MainSteps == ASSUME DaemonInv, MainStep PROVE DaemonInv'
<1> USE DEF DaemonInv, clients, threads, fuse
<1> DEFINE Still == UNCHANGED <<session, cmd, agenda, midway, mp, mounts, objects, loops, late>>
<1>0. Main \in Thread /\ todo \in [Thread -> Seq(Task)]
  BY ThreadIs DEF DaemonTypes
<1>1. CASE RunLoads
  <2>1. /\ run' = "load" /\ todo[Main] = <<>> /\ Still
        /\ todo' = [todo EXCEPT ![Main] = <<[op |-> "load"]>>]
    BY <1>1 DEF RunLoads, Turn, Then
  <2>2. [op |-> "load"] \in Task
    BY DEF Task, Operation, Setting
  <2>3. <<[op |-> "load"]>> \in Seq(Task) /\ \A i \in 1 .. Len(<<[op |-> "load"]>>) : <<[op |-> "load"]>>[i].op = "load"
    BY <2>2
  <2>4. MainWork' /\ TakenDown'
    BY <1>0, <2>1, <2>3 DEF MainWork, TakenDown
  <2> QED
    BY <2>1, <2>3, <2>4, TurnStep
<1>2. CASE RunKillsJobs \/ RunJoinsJobs \/ RunReturns
  <2>1. /\ todo[Main] = <<>> /\ todo' = todo /\ Still
        /\ run' \in {"joinJobs", "joinListener", "done"}
    BY <1>2 DEF RunKillsJobs, RunJoinsJobs, RunReturns, Turn
  <2>2. <<>> \in Seq(Task) /\ todo' = [todo EXCEPT ![Main] = <<>>]
    BY <1>0, <2>1
  <2>3. MainWork' /\ TakenDown'
    BY <2>1 DEF MainWork, TakenDown
  <2> QED
    BY <2>1, <2>2, <2>3, TurnStep
<1>3. CASE RunUnmounts
  <2>1. /\ run' = "unmount" /\ todo[Main] = <<>> /\ Still
        /\ todo' = [todo EXCEPT ![Main] = Leaving]
    BY <1>3 DEF RunUnmounts, Turn, Then
  <2>2. mounts \in Seq(MountPoint) /\ Len(mounts) \in Nat /\ DOMAIN mounts = 1 .. Len(mounts)
    BY DEF DaemonTypes
  <2>3. \A i \in 1 .. Len(mounts) : [op |-> "leave", of |-> mounts[i]] \in Task
    BY <2>2 DEF Task
  <2>4. /\ Leaving \in Seq(Task) /\ Len(Leaving) = Len(mounts)
        /\ \A i \in 1 .. Len(mounts) : Leaving[i].op = "leave" /\ Leaving[i].of = mounts[i]
    BY <2>2, <2>3 DEF Leaving
  <2>5. todo'[Main] = Leaving
    BY <1>0, <2>1
  <2>6. MainWork'
    BY <2>1, <2>4, <2>5 DEF MainWork
  <2>7. TakenDown'
    <3>1. \A o \in Range(mounts) : \E i \in 1 .. Len(mounts) : mounts[i] = o
      BY <2>2 DEF Range
    <3>2. \A o \in Range(mounts) : \E i \in 1 .. Len(todo'[Main]) : todo'[Main][i].of = o
      BY <2>4, <2>5, <3>1
    <3> QED
      BY <2>1, <3>2 DEF TakenDown
  <2> QED
    BY <2>1, <2>4, <2>6, <2>7, TurnStep
<1>4. CASE RunSaves
  <2>1. /\ run = "unmount" /\ run' = "save" /\ todo[Main] = <<>> /\ Still
        /\ todo' = [todo EXCEPT ![Main] = <<[op |-> "save"]>>]
    BY <1>4 DEF RunSaves, Turn, Then
  <2>2. [op |-> "save"] \in Task
    BY DEF Task, Operation, Setting
  <2>3. <<[op |-> "save"]>> \in Seq(Task) /\ \A i \in 1 .. Len(<<[op |-> "save"]>>) : <<[op |-> "save"]>>[i].op = "save"
    BY <2>2
  <2>4. TakenDown'
    <3>1. Range(mounts) \cap loops = {}
      BY <2>1 DEF TakenDown
    <3> QED
      BY <2>1, <3>1 DEF TakenDown
  <2>5. MainWork'
    BY <1>0, <2>1, <2>3 DEF MainWork
  <2> QED
    BY <2>1, <2>3, <2>4, <2>5, TurnStep
<1>5. CASE RunDestroys
  <2>1. /\ run = "save" /\ run' = "drain"
        /\ objects' = objects \ Range(mounts) /\ mounts' = <<>>
        /\ UNCHANGED <<session, cmd, agenda, todo, midway, mp, loops, late>>
    BY <1>5 DEF RunDestroys, Turn
  <2>2. mounts' \in Seq(MountPoint) /\ Range(mounts') = {} /\ IsInjective(mounts')
    BY <2>1 DEF Range, IsInjective
  <2>3. DaemonTypes' /\ Idle' /\ InHand'
    BY <2>1, <2>2 DEF DaemonTypes, Idle, InHand, Amid, Now
  <2>4. MainWork' /\ TakenDown'
    BY <2>1 DEF MainWork, TakenDown
  <2>5. Owned'
    BY <2>1, <2>2 DEF Owned
  <2>6. LoopsAreKnown'
    <3>1. Range(mounts) \cap loops \subseteq late
      BY <2>1 DEF TakenDown
    <3>2. Held \subseteq Held' \cup Range(mounts)
      BY <2>1 DEF Held
    <3> QED
      BY <2>1, <3>1, <3>2 DEF LoopsAreKnown
  <2> QED
    BY <2>3, <2>4, <2>5, <2>6
<1> QED
  BY <1>1, <1>2, <1>3, <1>4, <1>5 DEF MainStep

LEMMA DaemonInvNext == DaemonInv /\ [DaemonNext]_daemonVars => DaemonInv'
<1> SUFFICES ASSUME DaemonInv, [DaemonNext]_daemonVars PROVE DaemonInv'
  OBVIOUS
<1> USE DEF rest, process, clients, threads, fuse
<1>1. CASE UNCHANGED daemonVars
  BY <1>1, DaemonInvSame DEF daemonVars, mountVars
<1>2. ASSUME NEW t \in Thread, Do(t) PROVE DaemonInv'
  BY <1>2, PlainStep, MountStep, UnmountStep, LoadStep DEF Do
<1>3. ASSUME NEW u \in User, ClientDials(u) \/ ClientStep(u) \/ WelcomeCut(u) PROVE DaemonInv'
  BY <1>3, DialStep, ClientSteps, ReadStep DEF ClientStep
<1>4. CASE \/ \E o \in MountPoint : FuseLoopEnds(o)
           \/ \E m \in MountAt : UnmountedByHand(m)
  BY <1>4, LoopStep
<1>5. CASE ListenerStep
  <2>1. CASE AcceptClient
    BY <2>1, AcceptSteps
  <2>2. CASE UNCHANGED rest
    BY <2>2, DaemonInvSame DEF mountVars
  <2> QED
    BY <1>5, <2>1, <2>2 DEF ListenerStep
<1>6. CASE JobStep
  BY <1>6, DaemonInvSame DEF JobStep, mountVars
<1>7. CASE PeerStep \/ ReturnConnection \/ Made
  BY <1>7, DaemonInvSame DEF PeerStep, PeerWelcomed, PeerLost, ReturnConnection, Made, mountVars
<1>8. CASE Sigint
  BY <1>8, DaemonInvSame DEF Sigint, mountVars
<1>9. CASE MainStep
  BY <1>9, MainSteps
<1> QED
  BY <1>1, <1>2, <1>3, <1>4, <1>5, <1>6, <1>7, <1>8, <1>9 DEF DaemonNext

\* LoopsAreKnown: whatever clients mount and unmount, also while the program
\* is told to end, and whatever users unmount by hand, a fuse loop that runs
\* belongs to an allocated MountPoint that somebody will unmount, but for what
\* is listed after Backend::run has unmounted everything.
THEOREM LoopsStayKnown == DaemonSpec => []LoopsAreKnown
<1>1. DaemonInv => LoopsAreKnown
  BY DEF DaemonInv
<1> QED
  BY DaemonInvInit, DaemonInvNext, <1>1, PTL DEF DaemonSpec

\* The jobs of a running backend: StartSync of a client, which waits for its
\* reply, and the JobKiller; nothing else touches the list.
LEMMA DaemonQueues ==
    DaemonInv /\ [DaemonNext]_daemonVars => [JobNext]_jobVars
<1> SUFFICES ASSUME DaemonInv, DaemonNext PROVE JobNext \/ UNCHANGED jobVars
  BY DEF daemonVars
<1>1. ASSUME NEW t \in Thread, Do(t) PROVE JobNext \/ UNCHANGED jobVars
  <2>1. CASE DoSync(t)
    <3>1. todo[t] # <<>> /\ Head(todo[t]).op = "sync" /\ Enqueue(t)
      BY <2>1 DEF DoSync, At, Now
    <3>2. Head(todo[t]) = todo[t][1] /\ 1 \in 1 .. Len(todo[t])
      BY <3>1, HeadIs DEF DaemonInv
    <3>3. t # Main
      BY <3>1, <3>2 DEF DaemonInv, MainWork
    <3>4. t \in Work
      BY <3>3, DaemonAssumption DEF Thread, Work
    <3> QED
      BY <3>1, <3>4 DEF JobNext
  <2>2. CASE DoValue(t) \/ DoDirectory(t) \/ DoSocket(t) \/ DoMax(t)
    BY <2>2 DEF DoValue, DoDirectory, DoSocket, DoMax
  <2>3. CASE DoMount(t) \/ DoUnmount(t) \/ DoConnect(t) \/ DoLoad(t)
    BY <2>3 DEF DoMount, DoUnmount, DoConnect, DoLoad
  <2>4. CASE DoQuery(t) \/ DoSave(t) \/ DoLeave(t)
    BY <2>4 DEF DoQuery, DoSave, DoLeave
  <2> QED
    BY <1>1, <2>1, <2>2, <2>3, <2>4 DEF Do
<1>2. ASSUME NEW u \in User, ClientDials(u) \/ ClientStep(u) \/ WelcomeCut(u)
      PROVE  UNCHANGED jobVars
  BY <1>2 DEF ClientDials, ClientStep, WelcomeCut, ClientDropped, Welcome, ReadCommand, ReadCut, Reply, HangUp
<1>3. ASSUME NEW o, FuseLoopEnds(o) \/ UnmountedByHand(o) PROVE UNCHANGED jobVars
  BY <1>3 DEF FuseLoopEnds, UnmountedByHand
<1>4. CASE ListenerStep \/ PeerStep \/ ReturnConnection \/ Made \/ Sigint
  BY <1>4 DEF ListenerStep, AcceptClient, PeerStep, PeerWelcomed, PeerLost, ReturnConnection, Made, Sigint
<1>5. CASE JobStep
  BY <1>5 DEF JobStep, JobNext
<1>6. CASE MainStep
  <2>1. CASE RunKillsJobs
    BY <2>1 DEF RunKillsJobs, JobNext, Work
  <2>2. CASE RunLoads \/ RunJoinsJobs \/ RunUnmounts \/ RunSaves \/ RunDestroys \/ RunReturns
    BY <2>2 DEF RunLoads, RunJoinsJobs, RunUnmounts, RunSaves, RunDestroys, RunReturns
  <2> QED
    BY <1>6, <2>1, <2>2 DEF MainStep
<1> QED
  BY <1>1, <1>2, <1>3, <1>4, <1>5, <1>6 DEF DaemonNext

\* What the threads of a running backend do to the list of jobs is what
\* JobQueue says, so that they do them in the order of posting too.
THEOREM DaemonRunsJobQueue == DaemonSpec => JobSpec
<1>1. DaemonInit => JobInit
  BY DEF DaemonInit
<1>2. DaemonInv /\ [DaemonNext]_daemonVars => DaemonInv' /\ [JobNext]_jobVars
  BY DaemonInvNext, DaemonQueues
<1> QED
  BY <1>1, <1>2, DaemonInvInit, PTL DEF DaemonSpec, JobSpec
=============================================================================
