------------------------------ MODULE JobQueue ------------------------------
(***************************************************************************)
(* JobWorker: long jobs in a list that is linked from the first to the      *)
(* last, and the thread that does them.  A JobKiller among them ends it.     *)
(***************************************************************************)
EXTENDS Naturals, Sequences

CONSTANTS Job,      \* the jobs of the program's users
          Killer,   \* the JobKiller that Backend::run enqueues
          NoJob     \* the null pointer

ASSUME JobAssumption == Killer \notin Job /\ NoJob \notin Job \cup {Killer}

Work == Job \cup {Killer}

VARIABLES
    first, last,  \* m_first, m_last
    next,         \* LongJob::next of each job
    doing,        \* the job of the worker's current round, or NoJob
    working,      \* FALSE when the worker's main() has ended
    posted,       \* jobs given to enqueue, in order
    done          \* jobs done, in order

jobVars == <<first, last, next, doing, working, posted, done>>

JobInit ==
    /\ first = NoJob /\ last = NoJob
    /\ next = [j \in Work |-> NoJob]
    /\ doing = NoJob /\ working = TRUE
    /\ posted = <<>> /\ done = <<>>

\* JobWorker::enqueue, with a new job.
Enqueue(j) ==
    /\ \A i \in DOMAIN posted : posted[i] # j
    /\ posted' = Append(posted, j)
    /\ IF last # NoJob
       THEN next' = [next EXCEPT ![last] = j] /\ UNCHANGED first
       ELSE first' = j /\ UNCHANGED next
    /\ last' = j
    /\ UNCHANGED <<doing, working, done>>

\* Mutant: m_last goes on naming a job that is no longer in the list.
LastAfter_Kept == last
LastAfter == IF first = last THEN NoJob ELSE last

\* JobWorker::main takes the first job.
TakeJob ==
    /\ working /\ doing = NoJob /\ first # NoJob
    /\ doing' = first
    /\ first' = next[first]
    /\ next' = [next EXCEPT ![first] = NoJob]
    /\ last' = LastAfter
    /\ UNCHANGED <<working, posted, done>>

\* It does the job; an exception of the job is caught.
DoJob ==
    /\ doing \in Job
    /\ done' = Append(done, doing)
    /\ doing' = NoJob
    /\ UNCHANGED <<first, last, next, working, posted>>

\* The JobKiller throws: what is queued behind it is dropped.
KillWorker ==
    /\ doing = Killer
    /\ working' = FALSE /\ doing' = NoJob
    /\ first' = NoJob /\ last' = NoJob
    /\ next' = [j \in Work |-> NoJob]
    /\ UNCHANGED <<posted, done>>

WorkerStep == TakeJob \/ DoJob \/ KillWorker

JobNext == WorkerStep \/ \E j \in Work : Enqueue(j)
JobSpec == JobInit /\ [][JobNext]_jobVars
-----------------------------------------------------------------------------
(* Properties *)

Taken == Len(done) + IF doing = NoJob THEN 0 ELSE 1

\* While the worker runs, the jobs done, the job it does and the jobs linked
\* from m_first to m_last are the jobs posted, in the order of posting.
JobsInOrder ==
    working =>
        /\ Taken <= Len(posted)
        /\ \A i \in 1 .. Len(done) : done[i] = posted[i]
        /\ doing # NoJob => doing = posted[Taken]
        /\ first = IF Taken = Len(posted) THEN NoJob ELSE posted[Taken + 1]
        /\ last = IF Taken = Len(posted) THEN NoJob ELSE posted[Len(posted)]
        /\ \A i \in Taken + 1 .. Len(posted) :
             next[posted[i]] = IF i = Len(posted) THEN NoJob ELSE posted[i + 1]
=============================================================================
