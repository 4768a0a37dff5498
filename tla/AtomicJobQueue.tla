--------------------------- MODULE AtomicJobQueue ---------------------------
(***************************************************************************)
(* What pthread/job_queue.c promises its threads: a double-ended queue of  *)
(* jobs whose operations are atomic.  There is no list, no lock and no     *)
(* traversal here: an insertion, a removal, a whole "Queue: ..." line of   *)
(* traverse_jobs and a whole job_find each happen in one step.             *)
(***************************************************************************)
EXTENDS Integers, Sequences

CONSTANTS Job,      \* the jobs, each known by its j_id
          Finders,  \* the threads that call job_find
          NULL      \* the null pointer

VARIABLES jobs,     \* the jobs in the queue, head first
          shown,    \* the last line of jobs traverse_jobs printed
          answer    \* per finder: the id it last asked for and the answer

In(j) == \E k \in 1..Len(jobs) : jobs[k] = j

Init ==
  /\ jobs = <<>>
  /\ shown = <<>>
  /\ answer = [f \in Finders |-> <<NULL, NULL>>]

\* job_insert and job_append: a job that is not queued goes to one end.
Add(j) ==
  /\ ~ In(j)
  /\ jobs' \in {<<j>> \o jobs, Append(jobs, j)}
  /\ UNCHANGED <<shown, answer>>

\* job_remove: a queued job leaves, the others keep their order.
Remove1(j) ==
  /\ \E k \in 1..Len(jobs) :
       /\ jobs[k] = j
       /\ jobs' = SubSeq(jobs, 1, k - 1) \o SubSeq(jobs, k + 1, Len(jobs))
  /\ UNCHANGED <<shown, answer>>

\* traverse_jobs: the printed line is the queue of that moment.
Traverse ==
  /\ shown' = jobs
  /\ UNCHANGED <<jobs, answer>>

\* job_find: the answer is the job if it is queued at that moment.
Find(f, id) ==
  /\ answer' = [answer EXCEPT
                 ![f] = <<id, IF In(id) THEN id ELSE NULL>>]
  /\ UNCHANGED <<jobs, shown>>

Next ==
  \/ \E j \in Job : Add(j) \/ Remove1(j)
  \/ Traverse
  \/ \E f \in Finders, id \in Job : Find(f, id)

Spec == Init /\ [][Next]_<<jobs, shown, answer>>
=============================================================================
