------------------------------ MODULE JobQueue ------------------------------
(***************************************************************************)
(* pthread/job_queue.c: a doubly linked list of jobs behind a read-write   *)
(* lock.  Thread thr_fn1 adds NJOBS jobs at alternating ends and then      *)
(* removes them in the order it made them; thread thr_fn2 prints the list  *)
(* for as long as q_head # q_tail, a test it makes WITHOUT the lock.       *)
(* Finders are further threads that call job_find, which the file offers   *)
(* and its own main never calls.                                           *)
(*                                                                         *)
(* A pointer to a job is the job's number: job i is the one malloc returns *)
(* in round i of thr_fn1, so jp_arr[i] = i and j_id = i.  The stores to    *)
(* q_head and q_tail are steps of their own, in either order, because      *)
(* thr_fn2 can see them one at a time; the stores to j_next and j_prev are *)
(* seen by lock holders only and happen together.                          *)
(***************************************************************************)
EXTENDS Integers, Sequences

CONSTANTS NJOBS,    \* #define NJOBS
          Finders,  \* threads calling job_find
          NULL,     \* the null pointer
          Wild      \* contents of malloced memory before the first store

Job    == 0 .. NJOBS - 1
Ptr    == Job \cup {NULL}
Fields == {"q_head", "q_tail"}
Thread == {"thr_fn1", "thr_fn2"} \cup Finders

ASSUME JobQueueAssumption ==
  /\ NJOBS \in Nat \ {0}
  /\ NULL \notin Job /\ Wild \notin Ptr
  /\ Finders \cap {"thr_fn1", "thr_fn2"} = {} /\ NULL \notin Thread

VARIABLES
  q,        \* struct queue: the fields q_head and q_tail as memory holds them
  target,   \* their values once the writer's outstanding stores are done
  jNext,    \* j_next of every job
  jPrev,    \* j_prev of every job
  writer,   \* q_lock: the thread that holds it for writing, or NULL
  readers,  \* q_lock: the threads that hold it for reading
  pc,       \* where every thread is
  phase,    \* thr_fn1: its first loop ("add") or its second ("remove")
  i,        \* thr_fn1: the loop counter
  seen,     \* thr_fn2: q_head and q_tail as the loop test has read them
  jp,       \* per reading thread: the loop variable jp
  want,     \* per finder: the argument id
  printed,  \* thr_fn2: the jobs printed so far by this traverse_jobs
  line,     \* thr_fn2: the last complete line
  found,    \* per finder: <<id, answer>> of its last job_find
  queue,    \* history: the queue as a sequence, head first
  short     \* history: has the queue had fewer than 2 jobs since the
            \* current evaluation of thr_fn2's loop test began?

list    == <<q, target, jNext, jPrev, queue>>
lock    == <<writer, readers>>
loop1   == <<phase, i>>
loop2   == <<seen, printed, line, short>>
finding == <<want, found>>
vars    == <<list, lock, loop1, loop2, finding, jp, pc>>

Goto(t, label) == pc' = [pc EXCEPT ![t] = label]

\* The sequence s without its p-th element.
RemoveAt(s, p) == SubSeq(s, 1, p - 1) \o SubSeq(s, p + 1, Len(s))

NotRead == [f \in Fields |-> Wild]

\* queue_init and the start of both threads by main.
Init ==
  /\ q = [f \in Fields |-> NULL]
  /\ target = q
  /\ jNext = [j \in Job |-> Wild]
  /\ jPrev = [j \in Job |-> Wild]
  /\ writer = NULL
  /\ readers = {}
  /\ pc = [t \in Thread |-> CASE t = "thr_fn1" -> "wrlock"
                              [] t = "thr_fn2" -> "test"
                              [] OTHER -> "idle"]
  /\ phase = "add"
  /\ i = 0
  /\ seen = NotRead
  /\ jp = [t \in Thread |-> NULL]
  /\ want = [f \in Finders |-> NULL]
  /\ printed = <<>>
  /\ line = <<>>
  /\ found = [f \in Finders |-> <<NULL, NULL>>]
  /\ queue = <<>>
  /\ short = TRUE
-----------------------------------------------------------------------------
(***************************************************************************)
(* The read-write lock (external: pthread_rwlock).                         *)
(***************************************************************************)
WrLock(t) ==
  /\ writer = NULL /\ readers = {}
  /\ writer' = t
  /\ UNCHANGED readers

RdLock(t) ==
  /\ writer = NULL
  /\ readers' = readers \cup {t}
  /\ UNCHANGED writer

Unlock(t) ==
  /\ writer' = IF writer = t THEN NULL ELSE writer
  /\ readers' = readers \ {t}
-----------------------------------------------------------------------------
(***************************************************************************)
(* The list operations, between lock and unlock.                           *)
(***************************************************************************)
BugJobInsert(j) ==
  /\ jNext' = [jNext EXCEPT ![j] = q.q_head]
  /\ jPrev' = [jPrev EXCEPT ![j] = NULL]
  /\ target' = [q_head |-> j, q_tail |-> IF q.q_head = NULL THEN j ELSE q.q_tail]
  /\ queue' = <<j>> \o queue

JobInsert(j) ==
  /\ jNext' = [jNext EXCEPT ![j] = q.q_head]
  /\ jPrev' = [k \in Job |-> IF k = q.q_head THEN j ELSE IF k = j THEN NULL ELSE jPrev[k]]
  /\ target' = [q_head |-> j, q_tail |-> IF q.q_head = NULL THEN j ELSE q.q_tail]
  /\ queue' = <<j>> \o queue

JobAppend(j) ==
  /\ jPrev' = [jPrev EXCEPT ![j] = q.q_tail]
  /\ jNext' = [k \in Job |-> IF k = q.q_tail THEN j ELSE IF k = j THEN NULL ELSE jNext[k]]
  /\ target' = [q_head |-> IF q.q_tail = NULL THEN j ELSE q.q_head, q_tail |-> j]
  /\ queue' = Append(queue, j)

BugRemoveHead(j) ==
  /\ j = q.q_head
  /\ target' = [q EXCEPT !.q_head = jNext[j]]
  /\ jPrev' = IF q.q_tail = j THEN jPrev ELSE [jPrev EXCEPT ![jNext[j]] = NULL]
  /\ UNCHANGED jNext

RemoveHead(j) ==
  /\ j = q.q_head
  /\ target' = [q_head |-> jNext[j], q_tail |-> IF q.q_tail = j THEN NULL ELSE q.q_tail]
  /\ jPrev' = IF q.q_tail = j THEN jPrev ELSE [jPrev EXCEPT ![jNext[j]] = NULL]
  /\ UNCHANGED jNext

\* The code tests jp == q_head once more here; the outer test has failed.
RemoveTail(j) ==
  /\ j # q.q_head /\ j = q.q_tail
  /\ target' = [q EXCEPT !.q_tail = jPrev[j]]
  /\ jNext' = [jNext EXCEPT ![jPrev[j]] = NULL]
  /\ UNCHANGED jPrev

RemoveMiddle(j) ==
  /\ j # q.q_head /\ j # q.q_tail
  /\ jNext' = [jNext EXCEPT ![jPrev[j]] = jNext[j]]
  /\ jPrev' = [jPrev EXCEPT ![jNext[j]] = jPrev[j]]
  /\ UNCHANGED target

JobRemove(j) ==
  /\ RemoveHead(j) \/ RemoveTail(j) \/ RemoveMiddle(j)
  /\ queue' = RemoveAt(queue, CHOOSE k \in 1..Len(queue) : queue[k] = j)
-----------------------------------------------------------------------------
(***************************************************************************)
(* thr_fn1.                                                                *)
(***************************************************************************)
WLock ==
  /\ pc["thr_fn1"] = "wrlock"
  /\ WrLock("thr_fn1")
  /\ Goto("thr_fn1", "link")
  /\ UNCHANGED <<list, loop1, loop2, finding, jp>>

\* job_insert for odd i, job_append for even i; job_remove in the second loop.
WLink ==
  /\ pc["thr_fn1"] = "link"
  /\ \/ phase = "add" /\ i % 2 = 1 /\ JobInsert(i)
     \/ phase = "add" /\ i % 2 = 0 /\ JobAppend(i)
     \/ phase = "remove" /\ JobRemove(i)
  /\ short' = (short \/ Len(queue') < 2)
  /\ Goto("thr_fn1", "store")
  /\ UNCHANGED <<q, lock, loop1, finding, jp, seen, printed, line>>

\* One outstanding store to q_head or q_tail becomes visible.
WStore(f) ==
  /\ pc["thr_fn1"] = "store"
  /\ q[f] # target[f]
  /\ q' = [q EXCEPT ![f] = target[f]]
  /\ UNCHANGED <<target, jNext, jPrev, queue, lock, loop1, loop2, finding, jp, pc>>

\* i++ and the test i <= last of a loop of thr_fn1; the second starts at first.
Advance(first, last) ==
  IF i < last
  THEN i' = i + 1 /\ UNCHANGED phase /\ Goto("thr_fn1", "wrlock")
  ELSE /\ i' = first
       /\ phase' = "remove"
       /\ Goto("thr_fn1", IF phase = "remove" THEN "done" ELSE "wrlock")

NextRound       == Advance(0, NJOBS - 1)

WUnlock ==
  /\ pc["thr_fn1"] = "store"
  /\ q = target
  /\ Unlock("thr_fn1")
  /\ NextRound
  /\ UNCHANGED <<list, loop2, finding, jp>>
-----------------------------------------------------------------------------
(***************************************************************************)
(* thr_fn2.                                                                *)
(***************************************************************************)
\* One of the two unlocked loads of the test qp->q_head != qp->q_tail.
TLoad(f) ==
  /\ pc["thr_fn2"] = "test"
  /\ seen[f] = Wild
  /\ seen' = [seen EXCEPT ![f] = q[f]]
  /\ UNCHANGED <<list, lock, loop1, finding, jp, pc, printed, line, short>>

TestDone ==
  /\ pc["thr_fn2"] = "test"
  /\ \A f \in Fields : seen[f] # Wild
  /\ Goto("thr_fn2", IF seen["q_head"] # seen["q_tail"] THEN "rdlock" ELSE "done")
  /\ UNCHANGED <<list, lock, loop1, loop2, finding, jp>>

BugTLock ==
  /\ pc["thr_fn2"] = "rdlock"
  /\ jp' = [jp EXCEPT !["thr_fn2"] = q.q_head]
  /\ printed' = <<>>
  /\ Goto("thr_fn2", "walk")
  /\ UNCHANGED <<list, lock, loop1, finding, seen, line, short>>
TLock ==
  /\ pc["thr_fn2"] = "rdlock"
  /\ RdLock("thr_fn2")
  /\ jp' = [jp EXCEPT !["thr_fn2"] = q.q_head]
  /\ printed' = <<>>
  /\ Goto("thr_fn2", "walk")
  /\ UNCHANGED <<list, loop1, finding, seen, line, short>>

TWalk ==
  /\ pc["thr_fn2"] = "walk"
  /\ jp["thr_fn2"] # NULL
  /\ printed' = Append(printed, jp["thr_fn2"])
  /\ jp' = [jp EXCEPT !["thr_fn2"] = jNext[jp["thr_fn2"]]]
  /\ UNCHANGED <<list, lock, loop1, finding, pc, seen, line, short>>

\* The end of traverse_jobs, and back to the test of the while loop.
TUnlock ==
  /\ pc["thr_fn2"] = "walk"
  /\ jp["thr_fn2"] = NULL
  /\ Unlock("thr_fn2")
  /\ line' = printed
  /\ seen' = NotRead
  /\ short' = (Len(queue) < 2)
  /\ Goto("thr_fn2", "test")
  /\ UNCHANGED <<list, loop1, finding, jp, printed>>
-----------------------------------------------------------------------------
(***************************************************************************)
(* job_find, called by finder t with some id.                              *)
(***************************************************************************)
FLock(t) ==
  /\ pc[t] = "idle"
  /\ RdLock(t)
  /\ \E id \in Job : want' = [want EXCEPT ![t] = id]
  /\ jp' = [jp EXCEPT ![t] = q.q_head]
  /\ Goto(t, "walk")
  /\ UNCHANGED <<list, loop1, loop2, found>>

FWalk(t) ==
  /\ pc[t] = "walk"
  /\ jp[t] \notin {NULL, want[t]}
  /\ jp' = [jp EXCEPT ![t] = jNext[jp[t]]]
  /\ UNCHANGED <<list, lock, loop1, loop2, finding, pc>>

FUnlock(t) ==
  /\ pc[t] = "walk"
  /\ jp[t] \in {NULL, want[t]}
  /\ Unlock(t)
  /\ found' = [found EXCEPT ![t] = <<want[t], jp[t]>>]
  /\ Goto(t, "idle")
  /\ UNCHANGED <<list, loop1, loop2, want, jp>>
-----------------------------------------------------------------------------
Joined == pc["thr_fn1"] = "done" /\ pc["thr_fn2"] = "done"

Thr1 == WLock \/ WLink \/ (\E f \in Fields : WStore(f)) \/ WUnlock
Thr2 == (\E f \in Fields : TLoad(f)) \/ TestDone \/ TLock \/ TWalk \/ TUnlock
Finder(t) == FLock(t) \/ FWalk(t) \/ FUnlock(t)

\* main returns once both threads are joined.
Exit == Joined /\ UNCHANGED vars

Next == Thr1 \/ Thr2 \/ (\E t \in Finders : Finder(t)) \/ Exit

(***************************************************************************)
(* Both threads keep running.  thr_fn1 may find the lock taken each time   *)
(* it looks, but thr_fn2 lets go of it for delay(3) after every line, so a *)
(* lock that is free again and again is acquired: strong fairness of WLock.*)
(***************************************************************************)
Fairness == WF_vars(Thr1) /\ WF_vars(Thr2) /\ SF_vars(WLock)

Spec     == Init /\ [][Next]_vars
FairSpec == Spec /\ Fairness
-----------------------------------------------------------------------------
TypeOK ==
  /\ q \in [Fields -> Ptr] /\ target \in [Fields -> Ptr]
  /\ jNext \in [Job -> Ptr \cup {Wild}] /\ jPrev \in [Job -> Ptr \cup {Wild}]
  /\ writer \in {"thr_fn1", NULL} /\ readers \subseteq Thread
  /\ pc \in [Thread -> {"wrlock", "link", "store", "test", "rdlock", "walk",
                        "idle", "done"}]
  /\ phase \in {"add", "remove"} /\ i \in Job
  /\ seen \in [Fields -> Ptr \cup {Wild}]
  /\ jp \in [Thread -> Ptr] /\ want \in [Finders -> Ptr]
  /\ printed \in Seq(Job) /\ line \in Seq(Job) /\ queue \in Seq(Job)
  /\ found \in [Finders -> Ptr \X Ptr] /\ short \in BOOLEAN

\* The list with ends h.q_head and h.q_tail and links nx and pv holds the jobs
\* of s, in that order and each once.
Represents(h, nx, pv, s) ==
  LET n == Len(s) IN
  /\ h["q_head"] = IF n = 0 THEN NULL ELSE s[1]
  /\ h["q_tail"] = IF n = 0 THEN NULL ELSE s[n]
  /\ \A k \in 1..n : /\ nx[s[k]] = IF k = n THEN NULL ELSE s[k + 1]
                     /\ pv[s[k]] = IF k = 1 THEN NULL ELSE s[k - 1]
  /\ \A k, l \in 1..n : s[k] = s[l] => k = l

(***************************************************************************)
(* The pointers are the queue: once its stores are done q_head is the      *)
(* first job and q_tail the last, j_next leads from each job to the one    *)
(* behind it and j_prev back, the ends hold NULL, and no job occurs twice. *)
(***************************************************************************)
Linked == Represents(target, jNext, jPrev, queue)

\* Nobody reads the list, nor takes the lock, while thr_fn1 has it for
\* writing, and q_head and q_tail are whole whenever a reader has it.
ReadersSeeWholeQueue ==
  readers # {} => writer = NULL /\ q = target

(***************************************************************************)
(* job_remove follows no null and no wild pointer: whichever branch job i  *)
(* takes, the neighbours whose fields it overwrites exist.                 *)
(***************************************************************************)
RemoveDereferencesJobs ==
  pc["thr_fn1"] = "link" /\ phase = "remove" =>
    /\ i = q.q_head /\ i # q.q_tail => jNext[i] \in Job
    /\ i # q.q_head => jPrev[i] \in Job
    /\ i # q.q_head /\ i # q.q_tail => jNext[i] \in Job

(***************************************************************************)
(* The unlocked test cannot end thr_fn2 for no reason: if it says Done,    *)
(* then at some moment of that very test the queue had at most one job.    *)
(***************************************************************************)
DoneOnlyIfShort == pc["thr_fn2"] = "done" => short

\* When main's joins return every job has been removed.
EmptyAtExit == Joined => queue = <<>> /\ q = [f \in Fields |-> NULL]

\* Each operation, locks and partial stores included, acts as one atomic
\* step on a sequence; in particular a printed line is a queue that existed.
Atomic == INSTANCE AtomicJobQueue WITH jobs <- queue, shown <- line, answer <- found
ImplementsAtomicQueue == Atomic!Spec

\* Both threads finish, so main's joins return, once no thread is in job_find
\* any more: the reader's loop stops when the writer has drained the queue, and
\* never starves the writer.  Callers of job_find that overlap for ever would.
Termination == <>[](readers \cap Finders = {}) => <>Joined
=============================================================================
