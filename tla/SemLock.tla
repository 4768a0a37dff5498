------------------------------- MODULE SemLock -------------------------------
(***************************************************************************)
(* IPC/sem_lock.c and IPC/semlock_test.c: a lock made from a named         *)
(* semaphore, and a process whose two threads each add 1 to cnt N times    *)
(* under it.  s_alloc looks for a name "<pid>.<k>" nobody has, creates the *)
(* semaphore and unlinks the name at once.  Leftover gives the names that  *)
(* earlier processes with this pid left behind, and their values.  Tryers  *)
(* are further threads that call s_trylock N times, as the test never does.*)
(***************************************************************************)
EXTENDS Integers

CONSTANTS N,         \* rounds of each thread's loop
          Tryers,    \* threads using s_trylock
          Leftover,  \* name -> value of semaphores that exist before the start
          None       \* no semaphore, no value

Adder  == {"thr_fn1", "thr_fn2"}
Thread == Adder \cup Tryers

ASSUME SemAssumption ==
  /\ N \in Nat \ {0}
  /\ Tryers \cap Adder = {}
  /\ DOMAIN Leftover \subseteq Nat /\ \A k \in DOMAIN Leftover : Leftover[k] \in Nat
  /\ None \notin Int

VARIABLES
  named,    \* the k whose name exists in the system
  k,        \* static cnt of s_alloc
  mine,     \* the name s_alloc created
  sem,      \* value of the semaphore this process has open, or None
  main,     \* where main is
  pc, i, reg,  \* per thread: position, loop counter, loaded value of cnt
  cnt,      \* the shared counter of the test
  printed   \* what main printed

os   == <<named, k, mine>>
work == <<pc, i, reg, cnt>>
semVars == <<os, sem, main, work, printed>>

Goto(t, l) == pc' = [pc EXCEPT ![t] = l]

SemInit ==
  /\ named = DOMAIN Leftover /\ k = 0 /\ mine = None /\ sem = None
  /\ main = "open"
  /\ pc = [t \in Thread |-> "out"]
  /\ i = [t \in Thread |-> 0] /\ reg = [t \in Adder |-> 0]
  /\ cnt = 0 /\ printed = None
-----------------------------------------------------------------------------
(***************************************************************************)
(* s_alloc.                                                                *)
(***************************************************************************)
\* sem_open fails with EEXIST: the loop tries the next name.
OpenExists ==
  /\ main = "open" /\ k \in named
  /\ k' = k + 1
  /\ UNCHANGED <<named, mine, sem, main, work, printed>>

\* sem_open without O_EXCL opens what is there.
BugOpen ==
  /\ main = "open"
  /\ sem' = IF k \in named THEN Leftover[k] ELSE 1
  /\ named' = named \cup {k} /\ mine' = k /\ k' = k + 1
  /\ main' = "unlink"
  /\ UNCHANGED <<work, printed>>

OpenCreates ==
  /\ main = "open" /\ k \notin named
  /\ sem' = 1
  /\ named' = named \cup {k} /\ mine' = k /\ k' = k + 1
  /\ main' = "unlink"
  /\ UNCHANGED <<work, printed>>

\* malloc fails, or sem_open for another reason: main exits.
AllocFails ==
  /\ main = "open"
  /\ main' = "failed"
  /\ UNCHANGED <<os, sem, work, printed>>

BugUnlink ==
  /\ main = "unlink"
  /\ main' = "join"
  /\ UNCHANGED <<os, sem, work, printed>>

\* sem_unlink, and main starts the threads.
Unlink ==
  /\ main = "unlink"
  /\ named' = named \ {mine}
  /\ main' = "join"
  /\ UNCHANGED <<k, mine, sem, work, printed>>
-----------------------------------------------------------------------------
(***************************************************************************)
(* The threads.                                                            *)
(***************************************************************************)
Running(t) == main = "join" /\ i[t] < N

\* sem_wait, or sem_trywait, when the value allows.
SLock(t) ==
  /\ Running(t) /\ pc[t] = "out"
  /\ sem > 0
  /\ sem' = sem - 1
  /\ Goto(t, "in")
  /\ UNCHANGED <<os, main, i, reg, cnt, printed>>

\* sem_trywait fails with EAGAIN.
TryFails(t) ==
  /\ Running(t) /\ pc[t] = "out"
  /\ sem = 0
  /\ i' = [i EXCEPT ![t] = @ + 1]
  /\ UNCHANGED <<os, sem, main, pc, reg, cnt, printed>>

\* cnt += 1 is a load and a store.
Load(t) ==
  /\ Running(t) /\ pc[t] = "in"
  /\ reg' = [reg EXCEPT ![t] = cnt]
  /\ Goto(t, "loaded")
  /\ UNCHANGED <<os, sem, main, i, cnt, printed>>

Store(t) ==
  /\ Running(t) /\ pc[t] = "loaded"
  /\ cnt' = reg[t] + 1
  /\ Goto(t, "stored")
  /\ UNCHANGED <<os, sem, main, i, reg, printed>>

Unlocks(t, up) ==
  /\ Running(t)
  /\ pc[t] = IF t \in Adder THEN "stored" ELSE "in"
  /\ sem' = sem + up
  /\ i' = [i EXCEPT ![t] = @ + 1]
  /\ Goto(t, "out")
  /\ UNCHANGED <<os, main, reg, cnt, printed>>

BugUnlock(t)      == Unlocks(t, 0)
SUnlock(t)        == Unlocks(t, 1)

\* Both joins return and main prints cnt.
Join ==
  /\ main = "join" /\ \A t \in Thread : i[t] = N
  /\ printed' = cnt
  /\ main' = "printed"
  /\ UNCHANGED <<os, sem, work>>

SFree ==
  /\ main = "printed"
  /\ sem' = None
  /\ main' = "exit"
  /\ UNCHANGED <<os, work, printed>>

\* The process is killed at any point.
SemKill ==
  /\ main \notin {"failed", "exit", "killed"}
  /\ main' = "killed"
  /\ UNCHANGED <<os, sem, work, printed>>

Step(t) ==
  \/ SLock(t) \/ SUnlock(t)
  \/ t \in Adder /\ (Load(t) \/ Store(t))
  \/ t \in Tryers /\ TryFails(t)
Main == OpenExists \/ OpenCreates \/ AllocFails \/ Unlink \/ Join \/ SFree
SemNext == Main \/ (\E t \in Thread : Step(t)) \/ SemKill
SemSpec == SemInit /\ [][SemNext]_semVars

\* Every thread keeps running.  The loops are finite, so a thread waiting for
\* the semaphore need not be preferred: the others finish at last.
FairSpec == SemSpec /\ WF_semVars(Main) /\ \A t \in Thread : WF_semVars(Step(t))
-----------------------------------------------------------------------------
SemTypeOK ==
  /\ named \subseteq Nat /\ k \in Nat /\ mine \in Nat \cup {None}
  /\ sem \in {0, 1, None}
  /\ main \in {"open", "unlink", "join", "printed", "exit", "failed", "killed"}
  /\ pc \in [Thread -> {"out", "in", "loaded", "stored"}]
  /\ i \in [Thread -> 0..N] /\ reg \in [Adder -> Nat]
  /\ cnt \in Nat /\ printed \in Nat \cup {None}

\* s_lock and s_trylock let one thread in at a time, whatever semaphores
\* other processes left behind.
MutualExclusion ==
  \A t, u \in Thread : pc[t] # "out" /\ pc[u] # "out" => t = u

\* No addition is lost: main prints 2 * N.
PrintsTotal == printed # None => printed = 2 * N

\* s_alloc leaves no name behind and takes none away: the names are the ones
\* found, but for its own between sem_open and sem_unlink (or if killed there).
NamesAsFound ==
  \/ named = DOMAIN Leftover
  \/ named = DOMAIN Leftover \cup {mine} /\ main \in {"unlink", "killed"} /\ cnt = 0

\* The process ends: nobody waits for ever for the semaphore.
Ends == <>(main \in {"exit", "failed", "killed"})
=============================================================================
