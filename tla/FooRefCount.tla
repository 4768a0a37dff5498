---------------------------- MODULE FooRefCount ----------------------------
(***************************************************************************)
(* pthread/pthread_mutex.c: two reference-counted objects, foo 1 and foo 2,*)
(* each with a mutex inside the very memory that the last release frees.   *)
(* main allocates both with count 1 and starts two threads; each takes     *)
(* Holds[f] references to foo f, then gives them back.  The reference of   *)
(* main is given back by thr_fn2, which releases once more than it holds.  *)
(* Nothing makes thr_fn1 take its first reference before that happens, so  *)
(* foo_hold can reach an object whose count is 0: such a hold is "late".   *)
(***************************************************************************)
EXTENDS Integers, Sequences, FiniteSets

CONSTANTS Holds,   \* how often each thread calls foo_hold on foo 1 and on foo 2
          NoOne    \* the owner of an unlocked mutex

Foo    == {1, 2}
Thread == {"thr_fn1", "thr_fn2"}

ASSUME FooAssumption == Holds \in [Foo -> Nat \ {0}] /\ NoOne \notin Thread

VARIABLES
  f_count,  \* per foo
  owner,    \* f_lock of each foo: the thread that has it locked, or NoOne
  freed,    \* per foo: has its memory been freed?
  pc,       \* per thread: the next step of its current call
  loop,     \* per thread: which of its four for loops it is in (5: returned)
  i,        \* per thread: the loop counter
  reg,      \* per thread: f_count as it has just loaded it
  late,     \* history: the foos that some foo_hold found with count 0
  crashed   \* freed memory was accessed: nothing after that is defined

vars == <<f_count, owner, freed, pc, loop, i, reg, late, crashed>>

\* Loops 1 and 2 hold foo 1 and 2; loops 3 and 4 release them.
FooOf(k)     == IF k \in {1, 3} THEN 1 ELSE 2
IsHold(k)    == k \in {1, 2}
Extra(t)     == IF t = "thr_fn2" THEN 1 ELSE 0
BugRounds(t, k) == Holds[FooOf(k)] + (IF IsHold(k) THEN 0 ELSE 1)
Rounds(t, k) == IF IsHold(k) THEN Holds[FooOf(k)] ELSE Holds[FooOf(k)] + Extra(t)

foo(t)       == FooOf(loop[t])
Goto(t, l)   == pc' = [pc EXCEPT ![t] = l]
Running(t)   == ~ crashed /\ loop[t] # 5

\* foo_alloc, twice, and the start of both threads.
Init ==
  /\ f_count = [f \in Foo |-> 1]
  /\ owner = [f \in Foo |-> NoOne]
  /\ freed = [f \in Foo |-> FALSE]
  /\ pc = [t \in Thread |-> "lock"]
  /\ loop = [t \in Thread |-> 1]
  /\ i = [t \in Thread |-> 0]
  /\ reg = [t \in Thread |-> 0]
  /\ late = {}
  /\ crashed = FALSE

\* A call returns: i++, the loop's test, and the first call of the next loop.
Return(t) ==
  /\ Goto(t, "lock")
  /\ IF i[t] + 1 < Rounds(t, loop[t])
     THEN i' = [i EXCEPT ![t] = @ + 1] /\ UNCHANGED loop
     ELSE i' = [i EXCEPT ![t] = 0] /\ loop' = [loop EXCEPT ![t] = @ + 1]

\* Any step that reads or writes the memory of a freed foo.
Crash(t) ==
  /\ Running(t)
  /\ freed[foo(t)]
  /\ crashed' = TRUE
  /\ UNCHANGED <<f_count, owner, freed, pc, loop, i, reg, late>>

\* pthread_mutex_lock, the first thing both calls do.
BugLock(t) ==
  /\ Running(t) /\ pc[t] = "lock" /\ ~ freed[foo(t)]
  /\ Goto(t, "load")
  /\ UNCHANGED <<f_count, owner, freed, loop, i, reg, late, crashed>>

Lock(t) ==
  /\ Running(t) /\ pc[t] = "lock" /\ ~ freed[foo(t)]
  /\ owner[foo(t)] = NoOne
  /\ owner' = [owner EXCEPT ![foo(t)] = t]
  /\ late' = IF IsHold(loop[t]) /\ f_count[foo(t)] = 0 THEN late \cup {foo(t)} ELSE late
  /\ Goto(t, "load")
  /\ UNCHANGED <<f_count, freed, loop, i, reg, crashed>>

\* f_count += 1 and --f_count are a load and a store.
Load(t) ==
  /\ Running(t) /\ pc[t] = "load" /\ ~ freed[foo(t)]
  /\ reg' = [reg EXCEPT ![t] = f_count[foo(t)]]
  /\ Goto(t, "store")
  /\ UNCHANGED <<f_count, owner, freed, loop, i, late, crashed>>

Hold(t) ==
  /\ Running(t) /\ pc[t] = "store" /\ ~ freed[foo(t)]
  /\ IsHold(loop[t])
  /\ f_count' = [f_count EXCEPT ![foo(t)] = reg[t] + 1]
  /\ Goto(t, "unlock")
  /\ UNCHANGED <<owner, freed, loop, i, reg, late, crashed>>

\* foo_rele: is the count now equal to last?
DecrementTo(t, last) ==
  /\ Running(t) /\ pc[t] = "store" /\ ~ freed[foo(t)]
  /\ ~ IsHold(loop[t])
  /\ f_count' = [f_count EXCEPT ![foo(t)] = reg[t] - 1]
  /\ Goto(t, IF reg[t] - 1 = last THEN "unlock_last" ELSE "unlock")
  /\ UNCHANGED <<owner, freed, loop, i, reg, late, crashed>>

BugFreesEarly(t) == DecrementTo(t, 1)
Rele(t)          == DecrementTo(t, 0)

Unlock(t) ==
  /\ Running(t) /\ pc[t] \in {"unlock", "unlock_last"} /\ ~ freed[foo(t)]
  /\ owner' = [owner EXCEPT ![foo(t)] = NoOne]
  /\ IF pc[t] = "unlock_last" THEN Goto(t, "free") /\ UNCHANGED <<loop, i>>
                              ELSE Return(t)
  /\ UNCHANGED <<f_count, freed, reg, late, crashed>>

\* pthread_mutex_destroy and free.  Destroying a locked mutex is undefined.
Free(t) ==
  /\ Running(t) /\ pc[t] = "free" /\ ~ freed[foo(t)]
  /\ freed' = [freed EXCEPT ![foo(t)] = TRUE]
  /\ crashed' = (owner[foo(t)] # NoOne)
  /\ Return(t)
  /\ UNCHANGED <<f_count, owner, reg, late>>

Joined == \A t \in Thread : loop[t] = 5

Step(t) == Lock(t) \/ Load(t) \/ Hold(t) \/ Rele(t) \/ Unlock(t) \/ Free(t) \/ Crash(t)

\* The process has ended.  Nothing else may stop: the loops are finite, so that
\* a state without a step would be two threads waiting for each other's mutexes.
Over    == (Joined \/ crashed) /\ UNCHANGED vars
Next    == (\E t \in Thread : Step(t)) \/ Over
Spec    == Init /\ [][Next]_vars
-----------------------------------------------------------------------------
TypeOK ==
  /\ f_count \in [Foo -> Nat] /\ owner \in [Foo -> Thread \cup {NoOne}]
  /\ freed \in [Foo -> BOOLEAN]
  /\ pc \in [Thread -> {"lock", "load", "store", "unlock", "unlock_last", "free"}]
  /\ loop \in [Thread -> 1..5] /\ i \in [Thread -> Nat] /\ reg \in [Thread -> Nat]
  /\ late \subseteq Foo /\ crashed \in BOOLEAN

\* How many references to foo f thread t has, told by where it is in its
\* loops; thr_fn2 is given the one of main.
Calls(t, k, counted) ==
  IF loop[t] > k THEN Rounds(t, k)
  ELSE IF loop[t] = k THEN i[t] + (IF pc[t] \in counted THEN 1 ELSE 0) ELSE 0
Held(t, f) ==
  Extra(t) + Calls(t, f, {"unlock"})
           - Calls(t, f + 2, {"unlock", "unlock_last", "free"})

\* f_count is the number of references the two threads have, at every step
\* of both, until the object is gone.
CountsReferences ==
  TypeOK /\ \A f \in Foo : f_count[f] = Held("thr_fn1", f) + Held("thr_fn2", f)

\* The life of an object.  foo_rele frees nothing that a thread has a reference
\* to, or is about to touch, unless a late foo_hold took its reference from a
\* dead object; freed memory is accessed only by way of a late foo_hold; and if
\* nothing went wrong both objects have been freed when main returns.
Lifetime ==
  /\ \A f \in Foo \ late : freed[f] => \A t \in Thread :
       Held(t, f) = 0 /\ (loop[t] # 5 /\ foo(t) = f => pc[t] = "lock" /\ IsHold(loop[t]))
  /\ crashed => \E f \in Foo : freed[f] /\ (f \in late \/ \E t \in Thread :
       loop[t] # 5 /\ foo(t) = f /\ IsHold(loop[t]) /\ pc[t] = "lock" /\ Held(t, f) = 0)
  /\ Joined /\ ~ crashed => \A f \in Foo : freed[f]

\* Only the first foo_hold of thr_fn1 on an object can be late, and only when
\* thr_fn2 has already run through all its holds and releases of it.
LateIsFirstHold ==
  [][\A f \in late' \ late :
       /\ loop["thr_fn1"] = f /\ i["thr_fn1"] = 0
       /\ Held("thr_fn2", f) = 0 /\ loop["thr_fn2"] >= f + 2]_vars
=============================================================================
