-------------------------- MODULE FooRefCountProofs --------------------------
(***************************************************************************)
(* Proofs about FooRefCount, for any number of holds: the count is the     *)
(* number of references, what is freed and when, and which foo_hold can    *)
(* come too late.                                                          *)
(***************************************************************************)
EXTENDS FooRefCount, TLAPS

(* The inductive invariant.                                                *)

Inside      == {"load", "store", "unlock", "unlock_last"}
In(t, f)    == loop[t] # 5 /\ foo(t) = f
Freer(t, f) == In(t, f) /\ pc[t] \in {"unlock_last", "free"}

\* Where a thread can be, and that the mutex of a foo belongs to the thread that is
\* between lock and unlock; what that thread has loaded is still the count.
Places == \A t \in Thread :
  /\ loop[t] = 5 => pc[t] = "lock" /\ i[t] = 0
  /\ loop[t] # 5 => i[t] < Rounds(t, loop[t])
  /\ pc[t] \in {"unlock_last", "free"} => ~ IsHold(loop[t])
Mutex == \A t \in Thread, f \in Foo : owner[f] = t <=> In(t, f) /\ pc[t] \in Inside
Loaded == \A t \in Thread : pc[t] = "store" => reg[t] = f_count[foo(t)]

Counts == \A f \in Foo : f_count[f] = Held("thr_fn1", f) + Held("thr_fn2", f)

\* A count of 0 means that the foo is freed or about to be, and unless some hold
\* came late the converse is true and one thread only frees it.
Zero == \A f \in Foo :
  /\ f_count[f] = 0 => freed[f] \/ \E t \in Thread : Freer(t, f)
  /\ \A t \in Thread : In(t, f) /\ pc[t] = "unlock" /\ ~ IsHold(loop[t]) => f_count[f] # 0
  /\ f \notin late =>
       /\ freed[f] => f_count[f] = 0
       /\ \A t \in Thread :
            /\ Freer(t, f) => f_count[f] = 0 /\ ~ freed[f] /\ \A u \in Thread : Freer(u, f) => u = t
            /\ In(t, f) /\ pc[t] \in {"load", "store"} /\ IsHold(loop[t]) => f_count[f] # 0

\* How freed memory came to be accessed.
Crashed ==
  crashed => \E f \in Foo : freed[f] /\ (f \in late \/ \E t \in Thread :
               In(t, f) /\ IsHold(loop[t]) /\ pc[t] = "lock" /\ Held(t, f) = 0)

IInv == TypeOK /\ Places /\ Mutex /\ Loaded /\ Counts /\ Zero /\ Crashed
-----------------------------------------------------------------------------
(* References.                                                             *)

\* How often a thread calls on each foo.
LEMMA Often ==
  ASSUME NEW t \in Thread, NEW f \in Foo
  PROVE  /\ Holds[f] \in Nat /\ Holds[f] > 0 /\ f \in 1..2
         /\ Extra(t) \in 0..1 /\ (Extra(t) = 0 <=> t = "thr_fn1")
         /\ Rounds(t, f) = Holds[f] /\ Rounds(t, f + 2) = Holds[f] + Extra(t)
  <1>1. Holds[f] \in Nat /\ Holds[f] > 0 BY FooAssumption
  <1>2. f = 1 \/ f = 2 BY DEF Foo
  <1>3. FooOf(f) = f /\ FooOf(f + 2) = f /\ IsHold(f) /\ ~ IsHold(f + 2) BY <1>2 DEF FooOf, IsHold
  <1>4. Extra(t) \in 0..1 /\ (Extra(t) = 0 <=> t = "thr_fn1") BY DEF Extra, Thread
  <1> QED BY <1>1, <1>2, <1>3, <1>4 DEF Rounds

\* Which foo a loop is about.
LEMMA Loops ==
  ASSUME NEW k \in 1..4
  PROVE  /\ FooOf(k) \in Foo /\ (IsHold(k) <=> k <= 2)
         /\ \A f \in Foo : FooOf(k) = f <=> (k = f \/ k = f + 2)
         /\ IsHold(k) => k = FooOf(k)
         /\ ~ IsHold(k) => k = FooOf(k) + 2
  <1>1. k = 1 \/ k = 2 \/ k = 3 \/ k = 4 OBVIOUS
  <1> QED BY <1>1 DEF FooOf, IsHold, Foo

\* What Held says, loop by loop.
LEMMA HeldIs ==
  ASSUME TypeOK, NEW t \in Thread, NEW f \in Foo
  PROVE  /\ loop[t] < f => Held(t, f) = Extra(t)
         /\ loop[t] = f => Held(t, f) = Extra(t) + i[t] + (IF pc[t] = "unlock" THEN 1 ELSE 0)
         /\ loop[t] > f /\ loop[t] < f + 2 => Held(t, f) = Extra(t) + Holds[f]
         /\ loop[t] = f + 2 =>
              Held(t, f) = Extra(t) + Holds[f] - i[t]
                             - (IF pc[t] \in {"unlock", "unlock_last", "free"} THEN 1 ELSE 0)
         /\ loop[t] > f + 2 => Held(t, f) = 0
  <1>1. loop[t] \in 1..5 /\ i[t] \in Nat BY DEF TypeOK
  <1> QED BY <1>1, Often DEF Held, Calls

\* A thread has as many references as it has still to give back; thr_fn2 has one
\* until it gives back the last.
LEMMA HeldNat ==
  ASSUME TypeOK, Places, NEW t \in Thread, NEW f \in Foo
  PROVE  /\ Held(t, f) \in Nat
         /\ loop[t] = f + 2 /\ pc[t] \in {"lock", "load", "store"} => Held(t, f) > 0
         /\ loop[t] < f + 2 /\ Held(t, f) = 0 =>
              t = "thr_fn1" /\ (loop[t] = f => i[t] = 0 /\ pc[t] # "unlock") /\ loop[t] <= f
         /\ loop[t] = 5 => Held(t, f) = 0
  <1>1. loop[t] \in 1..5 /\ i[t] \in Nat BY DEF TypeOK
  <1>2. /\ loop[t] = f => i[t] < Holds[f]
        /\ loop[t] = f + 2 => i[t] < Holds[f] + Extra(t)
    BY Often, <1>1 DEF Places
  <1> QED BY <1>1, <1>2, Often, HeldIs

\* A thread that does not move keeps its references,
LEMMA HeldSame ==
  ASSUME NEW t \in Thread, NEW f \in Foo, loop'[t] = loop[t], i'[t] = i[t], pc'[t] = pc[t]
  PROVE  Held(t, f)' = Held(t, f)
  BY DEF Held, Calls

\* and so does one that locks, loads, or goes on to free the foo,
LEMMA HeldMoves ==
  ASSUME TypeOK, Places, NEW t \in Thread, NEW f \in Foo, loop'[t] = loop[t], i'[t] = i[t],
         \/ pc[t] = "lock" /\ pc'[t] = "load"
         \/ pc[t] = "load" /\ pc'[t] = "store"
         \/ pc[t] = "unlock_last" /\ pc'[t] = "free"
  PROVE  Held(t, f)' = Held(t, f)
  <1>1. pc[t] \in {"unlock"} <=> pc'[t] \in {"unlock"} OBVIOUS
  <1>2. pc[t] \in {"unlock", "unlock_last", "free"} <=> pc'[t] \in {"unlock", "unlock_last", "free"}
    OBVIOUS
  <1> QED BY <1>1, <1>2 DEF Held, Calls

\* or whose call returns.
LEMMA HeldReturns ==
  ASSUME TypeOK, Places, NEW t \in Thread, NEW f \in Foo, loop[t] # 5, pc[t] \in {"unlock", "free"},
         pc'[t] = "lock",
         \/ i[t] + 1 < Rounds(t, loop[t]) /\ i'[t] = i[t] + 1 /\ loop'[t] = loop[t]
         \/ i[t] + 1 = Rounds(t, loop[t]) /\ i'[t] = 0 /\ loop'[t] = loop[t] + 1
  PROVE  Held(t, f)' = Held(t, f)
  <1>1. loop[t] \in 1..4 /\ i[t] \in Nat BY DEF TypeOK
  <1>2. pc[t] = "free" => loop[t] > 2 BY <1>1, Loops DEF Places
  <1>3. /\ (IF pc[t] \in {"unlock", "unlock_last", "free"} THEN 1 ELSE 0) = 1
        /\ (IF pc'[t] \in {"unlock", "unlock_last", "free"} THEN 1 ELSE 0) = 0
        /\ (IF pc'[t] \in {"unlock"} THEN 1 ELSE 0) = 0
        /\ loop[t] = f => (IF pc[t] \in {"unlock"} THEN 1 ELSE 0) = 1
    BY <1>1, <1>2, Often
  <1>4. Calls(t, f, {"unlock"})' = Calls(t, f, {"unlock"}) BY <1>1, <1>3, Often DEF Calls
  <1>5. Calls(t, f + 2, {"unlock", "unlock_last", "free"})' = Calls(t, f + 2, {"unlock", "unlock_last", "free"})
    BY <1>1, <1>3, Often DEF Calls
  <1> QED BY <1>4, <1>5 DEF Held

\* The store of foo_hold takes a reference, that of foo_rele gives one back.
LEMMA HeldStores ==
  ASSUME TypeOK, NEW t \in Thread, NEW f \in Foo, loop[t] # 5, loop'[t] = loop[t], i'[t] = i[t],
         pc[t] = "store", pc'[t] = "unlock" \/ (pc'[t] = "unlock_last" /\ ~ IsHold(loop[t]))
  PROVE  /\ foo(t) # f => Held(t, f)' = Held(t, f)
         /\ foo(t) = f /\ IsHold(loop[t]) => Held(t, f)' = Held(t, f) + 1
         /\ foo(t) = f /\ ~ IsHold(loop[t]) => Held(t, f)' = Held(t, f) - 1
  <1>1. loop[t] \in 1..4 /\ i[t] \in Nat BY DEF TypeOK
  <1>2. /\ (IF pc'[t] \in {"unlock", "unlock_last", "free"} THEN 1 ELSE 0) = 1
        /\ (IF pc[t] \in {"unlock", "unlock_last", "free"} THEN 1 ELSE 0) = 0
        /\ (IF pc[t] \in {"unlock"} THEN 1 ELSE 0) = 0
        /\ loop[t] = f => (IF pc'[t] \in {"unlock"} THEN 1 ELSE 0) = 1
    BY <1>1, Loops, Often
  <1>3. Calls(t, f, {"unlock"}) \in Int /\ Calls(t, f + 2, {"unlock", "unlock_last", "free"}) \in Int
    BY <1>1, Often DEF Calls
  <1>4. Calls(t, f, {"unlock"})' = IF loop[t] = f THEN Calls(t, f, {"unlock"}) + 1 ELSE Calls(t, f, {"unlock"})
    BY <1>1, <1>2, Often DEF Calls
  <1>5. Calls(t, f + 2, {"unlock", "unlock_last", "free"})' =
          IF loop[t] = f + 2 THEN Calls(t, f + 2, {"unlock", "unlock_last", "free"}) + 1
                             ELSE Calls(t, f + 2, {"unlock", "unlock_last", "free"})
    BY <1>1, <1>2, Often DEF Calls
  <1> QED BY <1>1, <1>3, <1>4, <1>5, Loops, Often DEF Held, foo
-----------------------------------------------------------------------------
(* The steps.                                                              *)

\* A thread that runs is in a loop on some foo.
LEMMA Runs ==
  ASSUME TypeOK, NEW t \in Thread, loop[t] # 5
  PROVE  loop[t] \in 1..4 /\ foo(t) \in Foo /\ In(t, foo(t))
         /\ (IsHold(loop[t]) => loop[t] = foo(t)) /\ (~ IsHold(loop[t]) => loop[t] = foo(t) + 2)
  <1>1. loop[t] \in 1..4 BY DEF TypeOK
  <1> QED BY <1>1, Loops DEF foo, In

\* Counting the references of both threads is counting those of the one and the other.
LEMMA Both ==
  ASSUME TypeOK, Places, Counts, NEW f \in Foo
  PROVE  /\ \A t \in Thread : Held(t, f) \in Nat /\ Held(t, f) <= f_count[f]
         /\ f_count[f] = 0 <=> \A t \in Thread : Held(t, f) = 0
  <1>1. /\ Held("thr_fn1", f) \in Nat /\ Held("thr_fn2", f) \in Nat
        /\ f_count[f] = Held("thr_fn1", f) + Held("thr_fn2", f)
    BY HeldNat DEF Counts, Thread
  <1> QED BY <1>1 DEF Thread

\* At a count of 0, and with no late hold, a thread either frees the foo or is about to
\* begin a hold of it.
LEMMA Idle ==
  ASSUME IInv, NEW f \in Foo, f \notin late, f_count[f] = 0, NEW t \in Thread, In(t, f)
  PROVE  Held(t, f) = 0 /\ (Freer(t, f) \/ (pc[t] = "lock" /\ IsHold(loop[t])))
  <1> USE DEF IInv
  <1>1. Held(t, f) = 0 BY Both
  <1>2. loop[t] \in 1..4 /\ (IsHold(loop[t]) => loop[t] = f) /\ (~ IsHold(loop[t]) => loop[t] = f + 2)
    BY Runs DEF In
  <1>3. pc[t] \in {"lock", "load", "store", "unlock", "unlock_last", "free"} BY DEF TypeOK
  <1>4. CASE IsHold(loop[t])
    <2>1. pc[t] # "unlock" BY <1>1, <1>2, <1>4, HeldNat DEF Foo
    <2>2. pc[t] \notin {"load", "store"} BY <1>4 DEF Zero
    <2>3. pc[t] \notin {"unlock_last", "free"} BY <1>4 DEF Places
    <2> QED BY <1>1, <1>3, <1>4, <2>1, <2>2, <2>3
  <1>5. CASE ~ IsHold(loop[t])
    <2>1. pc[t] \notin {"lock", "load", "store"} BY <1>1, <1>2, <1>5, HeldNat
    <2>2. pc[t] # "unlock" BY <1>5 DEF Zero
    <2> QED BY <1>1, <1>3, <2>1, <2>2 DEF Freer
  <1> QED BY <1>4, <1>5

\* At the start no thread has done anything.
LEMMA InitIInv ==
  Init => IInv
  <1> SUFFICES ASSUME Init PROVE IInv OBVIOUS
  <1>1. TypeOK
    <2>1. /\ f_count \in [Foo -> Nat] /\ loop \in [Thread -> 1..5]
          /\ i \in [Thread -> Nat] /\ reg \in [Thread -> Nat]
      BY DEF Init
    <2>2. freed \in [Foo -> BOOLEAN] BY Zenon DEF Init
    <2>3. owner \in [Foo -> Thread \cup {NoOne}] /\ late \subseteq Foo /\ crashed \in BOOLEAN BY Zenon DEF Init
    <2>4. pc \in [Thread -> {"lock", "load", "store", "unlock", "unlock_last", "free"}] BY DEF Init
    <2> QED BY <2>1, <2>2, <2>3, <2>4 DEF TypeOK
  <1>2. Places
    <2>1. \A t \in Thread : Rounds(t, 1) = Holds[1] /\ Holds[1] \in Nat /\ Holds[1] > 0 BY Often DEF Foo
    <2> QED BY <2>1 DEF Init, Places
  <1>3. Mutex BY FooAssumption DEF Init, Mutex, Inside
  <1>4. Loaded BY DEF Init, Loaded
  <1>5. Counts
    <2>1. \A t \in Thread, f \in Foo : Held(t, f) = Extra(t)
      <3> TAKE t \in Thread, f \in Foo
      <3>1. loop[t] = 1 /\ i[t] = 0 /\ pc[t] # "unlock" BY DEF Init
      <3> QED BY <1>1, <3>1, HeldIs, Often
    <2> QED BY <2>1 DEF Counts, Extra, Init, Thread
  <1>6. Zero BY DEF Init, Zero, Freer
  <1>7. Crashed BY DEF Init, Crashed
  <1> QED BY <1>1, <1>2, <1>3, <1>4, <1>5, <1>6, <1>7 DEF IInv

\* A thread takes the mutex of an object that is not freed.
LEMMA LockStep ==
  ASSUME IInv, NEW t \in Thread, Lock(t)
  PROVE  IInv'
  <1> USE DEF IInv
  <1>0. loop[t] # 5 /\ pc[t] = "lock" /\ ~ freed[foo(t)] /\ ~ crashed BY DEF Lock, Running
  <1>1. foo(t) \in Foo /\ In(t, foo(t)) BY <1>0, Runs
  <1>2. /\ pc' = [pc EXCEPT ![t] = "load"] /\ pc'[t] = "load"
        /\ \A u \in Thread \ {t} : pc'[u] = pc[u]
    BY DEF Lock, Goto, TypeOK
  <1>3. TypeOK' BY <1>1, <1>2 DEF TypeOK, Lock
  <1>4. \A u \in Thread, f \in Foo : /\ In(u, f)' <=> In(u, f)
                                     /\ Freer(u, f)' <=> Freer(u, f)
    BY <1>0, <1>2 DEF Lock, In, foo, Freer
  <1>5. Places' BY <1>0, <1>2 DEF Places, Lock, Rounds
  <1>6. Mutex'
    <2> SUFFICES ASSUME NEW u \in Thread, NEW f \in Foo
                 PROVE  owner'[f] = u <=> In(u, f) /\ pc'[u] \in Inside
      BY <1>4 DEF Mutex
    <2>1. owner[foo(t)] = NoOne /\ owner' = [owner EXCEPT ![foo(t)] = t] BY DEF Lock
    <2>2. owner[f] = u <=> In(u, f) /\ pc[u] \in Inside BY DEF Mutex
    <2>3. CASE u = t
      <3>1. In(t, f) <=> f = foo(t) BY <1>0 DEF In
      <3>2. owner'[f] = t <=> f = foo(t)
        BY <1>0, <1>1, <2>1, <2>2, <2>3 DEF TypeOK, Inside
      <3> QED BY <1>2, <2>3, <3>1, <3>2 DEF Inside
    <2>4. CASE u # t
      <3>1. owner'[f] = u <=> owner[f] = u BY <1>1, <2>1, <2>4, FooAssumption DEF TypeOK
      <3> QED BY <1>2, <2>2, <2>4, <3>1
    <2> QED BY <2>3, <2>4
  <1>7. Loaded' BY <1>2 DEF Loaded, Lock, foo
  <1>8. Counts'
    <2>1. \A u \in Thread, f \in Foo : Held(u, f)' = Held(u, f)
      BY <1>0, <1>2, HeldSame, HeldMoves DEF Lock
    <2> QED BY <2>1 DEF Counts, Lock, Thread
  <1>9. Zero'
    <2> SUFFICES ASSUME NEW f \in Foo
                 PROVE  /\ f_count[f] = 0 => freed[f] \/ \E u \in Thread : Freer(u, f)
                        /\ \A u \in Thread : In(u, f) /\ pc'[u] = "unlock" /\ ~ IsHold(loop[u]) => f_count[f] # 0
                        /\ f \notin late' =>
                             /\ freed[f] => f_count[f] = 0
                             /\ \A u \in Thread :
                                  /\ Freer(u, f) => f_count[f] = 0 /\ ~ freed[f] /\ \A v \in Thread : Freer(v, f) => v = u
                                  /\ In(u, f) /\ pc'[u] \in {"load", "store"} /\ IsHold(loop[u]) => f_count[f] # 0
      BY <1>4 DEF Zero, Lock
    <2>1. f \notin late' => f \notin late /\ (foo(t) = f /\ IsHold(loop[t]) => f_count[f] # 0) BY DEF Lock
    <2>2. In(t, f) => foo(t) = f BY DEF In
    <2> QED BY <1>2, <2>1, <2>2 DEF Zero
  <1>10. Crashed' BY <1>0 DEF Crashed, Lock
  <1> QED BY <1>3, <1>5, <1>6, <1>7, <1>8, <1>9, <1>10

\* The count is loaded under the mutex.
LEMMA LoadStep ==
  ASSUME IInv, NEW t \in Thread, Load(t)
  PROVE  IInv'
  <1> USE DEF IInv
  <1>0. loop[t] # 5 /\ pc[t] = "load" /\ ~ freed[foo(t)] /\ ~ crashed BY DEF Load, Running
  <1>1. foo(t) \in Foo /\ In(t, foo(t)) BY <1>0, Runs
  <1>2. /\ pc' = [pc EXCEPT ![t] = "store"] /\ pc'[t] = "store"
        /\ \A u \in Thread \ {t} : pc'[u] = pc[u]
    BY DEF Load, Goto, TypeOK
  <1>3. TypeOK' BY <1>1, <1>2 DEF TypeOK, Load
  <1>4. \A u \in Thread, f \in Foo : /\ In(u, f)' <=> In(u, f)
                                     /\ Freer(u, f)' <=> Freer(u, f)
    BY <1>0, <1>2 DEF Load, In, foo, Freer
  <1>5. Places' BY <1>0, <1>2 DEF Places, Load, Rounds
  <1>6. Mutex' BY <1>0, <1>2, <1>4 DEF Mutex, Load, Inside
  <1>7. Loaded' BY <1>1, <1>2 DEF Loaded, Load, foo, TypeOK
  <1>8. Counts'
    <2>1. \A u \in Thread, f \in Foo : Held(u, f)' = Held(u, f)
      BY <1>0, <1>2, HeldSame, HeldMoves DEF Load
    <2> QED BY <2>1 DEF Counts, Load, Thread
  <1>9. Zero' BY <1>0, <1>2, <1>4 DEF Zero, Load
  <1>10. Crashed' BY <1>0 DEF Crashed, Load
  <1> QED BY <1>3, <1>5, <1>6, <1>7, <1>8, <1>9, <1>10

\* The store of foo_hold.
LEMMA HoldStep ==
  ASSUME IInv, NEW t \in Thread, Hold(t)
  PROVE  IInv'
  <1> USE DEF IInv
  <1>0. loop[t] # 5 /\ pc[t] = "store" /\ ~ freed[foo(t)] /\ ~ crashed /\ IsHold(loop[t])
    BY DEF Hold, Running
  <1>1. foo(t) \in Foo /\ In(t, foo(t)) BY <1>0, Runs
  <1>2. /\ pc' = [pc EXCEPT ![t] = "unlock"] /\ pc'[t] = "unlock"
        /\ \A u \in Thread \ {t} : pc'[u] = pc[u]
    BY DEF Hold, Goto, TypeOK
  <1>3. /\ f_count'[foo(t)] = f_count[foo(t)] + 1 /\ f_count[foo(t)] \in Nat
        /\ \A f \in Foo : f # foo(t) => f_count'[f] = f_count[f]
    BY <1>0, <1>1 DEF Hold, Loaded, TypeOK
  <1>4. TypeOK' BY <1>1, <1>2, <1>3 DEF TypeOK, Hold
  <1>5. \A u \in Thread, f \in Foo : /\ In(u, f)' <=> In(u, f)
                                     /\ Freer(u, f)' <=> Freer(u, f)
    BY <1>0, <1>2 DEF Hold, In, foo, Freer
  <1>6. Places' BY <1>0, <1>2 DEF Places, Hold, Rounds
  <1>7. Mutex' BY <1>0, <1>2, <1>5 DEF Mutex, Hold, Inside
  <1>8. \A u \in Thread \ {t} : In(u, foo(t)) => pc[u] \notin Inside
    BY <1>0, <1>1 DEF Mutex, Inside
  <1>9. Loaded'
    <2> SUFFICES ASSUME NEW u \in Thread, pc'[u] = "store" PROVE reg[u] = f_count'[foo(u)]
      BY DEF Loaded, Hold, foo
    <2>1. u # t /\ pc[u] = "store" BY <1>2
    <2>2. loop[u] # 5 BY <2>1 DEF Places
    <2>3. foo(u) \in Foo /\ foo(u) # foo(t) BY <1>8, <2>1, <2>2, Runs DEF Inside
    <2> QED BY <1>3, <2>1, <2>3 DEF Loaded
  <1>10. Counts'
    <2> SUFFICES ASSUME NEW f \in Foo
                 PROVE  f_count'[f] = Held("thr_fn1", f)' + Held("thr_fn2", f)'
      BY DEF Counts
    <2>1. \A u \in Thread \ {t} : Held(u, f)' = Held(u, f) BY <1>2, HeldSame DEF Hold
    <2>2. Held(t, f)' = IF foo(t) = f THEN Held(t, f) + 1 ELSE Held(t, f)
      BY <1>0, <1>2, HeldStores DEF Hold
    <2>3. /\ Held("thr_fn1", f) \in Nat /\ Held("thr_fn2", f) \in Nat
          /\ f_count[f] = Held("thr_fn1", f) + Held("thr_fn2", f)
      BY HeldNat DEF Counts, Thread
    <2> QED BY <1>3, <2>1, <2>2, <2>3 DEF Thread
  <1>11. Zero'
    <2> SUFFICES ASSUME NEW f \in Foo
                 PROVE  /\ f_count'[f] = 0 => freed[f] \/ \E u \in Thread : Freer(u, f)
                        /\ \A u \in Thread : In(u, f) /\ pc'[u] = "unlock" /\ ~ IsHold(loop[u]) => f_count'[f] # 0
                        /\ f \notin late =>
                             /\ freed[f] => f_count'[f] = 0
                             /\ \A u \in Thread :
                                  /\ Freer(u, f) => f_count'[f] = 0 /\ ~ freed[f] /\ \A v \in Thread : Freer(v, f) => v = u
                                  /\ In(u, f) /\ pc'[u] \in {"load", "store"} /\ IsHold(loop[u]) => f_count'[f] # 0
      BY <1>5 DEF Zero, Hold
    <2>1. CASE f = foo(t)
      <3>1. f_count'[f] # 0 BY <1>3, <2>1
      <3>2. f \notin late => \A u \in Thread : ~ Freer(u, f)
        BY <1>0, <1>1, <2>1 DEF Zero
      <3> QED BY <1>0, <2>1, <3>1, <3>2
    <2>2. CASE f # foo(t)
      <3>1. f_count'[f] = f_count[f] BY <1>3, <2>2
      <3>2. ~ In(t, f) BY <2>2 DEF In
      <3> QED BY <1>2, <3>1, <3>2 DEF Zero
    <2> QED BY <2>1, <2>2
  <1>12. Crashed' BY <1>0 DEF Crashed, Hold
  <1> QED BY <1>4, <1>6, <1>7, <1>9, <1>10, <1>11, <1>12

\* The store of foo_rele, the last one or not.
LEMMA ReleStep ==
  ASSUME IInv, NEW t \in Thread, Rele(t)
  PROVE  IInv'
  <1> USE DEF IInv
  <1> USE DEF Rele, DecrementTo
  <1>0. loop[t] # 5 /\ pc[t] = "store" /\ ~ freed[foo(t)] /\ ~ crashed /\ ~ IsHold(loop[t])
    BY DEF Running
  <1>1. foo(t) \in Foo /\ In(t, foo(t)) /\ loop[t] = foo(t) + 2 BY <1>0, Runs
  <1>2. f_count[foo(t)] \in Nat /\ f_count[foo(t)] > 0
    BY <1>0, <1>1, HeldNat, Both DEF TypeOK
  <1>3. /\ f_count'[foo(t)] = f_count[foo(t)] - 1
        /\ \A f \in Foo : f # foo(t) => f_count'[f] = f_count[f]
        /\ f_count' = [f_count EXCEPT ![foo(t)] = f_count[foo(t)] - 1]
    BY <1>0, <1>1, Zenon DEF Loaded, TypeOK
  <1>4. /\ pc'[t] = IF f_count'[foo(t)] = 0 THEN "unlock_last" ELSE "unlock"
        /\ pc' = [pc EXCEPT ![t] = pc'[t]]
        /\ \A u \in Thread \ {t} : pc'[u] = pc[u]
    BY <1>0, <1>3 DEF Goto, TypeOK, Loaded
  <1>5. TypeOK'
    <2>1. f_count' \in [Foo -> Nat] BY <1>1, <1>2, <1>3 DEF TypeOK
    <2> QED BY <1>4, <2>1 DEF TypeOK
  <1>6. /\ \A u \in Thread, f \in Foo : In(u, f)' <=> In(u, f)
        /\ \A u \in Thread, f \in Foo : u # t => (Freer(u, f)' <=> Freer(u, f))
        /\ \A f \in Foo : Freer(t, f)' <=> f = foo(t) /\ f_count'[f] = 0
    BY <1>0, <1>1, <1>4 DEF In, foo, Freer
  <1>7. Places' BY <1>0, <1>4 DEF Places, Rounds
  <1>8. Mutex' BY <1>0, <1>4, <1>6 DEF Mutex, Inside
  <1>9. \A u \in Thread \ {t} : In(u, foo(t)) => pc[u] \notin Inside
    BY <1>0, <1>1 DEF Mutex, Inside
  <1>10. Loaded'
    <2> SUFFICES ASSUME NEW u \in Thread, pc'[u] = "store" PROVE reg[u] = f_count'[foo(u)]
      BY DEF Loaded, foo
    <2>1. u # t /\ pc[u] = "store" BY <1>4
    <2>2. loop[u] # 5 BY <2>1 DEF Places
    <2>3. foo(u) \in Foo /\ foo(u) # foo(t) BY <1>9, <2>1, <2>2, Runs DEF Inside
    <2> QED BY <1>3, <2>1, <2>3 DEF Loaded
  <1>11. Counts'
    <2> SUFFICES ASSUME NEW f \in Foo
                 PROVE  f_count'[f] = Held("thr_fn1", f)' + Held("thr_fn2", f)'
      BY DEF Counts
    <2>1. \A u \in Thread \ {t} : Held(u, f)' = Held(u, f) BY <1>4, HeldSame
    <2>2. Held(t, f)' = IF foo(t) = f THEN Held(t, f) - 1 ELSE Held(t, f)
      BY <1>0, <1>4, HeldStores
    <2>3. /\ Held("thr_fn1", f) \in Nat /\ Held("thr_fn2", f) \in Nat
          /\ f_count[f] = Held("thr_fn1", f) + Held("thr_fn2", f)
      BY HeldNat DEF Counts, Thread
    <2> QED BY <1>3, <2>1, <2>2, <2>3 DEF Thread
  <1>12. Zero'
    <2> SUFFICES ASSUME NEW f \in Foo
                 PROVE  /\ f_count'[f] = 0 => freed[f] \/ \E u \in Thread : Freer(u, f)'
                        /\ \A u \in Thread : In(u, f) /\ pc'[u] = "unlock" /\ ~ IsHold(loop[u]) => f_count'[f] # 0
                        /\ f \notin late =>
                             /\ freed[f] => f_count'[f] = 0
                             /\ \A u \in Thread :
                                  /\ Freer(u, f)' => f_count'[f] = 0 /\ ~ freed[f] /\ \A v \in Thread : Freer(v, f)' => v = u
                                  /\ In(u, f) /\ pc'[u] \in {"load", "store"} /\ IsHold(loop[u]) => f_count'[f] # 0
      BY <1>6 DEF Zero
    <2>1. CASE f = foo(t)
      <3>1. f \notin late => \A u \in Thread \ {t} : ~ Freer(u, f)'
        BY <1>2, <1>6, <2>1 DEF Zero
      <3>2. \A u \in Thread \ {t} : In(u, f) => pc'[u] \notin {"load", "store", "unlock"}
        BY <1>4, <1>9, <2>1 DEF Inside
      <3>3. f_count'[f] = 0 => Freer(t, f)' BY <1>6, <2>1
      <3>4. Freer(t, f)' => f_count'[f] = 0 BY <1>6
      <3>5. pc'[t] = "unlock" => f_count'[f] # 0 BY <1>4, <2>1
      <3> QED BY <1>0, <2>1, <3>1, <3>2, <3>3, <3>4, <3>5
    <2>2. CASE f # foo(t)
      <3>1. f_count'[f] = f_count[f] BY <1>3, <2>2
      <3>2. ~ In(t, f) /\ ~ Freer(t, f) /\ ~ Freer(t, f)' BY <1>6, <2>2 DEF In, Freer
      <3>3. \A u \in Thread : Freer(u, f)' <=> Freer(u, f) BY <1>6, <3>2
      <3> QED BY <1>4, <3>1, <3>2, <3>3, Zenon DEF Zero
    <2> QED BY <2>1, <2>2
  <1>13. Crashed' BY <1>0 DEF Crashed
  <1> QED BY <1>5, <1>7, <1>8, <1>10, <1>11, <1>12, <1>13

\* What the return of a call changes, and that it moves no references.
LEMMA Returns ==
  ASSUME TypeOK, Places, NEW t \in Thread, loop[t] # 5, pc[t] \in {"unlock", "free"}, Return(t)
  PROVE  /\ pc' = [pc EXCEPT ![t] = "lock"] /\ pc'[t] = "lock"
         /\ loop' \in [Thread -> 1..5] /\ i' \in [Thread -> Nat]
         /\ \A u \in Thread \ {t} : pc'[u] = pc[u] /\ loop'[u] = loop[u] /\ i'[u] = i[u]
         /\ \A u \in Thread, f \in Foo : Held(u, f)' = Held(u, f)
         /\ Places'
  <1>1. loop[t] \in 1..4 /\ i[t] \in Nat BY DEF TypeOK
  <1>2. \A k \in 1..4 : Rounds(t, k) \in Nat /\ Rounds(t, k) > 0
    <2> TAKE k \in 1..4
    <2>1. PICK f \in Foo : k = f \/ k = f + 2 BY Loops
    <2> QED BY <2>1, Often
  <1>3. i[t] < Rounds(t, loop[t]) BY DEF Places
  <1>4. /\ pc' = [pc EXCEPT ![t] = "lock"] /\ pc'[t] = "lock"
        /\ \A u \in Thread \ {t} : pc'[u] = pc[u]
    BY DEF Return, Goto, TypeOK
  <1>5. \/ i[t] + 1 < Rounds(t, loop[t]) /\ i'[t] = i[t] + 1 /\ loop'[t] = loop[t]
        \/ i[t] + 1 = Rounds(t, loop[t]) /\ i'[t] = 0 /\ loop'[t] = loop[t] + 1
    BY <1>1, <1>2, <1>3 DEF Return, TypeOK
  <1>6. /\ loop' \in [Thread -> 1..5] /\ i' \in [Thread -> Nat]
        /\ \A u \in Thread \ {t} : loop'[u] = loop[u] /\ i'[u] = i[u]
    BY <1>1 DEF Return, TypeOK
  <1>7. \A u \in Thread, f \in Foo : Held(u, f)' = Held(u, f)
    <2> TAKE u \in Thread, f \in Foo
    <2>1. CASE u = t BY <1>4, <1>5, <2>1, HeldReturns
    <2>2. CASE u # t BY <1>4, <1>6, <2>2, HeldSame
    <2> QED BY <2>1, <2>2
  <1>8. Places'
    <2> SUFFICES ASSUME NEW u \in Thread
                 PROVE  /\ loop'[u] = 5 => pc'[u] = "lock" /\ i'[u] = 0
                        /\ loop'[u] # 5 => i'[u] < Rounds(u, loop'[u])
                        /\ pc'[u] \in {"unlock_last", "free"} => ~ IsHold(loop'[u])
      BY DEF Places, Rounds
    <2>1. CASE u = t BY <1>1, <1>2, <1>4, <1>5, <2>1
    <2>2. CASE u # t BY <1>4, <1>6, <2>2 DEF Places
    <2> QED BY <2>1, <2>2
  <1> QED BY <1>4, <1>6, <1>7, <1>8

\* A thread releases the mutex and returns, or goes on to free the object.
LEMMA UnlockStep ==
  ASSUME IInv, NEW t \in Thread, Unlock(t)
  PROVE  IInv'
  <1> USE DEF IInv
  <1>0. /\ loop[t] # 5 /\ pc[t] \in {"unlock", "unlock_last"} /\ ~ freed[foo(t)] /\ ~ crashed
        /\ owner' = [owner EXCEPT ![foo(t)] = NoOne]
        /\ UNCHANGED <<f_count, freed, reg, late, crashed>>
    BY DEF Unlock, Running
  <1>1. foo(t) \in Foo /\ In(t, foo(t)) BY <1>0, Runs
  <1>2. /\ pc'[t] = IF pc[t] = "unlock_last" THEN "free" ELSE "lock"
        /\ pc' = [pc EXCEPT ![t] = pc'[t]]
        /\ loop' \in [Thread -> 1..5] /\ i' \in [Thread -> Nat]
        /\ \A u \in Thread \ {t} : pc'[u] = pc[u] /\ loop'[u] = loop[u] /\ i'[u] = i[u]
        /\ \A u \in Thread, f \in Foo : Held(u, f)' = Held(u, f)
        /\ Places'
        /\ pc[t] = "unlock_last" => loop' = loop
    <2>1. CASE pc[t] = "unlock"
      <3>1. Return(t) BY <2>1 DEF Unlock
      <3> QED BY <1>0, <2>1, <3>1, Returns
    <2>2. CASE pc[t] = "unlock_last"
      <3>1. /\ pc' = [pc EXCEPT ![t] = "free"] /\ pc'[t] = "free" /\ loop' = loop /\ i' = i
            /\ \A u \in Thread \ {t} : pc'[u] = pc[u]
        BY <2>2 DEF Unlock, Goto, TypeOK
      <3>2. \A u \in Thread, f \in Foo : Held(u, f)' = Held(u, f)
        BY <2>2, <3>1, HeldSame, HeldMoves
      <3>3. Places' BY <1>0, <2>2, <3>1 DEF Places, Rounds
      <3> QED BY <2>2, <3>1, <3>2, <3>3 DEF TypeOK
    <2> QED BY <1>0, <2>1, <2>2
  <1>3. TypeOK' BY <1>0, <1>1, <1>2 DEF TypeOK
  <1>4. /\ \A u \in Thread, f \in Foo : u # t => (In(u, f)' <=> In(u, f)) /\ (Freer(u, f)' <=> Freer(u, f))
        /\ \A f \in Foo : Freer(t, f)' <=> Freer(t, f)
        /\ pc'[t] \notin Inside
    BY <1>0, <1>2 DEF In, foo, Freer, Inside
  <1>5. Mutex'
    <2> SUFFICES ASSUME NEW u \in Thread, NEW f \in Foo
                 PROVE  owner'[f] = u <=> In(u, f)' /\ pc'[u] \in Inside
      BY DEF Mutex
    <2>1. owner[f] = u <=> In(u, f) /\ pc[u] \in Inside BY DEF Mutex
    <2>2. owner[foo(t)] = t BY <1>0, <1>1 DEF Mutex, Inside
    <2>3. NoOne # u BY FooAssumption
    <2>4. owner'[f] = u <=> owner[f] = u /\ f # foo(t) BY <1>0, <1>1, <2>3 DEF TypeOK
    <2>5. CASE u = t
      <3>1. In(t, f) => f = foo(t) BY DEF In
      <3> QED BY <1>4, <2>1, <2>4, <2>5, <3>1
    <2>6. CASE u # t
      <3>1. owner[f] = u => f # foo(t) BY <2>2, <2>6
      <3> QED BY <1>2, <1>4, <2>1, <2>4, <2>6, <3>1
    <2> QED BY <2>5, <2>6
  <1>6. Loaded'
    <2> SUFFICES ASSUME NEW u \in Thread, pc'[u] = "store" PROVE reg'[u] = f_count'[foo(u)']
      BY DEF Loaded
    <2>1. u # t BY <1>2
    <2> QED BY <1>0, <1>2, <2>1 DEF Loaded, foo
  <1>7. Counts' BY <1>0, <1>2 DEF Counts, Thread
  <1>8. Zero'
    <2>0. /\ freed' = freed /\ f_count' = f_count /\ late' = late
          /\ \A u \in Thread, f \in Foo : Freer(u, f)' <=> Freer(u, f)
      BY <1>0, <1>4
    <2>1. \A u \in Thread, f \in Foo :
            In(u, f)' /\ pc'[u] \in {"unlock", "load", "store"} =>
              In(u, f) /\ pc[u] = pc'[u] /\ loop[u] = loop'[u]
      <3>1. pc'[t] \notin {"unlock", "load", "store"} BY <1>2, SMTT(20)
      <3> QED BY <1>2, <1>4, <3>1
    <2> SUFFICES ASSUME NEW f \in Foo
                 PROVE  /\ f_count'[f] = 0 => freed'[f] \/ \E u \in Thread : Freer(u, f)'
                        /\ \A u \in Thread : In(u, f)' /\ pc'[u] = "unlock" /\ ~ IsHold(loop'[u]) => f_count'[f] # 0
                        /\ f \notin late' =>
                             /\ freed'[f] => f_count'[f] = 0
                             /\ \A u \in Thread :
                                  /\ Freer(u, f)' => f_count'[f] = 0 /\ ~ freed'[f] /\ \A v \in Thread : Freer(v, f)' => v = u
                                  /\ In(u, f)' /\ pc'[u] \in {"load", "store"} /\ IsHold(loop'[u]) => f_count'[f] # 0
      BY DEF Zero
    <2>2. f_count'[f] = 0 => freed'[f] \/ \E u \in Thread : Freer(u, f)' BY <2>0 DEF Zero
    <2>3. \A u \in Thread : In(u, f)' /\ pc'[u] = "unlock" /\ ~ IsHold(loop'[u]) => f_count'[f] # 0
      BY <2>0, <2>1 DEF Zero
    <2>4. f \notin late' => /\ freed'[f] => f_count'[f] = 0
                           /\ \A u \in Thread : Freer(u, f)' =>
                                f_count'[f] = 0 /\ ~ freed'[f] /\ \A v \in Thread : Freer(v, f)' => v = u
      BY <2>0 DEF Zero
    <2>5. f \notin late' => \A u \in Thread :
            In(u, f)' /\ pc'[u] \in {"load", "store"} /\ IsHold(loop'[u]) => f_count'[f] # 0
      BY <2>0, <2>1 DEF Zero
    <2> QED BY <2>2, <2>3, <2>4, <2>5
  <1>9. Crashed' BY <1>0 DEF Crashed
  <1> QED BY <1>2, <1>3, <1>5, <1>6, <1>7, <1>8, <1>9

\* The object is freed.
LEMMA FreeStep ==
  ASSUME IInv, NEW t \in Thread, Free(t)
  PROVE  IInv'
  <1> USE DEF IInv
  <1>0. /\ loop[t] # 5 /\ pc[t] = "free" /\ ~ freed[foo(t)] /\ ~ crashed
        /\ freed' = [freed EXCEPT ![foo(t)] = TRUE]
        /\ crashed' = (owner[foo(t)] # NoOne) /\ Return(t)
        /\ UNCHANGED <<f_count, owner, reg, late>>
    BY DEF Free, Running
  <1>1. foo(t) \in Foo /\ In(t, foo(t)) /\ Freer(t, foo(t)) BY <1>0, Runs DEF Freer
  <1>2. /\ pc' = [pc EXCEPT ![t] = "lock"] /\ pc'[t] = "lock"
        /\ loop' \in [Thread -> 1..5] /\ i' \in [Thread -> Nat]
        /\ \A u \in Thread \ {t} : pc'[u] = pc[u] /\ loop'[u] = loop[u] /\ i'[u] = i[u]
        /\ \A u \in Thread, f \in Foo : Held(u, f)' = Held(u, f)
        /\ Places'
    BY <1>0, Returns
  <1>3. /\ \A f \in Foo : freed'[f] <=> freed[f] \/ f = foo(t)
        /\ freed' \in [Foo -> BOOLEAN]
    BY <1>0, <1>1 DEF TypeOK
  <1>4. TypeOK'
    <2>1. crashed' \in BOOLEAN BY <1>0
    <2> QED BY <1>0, <1>1, <1>2, <1>3, <2>1 DEF TypeOK
  <1>5. /\ \A u \in Thread, f \in Foo : u # t => (In(u, f)' <=> In(u, f)) /\ (Freer(u, f)' <=> Freer(u, f))
        /\ \A f \in Foo : ~ Freer(t, f)'
        /\ \A f \in Foo : Freer(t, f) => f = foo(t)
    BY <1>0, <1>2 DEF In, foo, Freer
  <1>6. Mutex'
    <2> SUFFICES ASSUME NEW u \in Thread, NEW f \in Foo
                 PROVE  owner[f] = u <=> In(u, f)' /\ pc'[u] \in Inside
      BY <1>0 DEF Mutex
    <2>1. pc[t] \notin Inside /\ pc'[t] \notin Inside BY <1>0, <1>2 DEF Inside
    <2> QED BY <1>2, <1>5, <2>1 DEF Mutex
  <1>7. Loaded'
    <2> SUFFICES ASSUME NEW u \in Thread, pc'[u] = "store" PROVE reg'[u] = f_count'[foo(u)']
      BY DEF Loaded
    <2>1. u # t BY <1>2
    <2> QED BY <1>0, <1>2, <2>1 DEF Loaded, foo
  <1>8. Counts' BY <1>0, <1>2 DEF Counts, Thread
  <1>9. Zero'
    <2> SUFFICES ASSUME NEW f \in Foo
                 PROVE  /\ f_count[f] = 0 => freed'[f] \/ \E u \in Thread : Freer(u, f)'
                        /\ \A u \in Thread : In(u, f)' /\ pc'[u] = "unlock" /\ ~ IsHold(loop'[u]) => f_count[f] # 0
                        /\ f \notin late =>
                             /\ freed'[f] => f_count[f] = 0
                             /\ \A u \in Thread :
                                  /\ Freer(u, f)' => f_count[f] = 0 /\ ~ freed'[f] /\ \A v \in Thread : Freer(v, f)' => v = u
                                  /\ In(u, f)' /\ pc'[u] \in {"load", "store"} /\ IsHold(loop'[u]) => f_count[f] # 0
      BY <1>0 DEF Zero
    <2>1. f_count[f] = 0 => freed'[f] \/ \E u \in Thread : Freer(u, f)'
      <3> SUFFICES ASSUME f_count[f] = 0, f # foo(t), ~ freed[f] PROVE \E u \in Thread : Freer(u, f)'
        BY <1>3
      <3>1. PICK u \in Thread : Freer(u, f) BY DEF Zero
      <3> QED BY <1>5, <3>1
    <2>2. \A u \in Thread : In(u, f)' /\ pc'[u] = "unlock" /\ ~ IsHold(loop'[u]) => f_count[f] # 0
      BY <1>2, <1>5 DEF Zero
    <2>3. ASSUME f \notin late
          PROVE  /\ freed'[f] => f_count[f] = 0
                 /\ \A u \in Thread :
                      /\ Freer(u, f)' => f_count[f] = 0 /\ ~ freed'[f] /\ \A v \in Thread : Freer(v, f)' => v = u
                      /\ In(u, f)' /\ pc'[u] \in {"load", "store"} /\ IsHold(loop'[u]) => f_count[f] # 0
      <3>1. freed'[f] => f_count[f] = 0 BY <1>1, <1>3, <2>3 DEF Zero
      <3>2. ASSUME NEW u \in Thread, Freer(u, f)'
            PROVE  f_count[f] = 0 /\ ~ freed'[f] /\ \A v \in Thread : Freer(v, f)' => v = u
        <4>1. u # t /\ Freer(u, f) BY <1>5, <3>2
        <4>2. f # foo(t) BY <1>1, <2>3, <4>1 DEF Zero
        <4>3. f_count[f] = 0 /\ ~ freed[f] /\ \A v \in Thread : Freer(v, f) => v = u
          BY <2>3, <4>1 DEF Zero
        <4> QED BY <1>3, <1>5, <4>2, <4>3
      <3>3. \A u \in Thread : In(u, f)' /\ pc'[u] \in {"load", "store"} /\ IsHold(loop'[u]) => f_count[f] # 0
        BY <1>2, <1>5, <2>3 DEF Zero
      <3> QED BY <3>1, <3>2, <3>3
    <2> QED BY <2>1, <2>2, <2>3
  <1>10. Crashed'
    <2> SUFFICES ASSUME owner[foo(t)] # NoOne PROVE foo(t) \in late
      BY <1>0, <1>1, <1>3, Zenon DEF Crashed
    <2>1. PICK u \in Thread : owner[foo(t)] = u BY <1>1 DEF TypeOK
    <2>2. In(u, foo(t)) /\ pc[u] \in Inside BY <1>1, <2>1 DEF Mutex
    <2>3. u # t BY <1>0, <2>2 DEF Inside
    <2>4. ASSUME foo(t) \notin late PROVE FALSE
      <3>1. f_count[foo(t)] = 0 /\ ~ Freer(u, foo(t)) BY <1>1, <2>3, <2>4 DEF Zero
      <3> QED BY <1>1, <2>2, <2>4, <3>1, Idle DEF Inside
    <2> QED BY <2>4
  <1> QED BY <1>2, <1>4, <1>6, <1>7, <1>8, <1>9, <1>10

\* Nothing but crashed changes.
LEMMA Stays ==
  ASSUME IInv, UNCHANGED <<f_count, owner, freed, pc, loop, i, reg, late>>, crashed' \in BOOLEAN
  PROVE  /\ (TypeOK /\ Places /\ Mutex /\ Loaded /\ Counts /\ Zero)'
         /\ Crashed' <=> (crashed' => \E f \in Foo : freed[f] /\ (f \in late \/ \E t \in Thread :
                            In(t, f) /\ IsHold(loop[t]) /\ pc[t] = "lock" /\ Held(t, f) = 0))
  <1> USE DEF IInv
  <1>1. \A t \in Thread, f \in Foo : Held(t, f)' = Held(t, f) BY HeldSame
  <1>2. \A t \in Thread, f \in Foo : (In(t, f)' <=> In(t, f)) /\ (Freer(t, f)' <=> Freer(t, f))
    BY DEF In, Freer, foo
  <1>3. TypeOK' BY DEF TypeOK
  <1>4. Places' BY DEF Places, Rounds
  <1>5. Mutex' BY <1>2 DEF Mutex
  <1>6. Loaded' BY DEF Loaded, foo
  <1>7. Counts' BY <1>1 DEF Counts, Thread
  <1>8. Zero' BY <1>2 DEF Zero
  <1>9. Crashed' <=> (crashed' => \E f \in Foo : freed[f] /\ (f \in late \/ \E t \in Thread :
                        In(t, f) /\ IsHold(loop[t]) /\ pc[t] = "lock" /\ Held(t, f) = 0))
    BY <1>1, <1>2 DEF Crashed
  <1> QED BY <1>3, <1>4, <1>5, <1>6, <1>7, <1>8, <1>9

\* A thread touches an object that is freed.
LEMMA CrashStep ==
  ASSUME IInv, NEW t \in Thread, Crash(t)
  PROVE  IInv'
  <1>1. loop[t] # 5 /\ freed[foo(t)] /\ crashed' = TRUE BY DEF Crash, Running
  <1>2. foo(t) \in Foo /\ In(t, foo(t)) BY <1>1, Runs DEF IInv
  <1>3. foo(t) \in late \/ (IsHold(loop[t]) /\ pc[t] = "lock" /\ Held(t, foo(t)) = 0)
    <2> SUFFICES ASSUME foo(t) \notin late PROVE IsHold(loop[t]) /\ pc[t] = "lock" /\ Held(t, foo(t)) = 0
      OBVIOUS
    <2>1. f_count[foo(t)] = 0 /\ ~ Freer(t, foo(t)) BY <1>1, <1>2 DEF IInv, Zero
    <2> QED BY <1>2, <2>1, Idle
  <1> QED BY <1>1, <1>2, <1>3, Stays DEF Crash, IInv

\* Every step keeps the invariant.
LEMMA StepIInv ==
  IInv /\ [Next]_vars => IInv'
  <1> SUFFICES ASSUME IInv, [Next]_vars PROVE IInv' OBVIOUS
  <1>1. ASSUME NEW t \in Thread, Step(t) PROVE IInv'
    BY <1>1, LockStep, LoadStep, HoldStep, ReleStep, UnlockStep, FreeStep, CrashStep, SMTT(20) DEF Step
  <1>2. CASE UNCHANGED vars
    <2>1. UNCHANGED <<f_count, owner, freed, pc, loop, i, reg, late>> /\ crashed' = crashed
      BY <1>2 DEF vars
    <2>2. crashed' \in BOOLEAN BY <2>1 DEF IInv, TypeOK
    <2> QED BY <2>1, <2>2, Stays DEF IInv, Crashed
  <1> QED BY <1>1, <1>2 DEF Next, Over
-----------------------------------------------------------------------------
(* The theorems.                                                           *)

\* The inductive invariant holds in every state.
THEOREM Invariance == Spec => []IInv
  BY InitIInv, StepIInv, PTL DEF Spec

\* f_count, kept by foo_hold and foo_rele under f_lock, is the number of references
\* the two threads have, however often each of them holds the objects.
THEOREM CountCorrect == Spec => []CountsReferences
  <1>1. IInv => CountsReferences BY DEF IInv, Counts, CountsReferences
  <1> QED BY <1>1, Invariance, PTL

\* foo_rele frees nothing in use, freed memory is accessed only by way of a late
\* foo_hold, and at the end of main both objects are freed.
THEOREM LifetimeCorrect == Spec => []Lifetime
  <1>1. ASSUME IInv PROVE Lifetime
    <2> USE <1>1 DEF IInv
    <2>1. ASSUME NEW f \in Foo \ late, freed[f], NEW t \in Thread
          PROVE  Held(t, f) = 0 /\ (loop[t] # 5 /\ foo(t) = f => pc[t] = "lock" /\ IsHold(loop[t]))
      <3>1. f_count[f] = 0 /\ ~ Freer(t, f) BY <2>1, Zenon DEF Zero
      <3>2. Held(t, f) = 0 BY <3>1, <2>1, Both
      <3>3. In(t, f) => pc[t] = "lock" /\ IsHold(loop[t]) BY <2>1, <3>1, Idle
      <3> QED BY <3>2, <3>3 DEF In
    <2>2. ASSUME Joined, NEW f \in Foo PROVE freed[f]
      <3>1. \A t \in Thread : loop[t] = 5 BY <2>2 DEF Joined
      <3>2. \A t \in Thread : Held(t, f) = 0 BY <3>1, HeldNat
      <3>3. f_count[f] = 0 BY <3>2, Both
      <3>4. \A t \in Thread : ~ Freer(t, f) BY <3>1 DEF Freer, In
      <3> QED BY <3>3, <3>4 DEF Zero
    <2>3. crashed => \E f \in Foo : freed[f] /\ (f \in late \/ \E t \in Thread :
            loop[t] # 5 /\ foo(t) = f /\ IsHold(loop[t]) /\ pc[t] = "lock" /\ Held(t, f) = 0)
      BY DEF Crashed, In
    <2> QED BY <2>1, <2>2, <2>3 DEF Lifetime
  <1> QED BY <1>1, Invariance, PTL

\* The only foo_hold that can find a count of 0 is the first one of thr_fn1 on the
\* object, after thr_fn2 has given back its last reference.
THEOREM LateCorrect == Spec => LateIsFirstHold
  <1> DEFINE A == \A f \in late' \ late :
                    /\ loop["thr_fn1"] = f /\ i["thr_fn1"] = 0
                    /\ Held("thr_fn2", f) = 0 /\ loop["thr_fn2"] >= f + 2
  <1>1. ASSUME IInv, [Next]_vars PROVE [A]_vars
    <2> USE <1>1 DEF IInv
    <2> SUFFICES ASSUME NEW f \in late' \ late
                 PROVE  /\ loop["thr_fn1"] = f /\ i["thr_fn1"] = 0
                        /\ Held("thr_fn2", f) = 0 /\ loop["thr_fn2"] >= f + 2
      OBVIOUS
    <2>1. PICK t \in Thread : Lock(t)
      BY DEF Next, Step, Over, vars, Load, Hold, Rele, DecrementTo, Unlock, Free, Crash
    <2>2. f = foo(t) /\ IsHold(loop[t]) /\ f_count[f] = 0 /\ loop[t] # 5 BY <2>1 DEF Lock, Running
    <2>3. f \in 1..2 /\ f \in Foo /\ loop[t] = f BY <2>2, Runs DEF Foo
    <2>4. \A u \in Thread : Held(u, f) = 0 BY <2>2, <2>3, Both
    <2>5. t = "thr_fn1" /\ i[t] = 0 BY <2>3, <2>4, HeldNat
    <2>6. loop["thr_fn2"] \in 1..5 /\ "thr_fn2" \in Thread BY DEF TypeOK, Thread
    <2>7. ~ (loop["thr_fn2"] < f + 2) BY <2>3, <2>4, <2>6, HeldNat
    <2> QED BY <2>3, <2>4, <2>5, <2>6, <2>7
  <1> QED BY <1>1, Invariance, PTL DEF Spec, LateIsFirstHold
=============================================================================
