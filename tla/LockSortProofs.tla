--------------------------- MODULE LockSortProofs ---------------------------
(***************************************************************************)
(* Proofs about deadlock.c and race_cond.c, for any number of runs in a    *)
(* directory and any number of characters; then about barrier_sort.c, for  *)
(* any number of threads, size of a slice and numbers.  The programs have  *)
(* nothing in common but that the order of several actors decides what     *)
(* they do; neither part uses the other.                                   *)
(***************************************************************************)
EXTENDS LockDeadlock, BarrierSort, FiniteSetTheorems, TLAPS

\* Has p yet to tell its peer?  Who waits for a letter at all?  And who has read it?
Before(p) == \/ pc[p] \in {"lock_first", "tell"} \/ waits[p] = First(p)
             \/ prog = "race_cond" /\ pc[p] = "print" /\ ~ IsParent(p)
Hears(p)  == prog = "deadlock" \/ IsParent(p)
Later(p)  == prog = "deadlock" /\ (pc[p] \in {"lock_second", "return"} \/ waits[p] = Second(p))

\* Where the processes of the two programs can be.
Places == \A p \in Process :
  /\ prog = "deadlock" => pc[p] # "print" /\ printed[p] = 0
  /\ prog = "race_cond" /\ IsParent(p) => pc[p] \in {"wait", "print", "return", "ended"}
  /\ prog = "race_cond" /\ ~ IsParent(p) => pc[p] \in {"print", "tell", "return", "ended"}

\* Whose the bytes are: the first one is p's from its lock to its end, and the second
\* one is p's before it returns.
Owns == \A p \in Process :
  /\ \A b \in Byte : owner[b] = p =>
       /\ pc[p] \notin {"ended", "lock_first"} /\ waits[p] # First(p)
       /\ b = Second(p) => pc[p] = "return"
  /\ prog = "deadlock" /\ (pc[p] \in {"tell", "wait"} \/ Later(p)) => owner[First(p)] = p
Unowned == prog = "race_cond" => \A b \in Byte : owner[b] = None

\* fcntl lets no two processes wait for each other's byte.
NoCircle == \A p, q \in Process :
  waits[p] # -1 /\ waits[q] # -1 /\ owner[waits[p]] = q => owner[waits[q]] # p

\* A letter is in the pipe, or was read, once its writer has told; one that told and
\* whose letter is gone was read.
Letters == \A p \in Process :
  /\ pipe[p] = <<>> \/ pipe[p] = <<Letter(Peer(p))>>
  /\ pipe[p] # <<>> => Hears(p)
  /\ pipe[p] # <<>> \/ Later(p) => ~ Before(Peer(p))
Told == \A p \in Process :
  Hears(p) /\ (Before(p) \/ pc[p] = "wait") /\ pipe[p] = <<>> /\ ~ Before(Peer(p)) => how[Peer(p)] = "fault"

\* How the two processes of a run end.
HowEnded == \A p \in Process :
  /\ how[p] # "wrong_letter"
  /\ prog = "race_cond" => how[p] # "EDEADLK"
  /\ prog = "deadlock" /\ (pc[p] = "return" \/ how[p] = "done") => how[Peer(p)] \in {"EDEADLK", "fault"}
  /\ how[p] = "EDEADLK" => \/ waits[Peer(p)] = Second(Peer(p)) \/ pc[Peer(p)] = "return"
                           \/ how[Peer(p)] \in {"done", "fault"}

\* race_cond: the child tells when it has printed all, and the parent prints then.
Prints == \A p \in Process :
  /\ pc[p] = "print" => printed[p] < Chars
  /\ pc[p] = "wait" => printed[p] = 0
  /\ prog = "race_cond" /\ ~ IsParent(p) /\ pc[p] \in {"tell", "return"} => printed[p] = Chars
  /\ prog = "race_cond" /\ IsParent(p) /\ (pipe[p] # <<>> \/ pc[p] \in {"print", "return"} \/ printed[p] > 0) =>
       printed[Peer(p)] = Chars

IInv == TypeOK /\ Places /\ Owns /\ Unowned /\ NoCircle /\ Letters /\ Told /\ HowEnded /\ Prints
-----------------------------------------------------------------------------
\* A process, its peer and their bytes.
LEMMA PeerFacts ==
  /\ \A p \in Process : /\ Peer(p) \in Process /\ Peer(p) # p /\ Peer(Peer(p)) = p
                        /\ IsParent(Peer(p)) <=> ~ IsParent(p)
                        /\ Peer(p)[1] = p[1]
  /\ \A p, q \in Process : p[1] = q[1] => q = p \/ q = Peer(p)
<1> SUFFICES ASSUME NEW p \in Process
             PROVE  /\ Peer(p) \in Process /\ Peer(p) # p /\ Peer(Peer(p)) = p
                    /\ IsParent(Peer(p)) <=> ~ IsParent(p)
                    /\ Peer(p)[1] = p[1]
                    /\ \A q \in Process : p[1] = q[1] => q = p \/ q = Peer(p)
  OBVIOUS
<1>1. p[1] \in Run /\ p[2] \in {"parent", "child"} /\ p = <<p[1], p[2]>> BY DEF Process
<1>2. CASE p[2] = "parent"
  <2>1. Peer(p) = <<p[1], "child">> BY <1>2 DEF Peer, IsParent
  <2>2. Peer(Peer(p)) = <<p[1], "parent">> BY <2>1 DEF Peer, IsParent
  <2>3. \A q \in Process : p[1] = q[1] => q = p \/ q = Peer(p) BY <1>1, <1>2, <2>1 DEF Process
  <2> QED BY <1>1, <1>2, <2>1, <2>2, <2>3 DEF Process, IsParent
<1>3. CASE p[2] = "child"
  <2>1. Peer(p) = <<p[1], "parent">> BY <1>3 DEF Peer, IsParent
  <2>2. Peer(Peer(p)) = <<p[1], "child">> BY <2>1 DEF Peer, IsParent
  <2>3. \A q \in Process : p[1] = q[1] => q = p \/ q = Peer(p) BY <1>1, <1>3, <2>1 DEF Process
  <2> QED BY <1>1, <1>3, <2>1, <2>2, <2>3 DEF Process, IsParent
<1> QED BY <1>1, <1>2, <1>3

\* The two processes of a run lock the same two bytes in opposite order.
LEMMA ByteFacts == \A p \in Process :
  /\ First(p) \in Byte /\ Second(p) \in Byte /\ First(p) # Second(p) /\ Byte = {First(p), Second(p)}
  /\ First(Peer(p)) = Second(p) /\ Second(Peer(p)) = First(p)
  /\ First(p) # -1 /\ Second(p) # -1
<1> SUFFICES ASSUME NEW p \in Process
             PROVE  /\ First(p) \in Byte /\ Second(p) \in Byte /\ First(p) # Second(p) /\ Byte = {First(p), Second(p)}
                    /\ First(Peer(p)) = Second(p) /\ Second(Peer(p)) = First(p)
                    /\ First(p) # -1 /\ Second(p) # -1
  OBVIOUS
<1>1. IsParent(Peer(p)) <=> ~ IsParent(p) BY PeerFacts
<1>2. CASE IsParent(p)
  <2>1. First(p) = 1 /\ First(Peer(p)) = 0 BY <1>1, <1>2 DEF First
  <2> QED BY <2>1 DEF Second, Byte
<1>3. CASE ~ IsParent(p)
  <2>1. First(p) = 0 /\ First(Peer(p)) = 1 BY <1>1, <1>3 DEF First
  <2> QED BY <2>1 DEF Second, Byte
<1> QED BY <1>2, <1>3

\* The letters of tell and wait.
LEMMA LetterFacts == \A p \in Process : Letter(p) \in {"p", "c"}
BY DEF Letter

\* Nothing has happened yet.
LEMMA InitIInv == Init => IInv
<1> SUFFICES ASSUME Init PROVE IInv
  OBVIOUS
<1> USE PeerFacts, ByteFacts, LockAssumption
<1>1. TypeOK BY DEF Init, TypeOK
<1>2. \A p \in Process : /\ waits[p] = -1 /\ pipe[p] = <<>> /\ printed[p] = 0 /\ how[p] = "running"
                         /\ prog = "deadlock" => pc[p] = "lock_first"
                         /\ prog = "race_cond" /\ IsParent(p) => pc[p] = "wait"
                         /\ prog = "race_cond" /\ ~ IsParent(p) => pc[p] = "print"
  BY DEF Init
<1>3. prog \in {"deadlock", "race_cond"} /\ \A b \in Byte : owner[b] = None BY DEF Init
<1>4. Places BY <1>2, <1>3 DEF Places
<1>5. Owns /\ Unowned BY <1>2, <1>3 DEF Owns, Unowned, Later
<1>6. NoCircle BY <1>2 DEF NoCircle
<1>7. Letters BY <1>2, <1>3 DEF Letters, Later
<1>8. Told BY <1>2, <1>3 DEF Told, Before, Hears
<1>9. HowEnded BY <1>2, <1>3 DEF HowEnded
<1>10. Prints BY <1>2, <1>3 DEF Prints
<1> QED BY <1>1, <1>4, <1>5, <1>6, <1>7, <1>8, <1>9, <1>10 DEF IInv

\* A lock is granted: the first byte to one that had none, the second when the peer
\* has given it up.
LEMMA GrantedIInv ==
  ASSUME IInv, NEW p \in Process, LockGranted(p)
  PROVE  IInv'
<1> USE PeerFacts, ByteFacts, LockAssumption
<1>0. /\ prog = "deadlock" /\ pc[p] \in {"lock_first", "lock_second", "blocked"} /\ how[p] = "running"
  BY Zenon DEF LockGranted, IInv, TypeOK, Places
<1>1. PICK b \in Byte : /\ b = Want(p)
                        /\ b = First(p) => pc[p] = "lock_first" \/ waits[p] = First(p)
                        /\ b = Second(p) => pc[p] = "lock_second" \/ waits[p] = Second(p)
  BY <1>0 DEF Want, IInv, TypeOK
<1>2. /\ owner[b] = None \/ owner[b] = p
      /\ owner' = [owner EXCEPT ![b] = p] /\ waits' = [waits EXCEPT ![p] = -1]
      /\ pc' = [pc EXCEPT ![p] = IF b = First(p) THEN "tell" ELSE "return"]
      /\ UNCHANGED <<how, pipe, prog, printed>>
  BY <1>1 DEF LockGranted, Taken, Then, Goto, rest
<1>3. /\ \A q \in Process : q # p => pc'[q] = pc[q] /\ waits'[q] = waits[q]
      /\ b = First(p) => pc'[p] = "tell"
      /\ b = Second(p) => pc'[p] = "return"
      /\ waits'[p] = -1 /\ owner'[b] = p
      /\ \A a \in Byte : a # b => owner'[a] = owner[a]
  BY <1>2 DEF IInv, TypeOK
<1>4. TypeOK' BY <1>0, <1>2, <1>3 DEF IInv, TypeOK
<1>5. Places' /\ Unowned' BY <1>0, <1>2, <1>3 DEF IInv, Places, Unowned
<1>6. /\ \A q \in Process : q # p => Before(q)' = Before(q) /\ Later(q)' = Later(q)
      /\ b = First(p) => Before(p) /\ Before(p)' /\ ~ Later(p)'
      /\ b = Second(p) => Later(p) /\ Later(p)' /\ ~ Before(p) /\ ~ Before(p)'
      /\ \A q \in Process : Hears(q)' = Hears(q)
  <2>1. b = Second(p) => ~ Before(p) BY <1>0, <1>1 DEF Before, IInv, TypeOK
  <2> QED BY <1>0, <1>1, <1>2, <1>3, <2>1 DEF Before, Later, Hears
<1>7. Owns' BY <1>0, <1>1, <1>2, <1>3, <1>6 DEF IInv, Owns, TypeOK
<1>8. NoCircle'
  <2> SUFFICES ASSUME NEW q \in Process, NEW r \in Process, waits'[q] # -1, waits'[r] # -1,
                      owner'[waits'[q]] = r, owner'[waits'[r]] = q
               PROVE  FALSE
    BY DEF NoCircle
  <2>1. q # p /\ r # p /\ waits'[q] = waits[q] /\ waits'[r] = waits[r] BY <1>3
  <2>2. waits[q] \in Byte /\ waits[r] \in Byte BY <2>1 DEF IInv, TypeOK
  <2>3. owner[waits[q]] = r /\ owner[waits[r]] = q BY <1>3, <2>1, <2>2
  <2> QED BY <2>1, <2>3 DEF IInv, NoCircle
<1>9. Letters' BY <1>2, <1>3, <1>6 DEF IInv, Letters
<1>10. Told' BY <1>2, <1>3, <1>6 DEF IInv, Told
<1>11. HowEnded'
  <2>1. ASSUME b = Second(p) PROVE how[Peer(p)] \in {"EDEADLK", "fault"}
    <3>1. ~ Before(Peer(p)) BY <1>6, <2>1 DEF IInv, Letters
    <3>2. owner[First(Peer(p))] # Peer(p) BY <1>2, <2>1
    <3>3. pc[Peer(p)] = "ended" BY <1>0, <3>1, <3>2 DEF IInv, Owns, Before, Later, TypeOK, Places
    <3>4. how[Peer(p)] # "done" BY <1>0 DEF IInv, HowEnded
    <3> QED BY <3>3, <3>4 DEF IInv, HowEnded, TypeOK
  <2>2. ASSUME how[Peer(p)] = "EDEADLK" PROVE b = Second(p)
    <3>1. waits[p] = Second(p) \/ pc[p] = "return" \/ how[p] \in {"done", "fault"} BY <2>2 DEF IInv, HowEnded
    <3>2. waits[p] = Second(p) BY <1>0, <3>1
    <3>3. pc[p] = "blocked" BY <3>2 DEF IInv, TypeOK
    <3> QED BY <1>1, <3>2, <3>3
  <2> SUFFICES ASSUME NEW q \in Process
               PROVE  /\ how[q] # "wrong_letter"
                      /\ pc'[q] = "return" \/ how[q] = "done" => how[Peer(q)] \in {"EDEADLK", "fault"}
                      /\ how[q] = "EDEADLK" => \/ waits'[Peer(q)] = Second(Peer(q)) \/ pc'[Peer(q)] = "return"
                                               \/ how[Peer(q)] \in {"done", "fault"}
    BY <1>0, <1>2 DEF HowEnded
  <2>3. CASE q = p BY <1>0, <1>3, <2>1, <2>3 DEF IInv, HowEnded
  <2>4. CASE q # p
    <3>1. pc'[q] = pc[q] BY <1>3, <2>4
    <3>2. Peer(q) = p \/ (waits'[Peer(q)] = waits[Peer(q)] /\ pc'[Peer(q)] = pc[Peer(q)]) BY <1>3
    <3> QED BY <1>0, <1>3, <2>2, <3>1, <3>2 DEF IInv, HowEnded
  <2> QED BY <2>3, <2>4
<1>12. Prints' BY <1>0, <1>2, <1>3 DEF IInv, Prints
<1> QED BY <1>4, <1>5, <1>7, <1>8, <1>9, <1>10, <1>11, <1>12 DEF IInv

\* fcntl waits only where that closes no circle.
LEMMA WaitsIInv ==
  ASSUME IInv, NEW p \in Process, LockWaits(p)
  PROVE  IInv'
<1> USE PeerFacts, ByteFacts, LockAssumption
<1>0. prog = "deadlock" /\ pc[p] \in {"lock_first", "lock_second"} /\ how[p] = "running" /\ waits[p] = -1
  BY Zenon DEF LockWaits, IInv, TypeOK, Places
<1>1. PICK b \in Byte : /\ b = Want(p)
                        /\ b = First(p) => pc[p] = "lock_first"
                        /\ b = Second(p) => pc[p] = "lock_second"
  BY <1>0 DEF Want
<1>2. /\ owner[b] # p /\ ~ (waits[owner[b]] # -1 /\ owner[waits[owner[b]]] = p)
      /\ waits' = [waits EXCEPT ![p] = b] /\ pc' = [pc EXCEPT ![p] = "blocked"]
      /\ UNCHANGED <<how, owner, pipe, prog, printed>>
  BY <1>1 DEF LockWaits, Taken, Circle, Goto, rest
<1>3. /\ \A q \in Process : q # p => pc'[q] = pc[q] /\ waits'[q] = waits[q]
      /\ waits'[p] = b /\ pc'[p] = "blocked" /\ b # -1
  BY <1>2 DEF IInv, TypeOK, Byte
<1>4. TypeOK' BY <1>0, <1>2, <1>3 DEF IInv, TypeOK
<1>5. Places' /\ Unowned' BY <1>0, <1>2, <1>3 DEF IInv, Places, Unowned
<1>6. /\ \A q \in Process : Before(q)' = Before(q) /\ Later(q)' = Later(q) /\ Hears(q)' = Hears(q)
  <2>1. Before(p)' = Before(p) /\ Later(p)' = Later(p) BY <1>0, <1>1, <1>2, <1>3 DEF Before, Later
  <2> QED BY <1>2, <1>3, <2>1 DEF Before, Later, Hears
<1>7. Owns' BY <1>0, <1>1, <1>2, <1>3, <1>6 DEF IInv, Owns
<1>8. NoCircle'
  <2> SUFFICES ASSUME NEW q \in Process, NEW r \in Process, waits'[q] # -1, waits'[r] # -1,
                      owner[waits'[q]] = r, owner[waits'[r]] = q
               PROVE  FALSE
    BY <1>2 DEF NoCircle
  <2>1. CASE q # p /\ r # p BY <1>3, <2>1 DEF IInv, NoCircle
  <2>2. CASE q = p BY <1>2, <1>3, <2>2
  <2>3. CASE r = p BY <1>2, <1>3, <2>3
  <2> QED BY <2>1, <2>2, <2>3
<1>9. Letters' BY <1>2, <1>6 DEF IInv, Letters
<1>10. Told' BY <1>0, <1>2, <1>3, <1>6 DEF IInv, Told
<1>11. HowEnded' BY <1>0, <1>2, <1>3 DEF IInv, HowEnded
<1>12. Prints' BY <1>0, <1>2, <1>3 DEF IInv, Prints
<1> QED BY <1>4, <1>5, <1>7, <1>8, <1>9, <1>10, <1>11, <1>12 DEF IInv

\* The end of a process, for a reason that HowEnded allows, gives its bytes back.
LEMMA EndIInv ==
  ASSUME IInv, NEW p \in Process, NEW why \in {"EDEADLK", "done", "fault"}, End(p, why), pc[p] # "ended",
         why # "fault" => ~ Before(p) /\ (prog = "race_cond" => why = "done"),
         why = "done" => pc[p] = "return",
         why = "EDEADLK" => /\ prog = "deadlock" /\ pc[p] = "lock_second"
                            /\ waits[Peer(p)] = Second(Peer(p)) \/ how[Peer(p)] = "fault"
  PROVE  IInv'
<1> USE PeerFacts, ByteFacts, LockAssumption
<1>1. /\ pc' = [pc EXCEPT ![p] = "ended"] /\ how' = [how EXCEPT ![p] = why]
      /\ owner' = [b \in Byte |-> IF owner[b] = p THEN None ELSE owner[b]]
      /\ waits' = [waits EXCEPT ![p] = -1] /\ UNCHANGED <<pipe, prog, printed>>
  BY DEF End, Goto, rest
<1>2. /\ \A q \in Process : q # p => pc'[q] = pc[q] /\ waits'[q] = waits[q] /\ how'[q] = how[q]
      /\ pc'[p] = "ended" /\ waits'[p] = -1 /\ how'[p] = why /\ how[p] = "running"
      /\ \A b \in Byte : /\ owner[b] = p => owner'[b] = None
                         /\ owner[b] # p => owner'[b] = owner[b]
  BY <1>1 DEF IInv, TypeOK
<1>3. TypeOK' BY <1>1, <1>2 DEF IInv, TypeOK
<1>4. Places' /\ Unowned' BY <1>1, <1>2 DEF IInv, Places, Unowned
<1>5. /\ \A q \in Process : q # p => Before(q)' = Before(q) /\ Later(q)' = Later(q)
      /\ ~ Before(p)' /\ ~ Later(p)' /\ \A q \in Process : Hears(q)' = Hears(q)
  BY <1>1, <1>2 DEF Before, Later, Hears
<1>6. Owns' BY <1>1, <1>2, <1>5 DEF IInv, Owns, TypeOK
<1>7. NoCircle'
  <2> SUFFICES ASSUME NEW q \in Process, NEW r \in Process, waits'[q] # -1, waits'[r] # -1,
                      owner'[waits'[q]] = r, owner'[waits'[r]] = q
               PROVE  FALSE
    BY DEF NoCircle
  <2>1. q # p /\ r # p /\ waits'[q] = waits[q] /\ waits'[r] = waits[r] BY <1>2
  <2>2. waits[q] \in Byte /\ waits[r] \in Byte BY <2>1 DEF IInv, TypeOK
  <2>3. owner[waits[q]] = r /\ owner[waits[r]] = q BY <1>2, <2>1, <2>2
  <2> QED BY <2>1, <2>3 DEF IInv, NoCircle
<1>8. Letters' BY <1>1, <1>2, <1>5 DEF IInv, Letters
<1>9. Told' BY <1>1, <1>2, <1>5 DEF IInv, Told
<1>10. HowEnded' BY <1>1, <1>2 DEF IInv, HowEnded, TypeOK
<1>11. Prints' BY <1>1, <1>2 DEF IInv, Prints
<1> QED BY <1>3, <1>4, <1>6, <1>7, <1>8, <1>9, <1>10, <1>11 DEF IInv

\* fcntl refuses only when the peer waits for the byte p has: a request before the
\* meeting closes no circle, and the peer has the byte p asks for after it.
LEMMA RefusedIInv ==
  ASSUME IInv, NEW p \in Process, LockRefused(p)
  PROVE  IInv'
<1> USE PeerFacts, ByteFacts, LockAssumption
<1>0. /\ prog = "deadlock" /\ pc[p] \in {"lock_first", "lock_second"} /\ how[p] = "running" /\ waits[p] = -1
      /\ End(p, "EDEADLK")
  BY Zenon DEF LockRefused, IInv, TypeOK, Places
<1>1. PICK b \in Byte : b = Want(p) BY <1>0 DEF Want
<1>2. PICK q \in Process : q = owner[b] /\ q # p /\ waits[q] # -1 /\ owner[waits[q]] = p
  BY <1>1 DEF LockRefused, Taken, Circle, IInv, TypeOK
<1>3. pc[p] = "lock_second" /\ b = Second(p)
  <2>1. waits[q] \in Byte BY <1>2 DEF IInv, TypeOK
  <2>2. pc[p] # "lock_first" BY <1>2, <2>1 DEF IInv, Owns
  <2> QED BY <1>0, <1>1, <2>2 DEF Want
<1>4. ~ Before(p) /\ Later(p) BY <1>0, <1>3 DEF Before, Later
<1>5. ~ Before(Peer(p)) BY <1>4 DEF IInv, Letters
<1>6. waits[Peer(p)] = Second(Peer(p)) \/ how[Peer(p)] = "fault"
  <2>1. CASE pc[Peer(p)] = "ended"
    <3>1. how[Peer(p)] \in {"EDEADLK", "done", "fault"} BY <2>1 DEF IInv, TypeOK, HowEnded
    <3>2. how[Peer(p)] # "done" BY <1>0 DEF IInv, HowEnded
    <3>3. how[Peer(p)] # "EDEADLK" BY <1>0, <1>3 DEF IInv, HowEnded
    <3> QED BY <3>1, <3>2, <3>3
  <2>2. CASE pc[Peer(p)] # "ended"
    <3>1. owner[First(Peer(p))] = Peer(p) BY <1>0, <1>5, <2>2 DEF IInv, Owns, Before, Later, TypeOK, Places
    <3>2. q = Peer(p) BY <1>2, <1>3, <3>1
    <3> QED BY <1>2, <1>5, <3>2 DEF IInv, TypeOK, Before
  <2> QED BY <2>1, <2>2
<1> QED BY <1>0, <1>3, <1>4, <1>6, EndIInv

\* Telling: the pipe was empty, since only one that is before the meeting writes.
LEMMA TellIInv ==
  ASSUME IInv, NEW p \in Process, Tell(p) \/ (tell_parent(p) /\ ~ IsParent(p))
  PROVE  IInv'
<1> USE PeerFacts, ByteFacts, LockAssumption
<1>1. PICK next \in {"wait", "return"} :
        /\ pc[p] = "tell" /\ (prog = "deadlock" => next = "wait") /\ (prog = "race_cond" => next = "return")
        /\ pipe' = [pipe EXCEPT ![Peer(p)] = Append(@, Letter(p))]
        /\ pc' = [pc EXCEPT ![p] = next]
        /\ UNCHANGED <<how, owner, waits, prog, printed>>
  BY DEF Tell, tell_parent, TellAs, Goto, rest
<1>2. Hears(Peer(p)) /\ how[p] = "running" /\ waits[p] = -1
  BY <1>1 DEF Hears, Tell, TellAs, IInv, TypeOK
<1>3. Before(p) /\ ~ Later(p) BY <1>1, <1>2 DEF Before, Later
<1>4. pipe[Peer(p)] = <<>> /\ ~ Later(Peer(p)) BY <1>3 DEF IInv, Letters
<1>5. /\ pc'[p] = next /\ \A q \in Process : q # p => pc'[q] = pc[q]
      /\ pipe'[Peer(p)] = <<Letter(p)>> /\ \A q \in Process : q # Peer(p) => pipe'[q] = pipe[q]
  BY <1>1, <1>4 DEF IInv, TypeOK
<1>6. TypeOK'
  <2>1. pipe' \in [Process -> Seq({"p", "c"})] /\ \A q \in Process : Len(pipe'[q]) <= 1
    <3>1. <<Letter(p)>> \in Seq({"p", "c"}) /\ Len(<<Letter(p)>>) = 1 BY LetterFacts
    <3>2. pipe' = [pipe EXCEPT ![Peer(p)] = <<Letter(p)>>] BY <1>1, <1>4 DEF IInv, TypeOK
    <3> HIDE DEF Letter
    <3> QED BY <1>5, <3>1, <3>2 DEF IInv, TypeOK
  <2> QED BY <1>1, <1>2, <1>5, <2>1 DEF IInv, TypeOK
<1>7. Places' /\ Unowned' /\ NoCircle' BY <1>1, <1>5 DEF IInv, Places, Unowned, NoCircle
<1>8. /\ \A q \in Process : q # p => Before(q)' = Before(q) /\ Later(q)' = Later(q)
      /\ ~ Before(p)' /\ ~ Later(p)'
      /\ \A q \in Process : Hears(q)' = Hears(q)
  BY <1>1, <1>2, <1>5 DEF Before, Later, Hears
<1>9. Owns' BY <1>1, <1>5, <1>8 DEF IInv, Owns
<1>10. Letters'
  <2> SUFFICES ASSUME NEW q \in Process
               PROVE  /\ pipe'[q] = <<>> \/ pipe'[q] = <<Letter(Peer(q))>>
                      /\ pipe'[q] # <<>> => Hears(q)'
                      /\ pipe'[q] # <<>> \/ Later(q)' => ~ Before(Peer(q))'
    BY Zenon DEF Letters, Letter, Peer, IsParent
  <2>1. Letters BY DEF IInv
  <2>2. CASE q = Peer(p) BY <1>2, <1>5, <1>8, <2>2
  <2>3. CASE q # Peer(p)
    <3>1. pipe'[q] = pipe[q] /\ Hears(q)' = Hears(q) /\ Peer(q) # p BY <1>5, <1>8, <2>3
    <3>2. Before(Peer(q))' = Before(Peer(q)) /\ (Later(q)' => Later(q)) BY <1>8, <3>1
    <3> QED BY <2>1, <3>1, <3>2 DEF Letters
  <2> QED BY <2>2, <2>3
<1>11. Told'
  <2> SUFFICES ASSUME NEW q \in Process, Hears(q)', Before(q)' \/ pc'[q] = "wait",
                      pipe'[q] = <<>>, ~ Before(Peer(q))'
               PROVE  how[Peer(q)] = "fault"
    BY <1>1 DEF Told
  <2>1. q # Peer(p) /\ Peer(q) # p BY <1>5
  <2>2. ~ Before(Peer(q)) /\ pipe[q] = <<>> BY <1>5, <1>8, <2>1
  <2>3. Before(q) \/ pc[q] = "wait" BY <1>3, <1>5, <1>8
  <2> QED BY <1>8, <2>2, <2>3 DEF IInv, Told
<1>12. HowEnded' BY <1>1, <1>5 DEF IInv, HowEnded
<1>13. Prints'
  <2>1. prog = "race_cond" => ~ IsParent(p) /\ printed[p] = Chars BY <1>1, <1>2 DEF IInv, Prints, Places
  <2>2. prog = "deadlock" => printed[p] = 0 BY DEF IInv, Places
  <2>3. prog \in {"deadlock", "race_cond"} BY DEF IInv, TypeOK
  <2> SUFFICES ASSUME NEW q \in Process
               PROVE  /\ pc'[q] = "print" => printed[q] < Chars
                      /\ pc'[q] = "wait" => printed[q] = 0
                      /\ prog = "race_cond" /\ ~ IsParent(q) /\ pc'[q] \in {"tell", "return"} => printed[q] = Chars
                      /\ prog = "race_cond" /\ IsParent(q) /\ (pipe'[q] # <<>> \/ pc'[q] \in {"print", "return"} \/ printed[q] > 0) =>
                           printed[Peer(q)] = Chars
    BY <1>1 DEF Prints
  <2>4. CASE q = p BY <1>1, <1>5, <2>1, <2>2, <2>3, <2>4
  <2>5. CASE q # p
    <3>1. pc'[q] = pc[q] /\ (q # Peer(p) => pipe'[q] = pipe[q]) BY <1>5, <2>5
    <3>2. q = Peer(p) => Peer(q) = p OBVIOUS
    <3> QED BY <2>1, <3>1, <3>2 DEF IInv, Prints
  <2> QED BY <2>4, <2>5
<1> QED BY <1>6, <1>7, <1>9, <1>10, <1>11, <1>12, <1>13 DEF IInv

\* Reading the letter, which is always the right one.
LEMMA HeardIInv ==
  ASSUME IInv, NEW p \in Process, Wait(p) \/ wait_child(p)
  PROVE  IInv'
<1> USE PeerFacts, ByteFacts, LockAssumption
<1>1. pc[p] = "wait" /\ pipe[p] = <<Letter(Peer(p))>> BY DEF Wait, wait_child, WaitAs, IInv, Letters
<1>2. PICK next \in {"lock_second", "print"} :
        /\ (prog = "deadlock" => next = "lock_second") /\ (prog = "race_cond" => next = "print")
        /\ pipe' = [pipe EXCEPT ![p] = Tail(@)]
        /\ pc' = [pc EXCEPT ![p] = next]
        /\ UNCHANGED <<how, owner, waits, prog, printed>>
  BY <1>1 DEF Wait, wait_child, WaitAs, Goto, rest
<1>3. /\ pc'[p] = next /\ \A q \in Process : q # p => pc'[q] = pc[q]
      /\ pipe'[p] = <<>> /\ \A q \in Process : q # p => pipe'[q] = pipe[q]
      /\ how[p] = "running" /\ waits[p] = -1
  BY <1>1, <1>2 DEF IInv, TypeOK
<1>4. Hears(p) /\ ~ Before(Peer(p)) /\ ~ Before(p) BY <1>1, <1>3 DEF IInv, Letters, Before
<1>5. TypeOK'
  <2>1. pipe' \in [Process -> Seq({"p", "c"})] /\ \A q \in Process : Len(pipe'[q]) <= 1
    <3>1. pipe' = [pipe EXCEPT ![p] = <<>>] BY <1>1, <1>2 DEF IInv, TypeOK
    <3>2. <<>> \in Seq({"p", "c"}) /\ Len(<<>>) = 0 OBVIOUS
    <3> QED BY <1>3, <3>1, <3>2 DEF IInv, TypeOK
  <2> QED BY <1>1, <1>2, <1>3, <2>1 DEF IInv, TypeOK
<1>6. Places' /\ Unowned' /\ NoCircle' BY <1>1, <1>2, <1>3 DEF IInv, Places, Unowned, NoCircle
<1>7. /\ \A q \in Process : Before(q)' = Before(q) /\ (q # p => Later(q)' = Later(q)) /\ Hears(q)' = Hears(q)
  <2>1. ~ Before(p)' BY <1>2, <1>3, <1>4, Zenon DEF Before, Hears
  <2> QED BY <1>2, <1>3, <1>4, <2>1 DEF Before, Later, Hears
<1>8. Owns'
  <2>1. prog = "deadlock" => owner[First(p)] = p BY <1>1, Zenon DEF IInv, Owns
  <2> QED BY <1>1, <1>2, <1>3, <1>7, <2>1 DEF IInv, Owns
<1>9. Letters' BY <1>3, <1>4, <1>7 DEF IInv, Letters
<1>10. Told' BY <1>2, <1>3, <1>4, <1>7, ZenonT(20) DEF IInv, Told
<1>11. HowEnded' BY <1>1, <1>2, <1>3 DEF IInv, HowEnded
<1>12. Prints'
  <2>1. printed[p] = 0 /\ 0 < Chars BY <1>1 DEF IInv, Prints
  <2>2. prog = "race_cond" => IsParent(p) /\ printed[Peer(p)] = Chars BY <1>1, <1>4 DEF IInv, Prints, Hears
  <2>3. prog \in {"deadlock", "race_cond"} BY DEF IInv, TypeOK
  <2> SUFFICES ASSUME NEW q \in Process
               PROVE  /\ pc'[q] = "print" => printed[q] < Chars
                      /\ pc'[q] = "wait" => printed[q] = 0
                      /\ prog = "race_cond" /\ ~ IsParent(q) /\ pc'[q] \in {"tell", "return"} => printed[q] = Chars
                      /\ prog = "race_cond" /\ IsParent(q) /\ (pipe'[q] # <<>> \/ pc'[q] \in {"print", "return"} \/ printed[q] > 0) =>
                           printed[Peer(q)] = Chars
    BY <1>2 DEF Prints
  <2>4. CASE q = p BY <1>2, <1>3, <2>1, <2>2, <2>3, <2>4
  <2>5. CASE q # p
    <3>1. pc'[q] = pc[q] /\ pipe'[q] = pipe[q] BY <1>3, <2>5
    <3> QED BY <3>1 DEF IInv, Prints
  <2> QED BY <2>4, <2>5
<1> QED BY <1>5, <1>6, <1>8, <1>9, <1>10, <1>11, <1>12 DEF IInv

\* A character.
LEMMA PrintIInv ==
  ASSUME IInv, NEW p \in Process, charatatime(p)
  PROVE  IInv'
<1> USE PeerFacts, ByteFacts, LockAssumption
<1>1. /\ pc[p] = "print" /\ prog = "race_cond" /\ printed' = [printed EXCEPT ![p] = @ + 1]
      /\ UNCHANGED <<prog, how, owner, waits, pipe>>
  BY DEF charatatime
<1>2. /\ printed'[p] = printed[p] + 1 /\ printed[p] \in Nat /\ printed[p] < Chars /\ Chars \in Nat
      /\ \A q \in Process : q # p => printed'[q] = printed[q]
  BY <1>1 DEF IInv, TypeOK, Prints
<1>3. PICK next \in {"print", "return", "tell"} :
        /\ next = "print" <=> printed[p] + 1 < Chars
        /\ next = "return" => IsParent(p)
        /\ next = "tell" => ~ IsParent(p)
        /\ pc' = [pc EXCEPT ![p] = next]
  BY <1>2, Zenon DEF charatatime, Goto
<1>4. /\ pc'[p] = next /\ \A q \in Process : q # p => pc'[q] = pc[q]
      /\ how[p] = "running" /\ waits[p] = -1
  BY <1>1, <1>3 DEF IInv, TypeOK
<1>5. TypeOK'
  <2>1. printed' \in [Process -> 0..Chars] BY <1>1, <1>2 DEF IInv, TypeOK
  <2> QED BY <1>1, <1>3, <1>4, <2>1 DEF IInv, TypeOK
<1>6. Places' /\ Unowned' /\ NoCircle' BY <1>1, <1>3, <1>4 DEF IInv, Places, Unowned, NoCircle
<1>7. \A q \in Process : Before(q)' = Before(q) /\ Later(q)' = Later(q) /\ Hears(q)' = Hears(q)
  <2>1. Before(p)' = Before(p) BY <1>1, <1>3, <1>4, Zenon DEF Before
  <2> QED BY <1>1, <1>4, <2>1 DEF Before, Later, Hears
<1>8. Owns'
  <2>1. prog' # "deadlock" BY <1>1
  <2>2. \A q \in Process, b \in Byte : owner'[b] # q BY <1>1 DEF IInv, Unowned
  <2> QED BY <2>1, <2>2, Zenon DEF Owns
<1>9. Letters' BY <1>1, <1>7, ZenonT(30) DEF IInv, Letters
<1>10. Told' BY <1>1, <1>3, <1>4, <1>7, ZenonT(20) DEF IInv, Told
<1>11. HowEnded' BY <1>1, <1>3, <1>4 DEF IInv, HowEnded
<1>12. Prints'
  <2> SUFFICES ASSUME NEW q \in Process
               PROVE  /\ pc'[q] = "print" => printed'[q] < Chars
                      /\ pc'[q] = "wait" => printed'[q] = 0
                      /\ ~ IsParent(q) /\ pc'[q] \in {"tell", "return"} => printed'[q] = Chars
                      /\ IsParent(q) /\ (pipe[q] # <<>> \/ pc'[q] \in {"print", "return"} \/ printed'[q] > 0) =>
                           printed'[Peer(q)] = Chars
    BY <1>1 DEF Prints
  <2>1. CASE q = p
    <3>1. printed'[Peer(p)] = printed[Peer(p)] BY <1>2
    <3>2. IsParent(p) => printed[Peer(p)] = Chars BY <1>1 DEF IInv, Prints
    <3> QED BY <1>2, <1>3, <1>4, <2>1, <3>1, <3>2
  <2>2. CASE q # p
    <3>1. IsParent(q) /\ Peer(q) = p => printed[p] # Chars BY <1>2
    <3> QED BY <1>1, <1>2, <1>4, <2>2, <3>1 DEF IInv, Prints
  <2> QED BY <2>1, <2>2
<1> QED BY <1>5, <1>6, <1>8, <1>9, <1>10, <1>11, <1>12 DEF IInv

\* Every step of a process, its end included, keeps the invariant.
LEMMA StepIInv == IInv /\ [Next]_vars => IInv'
<1> SUFFICES ASSUME IInv, [Next]_vars PROVE IInv'
  OBVIOUS
<1>1. ASSUME NEW p \in Process, Step(p) PROVE IInv'
  <2>1. CASE LockGranted(p) BY <2>1, GrantedIInv
  <2>2. CASE LockWaits(p) BY <2>2, WaitsIInv
  <2>3. CASE LockRefused(p) BY <2>3, RefusedIInv
  <2>4. CASE Tell(p) BY <2>4, TellIInv
  <2>5. CASE tell_parent(p)
    <3>1. pc[p] = "tell" /\ prog = "race_cond" BY <2>5 DEF tell_parent, TellAs
    <3>2. ~ IsParent(p) BY <3>1 DEF IInv, Places
    <3> QED BY <2>5, <3>2, TellIInv
  <2>6. CASE Wait(p) \/ wait_child(p) BY <2>6, HeardIInv
  <2>7. CASE charatatime(p) BY <2>7, PrintIInv
  <2>8. CASE Return(p)
    <3>1. pc[p] = "return" /\ waits[p] = -1 BY <2>8 DEF Return, IInv, TypeOK
    <3>2. ~ Before(p) BY <3>1, ByteFacts DEF Before
    <3> QED BY <2>8, <3>1, <3>2, EndIInv DEF Return
  <2> QED BY <1>1, <2>1, <2>2, <2>3, <2>4, <2>5, <2>6, <2>7, <2>8 DEF Step
<1>2. ASSUME NEW p \in Process, Fault(p) PROVE IInv' BY <1>2, EndIInv, Zenon DEF Fault
<1>3. CASE UNCHANGED vars
  BY <1>3 DEF vars, rest, IInv, TypeOK, Places, Owns, Unowned, NoCircle, Letters, Told, HowEnded, Prints,
              Before, Hears, Later
<1> QED BY <1>1, <1>2, <1>3 DEF Next

\* The inductive invariant of deadlock.c and race_cond.c: who has which byte, where the
\* letters are, and how a process can have ended.
THEOREM Invariance == Spec => []IInv
BY InitIInv, StepIInv, PTL DEF Spec

\* However many runs there are in the directory, a run of deadlock.c in which nothing
\* fails ends with one process refused by fcntl and the other with both bytes; the
\* letter that _wait_parent or _wait_child reads is always the right one, and the
\* two meet before the second lockabyte, and in race_cond before the parent prints.
THEOREM RefusedCorrect == Spec => []OneRefused
<1>1. IInv => OneRefused
  <2> SUFFICES ASSUME IInv PROVE OneRefused
    OBVIOUS
  <2> USE PeerFacts, ByteFacts, LockAssumption
  <2>1. Meets
    <3> SUFFICES ASSUME NEW p \in Process
                 PROVE  /\ prog = "deadlock" /\ (pc[p] \in {"lock_second", "return"} \/ waits[p] = Second(p)) =>
                             pc[Peer(p)] \notin {"lock_first", "tell"}
                        /\ IsParent(p) /\ printed[p] > 0 => printed[Peer(p)] = Chars
      BY DEF Meets
    <3>1. prog = "deadlock" => printed[p] = 0 BY DEF IInv, Places
    <3>2. prog \in {"deadlock", "race_cond"} BY DEF IInv, TypeOK
    <3>3. Later(p) => ~ Before(Peer(p)) BY DEF IInv, Letters
    <3>4. IsParent(p) /\ printed[p] > 0 => printed[Peer(p)] = Chars BY <3>1, <3>2 DEF IInv, Prints
    <3> QED BY <3>3, <3>4 DEF Later, Before
  <2>2. ASSUME NEW r \in Run
        PROVE  LET ends == {how[p] : p \in {r} \X {"parent", "child"}}
               IN  /\ "wrong_letter" \notin ends
                   /\ prog = "deadlock" /\ ends \subseteq {"EDEADLK", "done"} => ends = {"EDEADLK", "done"}
    <3>1. PICK p \in Process, q \in Process : p = <<r, "parent">> /\ q = <<r, "child">>
      BY Zenon DEF Process
    <3>2. q = Peer(p) /\ p = Peer(q) BY <3>1 DEF Peer, IsParent
    <3>3. {how[x] : x \in {r} \X {"parent", "child"}} = {how[p], how[q]} BY <3>1
    <3>4. how[p] # "wrong_letter" /\ how[q] # "wrong_letter" BY DEF IInv, HowEnded
    <3>5. ASSUME prog = "deadlock", how[p] \in {"EDEADLK", "done"}, how[q] \in {"EDEADLK", "done"}
          PROVE  how[p] # how[q]
      <4>1. how[p] = "done" => how[q] \in {"EDEADLK", "fault"} BY <3>2, <3>5 DEF IInv, HowEnded
      <4>2. pc[q] = "ended" /\ waits[q] = -1 BY <3>5 DEF IInv, TypeOK
      <4>3. how[p] = "EDEADLK" => how[q] \in {"done", "fault"} BY <3>2, <4>2 DEF IInv, HowEnded
      <4> QED BY <3>5, <4>1, <4>3
    <3> QED BY <3>3, <3>4, <3>5
  <2> QED BY <2>1, <2>2 DEF OneRefused, IInv
<1> QED BY <1>1, Invariance, PTL

\* However many runs share the file, processes that wait in a circle, for a byte in
\* lockabyte or for a letter in _wait_child and _wait_parent, are of two runs, or one of
\* them has lost its peer to a failure.
THEOREM HangCorrect == Spec => []HangNeedsTwoRuns
<1>1. IInv => HangNeedsTwoRuns
  <2> SUFFICES ASSUME IInv, Doomed # {}, \A p \in Doomed : how[Peer(p)] # "fault",
                      \A p, q \in Doomed : p[1] = q[1]
               PROVE  FALSE
    BY DEF HangNeedsTwoRuns
  <2> USE PeerFacts, ByteFacts, LockAssumption
  <2>1. PICK S \in SUBSET Process :
          S # {} /\ \A p \in S : Waiting(p) /\ (Orphan(p) \/ WaitsOn(p) \in S)
    BY DEF Doomed
  <2>2. S \subseteq Doomed BY <2>1 DEF Doomed
  <2>3. \A x \in S : how[Peer(x)] # "fault" /\ \A y \in S : y = x \/ y = Peer(x) BY <2>2
  \* Nobody in S waits for the letter of one that has ended or that has told.
  <2>4. ASSUME NEW x \in S, pc[x] = "wait", pipe[x] = <<>> PROVE Before(Peer(x))
    <3>1. Hears(x) BY <2>4, Zenon DEF IInv, Places, TypeOK, Hears
    <3> QED BY <2>3, <2>4, <3>1 DEF IInv, Told
  <2>5. ASSUME NEW x \in S PROVE ~ Orphan(x)
    <3>1. SUFFICES ASSUME Orphan(x) PROVE FALSE
      OBVIOUS
    <3>2. Before(Peer(x)) BY <2>4, <3>1 DEF Orphan
    <3>3. pc[Peer(x)] = "ended" /\ waits[Peer(x)] = -1 BY <3>1 DEF IInv, TypeOK, Orphan
    <3> QED BY <3>2, <3>3 DEF Before
  <2>6. ASSUME NEW x \in S, pc[x] = "blocked"
        PROVE  waits[x] = Second(x) /\ owner[waits[x]] = Peer(x) /\ Peer(x) \in S
    <3>1. waits[x] \in Byte BY <2>6 DEF IInv, TypeOK
    <3>2. owner[waits[x]] \in S BY <2>1, <2>5, <2>6 DEF WaitsOn
    <3>3. owner[waits[x]] # x BY <2>6, <3>1 DEF IInv, Owns
    <3>4. owner[waits[x]] = Peer(x) /\ Peer(x) \in S BY <2>3, <3>2, <3>3
    <3>5. pc[Peer(x)] # "return" BY <2>1, <3>4, Zenon DEF Waiting
    <3>6. waits[x] # Second(Peer(x)) BY <3>1, <3>4, <3>5 DEF IInv, Owns
    <3> QED BY <3>1, <3>4, <3>6
  \* Two that are blocked on each other would be a circle of bytes, and one that is
  \* blocked on its second byte has told the other.
  <2>7. ASSUME NEW x \in S, pc[x] = "blocked" PROVE FALSE
    <3>1. waits[x] = Second(x) /\ owner[waits[x]] = Peer(x) /\ Peer(x) \in S BY <2>6, <2>7
    <3>2. CASE pc[Peer(x)] = "blocked"
      <4>1. owner[waits[Peer(x)]] = x BY <2>6, <3>1, <3>2
      <4>2. waits[x] # -1 /\ waits[Peer(x)] # -1 BY <2>7, <3>2 DEF IInv, TypeOK
      <4> QED BY <3>1, <4>1, <4>2 DEF IInv, NoCircle
    <3>3. CASE pc[Peer(x)] = "wait" /\ pipe[Peer(x)] = <<>>
      <4>1. Before(x) BY <2>4, <3>1, <3>3
      <4> QED BY <2>7, <3>1, <4>1 DEF Before
    <3> QED BY <2>1, <3>1, <3>2, <3>3 DEF Waiting
  <2>8. PICK x \in S : pc[x] = "wait" /\ pipe[x] = <<>> BY <2>1, <2>7 DEF Waiting
  <2>9. Peer(x) \in S BY <2>1, <2>5, <2>8 DEF WaitsOn
  <2>10. pc[Peer(x)] = "wait" BY <2>1, <2>7, <2>9 DEF Waiting
  <2>11. waits[Peer(x)] = -1 BY <2>10 DEF IInv, TypeOK
  <2> QED BY <2>4, <2>8, <2>10, <2>11 DEF Before
<1> QED BY <1>1, Invariance, PTL
-----------------------------------------------------------------------------
\* barrier_sort.c: the invariant its result rests on.

\* Who has come to the barrier, and which numbers merge has taken.
Arrived  == {t \in Thread : at[t] \in {"barrier", "end"}}
Consumed == {i \in Index : \E t \in Thread : i \in t * TNUM .. idx[t] - 1}

\* A thread that main has not created has not begun.
\* A thread that main has not created has not begun.
\* A thread that main has not created has not begun.
Created == \A t \in Thread : made <= t => at[t] = "none"
\* The barrier counts those that have come, and opens for all of them.
\* The barrier counts those that have come, and opens for all of them.
\* The barrier counts those that have come, and opens for all of them.
Counted ==
  /\ arrived = Cardinality(Arrived) + (IF main \in {"wait", "merge", "done"} THEN 1 ELSE 0)
  /\ main \in {"merge", "done"} => Arrived = Thread
\* A slice is in order once its thread has sorted it.
\* A slice is in order once its thread has sorted it.
\* A slice is in order once its thread has sorted it.
Ascending == \A t \in Thread : at[t] \in {"arrive", "barrier", "end"} =>
  \A i, j \in Slice(t) : i <= j => nums[i] <= nums[j]
\* nums is the input in another order.
\* nums is the input in another order.
\* nums is the input in another order.
Rearranged == \E p \in Bijection(Index, Index) : \A i \in Index : nums[i] = input[p[i]]

\* merge stays within the slices, and begins and ends where it should.
\* merge stays within the slices, and begins and ends where it should.
\* merge stays within the slices, and begins and ends where it should.
Bounds ==
  /\ \A t \in Thread : t * TNUM <= idx[t] /\ idx[t] <= (t + 1) * TNUM
  /\ main \notin {"merge", "done"} => sidx = 0 /\ \A t \in Thread : idx[t] = t * TNUM
  /\ main = "done" => sidx = NUMNUM
\* snums is in order so far, and goes before what is left.
\* snums is in order so far, and goes before what is left.
\* snums is in order so far, and goes before what is left.
Merged ==
  /\ \A k, l \in 0..sidx - 1 : k <= l => snums[k] <= snums[l]
  /\ \A k \in 0..sidx - 1, t \in Thread : idx[t] < (t + 1) * TNUM => snums[k] <= nums[idx[t]]
\* Each number merge has taken it has put, once.
\* Each number merge has taken it has put, once.
\* Each number merge has taken it has put, once.
Copied == \E q \in Bijection(0..sidx - 1, Consumed) : \A k \in 0..sidx - 1 : snums[k] = nums[q[k]]

SInv == SortTypeOK /\ Created /\ Counted /\ Ascending /\ Rearranged /\ Bounds /\ Merged /\ Copied
-----------------------------------------------------------------------------
\* j comes before i in ascending order, ties broken by position.
Below(a, j, i) == a[j] < a[i] \/ (a[j] = a[i] /\ j < i)
Rank(a, s, i)  == Cardinality({j \in s : Below(a, j, i)})

\* What makes an injection and a bijection, for use with any two sets.
LEMMA InjectionIs == \A S, T : \A r \in [S -> T] :
  (\A x, y \in S : r[x] = r[y] => x = y) => r \in Injection(S, T)
BY DEF Injection, IsInjective

LEMMA BijectionIs == \A S, T : \A r \in [S -> T] :
  /\ \A x, y \in S : r[x] = r[y] => x = y
  /\ \A y \in T : \E x \in S : r[x] = y
  => r \in Bijection(S, T)
BY DEF Injection, IsInjective, Surjection, Bijection

LEMMA BijectionFacts == \A S, T : \A q \in Bijection(S, T) :
  /\ q \in [S -> T]
  /\ \A x, y \in S : q[x] = q[y] => x = y
  /\ \A y \in T : \E x \in S : q[x] = y
BY DEF Injection, IsInjective, Surjection, Bijection

LEMMA BijectionExists == \A S, T : \A q \in Bijection(S, T) : ExistsBijection(S, T)
BY DEF ExistsBijection

\* A bijection after another is one.
LEMMA BijectionsCompose ==
  ASSUME NEW S, NEW p \in Bijection(S, S), NEW q \in Bijection(S, S)
  PROVE  [x \in S |-> p[q[x]]] \in Bijection(S, S)
<1> DEFINE r == [x \in S |-> p[q[x]]]
<1>1. p \in [S -> S] /\ q \in [S -> S] BY BijectionFacts
<1>2. \A x, y \in S : r[x] = r[y] => x = y BY <1>1, BijectionFacts
<1>3. \A y \in S : \E x \in S : r[x] = y
  <2> SUFFICES ASSUME NEW y \in S PROVE \E x \in S : r[x] = y
    OBVIOUS
  <2>1. PICK z \in S : p[z] = y BY BijectionFacts
  <2>2. PICK x \in S : q[x] = z BY BijectionFacts
  <2> QED BY <2>1, <2>2
<1>4. r \in [S -> S] BY <1>1
<1> HIDE DEF r
<1>5. r \in Bijection(S, S) BY <1>2, <1>3, <1>4, BijectionIs
<1> QED BY <1>5 DEF r

\* The numbers of b are in ascending order on s.
OrderedOn(b, s) == \A k, l \in s : k <= l => b[k] <= b[l]

\* b is a rearrangement of a on s, by q, and in ascending order.
SortedBy(b, a, q, s) ==
  /\ \A i \in s : a[i] \in Int
  /\ q \in Bijection(s, s) /\ b = [k \in s |-> a[q[k]]]
  /\ OrderedOn(b, s)

\* A bijection takes the part A of its domain to the part B that its values in A make up.
LEMMA PartOfBijection ==
  ASSUME NEW S, NEW T, NEW q \in Bijection(S, T), NEW A \in SUBSET S, NEW B \in SUBSET T,
         \A x \in S : x \in A <=> q[x] \in B
  PROVE  [x \in A |-> q[x]] \in Bijection(A, B)
<1> DEFINE r == [x \in A |-> q[x]]
<1>1. /\ q \in [S -> T]
      /\ \A x, y \in S : q[x] = q[y] => x = y
      /\ \A y \in T : \E x \in S : q[x] = y
  BY BijectionFacts
<1>2. r \in [A -> B] BY <1>1
<1>3. \A x, y \in A : r[x] = r[y] => x = y BY <1>1
<1>4. \A y \in B : \E x \in A : r[x] = y BY <1>1
<1> QED BY <1>2, <1>3, <1>4, BijectionIs

\* The parts A and B correspond under q.
Correspond(A, B, q, S, T) ==
  /\ A \in SUBSET S /\ B \in SUBSET T
  /\ \A x \in S : x \in A <=> q[x] \in B

\* The parts that correspond under a bijection have the same number of elements.
LEMMA PartsCount ==
  ASSUME NEW S, NEW T, NEW q, NEW A, NEW B,
         q \in Bijection(S, T), Correspond(A, B, q, S, T), IsFiniteSet(S)
  PROVE  Cardinality(A) = Cardinality(B)
<1>1. ExistsBijection(A, B)
  <2>1. [x \in A |-> q[x]] \in Bijection(A, B) BY PartOfBijection DEF Correspond
  <2> QED BY <2>1, BijectionExists
<1>2. IsFiniteSet(A) BY FS_Subset DEF Correspond
<1> QED BY <1>1, <1>2, FS_Bijection

\* The indices below i are fewer than those below j if i is below j.
LEMMA RankGrows ==
  ASSUME NEW s \in SUBSET Int, IsFiniteSet(s), NEW a, \A i \in s : a[i] \in Int,
         NEW i \in s, NEW j \in s, Below(a, i, j)
  PROVE  Rank(a, s, i) \in Nat /\ Rank(a, s, j) \in Nat /\ Rank(a, s, i) < Rank(a, s, j)
<1> DEFINE I == {k \in s : Below(a, k, i)}
           J == {k \in s : Below(a, k, j)}
<1>1. IsFiniteSet(I) /\ IsFiniteSet(J)
  <2>1. I \in SUBSET s /\ J \in SUBSET s OBVIOUS
  <2> HIDE DEF I, J
  <2> QED BY <2>1, FS_Subset, Zenon
<1>2. I \cup {i} \in SUBSET J /\ i \notin I
  <2>1. i \notin I BY DEF Below
  <2>2. ASSUME NEW k \in s, Below(a, k, i) PROVE Below(a, k, j)
    <3>1. /\ k \in Int /\ i \in Int /\ j \in Int
          /\ a[k] \in Int /\ a[i] \in Int /\ a[j] \in Int
      OBVIOUS
    <3> QED BY <2>2, <3>1 DEF Below
  <2>3. I \subseteq J BY <2>2, Zenon
  <2>4. i \in J OBVIOUS
  <2> HIDE DEF I, J
  <2> QED BY <2>1, <2>3, <2>4
<1> HIDE DEF I, J
<1>3. Cardinality(I \cup {i}) = Cardinality(I) + 1 BY <1>1, <1>2, FS_AddElement, Zenon
<1>4. Cardinality(I \cup {i}) <= Cardinality(J) BY <1>1, <1>2, FS_Subset
<1>5. Cardinality(I) \in Nat /\ Cardinality(J) \in Nat BY <1>1, FS_CardinalityType
<1>6. Rank(a, s, i) = Cardinality(I) /\ Rank(a, s, j) = Cardinality(J) BY DEF Rank, I, J
<1> QED BY <1>3, <1>4, <1>5, <1>6

\* The ranks of n numbers are 0, ..., n - 1, one each: some index has rank k.
LEMMA RanksAreAll ==
  ASSUME NEW s \in SUBSET Int, IsFiniteSet(s), NEW a, \A i \in s : a[i] \in Int
  PROVE  /\ \A i, j \in s : Rank(a, s, i) = Rank(a, s, j) => i = j
         /\ \A i \in s : Rank(a, s, i) \in 0..Cardinality(s) - 1
         /\ \A k \in 0..Cardinality(s) - 1 : \E i \in s : Rank(a, s, i) = k
<1> DEFINE n == Cardinality(s)
           r == [i \in s |-> Rank(a, s, i)]
<1>1. n \in Nat BY FS_CardinalityType
<1>2. \A i, j \in s : Rank(a, s, i) = Rank(a, s, j) => i = j
  <2> SUFFICES ASSUME NEW i \in s, NEW j \in s, i # j PROVE Rank(a, s, i) # Rank(a, s, j)
    OBVIOUS
  <2>1. i \in Int /\ j \in Int /\ a[i] \in Int /\ a[j] \in Int OBVIOUS
  <2>2. Below(a, i, j) \/ Below(a, j, i) BY <2>1 DEF Below
  <2>3. CASE Below(a, i, j) BY <2>3, RankGrows
  <2>4. CASE Below(a, j, i) BY <2>4, RankGrows
  <2> QED BY <2>2, <2>3, <2>4
<1>3. \A i \in s : Rank(a, s, i) \in 0..n - 1
  <2> SUFFICES ASSUME NEW i \in s PROVE Rank(a, s, i) \in 0..n - 1
    OBVIOUS
  <2> DEFINE I == {k \in s : Below(a, k, i)}
  <2>1. I \in SUBSET (s \ {i}) BY DEF Below
  <2> HIDE DEF I
  <2>2. IsFiniteSet(s \ {i}) /\ Cardinality(s \ {i}) = n - 1 BY FS_RemoveElement, Zenon
  <2>3. IsFiniteSet(I) /\ Cardinality(I) <= n - 1 BY <2>1, <2>2, FS_Subset, Zenon
  <2>4. Cardinality(I) \in Nat BY <2>3, FS_CardinalityType
  <2>5. Rank(a, s, i) = Cardinality(I) BY DEF Rank, I
  <2> QED BY <1>1, <2>3, <2>4, <2>5
<1>4. r \in [s -> 0..n - 1] /\ \A i, j \in s : r[i] = r[j] => i = j
  BY <1>2, <1>3
<1>5. IsFiniteSet(0..n - 1) /\ Cardinality(0..n - 1) = n
  <2> HIDE DEF n
  <2>1. 0 \in Int /\ n - 1 \in Int BY <1>1
  <2>2. /\ IsFiniteSet(0..n - 1)
        /\ Cardinality(0..n - 1) = IF 0 > n - 1 THEN 0 ELSE n - 1 - 0 + 1
    BY <2>1, FS_Interval
  <2> QED BY <1>1, <2>2
<1>6. r \in Surjection(s, 0..n - 1)
  <2> HIDE DEF r
  <2>1. r \in Injection(s, 0..n - 1) BY <1>4, InjectionIs, Zenon
  <2> QED BY <1>5, <2>1, FS_Injection
<1>7. \A k \in 0..n - 1 : \E i \in s : r[i] = k
  <2> HIDE DEF r, n
  <2>1. \A T : r \in Surjection(s, T) => \A k \in T : \E i \in s : r[i] = k
    BY DEF Surjection
  <2> QED BY <1>6, <2>1, Zenon
<1> QED BY <1>2, <1>3, <1>7
\* What qsort leaves of the numbers at f, ..., f + n - 1: the number of rank k - f at
\* k, which is a rearrangement in ascending order.
LEMMA SortedIs ==
  ASSUME NEW f \in Int, NEW n \in Nat, NEW s, s = f..f + n - 1, NEW a, \A i \in s : a[i] \in Int
  PROVE  \E p \in Bijection(s, s) :
           /\ Sorted(a, s, f) = [k \in s |-> a[p[k]]]
           /\ \A k \in s : Rank(a, s, p[k]) = k - f
           /\ \A k, l \in s : k <= l => a[p[k]] <= a[p[l]]
<1>1. s \in SUBSET Int /\ IsFiniteSet(s) /\ Cardinality(s) = n
  <2>1. f + n - 1 \in Int OBVIOUS
  <2>2. IsFiniteSet(s) /\ Cardinality(s) = IF f > f + n - 1 THEN 0 ELSE f + n - 1 - f + 1
    BY <2>1, FS_Interval
  <2> QED BY <2>2
<1> DEFINE p == [k \in s |-> CHOOSE i \in s : Rank(a, s, i) = k - f]
<1>2. \A k \in s : p[k] \in s /\ Rank(a, s, p[k]) = k - f
  <2> SUFFICES ASSUME NEW k \in s PROVE p[k] \in s /\ Rank(a, s, p[k]) = k - f
    OBVIOUS
  <2>1. k - f \in 0..n - 1 OBVIOUS
  <2>2. \E i \in s : Rank(a, s, i) = k - f BY <1>1, <2>1, RanksAreAll
  <2> QED BY <2>2
<1>3. p \in [s -> s] BY <1>2
<1>4. Sorted(a, s, f) = [k \in s |-> a[p[k]]] BY SMTT(30) DEF Sorted, Rank, Below
<1> HIDE DEF p
<1>5. p \in Bijection(s, s)
  <2>1. \A k, l \in s : p[k] = p[l] => k = l
    <3> SUFFICES ASSUME NEW k \in s, NEW l \in s, p[k] = p[l] PROVE k = l
      OBVIOUS
    <3>1. k - f = l - f BY <1>2
    <3> QED BY <1>1, <3>1
  <2>2. p \in Injection(s, s) BY <1>3, <2>1, InjectionIs, Zenon
  <2>3. p \in Surjection(s, s) BY <1>1, <2>2, FS_Injection
  <2> QED BY <2>2, <2>3 DEF Bijection
<1>6. \A k, l \in s : k <= l => a[p[k]] <= a[p[l]]
  <2> SUFFICES ASSUME NEW k \in s, NEW l \in s, k <= l, ~ (a[p[k]] <= a[p[l]]) PROVE FALSE
    OBVIOUS
  <2>1. p[k] \in s /\ p[l] \in s /\ a[p[k]] \in Int /\ a[p[l]] \in Int BY <1>2
  <2>2. Below(a, p[l], p[k]) BY <2>1 DEF Below
  <2>3. Rank(a, s, p[l]) < Rank(a, s, p[k]) BY <1>1, <2>1, <2>2, RankGrows, Zenon
  <2>4. l - f < k - f BY <1>2, <2>3
  <2> QED BY <1>1, <2>4
<1> QED BY <1>4, <1>5, <1>2, <1>6, Zenon

\* An ascending rearrangement of the numbers is the one qsort makes of them.
LEMMA SortedUnique ==
  ASSUME NEW n \in Nat, NEW a, NEW q, NEW b, SortedBy(b, a, q, 0..n - 1)
  PROVE  b = Sorted(a, 0..n - 1, 0)
<1> DEFINE s == 0..n - 1
<1>a. \A i \in s : a[i] \in Int BY DEF SortedBy
<1>b. b = [k \in s |-> a[q[k]]] BY DEF SortedBy
<1>o. OrderedOn(b, s) BY DEF SortedBy
<1>q. q \in Bijection(s, s) BY DEF SortedBy
<1>3. s \in SUBSET Int /\ IsFiniteSet(s)
  BY FS_Interval
<1>s. \A k \in Int : k \in s <=> 0 <= k /\ k < n
  OBVIOUS
<1>1. PICK p \in Bijection(s, s) :
        /\ Sorted(a, s, 0) = [k \in s |-> a[p[k]]]
        /\ \A k \in s : Rank(a, s, p[k]) = k
        /\ \A k, l \in s : k <= l => a[p[k]] <= a[p[l]]
  <2>1. s = 0..0 + n - 1 /\ 0 \in Int OBVIOUS
  <2>2. \A k \in s : k - 0 = k OBVIOUS
  <2> HIDE DEF s
  <2>3. \E p \in Bijection(s, s) :
          /\ Sorted(a, s, 0) = [k \in s |-> a[p[k]]]
          /\ \A k \in s : Rank(a, s, p[k]) = k - 0
          /\ \A k, l \in s : k <= l => a[p[k]] <= a[p[l]]
    BY <1>a, <2>1, SortedIs, Zenon
  <2> QED BY <2>2, <2>3, Zenon
<1> SUFFICES b = Sorted(a, s, 0)
  OBVIOUS
<1> HIDE DEF s
<1>2. /\ q \in [s -> s] /\ p \in [s -> s]
      /\ \A k, l \in s : q[k] = q[l] => k = l
      /\ \A i \in s : \E k \in s : q[k] = i
  BY <1>q, BijectionFacts
<1> SUFFICES ASSUME NEW k \in s PROVE a[q[k]] = a[p[k]]
  BY <1>1, <1>b
<1>k. k \in Nat BY <1>3, <1>s
<1> DEFINE i == p[k]
           L == {j \in s : Below(a, j, i)}
<1>4. i \in s /\ a[i] \in Int /\ a[q[k]] \in Int /\ \A l \in s : b[l] = a[q[l]] /\ b[l] \in Int
  BY <1>2, <1>a, <1>b
<1>5. L \in SUBSET s /\ IsFiniteSet(L) /\ Cardinality(L) = k
  <2>1. L \in SUBSET s OBVIOUS
  <2>2. Cardinality(L) = Rank(a, s, i) BY DEF Rank
  <2>3. Rank(a, s, i) = k BY <1>1
  <2> HIDE DEF L
  <2>4. IsFiniteSet(L) BY <1>3, <2>1, FS_Subset, Zenon
  <2> QED BY <2>1, <2>2, <2>3, <2>4
<1>6. ASSUME a[q[k]] < a[i] PROVE FALSE
  \* The k + 1 numbers b[0], ..., b[k] are below i.
  <2> DEFINE A == 0..k
             r == [l \in A |-> q[l]]
  <2>1. \A l \in A : l \in s /\ q[l] \in s /\ q[l] \in L
    <3> SUFFICES ASSUME NEW l \in A PROVE l \in s /\ q[l] \in s /\ q[l] \in L
      OBVIOUS
    <3>1. l \in s /\ l <= k BY <1>3, <1>s
    <3>2. q[l] \in s BY <1>2, <3>1
    <3>3. a[q[l]] <= a[q[k]] BY <1>4, <1>o, <3>1 DEF OrderedOn
    <3>4. a[q[l]] \in Int BY <1>a, <3>2
    <3> QED BY <1>4, <1>6, <3>1, <3>2, <3>3, <3>4 DEF Below
  <2>2. r \in [A -> L] /\ \A l, m \in A : r[l] = r[m] => l = m BY <1>2, <2>1
  <2>3. Cardinality(A) = k + 1
    <3>1. k \in Int /\ 0 \in Int /\ k >= 0 BY <1>k
    <3>2. Cardinality(0..k) = IF 0 > k THEN 0 ELSE k - 0 + 1 BY <3>1, FS_Interval
    <3> QED BY <3>1, <3>2
  <2> HIDE DEF A, r, L, i
  <2>4. r \in Injection(A, L) BY <2>2, InjectionIs
  <2>5. Cardinality(A) <= Cardinality(L) BY <1>5, <2>4, FS_Injection
  <2> QED BY <1>k, <1>5, <2>3, <2>5
<1>7. ASSUME a[i] < a[q[k]] PROVE FALSE
  \* The k numbers below i, and that at i, are at places of b before k.
  <2> DEFINE B == L \cup {i}
             r == [j \in B |-> CHOOSE l \in s : q[l] = j]
  <2>1. \A j \in B : j \in s /\ a[j] \in Int /\ a[j] <= a[i] BY <1>4, <1>a DEF Below
  <2>2. i \notin L
    <3>1. i \in Int /\ a[i] \in Int BY <1>3, <1>4, Zenon
    <3> HIDE DEF i
    <3>2. ~ Below(a, i, i) BY <3>1 DEF Below
    <3> QED BY <3>2
  <2> HIDE DEF L, i
  <2>3. \A j \in B : r[j] \in 0..k - 1 /\ q[r[j]] = j
    <3> SUFFICES ASSUME NEW j \in B PROVE r[j] \in 0..k - 1 /\ q[r[j]] = j
      BY Zenon
    <3>1. r[j] \in s /\ q[r[j]] = j BY <1>2, <2>1
    <3>2. b[r[j]] < b[k] BY <1>4, <1>7, <2>1, <3>1
    <3>3. r[j] < k
      <4>1. ASSUME k <= r[j] PROVE FALSE
        <5>1. b[k] <= b[r[j]] BY <1>o, <3>1, <4>1 DEF OrderedOn
        <5> QED BY <1>4, <3>1, <3>2, <5>1
      <4>2. r[j] \in Int BY <1>3, <3>1, Zenon
      <4> QED BY <1>k, <4>1, <4>2
    <3>4. r[j] \in Int /\ 0 <= r[j] BY <1>3, <1>s, <3>1, Zenon
    <3> QED BY <1>k, <3>1, <3>3, <3>4
  <2>4. r \in [B -> 0..k - 1] /\ \A j, m \in B : r[j] = r[m] => j = m BY <2>3, Zenon
  <2>5. Cardinality(B) = k + 1 BY <1>5, <2>2, FS_AddElement
  <2>6. IsFiniteSet(0..k - 1) /\ Cardinality(0..k - 1) = k
    <3>1. k - 1 \in Int /\ 0 \in Int /\ k >= 0 BY <1>k
    <3>2. /\ IsFiniteSet(0..k - 1)
          /\ Cardinality(0..k - 1) = IF 0 > k - 1 THEN 0 ELSE k - 1 - 0 + 1
      BY <3>1, FS_Interval
    <3>3. CASE k = 0 BY <3>2, <3>3
    <3>4. CASE k > 0 BY <1>k, <3>2, <3>4
    <3> QED BY <1>k, <3>3, <3>4
  <2> HIDE DEF B, r
  <2>7. r \in Injection(B, 0..k - 1) BY <2>4, InjectionIs, Zenon
  <2>8. Cardinality(B) <= Cardinality(0..k - 1) BY <2>6, <2>7, FS_Injection
  <2> QED BY <1>k, <2>5, <2>6, <2>8
<1> QED BY <1>4, <1>6, <1>7
-----------------------------------------------------------------------------
\* A set of naturals has a least element.
LEMMA FirstNat ==
  ASSUME NEW T, T \subseteq Nat, T # {}
  PROVE  \E x \in T : \A y \in T : x <= y
<1> DEFINE R == OpToRel(<, Nat)
<1>1. \A x, y \in Nat : <<y, x>> \in R <=> y < x
  BY DEF OpToRel
<1>2. IsWellFoundedOn(R, Nat)
  BY NatLessThanWellFounded, Zenon
<1> HIDE DEF R
<1>3. PICK x \in T : \A y \in T : ~ (<<y, x>> \in R)
  BY <1>2, WFMin, Zenon
<1>4. ASSUME NEW y \in T PROVE x <= y
  <2>1. x \in Nat /\ y \in Nat /\ ~ (y < x)
    BY <1>1, <1>3, Zenon
  <2> QED BY <2>1
<1> QED BY <1>3, <1>4

\* The product is monotone, and (t + 1) * TNUM is t * TNUM + TNUM.
LEMMA Products ==
  /\ \A t, u \in Nat : t <= u => t * TNUM <= u * TNUM
  /\ \A t \in Nat : t * TNUM \in Nat /\ (t + 1) * TNUM = t * TNUM + TNUM
<1> USE SortAssumption
<1>1. \A t, u, n \in Nat : t <= u => t * n <= u * n
  <2> SUFFICES ASSUME NEW t \in Nat, NEW u \in Nat, NEW n \in Nat, t <= u PROVE t * n <= u * n
    OBVIOUS
  <2>1. PICK d \in Nat : u = t + d
    <3>1. u - t \in Nat /\ u = t + (u - t) OBVIOUS
    <3> QED BY <3>1
  <2>2. u * n = t * n + d * n BY <2>1
  <2>3. d * n \in Nat /\ t * n \in Nat OBVIOUS
  <2> QED BY <2>2, <2>3
<1>2. \A t \in Nat : t * TNUM \in Nat /\ (t + 1) * TNUM = t * TNUM + TNUM OBVIOUS
<1> QED BY <1>1, <1>2

\* The slices are pieces of nums, one after another, and make up all of it.
LEMMA Slices ==
  /\ NUMNUM \in Nat /\ TNUM \in Nat \ {0} /\ NTHR \in Nat \ {0} /\ LONG_MAX \in Nat
  /\ \A t \in Thread : /\ t * TNUM \in Nat /\ (t + 1) * TNUM = t * TNUM + TNUM
                       /\ t * TNUM + TNUM <= NUMNUM
  /\ \A t, u \in Thread : t < u => t * TNUM + TNUM <= u * TNUM
  /\ \A i \in Index : \E t \in Thread : t * TNUM <= i /\ i < t * TNUM + TNUM
<1> USE SortAssumption
<1>1. /\ TNUM \in Nat \ {0} /\ NTHR \in Nat \ {0} /\ LONG_MAX \in Nat
      /\ Thread \subseteq Nat /\ \A t \in Thread : t + 1 \in Nat /\ t + 1 <= NTHR
  BY DEF Thread
<1>2. NUMNUM \in Nat /\ NUMNUM = NTHR * TNUM BY Products, <1>1 DEF NUMNUM
<1>3. \A t \in Thread : /\ t * TNUM \in Nat /\ (t + 1) * TNUM = t * TNUM + TNUM
                        /\ t * TNUM + TNUM <= NUMNUM
  <2> SUFFICES ASSUME NEW t \in Thread
               PROVE  /\ t * TNUM \in Nat /\ (t + 1) * TNUM = t * TNUM + TNUM
                      /\ t * TNUM + TNUM <= NUMNUM
    OBVIOUS
  <2>1. t * TNUM \in Nat /\ (t + 1) * TNUM = t * TNUM + TNUM BY <1>1, Products
  <2>2. (t + 1) * TNUM <= NTHR * TNUM BY <1>1, Products
  <2> QED BY <1>2, <2>1, <2>2
<1>4. \A t, u \in Thread : t < u => t * TNUM + TNUM <= u * TNUM
  <2> SUFFICES ASSUME NEW t \in Thread, NEW u \in Thread, t < u PROVE t * TNUM + TNUM <= u * TNUM
    OBVIOUS
  <2>1. t + 1 \in Nat /\ u \in Nat /\ t + 1 <= u BY <1>1
  <2>2. (t + 1) * TNUM <= u * TNUM BY <2>1, Products
  <2> QED BY <1>3, <2>2
<1>5. ASSUME NEW i \in Index PROVE \E t \in Thread : t * TNUM <= i /\ i < t * TNUM + TNUM
  <2> DEFINE T == {t \in Nat : i < t * TNUM + TNUM}
  <2>1. i \in Nat /\ i < NUMNUM BY <1>2 DEF Index
  <2>2. NTHR - 1 \in T
    <3>1. NTHR - 1 \in Nat /\ (NTHR - 1) + 1 = NTHR BY <1>1
    <3>2. NTHR * TNUM = (NTHR - 1) * TNUM + TNUM BY <3>1, Products
    <3> QED BY <1>2, <2>1, <3>1, <3>2
  <2>3. PICK t \in T : \A u \in T : t <= u
    <3>1. T \subseteq Nat /\ T # {} BY <2>2, Zenon
    <3> HIDE DEF T
    <3> QED BY <3>1, FirstNat, Zenon
  <2>4. t \in Nat /\ t <= NTHR - 1 BY <2>2, <2>3, Zenon
  <2>5. t \in Thread BY <1>1, <2>4 DEF Thread
  <2>6. t * TNUM <= i
    <3>1. CASE t = 0
      <4>1. 0 * TNUM = 0 BY <1>1
      <4> QED BY <2>1, <3>1, <4>1
    <3>2. CASE t # 0
      <4>1. t - 1 \in Nat /\ (t - 1) + 1 = t BY <2>4, <3>2
      <4>2. t * TNUM = (t - 1) * TNUM + TNUM BY <4>1, Products
      <4>3. t - 1 \notin T BY <2>3, <2>4, <4>1
      <4>4. (t - 1) * TNUM \in Nat BY <4>1, Products
      <4> QED BY <1>1, <2>1, <4>1, <4>2, <4>3, <4>4
    <3> QED BY <3>1, <3>2
  <2> QED BY <2>3, <2>5, <2>6
<1> QED BY <1>1, <1>2, <1>3, <1>4, <1>5
\* The threads can be counted, and so can those that have come to the barrier.
LEMMA Counting ==
  /\ IsFiniteSet(Thread) /\ Cardinality(Thread) = NTHR
  /\ \A T \in SUBSET Thread :
       /\ IsFiniteSet(T) /\ Cardinality(T) \in 0..NTHR /\ (Cardinality(T) = NTHR => T = Thread)
       /\ \A t \in Thread \ T : Cardinality(T \cup {t}) = Cardinality(T) + 1
<1>1. IsFiniteSet(Thread) /\ Cardinality(Thread) = NTHR
  <2>1. NTHR \in Nat \ {0} /\ 0 \in Int /\ NTHR - 1 \in Int BY SortAssumption
  <2>2. IsFiniteSet(Thread) /\ Cardinality(Thread) = IF 0 > NTHR - 1 THEN 0 ELSE NTHR - 1 - 0 + 1
    BY <2>1, FS_Interval DEF Thread
  <2> QED BY <2>1, <2>2
<1>2. ASSUME NEW T \in SUBSET Thread
      PROVE  IsFiniteSet(T) /\ Cardinality(T) \in 0..NTHR /\ (Cardinality(T) = NTHR => T = Thread)
  <2>1. /\ IsFiniteSet(T) /\ Cardinality(T) <= NTHR /\ (Cardinality(T) = NTHR => T = Thread)
    BY <1>1, FS_Subset
  <2>2. Cardinality(T) \in Nat BY <2>1, FS_CardinalityType
  <2> QED BY <2>1, <2>2, SortAssumption
<1>3. ASSUME NEW T \in SUBSET Thread, NEW t \in Thread \ T
      PROVE  Cardinality(T \cup {t}) = Cardinality(T) + 1
  BY <1>2, FS_AddElement
<1> QED BY <1>1, <1>2, <1>3

\* Before main has made a thread nothing has moved.
LEMMA InitSInv == SortInit => SInv
<1> SUFFICES ASSUME SortInit PROVE SInv
  OBVIOUS
<1> USE SortAssumption, Slices
<1>1. SortTypeOK BY DEF SortInit, SortTypeOK, Unset
<1>2. Created BY DEF SortInit, Created
<1>3. Counted
  <2>1. Arrived = {} BY DEF SortInit, Arrived
  <2> QED BY <2>1, FS_EmptySet DEF SortInit, Counted
<1>4. Ascending BY DEF SortInit, Ascending
<1>5. Rearranged
  <2> DEFINE p == [i \in Index |-> i]
  <2>1. p \in Bijection(Index, Index)
    <3>1. p \in [Index -> Index] OBVIOUS
    <3>2. \A a, b \in Index : p[a] = p[b] => a = b OBVIOUS
    <3>3. \A i \in Index : \E a \in Index : p[a] = i OBVIOUS
    <3> HIDE DEF p
    <3> QED BY <3>1, <3>2, <3>3, BijectionIs
  <2>2. \A i \in Index : nums[i] = input[p[i]] BY DEF SortInit
  <2> HIDE DEF p
  <2> QED BY <2>1, <2>2 DEF Rearranged
<1>6. Bounds BY DEF SortInit, Bounds
<1>7. Merged BY DEF SortInit, Merged
<1>8. Copied
  <2>1. 0..sidx - 1 = {} BY DEF SortInit
  <2>2. Consumed = {} BY DEF SortInit, Consumed
  <2> DEFINE q == [k \in {} |-> k]
  <2>3. q \in Bijection({}, {})
    <3>1. q \in [{} -> {}] OBVIOUS
    <3>2. \A a, b \in {} : q[a] = q[b] => a = b OBVIOUS
    <3>3. \A i \in {} : \E a \in {} : q[a] = i OBVIOUS
    <3> HIDE DEF q
    <3> QED BY <3>1, <3>2, <3>3, BijectionIs, Zenon
  <2> QED BY <2>1, <2>2, <2>3, Zenon DEF Copied
<1> QED BY <1>1, <1>2, <1>3, <1>4, <1>5, <1>6, <1>7, <1>8 DEF SInv

\* What a step that touches no number keeps.
LEMMA NumbersStay ==
  ASSUME SInv, UNCHANGED <<nums, merges, input>>
  PROVE  Rearranged' /\ Merged' /\ Copied'
<1>1. Rearranged' BY DEF SInv, Rearranged
<1>2. Merged' BY DEF SInv, Merged, merges
<1>3. Copied' BY Zenon DEF SInv, Copied, Consumed, merges
<1> QED BY <1>1, <1>2, <1>3
\* main makes a thread, or fails to: nobody comes to the barrier or leaves it.
LEMMA CreateSInv == ASSUME SInv, Create \/ CreateFails PROVE SInv'
<1> USE SortAssumption DEF thread, merges
<1>1. UNCHANGED <<arrived, nums, merges, input>> BY DEF Create, CreateFails
<1>2. Rearranged' /\ Merged' /\ Copied' BY <1>1, NumbersStay
<1>3. main = "create" /\ main' \in {"create", "barrier", "failed"} BY DEF Create, CreateFails
<1>4. /\ \A t \in Thread : at'[t] = at[t] \/ (at[t] = "none" /\ at'[t] = "sort")
      /\ at' \in [Thread -> {"none", "sort", "arrive", "barrier", "end"}]
      /\ made' \in 0..NTHR /\ \A t \in Thread : made' <= t => at'[t] = "none"
  <2>1. CASE Create
    <3>1. made \in Thread /\ made' = made + 1 BY <2>1 DEF Create, SInv, SortTypeOK, Thread
    <3>2. at[made] = "none" BY <3>1 DEF SInv, Created, Thread
    <3>3. at' = [at EXCEPT ![made] = "sort"] BY <2>1 DEF Create
    <3>4. \A t \in Thread : made' <= t => made <= t /\ t # made BY <3>1 DEF Thread
    <3> QED BY <3>1, <3>2, <3>3, <3>4 DEF SInv, SortTypeOK, Created, Thread
  <2>2. CASE CreateFails BY <2>2 DEF CreateFails, SInv, SortTypeOK, Created
  <2> QED BY <2>1, <2>2
<1>5. SortTypeOK' BY <1>1, <1>3, <1>4 DEF SInv, SortTypeOK
<1>6. Created' BY <1>4 DEF Created
<1>7. Counted'
  <2>1. Arrived' = Arrived BY <1>4 DEF Arrived
  <2> QED BY <1>1, <1>3, <2>1 DEF SInv, Counted
<1>8. Ascending' BY <1>1, <1>4 DEF SInv, Ascending
<1>9. Bounds' BY <1>1, <1>3 DEF SInv, Bounds
<1> QED BY <1>2, <1>5, <1>6, <1>7, <1>8, <1>9 DEF SInv

\* A thread comes to the barrier or leaves it.
LEMMA BarrierSInv ==
  ASSUME SInv, NEW t \in Thread, Arrive(t) \/ LeaveBarrier(t)
  PROVE  SInv'
<1> USE SortAssumption DEF merges
<1>1. UNCHANGED <<main, made, nums, merges, input>> BY DEF Arrive, LeaveBarrier
<1>2. Rearranged' /\ Merged' /\ Copied' BY <1>1, NumbersStay
<1>3. Bounds' BY <1>1 DEF SInv, Bounds
<1>4. /\ at[t] \in {"arrive", "barrier"} /\ at'[t] \in {"barrier", "end"}
      /\ \A u \in Thread : u # t => at'[u] = at[u]
      /\ at' \in [Thread -> {"none", "sort", "arrive", "barrier", "end"}]
  BY DEF SInv, SortTypeOK, Arrive, LeaveBarrier
<1>5. Created' BY <1>1, <1>4 DEF SInv, Created
<1>6. Ascending' BY <1>1, <1>4 DEF SInv, Ascending
<1>7. Counted' /\ arrived' \in 0..NTHR + 1
  <2>1. CASE Arrive(t)
    <3>1. t \notin Arrived /\ Arrived \in SUBSET Thread BY <2>1 DEF Arrive, Arrived
    <3>2. Arrived' = Arrived \cup {t} BY <2>1, <1>4 DEF Arrived
    <3>3. Cardinality(Arrived') = Cardinality(Arrived) + 1 BY <3>1, <3>2, Counting
    <3>4. Arrived' \in SUBSET Thread BY DEF Arrived
    <3>5. Cardinality(Arrived') \in 0..NTHR BY <3>4, Counting
    <3>6. main \notin {"merge", "done"} BY <3>1 DEF SInv, Counted
    <3>7. arrived' = arrived + 1 BY <2>1 DEF Arrive
    <3>8. Cardinality(Arrived) \in Nat BY <3>1, Counting
    <3>9. arrived' = Cardinality(Arrived') + (IF main' \in {"wait", "merge", "done"} THEN 1 ELSE 0)
      BY <1>1, <3>3, <3>7, <3>8 DEF SInv, Counted
    <3> QED BY <1>1, <3>5, <3>6, <3>9 DEF Counted
  <2>2. CASE LeaveBarrier(t)
    <3>1. at[t] = "barrier" /\ at'[t] = "end" /\ arrived' = arrived
      BY <2>2 DEF LeaveBarrier, SInv, SortTypeOK
    <3>2. Arrived' = Arrived BY <1>4, <3>1 DEF Arrived
    <3> QED BY <1>1, <3>1, <3>2 DEF SInv, SortTypeOK, Counted
  <2> QED BY <2>1, <2>2
<1>8. SortTypeOK' BY <1>1, <1>4, <1>7 DEF SInv, SortTypeOK
<1> QED BY <1>2, <1>3, <1>5, <1>6, <1>7, <1>8 DEF SInv

\* main comes to the barrier, and leaves it only when every thread has come.
LEMMA MainSInv ==
  ASSUME SInv, MainArrives \/ MainLeaves \/ MergeEnds
  PROVE  SInv'
<1> USE SortAssumption DEF merges, thread
<1>1. UNCHANGED <<at, made, nums, merges, input>> BY DEF MainArrives, MainLeaves, MergeEnds
<1>2. Rearranged' /\ Merged' /\ Copied' BY <1>1, NumbersStay
<1>3. Created' BY <1>1 DEF SInv, Created
<1>4. Ascending' BY <1>1 DEF SInv, Ascending
<1>5. Arrived' = Arrived /\ Arrived \in SUBSET Thread BY <1>1 DEF Arrived
<1>6. Cardinality(Arrived) \in 0..NTHR /\ (Cardinality(Arrived) = NTHR => Arrived = Thread)
  BY <1>5, Counting
<1>7. CASE MainArrives
  <2>1. main = "barrier" /\ main' = "wait" /\ arrived' = arrived + 1 BY <1>7 DEF MainArrives
  <2>2. Counted' /\ arrived' \in 0..NTHR + 1 BY <1>5, <1>6, <2>1 DEF SInv, Counted
  <2>3. SortTypeOK' BY <1>1, <2>1, <2>2 DEF SInv, SortTypeOK
  <2>4. Bounds' BY <1>1, <2>1 DEF SInv, Bounds
  <2> QED BY <1>2, <1>3, <1>4, <2>2, <2>3, <2>4 DEF SInv
<1>8. CASE MainLeaves
  <2>1. main = "wait" /\ main' = "merge" /\ arrived' = arrived /\ arrived >= NTHR + 1
    BY <1>8 DEF MainLeaves, Count
  <2>2. Arrived = Thread BY <1>6, <2>1 DEF SInv, Counted
  <2>3. Counted' BY <1>5, <2>1, <2>2 DEF SInv, Counted
  <2>4. SortTypeOK' BY <1>1, <2>1 DEF SInv, SortTypeOK
  <2>5. Bounds' BY <1>1, <2>1 DEF SInv, Bounds
  <2> QED BY <1>2, <1>3, <1>4, <2>3, <2>4, <2>5 DEF SInv
<1>9. CASE MergeEnds
  <2>1. main = "merge" /\ main' = "done" /\ arrived' = arrived /\ sidx = NUMNUM
    BY <1>9 DEF MergeEnds
  <2>2. Counted' BY <1>5, <2>1 DEF SInv, Counted
  <2>3. SortTypeOK' BY <1>1, <2>1 DEF SInv, SortTypeOK
  <2>4. Bounds' BY <1>1, <2>1 DEF SInv, Bounds
  <2> QED BY <1>2, <1>3, <1>4, <2>2, <2>3, <2>4 DEF SInv
<1> QED BY <1>7, <1>8, <1>9
\* The numbers are integers.
LEMMA NumbersInt ==
  ASSUME SortTypeOK
  PROVE  \A i \in Index : nums[i] \in Int /\ nums[i] < LONG_MAX /\ 0 <= nums[i] /\ input[i] \in Int
<1>1. \A v \in Value : v \in Int /\ v < LONG_MAX /\ 0 <= v BY SortAssumption
<1> QED BY <1>1 DEF SortTypeOK

\* Two slices have no index in common, and each lies within nums.
LEMMA SlicesApart ==
  /\ \A t \in Thread : Slice(t) = t * TNUM .. t * TNUM + TNUM - 1 /\ Slice(t) \subseteq Index
  /\ \A t, u \in Thread : t # u => \A i \in Slice(t) : i \notin Slice(u)
<1>1. Thread \subseteq Int BY DEF Thread
<1>2. ASSUME NEW t \in Thread
      PROVE  Slice(t) = t * TNUM .. t * TNUM + TNUM - 1 /\ Slice(t) \subseteq Index
  <2>1. /\ t * TNUM \in Nat /\ (t + 1) * TNUM = t * TNUM + TNUM /\ t * TNUM + TNUM <= NUMNUM
        /\ NUMNUM \in Nat /\ TNUM \in Nat
    BY Slices
  <2>2. Slice(t) = t * TNUM .. t * TNUM + TNUM - 1 BY <2>1 DEF Slice
  <2>3. \A f, n, m \in Nat : f + n <= m => f..f + n - 1 \subseteq 0..m - 1 OBVIOUS
  <2> QED BY <2>1, <2>2, <2>3 DEF Index
<1>3. ASSUME NEW t \in Thread, NEW u \in Thread, t < u, NEW i \in Slice(t)
      PROVE  i \notin Slice(u)
  <2>1. t * TNUM \in Nat /\ u * TNUM \in Nat /\ t * TNUM + TNUM <= u * TNUM /\ TNUM \in Nat
    BY <1>3, Slices
  <2>2. \A f, g, n \in Nat : f + n <= g => \A j \in f..f + n - 1 : j \notin g..g + n - 1 OBVIOUS
  <2> QED BY <1>2, <1>3, <2>1, <2>2
<1>4. ASSUME NEW t \in Thread, NEW u \in Thread, t # u PROVE \A i \in Slice(t) : i \notin Slice(u)
  <2>1. t < u \/ u < t BY <1>1, <1>4
  <2> QED BY <1>3, <2>1
<1> QED BY <1>2, <1>4

\* qsort of a slice: the numbers are rearranged within it, and it is in order.
LEMMA SortSInv == ASSUME SInv, NEW t \in Thread, Sort(t) PROVE SInv'
<1> DEFINE s == Slice(t)
           f == t * TNUM
<1>0. SortTypeOK BY DEF SInv
<1>1. /\ UNCHANGED <<arrived, main, made, input>> /\ UNCHANGED <<snums, idx, minidx, sidx>>
      /\ at[t] = "sort" /\ at' = [at EXCEPT ![t] = "arrive"]
      /\ nums' = [i \in Index |-> IF i \in s THEN Sorted(nums, s, f)[i] ELSE nums[i]]
  BY DEF Sort, merges
<1>2. s = f..f + TNUM - 1 /\ s \subseteq Index BY SlicesApart
<1>3. f \in Int /\ TNUM \in Nat BY Slices
<1>4. \A i \in s : nums[i] \in Int BY <1>0, <1>2, NumbersInt
<1> HIDE DEF s, f
<1>5. PICK p \in Bijection(s, s) :
        /\ Sorted(nums, s, f) = [k \in s |-> nums[p[k]]]
        /\ \A k \in s : Rank(nums, s, p[k]) = k - f
        /\ \A k, l \in s : k <= l => nums[p[k]] <= nums[p[l]]
  <2>1. s = f..f + TNUM - 1 BY <1>2
  <2>2. f \in Int BY <1>3
  <2>3. TNUM \in Nat BY <1>3
  <2> QED BY <1>4, <2>1, <2>2, <2>3, SortedIs, ZenonT(30)
<1>6. /\ p \in [s -> s]
      /\ \A x, y \in s : p[x] = p[y] => x = y
      /\ \A y \in s : \E x \in s : p[x] = y
  BY BijectionFacts
<1> DEFINE h == [i \in Index |-> IF i \in s THEN p[i] ELSE i]
<1>7. h \in Bijection(Index, Index)
  <2>1. h \in [Index -> Index] BY <1>2, <1>6
  <2>2. \A a, b \in Index : h[a] = h[b] => a = b BY <1>6
  <2>3. \A y \in Index : \E x \in Index : h[x] = y
    <3> SUFFICES ASSUME NEW y \in Index PROVE \E x \in Index : h[x] = y
      OBVIOUS
    <3>1. CASE y \in s
      <4>1. PICK x \in s : p[x] = y BY <1>6, <3>1
      <4>2. x \in Index /\ h[x] = y BY <1>2, <4>1
      <4> QED BY <4>2
    <3>2. CASE y \notin s
      <4>1. h[y] = y BY <3>2
      <4> QED BY <4>1
    <3> QED BY <3>1, <3>2
  <2> HIDE DEF h
  <2> QED BY <2>1, <2>2, <2>3, BijectionIs
<1>8. \A i \in Index : h[i] \in Index /\ nums'[i] = nums[h[i]] BY <1>1, <1>2, <1>5, <1>6, Zenon
<1>9. nums' \in [Index -> Value]
  <2>1. nums' = [i \in Index |-> nums'[i]] BY <1>1
  <2> HIDE DEF h
  <2>2. \A i \in Index : nums'[i] \in Value BY <1>0, <1>8 DEF SortTypeOK
  <2> QED BY <2>1, <2>2
<1>10. Rearranged'
  <2>1. PICK g \in Bijection(Index, Index) : \A i \in Index : nums[i] = input[g[i]]
    BY DEF SInv, Rearranged
  <2> DEFINE e == [i \in Index |-> g[h[i]]]
  <2>2. e \in Bijection(Index, Index)
    <3> HIDE DEF h
    <3> QED BY <1>7, <2>1, BijectionsCompose
  <2>3. \A i \in Index : nums'[i] = input'[e[i]]
    <3> HIDE DEF h
    <3> QED BY <1>1, <1>8, <2>1
  <2> HIDE DEF e
  <2>4. \E d \in Bijection(Index, Index) : \A i \in Index : nums'[i] = input'[d[i]] BY <2>2, <2>3
  <2> QED BY <2>4 DEF Rearranged, Index, NUMNUM
<1>11. \A u \in Thread : u # t => at'[u] = at[u] /\ \A i \in Slice(u) : nums'[i] = nums[i]
  BY <1>0, <1>1, SlicesApart DEF SortTypeOK, s
<1>12. Ascending'
  <2> SUFFICES ASSUME NEW u \in Thread, at'[u] \in {"arrive", "barrier", "end"},
                      NEW i \in Slice(u), NEW j \in Slice(u), i <= j
               PROVE  nums'[i] <= nums'[j]
    BY DEF Ascending, Slice
  <2>1. CASE u = t
    <3>1. i \in s /\ j \in s BY <2>1 DEF s
    <3>2. nums'[i] = nums[p[i]] /\ nums'[j] = nums[p[j]] BY <1>1, <1>2, <1>5, <3>1, Zenon
    <3> QED BY <1>5, <3>1, <3>2
  <2>2. CASE u # t BY <1>11, <2>2 DEF SInv, Ascending
  <2> QED BY <2>1, <2>2
<1>13. t \notin Arrived /\ Arrived' = Arrived BY <1>0, <1>1 DEF Arrived, SortTypeOK
<1>14. main \notin {"merge", "done"} BY <1>13 DEF SInv, Counted
<1>15. Counted' BY <1>1, <1>13 DEF SInv, Counted
<1>16. Created' BY <1>0, <1>1 DEF SInv, Created, SortTypeOK
<1>17. SortTypeOK' BY <1>0, <1>1, <1>9 DEF SortTypeOK
<1>18. Bounds' BY <1>1 DEF SInv, Bounds
<1>19. sidx' = 0 /\ 0..sidx' - 1 = {} BY <1>1, <1>14 DEF SInv, Bounds
<1>20. Merged' BY <1>19 DEF Merged
<1>21. Copied'
  <2>1. Consumed' = Consumed BY <1>1, Zenon DEF Consumed
  <2>2. \E q \in Bijection(0..sidx' - 1, Consumed') : TRUE BY <1>1, <2>1 DEF SInv, Copied
  <2> QED BY <1>19, <2>2 DEF Copied
<1> QED BY <1>10, <1>12, <1>15, <1>16, <1>17, <1>18, <1>20, <1>21 DEF SInv
\* Where the next number of a slice is, and that merge would take it.
LEMMA NextNumber ==
  ASSUME SInv, NEW t \in Thread, idx[t] < (t + 1) * TNUM
  PROVE  idx[t] \in Slice(t) /\ idx[t] \in Index /\ nums[idx[t]] \in Nat /\ More(t)
<1>1. SortTypeOK /\ t * TNUM <= idx[t] BY DEF SInv, Bounds
<1>2. t * TNUM \in Nat /\ (t + 1) * TNUM = t * TNUM + TNUM /\ TNUM \in Nat BY Slices
<1>3. idx[t] \in Nat BY <1>1 DEF SortTypeOK
<1>4. idx[t] \in t * TNUM .. t * TNUM + TNUM - 1 BY <1>1, <1>2, <1>3
<1>5. idx[t] \in Slice(t) /\ idx[t] \in Index BY <1>4, SlicesApart, Zenon
<1>6. nums[idx[t]] \in Int /\ nums[idx[t]] < LONG_MAX /\ 0 <= nums[idx[t]] BY <1>1, <1>5, NumbersInt
<1> QED BY <1>5, <1>6 DEF More

\* The inner loop of merge finds one slice.
LEMMA BestExists ==
  ASSUME SInv, NEW t0 \in Thread, More(t0)
  PROVE  \E t \in Thread : Best(t)
<1> DEFINE V == {nums[idx[t]] : t \in {u \in Thread : More(u)}}
<1>1. \A u \in Thread : More(u) => nums[idx[u]] \in Nat BY NextNumber DEF More
<1>2. V \subseteq Nat /\ V # {} BY <1>1
<1>3. PICK m \in V : \A y \in V : m <= y
  <2> HIDE DEF V
  <2> QED BY <1>2, FirstNat, Zenon
<1> DEFINE T == {t \in Thread : More(t) /\ nums[idx[t]] = m}
<1>4. T \subseteq Nat /\ T # {}
  <2>1. T \subseteq Nat BY DEF Thread
  <2>2. T # {} BY <1>3
  <2> QED BY <2>1, <2>2
<1>5. PICK t \in T : \A y \in T : t <= y
  <2> HIDE DEF T
  <2> QED BY <1>4, FirstNat
<1>6. t \in Thread /\ More(t) /\ nums[idx[t]] = m BY <1>5
<1>7. ASSUME NEW u \in Thread, More(u)
      PROVE  \/ nums[idx[t]] < nums[idx[u]]
             \/ nums[idx[t]] = nums[idx[u]] /\ t <= u
  <2>1. nums[idx[u]] \in V /\ m <= nums[idx[u]] BY <1>3, <1>7
  <2>2. nums[idx[u]] = m => t <= u BY <1>5, <1>7
  <2>3. m \in Nat /\ nums[idx[u]] \in Nat BY <1>1, <1>2, <1>3, <1>7
  <2> QED BY <1>6, <2>1, <2>2, <2>3
<1> QED BY <1>6, <1>7 DEF Best

\* The first n indices are n.
LEMMA Interval ==
  \A n \in Nat : IsFiniteSet(0..n - 1) /\ Cardinality(0..n - 1) = n
<1> SUFFICES ASSUME NEW n \in Nat PROVE IsFiniteSet(0..n - 1) /\ Cardinality(0..n - 1) = n
  OBVIOUS
<1>1. 0 \in Int /\ n - 1 \in Int OBVIOUS
<1>2. /\ IsFiniteSet(0..n - 1)
      /\ Cardinality(0..n - 1) = IF 0 > n - 1 THEN 0 ELSE n - 1 - 0 + 1
  BY <1>1, FS_Interval
<1>3. CASE n = 0 BY <1>2, <1>3
<1>4. CASE n > 0 BY <1>2, <1>4
<1> QED BY <1>3, <1>4

\* As long as merge has not put NUMNUM numbers, some slice has one left.
LEMMA SomeLeft ==
  ASSUME SInv, sidx < NUMNUM
  PROVE  \E t \in Thread : More(t)
<1> SUFFICES ASSUME \A t \in Thread : ~ More(t) PROVE FALSE
  OBVIOUS
<1>0. NUMNUM \in Nat /\ sidx \in Nat BY Slices DEF SInv, SortTypeOK
<1>1. \A t \in Thread : ~ (idx[t] < (t + 1) * TNUM) BY NextNumber
<1>2. Consumed = Index
  <2> SUFFICES ASSUME NEW i \in Index PROVE \E t \in Thread : i \in t * TNUM .. idx[t] - 1
    BY DEF Consumed
  <2>1. PICK t \in Thread : t * TNUM <= i /\ i < t * TNUM + TNUM BY Slices
  <2>2. t * TNUM \in Nat /\ (t + 1) * TNUM = t * TNUM + TNUM /\ TNUM \in Nat BY Slices
  <2>3. idx[t] \in Nat /\ i \in Nat BY <1>0 DEF SInv, SortTypeOK, Index
  <2>4. ~ (idx[t] < t * TNUM + TNUM) BY <1>1, <2>2
  <2>5. i \in t * TNUM .. idx[t] - 1 BY <2>1, <2>2, <2>3, <2>4
  <2> QED BY <2>5
<1>3. ExistsBijection(0..sidx - 1, Index) BY <1>2, BijectionExists DEF SInv, Copied
<1>5. Cardinality(Index) = Cardinality(0..sidx - 1)
  <2>1. IsFiniteSet(0..sidx - 1) BY <1>0, Interval
  <2> QED BY <1>3, <2>1, FS_Bijection
<1>6. Cardinality(Index) = NUMNUM /\ Cardinality(0..sidx - 1) = sidx BY <1>0, Interval DEF Index
<1> QED BY <1>0, <1>5, <1>6
\* r is q and takes n to x.
Longer(r, q, n, C, x) ==
  r \in Bijection(0..n, C \cup {x}) /\ r[n] = x /\ \A k \in 0..n - 1 : r[k] = q[k]

\* A bijection from the first n indices takes one more.
LEMMA OneMore ==
  ASSUME NEW n \in Nat, NEW C, NEW q \in Bijection(0..n - 1, C), NEW x, x \notin C
  PROVE  \E r : Longer(r, q, n, C, x)
<1> DEFINE r == [k \in 0..n |-> IF k = n THEN x ELSE q[k]]
<1>1. /\ q \in [0..n - 1 -> C]
      /\ \A k, l \in 0..n - 1 : q[k] = q[l] => k = l
      /\ \A y \in C : \E k \in 0..n - 1 : q[k] = y
  BY BijectionFacts
<1>2. /\ n \in 0..n /\ n \notin 0..n - 1 /\ 0..n - 1 \subseteq 0..n
      /\ \A k \in 0..n : k = n \/ k \in 0..n - 1
  OBVIOUS
<1>3. r[n] = x /\ \A k \in 0..n - 1 : r[k] = q[k] /\ r[k] \in C BY <1>1, <1>2
<1>4. r \in [0..n -> C \cup {x}] BY <1>2, <1>3, Zenon
<1>5. \A k, l \in 0..n : r[k] = r[l] => k = l BY <1>1, <1>2, <1>3
<1>6. \A y \in C \cup {x} : \E k \in 0..n : r[k] = y BY <1>1, <1>2, <1>3
<1> HIDE DEF r
<1>7. r \in Bijection(0..n, C \cup {x}) BY <1>4, <1>5, <1>6, BijectionIs
<1>8. Longer(r, q, n, C, x) BY <1>3, <1>7 DEF Longer
<1> QED BY <1>8

\* What a step of merge does: it takes the number of the best slice.
LEMMA MergeTakes ==
  ASSUME SInv, MergeOne
  PROVE  \E t \in Thread :
           /\ Best(t) /\ main = "merge" /\ sidx < NUMNUM
           /\ minidx' = t /\ snums' = [snums EXCEPT ![sidx] = nums[idx[t]]]
           /\ idx' = [idx EXCEPT ![t] = @ + 1] /\ sidx' = sidx + 1
           /\ UNCHANGED <<at, arrived, main, made, nums, input>>
<1>1. main = "merge" /\ sidx <= NUMNUM - 1 BY DEF MergeOne, MergeUpTo
<1>2. sidx < NUMNUM
  <2>1. sidx \in Nat /\ NUMNUM \in Nat BY Slices DEF SInv, SortTypeOK
  <2> QED BY <1>1, <2>1
<1>3. PICK u \in Thread : More(u) BY <1>2, SomeLeft
<1> DEFINE t == CHOOSE v \in Thread : Best(v)
<1>4. t \in Thread /\ Best(t) BY <1>3, BestExists
<1>5. /\ minidx' = t /\ snums' = [snums EXCEPT ![sidx] = nums[idx[t]]]
      /\ idx' = [idx EXCEPT ![minidx'] = @ + 1] /\ sidx' = sidx + 1
      /\ UNCHANGED <<at, arrived, main, made, nums, input>>
  BY <1>3 DEF MergeOne, MergeUpTo, thread
<1> HIDE DEF t
<1> QED BY <1>1, <1>2, <1>4, <1>5, Zenon

\* The step of merge: what it takes was not taken before, and is the smallest left.
LEMMA MergeSInv == ASSUME SInv, MergeOne PROVE SInv'
<1>1. PICK t \in Thread :
        /\ Best(t) /\ main = "merge" /\ sidx < NUMNUM
        /\ minidx' = t /\ snums' = [snums EXCEPT ![sidx] = nums[idx[t]]]
        /\ idx' = [idx EXCEPT ![t] = @ + 1] /\ sidx' = sidx + 1
        /\ UNCHANGED <<at, arrived, main, made, nums, input>>
  BY MergeTakes
<1>2. SortTypeOK BY DEF SInv
<1>3. sidx \in Nat /\ NUMNUM \in Nat /\ sidx \in Index BY <1>1, <1>2, Slices DEF SortTypeOK, Index
<1>4. idx[t] < (t + 1) * TNUM BY <1>1 DEF Best, More
<1>5. idx[t] \in Slice(t) /\ idx[t] \in Index /\ nums[idx[t]] \in Nat BY <1>4, NextNumber
<1>6. idx[t] \in Nat /\ idx \in [Thread -> Nat] BY <1>2 DEF SortTypeOK
<1>7. /\ idx'[t] = idx[t] + 1
      /\ \A u \in Thread : u # t => idx'[u] = idx[u]
  BY <1>1, <1>6
<1>8. /\ snums'[sidx] = nums[idx[t]]
      /\ \A k \in 0..sidx - 1 : snums'[k] = snums[k]
  <2>1. DOMAIN snums = Index BY <1>2 DEF SortTypeOK
  <2>2. snums'[sidx] = nums[idx[t]] BY <1>1, <1>3, <2>1
  <2>3. \A k \in 0..sidx - 1 : k \in Index /\ k # sidx BY <1>1, <1>3 DEF Index
  <2>4. \A k \in 0..sidx - 1 : snums'[k] = snums[k] BY <1>1, <2>1, <2>3
  <2> QED BY <2>2, <2>4
<1>9. SortTypeOK'
  <2>1. snums' \in [Index -> 0..LONG_MAX]
    <3>1. nums[idx[t]] \in 0..LONG_MAX
      <4>1. nums[idx[t]] < LONG_MAX BY <1>2, <1>5, NumbersInt
      <4> QED BY <1>5, <4>1, Slices
    <3> QED BY <1>1, <1>2, <3>1, Zenon DEF SortTypeOK
  <2>2. idx' \in [Thread -> Nat]
    <3>1. idx[t] + 1 \in Nat BY <1>6
    <3> QED BY <1>1, <1>6, <3>1
  <2>3. sidx' \in 0..NUMNUM BY <1>1, <1>3
  <2> QED BY <1>1, <1>2, <2>1, <2>2, <2>3 DEF SortTypeOK
<1>10. Created' /\ Counted' /\ Ascending' /\ Rearranged'
  <2>1. Created' BY <1>1 DEF SInv, Created
  <2>2. Counted' BY <1>1 DEF SInv, Counted, Arrived
  <2>3. Ascending' BY <1>1 DEF SInv, Ascending
  <2>4. Rearranged' BY <1>1 DEF SInv, Rearranged
  <2> QED BY <2>1, <2>2, <2>3, <2>4
<1>11. Bounds'
  <2>1. ASSUME NEW u \in Thread PROVE u * TNUM <= idx'[u] /\ idx'[u] <= (u + 1) * TNUM
    <3>1. u * TNUM <= idx[u] /\ idx[u] <= (u + 1) * TNUM BY DEF SInv, Bounds
    <3>2. u * TNUM \in Nat /\ (u + 1) * TNUM = u * TNUM + TNUM /\ TNUM \in Nat BY Slices
    <3>3. CASE u # t BY <1>7, <3>1, <3>3
    <3>4. CASE u = t
      <4>1. t * TNUM <= idx[t] + 1 /\ idx[t] + 1 <= t * TNUM + TNUM
        BY <1>4, <1>6, <3>1, <3>2, <3>4
      <4> QED BY <1>7, <3>2, <3>4, <4>1
    <3> QED BY <3>3, <3>4
  <2> QED BY <1>1, <2>1 DEF Bounds
<1>12. \A u \in Thread : idx'[u] < (u + 1) * TNUM =>
         /\ idx[u] < (u + 1) * TNUM
         /\ nums[idx[t]] <= nums[idx'[u]] /\ nums[idx[u]] <= nums[idx'[u]]
  <2> SUFFICES ASSUME NEW u \in Thread, idx'[u] < (u + 1) * TNUM
               PROVE  /\ idx[u] < (u + 1) * TNUM
                      /\ nums[idx[t]] <= nums[idx'[u]] /\ nums[idx[u]] <= nums[idx'[u]]
    OBVIOUS
  <2>1. CASE u # t
    <3>1. idx'[u] = idx[u] /\ idx[u] < (u + 1) * TNUM BY <1>7, <2>1
    <3>2. More(u) /\ nums[idx[u]] \in Nat BY <3>1, NextNumber
    <3>3. nums[idx[t]] <= nums[idx[u]] BY <1>1, <1>5, <3>2 DEF Best
    <3> QED BY <3>1, <3>2, <3>3
  <2>2. CASE u = t
    <3>1. idx'[u] = idx[t] + 1 BY <1>7, <2>2
    <3>2. idx[t] + 1 < (t + 1) * TNUM BY <2>2, <3>1
    <3>3. t * TNUM \in Nat /\ (t + 1) * TNUM = t * TNUM + TNUM /\ TNUM \in Nat BY Slices
    <3>4. Slice(t) = t * TNUM .. t * TNUM + TNUM - 1 BY SlicesApart
    <3>5. idx[t] + 1 \in Slice(t) BY <1>5, <1>6, <3>2, <3>3, <3>4
    <3>6. t \in Arrived BY <1>1 DEF SInv, Counted
    <3>7. nums[idx[t]] <= nums[idx[t] + 1]
      <4>1. idx[t] <= idx[t] + 1 BY <1>6
      <4>2. at[t] \in {"arrive", "barrier", "end"} BY <3>6 DEF Arrived
      <4> QED BY <1>5, <3>5, <4>1, <4>2 DEF SInv, Ascending
    <3> QED BY <1>4, <2>2, <3>1, <3>7
  <2> QED BY <2>1, <2>2
<1>13. Merged'
  <2>0. \A k \in 0..sidx : k = sidx \/ k \in 0..sidx - 1 BY <1>3
  <2>1. ASSUME NEW k \in 0..sidx - 1 PROVE snums[k] \in Int /\ snums[k] <= nums[idx[t]]
    <3>1. k \in Index BY <1>1, <1>3 DEF Index
    <3>2. snums[k] \in Int BY <1>2, <3>1, Slices DEF SortTypeOK
    <3> QED BY <1>4, <3>2 DEF SInv, Merged
  <2>2. ASSUME NEW k \in 0..sidx, NEW l \in 0..sidx, k <= l PROVE snums'[k] <= snums'[l]
    <3>1. CASE l \in 0..sidx - 1
      <4>1. k \in 0..sidx - 1 BY <1>3, <2>2, <3>1
      <4> QED BY <1>8, <2>2, <3>1, <4>1 DEF SInv, Merged
    <3>2. CASE l = sidx
      <4>1. CASE k = sidx BY <1>5, <1>8, <3>2, <4>1
      <4>2. CASE k \in 0..sidx - 1 BY <1>8, <2>1, <3>2, <4>2
      <4> QED BY <2>0, <4>1, <4>2
    <3> QED BY <2>0, <3>1, <3>2
  <2>3. ASSUME NEW k \in 0..sidx, NEW u \in Thread, idx'[u] < (u + 1) * TNUM
        PROVE  snums'[k] <= nums[idx'[u]]
    <3>1. nums[idx[t]] <= nums[idx'[u]] BY <1>12, <2>3
    <3>2. CASE k = sidx BY <1>8, <3>1, <3>2
    <3>3. CASE k \in 0..sidx - 1
      <4>1. snums'[k] = snums[k] /\ snums[k] \in Int /\ snums[k] <= nums[idx[t]]
        BY <1>8, <2>1, <3>3
      <4>2. nums[idx'[u]] \in Int
        <5>1. idx'[u] \in Index
          <6>1. idx'[u] \in Nat BY <1>9 DEF SortTypeOK
          <6>2. u * TNUM <= idx'[u] BY <1>11 DEF Bounds
          <6>3. /\ u * TNUM \in Nat /\ (u + 1) * TNUM = u * TNUM + TNUM /\ TNUM \in Nat
                /\ u * TNUM + TNUM <= NUMNUM
            BY Slices
          <6> QED BY <1>3, <2>3, <6>1, <6>2, <6>3 DEF Index
        <5> QED BY <1>2, <5>1, NumbersInt
      <4> QED BY <1>5, <3>1, <4>1, <4>2
    <3> QED BY <2>0, <3>2, <3>3
  <2>4. sidx' - 1 = sidx BY <1>1, <1>3
  <2>5. nums' = nums BY <1>1
  <2> QED BY <2>2, <2>3, <2>4, <2>5 DEF Merged
<1>14. idx[t] \notin Consumed
  <2> SUFFICES ASSUME NEW u \in Thread, idx[t] \in u * TNUM .. idx[u] - 1 PROVE FALSE
    BY DEF Consumed
  <2>1. u * TNUM \in Nat /\ (u + 1) * TNUM = u * TNUM + TNUM /\ TNUM \in Nat BY Slices
  <2>2. idx[u] \in Nat /\ idx[u] <= (u + 1) * TNUM BY <1>6 DEF SInv, Bounds
  <2>3. idx[t] \in Slice(u) BY <1>6, <2>1, <2>2, SlicesApart
  <2>4. u = t BY <1>5, <2>3, SlicesApart
  <2> QED BY <1>6, <2>4
<1>15. Consumed' = Consumed \cup {idx[t]}
  <2>1. ASSUME NEW u \in Thread, u # t PROVE u * TNUM .. idx'[u] - 1 = u * TNUM .. idx[u] - 1
    BY <1>7, <2>1
  <2>2. t * TNUM .. idx'[t] - 1 = (t * TNUM .. idx[t] - 1) \cup {idx[t]}
    <3>1. t * TNUM \in Nat /\ t * TNUM <= idx[t] BY Slices DEF SInv, Bounds
    <3> QED BY <1>6, <1>7, <3>1
  <2>3. \A u \in Thread, i \in Index :
          i \in u * TNUM .. idx'[u] - 1 <=> i \in u * TNUM .. idx[u] - 1 \/ (u = t /\ i = idx[t])
    BY <2>1, <2>2, Zenon
  <2> QED BY <1>5, <2>3, ZenonT(30) DEF Consumed
<1>16. Copied'
  <2>1. PICK q \in Bijection(0..sidx - 1, Consumed) : \A k \in 0..sidx - 1 : snums[k] = nums[q[k]]
    BY DEF SInv, Copied
  <2>r. PICK r : Longer(r, q, sidx, Consumed, idx[t]) BY <1>3, <1>14, OneMore
  <2>2. /\ r \in Bijection(0..sidx, Consumed \cup {idx[t]})
        /\ r[sidx] = idx[t] /\ \A k \in 0..sidx - 1 : r[k] = q[k]
    BY <2>r DEF Longer
  <2>3. ASSUME NEW k \in 0..sidx PROVE snums'[k] = nums[r[k]]
    <3>1. k = sidx \/ k \in 0..sidx - 1 BY <1>3
    <3> QED BY <1>8, <2>1, <2>2, <3>1, Zenon
  <2>4. sidx' - 1 = sidx /\ nums' = nums BY <1>1, <1>3
  <2>5. r \in Bijection(0..sidx' - 1, Consumed') BY <1>15, <2>2, <2>4, Zenon
  <2>6. \A k \in 0..sidx' - 1 : snums'[k] = nums'[r[k]] BY <2>3, <2>4
  <2> QED BY <2>5, <2>6, Zenon DEF Copied
<1> QED BY <1>9, <1>10, <1>11, <1>13, <1>16 DEF SInv
LEMMA StepSInv == SInv /\ [SortNext]_sortVars => SInv'
<1> SUFFICES ASSUME SInv, [SortNext]_sortVars PROVE SInv'
  OBVIOUS
<1>1. CASE Create \/ CreateFails BY <1>1, CreateSInv
<1>2. CASE MainArrives \/ MainLeaves \/ MergeEnds BY <1>2, MainSInv
<1>3. CASE MergeOne BY <1>3, MergeSInv
<1>4. ASSUME NEW t \in Thread, Sort(t) PROVE SInv' BY <1>4, SortSInv
<1>5. ASSUME NEW t \in Thread, Arrive(t) \/ LeaveBarrier(t) PROVE SInv' BY <1>5, BarrierSInv
<1>6. CASE UNCHANGED sortVars
  <2>1. UNCHANGED <<at, arrived, main, made, nums, snums, idx, minidx, sidx, input>>
    BY <1>6 DEF sortVars, thread, merges
  <2>2. SortTypeOK' BY <2>1 DEF SInv, SortTypeOK
  <2>3. Created' /\ Ascending' BY <2>1 DEF SInv, Created, Ascending
  <2>4. Counted' BY <2>1 DEF SInv, Counted, Arrived
  <2>5. Bounds' BY <2>1 DEF SInv, Bounds
  <2>6. Rearranged' /\ Merged' /\ Copied' BY <2>1, NumbersStay DEF merges
  <2> QED BY <2>2, <2>3, <2>4, <2>5, <2>6 DEF SInv
<1> QED BY <1>1, <1>2, <1>3, <1>4, <1>5, <1>6 DEF SortNext, Main, Thr

\* The invariant the result rests on: what thr_fn, the barrier and merge have done
\* so far, for any number of threads, size of a slice and numbers.
THEOREM SortInvariance == SortSpec => []SInv
<1> QED BY InitSInv, StepSInv, PTL DEF SortSpec

\* What merge has put is what it has taken, counted by value.
LEMMA TakenCounts ==
  ASSUME SInv, NEW v
  PROVE  Cardinality({i \in 0..sidx - 1 : snums[i] = v})
           = Cardinality({i \in Index : nums[i] = v /\ \E t \in Thread : i \in t * TNUM..idx[t] - 1})
<1> DEFINE A == {i \in 0..sidx - 1 : snums[i] = v}
           B == {i \in Index : nums[i] = v /\ \E t \in Thread : i \in t * TNUM..idx[t] - 1}
<1>1. PICK q \in Bijection(0..sidx - 1, Consumed) : \A k \in 0..sidx - 1 : snums[k] = nums[q[k]]
  BY DEF SInv, Copied
<1>2. B = {i \in Consumed : nums[i] = v} BY DEF Consumed
<1>3. q \in [0..sidx - 1 -> Consumed] BY BijectionFacts, Zenon
<1>4. A \in SUBSET (0..sidx - 1) /\ B \in SUBSET Consumed BY <1>2
<1>5. \A k \in 0..sidx - 1 : k \in A <=> q[k] \in B BY <1>1, <1>2, <1>3
<1>6. IsFiniteSet(0..sidx - 1) BY Interval DEF SInv, SortTypeOK
<1>7. Cardinality(A) = Cardinality(B)
  <2> DEFINE S == 0..sidx - 1
  <2>1. q \in Bijection(S, Consumed) BY <1>1
  <2>2. Correspond(A, B, q, S, Consumed) BY <1>4, <1>5 DEF Correspond
  <2>3. IsFiniteSet(S) BY <1>6
  <2> HIDE DEF A, B, S
  <2> QED BY <2>1, <2>2, <2>3, PartsCount
<1> QED BY <1>7

\* At the end merge has taken every number once.
LEMMA AllTaken ==
  ASSUME SInv, main = "done"
  PROVE  sidx = NUMNUM /\ Consumed = Index
<1>1. sidx = NUMNUM /\ NUMNUM \in Nat BY Slices DEF SInv, Bounds
<1>2. IsFiniteSet(Index) /\ Cardinality(Index) = NUMNUM BY <1>1, Interval DEF Index
<1>3. ExistsBijection(0..sidx - 1, Consumed) BY BijectionExists DEF SInv, Copied
<1>4. Cardinality(Consumed) = NUMNUM
  <2>1. IsFiniteSet(0..sidx - 1) /\ Cardinality(0..sidx - 1) = NUMNUM BY <1>1, Interval
  <2> QED BY <1>3, <2>1, FS_Bijection
<1>5. Consumed \in SUBSET Index BY DEF Consumed
<1>6. Consumed = Index BY <1>2, <1>4, <1>5, FS_Subset
<1> QED BY <1>1, <1>6

\* The end: snums is the input in ascending order.
LEMMA DoneSorted == ASSUME SInv, main = "done" PROVE snums = NormQsort
<1>0. NUMNUM \in Nat /\ SortTypeOK /\ Index = 0..NUMNUM - 1 BY Slices DEF SInv, Index
<1>1. sidx = NUMNUM /\ Consumed = Index BY AllTaken
<1>2. PICK q \in Bijection(Index, Index) : \A k \in Index : snums[k] = nums[q[k]]
  BY <1>0, <1>1 DEF SInv, Copied
<1>3. PICK p \in Bijection(Index, Index) : \A i \in Index : nums[i] = input[p[i]]
  BY DEF SInv, Rearranged
<1> DEFINE r == [k \in Index |-> p[q[k]]]
<1>4. q \in [Index -> Index] /\ p \in [Index -> Index] BY BijectionFacts
<1>5. r \in Bijection(Index, Index) BY BijectionsCompose
<1>6. snums = [k \in Index |-> input[r[k]]]
  <2>1. \A k \in Index : snums[k] = input[r[k]] BY <1>2, <1>3, <1>4
  <2> HIDE DEF r
  <2> QED BY <1>0, <2>1 DEF SortTypeOK
<1>7. \A i \in Index : input[i] \in Int BY <1>0, NumbersInt
<1>8. OrderedOn(snums, Index) BY <1>0, <1>1 DEF SInv, Merged, OrderedOn
<1> HIDE DEF r
<1>9. SortedBy(snums, input, r, 0..NUMNUM - 1) BY <1>0, <1>5, <1>6, <1>7, <1>8, Zenon DEF SortedBy
<1>10. snums = Sorted(input, 0..NUMNUM - 1, 0) BY <1>0, <1>9, SortedUnique
<1> QED BY <1>0, <1>10 DEF NormQsort

\* What barrier_sort.c prints is what norm_qsort.c does, the numbers it began with in
\* ascending order, for any number of threads, size of a slice and numbers; and merge
\* reads only sorted slices, stays within them and takes each number once.
THEOREM ResultCorrect == SortSpec => []Result
<1>1. SInv => Result
  <2> SUFFICES ASSUME SInv PROVE Result
    OBVIOUS
  <2>1. SortTypeOK BY DEF SInv
  <2>2. main \in {"merge", "done"} => \A t \in Thread : at[t] \in {"barrier", "end"}
    BY DEF SInv, Counted, Arrived
  <2>3. \A t \in Thread : t * TNUM <= idx[t] /\ idx[t] <= (t + 1) * TNUM BY DEF SInv, Bounds
  <2>4. sidx > 0 => \A t \in Thread : idx[t] < (t + 1) * TNUM => snums[sidx - 1] <= nums[idx[t]]
    <3>1. sidx \in Nat BY <2>1, Slices DEF SortTypeOK
    <3>2. sidx > 0 => sidx - 1 \in 0..sidx - 1 BY <3>1
    <3> QED BY <3>2 DEF SInv, Merged
  <2>5. \A v \in Value : Cardinality({i \in 0..sidx - 1 : snums[i] = v})
          = Cardinality({i \in Index : nums[i] = v /\ \E t \in Thread : i \in t * TNUM..idx[t] - 1})
    BY TakenCounts, Zenon
  <2>6. MergeInv BY <2>1, <2>2, <2>3, <2>4, <2>5 DEF MergeInv
  <2> QED BY <2>6, DoneSorted DEF Result
<1> QED BY <1>1, SortInvariance, PTL
=============================================================================
