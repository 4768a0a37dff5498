----------------------------- MODULE LockDeadlock -----------------------------
(***************************************************************************)
(* flock/deadlock.c with tell_wait.c and the record locks of lock_reg.c:   *)
(* parent and child lock one byte each, tell each other over two pipes,    *)
(* and then each waits for the byte of the other.  fcntl(F_SETLKW) refuses *)
(* the request that would close a circle with EDEADLK, which ends the      *)
(* process that made it and so frees its byte.  Any call may fail and a    *)
(* process may be killed at any point.  The program may be run more than   *)
(* once at a time in a directory: the runs share the file "tmplock".       *)
(*                                                                         *)
(* proc_demos/race_cond.c has the same meeting over one pipe and without   *)
(* locks: the parent prints only when the child has.                       *)
(***************************************************************************)
EXTENDS Integers, Sequences

CONSTANTS Run,   \* the runs of the program
          Chars, \* how many characters charatatime prints
          None   \* no process

Process == Run \X {"parent", "child"}

ASSUME LockAssumption == Chars \in Nat \ {0} /\ None \notin Process

Byte    == {0, 1}

IsParent(p) == p[2] = "parent"
Peer(p)   == <<p[1], IF IsParent(p) THEN "child" ELSE "parent">>
First(p)  == IF IsParent(p) THEN 1 ELSE 0       \* the byte p locks before the meeting
Second(p) == 1 - First(p)
Letter(p) == IF IsParent(p) THEN "c" ELSE "p"   \* what p writes to its peer

VARIABLES
  prog,    \* "deadlock" or "race_cond"
  pc,      \* the next call of each process; "blocked" is inside lockabyte
  how,     \* how each process ended
  owner,   \* the process that has the write lock on each byte
  waits,   \* the byte for which F_SETLKW keeps a process waiting, or -1
  pipe,    \* the bytes on their way to each process: pipefd1 and pipefd2, or pipefd
  printed  \* of race_cond: how many characters each process has printed

rest == <<prog, printed>>
vars == <<pc, how, owner, waits, pipe, rest>>

\* After creat, write, TELL_WAIT and fork, or tell_wait and fork; a failure of these
\* ends the program.
Init ==
  /\ prog \in {"deadlock", "race_cond"}
  /\ pc = [p \in Process |-> IF prog = "deadlock" THEN "lock_first" ELSE IF IsParent(p) THEN "wait" ELSE "print"]
  /\ how = [p \in Process |-> "running"]
  /\ owner = [b \in Byte |-> None]
  /\ waits = [p \in Process |-> -1]
  /\ pipe = [p \in Process |-> <<>>]
  /\ printed = [p \in Process |-> 0]

Goto(p, label) == pc' = [pc EXCEPT ![p] = label]

\* A process that ends gives up its locks.  Its peer still has both ends of
\* every pipe, so nothing tells the peer.
End(p, why) ==
  /\ Goto(p, "ended")
  /\ how' = [how EXCEPT ![p] = why]
  /\ owner' = [b \in Byte |-> IF owner[b] = p THEN None ELSE owner[b]]
  /\ waits' = [waits EXCEPT ![p] = -1]
  /\ UNCHANGED <<pipe, rest>>

\* The byte of the lockabyte a process is in, and what comes after it.
Want(p) == IF pc[p] = "lock_first" THEN First(p)
           ELSE IF pc[p] = "blocked" THEN waits[p] ELSE Second(p)
Then(p) == IF Want(p) = First(p) THEN "tell" ELSE "return"

Taken(p)  == owner[Want(p)] \notin {None, p}
\* Would p, waiting for its byte, close a circle?
Circle(p) == LET q == owner[Want(p)] IN waits[q] # -1 /\ owner[waits[q]] = p

\* lockabyte: writew_lock is granted, perhaps after a wait, or waits, or fails.
LockGranted(p) ==
  /\ pc[p] \in {"lock_first", "lock_second", "blocked"} /\ ~ Taken(p)
  /\ owner' = [owner EXCEPT ![Want(p)] = p]
  /\ waits' = [waits EXCEPT ![p] = -1]
  /\ Goto(p, Then(p))
  /\ UNCHANGED <<how, pipe, rest>>

BugWaits(p) ==
  /\ pc[p] \in {"lock_first", "lock_second"} /\ Taken(p)
  /\ waits' = [waits EXCEPT ![p] = Want(p)]
  /\ Goto(p, "blocked")
  /\ UNCHANGED <<how, owner, pipe, rest>>
LockWaits(p) ==
  /\ pc[p] \in {"lock_first", "lock_second"} /\ Taken(p) /\ ~ Circle(p)
  /\ waits' = [waits EXCEPT ![p] = Want(p)]
  /\ Goto(p, "blocked")
  /\ UNCHANGED <<how, owner, pipe, rest>>

BugRefused(p) ==
  /\ pc[p] \in {"lock_first", "lock_second"} /\ Taken(p) /\ Circle(p)
  /\ UNCHANGED vars
LockRefused(p) ==
  /\ pc[p] \in {"lock_first", "lock_second"} /\ Taken(p) /\ Circle(p)
  /\ End(p, "EDEADLK")

\* _tell_child, _tell_parent: one letter into the pipe.
TellAs(pr, p, next) ==
  /\ prog = pr /\ pc[p] = "tell"
  /\ pipe' = [pipe EXCEPT ![Peer(p)] = Append(@, Letter(p))]
  /\ Goto(p, next)
  /\ UNCHANGED <<how, owner, waits, rest>>
BugHasty(p) == TellAs("deadlock", p, "lock_second")
Tell(p)     == TellAs("deadlock", p, "wait")

\* _wait_child, _wait_parent: read one letter, which must be the peer's.
WaitAs(pr, p, next) ==
  /\ prog = pr /\ pc[p] = "wait" /\ pipe[p] # <<>>
  /\ IF Head(pipe[p]) = Letter(Peer(p))
     THEN /\ pipe' = [pipe EXCEPT ![p] = Tail(@)]
          /\ Goto(p, next)
          /\ UNCHANGED <<how, owner, waits, rest>>
     ELSE End(p, "wrong_letter")
Wait(p) == WaitAs("deadlock", p, "lock_second")

\* race_cond: charatatime, tell_parent and wait_child.
charatatime(p) ==
  /\ pc[p] = "print" /\ prog = "race_cond"
  /\ printed' = [printed EXCEPT ![p] = @ + 1]
  /\ Goto(p, IF printed'[p] < Chars THEN "print" ELSE IF IsParent(p) THEN "return" ELSE "tell")
  /\ UNCHANGED <<prog, how, owner, waits, pipe>>
tell_parent(p) == TellAs("race_cond", p, "return")
wait_child(p)  == WaitAs("race_cond", p, "print")

Return(p) == pc[p] = "return" /\ End(p, "done")

\* fcntl, write or read fails for a reason of its own, or the process is killed.
Fault(p) == pc[p] # "ended" /\ End(p, "fault")

Step(p) == \/ LockGranted(p) \/ LockWaits(p) \/ LockRefused(p)
           \/ Tell(p) \/ Wait(p) \/ Return(p)
           \/ charatatime(p) \/ tell_parent(p) \/ wait_child(p)

Next == \E p \in Process : Step(p) \/ Fault(p)
Spec == Init /\ [][Next]_vars /\ \A p \in Process : WF_vars(Step(p))
-----------------------------------------------------------------------------
TypeOK ==
  /\ pc \in [Process -> {"lock_first", "tell", "wait", "lock_second", "blocked", "return", "ended",
                        "print"}]
  /\ prog \in {"deadlock", "race_cond"} /\ printed \in [Process -> 0..Chars]
  /\ how \in [Process -> {"running", "EDEADLK", "wrong_letter", "done", "fault"}]
  /\ owner \in [Byte -> Process \cup {None}]
  /\ waits \in [Process -> Byte \cup {-1}]
  /\ pipe \in [Process -> Seq({"p", "c"})]
  /\ \A p \in Process : /\ Len(pipe[p]) <= 1
                        /\ pc[p] = "blocked" <=> waits[p] # -1
                        /\ pc[p] = "ended" <=> how[p] # "running"

\* What the letters are for: in deadlock nobody asks for its second byte before the
\* other has had its first, and in race_cond the parent prints nothing before the
\* child has printed all its characters.
Meets == \A p \in Process :
  /\ prog = "deadlock" /\ (pc[p] \in {"lock_second", "return"} \/ waits[p] = Second(p)) =>
       pc[Peer(p)] \notin {"lock_first", "tell"}
  /\ IsParent(p) /\ printed[p] > 0 => printed[Peer(p)] = Chars

\* When a run of deadlock ends and nothing failed in it, one of its processes was refused
\* with EDEADLK and the other got both bytes: the deadlock the program is named
\* for always happens, and always costs exactly one of the two.  The letter that is
\* read is the one the other wrote, and says what it is for: neither ends with
\* "wait parent error", and they Meet.
OneRefused == TypeOK /\ Meets /\ \A r \in Run :
  LET ends == {how[p] : p \in {r} \X {"parent", "child"}}
  IN  /\ "wrong_letter" \notin ends
      /\ prog = "deadlock" /\ ends \subseteq {"EDEADLK", "done"} => ends = {"EDEADLK", "done"}

\* The processes that wait for one another, through bytes or letters, or for
\* the letter of one that is no more.
Waiting(p)     == pc[p] = "blocked" \/ (pc[p] = "wait" /\ pipe[p] = <<>>)
WaitsOn(p)     == IF pc[p] = "blocked" THEN owner[waits[p]] ELSE Peer(p)
Orphan(p)      == pc[p] = "wait" /\ pipe[p] = <<>> /\ how[Peer(p)] # "running"
Doomed         == UNION {S \in SUBSET Process :
                           \A p \in S : Waiting(p) /\ (Orphan(p) \/ WaitsOn(p) \in S)}

\* A run that is alone and meets no failure never hangs: fcntl refuses a circle
\* of bytes, and only two runs can be entangled through bytes and letters.
HangNeedsTwoRuns ==
  \/ Doomed = {}
  \/ \E p \in Doomed : how[Peer(p)] = "fault"
  \/ \E p, q \in Doomed : p[1] # q[1]

\* Apart from those hangs every wait, for a byte or for a letter, ends.
WaitEnds == \A p \in Process :
  pc[p] \in {"wait", "blocked"} ~> pc[p] \notin {"wait", "blocked"} \/ p \in Doomed
=============================================================================
