------------------------------- MODULE Threads -------------------------------
(***************************************************************************)
(* Six small programs of directory pthread in which main and one or two    *)
(* threads wait for each other.                                            *)
(*   pthread_signal    main waits on a condition until a thread, which     *)
(*                     takes all signals with sigwait, has met SIGQUIT     *)
(*   condition_signal  process_task waits for the task of enqueue_msg      *)
(*   recursive_lock    main spins until a timer thread, made by makethread *)
(*                     of pthread_functions.c, has set flag                *)
(*   pthread_cancel    thr_fn2 cancels thr_fn1 while main joins it         *)
(*   pthread_cleanup, pthread_exit   main joins a thread that returns and  *)
(*                     one that calls pthread_exit                         *)
(* t1 is the thread made first and t2 the second.  A thread is at "none"   *)
(* until it exists and begins at "start".  Calls fail where the code has   *)
(* them fail, signals come to pthread_signal at any time and cond_wait may *)
(* return without reason.                                                  *)
(***************************************************************************)
EXTENDS Integers, Sequences

CONSTANTS MaxSignals,   \* bound on the signals sent
          MaxSpurious   \* bound on the returns of cond_wait without reason

ASSUME SignalAssumption == MaxSignals \in Nat /\ MaxSpurious \in Nat

Signal == {"INT", "QUIT", "USR1"}   \* USR1 stands for those thr_fn does not expect
Thread == {"main", "t1", "t2"}
Prog   == {"pthread_signal", "condition_signal", "recursive_lock", "pthread_cancel",
           "pthread_cleanup", "pthread_exit"}

VARIABLES
  prog,
  pc,        \* the next statement of each thread; "waiting" is inside cond_wait
  how,       \* "running", or how the process ended
  owner,     \* who holds lock or qlock, or "none"
  flag,      \* quitflag; tp # NULL; flag; of pthread_cancel: is t1 to be canceled?
  tip,       \* of recursive_lock: the struct to_info, "none", "live" or "freed"
  blocked,   \* of pthread_signal: does main block signals?
  pending, sent, spurious,
  met,       \* of pthread_signal: has sigwait returned SIGQUIT?
  stack,     \* the cleanup handlers of each thread, the last pushed first
  ran,       \* those that have run
  status,    \* what each thread ended with
  told       \* the statuses main got from pthread_join; "unset" if it failed

handed  == <<owner, flag, tip>>
signals == <<blocked, pending, sent, spurious, met>>
ends    == <<stack, ran, status, told>>
vars    == <<prog, pc, how, handed, signals, ends>>

Init ==
  /\ prog \in Prog
  /\ pc = [t \in Thread |-> IF t # "main" THEN "none"
                            ELSE IF prog \in {"pthread_signal", "recursive_lock"} THEN "init" ELSE "create1"]
  /\ how = "running" /\ owner = "none" /\ flag = 0 /\ tip = "none"
  /\ blocked = FALSE /\ pending = {} /\ sent = 0 /\ spurious = 0 /\ met = FALSE
  /\ stack = [t \in Thread |-> <<>>] /\ ran = [t \in Thread |-> <<>>]
  /\ status = [t \in Thread |-> "none"] /\ told = <<>>
-----------------------------------------------------------------------------
(* What the programs are made of.                                          *)

At(p, t, label)      == prog = p /\ how = "running" /\ pc[t] = label
Step(p, t, from, to) == At(p, t, from) /\ pc' = [pc EXCEPT ![t] = to] /\ UNCHANGED prog
Go(p, t, from, to)   == Step(p, t, from, to) /\ UNCHANGED <<how, handed, signals, ends>>

\* The process ends, and every thread with it.
Ends(p, t, from, why) ==
  /\ At(p, t, from) /\ how' = why
  /\ UNCHANGED <<prog, pc, handed, signals, ends>>

Create(p, from, t, to) ==
  /\ At(p, "main", from) /\ pc' = [pc EXCEPT !["main"] = to, ![t] = "start"]
  /\ UNCHANGED <<prog, how, handed, signals, ends>>

LockIf(free, p, t, from, to) ==
  /\ Step(p, t, from, to) /\ (free => owner = "none") /\ owner' = t
  /\ UNCHANGED <<how, flag, tip, signals, ends>>
Lock(p, t, from, to) == LockIf(TRUE, p, t, from, to)
Unlock(p, t, from, to) ==
  /\ Step(p, t, from, to) /\ owner' = "none"
  /\ UNCHANGED <<how, flag, tip, signals, ends>>
Set(p, t, from, to) ==
  /\ Step(p, t, from, to) /\ flag' = 1
  /\ UNCHANGED <<how, owner, tip, signals, ends>>

\* while (no flag) pthread_cond_wait: the lock is given up in one step with
\* going to wait, and taken again at "lock".
CondTest(p, t, to) ==
  /\ Step(p, t, "test", IF flag = 0 THEN "waiting" ELSE to)
  /\ owner' = IF flag = 0 THEN "none" ELSE owner
  /\ UNCHANGED <<how, flag, tip, signals, ends>>
CondSignal(p, t, waiter) ==
  /\ At(p, t, "signal")
  /\ pc' = [pc EXCEPT ![t] = "returned", ![waiter] = IF @ = "waiting" THEN "lock" ELSE @]
  /\ status' = [status EXCEPT ![t] = "0"]
  /\ UNCHANGED <<prog, how, handed, signals, stack, ran, told>>

Push(p, t, from, to) ==
  /\ Step(p, t, from, to) /\ stack' = [stack EXCEPT ![t] = <<"second", "first">>]
  /\ UNCHANGED <<how, handed, signals, ran, status, told>>
End(p, t, from, value) ==
  /\ Step(p, t, from, "returned") /\ status' = [status EXCEPT ![t] = value]
  /\ stack' = [stack EXCEPT ![t] = <<>>]
  /\ UNCHANGED <<how, handed, signals, ran, told>>
\* pthread_exit and cancellation run the handlers, the last pushed first.
Unwind(t, value) ==
  /\ IF stack[t] = <<>>
     THEN /\ pc' = [pc EXCEPT ![t] = "exited"] /\ status' = [status EXCEPT ![t] = value]
          /\ UNCHANGED <<stack, ran>>
     ELSE /\ ran' = [ran EXCEPT ![t] = Append(@, Head(stack[t]))]
          /\ stack' = [stack EXCEPT ![t] = Tail(@)]
          /\ UNCHANGED <<pc, status>>
  /\ UNCHANGED <<prog, how, handed, signals, told>>

\* pthread_join.  A thread that could not be created has no valid id: the call
\* fails and sets no status, or crashes.
Join(p, from, t, to) ==
  \/ /\ Step(p, "main", from, to) /\ pc[t] \in {"none", "returned", "exited"}
     /\ told' = Append(told, IF pc[t] = "none" THEN "unset" ELSE status[t])
     /\ UNCHANGED <<how, handed, signals, stack, ran, status>>
  \/ pc[t] = "none" /\ Ends(p, "main", from, "crash")
-----------------------------------------------------------------------------
(* pthread_signal.                                                         *)

PsMaskAs(all) ==
  /\ Step("pthread_signal", "main", "init", "create1") /\ blocked' = all
  /\ UNCHANGED <<how, handed, pending, sent, spurious, met, ends>>
BugPsBlock == PsMaskAs(FALSE)
PsBlock    == PsMaskAs(TRUE)
PsCreate   == Create("pthread_signal", "create1", "t1", "lock")
PsLock     == Lock("pthread_signal", "main", "lock", "test")
PsTest     == CondTest("pthread_signal", "main", "restore")
\* The old mask comes back: what is pending strikes, or main returns.
PsRestore ==
  /\ Step("pthread_signal", "main", "restore", "return") /\ blocked' = FALSE
  /\ how' = IF pending = {} THEN "running" ELSE "killed"
  /\ UNCHANGED <<handed, pending, sent, spurious, met, ends>>
PsReturn == Ends("pthread_signal", "main", "return", "return")
PsFails  == \E l \in {"init", "create1", "restore"} : Ends("pthread_signal", "main", l, "exit")

\* sigwait and the switch: SIGINT is printed, SIGQUIT goes on to the lock, any
\* other ends the process.
PsSigWait == \E s \in pending :
  /\ Step("pthread_signal", "t1", "start", IF s = "QUIT" THEN "lock" ELSE "start")
  /\ pending' = pending \ {s}
  /\ how' = IF s \in {"INT", "QUIT"} THEN "running" ELSE "exit"
  /\ met' = (met \/ s = "QUIT")
  /\ UNCHANGED <<handed, blocked, sent, spurious, ends>>
PsThrLock       == Lock("pthread_signal", "t1", "lock", "set")
PsSetFlag       == Set("pthread_signal", "t1", "set", "unlock")
PsUnlock        == Unlock("pthread_signal", "t1", "unlock", "signal")
BugPsCondSignal == Go("pthread_signal", "t1", "signal", "returned")
PsCondSignal    == CondSignal("pthread_signal", "t1", "main")

PsSend(s) ==
  /\ prog = "pthread_signal" /\ how = "running" /\ sent < MaxSignals
  /\ sent' = sent + 1
  /\ IF blocked THEN pending' = pending \cup {s} /\ UNCHANGED how
                ELSE how' = "killed" /\ UNCHANGED pending
  /\ UNCHANGED <<prog, pc, handed, blocked, spurious, met, ends>>
-----------------------------------------------------------------------------
(* condition_signal: t1 is process_task, t2 is enqueue_msg.                *)

CsCreate1 == Create("condition_signal", "create1", "t1", "create2")
CsCreate2 == Create("condition_signal", "create2", "t2", "join1")
CsJoin1   == Join("condition_signal", "join1", "t1", "join2")
CsJoin2   == Join("condition_signal", "join2", "t2", "return")
CsReturn  == Ends("condition_signal", "main", "return", "return")
CsFails   == \E l \in {"create1", "create2", "join1", "join2"} : Ends("condition_signal", "main", l, "exit")

BugPtLock == LockIf(FALSE, "condition_signal", "t1", "start", "test")
PtLock    == Lock("condition_signal", "t1", "start", "test")
PtRelock  == Lock("condition_signal", "t1", "lock", "test")
PtTest    == CondTest("condition_signal", "t1", "use")
PtPrint   == Go("condition_signal", "t1", "use", "unlock")
PtUnlock  == Unlock("condition_signal", "t1", "unlock", "end")
PtReturn  == End("condition_signal", "t1", "end", "0")

EmLock    == Lock("condition_signal", "t2", "start", "malloc")
\* tp is set before the message is copied to it; without memory the copy crashes.
EmMalloc  == Set("condition_signal", "t2", "malloc", "copy") \/ Ends("condition_signal", "t2", "malloc", "crash")
EmCopy    == Go("condition_signal", "t2", "copy", "unlock")
EmUnlock  == Unlock("condition_signal", "t2", "unlock", "signal")
EmSignal  == CondSignal("condition_signal", "t2", "t1")
-----------------------------------------------------------------------------
(* recursive_lock: t1 is timer_helper, which calls retry.                  *)

RlInit  == Go("recursive_lock", "main", "init", "lock") \/ Ends("recursive_lock", "main", "init", "exit")
RlLock  == Lock("recursive_lock", "main", "lock", "timeout")
\* timeout without memory does nothing.
Timeout == \E got \in {"none", "live"} :
  /\ Step("recursive_lock", "main", "timeout", IF got = "live" THEN "makethread" ELSE "unlock")
  /\ tip' = got /\ UNCHANGED <<how, owner, flag, signals, ends>>
\* An error of the attributes is returned, and timeout exits; one of
\* pthread_create is not.
BugMakeThread ==
  /\ At("recursive_lock", "main", "makethread") /\ pc' = [pc EXCEPT !["main"] = "unlock", !["t1"] = "start"]
  /\ tip' = "freed" /\ UNCHANGED <<prog, how, owner, flag, signals, ends>>
MakeThread ==
  \/ Create("recursive_lock", "makethread", "t1", "unlock")
  \/ Go("recursive_lock", "main", "makethread", "unlock")
  \/ Ends("recursive_lock", "main", "makethread", "exit")
RlUnlock == Unlock("recursive_lock", "main", "unlock", "spin")
RlSpin   == flag = 1 /\ Ends("recursive_lock", "main", "spin", "return")

TimerSleep  == Go("recursive_lock", "t1", "start", "lock")
RetryLock   == Lock("recursive_lock", "t1", "lock", "set")
RetrySet    == Set("recursive_lock", "t1", "set", "unlock")
RetryUnlock == Unlock("recursive_lock", "t1", "unlock", "free")
TimerFree ==
  /\ Step("recursive_lock", "t1", "free", "returned") /\ tip' = "freed"
  /\ UNCHANGED <<how, owner, flag, signals, ends>>
-----------------------------------------------------------------------------
(* pthread_cancel: creations that fail go unnoticed.                       *)

CnCreate1 == Create("pthread_cancel", "create1", "t1", "create2") \/ Go("pthread_cancel", "main", "create1", "create2")
CnCreate2 == Create("pthread_cancel", "create2", "t2", "join1") \/ Go("pthread_cancel", "main", "create2", "join1")
CnJoin    == Join("pthread_cancel", "join1", "t1", "return")
CnReturn  == Ends("pthread_cancel", "main", "return", "return")

\* thr_fn1: its printf is a place where a request to cancel takes effect, and so
\* is pthread_testcancel, after the loop.
CnPrint == Go("pthread_cancel", "t1", "start", IF flag = 1 THEN "unwind" ELSE "push")
CnPush  == Push("pthread_cancel", "t1", "push", "testcancel")
CnTest  == IF flag = 1 THEN Go("pthread_cancel", "t1", "testcancel", "unwind")
                       ELSE End("pthread_cancel", "t1", "testcancel", "0")
BugCnUnwind == Go("pthread_cancel", "t1", "unwind", "exited")
CnUnwind == At("pthread_cancel", "t1", "unwind") /\ Unwind("t1", "PTHREAD_CANCELED")

\* thr_fn2: the id may be that of a thread that was never made, or that main has
\* joined already.
CnSleep  == Go("pthread_cancel", "t2", "start", "cancel")
CnCancel ==
  \/ Set("pthread_cancel", "t2", "cancel", "returned")
  \/ (pc["t1"] = "none" \/ told # <<>>) /\ Ends("pthread_cancel", "t2", "cancel", "crash")
-----------------------------------------------------------------------------
(* pthread_cleanup: thr_fn1 returns between push and pop, thr_fn2 exits.   *)

ClCreate1 == Create("pthread_cleanup", "create1", "t1", "create2") \/ Go("pthread_cleanup", "main", "create1", "create2")
ClCreate2 == Create("pthread_cleanup", "create2", "t2", "join1") \/ Go("pthread_cleanup", "main", "create2", "join1")
ClJoin1   == Join("pthread_cleanup", "join1", "t1", "join2")
ClJoin2   == Join("pthread_cleanup", "join2", "t2", "return")
ClReturn  == Ends("pthread_cleanup", "main", "return", "return")
ClPush1   == Push("pthread_cleanup", "t1", "start", "end")
ClEnd1    == End("pthread_cleanup", "t1", "end", "1")
ClPush2   == Push("pthread_cleanup", "t2", "start", "unwind")
ClExit2   == At("pthread_cleanup", "t2", "unwind") /\ Unwind("t2", "2")

(* pthread_exit: creations that fail end the process.                      *)

ExCreate1 == Create("pthread_exit", "create1", "t1", "create2")
ExCreate2 == Create("pthread_exit", "create2", "t2", "join1")
ExJoin1   == Join("pthread_exit", "join1", "t1", "join2")
ExJoin2   == Join("pthread_exit", "join2", "t2", "return")
ExReturn  == Ends("pthread_exit", "main", "return", "exit")
ExFails   == \E l \in {"create1", "create2", "join1", "join2"} : Ends("pthread_exit", "main", l, "exit")
ExEnd1    == End("pthread_exit", "t1", "start", "1")
ExExit2   == At("pthread_exit", "t2", "start") /\ Unwind("t2", "2")
-----------------------------------------------------------------------------
Spurious(p, t) ==
  /\ spurious < MaxSpurious /\ Step(p, t, "waiting", "lock")
  /\ spurious' = spurious + 1
  /\ UNCHANGED <<how, handed, blocked, pending, sent, met, ends>>

MainStep ==
  \/ PsBlock \/ PsCreate \/ PsLock \/ PsTest \/ PsRestore \/ PsReturn
  \/ CsCreate1 \/ CsCreate2 \/ CsJoin1 \/ CsJoin2 \/ CsReturn
  \/ RlInit \/ RlLock \/ Timeout \/ MakeThread \/ RlUnlock \/ RlSpin
  \/ CnCreate1 \/ CnCreate2 \/ CnJoin \/ CnReturn
  \/ ClCreate1 \/ ClCreate2 \/ ClJoin1 \/ ClJoin2 \/ ClReturn
  \/ ExCreate1 \/ ExCreate2 \/ ExJoin1 \/ ExJoin2 \/ ExReturn
T1Step ==
  \/ PsSigWait \/ PsThrLock \/ PsSetFlag \/ PsUnlock \/ PsCondSignal
  \/ PtLock \/ PtRelock \/ PtTest \/ PtPrint \/ PtUnlock \/ PtReturn
  \/ TimerSleep \/ RetryLock \/ RetrySet \/ RetryUnlock \/ TimerFree
  \/ CnPrint \/ CnPush \/ CnTest \/ CnUnwind \/ ClPush1 \/ ClEnd1 \/ ExEnd1
T2Step == EmLock \/ EmMalloc \/ EmCopy \/ EmUnlock \/ EmSignal \/ CnSleep \/ CnCancel \/ ClPush2 \/ ClExit2 \/ ExExit2
World  ==
  \/ PsFails \/ CsFails \/ ExFails \/ Spurious("pthread_signal", "main") \/ Spurious("condition_signal", "t1")
  \/ \E s \in Signal : PsSend(s)
Next   == MainStep \/ T1Step \/ T2Step \/ World
Spec   == Init /\ [][Next]_vars /\ WF_vars(MainStep) /\ WF_vars(T1Step) /\ WF_vars(T2Step)
-----------------------------------------------------------------------------
TypeOK ==
  /\ prog \in Prog /\ owner \in Thread \cup {"none"} /\ flag \in {0, 1}
  /\ pc \in [Thread -> {"none", "start", "init", "create1", "create2", "join1", "join2", "return", "lock", "test",
                        "waiting", "restore", "set", "unlock", "signal", "returned", "use", "end", "malloc",
                        "copy", "timeout", "makethread", "spin", "free", "push", "testcancel", "unwind",
                        "exited", "cancel"}]
  /\ how \in {"running", "return", "exit", "killed", "crash"} /\ tip \in {"none", "live", "freed"}
  /\ blocked \in BOOLEAN /\ met \in BOOLEAN /\ pending \subseteq Signal
  /\ sent \in 0..MaxSignals /\ spurious \in 0..MaxSpurious

\* Where a thread has the lock.
Holds(t) ==
  \/ pc[t] \in {"test", "use", "set", "malloc", "copy", "unlock", "timeout", "makethread", "restore"}
  \/ pc[t] = "return" /\ prog = "pthread_signal"

\* The lock keeps the threads apart, and the one that waits on the condition for a
\* flag that is set does so only as long as pthread_cond_signal, which comes after
\* the unlock, is still to come: no wakeup is lost.
NoLostWakeup ==
  /\ \A t \in Thread : Holds(t) => owner = t
  /\ flag = 1 => /\ pc["main"] = "waiting" => pc["t1"] \in {"unlock", "signal"}
                 /\ pc["t1"] = "waiting" => pc["t2"] \in {"copy", "unlock", "signal"}

\* What one thread hands to another is complete when it is used: main of
\* pthread_signal ends only after SIGQUIT, process_task prints a message that has
\* been copied, retry runs only after main has given up the lock it holds during
\* timeout, and the struct to_info lives until timer_helper has freed it.
HandedOver ==
  /\ prog = "pthread_signal" /\ pc["main"] \in {"restore", "return"} => met /\ flag = 1
  /\ pc["t1"] = "use" => flag = 1 /\ pc["t2"] # "copy"
  /\ prog = "recursive_lock" => /\ flag = 1 => pc["main"] = "spin"
                                /\ pc["t1"] \notin {"none", "returned"} => tip = "live"

\* A signal kills pthread_signal by its default action only before the mask is set
\* or once the old one is back; a second SIGQUIT that nobody takes any more does
\* so when main restores the mask.
KilledUnmasked ==
  [][how' = "killed" /\ how = "running" => pc["main"] \in {"init", "restore", "return"}]_vars

\* A thread that ends by pthread_exit or is canceled has run all its cleanup
\* handlers, the last pushed first, and one that returns none; main learns from
\* pthread_join with what it ended, and that thr_fn1 was canceled only if it was.
Unwound ==
  /\ \A t \in Thread : /\ pc[t] = "exited" => stack[t] = <<>> /\ ran[t] \in {<<>>, <<"second", "first">>}
                       /\ pc[t] = "returned" => ran[t] = <<>>
  /\ prog = "pthread_cancel" /\ told = <<"0">> => ran["t1"] = <<>>
  /\ told = <<"PTHREAD_CANCELED">> => flag = 1 /\ pc["t1"] = "exited"
  /\ prog \in {"pthread_cleanup", "pthread_exit"} /\ pc["main"] = "return" =>
       told[1] \in {"1", "unset"} /\ told[2] \in {"2", "unset"}

\* Every program ends: pthread_signal when SIGQUIT is pending while thr_fn still
\* takes signals, and recursive_lock unless timeout had no memory or makethread no
\* thread, in which case main spins for ever.
AllEnd ==
  /\ "QUIT" \in pending /\ pc["t1"] # "returned" ~> how # "running"
  /\ prog # "pthread_signal" ~> how # "running" \/ (pc["main"] = "spin" /\ pc["t1"] = "none")

\* Where the threads of each program can be.
Places ==
  /\ prog = "pthread_signal" =>
       /\ pc["main"] \in {"init", "create1", "lock", "test", "waiting", "restore", "return"}
       /\ pc["t1"] \in {"none", "start", "lock", "set", "unlock", "signal", "returned"} /\ pc["t2"] = "none"
  /\ prog = "condition_signal" =>
       /\ pc["main"] \in {"create1", "create2", "join1", "join2", "return"}
       /\ pc["t1"] \in {"none", "start", "lock", "test", "waiting", "use", "unlock", "end", "returned"}
       /\ pc["t2"] \in {"none", "start", "malloc", "copy", "unlock", "signal", "returned"}
  /\ prog = "recursive_lock" =>
       /\ pc["main"] \in {"init", "lock", "timeout", "makethread", "unlock", "spin"}
       /\ pc["t1"] \in {"none", "start", "lock", "set", "unlock", "free", "returned"} /\ pc["t2"] = "none"
  /\ prog \in {"pthread_cancel", "pthread_cleanup", "pthread_exit"} =>
       \A t \in Thread : pc[t] \in {"none", "start", "create1", "create2", "join1", "join2", "return", "push",
                                    "testcancel", "cancel", "unwind", "end", "returned", "exited"}

\* The inductive invariant: besides the above, in pthread_signal where the threads
\* are tells whether SIGQUIT was met and whether signals are blocked, in
\* condition_signal tp is set only by enqueue_msg once it exists, and in
\* recursive_lock the timer thread exists only once main is past makethread.
IInv ==
  /\ TypeOK /\ Places /\ NoLostWakeup /\ HandedOver
  /\ prog = "pthread_signal" =>
       /\ pc["t1"] \notin {"none", "start"} \/ flag = 1 => met
       /\ blocked = (pc["main"] \notin {"init", "return"})
  /\ prog = "condition_signal" /\ flag = 1 => pc["t2"] \notin {"none", "start", "malloc"}
  /\ prog = "condition_signal" /\ pc["main"] \in {"create1", "create2"} => pc["t2"] = "none"
  /\ prog = "recursive_lock" =>
       /\ pc["main"] \in {"init", "lock", "timeout", "makethread"} => pc["t1"] = "none"
       /\ pc["main"] = "makethread" => tip = "live"
=============================================================================
