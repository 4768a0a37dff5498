---------------------------- MODULE ThreadsProofs ----------------------------
(***************************************************************************)
(* The safety properties of Threads, its locks, conditions, flags, joins   *)
(* and cleanup handlers, for any number of signals and of returns of       *)
(* cond_wait without reason.                                               *)
(***************************************************************************)
EXTENDS Threads, SequenceTheorems, TLAPS

\* The invariant holds when main begins.
LEMMA InitIInv == Init => IInv
<1> SUFFICES ASSUME Init PROVE IInv
  OBVIOUS
<1>0. sent \in 0..MaxSignals /\ spurious \in 0..MaxSpurious
  BY SignalAssumption DEF Init
<1>1. TypeOK BY <1>0, Zenon DEF Init, TypeOK, Thread
<1>2. Places BY DEF Init, Places, Prog, Thread
<1>3. NoLostWakeup /\ HandedOver BY DEF Init, NoLostWakeup, HandedOver, Holds, Thread
<1>4. prog = "pthread_signal" => pc["main"] = "init" /\ pc["t1"] = "none"
  BY DEF Init, Thread
<1>5. prog = "recursive_lock" => pc["main"] = "init" /\ pc["t1"] = "none"
  BY DEF Init, Thread
<1>6. flag = 0 /\ blocked = FALSE BY DEF Init
<1>7. prog = "pthread_signal" => blocked = (pc["main"] \notin {"init", "return"})
  BY <1>4, <1>6, Zenon
<1>8. prog = "pthread_signal" => (pc["t1"] \notin {"none", "start"} \/ flag = 1 => met)
  BY <1>4, <1>6
<1>9. prog = "recursive_lock" => pc["main"] # "makethread"
  BY <1>5
<1>10. pc["t2"] = "none" BY Zenon DEF Init, Thread
<1> QED BY <1>1, <1>2, <1>3, <1>5, <1>6, <1>7, <1>8, <1>9, <1>10 DEF IInv

\* Every step of main, of the threads and of the world keeps it.
LEMMA NextIInv == IInv /\ [Next]_vars => IInv'
<1> SUFFICES ASSUME IInv, [Next]_vars PROVE IInv'
  OBVIOUS
<1> USE DEF IInv, TypeOK, Places, NoLostWakeup, HandedOver, Holds, Thread,
            Step, At, Go, Ends, Create, Lock, LockIf, Unlock, Set, handed, signals, ends
<1>1. CASE PsBlock BY <1>1, ZenonT(40) DEF PsBlock, PsMaskAs
<1>2. CASE PsCreate \/ PsReturn BY <1>2 DEF PsCreate, PsReturn
<1>3. CASE PsLock \/ PsTest BY <1>3 DEF PsLock, PsTest, CondTest
<1>4. CASE PsRestore BY <1>4, Zenon DEF PsRestore
<1>5. CASE PsSigWait
  <2>1. PICK s \in pending : /\ Step("pthread_signal", "t1", "start", IF s = "QUIT" THEN "lock" ELSE "start")
                             /\ pending' = pending \ {s}
                             /\ how' = IF s \in {"INT", "QUIT"} THEN "running" ELSE "exit"
                             /\ met' = (met \/ s = "QUIT")
                             /\ UNCHANGED <<handed, blocked, sent, spurious, ends>>
    BY <1>5, Zenon DEF PsSigWait
  <2>2. CASE s = "QUIT" BY <2>1, <2>2, ZenonT(40)
  <2>3. CASE s # "QUIT" BY <2>1, <2>3
  <2> QED BY <2>2, <2>3
<1>6. CASE PsThrLock \/ PsSetFlag BY <1>6 DEF PsThrLock, PsSetFlag
<1>7. CASE PsUnlock \/ PsCondSignal BY <1>7 DEF PsUnlock, PsCondSignal, CondSignal
<1>8. CASE CsCreate1 \/ CsCreate2 \/ CsReturn BY <1>8 DEF CsCreate1, CsCreate2, CsReturn
<1>9. CASE CsJoin1 \/ CsJoin2 BY <1>9 DEF CsJoin1, CsJoin2, Join
<1>10. CASE PtLock \/ PtRelock \/ PtTest BY <1>10 DEF PtLock, PtRelock, PtTest, CondTest
<1>11. CASE PtPrint \/ PtUnlock \/ PtReturn BY <1>11 DEF PtPrint, PtUnlock, PtReturn, End
<1>12. CASE EmLock \/ EmMalloc \/ EmCopy BY <1>12 DEF EmLock, EmMalloc, EmCopy
<1>13. CASE EmUnlock \/ EmSignal BY <1>13 DEF EmUnlock, EmSignal, CondSignal
<1>14. CASE RlInit \/ RlLock BY <1>14 DEF RlInit, RlLock
<1>15. CASE Timeout BY <1>15 DEF Timeout
<1>16. CASE MakeThread BY <1>16 DEF MakeThread
<1>17. CASE RlUnlock \/ RlSpin
         \/ TimerSleep BY <1>17 DEF RlUnlock, RlSpin, TimerSleep
<1>18. CASE RetryLock \/ RetrySet BY <1>18 DEF RetryLock, RetrySet
<1>19. CASE RetryUnlock \/ TimerFree BY <1>19 DEF RetryUnlock, TimerFree
<1>20. CASE CnCreate1 \/ CnCreate2 \/ CnReturn BY <1>20 DEF CnCreate1, CnCreate2, CnReturn
<1>21. CASE CnJoin \/ ClJoin1 \/ ClJoin2 BY <1>21 DEF CnJoin, ClJoin1, ClJoin2, Join
<1>22. CASE CnPrint \/ CnPush \/ CnTest \/ CnSleep BY <1>22 DEF CnPrint, CnPush, CnTest, CnSleep, Push, End
<1>23. CASE CnUnwind \/ CnCancel BY <1>23 DEF CnUnwind, CnCancel, Unwind
<1>24. CASE ClCreate1 \/ ClCreate2 \/ ClReturn BY <1>24 DEF ClCreate1, ClCreate2, ClReturn
<1>25. CASE ClPush1 \/ ClEnd1 \/ ClPush2 BY <1>25 DEF ClPush1, ClEnd1, ClPush2, Push, End
<1>26. CASE ClExit2 \/ ExExit2 \/ ExEnd1 BY <1>26 DEF ClExit2, ExExit2, ExEnd1, Unwind, End
<1>27. CASE ExCreate1 \/ ExCreate2 \/ ExReturn BY <1>27 DEF ExCreate1, ExCreate2, ExReturn
<1>28. CASE ExJoin1 \/ ExJoin2 BY <1>28 DEF ExJoin1, ExJoin2, Join
<1>29. CASE PsFails \/ CsFails \/ ExFails BY <1>29 DEF PsFails, CsFails, ExFails
<1>30. CASE Spurious("pthread_signal", "main") BY <1>30, SignalAssumption DEF Spurious
<1>31. CASE Spurious("condition_signal", "t1") BY <1>31, SignalAssumption DEF Spurious
<1>32. ASSUME NEW s \in Signal, PsSend(s) PROVE IInv' BY <1>32, SignalAssumption DEF PsSend
<1>33. CASE UNCHANGED vars BY <1>33 DEF vars
<1> QED
  BY <1>1, <1>2, <1>3, <1>4, <1>5, <1>6, <1>7, <1>8, <1>9, <1>10, <1>11, <1>12, <1>13, <1>14, <1>15, <1>16, ZenonT(30),
     <1>17, <1>18, <1>19, <1>20, <1>21, <1>22, <1>23, <1>24, <1>25, <1>26, <1>27, <1>28, <1>29, <1>30, <1>31,
     <1>32, <1>33 DEF Next, MainStep, T1Step, T2Step, World

\* The inductive invariant holds throughout.
THEOREM Invariance == Spec => []IInv
  BY InitIInv, NextIInv, PTL DEF Spec

\* Nobody waits for a signal of the condition that has already been given.
THEOREM WakeupCorrect == Spec => []NoLostWakeup
<1>1. IInv => NoLostWakeup BY DEF IInv
<1> QED BY <1>1, Invariance, PTL

\* The quit flag, the task and the struct to_info are complete when they are used.
THEOREM HandedOverCorrect == Spec => []HandedOver
<1>1. IInv => HandedOver BY DEF IInv
<1> QED BY <1>1, Invariance, PTL

\* Default actions strike pthread_signal only outside the mask.
THEOREM MaskCorrect == Spec => KilledUnmasked
<1>1. IInv /\ [Next]_vars =>
        [how' = "killed" /\ how = "running" => pc["main"] \in {"init", "restore", "return"}]_vars
  <2> SUFFICES ASSUME IInv, Next, how' = "killed", how = "running"
               PROVE pc["main"] \in {"init", "restore", "return"}
    OBVIOUS
  <2> USE DEF Step, At, Go, Ends, Create, Lock, LockIf, Unlock, Set
  <2>1. CASE MainStep
    BY <2>1 DEF MainStep, PsBlock, PsMaskAs, PsCreate, PsLock, PsTest, CondTest, PsRestore, PsReturn, CsCreate1,
                CsCreate2, CsJoin1, CsJoin2, CsReturn, RlInit, RlLock, Timeout, MakeThread, RlUnlock, RlSpin,
                CnCreate1, CnCreate2, CnJoin, CnReturn, ClCreate1, ClCreate2, ClJoin1, ClJoin2, ClReturn,
                ExCreate1, ExCreate2, ExJoin1, ExJoin2, ExReturn, Join
  <2>2. CASE T1Step
    BY <2>2 DEF T1Step, PsSigWait, PsThrLock, PsSetFlag, PsUnlock, PsCondSignal, CondSignal, PtLock, PtRelock,
                PtTest, CondTest, PtPrint, PtUnlock, PtReturn, End, TimerSleep, RetryLock, RetrySet, RetryUnlock,
                TimerFree, CnPrint, CnPush, Push, CnTest, CnUnwind, Unwind, ClPush1, ClEnd1, ExEnd1
  <2>3. CASE T2Step
    BY <2>3 DEF T2Step, EmLock, EmMalloc, EmCopy, EmUnlock, EmSignal, CondSignal, CnSleep, CnCancel, ClPush2,
                Push, ClExit2, Unwind, ExExit2
  <2>4. CASE World
    BY <2>4, Zenon DEF World, PsFails, CsFails, ExFails, Spurious, PsSend, IInv, Places
  <2> QED BY <2>1, <2>2, <2>3, <2>4 DEF Next
<1> QED BY <1>1, Invariance, PTL DEF Spec, KilledUnmasked
-----------------------------------------------------------------------------
(***************************************************************************)
(* The cleanup handlers and the statuses.  Made says that no thread is     *)
(* created twice, Handlers what the place of a thread tells about its stack*)
(* and about the handlers that have run, Statuses what a thread that ended *)
(* has left for pthread_join, and Told how far main is with its joins and  *)
(* what they gave.                                                         *)
(***************************************************************************)
Both  == <<"second", "first">>
Value == {"none", "0", "1", "2", "PTHREAD_CANCELED"}

Made ==
  /\ pc["main"] \in {"init", "create1"} => pc["t1"] = "none"
  /\ pc["main"] \in {"init", "create1", "create2"} => pc["t2"] = "none"

Handled(place, left, done) ==
  /\ place \notin {"unwind", "exited"} => done = <<>>
  /\ place \notin {"testcancel", "end", "unwind"} => left = <<>>
  /\ place = "testcancel" => left = Both
  /\ place = "unwind" => \/ left \in {<<>>, Both} /\ done = <<>>
                         \/ left = <<"first">> /\ done = <<"second">>
                         \/ left = <<>> /\ done = Both
  /\ place = "exited" => done \in {<<>>, Both}

Handlers ==
  /\ DOMAIN stack = Thread /\ DOMAIN ran = Thread /\ status \in [Thread -> Value]
  /\ \A t \in Thread : Handled(pc[t], stack[t], ran[t])

Statuses ==
  /\ prog = "condition_signal" => \A t \in {"t1", "t2"} : pc[t] = "returned" => status[t] = "0"
  /\ prog = "pthread_cancel" =>
       /\ pc["t1"] = "returned" => status["t1"] = "0"
       /\ pc["t1"] = "exited" => status["t1"] = "PTHREAD_CANCELED"
       /\ pc["t1"] \in {"unwind", "exited"} => flag = 1
  /\ prog \in {"pthread_cleanup", "pthread_exit"} =>
       /\ pc["t1"] \in {"none", "start", "end", "returned"} /\ pc["t2"] \in {"none", "start", "unwind", "exited"}
       /\ pc["t1"] = "returned" => status["t1"] = "1"
       /\ pc["t2"] = "exited" => status["t2"] = "2"

Joins(first, second) ==
  /\ pc["main"] \in {"create1", "create2", "join1", "join2", "return"}
  /\ pc["main"] \in {"create1", "create2", "join1"} => told = <<>>
  /\ pc["main"] = "join2" => \E a \in first : told = <<a>>
  /\ pc["main"] = "return" => \E a \in first, b \in second : told = <<a, b>>

Told ==
  /\ prog \in {"pthread_signal", "recursive_lock"} => told = <<>>
  /\ prog = "condition_signal" => Joins({"0", "unset"}, {"0", "unset"})
  /\ prog = "pthread_cancel" =>
       /\ pc["main"] \in {"create1", "create2", "join1", "return"}
       /\ pc["main"] # "return" => told = <<>>
       /\ pc["main"] = "return" => \/ pc["t1"] = "none" /\ told = <<"unset">>
                                   \/ pc["t1"] \in {"returned", "exited"} /\ told = <<status["t1"]>>
  /\ prog \in {"pthread_cleanup", "pthread_exit"} => Joins({"1", "unset"}, {"2", "unset"})

UInv == Made /\ Handlers /\ Statuses /\ Told

\* pthread_join adds a status after the first, and a handler that runs comes after
\* the one that ran before.
LEMMA AppendSecond == ASSUME NEW a, NEW b PROVE Append(<<a>>, b) = <<a, b>>
<1> DEFINE S == {a, b}
<1>1. <<a>> \in Seq(S) /\ <<a, b>> \in Seq(S) OBVIOUS
<1>2. Len(<<a, b>>) = 2 /\ <<a, b>>[1] = a /\ <<a, b>>[2] = b OBVIOUS
<1>3. Len(Append(<<a>>, b)) = 2 /\ Append(<<a>>, b)[1] = a /\ Append(<<a>>, b)[2] = b BY <1>1
<1>4. Append(<<a>>, b) \in Seq(S) BY <1>1
<1>5. \A i \in 1..2 : Append(<<a>>, b)[i] = <<a, b>>[i] BY <1>2, <1>3
<1> QED BY <1>1, <1>2, <1>3, <1>4, <1>5, SeqEqual, Zenon

\* What running a handler does to the stack and to the list of those that ran.
LEMMA Handling ==
  /\ Head(Both) = "second" /\ Tail(Both) = <<"first">> /\ Both # <<>>
  /\ Head(<<"first">>) = "first" /\ Tail(<<"first">>) = <<>> /\ <<"first">> # <<>>
  /\ Append(<<>>, "second") = <<"second">> /\ Append(<<"second">>, "first") = Both
<1>1. Head(Both) = "second" /\ Both # <<>> /\ Head(<<"first">>) = "first" /\ <<"first">> # <<>> BY DEF Both
<1>2. Tail(Both) = <<"first">> BY DEF Both
<1>3. Tail(<<"first">>) = <<>> OBVIOUS
<1>4. Append(<<>>, "second") = <<"second">> OBVIOUS
<1>5. Append(<<"second">>, "first") = Both 
  <2>1. Append(<<"second">>, "first") = <<"second", "first">> BY AppendSecond
  <2> QED BY <2>1 DEF Both
<1> QED BY <1>1, <1>2, <1>3, <1>4, <1>5

\* Nothing has been pushed and nobody has ended when main begins.
LEMMA InitUInv == Init => UInv
<1> SUFFICES ASSUME Init PROVE UInv
  OBVIOUS
<1>0. Made BY DEF Init, Made, Thread
<1>1. Handlers BY DEF Init, Handlers, Handled, Thread, Value
<1>2. Statuses BY DEF Init, Statuses, Thread
<1>3. Told BY DEF Init, Told, Joins, Thread, Prog
<1> QED BY <1>0, <1>1, <1>2, <1>3 DEF UInv

\* A step that leaves the stacks alone and takes no thread that holds a handler
\* elsewhere.
Quiet ==
  /\ UNCHANGED <<stack, ran>> /\ status' \in [Thread -> Value]
  /\ \A t \in Thread : \/ pc'[t] = pc[t]
                       \/ pc[t] \notin {"testcancel", "end", "unwind", "exited"} /\ pc'[t] # "testcancel"

\* Such a step keeps Handlers.
LEMMA HandlersQuiet == Handlers /\ Quiet => Handlers'
<1> SUFFICES ASSUME Handlers, Quiet PROVE Handlers'
  OBVIOUS
<1>1. ASSUME NEW t \in Thread PROVE Handled(pc'[t], stack'[t], ran'[t])
  <2>1. Handled(pc[t], stack[t], ran[t]) BY DEF Handlers
  <2>2. stack' = stack /\ ran' = ran BY DEF Quiet
  <2>3. CASE pc'[t] = pc[t] BY <2>1, <2>2, <2>3
  <2>4. CASE pc[t] \notin {"testcancel", "end", "unwind", "exited"} /\ pc'[t] # "testcancel"
    <3>1. stack[t] = <<>> /\ ran[t] = <<>> BY <2>1, <2>4 DEF Handled
    <3> QED BY <2>2, <2>4, <3>1 DEF Handled
  <2> QED BY <2>3, <2>4, Zenon DEF Quiet
<1> QED BY <1>1 DEF Handlers, Quiet

\* A step of one thread that has to do with its handlers.
LEMMA HandlersOf ==
  ASSUME Handlers, NEW t \in Thread, DOMAIN stack' = Thread, DOMAIN ran' = Thread, status' \in [Thread -> Value],
         \A u \in Thread \ {t} : pc'[u] = pc[u] /\ stack'[u] = stack[u] /\ ran'[u] = ran[u],
         Handled(pc'[t], stack'[t], ran'[t])
  PROVE  Handlers'
<1>1. ASSUME NEW u \in Thread PROVE Handled(pc'[u], stack'[u], ran'[u])
  BY <1>1 DEF Handlers
<1> QED BY <1>1 DEF Handlers

\* pthread_cleanup_push, twice.
LEMMA PushHandlers ==
  ASSUME TypeOK, Handlers, NEW p, NEW t \in Thread, NEW from, NEW to, Push(p, t, from, to),
         from \in {"start", "push"}, to \in {"testcancel", "end", "unwind"}
  PROVE  Handlers'
<1>1. Handled(from, stack[t], ran[t]) BY DEF Push, Step, At, Handlers
<1>2. ran[t] = <<>> BY <1>1 DEF Handled
<1>3. pc'[t] = to /\ \A u \in Thread \ {t} : pc'[u] = pc[u] BY DEF Push, Step, TypeOK
<1>4. /\ stack'[t] = Both /\ \A u \in Thread \ {t} : stack'[u] = stack[u]
      /\ DOMAIN stack' = Thread /\ ran' = ran /\ status' = status
  BY DEF Push, Handlers, Both
<1>5. Handled(to, Both, <<>>) BY DEF Handled
<1> QED BY <1>2, <1>3, <1>4, <1>5, HandlersOf DEF Handlers

\* A return drops the handlers without running them.
LEMMA EndHandlers ==
  ASSUME TypeOK, Handlers, NEW p, NEW t \in Thread, NEW from, NEW value \in Value, End(p, t, from, value),
         from \notin {"unwind", "exited"}
  PROVE  Handlers'
<1>1. Handled(from, stack[t], ran[t]) BY DEF End, Step, At, Handlers
<1>2. ran[t] = <<>> BY <1>1 DEF Handled
<1>3. pc'[t] = "returned" /\ \A u \in Thread \ {t} : pc'[u] = pc[u] BY DEF End, Step, TypeOK
<1>4. /\ stack'[t] = <<>> /\ \A u \in Thread \ {t} : stack'[u] = stack[u]
      /\ DOMAIN stack' = Thread /\ ran' = ran /\ status' \in [Thread -> Value]
  BY DEF End, Handlers
<1>5. Handled("returned", <<>>, <<>>) BY DEF Handled
<1> QED BY <1>2, <1>3, <1>4, <1>5, HandlersOf DEF Handlers

\* pthread_exit and cancellation run them one by one.
LEMMA UnwindHandlers ==
  ASSUME TypeOK, Handlers, NEW t \in Thread, NEW value \in Value, Unwind(t, value),
         pc[t] \in {"unwind", "start"}
  PROVE  Handlers'
<1>1. Handled(pc[t], stack[t], ran[t]) BY DEF Handlers
<1>2. CASE stack[t] = <<>>
  <2>1. pc'[t] = "exited" /\ \A u \in Thread \ {t} : pc'[u] = pc[u] BY <1>2 DEF Unwind, TypeOK
  <2>2. stack' = stack /\ ran' = ran /\ status' \in [Thread -> Value] BY <1>2 DEF Unwind, Handlers
  <2>3. ran[t] \in {<<>>, Both} BY <1>1, <1>2, Handling DEF Handled
  <2>4. Handled("exited", stack[t], ran[t]) BY <1>2, <2>3 DEF Handled
  <2> QED BY <2>1, <2>2, <2>4, HandlersOf DEF Handlers
<1>3. CASE stack[t] # <<>>
  <2>1. pc[t] = "unwind" BY <1>1, <1>3 DEF Handled
  <2>2. \/ stack[t] = Both /\ ran[t] = <<>>
        \/ stack[t] = <<"first">> /\ ran[t] = <<"second">>
    BY <1>1, <1>3, <2>1 DEF Handled
  <2>3. /\ stack'[t] = Tail(stack[t]) /\ \A u \in Thread \ {t} : stack'[u] = stack[u]
        /\ DOMAIN stack' = Thread
    BY <1>3 DEF Unwind, Handlers
  <2>4. /\ ran'[t] = Append(ran[t], Head(stack[t])) /\ \A u \in Thread \ {t} : ran'[u] = ran[u]
        /\ DOMAIN ran' = Thread
    BY <1>3 DEF Unwind, Handlers
  <2>5. pc' = pc /\ status' = status BY <1>3 DEF Unwind
  <2>6. CASE stack[t] = Both /\ ran[t] = <<>>
    <3>1. stack'[t] = <<"first">> /\ ran'[t] = <<"second">> BY <2>3, <2>4, <2>6, Handling
    <3>2. Handled(pc'[t], stack'[t], ran'[t]) BY <2>1, <2>5, <3>1, Handling DEF Handled
    <3> QED BY <2>3, <2>4, <2>5, <3>2, HandlersOf, Zenon DEF Handlers
  <2>7. CASE stack[t] = <<"first">> /\ ran[t] = <<"second">>
    <3>1. stack'[t] = <<>> /\ ran'[t] = Both BY <2>3, <2>4, <2>7, Handling
    <3>2. Handled(pc'[t], stack'[t], ran'[t]) BY <2>1, <2>5, <3>1, Handling DEF Handled
    <3> QED BY <2>3, <2>4, <2>5, <3>2, HandlersOf, Zenon DEF Handlers
  <2> QED BY <2>2, <2>6, <2>7
<1> QED BY <1>2, <1>3

\* Every step keeps Handlers: most leave the stacks alone, the others are pushes,
\* returns and unwindings.
LEMMA NextHandlers == TypeOK /\ Places /\ Made /\ Handlers /\ [Next]_vars => Handlers'
<1> SUFFICES ASSUME TypeOK, Places, Made, Handlers, [Next]_vars PROVE Handlers'
  OBVIOUS
<1>0. DOMAIN pc = Thread /\ status \in [Thread -> Value] BY DEF TypeOK, Handlers
<1> USE DEF Step, At, Go, Ends, Create, Lock, LockIf, Unlock, Set, handed, signals, ends
<1>1. CASE PsBlock \/ PsCreate \/ PsLock \/ PsTest \/ PsRestore \/ PsReturn
  <2>1. Quiet BY <1>0, <1>1
      DEF Quiet, Places, Thread, Value, PsBlock, PsMaskAs, PsCreate, PsLock, PsTest, CondTest, PsRestore,
          PsReturn
  <2> QED BY <2>1, HandlersQuiet
<1>2. CASE PsSigWait \/ PsThrLock \/ PsSetFlag \/ PsUnlock \/ PsCondSignal
  <2>1. Quiet BY <1>0, <1>2
      DEF Quiet, Thread, Value, PsSigWait, PsThrLock, PsSetFlag, PsUnlock, PsCondSignal, CondSignal
  <2> QED BY <2>1, HandlersQuiet
<1>3. CASE CsCreate1 \/ CsCreate2 \/ CsReturn
  <2>1. Quiet BY <1>0, <1>3 DEF Quiet, Made, Thread, Value, CsCreate1, CsCreate2, CsReturn
  <2> QED BY <2>1, HandlersQuiet
<1>4. CASE CsJoin1 \/ CsJoin2
  <2>1. Quiet BY <1>0, <1>4 DEF Quiet, Thread, Value, CsJoin1, CsJoin2, Join
  <2> QED BY <2>1, HandlersQuiet
<1>5. CASE PtLock \/ PtRelock \/ PtTest \/ PtPrint \/ PtUnlock
  <2>1. Quiet BY <1>0, <1>5 DEF Quiet, Thread, Value, PtLock, PtRelock, PtTest, CondTest, PtPrint, PtUnlock
  <2> QED BY <2>1, HandlersQuiet
<1>6. CASE PtReturn
  BY <1>6, EndHandlers DEF PtReturn, Thread, Value
<1>7. CASE EmLock \/ EmMalloc \/ EmCopy \/ EmUnlock \/ EmSignal
  <2>1. Quiet BY <1>0, <1>7 DEF Quiet, Thread, Value, EmLock, EmMalloc, EmCopy, EmUnlock, EmSignal, CondSignal
  <2> QED BY <2>1, HandlersQuiet
<1>8. CASE RlInit \/ RlLock \/ Timeout \/ MakeThread \/ RlUnlock \/ RlSpin
  <2>1. Quiet BY <1>0, <1>8 DEF Quiet, Places, Thread, Value, RlInit, RlLock, Timeout, MakeThread, RlUnlock, RlSpin
  <2> QED BY <2>1, HandlersQuiet
<1>9. CASE TimerSleep \/ RetryLock \/ RetrySet \/ RetryUnlock \/ TimerFree
  <2>1. Quiet BY <1>0, <1>9 DEF Quiet, Thread, Value, TimerSleep, RetryLock, RetrySet, RetryUnlock, TimerFree
  <2> QED BY <2>1, HandlersQuiet
<1>10. CASE CnCreate1 \/ CnCreate2 \/ CnReturn
  <2>1. Quiet BY <1>0, <1>10 DEF Quiet, Made, Thread, Value, CnCreate1, CnCreate2, CnReturn
  <2> QED BY <2>1, HandlersQuiet
<1>11. CASE CnJoin
  <2>1. Quiet BY <1>0, <1>11 DEF Quiet, Thread, Value, CnJoin, Join
  <2> QED BY <2>1, HandlersQuiet
<1>12. CASE CnPrint \/ CnSleep \/ CnCancel
  <2>1. Quiet BY <1>0, <1>12 DEF Quiet, Thread, Value, CnPrint, CnSleep, CnCancel
  <2> QED BY <2>1, HandlersQuiet
<1>13. CASE CnPush
  BY <1>13, PushHandlers DEF CnPush, Thread
<1>14. CASE CnTest
  <2>1. CASE flag = 1
    <3>1. Go("pthread_cancel", "t1", "testcancel", "unwind") BY <1>14, <2>1 DEF CnTest
    <3>2. /\ pc["t1"] = "testcancel" /\ pc'["t1"] = "unwind" /\ \A u \in Thread \ {"t1"} : pc'[u] = pc[u]
          /\ UNCHANGED <<stack, ran, status>>
      BY <1>0, <3>1 DEF Go, Step, At, ends, Thread
    <3>3. Handled("testcancel", stack["t1"], ran["t1"]) BY <3>2 DEF Handlers, Thread
    <3>4. Handled("unwind", stack["t1"], ran["t1"]) BY <3>3 DEF Handled
    <3> QED BY <1>0, <3>2, <3>4, HandlersOf DEF Handlers, Thread
  <2>2. CASE flag # 1 BY <1>14, <2>2, EndHandlers DEF CnTest, Thread, Value
  <2> QED BY <2>1, <2>2
<1>15. CASE CnUnwind
  BY <1>15, UnwindHandlers DEF CnUnwind, At, Thread, Value
<1>16. CASE ClCreate1 \/ ClCreate2 \/ ClReturn
  <2>1. Quiet BY <1>0, <1>16 DEF Quiet, Made, Thread, Value, ClCreate1, ClCreate2, ClReturn
  <2> QED BY <2>1, HandlersQuiet
<1>17. CASE ClJoin1 \/ ClJoin2
  <2>1. Quiet BY <1>0, <1>17 DEF Quiet, Thread, Value, ClJoin1, ClJoin2, Join
  <2> QED BY <2>1, HandlersQuiet
<1>18. CASE ClPush1 \/ ClPush2
  BY <1>18, PushHandlers DEF ClPush1, ClPush2, Thread
<1>19. CASE ClEnd1
  BY <1>19, EndHandlers DEF ClEnd1, Thread, Value
<1>20. CASE ClExit2
  BY <1>20, UnwindHandlers DEF ClExit2, At, Thread, Value
<1>21. CASE ExCreate1 \/ ExCreate2 \/ ExReturn
  <2>1. Quiet BY <1>0, <1>21 DEF Quiet, Made, Thread, Value, ExCreate1, ExCreate2, ExReturn
  <2> QED BY <2>1, HandlersQuiet
<1>22. CASE ExJoin1 \/ ExJoin2
  <2>1. Quiet BY <1>0, <1>22 DEF Quiet, Thread, Value, ExJoin1, ExJoin2, Join
  <2> QED BY <2>1, HandlersQuiet
<1>23. CASE ExEnd1
  <2>1. End("pthread_exit", "t1", "start", "1") BY <1>23 DEF ExEnd1
  <2>2. "t1" \in Thread /\ "1" \in Value BY DEF Thread, Value
  <2> HIDE DEF Step, At
  <2> QED BY <2>1, <2>2, EndHandlers
<1>24. CASE ExExit2
  <2>1. pc["t2"] \in {"unwind", "start"} /\ Unwind("t2", "2") BY <1>24 DEF ExExit2, At
  <2> QED BY <2>1, UnwindHandlers DEF Thread, Value
<1>25. CASE PsFails \/ CsFails \/ ExFails
  <2>1. Quiet BY <1>0, <1>25 DEF Quiet, Thread, Value, PsFails, CsFails, ExFails
  <2> QED BY <2>1, HandlersQuiet
<1>26. CASE Spurious("pthread_signal", "main") \/ Spurious("condition_signal", "t1")
  <2>1. Quiet BY <1>0, <1>26 DEF Quiet, Thread, Value, Spurious
  <2> QED BY <2>1, HandlersQuiet
<1>27. CASE \E s \in Signal : PsSend(s)
  <2>1. Quiet BY <1>0, <1>27 DEF Quiet, Thread, Value, PsSend
  <2> QED BY <2>1, HandlersQuiet
<1>28. CASE UNCHANGED vars
  <2>1. Quiet BY <1>0, <1>28 DEF Quiet, Thread, Value, vars
  <2> QED BY <2>1, HandlersQuiet
<1> QED
  BY <1>1, <1>2, <1>3, <1>4, <1>5, <1>6, <1>7, <1>8, <1>9, <1>10, <1>11, <1>12, <1>13, <1>14, <1>15, <1>16,
     <1>17, <1>18, <1>19, <1>20, <1>21, <1>22, <1>23, <1>24, <1>25, <1>26, <1>27, <1>28
  DEF Next, MainStep, T1Step, T2Step, World

\* A thread is made by one statement of main, which main passes once.
LEMMA NextMade == TypeOK /\ Handlers /\ Places /\ Made /\ [Next]_vars => Made'
<1> SUFFICES ASSUME TypeOK, Handlers, Places, Made, [Next]_vars PROVE Made'
  OBVIOUS
<1>0. DOMAIN pc = Thread /\ status \in [Thread -> Value] BY DEF TypeOK, Handlers
<1> USE <1>0
    DEF Made, Places, Thread, Value, Step, At, Go, Ends, Create, Lock, LockIf, Unlock, Set, handed, signals,
        ends
<1>1. CASE PsBlock \/ PsCreate \/ PsLock \/ PsTest \/ PsRestore \/ PsReturn
         \/ PsSigWait \/ PsThrLock \/ PsSetFlag \/ PsUnlock \/ PsCondSignal
  BY <1>1
      DEF PsBlock, PsMaskAs, PsCreate, PsLock, PsTest, CondTest, PsRestore, PsReturn, PsSigWait, PsThrLock,
          PsSetFlag, PsUnlock, PsCondSignal, CondSignal
<1>2. CASE CsCreate1 \/ CsCreate2 \/ CsReturn \/ CsJoin1 \/ CsJoin2
  BY <1>2 DEF CsCreate1, CsCreate2, CsReturn, CsJoin1, CsJoin2, Join
<1>3. CASE PtLock \/ PtRelock \/ PtTest \/ PtPrint \/ PtUnlock \/ PtReturn
         \/ EmLock \/ EmMalloc \/ EmCopy \/ EmUnlock \/ EmSignal
  BY <1>3
      DEF PtLock, PtRelock, PtTest, CondTest, PtPrint, PtUnlock, PtReturn, End, EmLock, EmMalloc, EmCopy,
          EmUnlock, EmSignal, CondSignal
<1>4. CASE RlInit \/ RlLock \/ Timeout \/ MakeThread \/ RlUnlock \/ RlSpin
         \/ TimerSleep \/ RetryLock \/ RetrySet \/ RetryUnlock \/ TimerFree
  BY <1>4
      DEF RlInit, RlLock, Timeout, MakeThread, RlUnlock, RlSpin, TimerSleep, RetryLock, RetrySet,
          RetryUnlock, TimerFree
<1>5. CASE CnCreate1 \/ CnCreate2 \/ CnReturn \/ CnJoin
  BY <1>5 DEF CnCreate1, CnCreate2, CnReturn, CnJoin, Join
<1>6. CASE CnPrint \/ CnSleep \/ CnCancel \/ CnPush \/ CnTest \/ CnUnwind
  BY <1>6 DEF CnPrint, CnSleep, CnCancel, CnPush, Push, CnTest, End, CnUnwind, Unwind
<1>7. CASE ClCreate1 \/ ClCreate2 \/ ClReturn \/ ClJoin1 \/ ClJoin2
  BY <1>7 DEF ClCreate1, ClCreate2, ClReturn, ClJoin1, ClJoin2, Join
<1>8. CASE ClPush1 \/ ClPush2 \/ ClEnd1 \/ ClExit2
  BY <1>8 DEF ClPush1, ClPush2, Push, ClEnd1, End, ClExit2, Unwind
<1>9. CASE ExCreate1 \/ ExCreate2 \/ ExReturn \/ ExJoin1 \/ ExJoin2
  BY <1>9 DEF ExCreate1, ExCreate2, ExReturn, ExJoin1, ExJoin2, Join
<1>10. CASE ExEnd1 \/ ExExit2
  BY <1>10 DEF ExEnd1, End, ExExit2, Unwind
<1>11. CASE PsFails \/ CsFails \/ ExFails \/ Spurious("pthread_signal", "main") \/ Spurious("condition_signal", "t1")
  BY <1>11 DEF PsFails, CsFails, ExFails, Spurious
<1>12. CASE \E s \in Signal : PsSend(s)
  BY <1>12 DEF PsSend
<1>13. CASE UNCHANGED vars
  BY <1>13, SMTT(20) DEF vars
<1> QED BY <1>1, <1>2, <1>3, <1>4, <1>5, <1>6, <1>7, <1>8, <1>9, <1>10, <1>11, <1>12, <1>13
  DEF Next, MainStep, T1Step, T2Step, World

\* A thread leaves its status in the step in which it ends.
LEMMA NextStatuses == TypeOK /\ Places /\ Handlers /\ Statuses /\ [Next]_vars => Statuses'
<1> SUFFICES ASSUME TypeOK, Places, Handlers, Statuses, [Next]_vars PROVE Statuses'
  OBVIOUS
<1>0. DOMAIN pc = Thread /\ status \in [Thread -> Value] BY DEF TypeOK, Handlers
<1> USE <1>0
    DEF Statuses, Places, Thread, Value, Step, At, Go, Ends, Create, Lock, LockIf, Unlock, Set, handed,
        signals, ends
<1>1. CASE PsBlock \/ PsCreate \/ PsLock \/ PsTest \/ PsRestore \/ PsReturn
         \/ PsSigWait \/ PsThrLock \/ PsSetFlag \/ PsUnlock \/ PsCondSignal
  BY <1>1
      DEF PsBlock, PsMaskAs, PsCreate, PsLock, PsTest, CondTest, PsRestore, PsReturn, PsSigWait, PsThrLock,
          PsSetFlag, PsUnlock, PsCondSignal, CondSignal
<1>2. CASE CsCreate1 \/ CsCreate2 \/ CsReturn \/ CsJoin1 \/ CsJoin2
  BY <1>2 DEF CsCreate1, CsCreate2, CsReturn, CsJoin1, CsJoin2, Join
<1>3. CASE PtLock \/ PtRelock \/ PtTest \/ PtPrint \/ PtUnlock \/ PtReturn
         \/ EmLock \/ EmMalloc \/ EmCopy \/ EmUnlock \/ EmSignal
  <2>1. CASE PtLock \/ PtRelock BY <2>1 DEF PtLock, PtRelock
  <2>2. CASE PtTest BY <2>2 DEF PtTest, CondTest
  <2>3. CASE PtPrint \/ PtUnlock BY <2>3 DEF PtPrint, PtUnlock
  <2>4. CASE PtReturn BY <2>4 DEF PtReturn, End
  <2>5. CASE EmLock \/ EmMalloc \/ EmCopy BY <2>5 DEF EmLock, EmMalloc, EmCopy
  <2>6. CASE EmUnlock BY <2>6 DEF EmUnlock
  <2>7. CASE EmSignal BY <2>7 DEF EmSignal, CondSignal
  <2> QED BY <1>3, <2>1, <2>2, <2>3, <2>4, <2>5, <2>6, <2>7
<1>4. CASE RlInit \/ RlLock \/ Timeout \/ MakeThread \/ RlUnlock \/ RlSpin
         \/ TimerSleep \/ RetryLock \/ RetrySet \/ RetryUnlock \/ TimerFree
  BY <1>4
      DEF RlInit, RlLock, Timeout, MakeThread, RlUnlock, RlSpin, TimerSleep, RetryLock, RetrySet,
          RetryUnlock, TimerFree
<1>5. CASE CnCreate1 \/ CnCreate2 \/ CnReturn \/ CnJoin
  BY <1>5 DEF CnCreate1, CnCreate2, CnReturn, CnJoin, Join
<1>6. CASE CnPrint \/ CnSleep \/ CnCancel \/ CnPush \/ CnTest \/ CnUnwind
  BY <1>6 DEF CnPrint, CnSleep, CnCancel, CnPush, Push, CnTest, End, CnUnwind, Unwind
<1>7. CASE ClCreate1 \/ ClCreate2 \/ ClReturn \/ ClJoin1 \/ ClJoin2
  BY <1>7 DEF ClCreate1, ClCreate2, ClReturn, ClJoin1, ClJoin2, Join
<1>8. CASE ClPush1 \/ ClPush2 \/ ClEnd1 \/ ClExit2
  BY <1>8 DEF ClPush1, ClPush2, Push, ClEnd1, End, ClExit2, Unwind
<1>9. CASE ExCreate1 \/ ExCreate2 \/ ExReturn \/ ExJoin1 \/ ExJoin2
  BY <1>9 DEF ExCreate1, ExCreate2, ExReturn, ExJoin1, ExJoin2, Join
<1>10. CASE ExEnd1 \/ ExExit2
  BY <1>10 DEF ExEnd1, End, ExExit2, Unwind
<1>11. CASE PsFails \/ CsFails \/ ExFails \/ Spurious("pthread_signal", "main") \/ Spurious("condition_signal", "t1")
  BY <1>11 DEF PsFails, CsFails, ExFails, Spurious
<1>12. CASE \E s \in Signal : PsSend(s)
  BY <1>12 DEF PsSend
<1>13. CASE UNCHANGED vars
  BY <1>13, Zenon DEF vars
<1> QED BY <1>1, <1>2, <1>3, <1>4, <1>5, <1>6, <1>7, <1>8, <1>9, <1>10, <1>11, <1>12, <1>13
  DEF Next, MainStep, T1Step, T2Step, World

\* Told grows by one status with each join, of a thread that has ended or was never
\* made.
LEMMA NextTold == TypeOK /\ Places /\ Handlers /\ Statuses /\ Told /\ [Next]_vars => Told'
<1> SUFFICES ASSUME TypeOK, Places, Handlers, Statuses, Told, [Next]_vars PROVE Told'
  OBVIOUS
<1>0. DOMAIN pc = Thread /\ status \in [Thread -> Value] BY DEF TypeOK, Handlers
<1> USE <1>0
    DEF Told, Joins, Statuses, Places, Thread, Value, Step, At, Go, Ends, Create, Lock, LockIf, Unlock, Set,
        handed, signals, ends
<1>1. CASE PsBlock \/ PsCreate \/ PsLock \/ PsTest \/ PsRestore \/ PsReturn
  BY <1>1 DEF PsBlock, PsMaskAs, PsCreate, PsLock, PsTest, CondTest, PsRestore, PsReturn
<1>2. CASE PsSigWait \/ PsThrLock \/ PsSetFlag \/ PsUnlock \/ PsCondSignal
  BY <1>2 DEF PsSigWait, PsThrLock, PsSetFlag, PsUnlock, PsCondSignal, CondSignal
<1>3. CASE CsCreate1 \/ CsCreate2 \/ CsReturn
  BY <1>3 DEF CsCreate1, CsCreate2, CsReturn
<1>4. CASE CsJoin1 \/ CsJoin2
  <2>0. prog = "condition_signal" /\ prog' = prog BY <1>4 DEF CsJoin1, CsJoin2, Join
  <2>1. CASE UNCHANGED <<pc, told>> BY <2>0, <2>1
  <2>2. CASE CsJoin1 /\ ~ UNCHANGED <<pc, told>>
    <3>1. /\ pc["main"] = "join1" /\ pc'["main"] = "join2"
          /\ \E a \in {"0", "unset"} : told' = Append(told, a)
      BY <2>2 DEF CsJoin1, Join
    <3>2. told = <<>> BY <2>0, <3>1
    <3>3. \E a \in {"0", "unset"} : told' = <<a>> BY <3>1, <3>2
    <3> QED BY <2>0, <3>1, <3>3
  <2>3. CASE CsJoin2 /\ ~ UNCHANGED <<pc, told>>
    <3>1. /\ pc["main"] = "join2" /\ pc'["main"] = "return"
          /\ \E b \in {"0", "unset"} : told' = Append(told, b)
      BY <2>3 DEF CsJoin2, Join
    <3>2. \E a \in {"0", "unset"} : told = <<a>> BY <2>0, <3>1
    <3>3. \E a \in {"0", "unset"}, b \in {"0", "unset"} : told' = <<a, b>> BY <3>1, <3>2, AppendSecond
    <3> QED BY <2>0, <3>1, <3>3
  <2> QED BY <1>4, <2>1, <2>2, <2>3
<1>5. CASE PtLock \/ PtRelock \/ PtTest \/ PtPrint \/ PtUnlock
  BY <1>5 DEF PtLock, PtRelock, PtTest, CondTest, PtPrint, PtUnlock
<1>6. CASE PtReturn
  BY <1>6 DEF PtReturn, End
<1>7. CASE EmLock \/ EmMalloc \/ EmCopy \/ EmUnlock \/ EmSignal
  BY <1>7 DEF EmLock, EmMalloc, EmCopy, EmUnlock, EmSignal, CondSignal
<1>8. CASE RlInit \/ RlLock \/ Timeout \/ MakeThread \/ RlUnlock \/ RlSpin
  BY <1>8 DEF RlInit, RlLock, Timeout, MakeThread, RlUnlock, RlSpin
<1>9. CASE TimerSleep \/ RetryLock \/ RetrySet \/ RetryUnlock \/ TimerFree
  BY <1>9 DEF TimerSleep, RetryLock, RetrySet, RetryUnlock, TimerFree
<1>10. CASE CnCreate1 \/ CnCreate2 \/ CnReturn
  BY <1>10 DEF CnCreate1, CnCreate2, CnReturn
<1>11. CASE CnJoin
  <2>0. prog = "pthread_cancel" /\ prog' = prog BY <1>11 DEF CnJoin, Join
  <2>1. CASE UNCHANGED <<pc, told, status>> BY <2>0, <2>1
  <2>2. CASE ~ UNCHANGED <<pc, told, status>>
    <3>1. /\ pc["main"] = "join1" /\ pc'["main"] = "return" /\ pc'["t1"] = pc["t1"] /\ status' = status
          /\ pc["t1"] \in {"none", "returned", "exited"}
          /\ told' = Append(told, IF pc["t1"] = "none" THEN "unset" ELSE status["t1"])
      BY <1>11, <2>2 DEF CnJoin, Join
    <3>2. told' = <<IF pc["t1"] = "none" THEN "unset" ELSE status["t1"]>> BY <2>0, <3>1
    <3> QED BY <2>0, <3>1, <3>2
  <2> QED BY <2>1, <2>2
<1>12. CASE CnPrint \/ CnSleep \/ CnCancel
  BY <1>12 DEF CnPrint, CnSleep, CnCancel
<1>13. CASE CnPush
  BY <1>13 DEF CnPush, Push
<1>14. CASE CnTest
  BY <1>14 DEF CnTest, End
<1>15. CASE CnUnwind
  BY <1>15 DEF CnUnwind, Unwind
<1>16. CASE ClCreate1 \/ ClCreate2 \/ ClReturn
  BY <1>16 DEF ClCreate1, ClCreate2, ClReturn
<1>17. CASE ClJoin1 \/ ClJoin2
  <2>0. prog = "pthread_cleanup" /\ prog' = prog BY <1>17 DEF ClJoin1, ClJoin2, Join
  <2>1. CASE UNCHANGED <<pc, told>> BY <2>0, <2>1
  <2>2. CASE ClJoin1 /\ ~ UNCHANGED <<pc, told>>
    <3>1. /\ pc["main"] = "join1" /\ pc'["main"] = "join2"
          /\ \E a \in {"1", "unset"} : told' = Append(told, a)
      BY <2>2 DEF ClJoin1, Join
    <3>2. told = <<>> BY <2>0, <3>1
    <3>3. \E a \in {"1", "unset"} : told' = <<a>> BY <3>1, <3>2
    <3> QED BY <2>0, <3>1, <3>3
  <2>3. CASE ClJoin2 /\ ~ UNCHANGED <<pc, told>>
    <3>1. /\ pc["main"] = "join2" /\ pc'["main"] = "return"
          /\ \E b \in {"2", "unset"} : told' = Append(told, b)
      BY <2>3 DEF ClJoin2, Join
    <3>2. \E a \in {"1", "unset"} : told = <<a>> BY <2>0, <3>1
    <3>3. \E a \in {"1", "unset"}, b \in {"2", "unset"} : told' = <<a, b>> BY <3>1, <3>2, AppendSecond
    <3> QED BY <2>0, <3>1, <3>3
  <2> QED BY <1>17, <2>1, <2>2, <2>3
<1>18. CASE ClPush1 \/ ClPush2
  BY <1>18 DEF ClPush1, ClPush2, Push
<1>19. CASE ClEnd1
  BY <1>19 DEF ClEnd1, End
<1>20. CASE ClExit2
  BY <1>20 DEF ClExit2, Unwind
<1>21. CASE ExCreate1 \/ ExCreate2 \/ ExReturn
  BY <1>21 DEF ExCreate1, ExCreate2, ExReturn
<1>22. CASE ExJoin1 \/ ExJoin2
  <2>0. prog = "pthread_exit" /\ prog' = prog BY <1>22 DEF ExJoin1, ExJoin2, Join
  <2>1. CASE UNCHANGED <<pc, told>> BY <2>0, <2>1
  <2>2. CASE ExJoin1 /\ ~ UNCHANGED <<pc, told>>
    <3>1. /\ pc["main"] = "join1" /\ pc'["main"] = "join2"
          /\ \E a \in {"1", "unset"} : told' = Append(told, a)
      BY <2>2 DEF ExJoin1, Join
    <3>2. told = <<>> BY <2>0, <3>1
    <3>3. \E a \in {"1", "unset"} : told' = <<a>> BY <3>1, <3>2
    <3> QED BY <2>0, <3>1, <3>3
  <2>3. CASE ExJoin2 /\ ~ UNCHANGED <<pc, told>>
    <3>1. /\ pc["main"] = "join2" /\ pc'["main"] = "return"
          /\ \E b \in {"2", "unset"} : told' = Append(told, b)
      BY <2>3 DEF ExJoin2, Join
    <3>2. \E a \in {"1", "unset"} : told = <<a>> BY <2>0, <3>1
    <3>3. \E a \in {"1", "unset"}, b \in {"2", "unset"} : told' = <<a, b>> BY <3>1, <3>2, AppendSecond
    <3> QED BY <2>0, <3>1, <3>3
  <2> QED BY <1>22, <2>1, <2>2, <2>3
<1>23. CASE ExEnd1
  BY <1>23 DEF ExEnd1, End
<1>24. CASE ExExit2
  BY <1>24 DEF ExExit2, Unwind
<1>25. CASE PsFails \/ CsFails \/ ExFails
  BY <1>25 DEF PsFails, CsFails, ExFails
<1>26. CASE Spurious("pthread_signal", "main") \/ Spurious("condition_signal", "t1")
  BY <1>26 DEF Spurious
<1>27. CASE \E s \in Signal : PsSend(s)
  BY <1>27 DEF PsSend
<1>28. CASE UNCHANGED vars
  BY <1>28 DEF vars
<1> QED
  BY <1>1, <1>2, <1>3, <1>4, <1>5, <1>6, <1>7, <1>8, <1>9, <1>10, <1>11, <1>12, <1>13, <1>14, <1>15, <1>16, ZenonT(30),
     <1>17, <1>18, <1>19, <1>20, <1>21, <1>22, <1>23, <1>24, <1>25, <1>26, <1>27, <1>28
  DEF Next, MainStep, T1Step, T2Step, World

\* The stacks, the statuses and the joins stay as UInv says.
THEOREM UnwindInvariance == Spec => []UInv
<1>1. IInv /\ UInv /\ [Next]_vars => UInv'
  BY NextHandlers, NextMade, NextStatuses, NextTold DEF UInv, IInv
<1> QED BY InitUInv, <1>1, Invariance, PTL DEF Spec

\* A thread that exits or is canceled has run its handlers in order, one that
\* returns none, and main is told by pthread_join how each one ended.
THEOREM UnwoundCorrect == Spec => []Unwound
<1>1. IInv /\ UInv => Unwound
  <2> SUFFICES ASSUME IInv, UInv PROVE Unwound
    OBVIOUS
  <2>1. ASSUME NEW t \in Thread
        PROVE  /\ pc[t] = "exited" => stack[t] = <<>> /\ ran[t] \in {<<>>, <<"second", "first">>}
               /\ pc[t] = "returned" => ran[t] = <<>>
    <3>1. Handled(pc[t], stack[t], ran[t]) BY DEF UInv, Handlers
    <3> QED BY <3>1 DEF Handled, Both
  <2>2. prog = "pthread_cancel" /\ told = <<"0">> => ran["t1"] = <<>>
    <3> SUFFICES ASSUME prog = "pthread_cancel", told = <<"0">> PROVE ran["t1"] = <<>>
      OBVIOUS
    <3>1. told # <<>> /\ told[1] = "0" OBVIOUS
    <3>2. /\ pc["main"] = "return"
          /\ (pc["t1"] = "none" \/ (pc["t1"] \in {"returned", "exited"} /\ told = <<status["t1"]>>))
      BY <3>1 DEF UInv, Told
    <3>3. pc["t1"] # "exited"
      <4> SUFFICES ASSUME pc["t1"] = "exited" PROVE FALSE
        OBVIOUS
      <4>1. told[1] = "PTHREAD_CANCELED" BY <3>2 DEF UInv, Statuses
      <4> QED BY <3>1, <4>1
    <3> QED BY <2>1, <3>2, <3>3 DEF UInv, Handlers, Handled, Thread
  <2>3. told = <<"PTHREAD_CANCELED">> => flag = 1 /\ pc["t1"] = "exited"
    <3> SUFFICES ASSUME told = <<"PTHREAD_CANCELED">> PROVE flag = 1 /\ pc["t1"] = "exited"
      OBVIOUS
    <3>1. told # <<>> /\ told[1] = "PTHREAD_CANCELED" /\ Len(told) = 1 OBVIOUS
    <3>2. prog = "pthread_cancel"
      <4>1. prog \notin {"pthread_signal", "recursive_lock"} BY <3>1 DEF UInv, Told
      <4>2. ASSUME NEW S, NEW R, Joins(S, R) PROVE "PTHREAD_CANCELED" \in S
        <5>1. pc["main"] \in {"join2", "return"} BY <3>1, <4>2 DEF Joins
        <5>2. \E a \in S : told[1] = a BY <4>2, <5>1 DEF Joins
        <5> QED BY <3>1, <5>2
      <4>3. prog \notin {"condition_signal", "pthread_cleanup", "pthread_exit"} BY <4>2 DEF UInv, Told
      <4> QED BY <4>1, <4>3 DEF IInv, TypeOK, Prog
    <3>3. pc["main"] = "return" BY <3>1, <3>2 DEF UInv, Told
    <3>4. pc["t1"] = "exited" BY <3>1, <3>2, <3>3 DEF UInv, Told, Statuses
    <3> QED BY <3>2, <3>4 DEF UInv, Statuses
  <2>4. prog \in {"pthread_cleanup", "pthread_exit"} /\ pc["main"] = "return" =>
          told[1] \in {"1", "unset"} /\ told[2] \in {"2", "unset"}
    BY DEF UInv, Told, Joins
  <2> QED BY <2>1, <2>2, <2>3, <2>4 DEF Unwound
<1> QED BY <1>1, Invariance, UnwindInvariance, PTL
=============================================================================
