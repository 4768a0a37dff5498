------------------------- MODULE DaemonSignalProofs -------------------------
(***************************************************************************)
(* Proofs about signals and about the daemon.  About SignalReceive, for    *)
(* any number of signals and any limit of the queue: where a handler can   *)
(* interrupt a printf, that getpass turns the echo on again, which wakeup  *)
(* can be lost, and that the signals received are those sent, in order.    *)
(* About Daemonize, for any number of descriptors, any limits and any cap  *)
(* above two, that of the code (1024) included.  About DaemonInstances,    *)
(* for any set of processes and any bound on the signals: one daemon works *)
(* at a time, the pid file names it, and how it ends.                      *)
(***************************************************************************)
EXTENDS SignalReceive, Daemonize, DaemonInstances, WellFoundedInduction, TLAPS

(***************************************************************************)
(* SignalReceive: the inductive invariant.                                 *)
(***************************************************************************)
\* Only signals with a handler are handled; where the handler of a program is for
\* one signal, or blocks all others, it is never interrupted by itself.
Handlers ==
  /\ \A i \in 1..Len(handling) : handling[i] \in armed
  /\ prog \in {"sig_waitinfo", "getpass"} => armed = {}
  /\ prog \in {"sigjump", "reentrant"} => armed \subseteq {"INT"}
  /\ prog = "winsz" => armed \subseteq {"WINCH"}
  /\ prog = "sig_suspend" => armed \subseteq {"INT", "QUIT"}
  /\ prog = "sig_user" => armed \subseteq {"USR1", "USR2"}
  /\ prog \in {"rt_sig_recv", "sigjump", "reentrant", "winsz"} => Len(handling) <= 1

\* Which programs have the statements the properties are about.
Places ==
  /\ pc = "critical" => prog = "sig_suspend"
  /\ pc = "gap" => prog = "rt_sig_recv"
  /\ pc = "sleep" => prog \in {"rt_sig_recv", "sig_receiver", "sig_waitinfo"}
  /\ pc = "print" => prog \in {"rt_sig_recv", "sigjump", "winsz", "getpass"}
  /\ pc = "pause" => prog \in {"rt_sig_recv", "sig_suspend", "sig_user", "sigjump", "winsz"}
  /\ pc \in {"noecho", "getc", "restore"} => prog = "getpass"
  /\ canJump = 1 => prog = "sigjump"

\* What is blocked: all but SIGINT while rt_sig_recv prints and sleeps, both signals
\* of sig_suspend unless it is in sigsuspend, and both of getpass until the echo is back.
Blocked ==
  /\ prog = "rt_sig_recv" /\ pc \in {"print", "sleep", "unblock"} =>
       mask = Sig \ {"INT"} /\ \A i \in 1..Len(handling) : handling[i] = "INT"
  /\ prog = "sig_suspend" =>
       /\ pc = "block" => armed = {}
       /\ pc \notin {"block", "pause"} /\ ~ Ended => {"INT", "QUIT"} \subseteq mask
       /\ pc # "pause" /\ ~ Ended => handling = <<>>
  /\ prog = "getpass" => /\ pend \subseteq {"INT", "TSTP"}
                         /\ pc \in {"noecho", "getc", "restore"} => {"INT", "TSTP"} \subseteq mask

\* When the terminal does not echo.
Echoing == ~ echo => prog = "getpass" /\ (pc \in {"getc", "restore"} \/ (Ended /\ by = "RT"))

\* What main knows of allDone after its test.
Tested ==
  /\ allDone = 1 => prog \in {"rt_sig_recv", "sig_receiver", "sig_suspend", "sig_waitinfo"}
  /\ pc = "critical" => allDone # 1
  /\ pc = "gap" /\ allDone = 1 => gapHit
  /\ StuckOnlyInGap

Types ==
  /\ prog \in Prog /\ handling \in Seq(Sig) /\ echo \in BOOLEAN /\ gapHit \in BOOLEAN
  /\ canJump \in {0, 1} /\ allDone \in {0, 1}

IInv == Types /\ Handlers /\ Places /\ Blocked /\ Echoing /\ Tested
-----------------------------------------------------------------------------
(* The steps of main.                                                      *)

USE DEF which, sender, seen, queue, static, Ended

\* IInv holds at the start.
LEMMA InitHolds == Init => IInv
  <1> SUFFICES ASSUME Init PROVE IInv  OBVIOUS
  <1>1. pc \in {"block", "open", "install"} /\ (prog = "sig_suspend" => pc = "block") /\ echo /\ ~ gapHit
    BY Zenon DEF Init
  <1>2. /\ prog \in Prog /\ armed = {} /\ handling = <<>> /\ pend = {} /\ allDone = 0 /\ canJump = 0
        /\ echo \in BOOLEAN /\ gapHit \in BOOLEAN
    BY Zenon DEF Init
  <1>3. handling \in Seq(Sig) /\ Len(handling) = 0
    BY <1>2
  <1>4. Types /\ Handlers
    BY <1>2, <1>3 DEF Types, Handlers
  <1>5. Places /\ Echoing /\ Tested
    BY <1>1, <1>2 DEF Places, Echoing, Tested, StuckOnlyInGap
  <1>6. Blocked
    BY <1>1, <1>2 DEF Blocked
  <1> QED BY <1>4, <1>5, <1>6 DEF IInv

\* IInv survives a step that changes nothing.
LEMMA StutterHolds == IInv /\ UNCHANGED vars => IInv'
  BY DEF vars, IInv, Types, Handlers, Places, Blocked, Echoing, Tested, StuckOnlyInGap

\* The steps of rt_sig_recv preserve IInv.
LEMMA RtHolds == ASSUME IInv, RtSigRecv PROVE IInv'
  <1> USE DEF Main, IInv, Types, Handlers, Places, Blocked, Echoing, Tested, StuckOnlyInGap
  <1>1. CASE RtInstall
    BY <1>1 DEF RtInstall, InstallAll
  <1>2. CASE RtBlock
    BY <1>2 DEF RtBlock, SetMask
  <1>3. CASE RtUnblock
    BY <1>3 DEF RtUnblock, SetMask
  <1>4. CASE RtSleep \/ RtWake \/ RtTest \/ RtPause
    BY <1>4 DEF RtSleep, RtWake, RtTest, RtPause, Go
  <1> QED BY <1>1, <1>2, <1>3, <1>4 DEF RtSigRecv

\* The steps of sig_receiver preserve IInv.
LEMMA RcHolds == ASSUME IInv, SigReceiver PROVE IInv'
  <1> USE DEF Main, IInv, Types, Handlers, Places, Blocked, Echoing, Tested, StuckOnlyInGap
  <1>1. CASE RcInstall
    BY <1>1 DEF RcInstall, InstallAll
  <1>2. CASE RcBlock
    BY <1>2 DEF RcBlock, SetMask
  <1>3. CASE RcUnblock
    BY <1>3 DEF RcUnblock, SetMask
  <1>4. CASE RcSleep \/ RcSpin
    BY <1>4 DEF RcSleep, RcSpin, Go
  <1> QED BY <1>1, <1>2, <1>3, <1>4 DEF SigReceiver

\* The steps of sig_suspend preserve IInv.
LEMMA SuHolds == ASSUME IInv, SigSuspend PROVE IInv'
  <1> USE DEF Main, IInv, Types, Handlers, Places, Blocked, Echoing, Tested, StuckOnlyInGap
  <1>1. CASE SuInstall
    BY <1>1 DEF SuInstall, InstallAll
  <1>2. CASE SuBlock
    BY <1>2 DEF SuBlock, SetMask
  <1>3. CASE SuSuspend
    BY <1>3 DEF SuSuspend, SetMask
  <1>4. CASE SuTest
    BY <1>4 DEF SuTest, Go
  <1> QED BY <1>1, <1>2, <1>3, <1>4 DEF SigSuspend

\* The steps of sig_waitinfo preserve IInv.
LEMMA WiHolds == ASSUME IInv, SigWaitinfo PROVE IInv'
  <1> USE DEF Main, IInv, Types, Handlers, Places, Blocked, Echoing, Tested, StuckOnlyInGap
  <1>1. CASE WiBlock \/ WiSleep
    BY <1>1 DEF WiBlock, WiSleep, SetMask, Go
  <1>2. ASSUME NEW s \in Sig, WiTake(s) PROVE IInv'
    BY <1>2 DEF WiTake, Receive, Note, SetDone, Count
  <1> QED BY <1>1, <1>2 DEF SigWaitinfo

\* The steps of sig_user preserve IInv.
LEMMA UsHolds == ASSUME IInv, SigUser PROVE IInv'
  <1> USE DEF Main, IInv, Types, Handlers, Places, Blocked, Echoing, Tested, StuckOnlyInGap
  <1>1. CASE UsInstall
    BY <1>1 DEF UsInstall, InstallAll
  <1>2. CASE UsPause
    BY <1>2 DEF UsPause, Go
  <1> QED BY <1>1, <1>2 DEF SigUser

\* The steps of sigjump preserve IInv.
LEMMA SjHolds == ASSUME IInv, SigJump PROVE IInv'
  <1> USE DEF Main, IInv, Types, Handlers, Places, Blocked, Echoing, Tested, StuckOnlyInGap
  <1>1. CASE SjInstall
    BY <1>1 DEF SjInstall, InstallAll
  <1>2. CASE SjSetjmp \/ SjPrint \/ SjPause
    BY <1>2 DEF SjSetjmp, SjPrint, SjPause, Go
  <1> QED BY <1>1, <1>2 DEF SigJump

\* The steps of reentrant preserve IInv.
LEMMA ReHolds == ASSUME IInv, Reentrant PROVE IInv'
  <1> USE DEF Main, IInv, Types, Handlers, Places, Blocked, Echoing, Tested, StuckOnlyInGap
  <1>1. CASE ReInstall
    BY <1>1 DEF ReInstall, InstallAll
  <1>2. CASE ReCrypt \/ ReCompare
    BY <1>2 DEF ReCrypt, ReCompare
  <1> QED BY <1>1, <1>2 DEF Reentrant

\* The steps of winsz preserve IInv.
LEMMA WzHolds == ASSUME IInv, Winsz PROVE IInv'
  <1> USE DEF Main, IInv, Types, Handlers, Places, Blocked, Echoing, Tested, StuckOnlyInGap
  <1>1. CASE WzInstall
    BY <1>1 DEF WzInstall, InstallAll
  <1>2. CASE WzTty \/ WzPrint \/ WzPause
    BY <1>2 DEF WzTty, WzPrint, WzPause, Go
  <1> QED BY <1>1, <1>2 DEF Winsz

\* The steps of getpass preserve IInv.
LEMMA GpHolds == ASSUME IInv, Getpass \/ GpGetc PROVE IInv'
  <1> USE DEF Main, IInv, Types, Handlers, Places, Blocked, Echoing, Tested, StuckOnlyInGap
  <1>1. CASE GpOpen \/ GpReturn \/ GpGetc
    BY <1>1 DEF GpOpen, GpReturn, GpGetc, Go
  <1>2. CASE GpBlock \/ GpUnblock
    BY <1>2 DEF GpBlock, GpUnblock, SetMask
  <1>3. CASE GpEcho("noecho", FALSE, "getc")
    BY <1>3, Zenon DEF GpEcho
  <1>4. CASE Go("getpass", "noecho", "ended")
    BY <1>4 DEF Go
  <1>5. CASE GpRestore
    BY <1>5 DEF GpRestore, GpEcho
  <1> QED BY <1>1, <1>2, <1>3, <1>4, <1>5, Zenon DEF Getpass, GpNoEcho
-----------------------------------------------------------------------------
(* Signals.                                                                *)

\* Sending a signal preserves IInv.
LEMMA SenderHolds == ASSUME IInv, RtSend \/ StdSend PROVE IInv'
  <1> USE DEF IInv, Types, Handlers, Places, Blocked, Echoing, Tested, StuckOnlyInGap
  <1>1. CASE RtSend
    BY <1>1 DEF RtSend, QueueAs
  <1>2. CASE StdSend
    BY <1>2 DEF StdSend, First, Last
  <1> QED BY <1>1, <1>2

\* So does an exit from the handler of winsz,
LEMMA ExitHolds == ASSUME IInv, HandlerExits PROVE IInv'
  BY DEF HandlerExits, IInv, Types, Handlers, Places, Blocked, Echoing, Tested, StuckOnlyInGap

\* the jump out of that of sigjump,
LEMMA JumpHolds == ASSUME IInv, Siglongjmp PROVE IInv'
  BY DEF Siglongjmp, JumpWith, IInv, Types, Handlers, Places, Blocked, Echoing, Tested, StuckOnlyInGap

\* the return from a handler,
LEMMA ReturnHolds == ASSUME IInv, HandlerReturns PROVE IInv'
  <1> USE DEF HandlerReturns, ReturnTo
  <1>1. /\ handling \in Seq(Sig) /\ handling # <<>> /\ handling' = Tail(handling)
        /\ handling' \in Seq(Sig) /\ Len(handling') = Len(handling) - 1
        /\ \A i \in 1..Len(handling') : handling'[i] = handling[i + 1]
    BY DEF IInv, Types
  <1>2. CASE Len(handling) > 1
    <2>1. pc' = pc
      BY <1>2, Zenon
    <2> QED BY <1>1, <1>2, <2>1 DEF IInv, Types, Handlers, Places, Blocked, Echoing, Tested, StuckOnlyInGap
  <1>3. CASE ~ (Len(handling) > 1)
    <2>1. handling' = <<>>
      BY <1>1, <1>3
    <2>2. CASE pc = "pause"
      BY <1>3, <2>1, <2>2 DEF IInv, Types, Handlers, Places, Blocked, Echoing, Tested, StuckOnlyInGap
    <2>3. CASE pc = "sleep"
      BY <1>3, <2>1, <2>3 DEF IInv, Types, Handlers, Places, Blocked, Echoing, Tested, StuckOnlyInGap
    <2>4. CASE pc \notin {"pause", "sleep"}
      BY <1>3, <2>1, <2>4 DEF IInv, Types, Handlers, Places, Blocked, Echoing, Tested, StuckOnlyInGap
    <2> QED BY <2>2, <2>3, <2>4
  <1> QED BY <1>2, <1>3

\* The sequence with one more handler running.
LEMMA Pushed ==
  ASSUME NEW q \in Seq(Sig), NEW s \in Sig
  PROVE  /\ <<s>> \o q \in Seq(Sig) /\ Len(<<s>> \o q) = Len(q) + 1 /\ (<<s>> \o q)[1] = s
         /\ \A i \in 2..Len(q) + 1 : (<<s>> \o q)[i] = q[i - 1]
  OBVIOUS

\* and the delivery of a signal.
LEMMA DeliverHolds == ASSUME IInv, NEW s \in Sig, Deliver(s) PROVE IInv'
  <1>1. CASE s \in armed
    <2>1. /\ handling \in Seq(Sig) /\ handling' = <<s>> \o handling
          /\ handling' \in Seq(Sig) /\ Len(handling') = Len(handling) + 1
          /\ handling'[1] = s /\ \A i \in 2..Len(handling') : handling'[i] = handling[i - 1]
      <3>1. handling \in Seq(Sig)
        BY DEF IInv, Types
      <3>2. handling' = <<s>> \o handling
        BY <1>1, Zenon DEF Deliver
      <3> QED BY <3>1, <3>2, Pushed
    <2>2. Types'
      BY <1>1, <2>1 DEF Deliver, Note, SetDone, Count, siginfoHandler, sig_handler, handler, sig_user,
                         jump_handler, crypt_handler, sig_winch, IInv, Types
    <2>3. Handlers'
      <3>1. \A i \in 1..Len(handling') : handling'[i] \in armed
        BY <1>1, <2>1 DEF IInv, Handlers
      <3>2. prog \in {"rt_sig_recv", "sigjump", "reentrant", "winsz"} => handling = <<>>
        BY <1>1, <2>1 DEF Deliver, OpenFor, IInv, Handlers
      <3> QED BY <1>1, <2>1, <3>1, <3>2 DEF Deliver, IInv, Handlers
    <2>4. Places'
      BY <1>1 DEF Deliver, IInv, Places
    <2>5. Blocked'
      <3>1. /\ s \notin mask /\ ~ Ended /\ mask' = mask /\ prog' = prog /\ pc' = pc /\ armed' = armed
            /\ pend' \subseteq pend
        BY <1>1 DEF Deliver, OpenFor, Receive
      <3>2. CASE prog = "rt_sig_recv"
        BY <1>1, <2>1, <3>1, <3>2 DEF IInv, Blocked
      <3>3. CASE prog = "sig_suspend"
        BY <1>1, <2>1, <3>1, <3>3 DEF IInv, Handlers, Blocked
      <3>4. CASE prog \notin {"rt_sig_recv", "sig_suspend"}
        BY <3>1, <3>4 DEF IInv, Blocked
      <3> QED BY <3>2, <3>3, <3>4
    <2>6. Echoing'
      BY <1>1 DEF Deliver, IInv, Echoing, Handlers
    <2>7. Tested'
      <3>1. pc' = pc /\ prog' = prog /\ handling' # <<>> /\ s \notin mask /\ ~ Ended
        BY <1>1, <2>1 DEF Deliver, OpenFor
      <3>2. gapHit' = (gapHit \/ (s = Last /\ pc = "gap"))
        BY <1>1, Zenon DEF Deliver, Note
      <3>3. allDone' = allDone \/ (allDone' = 1 /\ \/ prog \in {"rt_sig_recv", "sig_receiver"} /\ s = "INT"
                                                   \/ prog = "sig_suspend" /\ s = "QUIT")
        BY <1>1 DEF Deliver, SetDone, Count, siginfoHandler, sig_handler, handler, sig_user, jump_handler,
                    crypt_handler, sig_winch
      <3>4. pc = "critical" => s \notin armed
        BY <3>1 DEF IInv, Handlers, Places, Blocked
      <3>5. gapHit \/ (s = Last /\ pc = "gap") => gapHit'
        BY <3>2, Zenon
      <3>6. gapHit' => prog = "rt_sig_recv"
        BY <3>2, Zenon DEF IInv, Places, Tested, StuckOnlyInGap
      <3>7. pc = "gap" /\ allDone' = 1 => gapHit'
        BY <3>3, <3>5 DEF IInv, Places, Tested, Last
      <3> QED BY <1>1, <3>1, <3>3, <3>4, <3>6, <3>7 DEF IInv, Tested, StuckOnlyInGap
    <2> QED BY <2>2, <2>3, <2>4, <2>5, <2>6, <2>7 DEF IInv
  <1>2. CASE s \notin armed
    BY <1>2 DEF Deliver, OpenFor, Receive, Note, IInv, Types, Handlers, Places, Blocked, Echoing, Tested, StuckOnlyInGap
  <1> QED BY <1>1, <1>2
-----------------------------------------------------------------------------
(* The invariant is what the three properties need.                        *)

\* IInv holds in every reachable state.
THEOREM Invariance == Spec => []IInv
  <1>1. IInv /\ [Next]_vars => IInv'
    BY StutterHolds, RtHolds, RcHolds, SuHolds, WiHolds, UsHolds, SjHolds, ReHolds, WzHolds, GpHolds, SenderHolds,
       ExitHolds, JumpHolds, ReturnHolds, DeliverHolds DEF Next, MainStep, Handler
  <1> QED BY <1>1, InitHolds, PTL DEF Spec

\* The printf of a handler, however many signals there are, interrupts another only
\* in the places PrintfAlone names.
THEOREM PrintfCorrect == Spec => []PrintfAlone
  <1>1. IInv => PrintfAlone
    BY DEF IInv, Types, Handlers, Places, Blocked, PrintfAlone, Printing, Prints, Printers, Prog
  <1> QED BY <1>1, Invariance, PTL

\* getpass leaves the terminal without echo only when a signal it does not block
\* kills it.
THEOREM EchoCorrect == Spec => []EchoBack
  <1>1. IInv => EchoBack
    BY DEF IInv, Echoing, EchoBack
  <1> QED BY <1>1, Invariance, PTL

\* The only wakeup that can be lost is that between the test of allDone and pause of
\* rt_sig_recv.
THEOREM GapCorrect == Spec => []StuckOnlyInGap
  <1>1. IInv => StuckOnlyInGap
    BY DEF IInv, Tested
  <1> QED BY <1>1, Invariance, PTL
-----------------------------------------------------------------------------
(* Order and number of the signals.                                        *)

\* The values received are the first ones, those queued the next, and no more
\* are sent.
Order ==
  ~ Ended => /\ \A i \in 1..Len(values) : values[i] = i
             /\ \A i \in 1..Len(rtq) : rtq[i] = Len(values) + i
             /\ Len(values) + Len(rtq) <= NumRt
             /\ rtSent <= NumRt => Len(values) + Len(rtq) = rtSent

\* Those counted and those pending are no more than those sent; only the signals
\* sig_sender sends are pending.
One(s) == IF s \in First /\ s \in pend THEN 1 ELSE 0
Firsts == One("INT") + One("USR1") + One("USR2") + One("WINCH") + One("TSTP")
Sent   == IF stdSent < NumStd THEN stdSent ELSE NumStd
Counted ==
  /\ pend \subseteq First \cup {Last}
  /\ sigCnt + Firsts <= Len(values) + Sent

\* A mismatch that reentrant is about to find has its signal.
Matched == prog = "reentrant" => mismatched + (IF pc = "compare" /\ result # "str1" THEN 1 ELSE 0) <= sigCnt

OInv == TypeOK /\ Order /\ Counted /\ Matched

\* OInv holds at the start.
LEMMA OrderInit == Init => OInv
  <1> SUFFICES ASSUME Init PROVE OInv  OBVIOUS
  <1>1. pc \in {"block", "open", "install"}
    BY Zenon DEF Init
  <1>2. echo \in BOOLEAN /\ gapHit \in BOOLEAN /\ delay \in BOOLEAN
    BY Zenon DEF Init
  <1>3. /\ prog \in Prog /\ armed = {} /\ mask = {} /\ handling = <<>> /\ pend = {} /\ rtq = <<>> /\ values = <<>>
        /\ sigCnt = 0 /\ allDone = 0 /\ canJump = 0 /\ result = "none" /\ mismatched = 0 /\ by = "none"
        /\ rtSent = 0 /\ stdSent = 0
    BY Zenon DEF Init
  <1>4. TypeOK
    BY <1>1, <1>2, <1>3, ReceiveAssumption DEF TypeOK
  <1>5. Order /\ Matched
    BY <1>1, <1>3, ReceiveAssumption DEF Order, Matched
  <1>6. Firsts = 0
    BY <1>3 DEF Firsts, One
  <1>7. Counted
    BY <1>3, <1>6, ReceiveAssumption DEF Counted, Sent
  <1> QED BY <1>4, <1>5, <1>7 DEF OInv

\* The steps of main but those of sig_waitinfo and reentrant neither take nor count
\* a signal.
Quiet == /\ UNCHANGED <<prog, queue, values, sigCnt, static, sender>>
         /\ Ended => Ended'
         /\ prog = "reentrant" /\ pc' = "compare" => pc = "compare"

\* Such steps preserve OInv.
LEMMA QuietHolds == ASSUME OInv, TypeOK', Quiet PROVE OInv'
  <1>1. Order'
    BY DEF Quiet, OInv, Order
  <1>2. Counted'
    BY DEF Quiet, OInv, Counted, One, Firsts, Sent, First, Last
  <1>3. Matched'
    BY DEF Quiet, OInv, Matched, TypeOK
  <1> QED BY <1>1, <1>2, <1>3 DEF OInv

\* The steps of rt_sig_recv are quiet.
LEMMA RtOrder == ASSUME OInv, RtSigRecv PROVE TypeOK' /\ Quiet
  <1> USE DEF Main, Quiet, OInv, TypeOK
  <1>1. CASE RtInstall
    BY <1>1 DEF RtInstall, InstallAll, Sig
  <1>2. CASE RtBlock
    BY <1>2 DEF RtBlock, SetMask
  <1>3. CASE RtUnblock
    BY <1>3 DEF RtUnblock, SetMask
  <1>4. CASE RtSleep \/ RtWake \/ RtTest \/ RtPause
    BY <1>4 DEF RtSleep, RtWake, RtTest, RtPause, Go
  <1> QED BY <1>1, <1>2, <1>3, <1>4 DEF RtSigRecv

\* The steps of sig_receiver are quiet.
LEMMA RcOrder == ASSUME OInv, SigReceiver PROVE TypeOK' /\ Quiet
  <1> USE DEF Main, Quiet, OInv, TypeOK
  <1>1. CASE RcInstall
    BY <1>1 DEF RcInstall, InstallAll, Sig
  <1>2. CASE RcBlock
    BY <1>2 DEF RcBlock, SetMask
  <1>3. CASE RcUnblock
    BY <1>3 DEF RcUnblock, SetMask
  <1>4. CASE RcSleep \/ RcSpin
    BY <1>4 DEF RcSleep, RcSpin, Go
  <1> QED BY <1>1, <1>2, <1>3, <1>4 DEF SigReceiver

\* The steps of sig_suspend are quiet.
LEMMA SuOrder == ASSUME OInv, SigSuspend PROVE TypeOK' /\ Quiet
  <1> USE DEF Main, Quiet, OInv, TypeOK
  <1>0. {"INT", "QUIT", "TSTP"} \subseteq Sig
    BY DEF Sig
  <1>1. CASE SuInstall
    BY <1>1 DEF SuInstall, InstallAll, Sig
  <1>2. CASE SuBlock \/ SuSuspend
    BY <1>0, <1>2 DEF SuBlock, SuSuspend, SetMask
  <1>3. CASE SuTest
    BY <1>3 DEF SuTest, Go
  <1> QED BY <1>1, <1>2, <1>3 DEF SigSuspend

\* The steps of sig_user are quiet.
LEMMA UsOrder == ASSUME OInv, SigUser PROVE TypeOK' /\ Quiet
  <1> USE DEF Main, Quiet, OInv, TypeOK
  <1>1. CASE UsInstall
    BY <1>1 DEF UsInstall, InstallAll, Sig
  <1>2. CASE UsPause
    BY <1>2 DEF UsPause, Go
  <1> QED BY <1>1, <1>2 DEF SigUser

\* The steps of sigjump are quiet.
LEMMA SjOrder == ASSUME OInv, SigJump PROVE TypeOK' /\ Quiet
  <1> USE DEF Main, Quiet, OInv, TypeOK
  <1>1. CASE SjInstall
    BY <1>1 DEF SjInstall, InstallAll, Sig
  <1>2. CASE SjSetjmp \/ SjPrint \/ SjPause
    BY <1>2 DEF SjSetjmp, SjPrint, SjPause, Go
  <1> QED BY <1>1, <1>2 DEF SigJump

\* The steps of winsz are quiet.
LEMMA WzOrder == ASSUME OInv, Winsz PROVE TypeOK' /\ Quiet
  <1> USE DEF Main, Quiet, OInv, TypeOK
  <1>1. CASE WzInstall
    BY <1>1 DEF WzInstall, InstallAll, Sig
  <1>2. CASE WzTty \/ WzPrint \/ WzPause
    BY <1>2 DEF WzTty, WzPrint, WzPause, Go
  <1> QED BY <1>1, <1>2 DEF Winsz

\* The steps of getpass are quiet.
LEMMA GpOrder == ASSUME OInv, Getpass \/ GpGetc PROVE TypeOK' /\ Quiet
  <1> USE DEF Main, Quiet, OInv, TypeOK
  <1>0. {"INT", "QUIT", "TSTP"} \subseteq Sig
    BY DEF Sig
  <1>1. CASE GpOpen \/ GpReturn \/ GpGetc
    BY <1>1 DEF GpOpen, GpReturn, GpGetc, Go
  <1>2. CASE GpBlock \/ GpUnblock
    BY <1>0, <1>2 DEF GpBlock, GpUnblock, SetMask
  <1>3. CASE GpEcho("noecho", FALSE, "getc")
    BY <1>3, Zenon DEF GpEcho
  <1>4. CASE Go("getpass", "noecho", "ended")
    BY <1>4 DEF Go
  <1>5. CASE GpRestore
    BY <1>5 DEF GpRestore, GpEcho
  <1> QED BY <1>1, <1>2, <1>3, <1>4, <1>5, Zenon DEF Getpass, GpNoEcho

\* A signal that is received is taken from those pending, or is the next value.
LEMMA TakeOrder ==
  ASSUME OInv, ~ Ended, NEW s \in Sig, Receive(s), Note(s), UNCHANGED <<prog, sender>>, ~ Ended'
  PROVE  Order'
  <1>1. /\ values \in Seq(1..NumRt) /\ rtq \in Seq(1..NumRt) /\ pend \subseteq Sig \ {"RT"}
    BY DEF OInv, TypeOK
  <1>2. CASE s = "RT"
    <2>1. rtq # <<>> /\ rtq' = Tail(rtq) /\ values' = Append(values, Head(rtq))
      BY <1>1, <1>2 DEF Receive, Note
    <2>2. /\ Len(rtq') = Len(rtq) - 1 /\ \A i \in 1..Len(rtq') : rtq'[i] = rtq[i + 1]
          /\ Len(values') = Len(values) + 1 /\ values'[Len(values) + 1] = rtq[1]
          /\ \A i \in 1..Len(values) : values'[i] = values[i]
      BY <1>1, <2>1
    <2>3. Len(rtq) \in Nat /\ Len(values) \in Nat /\ Len(rtq) >= 1
      BY <1>1, <2>1
    <2>4. \A i \in 1..Len(values') : values'[i] = i
      BY <2>2, <2>3 DEF OInv, Order
    <2>5. \A i \in 1..Len(rtq') : rtq'[i] = Len(values') + i
      BY <2>2, <2>3 DEF OInv, Order
    <2> QED BY <2>2, <2>3, <2>4, <2>5 DEF OInv, Order
  <1>3. CASE s # "RT"
    BY <1>3 DEF Receive, Note, OInv, Order
  <1> QED BY <1>2, <1>3

\* The signals sent first are among five, and the last one is not.
LEMMA FirstIs ==
  ASSUME prog \in Prog
  PROVE  First \subseteq {"INT", "USR1", "USR2", "WINCH", "TSTP"} /\ Last \notin First
  <1>1. CASE prog \in {"sig_suspend", "sigjump", "reentrant"}
    <2>1. First = {"INT"} /\ Last = "QUIT"
      BY <1>1 DEF First, Last
    <2> QED BY <2>1
  <1>2. CASE prog = "winsz"
    <2>1. First = {"WINCH"} /\ Last = "INT"
      BY <1>2 DEF First, Last
    <2> QED BY <2>1
  <1>3. CASE prog = "getpass"
    <2>1. First = {"TSTP"} /\ Last = "INT"
      BY <1>3 DEF First, Last
    <2> QED BY <2>1
  <1>4. CASE prog = "sig_user"
    <2>1. First = {"USR1", "USR2"} /\ Last = "INT"
      BY <1>4 DEF First, Last
    <2> QED BY <2>1
  <1>5. CASE prog \in {"rt_sig_recv", "sig_receiver", "sig_waitinfo"}
    <2>1. First = {"USR1"} /\ Last = "INT"
      BY <1>5 DEF First, Last
    <2> QED BY <2>1
  <1> QED BY <1>1, <1>2, <1>3, <1>4, <1>5 DEF Prog

\* A first signal, or a value, may be counted; the last one is not.
LEMMA TakeCounted ==
  ASSUME OInv, NEW s \in Sig, Receive(s), UNCHANGED <<prog, sender>>,
         \/ s \in First \cup {"RT"} /\ sigCnt' = sigCnt + 1 /\ Note(s)
         \/ sigCnt' = sigCnt /\ (Note(s) \/ values' = values)
  PROVE  Counted'
  <1>1. /\ values \in Seq(1..NumRt) /\ pend \subseteq Sig \ {"RT"} /\ sigCnt \in Nat /\ stdSent \in Nat
    BY ReceiveAssumption DEF OInv, TypeOK
  <1>2. Sent \in Nat /\ Sent' = Sent /\ First' = First /\ Last' = Last
    BY <1>1, ReceiveAssumption DEF Sent, First, Last
  <1>3. Len(values') = Len(values) + (IF s = "RT" /\ values' # values THEN 1 ELSE 0)
    BY <1>1 DEF Note
  <1>4. Firsts \in Nat /\ Firsts' \in Nat /\ Firsts' <= Firsts
    BY <1>2 DEF Firsts, One, Receive
  <1>5. s \in First => Firsts' <= Firsts - 1
    <2>1. s \in First => s \in pend /\ s \in {"INT", "USR1", "USR2", "WINCH", "TSTP"}
      BY FirstIs DEF Receive, OInv, TypeOK
    <2> QED BY <1>2, <2>1 DEF Firsts, One, Receive
  <1>6. pend' \subseteq First' \cup {Last'}
    BY <1>2 DEF Receive, OInv, Counted
  <1>7. sigCnt' + Firsts' <= Len(values') + Sent'
    <2>1. sigCnt + Firsts <= Len(values) + Sent /\ Len(values) \in Nat
      BY <1>1 DEF OInv, Counted
    <2>2. s = "RT" /\ Note(s) => Len(values') = Len(values) + 1
      BY <1>1 DEF Note
    <2>3. Len(values') \in Nat /\ Len(values') >= Len(values)
      BY <1>3, <2>1
    <2> QED BY <1>1, <1>2, <1>4, <1>5, <2>1, <2>2, <2>3
  <1> QED BY <1>6, <1>7 DEF Counted

\* The types of what receiving a signal changes.
LEMMA TakeTypes ==
  ASSUME TypeOK, NEW s \in Sig, Receive(s)
  PROVE  /\ pend' \subseteq Sig \ {"RT"} /\ rtq' \in Seq(1..NumRt)
         /\ Note(s) => values' \in Seq(1..NumRt) /\ gapHit' \in BOOLEAN
  <1>1. /\ values \in Seq(1..NumRt) /\ rtq \in Seq(1..NumRt) /\ pend \subseteq Sig \ {"RT"}
        /\ (s = "RT" => rtq # <<>>)
    BY DEF TypeOK, Receive
  <1> DEFINE S == 1..NumRt
  <1> HIDE DEF S
  <1>0. values \in Seq(S) /\ rtq \in Seq(S)
    BY <1>1 DEF S
  <1>2. pend' \subseteq Sig \ {"RT"} /\ rtq' \in Seq(S)
    BY <1>0, <1>1 DEF Receive
  <1>3. Note(s) => values' \in Seq(S)
    <2>1. rtq # <<>> => Head(rtq) \in S
      BY <1>0
    <2> QED BY <1>0, <1>1, <2>1 DEF Note
  <1>4. Note(s) => gapHit' \in BOOLEAN
    BY Zenon DEF Note
  <1> QED BY <1>2, <1>3, <1>4 DEF S

\* The steps of sig_waitinfo preserve OInv.
LEMMA WiOrder == ASSUME OInv, SigWaitinfo PROVE OInv'
  <1>1. CASE WiBlock \/ WiSleep
    <2>1. TypeOK' /\ Quiet
      BY <1>1 DEF WiBlock, WiSleep, SetMask, Go, Main, Quiet, OInv, TypeOK
    <2> QED BY <2>1, QuietHolds
  <1>2. ASSUME NEW s \in Sig, WiTake(s) PROVE OInv'
    <2> USE <1>2
    <2>1. /\ prog = "sig_waitinfo" /\ Receive(s) /\ Note(s) /\ ~ Ended
          /\ UNCHANGED <<prog, delay, handling, sender, by, armed, mask, canJump, static, echo>>
          /\ pc' \in {"ended", "take"}
          /\ \/ s = "INT" /\ allDone' = 1 /\ sigCnt' = sigCnt
             \/ s # "INT" /\ sigCnt' = sigCnt + 1 /\ allDone' = allDone
      BY DEF WiTake, Main, SetDone, Count
    <2>2. TypeOK'
      BY <2>1, TakeTypes DEF OInv, TypeOK
    <2>3. Order'
      BY <2>1, TakeOrder DEF Order
    <2>4. Counted'
      <3>1. s # "INT" => s \in First \cup {"RT"}
        BY <2>1 DEF Receive, OInv, Counted, Last
      <3> QED BY <2>1, <3>1, TakeCounted
    <2>5. Matched'
      BY <2>1 DEF Matched
    <2> QED BY <2>2, <2>3, <2>4, <2>5 DEF OInv
  <1> QED BY <1>1, <1>2 DEF SigWaitinfo

\* The steps of reentrant preserve OInv.
LEMMA ReOrder == ASSUME OInv, Reentrant PROVE OInv'
  <1>1. CASE ReInstall
    <2>1. TypeOK' /\ Quiet
      BY <1>1 DEF ReInstall, InstallAll, Sig, Main, Quiet, OInv, TypeOK
    <2> QED BY <2>1, QuietHolds
  <1>2. CASE ReCrypt \/ ReCompare
    <2>1. TypeOK' /\ UNCHANGED <<prog, queue, values, sigCnt, sender>> /\ ~ Ended
      BY <1>2 DEF ReCrypt, ReCompare, Main, OInv, TypeOK
    <2>2. Order'
      BY <2>1 DEF OInv, Order
    <2>3. Counted'
      BY <2>1 DEF OInv, Counted, One, Firsts, Sent, First, Last
    <2>4. Matched'
      BY <1>2 DEF ReCrypt, ReCompare, Main, OInv, Matched, TypeOK
    <2> QED BY <2>1, <2>2, <2>3, <2>4 DEF OInv
  <1> QED BY <1>1, <1>2 DEF Reentrant

\* The end of a handler is quiet.
LEMMA ReturnOrder == ASSUME OInv, HandlerReturns \/ HandlerExits \/ Siglongjmp PROVE TypeOK' /\ Quiet
  <1> USE DEF Quiet, OInv, TypeOK
  <1>1. {"INT", "QUIT"} \subseteq Sig
    BY DEF Sig
  <1>2. CASE HandlerReturns
    <2>1. handling' \in Seq(Sig)
      BY <1>2 DEF HandlerReturns, ReturnTo
    <2>2. pc' = pc \/ pc' \in {"test", "unblock"}
      BY <1>2 DEF HandlerReturns, ReturnTo
    <2>3. ~ Ended /\ mask' \subseteq Sig /\ UNCHANGED <<which, canJump, armed, queue, seen, static, echo, by, sender>>
      BY <1>1, <1>2 DEF HandlerReturns, ReturnTo
    <2> QED BY <2>1, <2>2, <2>3
  <1>3. CASE HandlerExits
    BY <1>3 DEF HandlerExits
  <1>4. CASE Siglongjmp
    BY <1>4 DEF Siglongjmp, JumpWith
  <1> QED BY <1>2, <1>3, <1>4

\* What is sent is queued behind the others, or merged.
LEMMA SenderOrder == ASSUME OInv, RtSend \/ StdSend PROVE OInv'
  <1> USE ReceiveAssumption
  <1>0. /\ values \in Seq(1..NumRt) /\ rtq \in Seq(1..NumRt) /\ rtSent \in 0..NumRt + 1
        /\ stdSent \in 0..NumStd + 1 /\ sigCnt \in Nat
    BY DEF OInv, TypeOK
  <1>1. CASE RtSend
    <2>1. UNCHANGED <<which, canJump, pc, armed, mask, handling, pend, seen, static, echo, by, stdSent>>
      BY <1>1 DEF RtSend, QueueAs
    <2>2. rtSent' \in 0..NumRt + 1 /\ rtq' \in Seq(1..NumRt)
      <3>1. rtSent' \in 0..NumRt + 1 /\ (rtq' = rtq \/ (rtSent < NumRt /\ rtq' = Append(rtq, rtSent + 1)))
        BY <1>0, <1>1 DEF RtSend, QueueAs
      <3>2. rtSent < NumRt => rtSent + 1 \in 1..NumRt
        BY <1>0
      <3>3. rtSent < NumRt => Append(rtq, rtSent + 1) \in Seq(1..NumRt)
        BY <1>0, <3>2
      <3> QED BY <1>0, <3>1, <3>3, Zenon
    <2>3. TypeOK'
      BY <2>1, <2>2 DEF OInv, TypeOK
    <2>4. Order'
      <3> SUFFICES ASSUME ~ Ended PROVE Order'
        BY <2>1 DEF Order
      <3>1. CASE rtq' = rtq /\ rtSent' = NumRt + 1
        BY <1>0, <2>1, <3>1 DEF OInv, Order
      <3>2. CASE rtSent < NumRt /\ rtSent' = rtSent + 1 /\ rtq' = Append(rtq, rtSent + 1)
        <4>1. /\ Len(rtq') = Len(rtq) + 1 /\ rtq'[Len(rtq) + 1] = rtSent + 1
              /\ \A i \in 1..Len(rtq) : rtq'[i] = rtq[i]
          BY <1>0, <3>2
        <4>2. Len(rtq) \in Nat /\ Len(values) \in Nat
          BY <1>0
        <4>3. \A i \in 1..Len(rtq') : rtq'[i] = Len(values) + i
          BY <1>0, <3>2, <4>1, <4>2 DEF OInv, Order
        <4> QED BY <1>0, <2>1, <3>2, <4>1, <4>2, <4>3 DEF OInv, Order
      <3> QED BY <1>1, <3>1, <3>2 DEF RtSend, QueueAs
    <2>5. Counted' /\ Matched'
      BY <2>1 DEF OInv, Counted, One, Firsts, Sent, First, Last, Matched
    <2> QED BY <2>3, <2>4, <2>5 DEF OInv
  <1>2. CASE StdSend
    <2>1. UNCHANGED <<which, canJump, pc, armed, mask, handling, rtq, seen, static, echo, by, rtSent>>
      BY <1>2 DEF StdSend
    <2>2. First' = First /\ Last' = Last /\ Last \notin First
          /\ First \subseteq {"INT", "USR1", "USR2", "WINCH", "TSTP"} /\ Last \in {"INT", "QUIT"}
      BY <2>1, FirstIs DEF First, Last, OInv, TypeOK
    <2>3. PICK s : /\ stdSent <= NumStd /\ stdSent' \in stdSent + 1..NumStd + 1
                   /\ \/ pend' = pend
                      \/ pend' = pend \cup {s} /\ s \in First /\ stdSent < NumStd /\ stdSent' = stdSent + 1
                      \/ pend' = pend \cup {s} /\ s = Last
      <3>1. CASE stdSent' = stdSent + 1 /\ \E s \in IF stdSent < NumStd THEN First ELSE {Last} : pend' = pend \cup {s}
        <4>1. stdSent <= NumStd /\ stdSent \in Nat /\ NumStd \in Nat /\ stdSent' = stdSent + 1
          BY <1>0, <1>2, <3>1 DEF StdSend
        <4>2. PICK s : s \in (IF stdSent < NumStd THEN First ELSE {Last}) /\ pend' = pend \cup {s}
          BY <3>1
        <4>3. (stdSent < NumStd /\ s \in First) \/ s = Last
          BY <4>2
        <4>4. stdSent' \in stdSent + 1..NumStd + 1
          BY <4>1
        <4> QED BY <4>1, <4>2, <4>3, <4>4
      <3>2. CASE stdSent' \in {stdSent + 1, NumStd + 1} /\ pend' = pend
        BY <1>0, <1>2, <3>2 DEF StdSend
      <3> QED BY <1>2, <3>1, <3>2 DEF StdSend
    <2>4. TypeOK'
      <3>1. pend' \subseteq Sig \ {"RT"}
        BY <2>2, <2>3, Zenon DEF OInv, TypeOK, Sig
      <3>2. stdSent' \in 0..NumStd + 1
        BY <1>0, <2>3
      <3> QED BY <2>1, <3>1, <3>2 DEF OInv, TypeOK
    <2>5. Order' /\ Matched'
      BY <2>1 DEF OInv, Order, Matched
    <2>6. Counted'
      <3>1. pend' \subseteq First \cup {Last}
        BY <2>2, <2>3, Zenon DEF OInv, Counted
      <3>2. Firsts \in Nat /\ Firsts' \in Nat
        BY DEF Firsts, One
      <3>3. /\ Sent \in Nat /\ Sent' \in Nat /\ Sent <= Sent'
            /\ (stdSent < NumStd /\ stdSent' = stdSent + 1 => Sent' = Sent + 1)
        BY <1>0, <2>3 DEF Sent
      <3>4. pend' = pend \/ pend' = pend \cup {Last} => Firsts' = Firsts
        BY <2>2 DEF Firsts, One
      <3>5. s \in First /\ pend' = pend \cup {s} => Firsts' <= Firsts + 1
        BY <2>2 DEF Firsts, One
      <3>6. sigCnt' = sigCnt /\ Len(values') = Len(values) /\ Len(values) \in Nat
        BY <1>0, <2>1
      <3> QED BY <1>0, <2>2, <2>3, <3>1, <3>2, <3>3, <3>4, <3>5, <3>6 DEF OInv, Counted
    <2> QED BY <2>4, <2>5, <2>6 DEF OInv
  <1> QED BY <1>1, <1>2

\* What is delivered was sent, and is counted at most once.
LEMMA DeliverOrder == ASSUME IInv, OInv, NEW s \in Sig, Deliver(s) PROVE OInv'
  <1>0. /\ Receive(s) /\ ~ Ended /\ UNCHANGED <<which, canJump, armed, mask, mismatched, echo, sender>>
    BY DEF Deliver
  <1>1. CASE s \in armed
    <2>1. handling' = <<s>> \o handling /\ Note(s) /\ pc' = pc /\ by' = by
          /\ result' = IF prog = "reentrant" THEN "str2" ELSE result
      BY <1>1, Zenon DEF Deliver
    <2>2. \/ allDone' = 1 /\ sigCnt' = sigCnt /\ s = Last /\ prog # "reentrant"
          \/ sigCnt' = sigCnt + 1 /\ allDone' = allDone /\ s # Last
      BY <1>1 DEF Deliver, SetDone, Count, siginfoHandler, sig_handler, handler, sig_user, jump_handler,
                  crypt_handler, sig_winch, IInv, Handlers, Last
    <2>3. TypeOK'
      <3>1. handling' \in Seq(Sig)
        BY <2>1, Pushed DEF OInv, TypeOK
      <3> QED BY <1>0, <2>1, <2>2, <3>1, TakeTypes DEF OInv, TypeOK
    <2>4. Order'
      BY <1>0, <2>1, TakeOrder
    <2>5. Counted'
      <3>1. s # Last => s \in First \cup {"RT"}
        BY <1>0 DEF Receive, OInv, Counted
      <3> QED BY <1>0, <2>1, <2>2, <3>1, TakeCounted
    <2>6. Matched'
      BY <1>0, <2>1, <2>2 DEF OInv, Matched, TypeOK
    <2> QED BY <2>3, <2>4, <2>5, <2>6 DEF OInv
  <1>2. CASE s \notin armed
    <2>1. UNCHANGED <<handling, seen, result>> /\ by' \in Sig \cup {"none"}
      BY <1>2 DEF Deliver, OInv, TypeOK
    <2>2. IF s = "WINCH" THEN pc' = pc ELSE pc' \in {"killed", "stopped"}
      BY <1>2 DEF Deliver
    <2>3. TypeOK'
      BY <1>0, <2>1, <2>2, TakeTypes DEF OInv, TypeOK
    <2>4. Order'
      <3>1. s = "WINCH" => rtq' = rtq
        BY <1>0 DEF Receive
      <3> QED BY <1>0, <2>1, <2>2, <3>1 DEF OInv, Order
    <2>5. Counted'
      BY <1>0, <2>1, TakeCounted
    <2>6. Matched'
      BY <1>0, <2>1, <2>2 DEF OInv, Matched, TypeOK
    <2> QED BY <2>3, <2>4, <2>5, <2>6 DEF OInv
  <1> QED BY <1>1, <1>2

\* Realtime signals arrive once and in order, standard ones are not invented, and no
\* mismatch is found without a signal.
THEOREM OrderCorrect == Spec => []RtInOrder
  <1>1. OInv /\ UNCHANGED vars => OInv'
    BY DEF vars, OInv, TypeOK, Order, Counted, One, Firsts, Sent, First, Last, Matched
  <1>2. IInv /\ OInv /\ [Next]_vars => OInv'
    BY <1>1, QuietHolds, RtOrder, RcOrder, SuOrder, WiOrder, UsOrder, SjOrder, ReOrder, WzOrder, GpOrder,
       SenderOrder, ReturnOrder, DeliverOrder DEF Next, MainStep, Handler
  <1>3. OInv => RtInOrder
    <2> SUFFICES ASSUME OInv PROVE RtInOrder  OBVIOUS
    <2> USE ReceiveAssumption
    <2>1. values \in Seq(1..NumRt) /\ rtq \in Seq(1..NumRt) /\ sigCnt \in Nat /\ stdSent \in Nat /\ mismatched \in Nat
      BY DEF OInv, TypeOK
    <2>2. ASSUME ~ Ended, NEW all, all = values \o rtq
          PROVE  all = [i \in 1..Len(all) |-> i] /\ Len(all) = Len(values) + Len(rtq)
      <3>1. all \in Seq(1..NumRt) /\ Len(all) = Len(values) + Len(rtq)
        BY <2>1, <2>2
      <3>2. \A i \in 1..Len(all) : all[i] = i
        BY <2>1, <2>2, <3>1 DEF OInv, Order
      <3> QED BY <3>1, <3>2
    <2>3. Firsts \in Nat
      BY DEF Firsts, One
    <2>4. sigCnt <= Len(values) + Sent
      BY <2>1, <2>3 DEF OInv, Counted, Sent
    <2>5. prog = "reentrant" => mismatched <= sigCnt
      BY <2>1 DEF OInv, Matched
    <2> QED BY <2>2, <2>4, <2>5, Zenon DEF OInv, Order, RtInOrder, Sent
  <1> QED BY <1>2, <1>3, OrderInit, Invariance, PTL DEF Spec
-----------------------------------------------------------------------------
(***************************************************************************)
(* Daemonize: where the process is and which descriptors it has.           *)
(***************************************************************************)
Limit == IF hard = INF THEN Cap ELSE hard

\* The statements after the closing loop.
Closed == {"open", "dup1", "dup2", "check", "ready", "bad fds"}

(***************************************************************************)
(* The inductive invariant.  Session says when the process leads nothing:  *)
(* before setsid no group, so that setsid succeeds, and after the second   *)
(* fork no session.  Descriptors says what the loop left and what open and *)
(* dup made of it; with room for three descriptors they give 0, 1, 2.      *)
(***************************************************************************)
Limits ==
  /\ soft \in Nat /\ soft <= MaxFd + 1
  /\ hard \in Nat \cup {INF} /\ (hard # INF => soft <= hard)

Session ==
  /\ step = "setsid" => ~ pgLeader
  /\ step \in Closed \cup {"chdir", "close"} => ~ leader

Calls ==
  /\ step \in {"fork1", "setsid", "ignore", "fork2", "chdir", "close", "open"} => Len(got) = 0
  /\ step = "dup1" => Len(got) = 1
  /\ step = "dup2" => Len(got) = 2
  /\ step \in {"check", "ready", "bad fds"} => Len(got) = 3

Checked ==
  /\ step = "ready" => got = <<0, 1, 2>>
  /\ step = "bad fds" => got # <<0, 1, 2>>

Descriptors == step \in Closed =>
  /\ \A f \in Fd : fds[f] = "inherited" => f >= Limit
  /\ \A n \in 1..Len(got) : got[n] # -1 => fds[got[n]] = "null"
  /\ soft >= 3 /\ (Len(got) > 0 => got[1] # -1) =>
       \A n \in 0..2 : IF n < Len(got) THEN got[n + 1] = n ELSE fds[n] = "closed"

DInv == DaemonizeTypeOK /\ NoTerminalAgain /\ Limits /\ Session /\ Calls /\ Checked /\ Descriptors

\* The lowest free descriptor exists and is the lowest.
LEMMA MinOfNat ==
  ASSUME NEW T, T \subseteq Nat, T # {}
  PROVE  Min(T) \in T /\ \A y \in T : Min(T) <= y
<1> DEFINE R == OpToRel(<, Nat)
<1>1. \A x, y \in Nat : <<y, x>> \in R <=> y < x
  BY DEF OpToRel
<1>2. IsWellFoundedOn(R, Nat)
  BY NatLessThanWellFounded, Zenon
<1> HIDE DEF R
<1>3. PICK x \in T : \A y \in T : ~ (<<y, x>> \in R)
  BY <1>2, WFMin, Zenon
<1>4. ASSUME NEW y \in T PROVE x <= y
  <2>1. x \in Nat /\ y \in Nat /\ ~ (y < x)
    BY <1>1, <1>3, Zenon
  <2> QED BY <2>1
<1> QED BY <1>3, <1>4, Zenon DEF Min

\* A shell job with a terminal, whatever it has open, satisfies it.
LEMMA InitDaemonize == DaemonizeInit => DInv
<1> SUFFICES ASSUME DaemonizeInit PROVE DInv
  OBVIOUS
<1> USE DaemonizeAssumption DEF DaemonizeInit
<1>1. DaemonizeTypeOK
  <2>1. {pgLeader, leader, ctty, ign} \subseteq BOOLEAN
    BY Zenon
  <2> QED BY <2>1 DEF DaemonizeTypeOK
<1>2. NoTerminalAgain /\ Session /\ Calls /\ Checked /\ Descriptors
  BY DEF NoTerminalAgain, Session, Calls, Checked, Descriptors, Closed
<1>3. Limits
  BY DEF Limits
<1> QED BY <1>1, <1>2, <1>3 DEF DInv

\* Leaving the terminal: the forks, setsid, sigaction and chdir, their failures, the
\* hang-up and the later open of a terminal touch no descriptor.
LEMMA SessionDInv ==
  ASSUME DInv, \/ Fork1 \/ Setsid \/ IgnoreHup \/ Fork2 \/ Chdir \/ Hangup \/ OpenTty
               \/ (step \in {"fork1", "ignore", "fork2", "chdir"} /\ Fail)
  PROVE  DInv'
<1> USE DaemonizeAssumption DEF DInv, Fork1, Fork2, Fork, Setsid, IgnoreHup, Chdir, Hangup, OpenTty, Fail,
        session, files
<1>1. DaemonizeTypeOK'
  BY Zenon DEF DaemonizeTypeOK
<1>2. NoTerminalAgain' /\ Session'
  <2>1. CASE Setsid
    BY <2>1 DEF NoTerminalAgain, Session, Closed
  <2>2. CASE OpenTty
    BY <2>2, Zenon DEF NoTerminalAgain, Session, Closed
  <2>3. CASE Fork1 \/ Fork2
    <3>1. ctty' = ctty /\ pgLeader' = FALSE /\ leader' = FALSE
      BY <2>3, Zenon
    <3> QED BY <2>3, <3>1, Zenon DEF NoTerminalAgain, Session
  <2>4. CASE Hangup
    BY <2>4, Zenon DEF NoTerminalAgain, Session, Closed
  <2>5. CASE IgnoreHup \/ Chdir \/ (step \in {"fork1", "ignore", "fork2", "chdir"} /\ Fail)
    <3>1. ctty' = ctty /\ leader' = leader /\ step' \in {"fork2", "close", "exit"}
      BY <2>5, Zenon
    <3>2. step' # "exit" => step \in {"ignore", "chdir"} /\ (step' = "close" => step = "chdir")
      BY <2>5, Zenon
    <3>3. NoTerminalAgain'
      BY <3>1, <3>2, Zenon DEF NoTerminalAgain
    <3>4. Session'
      BY <3>1, <3>2, Zenon DEF Session, Closed
    <3> QED BY <3>3, <3>4, Zenon
  <2> QED BY <2>1, <2>2, <2>3, <2>4, <2>5, Zenon
<1>3. Limits' /\ Calls' /\ Checked'
  BY Zenon DEF Limits, Calls, Checked, NoTerminalAgain
<1>4. Descriptors'
  BY Zenon DEF Descriptors, Closed, NoTerminalAgain, Limit
<1> QED BY <1>1, <1>2, <1>3, <1>4, Zenon

\* The closing loop closes what is below the limit, which is above every descriptor
\* the process may get.
LEMMA CloseDInv == DInv /\ CloseAll => DInv'
<1> SUFFICES ASSUME DInv, CloseAll PROVE DInv'
  OBVIOUS
<1> USE DaemonizeAssumption DEF DInv, CloseAll, CloseFrom, session
<1>1. DaemonizeTypeOK'
  BY DEF DaemonizeTypeOK, Calls
<1>2. NoTerminalAgain' /\ Session' /\ Limits' /\ Calls' /\ Checked'
  BY DEF NoTerminalAgain, Session, Limits, Calls, Checked, Closed
<1>3. Descriptors'
  BY DEF Descriptors, Limits, Limit, Calls, Fd, DaemonizeTypeOK
<1> QED BY <1>1, <1>2, <1>3

\* What open and dup return: -1 if no descriptor below the soft limit is free, else
\* the lowest one.
LEMMA NewFdGives ==
  ASSUME DaemonizeTypeOK, Limits, NEW what, NewFd(what)
  PROVE  \/ /\ got' = Append(got, -1) /\ fds' = fds
            /\ \A g \in Fd : fds[g] = "closed" => g >= soft
         \/ \E f \in Fd : /\ fds[f] = "closed" /\ f < soft
                          /\ \A g \in Fd : fds[g] = "closed" /\ g < soft => f <= g
                          /\ got' = Append(got, f) /\ fds' = [fds EXCEPT ![f] = what]
<1>1. CASE Free = {}
  BY <1>1, DaemonizeAssumption DEF NewFd, Free, Limits, Fd
<1>2. CASE Free # {}
  <2>1. Free \subseteq Nat
    BY DaemonizeAssumption DEF Free, Fd
  <2>2. Min(Free) \in Free /\ \A y \in Free : Min(Free) <= y
    BY <1>2, <2>1, MinOfNat, Zenon
  <2>3. got' = Append(got, Min(Free)) /\ fds' = [fds EXCEPT ![Min(Free)] = what]
    BY <1>2 DEF NewFd
  <2> QED BY <2>2, <2>3, Zenon DEF Free
<1> QED BY <1>1, <1>2

\* What the steps below need to know of the types.
LEMMA DInvTypes ==
  ASSUME DInv
  PROVE  /\ fds \in [Fd -> {"closed", "inherited", "null"}] /\ got \in Seq(Fd \cup {-1})
         /\ \A n \in 1..Len(got) : got[n] # -1 => fds[got[n]] # "closed"
         /\ step \in {"open", "dup1", "dup2"} => Len(got) \in 0..2 /\ (step # "open" => Len(got) >= 1)
         /\ -1 \notin Fd /\ Fd \subseteq Nat /\ 0 \in Fd
<1>1. /\ fds \in [Fd -> {"closed", "inherited", "null"}] /\ got \in Seq(Fd \cup {-1})
      /\ \A n \in 1..Len(got) : got[n] # -1 => fds[got[n]] # "closed"
  BY Zenon DEF DInv, DaemonizeTypeOK
<1>2. step \in {"open", "dup1", "dup2"} => Len(got) \in 0..2 /\ (step # "open" => Len(got) >= 1)
  <2>1. CASE step = "open"
    BY <1>1, <2>1 DEF DInv, Calls
  <2>2. CASE step = "dup1"
    <3>1. Len(got) = 1
      BY <2>2, Zenon DEF DInv, Calls
    <3> QED BY <2>2, <3>1
  <2>3. CASE step = "dup2"
    <3>1. Len(got) = 2
      BY <2>3, Zenon DEF DInv, Calls
    <3> QED BY <2>3, <3>1
  <2> QED BY <2>1, <2>2, <2>3
<1>3. -1 \notin Fd /\ Fd \subseteq Nat /\ 0 \in Fd
  BY DaemonizeAssumption DEF Fd
<1> QED BY <1>1, <1>2, <1>3

\* A call of open or dup that gives "null" the lowest free descriptor, or fails.
Gives == \/ got' = Append(got, -1) /\ fds' = fds
         \/ \E f \in Fd : /\ fds[f] = "closed" /\ f < soft
                          /\ \A g \in Fd : fds[g] = "closed" /\ g < soft => f <= g
                          /\ got' = Append(got, f) /\ fds' = [fds EXCEPT ![f] = "null"]

\* Such a call preserves the invariant when it fails only for want of a descriptor
\* or after an earlier failure of open.
LEMMA GivesDInv ==
  ASSUME DInv, Gives, UNCHANGED <<session, soft, hard>>,
         \/ step = "open" /\ step' = "dup1"
         \/ step = "dup1" /\ step' = "dup2"
         \/ step = "dup2" /\ step' = "check",
         \/ fds' # fds \/ Len(got) = 0 \/ got[1] = -1 \/ soft < 3
         \/ \A g \in Fd : fds[g] = "closed" => g >= soft
  PROVE  DInv'
<1> USE DaemonizeAssumption DEF DInv
<1>0. /\ got \in Seq(Fd \cup {-1}) /\ Len(got) \in 0..2 /\ fds \in [Fd -> {"closed", "inherited", "null"}]
      /\ -1 \notin Fd /\ Fd \subseteq Nat
  BY DInvTypes
<1>1. NoTerminalAgain' /\ Session'
  <2>1. ctty' = ctty /\ leader' = leader /\ pgLeader' = pgLeader /\ ign' = ign
    BY Zenon DEF session
  <2> QED BY <2>1, Zenon DEF NoTerminalAgain, Session, Closed
<1>2. PICK x \in Fd \cup {-1} :
        /\ got' = Append(got, x)
        /\ \/ x = -1 /\ fds' = fds
           \/ /\ x \in Fd /\ fds[x] = "closed" /\ x < soft
              /\ \A g \in Fd : fds[g] = "closed" /\ g < soft => x <= g
              /\ fds' = [fds EXCEPT ![x] = "null"]
  BY DEF Gives
<1>3. /\ Len(got') = Len(got) + 1 /\ got' \in Seq(Fd \cup {-1})
      /\ got'[Len(got) + 1] = x /\ \A n \in 1..Len(got) : got'[n] = got[n]
  BY <1>0, <1>2
<1>4. Limits' /\ Calls' /\ Checked'
  <2>1. Limits' /\ Checked'
    BY Zenon DEF Limits, Checked
  <2>2. Calls'
    <3>1. CASE step = "open"
      BY <1>0, <1>3, <3>1 DEF Calls
    <3>2. CASE step = "dup1"
      <4>1. Len(got) = 1 /\ step' = "dup2"
        BY <3>2, Zenon DEF Calls
      <4>2. Len(got') = 2
        BY <1>3, <4>1
      <4> QED BY <4>1, <4>2, Zenon DEF Calls
    <3>3. CASE step = "dup2"
      <4>1. Len(got) = 2 /\ step' = "check"
        BY <3>3, Zenon DEF Calls
      <4>2. Len(got') = 3
        BY <1>3, <4>1
      <4> QED BY <4>1, <4>2, Zenon DEF Calls
    <3> QED BY <3>1, <3>2, <3>3
  <2> QED BY <2>1, <2>2
<1>5. DaemonizeTypeOK'
  <2>1. {pgLeader, leader, ctty, ign}' \subseteq BOOLEAN
    BY Zenon DEF session, DaemonizeTypeOK
  <2>2. fds' \in [Fd -> {"closed", "inherited", "null"}]
    BY <1>0, <1>2
  <2>3. \A n \in 1..Len(got') : got'[n] # -1 => fds'[got'[n]] # "closed"
    <3> SUFFICES ASSUME NEW n \in 1..Len(got'), got'[n] # -1 PROVE fds'[got'[n]] # "closed"
      OBVIOUS
    <3>1. CASE n = Len(got) + 1
      BY <1>0, <1>2, <1>3, <3>1
    <3>2. CASE n \in 1..Len(got)
      <4>1. got'[n] = got[n] /\ got[n] # -1
        BY <1>3, <3>2
      <4>2. got[n] \in Fd /\ fds[got[n]] # "closed"
        BY <1>0, <3>2, <4>1, DInvTypes
      <4>3. fds'[got[n]] = fds[got[n]]
        BY <1>0, <1>2, <4>2, SMTT(20)
      <4> QED BY <4>1, <4>2, <4>3
    <3> QED BY <1>0, <1>3, <3>1, <3>2
  <2>4. step' \in {"dup1", "dup2", "check"} /\ Len(got') <= 3
    BY <1>0, <1>3
  <2> QED BY <1>3, <2>1, <2>2, <2>3, <2>4, Zenon DEF DaemonizeTypeOK
<1>6. Descriptors'
  <2>1. \A f \in Fd : fds'[f] = "inherited" => f >= Limit'
    <3>1. \A f \in Fd : fds[f] = "inherited" => f >= Limit
      BY Zenon DEF Descriptors, Closed
    <3> QED BY <1>0, <1>2, <3>1 DEF Limit
  <2>2. \A n \in 1..Len(got') : got'[n] # -1 => fds'[got'[n]] = "null"
    <3> SUFFICES ASSUME NEW n \in 1..Len(got'), got'[n] # -1 PROVE fds'[got'[n]] = "null"
      OBVIOUS
    <3>1. CASE n = Len(got) + 1
      BY <1>0, <1>2, <1>3, <3>1
    <3>2. CASE n \in 1..Len(got)
      <4>1. got[n] = got'[n] /\ got[n] \in Fd
        BY <1>0, <1>3, <3>2
      <4>2. fds[got[n]] = "null"
        BY <1>0, <3>2, <4>1, Zenon DEF Descriptors, Closed
      <4> QED BY <1>0, <1>2, <4>1, <4>2, Zenon
    <3> QED BY <1>0, <1>3, <3>1, <3>2
  <2>3. ASSUME soft >= 3, got'[1] # -1, NEW n \in 0..2
        PROVE  IF n < Len(got') THEN got'[n + 1] = n ELSE fds'[n] = "closed"
    <3>0. 0..2 \subseteq Fd /\ soft \in Nat
      BY <2>3 DEF Limits, Fd
    <3>1. Len(got) > 0 => got[1] # -1
      BY <1>0, <1>3, <2>3
    <3>2. \A m \in 0..2 : IF m < Len(got) THEN got[m + 1] = m ELSE fds[m] = "closed"
      BY <2>3, <3>1, Zenon DEF Descriptors, Closed
    <3>3. x # -1
      BY <1>0, <1>2, <1>3, <2>3, <3>0, <3>1, <3>2
    <3>4. x = Len(got)
      <4>1. fds[Len(got)] = "closed" /\ Len(got) \in Fd /\ Len(got) < soft
        BY <1>0, <2>3, <3>0, <3>2
      <4>2. x <= Len(got)
        BY <1>2, <3>3, <4>1
      <4>3. ASSUME x < Len(got) PROVE FALSE
        <5>0. x \in Nat /\ Len(got) \in 0..2
          BY <1>0, <3>3
        <5>1. x \in 0..2 /\ x + 1 \in 1..Len(got)
          BY <4>3, <5>0
        <5>2. got[x + 1] = x
          BY <3>2, <4>3, <5>1
        <5>3. fds[x] = "null"
          BY <1>0, <3>3, <5>1, <5>2, Zenon DEF Descriptors, Closed
        <5> QED BY <1>2, <3>3, <5>3
      <4> QED BY <1>0, <1>2, <3>3, <4>2, <4>3
    <3> QED BY <1>0, <1>2, <1>3, <3>0, <3>2, <3>3, <3>4
  <2> QED BY <1>3, <2>1, <2>2, <2>3 DEF Descriptors
<1> QED BY <1>1, <1>4, <1>5, <1>6

\* open of /dev/null, which may fail, and both calls of dup.
LEMMA OpenDInv ==
  ASSUME DInv, \/ OpenNull \/ Dup("dup1", "dup2") \/ Dup("dup2", "check")
               \/ step = "open" /\ step' = "dup1" /\ got' = Append(got, -1) /\ UNCHANGED <<session, fds, soft, hard>>
  PROVE  DInv'
<1> USE DEF DInv
<1>1. CASE OpenNull
  <2>1. NewFd("null") /\ Len(got) = 0
    BY <1>1 DEF OpenNull, Calls
  <2> QED BY <1>1, <2>1, NewFdGives, GivesDInv DEF OpenNull, Gives
<1>2. ASSUME NEW this, NEW next, Dup(this, next), <<this, next>> \in {<<"dup1", "dup2">>, <<"dup2", "check">>}
      PROVE  DInv'
  <2>0. 0 \in Fd /\ Len(got) >= 1 /\ fds \in [Fd -> {"closed", "inherited", "null"}]
    BY <1>2, DInvTypes DEF Dup
  <2>1. CASE fds[0] = "closed"
    <3>1. got[1] = -1 \/ soft < 3
      <4> SUFFICES ASSUME got[1] # -1, soft >= 3 PROVE FALSE
        BY DEF Limits
      <4>1. step \in Closed
        BY <1>2, Zenon DEF Dup, Closed
      <4>2. fds[got[1]] = "null"
        BY <2>0, <4>1, DInvTypes DEF Descriptors
      <4>3. got[0 + 1] = 0
        BY <2>0, <4>1, DInvTypes DEF Descriptors
      <4> QED BY <2>1, <4>2, <4>3
    <3>2. got' = Append(got, -1) /\ fds' = fds
      BY <1>2, <2>1 DEF Dup
    <3> QED BY <1>2, <3>1, <3>2, GivesDInv DEF Dup, Gives
  <2>2. CASE fds[0] = "null"
    <3>1. NewFd("null")
      BY <1>2, <2>2 DEF Dup
    <3>2. Gives /\ (fds' # fds \/ \A g \in Fd : fds[g] = "closed" => g >= soft)
      <4>1. CASE fds' = fds /\ got' = Append(got, -1) /\ \A g \in Fd : fds[g] = "closed" => g >= soft
        BY <4>1 DEF Gives
      <4>2. CASE \E f \in Fd : /\ fds[f] = "closed" /\ f < soft
                                /\ \A g \in Fd : fds[g] = "closed" /\ g < soft => f <= g
                                /\ got' = Append(got, f) /\ fds' = [fds EXCEPT ![f] = "null"]
        BY <2>0, <4>2 DEF Gives
      <4> QED BY <3>1, <4>1, <4>2, NewFdGives
    <3> QED BY <1>2, <3>2, GivesDInv DEF Dup
  <2>3. CASE fds[0] = "inherited"
    <3>1. soft = 0
      <4>1. 0 >= Limit
        BY <1>2, <2>0, <2>3, Zenon DEF Dup, Descriptors, Closed
      <4> QED BY <4>1, DaemonizeAssumption DEF Limits, Limit
    <3>2. NewFd("inherited")
      BY <1>2, <2>3 DEF Dup
    <3>3. got' = Append(got, -1) /\ fds' = fds /\ \A g \in Fd : fds[g] = "closed" => g >= soft
      BY <3>1, <3>2, NewFdGives, DaemonizeAssumption DEF Fd
    <3> QED BY <1>2, <3>3, GivesDInv DEF Dup, Gives
  <2> QED BY <2>0, <2>1, <2>2, <2>3
<1>3. CASE step = "open" /\ step' = "dup1" /\ got' = Append(got, -1) /\ UNCHANGED <<session, fds, soft, hard>>
  BY <1>3, GivesDInv DEF Gives, Calls
<1> QED BY <1>1, <1>2, <1>3

\* The check of the three descriptors.
LEMMA CheckDInv == DInv /\ Check => DInv'
<1> SUFFICES ASSUME DInv, Check PROVE DInv'
  OBVIOUS
<1> USE DEF DInv, Check
<1>1. ctty' = ctty /\ leader' = leader /\ pgLeader' = pgLeader /\ ign' = ign
  BY Zenon DEF session
<1>2. fds' = fds /\ got' = got /\ soft' = soft /\ hard' = hard
  BY Zenon DEF files
<1>3. step' \in {"ready", "bad fds"}
  BY Zenon
<1>4. DaemonizeTypeOK'
  BY <1>1, <1>2, <1>3, Zenon DEF DaemonizeTypeOK
<1>5. NoTerminalAgain' /\ Session'
  BY <1>1, <1>3, Zenon DEF NoTerminalAgain, Session, Closed
<1>6. Limits' /\ Checked'
  BY <1>2, Zenon DEF Limits, Checked
<1>7. Calls'
  BY <1>2, <1>3, Zenon DEF Calls
<1>8. Descriptors'
  BY <1>2, <1>3, Zenon DEF Descriptors, Closed, Limit
<1> QED BY <1>4, <1>5, <1>6, <1>7, <1>8, Zenon

\* Every step preserves the invariant.
LEMMA NextDaemonize == DInv /\ [DaemonizeNext]_DaemonizeVars => DInv'
<1> SUFFICES ASSUME DInv, [DaemonizeNext]_DaemonizeVars PROVE DInv'
  OBVIOUS
<1>1. CASE \/ Fork1 \/ Setsid \/ IgnoreHup \/ Fork2 \/ Chdir \/ Hangup \/ OpenTty
           \/ (step \in {"fork1", "ignore", "fork2", "chdir"} /\ Fail)
  BY <1>1, SessionDInv
<1>2. CASE CloseAll
  BY <1>2, CloseDInv
<1>3. CASE \/ OpenNull \/ Dup("dup1", "dup2") \/ Dup("dup2", "check")
           \/ step = "open" /\ step' = "dup1" /\ got' = Append(got, -1) /\ UNCHANGED <<session, fds, soft, hard>>
  BY <1>3, OpenDInv
<1>4. CASE Check
  BY <1>4, CheckDInv
<1>5. CASE UNCHANGED DaemonizeVars
  <2>1. /\ ctty' = ctty /\ leader' = leader /\ pgLeader' = pgLeader /\ ign' = ign
        /\ fds' = fds /\ got' = got /\ soft' = soft /\ hard' = hard /\ step' = step
    BY <1>5, Zenon DEF DaemonizeVars, session, files
  <2> QED BY <2>1, ZenonT(30) DEF DInv, DaemonizeTypeOK, NoTerminalAgain, Limits, Session, Calls, Checked, Descriptors, Limit
<1> QED BY <1>1, <1>2, <1>3, <1>4, <1>5, Zenon DEF DaemonizeNext, Daemon, CallFails

\* The inductive invariant of daemonize holds in every reachable state.
THEOREM DaemonizeInvariance == DaemonizeSpec => []DInv
BY InitDaemonize, NextDaemonize, PTL DEF DaemonizeSpec

\* A daemon has no terminal after setsid and never gets one.
THEOREM NoTerminal == DaemonizeSpec => []NoTerminalAgain
<1>1. DInv => NoTerminalAgain
  BY DEF DInv
<1> QED BY <1>1, DaemonizeInvariance, PTL

\* A ready daemon has /dev/null on descriptors 0 to 2 and, of what it inherited, only
\* descriptors the closing loop does not reach; the check refuses only for want of
\* room or of /dev/null.
THEOREM Streams == DaemonizeSpec => []StandardStreams
<1>1. DInv => StandardStreams
  <2> SUFFICES ASSUME DInv PROVE StandardStreams
    OBVIOUS
  <2>1. DaemonizeTypeOK
    BY DEF DInv
  <2>2. ASSUME step = "ready" PROVE \A f \in 0..2 : fds[f] = "null"
    <3>1. got = <<0, 1, 2>> /\ \A n \in 1..Len(got) : got[n] # -1 => fds[got[n]] = "null"
      BY <2>2, Zenon DEF DInv, Checked, Descriptors, Closed
    <3>2. Len(got) = 3 /\ got[1] = 0 /\ got[2] = 1 /\ got[3] = 2
      BY <3>1
    <3>3. fds[0] = "null" /\ fds[1] = "null" /\ fds[2] = "null"
      BY <3>1, <3>2
    <3> QED BY <3>3
  <2>3. ASSUME step = "ready" PROVE \A f \in Fd : fds[f] = "inherited" => f >= Limit
    BY <2>3, Zenon DEF DInv, Descriptors, Closed
  <2>4. ASSUME step = "bad fds", soft >= 3, got[1] # -1 PROVE FALSE
    <3>1. step \in Closed /\ Len(got) = 3 /\ got # <<0, 1, 2>>
      BY <2>4, Zenon DEF DInv, Calls, Checked, Closed
    <3>3. \A n \in 0..2 : IF n < Len(got) THEN got[n + 1] = n ELSE fds[n] = "closed"
      BY <2>4, <3>1, Zenon DEF DInv, Descriptors
    <3>4. got[1] = 0 /\ got[2] = 1 /\ got[3] = 2
      BY <3>1, <3>3
    <3>5. got \in Seq(Fd \cup {-1})
      BY DInvTypes
    <3> QED BY <3>1, <3>4, <3>5
  <2>5. soft \in Nat
    BY Zenon DEF DInv, Limits
  <2>6. soft < 3 \/ soft >= 3
    BY <2>5
  <2>7. step = "bad fds" => soft < 3 \/ got[1] = -1
    BY <2>4, <2>6, Zenon
  <2> QED BY <2>1, <2>2, <2>3, <2>7, Zenon DEF StandardStreams, Limit
<1> QED BY <1>1, DaemonizeInvariance, PTL
-----------------------------------------------------------------------------
(***************************************************************************)
(* The processes that daemonize() has left to compete for the pid file.    *)
(* InstancesInv of DaemonInstances is inductive.                           *)
(***************************************************************************)

\* Before any process has reached the lock the invariant holds.
LEMMA InitInstances == InstancesInit => InstancesInv
<1> SUFFICES ASSUME InstancesInit PROVE InstancesInv
  OBVIOUS
<1>1. InstancesTypeOK
  BY InstanceAssumption DEF InstancesInit, InstancesTypeOK
<1>2. /\ holder = {e \in Instance : stage[e] \in Held}
      /\ SingleInstance /\ PidFile
  BY DEF InstancesInit, SingleInstance, PidFile, Held, Past
<1>3. SignalState
  BY DEF InstancesInit, SignalState
<1> QED BY <1>1, <1>2, <1>3 DEF InstancesInv

\* The end of a process, for whatever reason, leaves the lock to nobody or to
\* the process that has it, and the file as it is.
LEMMA DieKeeps ==
  ASSUME InstancesInv, NEW d \in Instance, NEW why \in Signal \cup {"refused", "error", "KILL"},
         sent' \in [Instance -> 0..MaxSignals], Die(d, why)
  PROVE  InstancesInv'
<1>1. InstancesTypeOK'
  BY DEF InstancesInv, InstancesTypeOK, Die
<1>2. (holder = {e \in Instance : stage[e] \in Held})'
  BY DEF InstancesInv, InstancesTypeOK, Die, Held
<1>3. SingleInstance'
  BY DEF InstancesInv, InstancesTypeOK, Die, SingleInstance, Held
<1>4. PidFile'
  BY DEF InstancesInv, InstancesTypeOK, Die, PidFile, Past
<1>5. SignalState'
  BY DEF InstancesInv, InstancesTypeOK, Die, SignalState, Alive
<1> QED BY <1>1, <1>2, <1>3, <1>4, <1>5 DEF InstancesInv

\* A step that moves no process and touches neither lock, file nor mask keeps
\* what they say of each other.
LEMMA QuietKeeps ==
  ASSUME InstancesInv, InstancesTypeOK', UNCHANGED <<stage, lock, hup, blocked>>
  PROVE  InstancesInv'
  BY DEF InstancesInv, SingleInstance, PidFile, SignalState, Alive, lock

\* Every step of every process keeps the invariant.
LEMMA StepInstances == InstancesInv /\ [InstancesNext]_instanceVars => InstancesInv'
<1> SUFFICES ASSUME InstancesInv, [InstancesNext]_instanceVars PROVE InstancesInv'
  OBVIOUS
<1> USE DEF Advance, lock, sigs
<1>0. ASSUME NEW d \in Instance,
             Open(d) \/ Lock(d) \/ Truncate(d) \/ Write(d) \/ WriteFails(d)
             \/ Restore(d) \/ Block(d) \/ Create(d)
      PROVE  SignalState'
  BY <1>0 DEF Open, Lock, Truncate, Write, WriteFails, Restore, Block, BlockAs, Create,
              InstancesInv, InstancesTypeOK, SignalState, Alive
<1>1. ASSUME NEW d \in Instance, Open(d) PROVE InstancesInv'
  BY <1>0, <1>1, Zenon DEF Open, InstancesInv, InstancesTypeOK, SingleInstance, PidFile, Held, Past
<1>2. ASSUME NEW d \in Instance, Lock(d) PROVE InstancesInv'
  <2>1. InstancesTypeOK'
    BY <1>2 DEF Lock, InstancesInv, InstancesTypeOK, Held
  <2>2. (holder = {e \in Instance : stage[e] \in Held})'
    BY <1>2 DEF Lock, InstancesInv, InstancesTypeOK, Held
  <2>3. SingleInstance'
    BY <1>2 DEF Lock, InstancesInv, InstancesTypeOK, SingleInstance, Held
  <2>4. PidFile'
    BY <1>2 DEF Lock, InstancesInv, InstancesTypeOK, PidFile, Held, Past
  <2> QED BY <1>0, <1>2, <2>1, <2>2, <2>3, <2>4, Zenon DEF InstancesInv
<1>3. ASSUME NEW d \in Instance, Refused(d) \/ SysFails(d) \/ Kill(d) PROVE InstancesInv'
  <2>1. sent' \in [Instance -> 0..MaxSignals]
    BY <1>3, ZenonT(30) DEF Refused, SysFails, Kill, InstancesInv, InstancesTypeOK
  <2> QED BY <1>3, <2>1, DieKeeps DEF Refused, SysFails, Kill
<1>4. ASSUME NEW d \in Instance, Truncate(d) PROVE InstancesInv'
  \* The file changes while no other process holds the lock.
  <2>1. InstancesTypeOK'
    BY <1>4 DEF Truncate, InstancesInv, InstancesTypeOK, Held
  <2>2. (holder = {e \in Instance : stage[e] \in Held})'
    BY <1>4 DEF Truncate, InstancesInv, InstancesTypeOK, Held
  <2>3. SingleInstance'
    BY <1>4 DEF Truncate, InstancesInv, InstancesTypeOK, SingleInstance, Held
  <2>4. PidFile'
    BY <1>4, <2>3, Zenon DEF Truncate, InstancesInv, InstancesTypeOK, SingleInstance, PidFile, Held, Past
  <2> QED BY <1>0, <1>4, <2>1, <2>2, <2>3, <2>4, Zenon DEF InstancesInv
<1>5. ASSUME NEW d \in Instance, Write(d) \/ WriteFails(d) PROVE InstancesInv'
  <2>1. InstancesTypeOK'
    BY <1>5 DEF Write, WriteFails, InstancesInv, InstancesTypeOK, Held
  <2>2. (holder = {e \in Instance : stage[e] \in Held})'
    BY <1>5 DEF Write, WriteFails, InstancesInv, InstancesTypeOK, Held
  <2>3. SingleInstance'
    BY <1>5 DEF Write, WriteFails, InstancesInv, InstancesTypeOK, SingleInstance, Held
  <2>4. PidFile'
    BY <1>5, <2>3, Zenon DEF Write, WriteFails, InstancesInv, InstancesTypeOK, SingleInstance, PidFile, Held, Past
  <2> QED BY <1>0, <1>5, <2>1, <2>2, <2>3, <2>4, Zenon DEF InstancesInv
<1>6. ASSUME NEW d \in Instance, Restore(d) \/ Block(d) \/ Create(d) PROVE InstancesInv'
  <2>1. InstancesTypeOK'
    <3>1. CASE Restore(d) BY <3>1 DEF Restore, InstancesInv, InstancesTypeOK, Held
    <3>2. CASE Block(d) BY <3>2 DEF Block, BlockAs, InstancesInv, InstancesTypeOK, Held
    <3>3. CASE Create(d) BY <3>3 DEF Create, InstancesInv, InstancesTypeOK, Held
    <3> QED BY <1>6, <3>1, <3>2, <3>3
  <2>2. (holder = {e \in Instance : stage[e] \in Held})'
    BY <1>6, SMTT(20) DEF Restore, Block, BlockAs, Create, InstancesInv, InstancesTypeOK, Held
  <2>3. SingleInstance'
    BY <1>6 DEF Restore, Block, BlockAs, Create, InstancesInv, InstancesTypeOK, SingleInstance, Held
  <2>4. PidFile'
    BY <1>6 DEF Restore, Block, BlockAs, Create, InstancesInv, InstancesTypeOK, PidFile, Held, Past
  <2> QED BY <1>0, <1>6, <2>1, <2>2, <2>3, <2>4, Zenon DEF InstancesInv
<1>7. ASSUME NEW d \in Instance, SigWait(d) PROVE InstancesInv'
  <2>1. PICK s \in pending[d] :
          /\ IF s = "TERM" THEN Die(d, s)
             ELSE /\ pending' = [pending EXCEPT ![d] = @ \ {s}]
                  /\ UNCHANGED <<stage, cause, lock, hup, blocked, waiter>>
          /\ UNCHANGED sent
    BY <1>7, Zenon DEF SigWait, TakeAs
  <2>2. CASE s = "TERM"
    <3>1. sent' \in [Instance -> 0..MaxSignals] /\ s \in Signal
      BY <2>1, <2>2 DEF InstancesInv, InstancesTypeOK, Signal
    <3> QED BY <2>1, <2>2, <3>1, DieKeeps
  <2>3. CASE s # "TERM"
    <3>1. InstancesTypeOK'
      BY <2>1, <2>3 DEF InstancesInv, InstancesTypeOK
    <3> QED BY <2>1, <2>3, <3>1, QuietKeeps
  <2> QED BY <2>2, <2>3, Zenon
<1>8. ASSUME NEW d \in Instance, NEW s \in Signal, Send(d, s) PROVE InstancesInv'
  <2>1. sent' \in [Instance -> 0..MaxSignals]
    BY <1>8, InstanceAssumption DEF Send, InstancesInv, InstancesTypeOK
  <2>2. CASE Die(d, s)
    BY <2>1, <2>2, DieKeeps
  <2>3. CASE ~ Die(d, s)
    <3>1. InstancesTypeOK' /\ UNCHANGED <<stage, lock, hup, blocked>>
      BY <1>8, <2>1, <2>3 DEF Send, InstancesInv, InstancesTypeOK
    <3> QED BY <3>1, QuietKeeps
  <2> QED BY <2>2, <2>3
<1>9. CASE UNCHANGED instanceVars
  BY <1>9 DEF instanceVars, InstancesInv, InstancesTypeOK, SingleInstance, PidFile, SignalState, Alive
<1> QED BY <1>1, <1>2, <1>3, <1>4, <1>5, <1>6, <1>7, <1>8, <1>9, ZenonT(30) DEF InstancesNext, MainThread

\* However many daemons are started, killed and signalled, the invariant holds.
THEOREM InstancesInvariance == InstancesSpec => []InstancesInv
  BY InitInstances, StepInstances, PTL DEF InstancesSpec

\* already_running lets one daemon at a time past the lock.
THEOREM OneDaemon == InstancesSpec => []SingleInstance
<1>1. InstancesInv => SingleInstance BY DEF InstancesInv
<1> QED BY <1>1, InstancesInvariance, PTL

\* A daemon that has written its pid finds it in the file until it ends.
THEOREM PidFileCorrect == InstancesSpec => []PidFile
<1>1. InstancesInv => PidFile BY Zenon DEF InstancesInv
<1> QED BY <1>1, InstancesInvariance, PTL

\* How a step ends a process: only a signal or SIGKILL does it to one at work.
LEMMA HowItEnds ==
  ASSUME InstancesInv, InstancesNext, NEW d \in Instance,
         cause'[d] # cause[d] \/ (stage[d] # "dead" /\ stage'[d] = "dead")
  PROVE  \/ cause'[d] \in {"refused", "error"} /\ stage[d] \in {"open", "lock", "restore", "block"}
         \/ cause'[d] = "KILL"
         \/ cause'[d] = "TERM" /\ "TERM" \in pending[d] /\ waiter[d]
         \/ /\ cause'[d] \in Signal /\ stage[d] \notin {"create", "work"}
            /\ cause'[d] = "HUP" => stage[d] = "block"
<1> USE DEF InstancesInv, InstancesTypeOK
<1>1. PICK e \in Instance : \/ MainThread(e) \/ SigWait(e) \/ Kill(e)
                            \/ \E s \in Signal : Send(e, s)
  BY ZenonT(30) DEF InstancesNext
<1>2. CASE MainThread(e)
  BY <1>2 DEF MainThread, Advance, Open, Lock, Refused, Truncate, Write, WriteFails, Restore, Block,
              BlockAs, Create, SysFails, Die
<1>3. CASE SigWait(e)
  BY <1>3 DEF SigWait, TakeAs, Die
<1>4. CASE Kill(e)
  BY <1>4 DEF Kill, Die
<1>5. ASSUME NEW s \in Signal, Send(e, s)
      PROVE  cause'[d] \in Signal /\ stage[d] \notin {"create", "work"}
             /\ (cause'[d] = "HUP" => stage[d] = "block")
  BY <1>5 DEF Send, Die, SignalState, Alive, Signal, Held
<1> QED BY <1>1, <1>2, <1>3, <1>4, <1>5, Zenon

\* SIGHUP ends a daemon only between its default action and the blocking of all
\* signals.
THEOREM HupOnlyInWindow == InstancesSpec => HupWindow
<1>1. InstancesInv /\ [InstancesNext]_instanceVars =>
        [\A d \in Instance : cause'[d] = "HUP" /\ cause[d] # "HUP" => stage[d] = "block"]_instanceVars
  BY HowItEnds
<1> QED BY <1>1, InstancesInvariance, PTL DEF InstancesSpec, HupWindow

\* A daemon at work ends by SIGKILL or by a SIGTERM that thr_fn takes, only.
THEOREM EndsByTerm == InstancesSpec => WorkEnds
<1>1. InstancesInv /\ [InstancesNext]_instanceVars =>
        [\A d \in Instance : stage[d] = "work" /\ stage'[d] = "dead" =>
           \/ cause'[d] = "KILL"
           \/ cause'[d] = "TERM" /\ "TERM" \in pending[d] /\ waiter[d]]_instanceVars
  BY HowItEnds
<1> QED BY <1>1, InstancesInvariance, PTL DEF InstancesSpec, WorkEnds
=============================================================================
