---------------------------- MODULE SignalReceive ----------------------------
(***************************************************************************)
(* The receivers of directory signal with the two programs that send to    *)
(* them.  rt_sig_recv.c and sig_receiver.c count signals with a handler,   *)
(* the one between calls of pause, the other while it spins;               *)
(* sig_waitinfo.c takes them with sigwaitinfo; sig_suspend.c lets them in  *)
(* with sigsuspend; sig_user.c pauses for ever and sigjump.c leaves its    *)
(* handler by siglongjmp; the handler of reentrant.c calls crypt, as main  *)
(* does.  term_io/winsz.c and term_io/getpass_demo.c are the two programs  *)
(* there that meet signals.  rt_signal.c queues a realtime signal with     *)
(* rising values, sig_sender.c kills with one signal several times and     *)
(* then with the one that ends the receiver.                               *)
(*                                                                         *)
(* A receiver starts from an empty mask.  When a pending signal that is    *)
(* not blocked is delivered is left open, and so is which of several.      *)
(* Calls on masks and handlers have valid arguments and do not fail.       *)
(***************************************************************************)
EXTENDS Integers, Sequences

CONSTANTS NumRt,      \* num-sigs of rt_signal
          NumStd,     \* num-sigs of sig_sender
          QueueLimit  \* how many realtime signals may be pending

ASSUME ReceiveAssumption == NumRt \in Nat /\ NumStd \in Nat /\ QueueLimit \in Nat

Sig  == {"INT", "QUIT", "USR1", "USR2", "WINCH", "TSTP", "RT"}
Prog == {"rt_sig_recv", "sig_receiver", "sig_waitinfo", "sig_suspend", "sig_user", "sigjump", "reentrant",
         "winsz", "getpass"}

VARIABLES
  prog,      \* the receiver
  delay,     \* was it given a time to sleep?
  pc,        \* of main: the next statement; "pause" and "sleep" are inside the call
  armed,     \* the signals whose handler is installed
  mask,      \* the signals main blocks
  handling,  \* the signals whose handler runs, the innermost first
  pend,      \* pending standard signals
  rtq,       \* pending realtime signals: their values
  values,    \* the values received
  sigCnt,    \* how many were handled, the last one aside; two of the receivers only print them
  allDone,   \* got_sigint, gotSigquit
  canJump,   \* of sigjump
  result,    \* of reentrant: whose string the static data of crypt are about
  mismatched,
  echo,      \* of getpass: does the terminal echo?
  by,        \* the signal whose default action ended or stopped the receiver
  gapHit,    \* was the last signal handled between the test of allDone and pause?
  rtSent,    \* how far rt_signal is; NumRt + 1 after its end with an error
  stdSent    \* how far sig_sender is

which  == <<prog, delay>>
sender == <<rtSent, stdSent>>
seen   == <<values, sigCnt, allDone, gapHit>>
queue  == <<pend, rtq>>
static == <<result, mismatched>>
vars   == <<which, pc, armed, mask, handling, queue, seen, canJump, static, echo, by, sender>>

\* What happens to a process after SIGTSTP has stopped it is left out.
Ended  == pc \in {"ended", "killed", "stopped"}

\* The signals sig_sender is told to send first (sig_user has two senders) and
\* the last one, which ends the receiver, by its default action if it has no
\* handler.
First  == CASE prog \in {"sig_suspend", "sigjump", "reentrant"} -> {"INT"} [] prog = "winsz" -> {"WINCH"}
            [] prog = "getpass" -> {"TSTP"} [] prog = "sig_user" -> {"USR1", "USR2"} [] OTHER -> {"USR1"}
Last   == IF prog \in {"sig_suspend", "sigjump", "reentrant"} THEN "QUIT" ELSE "INT"

\* rt_sig_recv reads both its arguments; only two others may sleep.
Init ==
  /\ prog \in Prog /\ delay \in BOOLEAN
  /\ (prog = "rt_sig_recv" => delay) /\ (delay => prog \in {"rt_sig_recv", "sig_receiver", "sig_waitinfo"})
  /\ pc = CASE prog \in {"sig_waitinfo", "sig_suspend"} -> "block" [] prog \in {"winsz", "getpass"} -> "open"
            [] OTHER -> "install"
  /\ armed = {} /\ mask = {} /\ handling = <<>>
  /\ pend = {} /\ rtq = <<>> /\ values = <<>>
  /\ sigCnt = 0 /\ allDone = 0 /\ canJump = 0 /\ gapHit = FALSE
  /\ result = "none" /\ mismatched = 0 /\ echo = TRUE /\ by = "none"
  /\ rtSent = 0 /\ stdSent = 0
-----------------------------------------------------------------------------
(* main runs while no handler does.                                        *)

Main(p, from, to) ==
  /\ prog = p /\ pc = from /\ handling = <<>> /\ pc' = to
  /\ UNCHANGED <<which, handling, sender, by>>
Go(p, from, to) == Main(p, from, to) /\ UNCHANGED <<armed, mask, queue, seen, canJump, static, echo>>
SetMask(p, from, set, to) ==
  Main(p, from, to) /\ mask' = set /\ UNCHANGED <<armed, queue, seen, canJump, static, echo>>

\* Handlers are installed for one signal of order after another.
InstallAll(p, order, to) == \E n \in 1..Len(order) :
  /\ armed = {order[m] : m \in 1..n - 1} /\ armed' = armed \cup {order[n]}
  /\ Main(p, "install", IF n = Len(order) THEN to ELSE "install")
  /\ UNCHANGED <<mask, queue, seen, canJump, static, echo>>

(* rt_sig_recv: only SIGINT can interrupt the two calls of printf and sleep. *)
RtInstall  == InstallAll("rt_sig_recv", <<"INT", "USR1", "RT">>, "block")
BugRtBlock == SetMask("rt_sig_recv", "block", {}, "print")
RtBlock    == SetMask("rt_sig_recv", "block", Sig \ {"INT"}, "print")
RtSleep    == Go("rt_sig_recv", "print", "sleep")
RtWake     == Go("rt_sig_recv", "sleep", "unblock")
RtUnblock  == SetMask("rt_sig_recv", "unblock", {}, "test")
RtTest     == Go("rt_sig_recv", "test", IF allDone = 1 THEN "ended" ELSE "gap")
RtPause    == Go("rt_sig_recv", "gap", "pause")

(* sig_receiver: blocks all while it sleeps, and then spins.                *)
RcInstall == InstallAll("sig_receiver", <<"INT", "USR1", "RT">>, IF delay THEN "block" ELSE "test")
RcBlock   == SetMask("sig_receiver", "block", Sig, "sleep")
RcSleep   == Go("sig_receiver", "sleep", "unblock")
RcUnblock == SetMask("sig_receiver", "unblock", {}, "test")
RcSpin    == allDone = 1 /\ Go("sig_receiver", "test", "ended")

(* sig_suspend: sigsuspend opens the mask and waits in one step.            *)
SuBlock      == SetMask("sig_suspend", "block", {"INT", "QUIT"}, "install")
SuInstall    == InstallAll("sig_suspend", <<"INT", "QUIT">>, "test")
SuTest       == Go("sig_suspend", "test", IF allDone = 1 THEN "ended" ELSE "critical")
SuSuspend    == SetMask("sig_suspend", "critical", {}, "pause")

(* sig_user: pauses for ever.                                              *)
UsInstall == InstallAll("sig_user", <<"USR1", "USR2">>, "test")
UsPause   == Go("sig_user", "test", "pause")

(* sigjump: the environment is saved before canJump says so.               *)
SjInstall == InstallAll("sigjump", <<"INT">>, "setjmp")
SjSetjmp ==
  /\ Main("sigjump", "setjmp", "test") /\ canJump' = 1
  /\ UNCHANGED <<armed, mask, queue, seen, static, echo>>
SjPrint   == Go("sigjump", "print", "test")
SjPause   == Go("sigjump", "test", "pause")

\* Receiving signal s takes it from the pending ones; a queued value is noted.
Receive(s) ==
  /\ s \in pend \/ (s = "RT" /\ rtq # <<>>)
  /\ pend' = pend \ {s}
  /\ rtq' = IF s = "RT" THEN Tail(rtq) ELSE rtq
Note(s) ==
  /\ values' = IF s = "RT" THEN Append(values, Head(rtq)) ELSE values
  /\ gapHit' = (gapHit \/ (s = Last /\ pc = "gap"))
SetDone == allDone' = 1 /\ UNCHANGED sigCnt
Count   == sigCnt' = sigCnt + 1 /\ UNCHANGED allDone

(* sig_waitinfo: everything blocked, sigwaitinfo in a loop, exit on SIGINT. *)
WiBlock == SetMask("sig_waitinfo", "block", Sig, IF delay THEN "sleep" ELSE "take")
WiSleep == Go("sig_waitinfo", "sleep", "take")
WiTake(s) ==
  /\ Main("sig_waitinfo", "take", IF s = "INT" THEN "ended" ELSE "take")
  /\ Receive(s) /\ Note(s) /\ (IF s = "INT" THEN SetDone ELSE Count)
  /\ UNCHANGED <<armed, mask, canJump, static, echo>>

(* reentrant: crypt works on static data, from its start to the comparison.  *)
ReInstall == InstallAll("reentrant", <<"INT">>, "test")
ReCrypt ==
  /\ Main("reentrant", "test", "compare") /\ result' = "str1"
  /\ UNCHANGED <<armed, mask, queue, seen, canJump, mismatched, echo>>
ReCompare ==
  /\ Main("reentrant", "compare", "test") /\ mismatched' = mismatched + (IF result = "str1" THEN 0 ELSE 1)
  /\ UNCHANGED <<armed, mask, queue, seen, canJump, result, echo>>

(* winsz: exits without a terminal; main and the handler call pr_winsz.      *)
WzTty     == Go("winsz", "open", "install") \/ Go("winsz", "open", "ended")
WzInstall == InstallAll("winsz", <<"WINCH">>, "print")
WzPrint   == Go("winsz", "print", "test") \/ Go("winsz", "print", "ended")
WzPause   == Go("winsz", "test", "pause")

(* getpass: SIGINT and SIGTSTP wait while the terminal does not echo.        *)
GpOpen     == Go("getpass", "open", "block") \/ Go("getpass", "open", "ended")
BugGpBlock == SetMask("getpass", "block", {"INT"}, "noecho")
GpBlock    == SetMask("getpass", "block", {"INT", "TSTP"}, "noecho")
GpEcho(from, on, to) ==
  Main("getpass", from, to) /\ echo' = on /\ UNCHANGED <<armed, mask, queue, seen, canJump, static>>
GpNoEcho   == GpEcho("noecho", FALSE, "getc") \/ Go("getpass", "noecho", "ended")
GpGetc     == Go("getpass", "getc", "restore")
GpRestore  == GpEcho("restore", TRUE, "unblock")
GpUnblock  == SetMask("getpass", "unblock", {}, "print")
GpReturn   == Go("getpass", "print", "ended")
-----------------------------------------------------------------------------
(* Handlers.                                                               *)

\* What is blocked while a handler runs: everything for siginfoHandler, else the
\* signal itself.
OpenFor(s) ==
  /\ s \notin mask
  /\ IF prog = "rt_sig_recv" THEN handling = <<>> ELSE \A i \in 1..Len(handling) : handling[i] # s

\* The handlers, as far as they change state.
siginfoHandler(s) == prog = "rt_sig_recv" /\ IF s = "INT" THEN SetDone ELSE Count
sig_handler(s)    == prog = "sig_receiver" /\ IF s = "INT" THEN SetDone ELSE Count
handler(s)        == prog = "sig_suspend" /\ IF s = "QUIT" THEN SetDone ELSE Count
sig_user(s)       == prog = "sig_user" /\ Count
jump_handler(s)   == prog = "sigjump" /\ Count
crypt_handler(s)  == prog = "reentrant" /\ Count
sig_winch(s)      == prog = "winsz" /\ Count

\* A handler begins; without one the default action kills, stops or does nothing.
Deliver(s) ==
  /\ ~ Ended /\ OpenFor(s) /\ Receive(s)
  /\ IF s \in armed
     THEN /\ handling' = <<s>> \o handling /\ Note(s) /\ UNCHANGED pc
          /\ \/ siginfoHandler(s) \/ sig_handler(s) \/ handler(s) \/ sig_user(s) \/ jump_handler(s)
             \/ crypt_handler(s) \/ sig_winch(s)
          /\ result' = IF prog = "reentrant" THEN "str2" ELSE result
          /\ UNCHANGED by
     ELSE /\ pc' = CASE s = "WINCH" -> pc [] s = "TSTP" -> "stopped" [] OTHER -> "killed"
          /\ by' = IF s = "WINCH" THEN by ELSE s
          /\ UNCHANGED <<handling, seen, result>>
  /\ UNCHANGED <<which, canJump, armed, mask, mismatched, echo, sender>>

\* The handler returns, and with the outermost the call it interrupted;
\* sigsuspend puts the mask back.
ReturnTo(afterPause) ==
  /\ ~ Ended /\ handling # <<>> /\ canJump = 0
  /\ handling' = Tail(handling)
  /\ pc' = IF Len(handling) > 1 THEN pc
           ELSE CASE pc = "pause" -> afterPause [] pc = "sleep" -> "unblock" [] OTHER -> pc
  /\ mask' = IF prog = "sig_suspend" /\ pc' # pc THEN {"INT", "QUIT"} ELSE mask
  /\ UNCHANGED <<which, canJump, armed, queue, seen, static, echo, by, sender>>
BugHandlerReturns == ReturnTo("gap")
HandlerReturns    == ReturnTo("test")

\* pr_winsz exits when the terminal is gone.
HandlerExits ==
  /\ prog = "winsz" /\ ~ Ended /\ handling # <<>> /\ handling' = Tail(handling) /\ pc' = "ended"
  /\ UNCHANGED <<which, canJump, armed, mask, queue, seen, static, echo, by, sender>>

\* The handler of sigjump does not return but goes back to sigsetjmp, with the
\* mask saved there.
JumpWith(saved) ==
  /\ ~ Ended /\ handling # <<>> /\ canJump = 1
  /\ handling' = <<>> /\ pc' = "print" /\ mask' = saved
  /\ UNCHANGED <<which, canJump, armed, queue, seen, static, echo, by, sender>>
BugSiglongjmp == JumpWith(mask \cup {"INT"})
Siglongjmp    == JumpWith({})
-----------------------------------------------------------------------------
(* The senders.                                                            *)

\* sigqueue with sigData + i; a full queue or a receiver that is gone ends
\* rt_signal with an error; one that ended and is not yet waited for takes it.
QueueAs(value) ==
  /\ rtSent < NumRt
  /\ \/ ~ Ended /\ Len(rtq) < QueueLimit /\ rtSent' = rtSent + 1 /\ rtq' = Append(rtq, value)
     \/ (Ended \/ Len(rtq) >= QueueLimit) /\ rtSent' = NumRt + 1 /\ UNCHANGED rtq
     \/ Ended /\ rtSent' = rtSent + 1 /\ UNCHANGED rtq
  /\ UNCHANGED <<which, canJump, pc, armed, mask, handling, pend, seen, static, echo, by, stdSent>>
BugRtSend == QueueAs(NumRt - rtSent)
RtSend    == QueueAs(rtSent + 1)

\* kill, NumStd times with the first signal and once with the last.  A signal
\* already pending is not queued again.
StdSend ==
  /\ stdSent <= NumStd
  /\ \/ ~ Ended /\ stdSent' = stdSent + 1 /\ \E s \in IF stdSent < NumStd THEN First ELSE {Last} : pend' = pend \cup {s}
     \/ Ended /\ stdSent' \in {stdSent + 1, NumStd + 1} /\ UNCHANGED pend
  /\ UNCHANGED <<which, canJump, pc, armed, mask, handling, rtq, seen, static, echo, by, rtSent>>

RtSigRecv   == RtInstall \/ RtBlock \/ RtSleep \/ RtWake \/ RtUnblock \/ RtTest \/ RtPause
SigReceiver == RcInstall \/ RcBlock \/ RcSleep \/ RcUnblock \/ RcSpin
SigSuspend  == SuBlock \/ SuInstall \/ SuTest \/ SuSuspend
SigWaitinfo == WiBlock \/ WiSleep \/ \E s \in Sig : WiTake(s)
SigUser     == UsInstall \/ UsPause
SigJump     == SjInstall \/ SjSetjmp \/ SjPrint \/ SjPause
Reentrant   == ReInstall \/ ReCrypt \/ ReCompare
Winsz       == WzTty \/ WzInstall \/ WzPrint \/ WzPause
Getpass     == GpOpen \/ GpBlock \/ GpNoEcho \/ GpRestore \/ GpUnblock \/ GpReturn
MainStep    == \/ RtSigRecv \/ SigReceiver \/ SigSuspend \/ SigWaitinfo \/ SigUser \/ SigJump
               \/ Reentrant \/ Winsz \/ Getpass
Handler     == HandlerReturns \/ HandlerExits \/ Siglongjmp \/ \E s \in Sig : Deliver(s)
Next        == MainStep \/ Handler \/ GpGetc \/ RtSend \/ StdSend
Spec        == Init /\ [][Next]_vars /\ WF_vars(MainStep) /\ WF_vars(Handler)
-----------------------------------------------------------------------------
TypeOK ==
  /\ prog \in Prog /\ delay \in BOOLEAN
  /\ pc \in {"install", "block", "print", "sleep", "unblock", "test", "gap", "pause", "critical",
             "take", "setjmp", "open", "compare", "noecho", "getc", "restore", "ended", "killed", "stopped"}
  /\ result \in {"none", "str1", "str2"} /\ mismatched \in Nat /\ echo \in BOOLEAN /\ by \in Sig \cup {"none"}
  /\ armed \subseteq Sig /\ mask \subseteq Sig /\ handling \in Seq(Sig)
  /\ pend \subseteq Sig \ {"RT"} /\ rtq \in Seq(1..NumRt) /\ values \in Seq(1..NumRt)
  /\ sigCnt \in Nat /\ allDone \in {0, 1} /\ canJump \in {0, 1} /\ gapHit \in BOOLEAN
  /\ rtSent \in 0..NumRt + 1 /\ stdSent \in 0..NumStd + 1

\* Realtime signals are neither lost nor merged nor reordered by any receiver:
\* the values received and those still queued are those sent.  Standard signals
\* may be merged but are not invented: no more are counted than were sent, and
\* reentrant reports no more mismatches than signals handled.
RtInOrder ==
  /\ TypeOK
  /\ ~ Ended => LET all == values \o rtq IN all = [i \in 1..Len(all) |-> i] /\ Len(all) <= NumRt
                  /\ (rtSent <= NumRt => Len(all) = rtSent)
  /\ sigCnt <= Len(values) + (IF stdSent < NumStd THEN stdSent ELSE NumStd)
  /\ prog = "reentrant" => mismatched <= sigCnt

\* Where main is in a printf, and whether the handler of s calls it.
Printing == pc \in {"print", "critical"} \/ (prog = "rt_sig_recv" /\ pc = "unblock")
Prints(s) == prog \notin {"sig_receiver", "reentrant"} /\ (prog = "rt_sig_recv" => s # "INT")
Printers == {i \in 1..Len(handling) : Prints(handling[i])}

\* The printf of a handler interrupts that of main, which is undefined, only in
\* sigjump after a jump and in winsz before the first pause; that of another handler
\* only in sig_suspend and sig_user.  In rt_sig_recv there is neither, for "all other
\* signals are blocked" during a handler and while main prints.
PrintfAlone ==
  /\ Printing /\ Printers # {} => prog \in {"sigjump", "winsz"} /\ pc = "print"
  /\ \A i, j \in Printers : i # j => prog \in {"sig_suspend", "sig_user"}

\* getpass: the terminal is left without echo only by a signal that getpass does not
\* block, never by SIGINT or SIGTSTP and not by an error.
EchoBack == Ended /\ ~ echo => by = "RT"

\* main is in pause or sigsuspend with allDone set only if the last signal came
\* between the test of rt_sig_recv and its call of pause: that is the one wakeup
\* that can be lost, and sig_suspend has none.
StuckOnlyInGap ==
  /\ pc = "pause" /\ handling = <<>> /\ allDone = 1 => gapHit
  /\ gapHit => prog = "rt_sig_recv"

\* Once the last signal is sent, whenever that is, the receiver ends, unless it
\* was handled in that gap or getpass waits for its user; and so is every signal
\* sent before taken: none stays blocked, in sigjump because siglongjmp restores
\* the mask.
DoneEnds ==
  /\ Last \in pend \/ allDone = 1 ~> Ended \/ gapHit \/ pc = "getc"
  /\ \A s \in Sig : s \in First /\ s \in pend ~> s \notin pend \/ Ended \/ pc = "getc"
=============================================================================
