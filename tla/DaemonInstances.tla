--------------------------- MODULE DaemonInstances ---------------------------
(***************************************************************************)
(* What main of daemon/daemonize.c does after daemonize(): several daemons *)
(* started at different times compete for the lock on the pid file, and    *)
(* the one that gets it hands its signals to a thread.  A signal may come, *)
(* and SIGKILL may strike, between any two steps; a process that ends      *)
(* leaves its pid in the file and its lock to the others.                  *)
(***************************************************************************)
EXTENDS Integers

CONSTANTS Instance,   \* the processes, each a start of the program
          Empty,      \* the content of a truncated pid file
          MaxSignals  \* bound on the signals sent to one process

ASSUME InstanceAssumption == Empty \notin Instance /\ MaxSignals \in Nat

Signal == {"HUP", "TERM", "USR1"}   \* USR1 stands for every signal main has no case for

VARIABLES
  stage,     \* the next statement of each process: see InstancesTypeOK
  cause,     \* how each process ended
  holder,    \* the processes that have the write lock of the pid file
  pidfile,   \* what the file says
  unwritten, \* the processes whose write of the pid failed
  hup,       \* the disposition of SIGHUP
  blocked,   \* are all signals blocked?
  pending,   \* the blocked signals that wait
  waiter,    \* does thr_fn run?
  sent       \* how many signals a process was sent

lock   == <<holder, pidfile, unwritten>>
sigs   == <<hup, blocked, pending, waiter>>
instanceVars == <<stage, cause, lock, sigs, sent>>

Alive(d) == stage[d] # "dead"

\* daemonize() left SIGHUP ignored; the file may be there from an earlier run.
InstancesInit ==
  /\ stage = [d \in Instance |-> "open"]
  /\ cause = [d \in Instance |-> "none"]
  /\ holder = {} /\ pidfile \in Instance \cup {Empty} /\ unwritten = {}
  /\ hup = [d \in Instance |-> "ignored"]
  /\ blocked = [d \in Instance |-> FALSE]
  /\ pending = [d \in Instance |-> {}]
  /\ waiter = [d \in Instance |-> FALSE]
  /\ sent = [d \in Instance |-> 0]

\* The end of a process: the kernel drops its lock, its thread and its signals.
Die(d, why) ==
  /\ stage' = [stage EXCEPT ![d] = "dead"]
  /\ cause' = [cause EXCEPT ![d] = why]
  /\ holder' = holder \ {d}
  /\ pending' = [pending EXCEPT ![d] = {}]
  /\ waiter' = [waiter EXCEPT ![d] = FALSE]
  /\ UNCHANGED <<pidfile, unwritten, hup, blocked>>

Advance(d, from, to) ==
  /\ stage[d] = from
  /\ stage' = [stage EXCEPT ![d] = to]
  /\ UNCHANGED <<cause, sent>>

\* open(LOCKFILE, O_RDWR | O_CREAT): the content stays.
BugOpen(d) ==
  /\ Advance(d, "open", "lock")
  /\ pidfile' = Empty
  /\ UNCHANGED <<holder, unwritten, sigs>>
Open(d) ==
  /\ Advance(d, "open", "lock")
  /\ UNCHANGED <<lock, sigs>>

\* lockfile(fd): F_SETLK, which does not wait.
BugLock(d) ==
  /\ Advance(d, "lock", "truncate")
  /\ holder' = holder \cup {d}
  /\ UNCHANGED <<pidfile, unwritten, sigs>>
Lock(d) ==
  /\ holder = {}
  /\ Advance(d, "lock", "truncate")
  /\ holder' = {d}
  /\ UNCHANGED <<pidfile, unwritten, sigs>>

\* EACCES or EAGAIN: already_running returns 1 and main exits.
Refused(d) ==
  /\ stage[d] = "lock" /\ holder # {}
  /\ Die(d, "refused")
  /\ UNCHANGED sent

\* ftruncate(fd, 0); its result is not looked at.
Truncate(d) ==
  /\ Advance(d, "truncate", "write")
  /\ pidfile' \in {Empty, pidfile}
  /\ UNCHANGED <<holder, unwritten, sigs>>

\* write(fd, buf, strlen(buf) + 1) and return 0.
Write(d) ==
  /\ Advance(d, "write", "restore")
  /\ pidfile' = d
  /\ UNCHANGED <<holder, unwritten, sigs>>

\* The write fails, which nobody notices.
WriteFails(d) ==
  /\ Advance(d, "write", "restore")
  /\ unwritten' = unwritten \cup {d}
  /\ UNCHANGED <<holder, pidfile, sigs>>

Restore(d) ==
  /\ Advance(d, "restore", "block")
  /\ hup' = [hup EXCEPT ![d] = "default"]
  /\ UNCHANGED <<lock, blocked, pending, waiter>>

BlockAs(d, all) ==
  /\ Advance(d, "block", "create")
  /\ blocked' = [blocked EXCEPT ![d] = all]
  /\ UNCHANGED <<lock, hup, pending, waiter>>
BugBlock(d) == BlockAs(d, FALSE)
Block(d)    == BlockAs(d, TRUE)

\* pthread_create of thr_fn, whose failure is logged and no more.
Create(d) ==
  /\ Advance(d, "create", "work")
  /\ waiter' \in {[waiter EXCEPT ![d] = ok] : ok \in BOOLEAN}
  /\ UNCHANGED <<lock, hup, blocked, pending>>

\* open, fcntl (for another reason), sigaction or pthread_sigmask fails.
SysFails(d) ==
  /\ stage[d] \in {"open", "lock", "restore", "block"}
  /\ Die(d, "error")
  /\ UNCHANGED sent

\* One turn of thr_fn: SIGTERM ends the process, SIGHUP rereads the
\* configuration (which reread leaves empty), any other is logged.  sigwait fails only for an
\* invalid set, which mask is not.
TakeAs(d, fatal) ==
  \E s \in pending[d] :
    /\ waiter[d]
    /\ IF s \in fatal
       THEN Die(d, s)
       ELSE /\ pending' = [pending EXCEPT ![d] = @ \ {s}]
            /\ UNCHANGED <<stage, cause, lock, hup, blocked, waiter>>
    /\ UNCHANGED sent
BugDeaf(d) == TakeAs(d, {})
SigWait(d) == TakeAs(d, {"TERM"})

\* A signal reaches a process.
Send(d, s) ==
  /\ Alive(d) /\ sent[d] < MaxSignals
  /\ sent' = [sent EXCEPT ![d] = @ + 1]
  /\ \/ /\ blocked[d]
        /\ pending' = [pending EXCEPT ![d] = @ \cup {s}]
        /\ UNCHANGED <<stage, cause, lock, hup, blocked, waiter>>
     \/ /\ ~ blocked[d] /\ s = "HUP" /\ hup[d] = "ignored"
        /\ UNCHANGED <<stage, cause, lock, sigs>>
     \/ /\ ~ blocked[d] /\ ~ (s = "HUP" /\ hup[d] = "ignored")
        /\ Die(d, s)

Kill(d) ==
  /\ Alive(d)
  /\ Die(d, "KILL")
  /\ UNCHANGED sent

\* main from already_running to its endless loop.
MainThread(d) ==
  \/ Open(d) \/ Lock(d) \/ Refused(d) \/ Truncate(d) \/ Write(d) \/ WriteFails(d)
  \/ Restore(d) \/ Block(d) \/ Create(d) \/ SysFails(d)

InstancesNext == \E d \in Instance :
  \/ MainThread(d) \/ SigWait(d) \/ Kill(d)
  \/ \E s \in Signal : Send(d, s)

InstancesSpec ==
  /\ InstancesInit /\ [][InstancesNext]_instanceVars
  /\ \A d \in Instance : WF_instanceVars(MainThread(d)) /\ WF_instanceVars(SigWait(d))
-----------------------------------------------------------------------------
Held == {"truncate", "write", "restore", "block", "create", "work"}
Past == {"restore", "block", "create", "work"}   \* the pid has been written

InstancesTypeOK ==
  /\ stage \in [Instance -> Held \cup {"open", "lock", "dead"}]
  /\ cause \in [Instance -> Signal \cup {"none", "refused", "error", "KILL"}]
  /\ holder \subseteq Instance /\ unwritten \subseteq Instance
  /\ pidfile \in Instance \cup {Empty}
  /\ hup \in [Instance -> {"ignored", "default"}]
  /\ blocked \in [Instance -> BOOLEAN] /\ waiter \in [Instance -> BOOLEAN]
  /\ pending \in [Instance -> SUBSET Signal]
  /\ sent \in [Instance -> 0..MaxSignals]

\* already_running lets one daemon pass: no two of them work at a time.
SingleInstance == \A d, e \in Instance : stage[d] \in Held /\ stage[e] \in Held => d = e

\* From the write of its pid to its end a daemon finds its own pid in the file:
\* no later start, refused as it is, and no crash of one disturbs it.
PidFile == \A d \in Instance : stage[d] \in Past /\ d \notin unwritten => pidfile = d

\* SIGHUP, which is meant to reread the configuration, ends a daemon only in
\* the moment between its default action and the blocking of all signals.
HupWindow ==
  [][\A d \in Instance : cause'[d] = "HUP" /\ cause[d] # "HUP" => stage[d] = "block"]_instanceVars

\* A SIGTERM that a daemon has blocked ends it, unless the thread that waits for
\* signals could not be made.
TermEnds == \A d \in Instance :
  "TERM" \in pending[d] ~> stage[d] = "dead" \/ (stage[d] = "work" /\ ~ waiter[d])

\* A daemon that works ends by SIGKILL, or by a SIGTERM that thr_fn takes, and by
\* no other signal: SIGHUP and those without a case only go through its switch.
WorkEnds ==
  [][\A d \in Instance : stage[d] = "work" /\ stage'[d] = "dead" =>
       \/ cause'[d] = "KILL"
       \/ cause'[d] = "TERM" /\ "TERM" \in pending[d] /\ waiter[d]]_instanceVars

\* How far main has come tells what a signal does to a live process.
SignalState == \A d \in Instance : Alive(d) =>
  /\ blocked[d] <=> stage[d] \in {"create", "work"}
  /\ hup[d] = "default" => stage[d] \in {"block", "create", "work"}

\* What makes these invariants inductive: the lock is held by the one process
\* between its locking and its end, and nobody else touches the file.
InstancesInv ==
  /\ InstancesTypeOK
  /\ holder = {d \in Instance : stage[d] \in Held}
  /\ SingleInstance
  /\ PidFile
  /\ SignalState
=============================================================================
