------------------------------ MODULE Daemonize ------------------------------
(***************************************************************************)
(* daemonize() of daemon/daemonize.c: how a process started from a shell   *)
(* loses its terminal and its descriptors.  Only the surviving process is  *)
(* followed: at each fork the parent exits and the child goes on.  The     *)
(* environment may hang up the terminal at any time, and the daemon, once  *)
(* ready, may open a terminal device.  umask(0) and what chdir("/") changes*)
(* are left out; that chdir may fail is not.                               *)
(***************************************************************************)
EXTENDS Integers, Sequences, FiniteSetsExt

CONSTANTS MaxFd,  \* descriptors are 0..MaxFd
          Cap,    \* 1024, what the code takes for an infinite limit
          INF     \* RLIM_INFINITY

Fd == 0 .. MaxFd

ASSUME DaemonizeAssumption == MaxFd \in Nat /\ Cap \in Nat /\ 2 < Cap /\ INF \notin Nat

VARIABLES
  step,             \* the next statement of daemonize
  soft, hard,       \* RLIMIT_NOFILE
  pgLeader, leader, \* does the process lead its process group, its session?
  ctty,             \* has it a controlling terminal?
  ign,              \* is SIGHUP ignored?
  fds,              \* what each descriptor is
  got               \* fd0, fd1, fd2 as far as assigned

session       == <<pgLeader, leader, ctty, ign>>
files         == <<fds, got, soft, hard>>
DaemonizeVars == <<step, session, files>>

\* A shell job, perhaps a group leader, with any descriptors open.  Limits may
\* have been lowered below a descriptor that is open.
DaemonizeInit ==
  /\ step = "fork1"
  /\ hard \in 0..MaxFd + 1 \cup {INF} /\ soft \in 0..(IF hard = INF THEN MaxFd + 1 ELSE hard)
  /\ pgLeader \in BOOLEAN /\ leader = FALSE /\ ctty = TRUE /\ ign = FALSE
  /\ fds \in [Fd -> {"closed", "inherited"}]
  /\ got = <<>>

Fail == step' = "exit" /\ UNCHANGED <<session, files>>

\* The parent exits: the child leads nothing.
Fork(this, next) ==
  /\ step = this /\ step' = next
  /\ pgLeader' = FALSE /\ leader' = FALSE
  /\ UNCHANGED <<ctty, ign, files>>

BugFork2 == step = "fork2" /\ step' = "chdir" /\ UNCHANGED <<session, files>>
Fork1    == Fork("fork1", "setsid")
Fork2    == Fork("fork2", "chdir")

\* setsid() fails for a group leader; its result is not looked at.
Setsid ==
  /\ step = "setsid" /\ step' = "ignore"
  /\ IF pgLeader THEN UNCHANGED <<pgLeader, leader, ctty>>
                 ELSE pgLeader' = TRUE /\ leader' = TRUE /\ ctty' = FALSE
  /\ UNCHANGED <<ign, files>>

IgnoreHup ==
  /\ step = "ignore" /\ step' = "fork2"
  /\ ign' = TRUE
  /\ UNCHANGED <<pgLeader, leader, ctty, files>>

Chdir ==
  /\ step = "chdir" /\ step' = "close"
  /\ UNCHANGED <<session, files>>

\* for (i = 0; i < rlim_max; i++) close(i).
CloseFrom(first) ==
  LET limit == IF hard = INF THEN Cap ELSE hard
  IN  /\ step = "close" /\ step' = "open"
      /\ fds' = [f \in Fd |-> IF f \in first..limit - 1 THEN "closed" ELSE fds[f]]
      /\ UNCHANGED <<session, got, soft, hard>>
CloseAll == CloseFrom(0)

\* The kernel hands out the lowest free descriptor below the soft limit.
Free   == {f \in Fd : fds[f] = "closed" /\ f < soft}
NewFd(what) ==
  IF Free = {} THEN got' = Append(got, -1) /\ UNCHANGED fds
  ELSE LET f == Min(Free)
       IN  got' = Append(got, f) /\ fds' = [fds EXCEPT ![f] = what]

OpenNull ==
  /\ step = "open" /\ step' = "dup1"
  /\ NewFd("null")
  /\ UNCHANGED <<session, soft, hard>>

Dup(this, next) ==
  /\ step = this /\ step' = next
  /\ IF fds[0] = "closed" THEN got' = Append(got, -1) /\ UNCHANGED fds ELSE NewFd(fds[0])
  /\ UNCHANGED <<session, soft, hard>>

BugCheck ==
  /\ step = "check"
  /\ step' = IF got[1] = 0 THEN "ready" ELSE "bad fds"
  /\ UNCHANGED <<session, files>>

\* if (fd0 != 0 || fd1 != 1 || fd2 != 2) exit(1).
Check ==
  /\ step = "check"
  /\ step' = IF got = <<0, 1, 2>> THEN "ready" ELSE "bad fds"
  /\ UNCHANGED <<session, files>>

\* fork, sigaction or chdir fails, or /dev/null cannot be opened.
CallFails ==
  \/ step \in {"fork1", "ignore", "fork2", "chdir"} /\ Fail
  \/ /\ step = "open" /\ step' = "dup1"
     /\ got' = Append(got, -1)
     /\ UNCHANGED <<session, fds, soft, hard>>

\* The terminal is hung up: SIGHUP to the processes of its session.
Hangup ==
  /\ step \notin {"exit", "hung up"} /\ ctty
  /\ step' = IF ign THEN step ELSE "hung up"
  /\ ctty' = FALSE
  /\ UNCHANGED <<pgLeader, leader, ign, files>>

\* The daemon opens a terminal, which becomes the controlling one of a
\* session leader that has none.
OpenTty ==
  /\ step = "ready"
  /\ ctty' = (ctty \/ leader)
  /\ UNCHANGED <<step, pgLeader, leader, ign, files>>

Daemon == \/ Fork1 \/ Setsid \/ IgnoreHup \/ Fork2 \/ Chdir \/ CloseAll \/ OpenNull
          \/ Dup("dup1", "dup2") \/ Dup("dup2", "check") \/ Check
DaemonizeNext == Daemon \/ CallFails \/ Hangup \/ OpenTty
DaemonizeSpec == DaemonizeInit /\ [][DaemonizeNext]_DaemonizeVars
-----------------------------------------------------------------------------
DaemonizeTypeOK ==
  /\ step \in {"fork1", "setsid", "ignore", "fork2", "chdir", "close", "open", "dup1",
               "dup2", "check", "ready", "bad fds", "exit", "hung up"}
  /\ {pgLeader, leader, ctty, ign} \subseteq BOOLEAN
  /\ fds \in [Fd -> {"closed", "inherited", "null"}] /\ got \in Seq(Fd \cup {-1})
  /\ Len(got) <= 3 /\ \A n \in 1..Len(got) : got[n] # -1 => fds[got[n]] # "closed"

\* After setsid, whose result nobody looks at, the process has no terminal that
\* could be hung up, and a daemon that is ready never gets one again, whatever it
\* opens: the second fork left it in a session it does not lead.
NoTerminalAgain ==
  /\ step \notin {"fork1", "setsid", "exit"} => ~ ctty
  /\ step = "ready" => ~ leader

\* A ready daemon has /dev/null, and only that, as its three standard streams, and
\* of what it inherited it has open only descriptors the closing loop does not reach,
\* at the hard limit or above, or at 1024 or above when there is none.  The check of
\* the three descriptors stops no daemon but one that had no room for them or no
\* /dev/null.
StandardStreams ==
  /\ DaemonizeTypeOK
  /\ step = "ready" => /\ \A f \in 0..2 : fds[f] = "null"
                       /\ \A f \in Fd : fds[f] = "inherited" => f >= (IF hard = INF THEN Cap ELSE hard)
  /\ step = "bad fds" => soft < 3 \/ got[1] = -1
=============================================================================
