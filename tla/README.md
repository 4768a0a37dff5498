# UNIX-Demos: models, checks and proofs

The repository is a collection of small C programs, each about one interface of
the system. They share little code, so there is no single system to model. What
they share is the kind of mistake they are exposed to: a flag tested outside a
lock, a signal between a test and a wait, a process killed half way, a buffer
used by two connections. This directory models the programs in which several
actors meet, checks them with TLC on small instances, and proves the central
invariants of every component with TLAPS.

## 1. The parts

| Part | State | Operations | What is hard about it |
|---|---|---|---|
| `pthread/job_queue.c` | linked list, read-write lock | insert, append, remove, find, print | a loop test made without the lock |
| `pthread/pthread_mutex.c` | two counted objects with a mutex inside | alloc, hold, release | the last release frees the mutex others may be about to lock |
| `pthread/barrier_sort.c`, `norm_qsort.c` | array, barrier | sort a slice, merge | who the barrier counts; ties and exhausted slices |
| `pthread/pthread_signal.c`, `condition_signal.c` | lock, condition, flag or message | wait, set, signal | lost and spurious wakeups; default actions outside the mask |
| `pthread/recursive_lock.c`, `pthread_functions.c` | recursive lock, flag, one struct | start a timer thread, retry | ignored failures; the thread starts while the lock is held |
| `pthread/pthread_cancel.c`, `pthread_cleanup.c`, `pthread_exit.c` | stacks of cleanup handlers | push, cancel, exit, join | which handlers run, and what join tells |
| `IPC/sem_lock.c`, `semlock_test.c` | named semaphore, counter | alloc, free, lock, trylock, unlock | names left behind by a killed process |
| `daemon/daemonize.c`: `daemonize` | session, terminal, descriptors | fork, setsid, close, open, dup | unchecked calls whose order matters; limits |
| `daemon/daemonize.c`: the rest | pid file and its lock, mask | already_running, lockfile, thr_fn | simultaneous starts, kills, a window for SIGHUP |
| `flock/deadlock.c`, `tell_wait.c`, `lock_reg.c` | record locks, two pipes | lockabyte, tell, wait | a deadlock on purpose; circles fcntl cannot see |
| `proc_demos/race_cond.c` | one pipe | print, tell, wait | a peer that never tells |
| `IPC/coprocess.c` with `add2.c`, `fifo_demo.c` | pipes, line buffers | write a line, read an answer or a byte | framing: what one read returns, full buffers, partial lines |
| `IPC/pipe_pager.c`, `popen_pager.c`, `pipe_filter.c` with `myuclc.c` | pipe, buffered streams | copy lines | a reader that leaves, zero bytes, what stays in a buffer |
| `epoll_demo/epoll_server.c` | epoll set, one buffer | accept, read, write, close | the buffer is shared; descriptor numbers are reused |
| `epoll_demo/epoll_cli.c` | epoll set, one buffer | read and write on three descriptors | registrations that fail silently |
| `signal/rt_sig_recv.c`, `sig_receiver.c`, `sig_waitinfo.c`, `sig_suspend.c`, `sig_user.c`, `sigjump.c`, `reentrant.c`, `term_io/winsz.c` | mask, pending signals, flag, static memory | block, sleep, pause, handle, jump | a gap between test and pause; handlers that print or overwrite |
| `term_io/getpass_demo.c` | mask, echo of the terminal | block, switch off, read, restore | a signal while the terminal does not echo |
| `signal/rt_signal.c`, `sig_sender.c` | how far they are | queue, kill | signals that merge, a full queue |
| the other programs | | | section 6 |

The programs interact in a few places only. The two epoll programs speak to
each other; each model has the other side as its environment. The clients of the
server's model connect, send, close and reset when they like. The server of the client's
model echoes what it gets, in pieces, which `epoll_server.c` does under the
conditions of `Echo`. The signal senders send to one of the receivers and
are in one model with it. `coprocess.c` runs `add2.c` and `pipe_filter.c` runs
`myuclc.c`. `deadlock.c` meets other runs of itself through its file.

## 2. Modules

A component module has the state, one action per step of the code, the
specification and the properties. `MC<module>` gives the constants for TLC and
`<module>Proofs` has the theorems; DaemonSignalProofs, IPCProofs and LockSortProofs have
those of several modules. Definitions named `Bug...` are plausible
mistakes: putting one in the place of the definition that follows it must
violate a property. They are not part of any specification.

**JobQueue**, refined to **AtomicJobQueue**. A pointer is the number of a job.
The stores to `q_head` and `q_tail` are separate steps in either order, since
`thr_fn2` reads both without the lock. The stores to `j_next` and `j_prev` are
seen by lock holders only and happen together. Finders are extra threads that
call `job_find`, which `main` never does. AtomicJobQueue is a sequence with
atomic operations; the refinement mapping maps the list to the sequence it
represents. A failing `pthread_rwlock_rdlock` is left out: it needs an overflow
of the reader count. So is a failure to create the second thread.

**FooRefCount**. The count is loaded and stored in separate steps; the mutex
lives in the object. Access to freed memory ends the behaviour (`crashed`),
since nothing after it is defined. Allocation failure is left out, and so is a failure of
`pthread_create` (lines 95 and 96), whose result `main` ignores: it would then join a thread
that does not exist, which is undefined.

**SemLock**. Names are their counter. Semaphores of earlier processes exist
from the start with any value. A kill may come at any step. Tryers are extra
threads for `s_trylock`. Both threads of `semlock_test.c` are created: `main` ignores the result of
`pthread_create` (lines 41 and 42), and after a failure would join an uninitialised thread
id, which is undefined.

**Daemonize**. The surviving process is followed through both forks. Every set
of open descriptors and every limit is an initial state. `umask` and the
directory are left out.

**DaemonInstances**. Several starts of the daemon after `daemonize`, with
signals and SIGKILL between any two steps and every call that may fail.

**LockDeadlock**. Parent and child of several runs, the bytes they lock, the
letters in the pipes. The kernel refuses a request that closes a circle of
byte waits. A run of `race_cond.c` is a run without locks in which only the
child tells.

**EpollServer**, **EpollClient**. The event loops, the events of a batch
handled one at a time, the buffer with its terminating NUL. A byte is named by
its sender and position, so that its way can be followed. A set-up
that fails is an initial state in which the program is not alive. Failures of
`listen`, and of `epoll_ctl` other than by registering twice, are left out. In EpollServer
the sockets have room for what is written: the `write` of line 122 blocks, so a client
that sends and never reads would fill its socket and hold up the server for all. `Served`
therefore takes the clients to read what they are sent. The client's
stdin is a terminal: a read returns one line, or as much of it as the buffer holds, and
the rest stays for the next read.

**BarrierSort**. `qsort` is taken as a sort of the slice, `merge` is modelled
step by step and compared with what `norm_qsort.c` makes of the same numbers.

**Threads**. The variable `prog` says which of six programs of `pthread` runs:
`pthread_signal`, `condition_signal`, `recursive_lock`, `pthread_cancel`,
`pthread_cleanup` or `pthread_exit`. All are a `main` and one or two threads made
from the same calls, defined once (`Create`, `Lock`, `CondTest`, `CondSignal`,
`Push`, `Unwind`, `Join`); each statement of a program is an action with its own
prefix (`Ps`, `Pt` and `Em` and `Cs`, `Rl` and `Retry`, `Cn`, `Cl`, `Ex`). A wait
may return without a signal. `malloc` and `pthread_create` may fail, checked or
not, as in the code. `sigwait` does not fail, as it cannot with this set. A
`return` between `pthread_cleanup_push` and `pop` is undefined by POSIX; it is
modelled as glibc does it, without running the handlers.

**PipeStreams**. The variable `prog` again names the program. `w` is the process
that writes to the pipe and `r` the one that reads it. Bytes are a letter, a
newline or a zero byte. A `write` waits for room, and without a reader raises
SIGPIPE. Either process may be killed at any step. Pagers are external: they
print what they read and leave when they like. An answer of `add2.c` is
represented by its request. Failures of `pipe` and `fork`, and the file names of
the pagers, are left out.

**SignalReceive**. The variable `prog` says which of nine receivers runs; each has
actions of its own (`Rt...`, `Rc...`, `Wi...`, `Su...`, `Us...`, `Sj...`, `Re...`,
`Wz...`, `Gp...`) and its own handler. Handlers are installed one after another; a
standard signal that is pending is not queued again, realtime signals are, up to
a limit. When a deliverable signal is delivered is left open. A handler may
interrupt another unless the program's `sa_mask` prevents it; that of `sigjump.c`
leaves by `siglongjmp`, that of `reentrant.c` overwrites the static memory of
`crypt`. `rt_sig_recv` is run with both arguments, every receiver starts from an
empty mask, and calls on masks, handlers and `tcsetattr` do not fail. The user
who types the password of `getpass` may never do so. A process stopped by
SIGTSTP is not continued.

## 3. Runs

| Run | Instance | States | Shows |
|---|---|---|---|
| `job_queue` | 5 jobs, one finder | 320536 | list well formed, refinement, the unlocked test ends the loop only on a short queue, both threads finish |
| `foo_refcount` | 2 and 3 rounds | 4868 | the count is the number of references; freed memory is reached only after a late first hold |
| `sem_lock` | 3 rounds, one tryer, two leftover names | 1732 | no lost addition, names, the end |
| `daemonize` | descriptors 0..5, cap 4 | 33311 | no terminal again, standard streams, what is inherited |
| `daemon_instances` | 2 starts, 2 signals each | 31517 | one daemon, pid file, SIGHUP window, SIGTERM |
| `lock_deadlock` | 2 runs | 4395 | the meeting, one refusal, who can hang |
| `epoll_server` | 2 clients, 2 descriptors, 3 bytes, buffer 3 | 508102 | events are fresh, bytes go out at most once, when the echo is right, clients are served and released |
| `epoll_client` | lines of 2, 3 or 7 bytes, 7 bytes, buffer 3 | 778096 | each byte in one place, in which order bytes are shown, when it is not wedged, answers shown |
| `barrier_sort` | 3 threads, 2 numbers each, 3 values | 110079 | the result is that of one sort; merge stays in bounds; the end |
| `threads` | 6 programs, 3 signals, 2 spurious returns | 1301 | no lost wakeup, what is handed over is whole, which handlers run, where a signal kills, the end |
| `pipe_streams` | 5 programs, every text of up to 5 bytes, buffers and pipe of 3 bytes | 150525 | nothing lost and in order, answers paired with requests, the end |
| `signal_receive` | 9 receivers, 3 realtime, 2 standard signals, queue of 2 | 15418 | order, printf, echo, the gap, every signal is taken and the last one ends the receiver |

**Why these bounds.** Five jobs are queued as 3 1 0 2 4, so that removal takes
every branch: middle, head, tail and only job. Two and three holds have a
first, a middle and a last round. Leftover names 0 and 2 make `s_alloc` loop
and then find a gap. Six descriptors and a cap of four lie on both sides of
each limit. Two daemons, two runs and two clients are the fewest that can
conflict; the second signal is the one that comes after the first was taken.
A buffer of three is filled exactly by one client and shared by two; for the client of
`epoll_cli.c` a line of two fits it with its NUL, one of three fills it and one of seven takes
three reads, the fewest after which the client can be left waiting. Three
slices with three values have ties and slices that run out at different times.
A queue of two for three realtime signals can overflow or not. Five bytes with
line buffers of three hold two lines, a line that fits a buffer exactly, one that
does not, an empty one, and a last line without its newline. Two characters in
`race_cond.c` have a state between them. Two spurious returns can come before and
after a signal.

**Deadlock.** `job_queue` and `foo_refcount` check it; the latter has a step that
does nothing at its end, so that any other state without a step is reported. The
other runs say `CHECK_DEADLOCK FALSE`: their programs end, or wait for clients,
users or signals whose number is bounded. That they do not hang is stated by
their liveness properties; `daemonize` has none, as each of its steps may fail
and end it.

**Fairness.** Each thread or process that can take a step takes one at last
(weak fairness), as the scheduler guarantees. The signals' senders, users,
clients, pagers, kills, spurious returns and failures are never fair. `JobQueue` also has strong
fairness for the write lock: `thr_fn2` takes and gives back the read lock for
ever, and without it the writer could starve. `delay` and `sleep` in the code
leave it free each time, but no standard promises this. In `EpollClient` the
server is taken to answer. `Termination` of JobQueue is under the condition that
from some point on no `job_find` is in progress: callers that overlap for ever
keep the writer out, and fairness to the writer does not help. Strong fairness
of `WLock` does not cover a lock that is never free.

## 4. What the runs show about the code

Some properties have a condition because the code does not do better. Each
condition is a fact about the program.

- **`pthread_mutex.c`**: `thr_fn1` calls `foo_hold` without holding a reference.
  If `thr_fn2` has already released everything, it uses freed memory.
  `Lifetime` and `LateIsFirstHold` say this is the only way.
- **`deadlock.c`**: two runs in one directory can wait for each other for ever,
  one side for a byte and the other for a letter. `HangNeedsTwoRuns` says that
  one run alone cannot.
- **`epoll_server.c`**: two clients read before either is answered mix their
  bytes, and a read that fills the buffer leaves no NUL. `Echo` holds without
  these two.
- **`epoll_cli.c`**: input read while the socket is registered goes wrong. It is a line
  typed before the last answer was shown, or a further part of a line that is longer than
  the buffer, however patient the user: its bytes can be lost, and it can leave the client
  waiting for an answer to nothing (for a long line, from its third part on). A line that
  fills the buffer exactly leaves no NUL, and what `strlen` finds behind goes out with it.
  `Echoed` and `Answered` hold for a user who waits and types no line longer than the
  buffer; that nothing else is shown, only when no line fills it and it was empty.
- **`daemonize.c`**: SIGHUP ends the daemon between restoring its default action
  and blocking all signals (`HupWindow`). If `pthread_create` fails, nobody
  takes SIGTERM (`TermEnds`).
- **`rt_sig_recv.c`**: a SIGINT between the test of `allDone` and `pause` is
  handled, but `pause` then waits for another signal. `StuckOnlyInGap` says it
  is the only such moment. `sig_suspend.c` has no such gap (`DoneEnds`).
- **`sigjump.c`, `winsz.c`, `sig_suspend.c`, `sig_user.c`**: in the first two a
  handler can print inside a `printf` of main, in the last two inside that of
  another handler. `PrintfAlone` says where, and that it happens nowhere else.
- **`reentrant.c`**: the handler overwrites the result main is about to compare.
  `RtInOrder` says that there are never more mismatches than signals handled.
- **`getpass_demo.c`**: SIGINT and SIGTSTP never leave the terminal without echo,
  any other signal that kills can (`EchoBack`).
- **`coprocess.c`**: a line that begins with a zero byte sends nothing, and both
  processes wait for ever. `StreamEnds` says so; `Paired` says that otherwise one
  `read` is one answer, and that `line[n] = 0` stays inside the buffer here and in
  `add2.c`, though each `read` may return as much as the buffer holds.
- **`fifo_demo.c`**: `readline` drops a byte when its buffer is full and a last line
  that has no newline. `NothingLost` holds for lines that fit. If one process is
  killed before it opens the fifo, the other waits for ever (`StreamEnds`).
- **`recursive_lock.c`**: if `timeout` gets no memory or `makethread` no thread,
  nobody sets the flag, and main spins for ever (`AllEnd`).
- **`race_cond.c`**: the parent keeps the write end of the pipe it reads, so a child
  that fails before it tells leaves it waiting (`WaitEnds`).
- **`daemonize.c:82`** says "close all open file descriptors". The loop goes up to the
  hard limit, or to 1024 when that is infinite. A descriptor above it, opened before
  the limit was lowered or above 1024, stays open. `StandardStreams` says that no
  other does.

## 5. Proofs

The theorems hold for every value of the constants that meets the named
assumption of the module.

- **JobQueueProofs** (`JobQueueAssumption`: at least one job, the null pointer
  and unset memory differ from jobs). `Linked` is not inductive: it says nothing
  of who may write. `IInv` adds who holds the lock in which state (`Locking`),
  which jobs are queued at each point of `thr_fn1` (`Membership`), and that a
  reader under the lock is at some position of the list (`Walking`). Lemmas show
  that insert, append and each branch of remove turn a represented list into the
  right one. From `IInv` follow `ListCorrect`, `WholeQueue`, `RemoveIsSafe`,
  `EmptyAfterJoin` and `Refinement`. `TInv` is about the loop test made without the
  lock: inserted jobs are odd and appended ones even, so from two jobs on the head is
  odd and the tail even (`OddsFirst`), and `thr_fn2` has seen nothing else, at whatever
  moments it read the two, unless the queue was short in between (`Testing`). Result:
  `DoneCorrect`.
- **IPCProofs**, about SemLock and PipeStreams. `SemAssumption`: at least one round,
  leftover values are naturals. `SemInv` ties the semaphore's value to the threads
  inside (`Entry`), the counter to the rounds done (`Count`) and the names to main's
  position (`Names`). Results: `Exclusion`, `TotalCorrect`, `NamesCorrect`.
  `StreamAssumption`: a stream's buffer takes a line and a pipe takes a buffer. `Types`
  says where each program can be. For `coprocess` the invariant `Co` says where the one
  request is that is not yet answered: in the pipe, in the hands of `add2.c` or, as its
  answer, on the way back (`Round`). For the others, `Flow` says that what is printed,
  in the reader's line, in the pipe, in the writer's buffer and in its line are, in
  this order, exactly what was read of the text; `Begun` that `readline` has never more
  than the beginning of a line. `Clears` has the zero bytes left out, so that `strlen`
  and `fputs` cut nothing. Results: `PairedCorrect` and `NothingLostCorrect`, for every
  text and all sizes of line, pipe and buffers.
- **DaemonSignalProofs**, about Daemonize, DaemonInstances and SignalReceive. `DaemonizeAssumption`: any
  number of descriptors, any limits and any cap above 2. `DInv` says how far the closing
  loop is, which descriptors are closed by then, and that `open` and the two `dup` return
  the lowest free descriptors; that the lowest free one exists is the well-foundedness
  of the naturals. Results: `NoTerminal`, `Streams`. `InstanceAssumption`: `InstancesInv`
  adds that the holder of the lock is exactly the processes between their locking and their
  end, and where signals are blocked. Results: `OneDaemon`, `PidFileCorrect`, and the
  action properties `HupOnlyInWindow` and `EndsByTerm`.
  For SignalReceive (`ReceiveAssumption`) there are two invariants. `IInv` says which
  handlers can be active, where each receiver can be (`Places`), what it has blocked
  there (`Blocked`), when the echo is off and when `allDone` was set against the test
  (`Tested`): without the masks none of the properties is preserved by a delivery.
  `OInv` says that the values received and then those queued are 1, 2, 3, ... as far
  as they were sent (`Order`), that no more standard signals are handled or pending
  than were sent (`Counted`), and counts mismatches (`Matched`). Results:
  `PrintfCorrect`, `EchoCorrect`, `GapCorrect`, `OrderCorrect`, for any number of
  signals and any queue limit.
- **ThreadsProofs** (`SignalAssumption`). `IInv` adds where the threads of each
  program can be (`Places`), and that their positions tell whether SIGQUIT was met,
  whether signals are blocked, whether the message exists and whether the timer
  thread does. Results: `WakeupCorrect`, `HandedOverCorrect`, and the action
  property `MaskCorrect`, for any number of signals and spurious returns. `UInv` is about
  the programs that cancel and exit: which handlers a thread has pushed and which have
  run (`Handlers`), the status it leaves (`Statuses`), and what the joins so far have
  told (`Told`). Result: `UnwoundCorrect`.
- **FooRefCountProofs** (`FooAssumption`: each thread holds each object at least once).
  `CountsReferences` is inductive only with the mutex (`Mutex`: its owner is the thread
  between lock and unlock) and the loaded count (`Loaded`: still the count when it is
  stored). `Zero` ties a count of 0 to the object being freed or about to be, by one
  thread, unless a hold came late. Results: `CountCorrect`, `LifetimeCorrect` and the
  action property `LateCorrect`, for any number of holds.
- **EpollServerProofs** (`ServerAssumption`). `IInv` names the descriptor of a client
  where `EventsFresh` counts, so that a close is seen to leave the client none (`Own`,
  `Known`); the event taken is the only one of its descriptor. Result: `FreshCorrect`.
  `BInv` follows the bytes: those not yet read are in the socket in order (`Pending`) and
  nowhere else (`Unread`), and one that was read is in one place (`Single`). Result:
  `OnceCorrect`. `Echoing` says that, as long as no two clients shared the buffer and no
  read filled it, one descriptor at most waits to be written (`OneOut`), the buffer holds
  its client's bytes (`Busy`) and nothing otherwise (`Idle`), and every client has got
  what was read from it, in order, but for what is in the buffer (`InOrder`, `Evened`). That `strlen` finds the first
  NUL is again the well-foundedness of the naturals. Result: `EchoCorrect`. All for any
  number of clients, descriptors and bytes.
- **EpollClientProofs** (`ClientAssumption`: a line is not empty, NUL is not what lies
  behind the buffer, and neither is a typed byte). `CInv` says that a byte is in
  one place once (`Apart`), that lines, or parts of a line, not yet read hold later bytes than
  everything read (`Queued`), without which a read could bring a byte a second time, and that
  an event is of what its descriptor is still registered for (`Events`). Of a user who waits
  for each answer and types no line longer than the buffer it says that the client does one
  thing at a time (`Turn`); that the typed bytes in the buffer, on their way back and on their
  way out are in order, each of these before the next, stand in front of the first NUL and
  have no gap below them (`Sequel`), whatever `strlen` adds; and, if the buffer was empty to
  begin with and no line fills it, that there is nothing between them (`InOrder`).
  Result: `EchoedCorrect`, for any size of the buffer, lines of any lengths and any number
  of bytes.
- **LockSortProofs**, about LockDeadlock and BarrierSort, two unrelated programs.
  `LockAssumption`: at least one character, and no process is
  `None`. `IInv` says which byte a process owns at each of its statements (`Owns`,
  `Unowned`), that a letter is in a pipe, or was read, once its writer has told (`Letters`),
  that it is not missing there unless the writer failed (`Told`), how the two processes of a run can have ended (`HowEnded`), and that no circle of
  byte waits is ever closed (`NoCircle`). Results: `RefusedCorrect`, and `HangCorrect`:
  who waits for ever waits for a peer that failed, or two of different runs do.
  `SortAssumption`: at least one thread and one number each, and every number below
  `LONG_MAX`, as what `random` returns is. `Result` compares the last state with one sort
  of the input; `SInv` says what is true on the way. The barrier has counted exactly those
  that came (`Counted`), so main merges only slices that are in order (`Ascending`); what
  merge has put is in order and goes before what is left (`Merged`). That no number is lost
  or doubled is stated by two bijections, from `nums` to the input (`Rearranged`) and from
  what merge has put to what it has taken (`Copied`): a step extends or composes them, where
  counting by value would need an induction. As the numbers taken and put are equally many,
  some slice has one left until the last step (`SomeLeft`), and `minidx` is never used
  unassigned. The last part is that an ascending rearrangement is unique
  (`SortedUnique`): the number at position k is the one with k numbers below it, ties counted by position.
  Result: `ResultCorrect`, for any number of threads, size of a slice and numbers.

Proved, but in no run of their own: type correctness, `MutualExclusion` of SemLock,
`ReadersSeeWholeQueue`, `RemoveDereferencesJobs` and `EmptyAtExit` of JobQueue, and
the inductive invariants.

**Only model-checked**: the liveness properties (`Termination`, `Ends`, `TermEnds`,
`WaitEnds`, `Served`, `Answered`, `DoneEnds`, `AllEnd`, `StreamEnds`), since the prover does
not reason about fairness and ENABLED. Every other property of a run has a theorem.

## 6. Not modelled

- `file_io`, `std_io`, `sys_info`, `mmap_demo.c`, most of `proc_demos`, two programs of
  `term_io`, `test_attr.c` and `timedlock.c`: one process or thread that prints what
  one call does. There is no state that two steps could disagree about.
- `sig_reenter.c` and `sigaltstack.c`: what `getpwnam` does when it is interrupted
  inside its own lists, and a stack overflow. The source does not define either.
- `getenv_thr.c` with `test_env.c`: a buffer per thread under one mutex, called by
  one thread. Nothing interleaves in the repository.
- The printing of signal sets (`signal_functions.h`, `signal_demo.c`, `signal_test.c`):
  formatting.
- Within modelled programs: usage messages, wording and logging, and the failures
  named in section 2.
- EpollServer composed with EpollClient over one connection. Each is checked against
  an environment that stands for the other program, as section 1 says.
