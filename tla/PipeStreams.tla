----------------------------- MODULE PipeStreams -----------------------------
(***************************************************************************)
(* The programs of directory IPC in which text goes from one process to    *)
(* another through a pipe or a fifo:                                       *)
(*   coprocess    sends each line to add2.c and prints its one answer      *)
(*   fifo_demo    the child writes lines, the parent reads them bytewise   *)
(*   pipe_pager   writes a file to a pager and waits for it                *)
(*   popen_pager  the same with popen and a buffered stream                *)
(*   pipe_filter  prints the lines that myuclc.c turns to lower case       *)
(* w is the process that takes the text and writes, r the one that reads   *)
(* the pipe.  Bytes are "A", "n" for a newline and "0" for a zero byte,    *)
(* at which strlen and fputs stop.  Either process may be killed at any    *)
(* time; the users of a pager leave it when they like.                     *)
(***************************************************************************)
EXTENDS Integers, Sequences, SequencesExt, FiniteSetsExt

CONSTANTS MAXLINE,   \* #define MAXLINE, of all the programs
          PIPE_BUF,  \* how much a pipe takes; no write is longer
          BUFSIZ,    \* the buffer of a stream
          MaxText    \* bound on the length of the text

ASSUME StreamAssumption ==
  {MAXLINE, PIPE_BUF, BUFSIZ, MaxText} \subseteq Nat /\ 1 < MAXLINE /\ MAXLINE - 1 <= BUFSIZ /\ BUFSIZ <= PIPE_BUF

Byte == {"A", "n", "0"}
Prog == {"coprocess", "fifo_demo", "pipe_pager", "popen_pager", "pipe_filter"}

VARIABLES
  prog,
  text, pos,     \* what there is to read, and how much of it w has read
  w, r,          \* the next statement of each process
  whow, rhow,    \* how each ended
  line, wbuf,    \* of w: the line to write, and its stream's buffer
  pipe, back,    \* the bytes to r, and the answers of add2 to w
  rbuf,          \* of r: the line or request it reads
  out,           \* what is printed at the end of the pipe; of coprocess, the answers
  asked          \* of coprocess: the requests written

source  == <<text, pos>>
writing == <<line, wbuf, asked>>
reading == <<rbuf, out>>
vars    == <<prog, source, w, r, whow, rhow, writing, pipe, back, reading>>

Init ==
  /\ prog \in Prog
  /\ text \in SeqOf(Byte, MaxText) /\ pos = 0
  /\ w = IF prog = "fifo_demo" THEN "open" ELSE "fgets"
  /\ r = CASE prog = "fifo_demo" -> "open" [] prog = "pipe_filter" -> "read" [] OTHER -> "exec"
  /\ whow = "running" /\ rhow = "running"
  /\ line = <<>> /\ wbuf = <<>> /\ pipe = <<>> /\ back = <<>> /\ rbuf = <<>>
  /\ out = <<>> /\ asked = <<>>
-----------------------------------------------------------------------------
(* What the programs are made of.                                          *)

W(p, from, to) == prog = p /\ w = from /\ w' = to /\ UNCHANGED <<prog, text, r, rhow, rbuf>>
R(p, from, to) == prog = p /\ r = from /\ r' = to /\ UNCHANGED <<prog, source, w, whow, writing>>
WEnds(p, from, why) == W(p, from, "ended") /\ whow' = why /\ UNCHANGED <<pos, writing, pipe, back, out>>
REnds(p, from, why) == R(p, from, "ended") /\ rhow' = why /\ UNCHANGED <<pipe, back, rbuf>>
Eof == pipe = <<>> /\ w \in {"waitpid", "ended"}

\* A string ends at its first zero byte.
String(s) == LET zeros == {k \in 1..Len(s) : s[k] = "0"}
             IN  IF zeros = {} THEN s ELSE SubSeq(s, 1, Min(zeros) - 1)

\* fgets reads to the newline, but no more than MAXLINE - 1 bytes.
LineEnd == Min({pos + MAXLINE - 1, Len(text)} \cup {k \in pos + 1..Len(text) : text[k] = "n"})
Fgets(p, to) ==
  /\ W(p, "fgets", to) /\ pos < Len(text)
  /\ pos' = LineEnd /\ line' = String(SubSeq(text, pos + 1, LineEnd))
  /\ UNCHANGED <<whow, wbuf, asked, pipe, back, out>>
NoMore(p, to) ==
  W(p, "fgets", to) /\ pos = Len(text) /\ UNCHANGED <<pos, whow, writing, pipe, back, out>>

\* write blocks until all fits; without a reader it raises SIGPIPE, unless there
\* is nothing to write.
Write(p, from, bytes, to) ==
  /\ Len(pipe) + Len(bytes) <= PIPE_BUF /\ (r # "ended" \/ bytes = <<>>)
  /\ W(p, from, to) /\ pipe' = pipe \o bytes
  /\ UNCHANGED <<pos, whow, back, out>>
Broken(p, from, bytes, why) == r = "ended" /\ bytes # <<>> /\ WEnds(p, from, why)
-----------------------------------------------------------------------------
(* coprocess, with sig_pipe, and add2.                                     *)

CoFgets  == Fgets("coprocess", "write")
CoDone   == pos = Len(text) /\ WEnds("coprocess", "fgets", "exit")
CoWriteTo(next) ==
  Write("coprocess", "write", line, next) /\ asked' = Append(asked, line) /\ UNCHANGED <<line, wbuf>>
BugCoWrite == CoWriteTo("fgets")
CoWrite    == CoWriteTo("read")
SigPipe    == Broken("coprocess", "write", line, "Caught_SIGPIPE")
\* One read takes what is there for the answer.
CoRead ==
  /\ back # <<>> /\ W("coprocess", "read", "fgets")
  /\ out' = Append(out, back) /\ back' = <<>>
  /\ UNCHANGED <<pos, whow, writing, pipe>>
CoClosed == back = <<>> /\ r = "ended" /\ WEnds("coprocess", "read", "child_closed_pipe")

\* dup2 or execl may fail.
CoExec ==
  \/ R("coprocess", "exec", "read") /\ UNCHANGED <<rhow, pipe, back, reading>>
  \/ REnds("coprocess", "exec", "exec_failed") /\ UNCHANGED out
AddRead ==
  /\ pipe # <<>> /\ R("coprocess", "read", "answer")
  /\ rbuf' = SubSeq(pipe, 1, Min({MAXLINE, Len(pipe)})) /\ pipe' = SubSeq(pipe, MAXLINE + 1, Len(pipe))
  /\ UNCHANGED <<rhow, back, out>>
\* The sum, or "invalid args", stands for the request it is made from.
AddAnswer ==
  \/ w # "ended" /\ R("coprocess", "answer", "read") /\ back' = Append(back, rbuf)
     /\ UNCHANGED <<rhow, pipe, reading>>
  \/ w = "ended" /\ REnds("coprocess", "answer", "SIGPIPE") /\ UNCHANGED out
AddDone == Eof /\ REnds("coprocess", "read", "exit") /\ UNCHANGED out
-----------------------------------------------------------------------------
(* fifo_demo: w is the child, r the parent.                                *)

\* Each open waits for the other.
FiOpen ==
  /\ prog = "fifo_demo" /\ w = "open" /\ r = "open" /\ w' = "fgets" /\ r' = "read"
  /\ UNCHANGED <<prog, source, whow, rhow, writing, pipe, back, reading>>
FiFgets == Fgets("fifo_demo", "write")
FiWrite == Write("fifo_demo", "write", line, "fgets") /\ UNCHANGED writing
FiPipe  == Broken("fifo_demo", "write", line, "SIGPIPE")
FiDone  == pos = Len(text) /\ WEnds("fifo_demo", "fgets", "exit")

\* readline takes one byte more than fits and drops it; a line that is complete, or
\* fills the buffer, is printed.
ReadlineOf(size) ==
  /\ pipe # <<>> /\ R("fifo_demo", "read", "read") /\ pipe' = Tail(pipe)
  /\ LET full == Len(rbuf) >= size - 1
         got  == IF full THEN rbuf ELSE Append(rbuf, Head(pipe))
     IN  IF full \/ Head(pipe) = "n" THEN out' = out \o got /\ rbuf' = <<>> ELSE rbuf' = got /\ UNCHANGED out
  /\ UNCHANGED <<rhow, back>>
BugReadline == ReadlineOf(MAXLINE - 1)
Readline    == ReadlineOf(MAXLINE)
\* At the end of the fifo readline returns NULL, whatever it has read of a line.
BugReadlineEnd == Eof /\ R("fifo_demo", "read", "read") /\ UNCHANGED <<rhow, pipe, back, reading>>
ReadlineEnd    == Eof /\ REnds("fifo_demo", "read", "exit") /\ UNCHANGED out
-----------------------------------------------------------------------------
(* pipe_pager and popen_pager: w is the parent.  The pager is external.    *)

PpFgets == Fgets("pipe_pager", "write")
PpWrite == Write("pipe_pager", "write", line, "fgets") /\ UNCHANGED writing
PpPipe  == Broken("pipe_pager", "write", line, "SIGPIPE")
PpClose == NoMore("pipe_pager", "waitpid")
PpWait  == r = "ended" /\ WEnds("pipe_pager", "waitpid", "exit")
PpExec ==
  \/ R("pipe_pager", "exec", "read") /\ UNCHANGED <<rhow, pipe, back, reading>>
  \/ REnds("pipe_pager", "exec", "exec_failed") /\ UNCHANGED out

\* fputs fills the stream's buffer, which is written when the next line has no
\* room in it and by pclose.
PoFgets == Fgets("popen_pager", "fputs")
PoFputs ==
  /\ Len(wbuf) + Len(line) <= BUFSIZ /\ W("popen_pager", "fputs", "fgets") /\ wbuf' = wbuf \o line
  /\ UNCHANGED <<pos, whow, line, asked, pipe, back, out>>
PoFlush(from, to) ==
  \/ Write("popen_pager", from, wbuf, to) /\ wbuf' = <<>> /\ UNCHANGED <<line, asked>>
  \/ Broken("popen_pager", from, wbuf, "SIGPIPE")
PoFull   == Len(wbuf) + Len(line) > BUFSIZ /\ PoFlush("fputs", "fputs")
PoDone   == NoMore("popen_pager", "pclose")
PoPclose == PoFlush("pclose", "waitpid")
PoWait   == r = "ended" /\ WEnds("popen_pager", "waitpid", "exit")
PoExec   == R("popen_pager", "exec", "read") /\ UNCHANGED <<rhow, pipe, back, reading>>

Pager(p) ==
  \/ pipe # <<>> /\ R(p, "read", "read") /\ out' = out \o pipe /\ pipe' = <<>> /\ UNCHANGED <<rhow, back, rbuf>>
  \/ Eof /\ REnds(p, "read", "exit") /\ UNCHANGED out
-----------------------------------------------------------------------------
(* pipe_filter: w is myuclc, r the parent.                                 *)

Lower(s) == [k \in DOMAIN s |-> IF s[k] = "A" THEN "a" ELSE s[k]]

\* One byte at a time into the stream's buffer, which a newline flushes.
McPutchar ==
  /\ pos < Len(text) /\ Len(wbuf) < BUFSIZ
  /\ W("pipe_filter", "fgets", IF text[pos + 1] = "n" THEN "fflush" ELSE "fgets")
  /\ pos' = pos + 1 /\ wbuf' = wbuf \o Lower(<<text[pos + 1]>>)
  /\ UNCHANGED <<whow, line, asked, pipe, back, out>>
McFlush(from, to) ==
  \/ Write("pipe_filter", from, wbuf, to) /\ wbuf' = <<>> /\ UNCHANGED <<line, asked>>
  \/ Broken("pipe_filter", from, wbuf, "SIGPIPE")
McFull   == pos < Len(text) /\ Len(wbuf) >= BUFSIZ /\ McFlush("fgets", "fgets")
McFflush == McFlush("fflush", "fgets")
McDone   == NoMore("pipe_filter", "exit")
McExit   == wbuf = <<>> /\ WEnds("pipe_filter", "exit", "exit")
McFinal  == wbuf # <<>> /\ McFlush("exit", "exit")

\* fgets from the stream of popen, and fputs.
PfLine ==
  /\ pipe # <<>> /\ R("pipe_filter", "read", "read") /\ pipe' = Tail(pipe)
  /\ LET got == Append(rbuf, Head(pipe))
     IN  IF Len(got) = MAXLINE - 1 \/ Head(pipe) = "n"
         THEN out' = out \o String(got) /\ rbuf' = <<>> ELSE rbuf' = got /\ UNCHANGED out
  /\ UNCHANGED <<rhow, back>>
PfDone ==
  /\ Eof /\ R("pipe_filter", "read", "ended") /\ rhow' = "exit"
  /\ out' = out \o String(rbuf) /\ rbuf' = <<>> /\ UNCHANGED <<pipe, back>>
-----------------------------------------------------------------------------
\* A signal kills a process, an error of its input or output ends it, or the user
\* leaves the pager.
Kill ==
  \/ /\ w # "ended" /\ w' = "ended" /\ whow' = "killed"
     /\ UNCHANGED <<prog, source, r, rhow, writing, pipe, back, reading>>
  \/ /\ r # "ended" /\ r' = "ended" /\ rhow' = "killed"
     /\ UNCHANGED <<prog, source, w, whow, writing, pipe, back, reading>>

WStep ==
  \/ CoFgets \/ CoDone \/ CoWrite \/ SigPipe \/ CoRead \/ CoClosed
  \/ FiFgets \/ FiWrite \/ FiPipe \/ FiDone
  \/ PpFgets \/ PpWrite \/ PpPipe \/ PpClose \/ PpWait
  \/ PoFgets \/ PoFputs \/ PoFull \/ PoDone \/ PoPclose \/ PoWait
  \/ McPutchar \/ McFull \/ McFflush \/ McDone \/ McExit \/ McFinal
RStep ==
  \/ CoExec \/ AddRead \/ AddAnswer \/ AddDone \/ FiOpen \/ Readline \/ ReadlineEnd
  \/ PpExec \/ PoExec \/ PfLine \/ PfDone
Next == WStep \/ RStep \/ Pager("pipe_pager") \/ Pager("popen_pager") \/ Kill
Spec == Init /\ [][Next]_vars /\ WF_vars(WStep) /\ WF_vars(RStep)
-----------------------------------------------------------------------------
TypeOK ==
  /\ prog \in Prog /\ text \in Seq(Byte) /\ pos \in 0..Len(text)
  /\ w \in {"open", "fgets", "write", "read", "fputs", "fflush", "pclose", "waitpid", "exit", "ended"}
  /\ r \in {"open", "exec", "read", "answer", "ended"}
  /\ whow \in {"running", "exit", "killed", "SIGPIPE", "Caught_SIGPIPE", "child_closed_pipe"}
  /\ rhow \in {"running", "exit", "killed", "SIGPIPE", "exec_failed"}
  /\ Len(line) < MAXLINE /\ Len(wbuf) <= BUFSIZ /\ Len(pipe) <= PIPE_BUF

\* What r prints is at any time a prefix of the text, in order and without gaps;
\* when w has ended normally it is all of it but what is still on the way, and in
\* fifo_demo a last line without a newline.  This needs a text without zero bytes
\* and, in fifo_demo, lines that fit readline's buffer together with their newline.
Zeroless == \A k \in 1..Len(text) : text[k] # "0"
Fits     == \A k \in 1..Len(text) - MAXLINE + 1 : \E j \in k..k + MAXLINE - 2 : text[j] = "n"
NothingLost ==
  TypeOK /\ (prog # "coprocess" /\ Zeroless /\ (prog = "fifo_demo" => Fits) =>
    LET through == out \o rbuf \o pipe
        all     == IF prog = "pipe_filter" THEN Lower(text) ELSE text
    IN  /\ IsPrefix(through, all)
        /\ whow = "exit" /\ rhow \in {"running", "exit"} => through = all
        /\ prog = "fifo_demo" /\ out # <<>> => Last(out) = "n")

\* coprocess: although each answer is taken with a single read, the k-th is the one
\* to the k-th request and whole, whatever the lines; and neither read fills its
\* buffer, so that line[n] = 0 stays inside it.
Paired ==
  prog = "coprocess" =>
    /\ Len(rbuf) < MAXLINE
    /\ Len(asked) <= Len(out) + 1 /\ \A k \in 1..Len(out) : out[k] = <<asked[k]>>

\* The processes end when the text does or the other ends.  The exceptions: coprocess
\* waits for ever for the answer to a line that begins with a zero byte, of which
\* nothing was sent; and the open of fifo_demo waits for a process that was killed.
Wedged ==
  \/ prog = "coprocess" /\ w = "read" /\ Last(asked) = <<>>
  \/ prog = "fifo_demo" /\ "open" \in {w, r} /\ "killed" \in {whow, rhow}
StreamEnds ==
  /\ r = "ended" ~> w = "ended" \/ Wedged
  /\ prog \notin {"pipe_pager", "popen_pager"} ~> (w = "ended" /\ r = "ended") \/ Wedged
=============================================================================
