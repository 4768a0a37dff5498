----------------------------- MODULE EpollClient -----------------------------
(***************************************************************************)
(* epoll_demo/epoll_cli.c: a client that reads lines from stdin, sends     *)
(* them to the server and shows the answers, through one epoll set and one *)
(* buffer.  EPOLL_CTL_ADD of a descriptor that is registered, and MOD or   *)
(* DEL of one that is not, change nothing, and nobody looks at the result. *)
(* stdin is a terminal, so that a read returns one line, or as much of it  *)
(* as buf holds; the server sends back what it gets, in pieces, and may    *)
(* close at any time.  A byte is named by its place in what the user types.*)
(***************************************************************************)
EXTENDS Integers, Sequences

CONSTANTS MAXSIZE,   \* the size of buf
          Length,    \* the lengths of lines
          MaxTyped,  \* bound on the bytes the user types
          NUL, Junk  \* Junk: what an uninitialised buffer holds

ASSUME ClientAssumption ==
  /\ MAXSIZE \in Nat \ {0} /\ Length \subseteq Nat \ {0} /\ MaxTyped \in Nat
  /\ NUL \notin 1..MaxTyped /\ Junk \notin 1..MaxTyped /\ NUL # Junk

Fd == {"stdin", "sock", "stdout"}

VARIABLES
  alive,
  reg,        \* the epoll set: what each descriptor is registered for, or "none"
  batch,      \* the events of the last epoll_wait not yet handled
  buf,
  typed,      \* how many bytes the user has typed
  lines,      \* the lines typed and not yet read
  toServer, toClient,   \* bytes on their way
  closed,     \* has the server closed?
  shown,      \* the bytes written to stdout
  eof,        \* has the user ended the input?
  hasty,      \* did the user type before the last line was answered?
  longest,    \* the length of the longest line typed
  split,      \* did an answer come, or was it read, in more than one piece?
  clean       \* was buf empty to begin with?

user  == <<typed, lines, eof, hasty, longest>>
vars  == <<alive, reg, batch, buf, user, split, closed, toServer, toClient, shown, clean>>

Occurs(b, s) == \E i \in DOMAIN s : s[i] = b

Smaller(a, b) == IF a < b THEN a ELSE b
Larger(a, b)  == IF a < b THEN b ELSE a

Clear == [i \in 1..MAXSIZE |-> NUL]

\* handle_connection: buf is not initialised, and may hold NULs or not.  A connect
\* that failed is a server that closed.
Init ==
  /\ alive \in BOOLEAN
  /\ reg = [f \in Fd |-> IF f = "stdin" THEN "in" ELSE "none"]
  /\ batch = {}
  /\ buf \in [1..MAXSIZE -> {NUL, Junk}] /\ clean = (buf = Clear)
  /\ typed = 0 /\ lines = <<>>
  /\ toServer = <<>> /\ toClient = <<>> /\ closed \in BOOLEAN
  /\ shown = <<>> /\ eof = FALSE /\ hasty = FALSE /\ longest = 0 /\ split = FALSE

\* The user, and the server at the other end.
Type(n) ==
  /\ alive /\ ~ eof /\ typed + n <= MaxTyped
  /\ lines' = Append(lines, [i \in 1..n |-> typed + i])
  /\ typed' = typed + n
  /\ hasty' = (hasty \/ (typed > 0 /\ ~ Occurs(typed, shown)))
  /\ longest' = Larger(n, longest)
  /\ UNCHANGED <<alive, reg, batch, buf, eof, split, closed, toServer, toClient, shown, clean>>

TypeEof ==
  /\ ~ eof
  /\ eof' = TRUE
  /\ UNCHANGED <<alive, reg, batch, buf, typed, lines, hasty, longest, split, closed,
                 toServer, toClient, shown, clean>>

Answer == \E n \in 1..Len(toServer) :
  /\ ~ closed
  /\ toClient' = toClient \o SubSeq(toServer, 1, n)
  /\ toServer' = SubSeq(toServer, n + 1, Len(toServer))
  /\ split' = (split \/ n < Len(toServer))
  /\ UNCHANGED <<alive, reg, batch, buf, user, closed, shown, clean>>

ServerCloses ==
  /\ ~ closed
  /\ closed' = TRUE
  /\ UNCHANGED <<alive, reg, batch, buf, user, split,
                 toServer, toClient, shown, clean>>

\* epoll_wait: an interrupted one returns -1, and the loop of handle_events
\* then runs over no event.
Ready ==
  {f \in Fd : \/ reg[f] = "out"
              \/ reg[f] = "in" /\ f = "stdin" /\ (lines # <<>> \/ eof)
              \/ reg[f] = "in" /\ f = "sock" /\ (toClient # <<>> \/ closed)}
EpollWait ==
  /\ alive /\ batch = {} /\ Ready # {}
  /\ batch' = {<<f, reg[f]>> : f \in Ready}
  /\ UNCHANGED <<alive, reg, buf, user, split, closed, toServer, toClient, shown, clean>>

Take(f, kind) == alive /\ <<f, kind>> \in batch /\ batch' = batch \ {<<f, kind>>}

\* add_event, modify_event and delete_event on the registrations r.
Add(r, f, kind)    == IF r[f] = "none" THEN [r EXCEPT ![f] = kind] ELSE r
Modify(r, f, kind) == IF r[f] = "none" THEN r ELSE [r EXCEPT ![f] = kind]
Delete(r, f)       == [r EXCEPT ![f] = "none"]

Fill(s) == [i \in 1..MAXSIZE |-> IF i <= Len(s) THEN s[i] ELSE buf[i]]

\* do_read on stdin: the line into buf, or as much of it as buf holds, and the socket
\* to be written.  The rest of the line stays in the terminal.
ReadStdin ==
  LET line == Head(lines)
      n    == Smaller(Len(line), MAXSIZE)
  IN  /\ Take("stdin", "in") /\ lines # <<>>
      /\ buf' = Fill(SubSeq(line, 1, n))
      /\ lines' = IF n = Len(line) THEN Tail(lines)
                  ELSE [lines EXCEPT ![1] = SubSeq(line, n + 1, Len(line))]
      /\ reg' = Add(reg, "sock", "out")
      /\ UNCHANGED <<alive, typed, eof, hasty, longest, split, closed, toServer, toClient, shown, clean>>

\* do_read on the socket: the socket leaves the set, stdout enters it.
ReadSock ==
  LET n == Smaller(Len(toClient), MAXSIZE)
  IN  /\ Take("sock", "in") /\ n > 0
      /\ buf' = Fill(SubSeq(toClient, 1, n))
      /\ toClient' = SubSeq(toClient, n + 1, Len(toClient))
      /\ reg' = Add(Delete(reg, "sock"), "stdout", "out")
      /\ split' = (split \/ n < Len(toClient))
      /\ UNCHANGED <<alive, user, closed, toServer, shown, clean>>

\* do_read at the end of stdin or of the connection, or an error: exit.
ReadEnds ==
  /\ \/ Take("sock", "in") /\ closed
     \/ Take("stdin", "in") /\ lines = <<>>   \* end of input
  /\ alive' = FALSE
  /\ UNCHANGED <<reg, buf, user, split, closed, toServer, toClient, shown, clean>>

\* The string in buf, up to its first NUL.  A full buffer is not followed by
\* one; strlen then may add Junk.
BugStrings == {buf}
Strings ==
  LET n == CHOOSE k \in 0..MAXSIZE : /\ \A i \in 1..k : buf[i] # NUL
                                     /\ k = MAXSIZE \/ buf[k + 1] = NUL
      s == [i \in 1..n |-> buf[i]]
  IN  IF n < MAXSIZE THEN {s} ELSE {s, Append(s, Junk)}

\* do_write on the socket, which then waits for the answer.
SendThen(after) ==
  /\ Take("sock", "out") /\ ~ closed
  /\ \E s \in Strings : toServer' = toServer \o s
  /\ reg' = after
  /\ buf' = Clear
  /\ UNCHANGED <<alive, user, split, closed, toClient, shown, clean>>
BugWriteSock == SendThen(reg)
WriteSock    == SendThen(Modify(reg, "sock", "in"))

\* The server has closed: the bytes are lost, or SIGPIPE or an error ends the
\* client.
WriteLost ==
  /\ Take("sock", "out") /\ closed
  /\ \/ alive' = FALSE /\ UNCHANGED <<reg, buf>>
     \/ alive' = TRUE /\ reg' = Modify(reg, "sock", "in") /\ buf' = Clear
  /\ UNCHANGED <<user, split, closed, toServer, toClient, shown, clean>>

\* do_write on stdout.
WriteStdout ==
  /\ Take("stdout", "out")
  /\ \E s \in Strings : shown' = shown \o s
  /\ reg' = Delete(reg, "stdout")
  /\ buf' = Clear
  /\ UNCHANGED <<alive, user, split, closed, toServer, toClient, clean>>

\* An error on stdout: exit.
ShowFails ==
  /\ Take("stdout", "out")
  /\ alive' = FALSE
  /\ UNCHANGED <<reg, buf, user, split, closed, toServer, toClient, shown, clean>>

Client == \/ EpollWait \/ ReadStdin \/ ReadSock \/ ReadEnds
          \/ WriteSock \/ WriteLost \/ WriteStdout \/ ShowFails
Next   == Client \/ TypeEof \/ Answer \/ ServerCloses \/ \E n \in Length : Type(n)
Spec   == Init /\ [][Next]_vars /\ WF_vars(Client) /\ WF_vars(Answer)
-----------------------------------------------------------------------------
TypeOK ==
  LET Byte == 1..MaxTyped \cup {Junk}
  IN  /\ reg \in [Fd -> {"none", "in", "out"}]
      /\ batch \subseteq Fd \X {"in", "out"}
      /\ buf \in [1..MAXSIZE -> Byte \cup {NUL}]
      /\ {alive, closed, eof, hasty, split, clean} \subseteq BOOLEAN
      /\ typed \in 0..MaxTyped /\ longest \in 0..MaxTyped /\ lines \in Seq(Seq(1..MaxTyped))
      /\ {toServer, toClient, shown} \subseteq Seq(Byte)

\* Waiting for an answer that will not come: the socket is registered for input,
\* nothing was sent, and the next line cannot register it for output.
Wedged == /\ reg["sock"] = "in" /\ ~ closed
          /\ toServer = <<>> /\ toClient = <<>> /\ <<"sock", "in">> \notin batch

\* A byte that was typed is in one place at most: in the buffer, on its way or
\* shown, so whatever the user's pace nothing is sent or shown twice.  A user who
\* waits for each answer before the next line, and whose lines are no longer than buf,
\* never finds the client wedged and sees every byte after all those typed before it,
\* whatever buf held to begin with and whatever strlen finds behind it.  If buf was
\* empty and no line fills it, they see nothing else.
Echoed ==
  /\ TypeOK
  /\ \A b \in 1..MaxTyped : \A s, t \in {<<"buf", buf>>, <<"out", toServer>>, <<"in", toClient>>,
                                        <<"shown", shown>>} :
       Occurs(b, s[2]) /\ Occurs(b, t[2]) => s = t
  /\ ~ hasty /\ longest <= MAXSIZE =>
       /\ ~ Wedged
       /\ \A i \in DOMAIN shown : shown[i] \in 1..MaxTyped =>
            \A b \in 1..shown[i] - 1 : \E j \in 1..i - 1 : shown[j] = b
       /\ clean /\ longest < MAXSIZE => shown = [i \in 1..Len(shown) |-> i]

\* A line that fits buf, typed in good time as those before it, is answered, unless an
\* end or an answer in pieces comes between.
Answered ==
  typed > 0 /\ ~ hasty /\ longest <= MAXSIZE
    ~> Occurs(typed, shown) \/ hasty \/ longest > MAXSIZE \/ split \/ closed \/ ~ alive
=============================================================================
