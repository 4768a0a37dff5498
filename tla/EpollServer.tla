----------------------------- MODULE EpollServer -----------------------------
(***************************************************************************)
(* epoll_demo/epoll_server.c: one thread that serves all clients through   *)
(* one epoll set and ONE buffer.  A connection is armed for input or for   *)
(* output; what is read from one stays in buf until the next write, of     *)
(* whichever connection.  Clients connect, send, close and reset at any    *)
(* time.  A byte is named by its sender and its position, so that its way  *)
(* can be followed; messages are text, without NUL.  Sockets have room for *)
(* what is written, and epoll_ctl, whose result is never looked at, works. *)
(***************************************************************************)
EXTENDS Integers, Sequences, FiniteSets

CONSTANTS Client,    \* the clients, each of one connection
          Fd,        \* the descriptors accept can return
          MAXSIZE,   \* the size of buf
          MaxBytes,  \* bound on the bytes a client sends
          None, NUL,
          Junk       \* what follows buf in memory

Byte == Client \X (1..MaxBytes)

ASSUME ServerAssumption == /\ MAXSIZE \in Nat \ {0} /\ MaxBytes \in Nat /\ Fd \subseteq Nat
                           /\ None \notin Client \cup Fd /\ NUL \notin Byte /\ Junk \notin Byte

Listen == [fd |-> None, kind |-> "in"]   \* the event of listenfd

VARIABLES
  alive,    \* does the server run?
  conn,     \* the client behind each open descriptor, or None
  armed,    \* the event each descriptor is registered for, or "none"
  batch,    \* the events of the last epoll_wait not yet handled
  buf,      \* the buffer of do_epoll
  state,    \* of a client: "new", "queued" for accept, "connected", "served"
  gone,     \* has a client closed ("fin") or reset ("rst") its end?
  sent,     \* how many bytes a client has sent
  inq,      \* the bytes of a client not yet read
  got,      \* the bytes each client was sent back
  overlap,  \* has a read met a buffer another connection was still to write?
  full      \* has a read filled buf to its last byte?

server  == <<conn, armed, batch, buf>>
clients == <<state, gone, sent>>
history == <<overlap, full>>
vars    == <<alive, server, clients, inq, got, history>>

Clear == [i \in 1..MAXSIZE |-> NUL]

\* After socket_bind and epoll_create; a failure of these ends the server.
Init ==
  /\ alive \in BOOLEAN
  /\ conn = [f \in Fd |-> None] /\ armed = [f \in Fd |-> "none"]
  /\ batch = {} /\ buf = Clear
  /\ state = [c \in Client |-> "new"] /\ gone = [c \in Client |-> "no"]
  /\ sent = [c \in Client |-> 0]
  /\ inq = [c \in Client |-> <<>>] /\ got = [c \in Client |-> <<>>]
  /\ overlap = FALSE /\ full = FALSE
-----------------------------------------------------------------------------
(* The clients.                                                            *)

Connect(c) ==
  /\ alive /\ state[c] = "new"
  /\ state' = [state EXCEPT ![c] = "queued"]
  /\ UNCHANGED <<alive, server, gone, sent, inq, got, history>>

Send(c) == \E n \in 1..MaxBytes - sent[c] :
  /\ state[c] \in {"queued", "connected"} /\ gone[c] = "no"
  /\ inq' = [inq EXCEPT ![c] = @ \o [i \in 1..n |-> <<c, sent[c] + i>>]]
  /\ sent' = [sent EXCEPT ![c] = @ + n]
  /\ UNCHANGED <<alive, server, state, gone, got, history>>

Leave(c, how) ==
  /\ state[c] \in {"queued", "connected"}
  /\ gone[c] = "no" \/ (gone[c] = "fin" /\ how = "rst")
  /\ gone' = [gone EXCEPT ![c] = how]
  /\ UNCHANGED <<alive, server, state, sent, inq, got, history>>
-----------------------------------------------------------------------------
(* The server.                                                             *)

Ready ==
  {[fd |-> f, kind |-> "in"]  : f \in {f \in Fd : armed[f] = "in"
                                   /\ (inq[conn[f]] # <<>> \/ gone[conn[f]] # "no")}}
  \cup {[fd |-> f, kind |-> "out"] : f \in {f \in Fd : armed[f] = "out"}}
  \cup {e \in {Listen} : \E c \in Client : state[c] = "queued"}

\* epoll_wait returns what is ready; an error ends the server.
EpollWait ==
  /\ alive /\ batch = {} /\ Ready # {}
  /\ batch' = Ready
  /\ UNCHANGED <<alive, conn, armed, buf, clients, inq, got, history>>

EpollFails ==
  /\ alive /\ batch = {}
  /\ alive' = FALSE
  /\ UNCHANGED <<server, clients, inq, got, history>>

\* The loop of handle_events.  Each event is handled once; their order is open.
Take(e) == alive /\ e \in batch /\ batch' = batch \ {e}

Add(f, kind) == armed' = [armed EXCEPT ![f] = kind]

\* accept and add_event: the lowest free descriptor, armed for input.
HandleAccept ==
  \E c \in Client, f \in Fd :
    /\ Take(Listen)
    /\ state[c] = "queued"
    /\ conn[f] = None /\ \A g \in Fd : conn[g] = None => f <= g
    /\ conn' = [conn EXCEPT ![f] = c]
    /\ Add(f, "in")
    /\ state' = [state EXCEPT ![c] = "connected"]
    /\ UNCHANGED <<alive, buf, gone, sent, inq, got, history>>

\* accept fails: a message, and the client stays in the queue.
AcceptFails ==
  /\ Take(Listen)
  /\ UNCHANGED <<alive, conn, armed, buf, clients, inq, got, history>>

\* close(fd) takes the descriptor out of the epoll set; the delete_event after
\* it then finds nothing.
BugClose(f) ==
  /\ armed' = [armed EXCEPT ![f] = "none"]
  /\ state' = [state EXCEPT ![conn[f]] = "served"]
  /\ UNCHANGED conn
Close(f) ==
  /\ conn' = [conn EXCEPT ![f] = None]
  /\ armed' = [armed EXCEPT ![f] = "none"]
  /\ state' = [state EXCEPT ![conn[f]] = "served"]

Rearm(f, kind) == armed' = [armed EXCEPT ![f] = kind] /\ UNCHANGED <<conn, state>>

\* do_read with data: buf gets the bytes at its front and keeps what it had
\* behind them.
DoRead(f) ==
  LET c == conn[f]
      n == IF Len(inq[c]) < MAXSIZE THEN Len(inq[c]) ELSE MAXSIZE
  IN  /\ Take([fd |-> f, kind |-> "in"])
      /\ n > 0
      /\ buf' = [i \in 1..MAXSIZE |-> IF i <= n THEN inq[c][i] ELSE buf[i]]
      /\ inq' = [inq EXCEPT ![c] = SubSeq(@, n + 1, Len(@))]
      /\ Rearm(f, "out")
      /\ overlap' = (overlap \/ \E g \in Fd : armed[g] = "out")
      /\ full' = (full \/ n = MAXSIZE)
      /\ UNCHANGED <<alive, gone, sent, got>>

\* do_read at the end of the stream or with an error: the connection is
\* closed.
ReadEnd(f) ==
  /\ Take([fd |-> f, kind |-> "in"])
  /\ gone[conn[f]] = "rst" \/ inq[conn[f]] = <<>>
DoReadEnd(f) ==
  /\ ReadEnd(f)
  /\ Close(f)
  /\ UNCHANGED <<alive, buf, gone, sent, inq, got, history>>

\* What write(fd, buf, strlen(buf)) sends: buf up to its first NUL.  A full
\* buffer has none, and strlen runs on into the memory behind it.
BugStrings == {buf}
Strings ==
  LET n == CHOOSE k \in 0..MAXSIZE : /\ \A i \in 1..k : buf[i] # NUL
                                     /\ k = MAXSIZE \/ buf[k + 1] = NUL
      s == [i \in 1..n |-> buf[i]]
  IN  IF n < MAXSIZE THEN {s} ELSE {s, Append(s, Junk)}

\* do_write: the string goes out, the connection is armed for input again and
\* buf is cleared.  A client that has closed answers the bytes by a reset.
WriteThen(f, next) == \E s \in Strings :
  /\ Take([fd |-> f, kind |-> "out"])
  /\ gone[conn[f]] # "rst"
  /\ got' = [got EXCEPT ![conn[f]] = @ \o s]
  /\ gone' = [gone EXCEPT ![conn[f]] = IF @ = "fin" /\ s # <<>> THEN "rst" ELSE @]
  /\ Rearm(f, next[1]) /\ buf' = next[2]
  /\ UNCHANGED <<alive, sent, inq, history>>
BugKeep(f)  == WriteThen(f, <<"in", buf>>)
BugStay(f)  == WriteThen(f, <<"out", Clear>>)
DoWrite(f)  == WriteThen(f, <<"in", Clear>>)

\* write to a connection that was reset: an error, and the connection is closed.
DoWriteError(f) ==
  /\ Take([fd |-> f, kind |-> "out"])
  /\ gone[conn[f]] = "rst"
  /\ Close(f) /\ buf' = Clear
  /\ UNCHANGED <<alive, gone, sent, inq, got, history>>

\* ... or SIGPIPE, which nobody catches, and the server ends.
SigPipe(f) ==
  /\ Take([fd |-> f, kind |-> "out"])
  /\ gone[conn[f]] = "rst"
  /\ alive' = FALSE
  /\ UNCHANGED <<conn, armed, buf, clients, inq, got, history>>

Handle == \/ HandleAccept \/ AcceptFails
          \/ \E f \in Fd : DoRead(f) \/ DoReadEnd(f) \/ DoWrite(f) \/ DoWriteError(f) \/ SigPipe(f)
Server == EpollWait \/ Handle
Env    == EpollFails \/ \E c \in Client : Connect(c) \/ Send(c) \/ \E h \in {"fin", "rst"} : Leave(c, h)
Next   == Server \/ Env
Spec   == Init /\ [][Next]_vars /\ WF_vars(Server)
-----------------------------------------------------------------------------
TypeOK ==
  /\ alive \in BOOLEAN
  /\ conn \in [Fd -> Client \cup {None}] /\ armed \in [Fd -> {"none", "in", "out"}]
  /\ batch \subseteq [fd : Fd, kind : {"in", "out"}] \cup {Listen}
  /\ buf \in [1..MAXSIZE -> Byte \cup {NUL}]
  /\ state \in [Client -> {"new", "queued", "connected", "served"}]
  /\ gone \in [Client -> {"no", "fin", "rst"}]
  /\ sent \in [Client -> 0..MaxBytes]
  /\ inq \in [Client -> Seq(Byte)] /\ got \in [Client -> Seq(Byte \cup {Junk})]
  /\ {overlap, full} \subseteq BOOLEAN

\* An event that waits to be handled is still the one its descriptor is armed
\* for, although earlier events of the batch may have closed connections and
\* given their descriptors to new ones; every connected client has one
\* descriptor, and every open descriptor is armed.
EventsFresh ==
  /\ \A e \in batch \ {Listen} : armed[e.fd] = e.kind
  /\ \A f \in Fd : conn[f] = None <=> armed[f] = "none"
  /\ \A c \in Client : (state[c] = "connected") <=> Cardinality({f \in Fd : conn[f] = c}) = 1

Times(b, s) == Cardinality({i \in DOMAIN s : s[i] = b})

\* A byte a client sent goes out once at most, to whomever: do_write clears what
\* it has written.
AtMostOnce ==
  TypeOK /\ \A b \in Byte : \A c, d \in Client :
    /\ Times(b, got[c]) + Times(b, buf) + Times(b, inq[b[1]]) <= 1
    /\ c # d => Times(b, got[c]) + Times(b, got[d]) <= 1

\* As long as no client's bytes are read while another's are still to be
\* written, and no read fills the buffer, each client gets back what it sent,
\* in order and complete, whenever its connection is back to input.
Echo ==
  ~ overlap /\ ~ full =>
    \A c \in Client :
      /\ got[c] = [i \in 1..Len(got[c]) |-> <<c, i>>]
      /\ \A f \in Fd : conn[f] = c /\ armed[f] = "in" => Len(got[c]) + Len(inq[c]) = sent[c]

\* What a connected client sent is read in the end, and the descriptor of a
\* client that has left is given back, while the server runs.
Served == \A c \in Client :
  /\ inq[c] # <<>> /\ state[c] = "connected" ~> inq[c] = <<>> \/ state[c] = "served" \/ ~ alive
  /\ gone[c] # "no" /\ state[c] = "connected" ~> state[c] = "served" \/ ~ alive
=============================================================================
