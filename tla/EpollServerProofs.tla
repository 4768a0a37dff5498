-------------------------- MODULE EpollServerProofs --------------------------
(***************************************************************************)
(* Proofs about the epoll server, for any number of clients and            *)
(* descriptors, any size of the buffer and any number of bytes: no event   *)
(* is stale when handle_events comes to it, no byte goes out twice, and    *)
(* what goes out is the echo as long as buf belongs to one client at a     *)
(* time and is never full.                                                 *)
(***************************************************************************)
EXTENDS EpollServer, FiniteSetTheorems, SequenceTheorems, WellFoundedInduction, TLAPS

\* The part of the state the proof is about.
Types ==
  /\ conn \in [Fd -> Client \cup {None}] /\ armed \in [Fd -> {"none", "in", "out"}]
  /\ state \in [Client -> {"new", "queued", "connected", "served"}]
  /\ \A e \in batch \ {Listen} : e.fd \in Fd /\ e = [fd |-> e.fd, kind |-> e.kind]

\* EventsFresh, with the descriptors of a client named rather than counted: what a
\* step needs to know is that no two of them belong to one client.
Fresh == \A e \in batch \ {Listen} : armed[e.fd] = e.kind /\ e.kind # "none"
Open  == \A f \in Fd : conn[f] = None <=> armed[f] = "none"
Own   == \A f, g \in Fd : conn[f] # None /\ conn[f] = conn[g] => f = g
Known == \A c \in Client : state[c] = "connected" <=> \E f \in Fd : conn[f] = c

IInv == Types /\ Fresh /\ Open /\ Own /\ Known
-----------------------------------------------------------------------------
\* None is neither a client nor a descriptor.
LEMMA NoneFacts ==
  None \notin Client /\ None \notin Fd
  BY ServerAssumption

\* Taking an event leaves the others, which are those of other descriptors.
LEMMA Taken ==
  ASSUME IInv, NEW f \in Fd, NEW k, Take([fd |-> f, kind |-> k])
  PROVE  /\ armed[f] = k /\ k # "none" /\ conn[f] \in Client
         /\ batch' \subseteq batch
         /\ \A e \in batch' \ {Listen} : e.fd \in Fd /\ e.fd # f /\ e \in batch \ {Listen}
  <1> DEFINE d == [fd |-> f, kind |-> k]
  <1>1. d \in batch /\ batch' = batch \ {d} BY DEF Take
  <1>2. d.fd = f /\ d.kind = k /\ d # Listen BY NoneFacts DEF Listen
  <1>3. armed[f] = k /\ k # "none" BY <1>1, <1>2 DEF IInv, Fresh
  <1>4. conn[f] \in Client BY <1>3 DEF IInv, Open, Types
  <1>5. ASSUME NEW e \in batch' \ {Listen} PROVE e.fd \in Fd /\ e.fd # f /\ e \in batch \ {Listen}
    <2>1. e \in batch \ {Listen} /\ e # d BY <1>1
    <2>2. e.fd \in Fd /\ e = [fd |-> e.fd, kind |-> e.kind] /\ armed[e.fd] = e.kind
      BY <2>1 DEF IInv, Types, Fresh
    <2> QED BY <1>3, <2>1, <2>2
  <1> QED BY <1>1, <1>3, <1>4, <1>5

\* A step that takes the event of f, and changes what is armed at f only, leaves no
\* stale event.
LEMMA TakeFresh ==
  ASSUME IInv, NEW f \in Fd, NEW k, Take([fd |-> f, kind |-> k]),
         \A g \in Fd : g # f => armed'[g] = armed[g]
  PROVE  /\ Fresh'
         /\ \A e \in batch' \ {Listen} : e.fd \in Fd /\ e = [fd |-> e.fd, kind |-> e.kind]
  <1>1. \A e \in batch' \ {Listen} : e.fd \in Fd /\ e.fd # f /\ e \in batch \ {Listen}
    BY Taken
  <1>2. \A e \in batch \ {Listen} : /\ armed[e.fd] = e.kind /\ e.kind # "none"
                                    /\ e = [fd |-> e.fd, kind |-> e.kind]
    BY DEF IInv, Fresh, Types
  <1> QED BY <1>1, <1>2 DEF Fresh

\* do_read and do_write arm their connection for the other direction,
LEMMA RearmStep ==
  ASSUME IInv, NEW f \in Fd, NEW k, NEW next \in {"in", "out"},
         Take([fd |-> f, kind |-> k]), Rearm(f, next)
  PROVE  IInv'
  <1>1. /\ armed'[f] = next /\ (\A g \in Fd : g # f => armed'[g] = armed[g])
        /\ armed' \in [Fd -> {"none", "in", "out"}] /\ conn' = conn /\ state' = state
    BY DEF IInv, Types, Rearm
  <1>2. Fresh' /\ \A e \in batch' \ {Listen} : e.fd \in Fd /\ e = [fd |-> e.fd, kind |-> e.kind]
    BY <1>1, TakeFresh
  <1>3. Types' BY <1>1, <1>2 DEF IInv, Types
  <1>4. Open'
    <2>1. conn[f] # None BY Taken, NoneFacts
    <2> QED BY <1>1, <2>1 DEF IInv, Open
  <1>5. Own' /\ Known' BY <1>1 DEF IInv, Own, Known
  <1> QED BY <1>2, <1>3, <1>4, <1>5 DEF IInv

\* or close it.
LEMMA CloseStep ==
  ASSUME IInv, NEW f \in Fd, NEW k, Take([fd |-> f, kind |-> k]), Close(f)
  PROVE  IInv'
  <1>0. conn[f] \in Client /\ None \notin Client BY Taken, NoneFacts
  <1>1. /\ armed'[f] = "none" /\ (\A g \in Fd : g # f => armed'[g] = armed[g])
        /\ armed' \in [Fd -> {"none", "in", "out"}]
    BY DEF IInv, Types, Close
  <1>2. /\ conn'[f] = None /\ (\A g \in Fd : g # f => conn'[g] = conn[g])
        /\ conn' \in [Fd -> Client \cup {None}]
    BY DEF IInv, Types, Close
  <1>3. /\ state'[conn[f]] = "served" /\ (\A c \in Client : c # conn[f] => state'[c] = state[c])
        /\ state' \in [Client -> {"new", "queued", "connected", "served"}]
    BY <1>0 DEF IInv, Types, Close
  <1>4. Fresh' /\ \A e \in batch' \ {Listen} : e.fd \in Fd /\ e = [fd |-> e.fd, kind |-> e.kind]
    BY <1>1, TakeFresh
  <1>5. Types' BY <1>1, <1>2, <1>3, <1>4 DEF Types
  <1>6. Open' BY <1>1, <1>2 DEF IInv, Open
  <1>7. Own' BY <1>2 DEF IInv, Own
  <1>8. Known'
    <2> SUFFICES ASSUME NEW c \in Client
                 PROVE  state'[c] = "connected" <=> \E g \in Fd : conn'[g] = c
      BY DEF Known
    <2>1. CASE c = conn[f]
      <3>1. ASSUME NEW g \in Fd, conn'[g] = c PROVE FALSE
        BY <1>0, <1>2, <2>1, <3>1 DEF IInv, Own
      <3> QED BY <1>3, <2>1, <3>1
    <2>2. CASE c # conn[f]
      <3>1. (\E g \in Fd : conn'[g] = c) <=> (\E g \in Fd : conn[g] = c)
        BY <1>0, <1>2, <2>2
      <3> QED BY <1>3, <2>2, <3>1 DEF IInv, Known
    <2> QED BY <2>1, <2>2
  <1> QED BY <1>4, <1>5, <1>6, <1>7, <1>8 DEF IInv

\* accept takes a descriptor that nothing in the batch is about.
LEMMA AcceptStep ==
  ASSUME IInv, HandleAccept
  PROVE  IInv'
  <1>1. PICK c \in Client, f \in Fd :
          /\ batch' = batch \ {Listen} /\ state[c] = "queued" /\ conn[f] = None
          /\ conn' = [conn EXCEPT ![f] = c] /\ armed' = [armed EXCEPT ![f] = "in"]
          /\ state' = [state EXCEPT ![c] = "connected"]
    BY Zenon DEF HandleAccept, Take, Add
  <1>2. /\ armed'[f] = "in" /\ (\A g \in Fd : g # f => armed'[g] = armed[g])
        /\ armed' \in [Fd -> {"none", "in", "out"}]
    BY <1>1 DEF IInv, Types
  <1>3. /\ conn'[f] = c /\ (\A g \in Fd : g # f => conn'[g] = conn[g])
        /\ conn' \in [Fd -> Client \cup {None}]
    BY <1>1 DEF IInv, Types
  <1>4. /\ state'[c] = "connected" /\ (\A d \in Client : d # c => state'[d] = state[d])
        /\ state' \in [Client -> {"new", "queued", "connected", "served"}]
    BY <1>1 DEF IInv, Types
  <1>5. \A g \in Fd : conn[g] # c BY <1>1 DEF IInv, Known
  <1>6. Types' BY <1>1, <1>2, <1>3, <1>4 DEF IInv, Types
  <1>7. Fresh'
    <2> SUFFICES ASSUME NEW e \in batch \ {Listen} PROVE armed'[e.fd] = e.kind /\ e.kind # "none"
      BY <1>1 DEF Fresh
    <2>1. armed[e.fd] = e.kind /\ e.kind # "none" /\ e.fd \in Fd BY DEF IInv, Fresh, Types
    <2>2. armed[f] = "none" BY <1>1 DEF IInv, Open
    <2> QED BY <1>2, <2>1, <2>2
  <1>8. Open' BY <1>2, <1>3, NoneFacts DEF IInv, Open
  <1>9. Own' BY <1>3, <1>5 DEF IInv, Own
  <1>10. Known'
    <2> SUFFICES ASSUME NEW d \in Client
                 PROVE  state'[d] = "connected" <=> \E g \in Fd : conn'[g] = d
      BY DEF Known
    <2>1. CASE d = c BY <1>3, <1>4, <2>1
    <2>2. CASE d # c
      <3>1. (\E g \in Fd : conn'[g] = d) <=> (\E g \in Fd : conn[g] = d)
        BY <1>1, <1>3, <2>2, NoneFacts
      <3> QED BY <1>4, <2>2, <3>1 DEF IInv, Known
    <2> QED BY <2>1, <2>2
  <1> QED BY <1>6, <1>7, <1>8, <1>9, <1>10 DEF IInv

\* epoll_wait returns only events that are armed.
LEMMA WaitStep ==
  ASSUME IInv, EpollWait
  PROVE  IInv'
  <1>1. batch' = Ready /\ UNCHANGED <<conn, armed, state>> BY DEF EpollWait, clients
  <1>2. \A e \in Ready \ {Listen} : /\ e.fd \in Fd /\ e = [fd |-> e.fd, kind |-> e.kind]
                                    /\ armed[e.fd] = e.kind /\ e.kind # "none"
    BY DEF Ready
  <1> QED BY <1>1, <1>2 DEF IInv, Types, Fresh, Open, Own, Known

\* A client that connects is not connected yet.
LEMMA ConnectStep ==
  ASSUME IInv, NEW c \in Client, Connect(c)
  PROVE  IInv'
  <1>1. /\ state[c] = "new" /\ state' = [state EXCEPT ![c] = "queued"]
        /\ UNCHANGED <<conn, armed, batch>>
    BY DEF Connect, server
  <1>2. /\ state'[c] = "queued" /\ (\A d \in Client : d # c => state'[d] = state[d])
        /\ state' \in [Client -> {"new", "queued", "connected", "served"}]
    BY <1>1 DEF IInv, Types
  <1>3. Known' BY <1>1, <1>2 DEF IInv, Known
  <1> QED BY <1>1, <1>2, <1>3 DEF IInv, Types, Fresh, Open, Own

\* Steps that touch neither connections nor, but for the event taken, the batch.
LEMMA OtherStep ==
  ASSUME IInv, UNCHANGED <<conn, armed, state>>, batch' \subseteq batch
  PROVE  IInv'
  BY DEF IInv, Types, Fresh, Open, Own, Known

\* The server starts with no connection.
LEMMA InitIInv ==
  Init => IInv
  BY NoneFacts DEF Init, IInv, Types, Fresh, Open, Own, Known

\* Every step of the server and of the clients keeps the invariant.
LEMMA StepIInv ==
  IInv /\ [Next]_vars => IInv'
  <1> SUFFICES ASSUME IInv, [Next]_vars PROVE IInv' OBVIOUS
  <1> USE DEF vars, server, clients, history
  <1>1. CASE EpollWait BY <1>1, WaitStep
  <1>2. CASE HandleAccept BY <1>2, AcceptStep
  <1>3. CASE AcceptFails BY <1>3, OtherStep DEF AcceptFails, Take
  <1>4. ASSUME NEW f \in Fd, DoRead(f) PROVE IInv'
    <2>1. Take([fd |-> f, kind |-> "in"]) /\ Rearm(f, "out") BY <1>4 DEF DoRead
    <2> QED BY <2>1, RearmStep
  <1>5. ASSUME NEW f \in Fd, DoReadEnd(f) PROVE IInv'
    BY <1>5, CloseStep DEF DoReadEnd, ReadEnd
  <1>6. ASSUME NEW f \in Fd, DoWrite(f) PROVE IInv'
    <2>1. Take([fd |-> f, kind |-> "out"]) /\ Rearm(f, "in") BY <1>6 DEF DoWrite, WriteThen
    <2> QED BY <2>1, RearmStep
  <1>7. ASSUME NEW f \in Fd, DoWriteError(f) PROVE IInv'
    BY <1>7, CloseStep DEF DoWriteError
  <1>8. ASSUME NEW f \in Fd, SigPipe(f) PROVE IInv'
    BY <1>8, OtherStep DEF SigPipe, Take
  <1>9. CASE EpollFails BY <1>9, OtherStep DEF EpollFails
  <1>10. ASSUME NEW c \in Client, Connect(c) PROVE IInv' BY <1>10, ConnectStep
  <1>11. ASSUME NEW c \in Client, Send(c) PROVE IInv' BY <1>11, OtherStep DEF Send
  <1>12. ASSUME NEW c \in Client, NEW h, Leave(c, h) PROVE IInv' BY <1>12, OtherStep DEF Leave
  <1>13. CASE UNCHANGED vars BY <1>13, OtherStep
  <1> QED BY <1>1, <1>2, <1>3, <1>4, <1>5, <1>6, <1>7, <1>8, <1>9, <1>10, <1>11, <1>12, <1>13
          DEF Next, Server, Env, Handle
-----------------------------------------------------------------------------
\* The inductive invariant holds in every state.
THEOREM Invariance == Spec => []IInv
  BY InitIInv, StepIInv, PTL DEF Spec

\* handle_events never acts on a stale event: a descriptor that an earlier event of the
\* batch closed, and a later accept took again, has no event left in the batch; and a
\* connected client has one descriptor, which is armed.
THEOREM FreshCorrect == Spec => []EventsFresh
  <1>1. ASSUME IInv PROVE EventsFresh
    <2>1. \A e \in batch \ {Listen} : armed[e.fd] = e.kind BY <1>1 DEF IInv, Fresh
    <2>2. \A f \in Fd : conn[f] = None <=> armed[f] = "none" BY <1>1 DEF IInv, Open
    <2>3. ASSUME NEW c \in Client
          PROVE  (state[c] = "connected") <=> Cardinality({f \in Fd : conn[f] = c}) = 1
      <3> DEFINE S == {f \in Fd : conn[f] = c}
      <3>1. CASE state[c] = "connected"
        <4>1. PICK f \in Fd : conn[f] = c BY <1>1, <3>1 DEF IInv, Known
        <4>2. S = {f} BY <1>1, <4>1, NoneFacts DEF IInv, Own
        <4> HIDE DEF S
        <4>3. Cardinality(S) = 1 BY <4>2, FS_Singleton
        <4> QED BY <3>1, <4>3 DEF S
      <3>2. CASE state[c] # "connected"
        <4>1. S = {} BY <1>1, <3>2 DEF IInv, Known
        <4> HIDE DEF S
        <4>2. Cardinality(S) = 0 BY <4>1, FS_EmptySet
        <4> QED BY <3>2, <4>2 DEF S
      <3> QED BY <3>1, <3>2
    <2> QED BY <2>1, <2>2, <2>3 DEF EventsFresh
  <1> QED BY <1>1, Invariance, PTL
-----------------------------------------------------------------------------
(***************************************************************************)
(* Where the bytes are.  Of what a client sent the first Read bytes have   *)
(* left its socket; Pending says that the socket holds the others, in      *)
(* order, Unread that buf and the clients know nothing of them yet, and    *)
(* Single that a byte that was read is in one place.                       *)
(***************************************************************************)
Read(c) == sent[c] - Len(inq[c])

Buffered(b)    == \E i \in 1..MAXSIZE : buf[i] = b
Returned(b, c) == \E i \in 1..Len(got[c]) : got[c][i] = b

Pending == \A c \in Client :
  /\ Len(inq[c]) <= sent[c]
  /\ \A i \in 1..Len(inq[c]) : inq[c][i] = <<c, Read(c) + i>>

Unread == \A c \in Client : \A k \in 1..MaxBytes :
  k > Read(c) => ~ Buffered(<<c, k>>) /\ \A d \in Client : ~ Returned(<<c, k>>, d)

Single == \A b \in Byte :
  /\ \A i, j \in 1..MAXSIZE : buf[i] = b /\ buf[j] = b => i = j
  /\ \A c, d \in Client : \A i \in 1..Len(got[c]), j \in 1..Len(got[d]) :
       got[c][i] = b /\ got[d][j] = b => c = d /\ i = j
  /\ Buffered(b) => \A c \in Client : ~ Returned(b, c)

BInv == TypeOK /\ Pending /\ Unread /\ Single

(***************************************************************************)
(* The echo.  Without an overlap one connection at most is to be written,  *)
(* and without a full read buf then holds what its client is to get next,  *)
(* and a NUL behind it; otherwise buf is clear and nothing is under way.   *)
(***************************************************************************)
Holds(c, m) ==
  /\ \A i \in 1..m : buf[i] = <<c, Len(got[c]) + i>>
  /\ \A i \in m + 1..MAXSIZE : buf[i] = NUL
  /\ Len(got[c]) + m = Read(c)

InOrder == \A c \in Client : \A i \in 1..Len(got[c]) : got[c][i] = <<c, i>>
OneOut  == \A f, g \in Fd : armed[f] = "out" /\ armed[g] = "out" => f = g
Idle    == (\A f \in Fd : armed[f] # "out") => buf = Clear
Busy    == \A f \in Fd : armed[f] = "out" => \E m \in 1..MAXSIZE - 1 : Holds(conn[f], m)
Even(c) == Len(got[c]) = Read(c)
Evened  == /\ \A f \in Fd : armed[f] = "in" => Even(conn[f])
           /\ \A c \in Client : state[c] \in {"new", "queued"} => Even(c)

Tidy    == InOrder /\ OneOut /\ Idle /\ Busy /\ Evened
Echoing == ~ overlap /\ ~ full => Tidy
-----------------------------------------------------------------------------
\* The first k, if any, that has a property: what CHOOSE in Strings finds.
LEMMA FirstNat ==
  ASSUME NEW T, T \subseteq Nat, T # {}
  PROVE  \E x \in T : \A y \in T : x <= y
<1> DEFINE R == OpToRel(<, Nat)
<1>1. \A x, y \in Nat : <<y, x>> \in R <=> y < x
  BY DEF OpToRel
<1>2. IsWellFoundedOn(R, Nat)
  BY NatLessThanWellFounded, Zenon
<1> HIDE DEF R
<1>3. PICK x \in T : \A y \in T : ~ (<<y, x>> \in R)
  BY <1>2, WFMin, Zenon
<1>4. ASSUME NEW y \in T PROVE x <= y
  <2>1. x \in Nat /\ y \in Nat /\ ~ (y < x)
    BY <1>1, <1>3, Zenon
  <2> QED BY <2>1
<1> QED BY <1>3, <1>4

\* What do_write sends is the front of buf, up to its first NUL, and perhaps a byte
\* from behind buf when buf is full.
LEMMA StringFacts ==
  ASSUME TypeOK, NEW s \in Strings
  PROVE  \E n \in 0..MAXSIZE :
           /\ \A i \in 1..n : buf[i] # NUL
           /\ n = MAXSIZE \/ buf[n + 1] = NUL
           /\ \/ s = [i \in 1..n |-> buf[i]]
              \/ n = MAXSIZE /\ s = Append([i \in 1..n |-> buf[i]], Junk)
<1> DEFINE P(k) == (\A i \in 1..k : buf[i] # NUL) /\ (k = MAXSIZE \/ buf[k + 1] = NUL)
           n == CHOOSE k \in 0..MAXSIZE : P(k)
           T == {k \in 0..MAXSIZE : k = MAXSIZE \/ buf[k + 1] = NUL}
<1>1. MAXSIZE \in Nat BY ServerAssumption
<1>2. \E k \in 0..MAXSIZE : P(k)
  <2>1. T \subseteq Nat /\ MAXSIZE \in T BY <1>1
  <2>2. PICK k \in T : \A y \in T : k <= y
    <3> HIDE DEF T
    <3> QED BY <2>1, FirstNat, Zenon
  <2>3. ASSUME NEW i \in 1..k, buf[i] = NUL PROVE FALSE
    <3>1. i - 1 \in 0..MAXSIZE /\ (i - 1) + 1 = i /\ i - 1 < k BY <1>1, <2>2
    <3>2. i - 1 \in T BY <2>3, <3>1
    <3> HIDE DEF T
    <3>3. k <= i - 1 BY <2>2, <3>2
    <3>4. k \in Nat /\ i \in Nat BY <2>1, <2>2
    <3> QED BY <3>1, <3>3, <3>4
  <2> QED BY <2>2, <2>3
<1>3. n \in 0..MAXSIZE /\ P(n)
  <2> HIDE DEF P
  <2> QED BY <1>2
<1>4. Strings = IF n < MAXSIZE THEN {[i \in 1..n |-> buf[i]]}
                ELSE {[i \in 1..n |-> buf[i]], Append([i \in 1..n |-> buf[i]], Junk)}
  BY DEF Strings
<1> HIDE DEF n
<1>5. n < MAXSIZE \/ n = MAXSIZE BY <1>1, <1>3
<1>6. \/ s = [i \in 1..n |-> buf[i]]
      \/ n = MAXSIZE /\ s = Append([i \in 1..n |-> buf[i]], Junk)
  BY <1>4, <1>5, Zenon
<1> QED BY <1>3, <1>6

\* A string is made of bytes that are in buf, at the places where they are there.
LEMMA StringBytes ==
  ASSUME TypeOK, NEW s \in Strings
  PROVE  /\ s \in Seq(Byte \cup {Junk})
         /\ \A i \in 1..Len(s) : s[i] # Junk => i \in 1..MAXSIZE /\ s[i] = buf[i]
<1>1. PICK n \in 0..MAXSIZE : /\ \A i \in 1..n : buf[i] # NUL
                              /\ \/ s = [i \in 1..n |-> buf[i]]
                                 \/ n = MAXSIZE /\ s = Append([i \in 1..n |-> buf[i]], Junk)
  BY StringFacts
<1> DEFINE t == [i \in 1..n |-> buf[i]]
<1>2. n \in Nat /\ \A i \in 1..n : i \in 1..MAXSIZE /\ buf[i] \in Byte
  <2>1. MAXSIZE \in Nat /\ n \in Nat /\ n <= MAXSIZE BY ServerAssumption
  <2>2. buf \in [1..MAXSIZE -> Byte \cup {NUL}] BY DEF TypeOK
  <2> QED BY <1>1, <2>1, <2>2
<1>3. t \in Seq(Byte \cup {Junk}) /\ Len(t) = n /\ \A i \in 1..n : t[i] = buf[i]
  BY <1>2
<1> HIDE DEF t
<1>4. CASE s = t BY <1>2, <1>3, <1>4
<1>5. CASE s = Append(t, Junk)
  <2>1. /\ s \in Seq(Byte \cup {Junk}) /\ Len(s) = n + 1 /\ s[n + 1] = Junk
        /\ \A i \in 1..n : s[i] = t[i]
    BY <1>2, <1>3, <1>5
  <2>2. ASSUME NEW i \in 1..Len(s), s[i] # Junk PROVE i \in 1..MAXSIZE /\ s[i] = buf[i]
    <3>1. i \in 1..n BY <1>2, <2>1, <2>2
    <3> QED BY <1>2, <1>3, <2>1, <3>1
  <2> QED BY <2>1, <2>2
<1> QED BY <1>1, <1>4, <1>5 DEF t

\* Nothing has been sent when the server begins.
LEMMA InitBInv == Init => BInv
<1> SUFFICES ASSUME Init PROVE BInv
  OBVIOUS
<1>1. TypeOK
  <2>1. {overlap, full} \subseteq BOOLEAN BY Zenon DEF Init
  <2>2. sent \in [Client -> 0..MaxBytes] BY ServerAssumption DEF Init
  <2> QED BY <2>1, <2>2 DEF Init, TypeOK, Clear
<1>2. \A c \in Client : inq[c] = <<>> /\ got[c] = <<>> /\ sent[c] = 0 BY DEF Init
<1>3. \A i \in 1..MAXSIZE : buf[i] = NUL BY DEF Init, Clear
<1>4. \A c \in Client, k \in 1..MaxBytes : <<c, k>> \in Byte BY DEF Byte
<1>5. Pending BY <1>2 DEF Pending
<1>6. Unread
  <2> SUFFICES ASSUME NEW c \in Client, NEW k \in 1..MaxBytes
               PROVE  ~ Buffered(<<c, k>>) /\ \A d \in Client : ~ Returned(<<c, k>>, d)
    BY Zenon DEF Unread
  <2>1. <<c, k>> # NUL BY <1>4, ServerAssumption
  <2>2. \A d \in Client : 1..Len(got[d]) = {} BY <1>2
  <2>3. ~ Buffered(<<c, k>>) BY <1>3, <2>1 DEF Buffered
  <2>4. \A d \in Client : ~ Returned(<<c, k>>, d) BY <2>2 DEF Returned
  <2> QED BY <2>3, <2>4
<1>7. Single BY <1>2, <1>3, ServerAssumption DEF Single, Buffered, Returned
<1> QED BY <1>1, <1>5, <1>6, <1>7 DEF BInv

\* A step of the server or of a client that moves no byte.
LEMMA StillBInv ==
  ASSUME BInv, TypeOK', UNCHANGED <<buf, inq, got, sent>>
  PROVE  BInv'
BY DEF BInv, Pending, Unread, Single, Read, Buffered, Returned

\* Every step keeps the types.
LEMMA ReadTypes ==
  ASSUME IInv, TypeOK, NEW f \in Fd, DoRead(f)
  PROVE  TypeOK'
<1> DEFINE c == conn[f]
           n == IF Len(inq[c]) < MAXSIZE THEN Len(inq[c]) ELSE MAXSIZE
<1>1. c \in Client /\ batch' \subseteq batch BY Taken DEF DoRead
<1>2. inq[c] \in Seq(Byte) /\ Len(inq[c]) \in Nat /\ MAXSIZE \in Nat BY <1>1, ServerAssumption DEF TypeOK
<1>3. n \in Nat /\ n <= Len(inq[c]) /\ n <= MAXSIZE BY <1>2
<1>4. /\ buf' = [i \in 1..MAXSIZE |-> IF i <= n THEN inq[c][i] ELSE buf[i]]
      /\ inq' = [inq EXCEPT ![c] = SubSeq(@, n + 1, Len(@))]
      /\ armed' = [armed EXCEPT ![f] = "out"]
      /\ UNCHANGED <<conn, state, alive, gone, sent, got>>
  BY DEF DoRead, Rearm
<1>5. overlap' \in BOOLEAN /\ full' \in BOOLEAN BY Zenon DEF DoRead
<1> HIDE DEF n, c
<1>6. buf' \in [1..MAXSIZE -> Byte \cup {NUL}]
  <2>1. \A i \in 1..MAXSIZE : buf[i] \in Byte \cup {NUL} BY Zenon DEF TypeOK
  <2>2. \A i \in 1..MAXSIZE : i <= n => inq[c][i] \in Byte BY <1>2, <1>3
  <2> QED BY <1>4, <2>1, <2>2
<1>7. inq' \in [Client -> Seq(Byte)]
  <2>1. SubSeq(inq[c], n + 1, Len(inq[c])) \in Seq(Byte) BY <1>2, <1>3
  <2> QED BY <1>1, <1>4, <2>1 DEF TypeOK
<1>8. armed' \in [Fd -> {"none", "in", "out"}] BY <1>4 DEF TypeOK
<1>9. {overlap', full'} \subseteq BOOLEAN BY <1>5, Zenon
<1> QED BY <1>1, <1>4, <1>6, <1>7, <1>8, <1>9 DEF TypeOK

\* do_write sends bytes of buf,
LEMMA WriteTypes ==
  ASSUME IInv, TypeOK, NEW f \in Fd, DoWrite(f)
  PROVE  TypeOK'
<1>1. PICK s \in Strings :
        /\ Take([fd |-> f, kind |-> "out"])
        /\ got' = [got EXCEPT ![conn[f]] = @ \o s]
        /\ gone' = [gone EXCEPT ![conn[f]] = IF @ = "fin" /\ s # <<>> THEN "rst" ELSE @]
        /\ armed' = [armed EXCEPT ![f] = "in"] /\ buf' = Clear
        /\ UNCHANGED <<conn, state, alive, sent, inq, history>>
  BY Zenon DEF DoWrite, WriteThen, Rearm
<1>2. conn[f] \in Client /\ batch' \subseteq batch BY <1>1, Taken
<1>3. got' \in [Client -> Seq(Byte \cup {Junk})]
  <2>1. s \in Seq(Byte \cup {Junk}) BY StringBytes
  <2>2. got[conn[f]] \o s \in Seq(Byte \cup {Junk}) BY <1>2, <2>1 DEF TypeOK
  <2> QED BY <1>1, <1>2, <2>2 DEF TypeOK
<1>4. buf' \in [1..MAXSIZE -> Byte \cup {NUL}] BY <1>1 DEF Clear
<1>5. gone' \in [Client -> {"no", "fin", "rst"}] BY <1>1, <1>2 DEF TypeOK
<1>6. armed' \in [Fd -> {"none", "in", "out"}] BY <1>1 DEF TypeOK
<1>7. {overlap', full'} \subseteq BOOLEAN BY <1>1, Zenon DEF history, TypeOK
<1> QED BY <1>1, <1>2, <1>3, <1>4, <1>5, <1>6, <1>7 DEF TypeOK

\* and a client sends bytes of its own.
LEMMA SendTypes ==
  ASSUME TypeOK, NEW c \in Client, Send(c)
  PROVE  TypeOK'
<1>1. PICK n \in 1..MaxBytes - sent[c] :
        /\ inq' = [inq EXCEPT ![c] = @ \o [i \in 1..n |-> <<c, sent[c] + i>>]]
        /\ sent' = [sent EXCEPT ![c] = @ + n]
        /\ UNCHANGED <<alive, server, state, gone, got, history>>
  BY Zenon DEF Send
<1>2. n \in Nat /\ sent[c] \in Nat /\ sent[c] + n <= MaxBytes /\ MaxBytes \in Nat BY ServerAssumption DEF TypeOK
<1>3. \A i \in 1..n : <<c, sent[c] + i>> \in Byte BY <1>2 DEF Byte
<1>4. inq[c] \o [i \in 1..n |-> <<c, sent[c] + i>>] \in Seq(Byte)
  <2>1. [i \in 1..n |-> <<c, sent[c] + i>>] \in Seq(Byte) BY <1>2, <1>3
  <2> QED BY <2>1 DEF TypeOK
<1>5. inq' \in [Client -> Seq(Byte)] BY <1>1, <1>4 DEF TypeOK
<1>6. sent' \in [Client -> 0..MaxBytes] BY <1>1, <1>2 DEF TypeOK
<1>7. {overlap', full'} \subseteq BOOLEAN BY <1>1, Zenon DEF history, TypeOK
<1> QED BY <1>1, <1>5, <1>6, <1>7 DEF TypeOK, server

\* epoll_wait returns events of descriptors and of listenfd.
LEMMA WaitTypes == TypeOK /\ EpollWait => TypeOK'
<1> SUFFICES ASSUME TypeOK, EpollWait PROVE TypeOK'
  OBVIOUS
<1>1. Ready \subseteq [fd : Fd, kind : {"in", "out"}] \cup {Listen} BY DEF Ready
<1>2. {overlap', full'} \subseteq BOOLEAN BY Zenon DEF EpollWait, history, TypeOK
<1> QED BY <1>1, <1>2 DEF TypeOK, EpollWait, clients

\* The steps that open, close and count.
LEMMA OtherTypes ==
  ASSUME IInv, TypeOK,
         \/ HandleAccept \/ AcceptFails \/ EpollFails \/ UNCHANGED vars
         \/ \E f \in Fd : DoReadEnd(f) \/ DoWriteError(f) \/ SigPipe(f)
         \/ \E c \in Client : Connect(c) \/ \E h \in {"fin", "rst"} : Leave(c, h)
  PROVE  TypeOK' /\ UNCHANGED <<inq, got, sent, overlap, full>> /\ (buf' = buf \/ buf' = Clear)
<1> USE DEF server, clients, history, vars
<1>1. {overlap, full} \subseteq BOOLEAN BY Zenon DEF TypeOK
<1>2. CASE HandleAccept
  BY <1>1, <1>2 DEF HandleAccept, Take, Add, TypeOK
<1>3. CASE AcceptFails \/ EpollFails \/ UNCHANGED vars
  <2>1. alive' \in BOOLEAN BY <1>3, Zenon DEF AcceptFails, EpollFails, TypeOK
  <2>2. batch' \subseteq batch /\ UNCHANGED <<conn, armed, buf, clients, inq, got, overlap, full>>
    BY <1>3 DEF AcceptFails, EpollFails, Take
  <2>3. TypeOK' BY <2>1, <2>2, Zenon DEF TypeOK
  <2>4. UNCHANGED <<inq, got, sent, overlap, full>> BY <2>2
  <2>5. buf' = buf BY <2>2
  <2> QED BY <2>3, <2>4, <2>5, Zenon
<1>4. ASSUME NEW f \in Fd, DoReadEnd(f) \/ DoWriteError(f)
      PROVE  TypeOK' /\ UNCHANGED <<inq, got, sent, overlap, full>> /\ (buf' = buf \/ buf' = Clear)
  <2>1. conn[f] \in Client /\ batch' \subseteq batch BY <1>4, Taken DEF DoReadEnd, ReadEnd, DoWriteError
  <2>2. UNCHANGED <<inq, got, sent, overlap, full>> /\ (buf' = buf \/ buf' = Clear)
    BY <1>4 DEF DoReadEnd, DoWriteError
  <2>3. UNCHANGED <<alive, gone>> BY <1>4 DEF DoReadEnd, DoWriteError
  <2>4. conn' \in [Fd -> Client \cup {None}] /\ armed' \in [Fd -> {"none", "in", "out"}]
    BY <1>4, Zenon DEF DoReadEnd, DoWriteError, Close, TypeOK
  <2>5. state' \in [Client -> {"new", "queued", "connected", "served"}]
    BY <1>4, <2>1 DEF DoReadEnd, DoWriteError, Close, TypeOK
  <2>6. buf' \in [1..MAXSIZE -> Byte \cup {NUL}] BY <2>2 DEF TypeOK, Clear
  <2>7. {overlap', full'} \subseteq BOOLEAN BY <1>1, <2>2, Zenon
  <2>8. TypeOK' BY <2>1, <2>2, <2>3, <2>4, <2>5, <2>6, <2>7 DEF TypeOK
  <2> QED BY <2>2, <2>8
<1>5. ASSUME NEW f \in Fd, SigPipe(f)
      PROVE  TypeOK' /\ UNCHANGED <<inq, got, sent, overlap, full>> /\ (buf' = buf \/ buf' = Clear)
  <2>1. alive' \in BOOLEAN BY <1>5, Zenon DEF SigPipe
  <2>2. batch' \subseteq batch /\ UNCHANGED <<conn, armed, buf, clients, inq, got, overlap, full>>
    BY <1>5 DEF SigPipe, Take
  <2>3. TypeOK' BY <2>1, <2>2, Zenon DEF TypeOK
  <2>4. UNCHANGED <<inq, got, sent, overlap, full>> BY <2>2
  <2>5. buf' = buf BY <2>2
  <2> QED BY <2>3, <2>4, <2>5, Zenon
<1>6. ASSUME NEW c \in Client, Connect(c) \/ \E h \in {"fin", "rst"} : Leave(c, h)
      PROVE  TypeOK' /\ UNCHANGED <<inq, got, sent, overlap, full>> /\ (buf' = buf \/ buf' = Clear)
  <2>1. UNCHANGED <<alive, server, inq, got, sent, overlap, full>> BY <1>6 DEF Connect, Leave
  <2>2. /\ state' \in [Client -> {"new", "queued", "connected", "served"}]
        /\ gone' \in [Client -> {"no", "fin", "rst"}]
    <3>1. CASE Connect(c) BY <3>1 DEF Connect, TypeOK
    <3>2. ASSUME NEW h \in {"fin", "rst"}, Leave(c, h)
          PROVE  UNCHANGED state /\ gone' \in [Client -> {"no", "fin", "rst"}]
      BY <3>2 DEF Leave, TypeOK
    <3> QED BY <1>6, <3>1, <3>2 DEF TypeOK
  <2>3. {overlap', full'} \subseteq BOOLEAN BY <1>1, <2>1, Zenon
  <2>4. TypeOK' BY <2>1, <2>2, <2>3 DEF TypeOK
  <2> QED BY <2>1, <2>4
<1> QED BY <1>2, <1>3, <1>4, <1>5, <1>6

\* The bytes of a client, in a form the provers can use.
LEMMA ByteFacts ==
  /\ \A c \in Client, k \in 1..MaxBytes : <<c, k>> \in Byte
  /\ \A b \in Byte : b = <<b[1], b[2]>> /\ b[1] \in Client /\ b[2] \in 1..MaxBytes
  /\ \A c, d, k, l : <<c, k>> = <<d, l>> => c = d /\ k = l
BY DEF Byte

\* A client that sends adds to its socket.
LEMMA SendBInv ==
  ASSUME BInv, NEW c \in Client, Send(c)
  PROVE  BInv' /\ \A d \in Client : Read(d)' = Read(d)
<1>1. TypeOK /\ TypeOK' BY SendTypes DEF BInv
<1>2. PICK n \in 1..MaxBytes - sent[c] :
        /\ inq' = [inq EXCEPT ![c] = @ \o [i \in 1..n |-> <<c, sent[c] + i>>]]
        /\ sent' = [sent EXCEPT ![c] = @ + n]
        /\ UNCHANGED <<alive, server, state, gone, got, history>>
  BY Zenon DEF Send
<1> DEFINE new == [i \in 1..n |-> <<c, sent[c] + i>>]
<1>3. n \in Nat /\ sent[c] \in Nat /\ inq[c] \in Seq(Byte) /\ Len(inq[c]) \in Nat
  BY <1>1, ServerAssumption DEF TypeOK
<1>4. /\ \A d \in Client : d # c => inq'[d] = inq[d] /\ sent'[d] = sent[d]
      /\ inq'[c] = inq[c] \o new /\ sent'[c] = sent[c] + n
  BY <1>1, <1>2 DEF TypeOK
<1>5. new \in Seq(Client \X Nat) /\ Len(new) = n /\ \A i \in 1..n : new[i] = <<c, sent[c] + i>>
  BY <1>3
<1> HIDE DEF new
<1>6. /\ Len(inq'[c]) = Len(inq[c]) + n
      /\ \A i \in 1..Len(inq[c]) + n : inq'[c][i] = IF i <= Len(inq[c]) THEN inq[c][i] ELSE new[i - Len(inq[c])]
  <2>1. inq[c] \in Seq(Client \X Nat)
    <3>1. Byte \subseteq Client \X Nat BY ServerAssumption DEF Byte
    <3> QED BY <1>3, <3>1
  <2>2. /\ Len(inq[c] \o new) = Len(inq[c]) + Len(new)
        /\ \A i \in 1..Len(inq[c]) + Len(new) :
             (inq[c] \o new)[i] = IF i <= Len(inq[c]) THEN inq[c][i] ELSE new[i - Len(inq[c])]
    BY <1>5, <2>1, ConcatProperties, ZenonT(30)
  <2> QED BY <1>4, <1>5, <2>2
<1>7. Read(c)' = Read(c) /\ Read(c) \in Int BY <1>3, <1>4, <1>6 DEF Read
<1>8. \A d \in Client : Read(d)' = Read(d) BY <1>4, <1>7, Zenon DEF Read
<1>9. Pending'
  <2> SUFFICES ASSUME NEW d \in Client
               PROVE  /\ Len(inq'[d]) <= sent'[d]
                      /\ \A i \in 1..Len(inq'[d]) : inq'[d][i] = <<d, Read(d)' + i>>
    BY DEF Pending
  <2>1. /\ Len(inq[d]) <= sent[d]
        /\ \A i \in 1..Len(inq[d]) : inq[d][i] = <<d, Read(d) + i>>
    BY DEF BInv, Pending
  <2>2. CASE d # c BY <1>4, <1>8, <2>1, <2>2
  <2>3. CASE d = c
    <3>1. Len(inq'[c]) <= sent'[c] BY <1>3, <1>4, <1>6, <2>1, <2>3
    <3>2. ASSUME NEW i \in 1..Len(inq'[c]) PROVE inq'[c][i] = <<c, Read(c) + i>>
      <4>1. CASE i <= Len(inq[c]) BY <1>3, <1>6, <2>1, <2>3, <4>1
      <4>2. CASE ~ (i <= Len(inq[c]))
        <5>1. i - Len(inq[c]) \in 1..n /\ sent[c] + (i - Len(inq[c])) = Read(c) + i
          BY <1>3, <1>6, <4>2 DEF Read
        <5>2. inq'[c][i] = new[i - Len(inq[c])] BY <1>6, <4>2
        <5> QED BY <1>5, <5>1, <5>2
      <4> QED BY <4>1, <4>2
    <3> QED BY <1>7, <2>3, <3>1, <3>2
  <2> QED BY <2>2, <2>3
<1>10. UNCHANGED <<buf, got>> BY <1>2 DEF server
<1>11. Unread' /\ Single' BY <1>8, <1>10 DEF BInv, Unread, Single, Buffered, Returned
<1> QED BY <1>1, <1>8, <1>9, <1>11 DEF BInv

\* What do_read takes from the socket of c, and what it leaves there.
LEMMA ReadMoves ==
  ASSUME IInv, BInv, NEW f \in Fd, DoRead(f),
         NEW c, c = conn[f], NEW n, n = IF Len(inq[c]) < MAXSIZE THEN Len(inq[c]) ELSE MAXSIZE
  PROVE  /\ c \in Client /\ n \in 1..MAXSIZE /\ n <= Len(inq[c]) /\ Read(c) \in Nat
         /\ \A i \in 1..n : buf'[i] = <<c, Read(c) + i>>
         /\ \A i \in n + 1..MAXSIZE : buf'[i] = buf[i]
         /\ \A d \in Client : d # c => Read(d)' = Read(d) /\ inq'[d] = inq[d]
         /\ Read(c)' = Read(c) + n /\ Pending'
         /\ UNCHANGED <<got, sent, conn, state>>
<1>1. TypeOK /\ c \in Client BY Taken DEF DoRead, BInv
<1>2. /\ inq[c] \in Seq(Byte) /\ Len(inq[c]) \in Nat /\ MAXSIZE \in Nat /\ sent[c] \in Nat
      /\ Len(inq[c]) <= sent[c] /\ \A i \in 1..Len(inq[c]) : inq[c][i] = <<c, Read(c) + i>>
  BY <1>1, ServerAssumption DEF TypeOK, BInv, Pending
<1>3. /\ n > 0
      /\ buf' = [i \in 1..MAXSIZE |-> IF i <= n THEN inq[c][i] ELSE buf[i]]
      /\ inq' = [inq EXCEPT ![c] = SubSeq(@, n + 1, Len(@))]
      /\ UNCHANGED <<got, sent, conn, state>>
  BY DEF DoRead, Rearm
<1>4. n \in 1..MAXSIZE /\ n <= Len(inq[c]) /\ Read(c) \in Nat
  <2> DEFINE m == Len(inq[c])
  <2>1. m \in Nat /\ MAXSIZE \in Nat /\ sent[c] \in Nat /\ m <= sent[c] BY <1>2
  <2>2. n > 0 /\ n = IF m < MAXSIZE THEN m ELSE MAXSIZE BY <1>3
  <2>3. Read(c) = sent[c] - m BY DEF Read
  <2> HIDE DEF m
  <2>4. n \in 1..MAXSIZE /\ n <= m BY <2>1, <2>2
  <2>5. Read(c) \in Nat BY <2>1, <2>3
  <2> QED BY <2>4, <2>5 DEF m
<1>5. /\ \A d \in Client : d # c => inq'[d] = inq[d]
      /\ inq'[c] = SubSeq(inq[c], n + 1, Len(inq[c]))
  BY <1>1, <1>3, Zenon DEF TypeOK
<1>6. /\ Len(inq'[c]) = Len(inq[c]) - n
      /\ \A i \in 1..Len(inq[c]) - n : inq'[c][i] = inq[c][n + i]
  <2>1. /\ Len(SubSeq(inq[c], n + 1, Len(inq[c]))) = Len(inq[c]) - n
        /\ \A i \in 1..Len(inq[c]) - n : SubSeq(inq[c], n + 1, Len(inq[c]))[i] = inq[c][n + i]
    <3> DEFINE m == Len(inq[c])
    <3>1. n + 1 \in Int /\ m \in Int /\ \A i \in n + 1..m : inq[c][i] \in Byte BY <1>2, <1>4
    <3>2. /\ Len(SubSeq(inq[c], n + 1, m)) = IF n + 1 <= m THEN m - (n + 1) + 1 ELSE 0
          /\ \A i \in 1..m - (n + 1) + 1 : SubSeq(inq[c], n + 1, m)[i] = inq[c][(n + 1) + i - 1]
      BY <3>1, SubSeqProperties
    <3>a. n \in Nat /\ m \in Nat /\ n <= m BY <1>2, <1>4
    <3> HIDE DEF m
    <3>3. m - (n + 1) + 1 = m - n /\ \A i \in 1..m - n : (n + 1) + i - 1 = n + i BY <3>a
    <3>4. (IF n + 1 <= m THEN m - (n + 1) + 1 ELSE 0) = m - n BY <3>a
    <3>5. \A i \in 1..m - n : SubSeq(inq[c], n + 1, m)[i] = inq[c][n + i]
      <4> SUFFICES ASSUME NEW i \in 1..m - n PROVE SubSeq(inq[c], n + 1, m)[i] = inq[c][n + i]
        BY Zenon
      <4>1. SubSeq(inq[c], n + 1, m)[i] = inq[c][(n + 1) + i - 1] BY <3>2, <3>3, Zenon
      <4>2. (n + 1) + i - 1 = n + i BY <3>3
      <4> QED BY <4>1, <4>2, Zenon
    <3> QED BY <3>2, <3>4, <3>5, Zenon DEF m
  <2> QED BY <1>5, <2>1, Zenon
<1>7. Read(c)' = Read(c) + n
  <2>1. Read(c)' = sent[c] - (Len(inq[c]) - n) /\ Read(c) = sent[c] - Len(inq[c]) BY <1>3, <1>6, Zenon DEF Read
  <2>2. sent[c] \in Nat /\ Len(inq[c]) \in Nat /\ n \in Nat BY <1>2, <1>4
  <2> QED BY <2>1, <2>2
<1>8. \A d \in Client : d # c => Read(d)' = Read(d) BY <1>3, <1>5 DEF Read
<1>9. /\ \A i \in 1..n : buf'[i] = <<c, Read(c) + i>>
      /\ \A i \in n + 1..MAXSIZE : buf'[i] = buf[i]
  <2>1. \A i \in 1..n : buf'[i] = inq[c][i] BY <1>2, <1>3, <1>4
  <2>2. \A i \in 1..n : inq[c][i] = <<c, Read(c) + i>> BY <1>2, <1>4
  <2>3. \A i \in n + 1..MAXSIZE : buf'[i] = buf[i] BY <1>2, <1>3, <1>4
  <2> QED BY <2>1, <2>2, <2>3
<1>10. Pending'
  <2> SUFFICES ASSUME NEW d \in Client
               PROVE  /\ Len(inq'[d]) <= sent'[d]
                      /\ \A i \in 1..Len(inq'[d]) : inq'[d][i] = <<d, Read(d)' + i>>
    BY DEF Pending
  <2>1. CASE d # c BY <1>3, <1>5, <1>8, <2>1 DEF BInv, Pending
  <2>2. CASE d = c
    <3>1. Len(inq'[c]) <= sent'[c]
      <4>1. Len(inq'[c]) = Len(inq[c]) - n /\ sent'[c] = sent[c] /\ n \in Nat BY <1>2, <1>3, <1>4, <1>6, Zenon
      <4>2. Len(inq[c]) \in Nat /\ sent[c] \in Nat /\ Len(inq[c]) <= sent[c] BY <1>2
      <4> QED BY <4>1, <4>2
    <3>2. ASSUME NEW i \in 1..Len(inq'[c]) PROVE inq'[c][i] = <<c, (Read(c) + n) + i>>
      <4> DEFINE m == Len(inq[c])
                 r == Read(c)
      <4>1. i \in 1..m - n BY <1>6, Zenon
      <4>2. n \in Nat /\ r \in Nat BY <1>4
      <4>3. m \in Nat BY <1>2
      <4> HIDE DEF m, r
      <4>4. n + i \in 1..m /\ r + (n + i) = (r + n) + i BY <4>1, <4>2, <4>3
      <4> QED BY <1>2, <1>6, <4>1, <4>4, Zenon DEF m, r
    <3> QED BY <1>7, <2>2, <3>1, <3>2
  <2> QED BY <2>1, <2>2
<1> QED BY <1>1, <1>3, <1>4, <1>5, <1>7, <1>8, <1>9, <1>10, Zenon

\* do_read moves bytes that nobody had seen into buf.
LEMMA ReadBInv ==
  ASSUME IInv, BInv, NEW f \in Fd, DoRead(f)
  PROVE  BInv'
<1>a. PICK c : c = conn[f] OBVIOUS
<1>b. PICK n : n = IF Len(inq[c]) < MAXSIZE THEN Len(inq[c]) ELSE MAXSIZE OBVIOUS
<1>1. /\ c \in Client /\ n \in 1..MAXSIZE /\ n <= Len(inq[c]) /\ Read(c) \in Nat
      /\ \A i \in 1..n : buf'[i] = <<c, Read(c) + i>>
      /\ \A i \in n + 1..MAXSIZE : buf'[i] = buf[i]
      /\ \A d \in Client : d # c => Read(d)' = Read(d) /\ inq'[d] = inq[d]
      /\ Read(c)' = Read(c) + n /\ Pending'
      /\ UNCHANGED <<got, sent, conn, state>>
  BY <1>a, <1>b, ReadMoves
<1>2. TypeOK' BY ReadTypes DEF BInv
<1>3. MAXSIZE \in Nat /\ MaxBytes \in Nat /\ n \in Nat BY <1>1, ServerAssumption
<1>4. \A i \in 1..n : Read(c) + i \in 1..MaxBytes /\ Read(c) + i > Read(c)
  <2>1. sent[c] \in 0..MaxBytes /\ Len(inq[c]) \in Nat BY <1>1 DEF BInv, TypeOK
  <2>2. Read(c) = sent[c] - Len(inq[c]) /\ n <= Len(inq[c]) /\ Read(c) \in Nat BY <1>1 DEF Read
  <2> QED BY <1>3, <2>1, <2>2
<1>5. \A i \in 1..n : ~ Buffered(<<c, Read(c) + i>>) /\ \A d \in Client : ~ Returned(<<c, Read(c) + i>>, d)
  BY <1>1, <1>4 DEF BInv, Unread
<1>6. Unread'
  <2> SUFFICES ASSUME NEW d \in Client, NEW k \in 1..MaxBytes, k > Read(d)'
               PROVE  Buffered(<<d, k>>)' = FALSE /\ \A e \in Client : Returned(<<d, k>>, e)' = FALSE
    BY Zenon DEF Unread
  <2>1. k > Read(d) BY <1>1, <1>3
  <2>2. ~ Buffered(<<d, k>>) /\ \A e \in Client : ~ Returned(<<d, k>>, e) BY <2>1 DEF BInv, Unread
  <2>3. ASSUME NEW i \in 1..MAXSIZE, buf'[i] = <<d, k>> PROVE FALSE
    <3>1. i \in 1..n
      <4>1. CASE ~ (i <= n)
        <5>1. buf[i] = <<d, k>> BY <1>1, <1>3, <2>3, <4>1
        <5> QED BY <2>2, <5>1 DEF Buffered
      <4> QED BY <1>3, <4>1
    <3>2. d = c /\ k = Read(c) + i
      <4>1. <<d, k>> = <<c, Read(c) + i>> BY <1>1, <2>3, <3>1
      <4> QED BY <4>1
    <3> QED BY <1>1, <1>3, <3>1, <3>2
  <2> QED BY <1>1, <2>2, <2>3 DEF Buffered, Returned
<1>7. Single'
  <2> SUFFICES ASSUME NEW b \in Byte
               PROVE  /\ \A i, j \in 1..MAXSIZE : buf'[i] = b /\ buf'[j] = b => i = j
                      /\ \A e, d \in Client : \A i \in 1..Len(got'[e]), j \in 1..Len(got'[d]) :
                           got'[e][i] = b /\ got'[d][j] = b => e = d /\ i = j
                      /\ Buffered(b)' => \A d \in Client : ~ Returned(b, d)'
    BY DEF Single
  <2>0. /\ \A i, j \in 1..MAXSIZE : buf[i] = b /\ buf[j] = b => i = j
        /\ Buffered(b) => \A d \in Client : ~ Returned(b, d)
    BY DEF BInv, Single
  <2>1. ASSUME NEW i \in 1..MAXSIZE, NEW j \in 1..MAXSIZE, buf'[i] = b, buf'[j] = b PROVE i = j
    <3>1. CASE i <= n /\ j <= n
      <4>0. i \in 1..n /\ j \in 1..n BY <1>3, <3>1
      <4>1. b = <<c, Read(c) + i>> /\ b = <<c, Read(c) + j>> BY <1>1, <2>1, <4>0, Zenon
      <4>2. Read(c) + i = Read(c) + j BY <4>1
      <4> QED BY <1>1, <4>2
    <3>2. CASE i <= n /\ ~ (j <= n)
      <4>0. i \in 1..n /\ j \in n + 1..MAXSIZE BY <1>3, <3>2
      <4>1. b = <<c, Read(c) + i>> /\ buf[j] = b BY <1>1, <2>1, <4>0, Zenon
      <4> QED BY <1>5, <4>0, <4>1 DEF Buffered
    <3>3. CASE ~ (i <= n) /\ j <= n
      <4>0. j \in 1..n /\ i \in n + 1..MAXSIZE BY <1>3, <3>3
      <4>1. b = <<c, Read(c) + j>> /\ buf[i] = b BY <1>1, <2>1, <4>0, Zenon
      <4> QED BY <1>5, <4>0, <4>1 DEF Buffered
    <3>4. CASE ~ (i <= n) /\ ~ (j <= n) BY <1>1, <2>0, <2>1, <3>4
    <3> QED BY <3>1, <3>2, <3>3, <3>4
  <2>2. ASSUME NEW i \in 1..MAXSIZE, buf'[i] = b, NEW d \in Client, Returned(b, d) PROVE FALSE
    <3>1. CASE i <= n
      <4>0. i \in 1..n BY <1>3, <3>1
      <4>1. b = <<c, Read(c) + i>> BY <1>1, <2>2, <4>0, Zenon
      <4> QED BY <1>5, <2>2, <4>0, <4>1
    <3>2. CASE ~ (i <= n) BY <1>1, <2>0, <2>2, <3>2 DEF Buffered
    <3> QED BY <3>1, <3>2
  <2>3. got' = got BY <1>1
  <2>4. \A e, d \in Client : \A i \in 1..Len(got[e]), j \in 1..Len(got[d]) :
          got[e][i] = b /\ got[d][j] = b => e = d /\ i = j
    BY DEF BInv, Single
  <2>5. Buffered(b)' => \A d \in Client : ~ Returned(b, d)' BY <2>2, <2>3 DEF Buffered, Returned
  <2> QED BY <2>1, <2>3, <2>4, <2>5
<1> QED BY <1>1, <1>2, <1>6, <1>7 DEF BInv

\* do_write sends s to c, the client behind f.
Wrote(f, c, s) ==
  /\ c \in Client /\ s \in Seq(Byte \cup {Junk}) /\ got[c] \in Seq(Byte \cup {Junk})
  /\ \A d \in Client : d # c => got'[d] = got[d]
  /\ Len(got'[c]) = Len(got[c]) + Len(s)
  /\ \A i \in 1..Len(got[c]) : got'[c][i] = got[c][i]
  /\ \A i \in Len(got[c]) + 1..Len(got[c]) + Len(s) : got'[c][i] = s[i - Len(got[c])]
  /\ buf' = Clear /\ armed' = [armed EXCEPT ![f] = "in"]
  /\ UNCHANGED <<conn, state, sent, inq, overlap, full>>

\* do_write moves bytes of buf to the client behind f; none of them stays in buf.
LEMMA WriteMoves ==
  ASSUME IInv, TypeOK, NEW f \in Fd, DoWrite(f), NEW c, c = conn[f]
  PROVE  \E s \in Strings : Wrote(f, c, s)
<1>1. PICK s \in Strings :
        /\ Take([fd |-> f, kind |-> "out"])
        /\ got' = [got EXCEPT ![conn[f]] = @ \o s]
        /\ armed' = [armed EXCEPT ![f] = "in"] /\ buf' = Clear
        /\ UNCHANGED <<conn, state, sent, inq, overlap, full>>
  BY Zenon DEF DoWrite, WriteThen, Rearm, history
<1>2. c \in Client BY <1>1, Taken
<1>3. s \in Seq(Byte \cup {Junk}) /\ got[c] \in Seq(Byte \cup {Junk}) BY <1>2, StringBytes DEF TypeOK
<1>4. /\ \A d \in Client : d # c => got'[d] = got[d]
      /\ got'[c] = got[c] \o s
  BY <1>1, <1>2 DEF TypeOK
<1>5. /\ Len(got[c] \o s) = Len(got[c]) + Len(s)
      /\ \A i \in 1..Len(got[c]) + Len(s) :
           (got[c] \o s)[i] = IF i <= Len(got[c]) THEN got[c][i] ELSE s[i - Len(got[c])]
  BY <1>3, ConcatProperties
<1>6. Len(got[c]) \in Nat /\ Len(s) \in Nat BY <1>3
<1>7. \A i \in 1..Len(got[c]) : got'[c][i] = got[c][i] BY <1>4, <1>5, <1>6
<1>8. \A i \in Len(got[c]) + 1..Len(got[c]) + Len(s) : got'[c][i] = s[i - Len(got[c])]
  BY <1>4, <1>5, <1>6
<1>9. Len(got'[c]) = Len(got[c]) + Len(s) BY <1>4, <1>5
<1>10. /\ s \in Strings /\ buf' = Clear /\ armed' = [armed EXCEPT ![f] = "in"]
       /\ UNCHANGED <<conn, state, sent, inq, overlap, full>>
       /\ \A d \in Client : d # c => got'[d] = got[d]
  BY <1>1, <1>4
<1>11. Wrote(f, c, s) BY <1>2, <1>3, <1>7, <1>8, <1>9, <1>10 DEF Wrote
<1> QED BY <1>10, <1>11

\* Nothing is in a clear buffer.
LEMMA ClearBytes == buf' = Clear => \A b \in Byte : ~ Buffered(b)'
<1> SUFFICES ASSUME buf' = Clear, NEW b \in Byte, NEW i \in 1..MAXSIZE, buf'[i] = b PROVE FALSE
  BY DEF Buffered
<1>1. buf'[i] = NUL BY DEF Clear
<1> QED BY <1>1, ServerAssumption

\* What do_write sends was in one place, and is then in another.
LEMMA WriteBInv ==
  ASSUME IInv, BInv, NEW f \in Fd, DoWrite(f)
  PROVE  BInv'
<1>a. PICK c : c = conn[f] OBVIOUS
<1>b. TypeOK BY DEF BInv
<1>w. PICK s \in Strings : Wrote(f, c, s) BY <1>a, <1>b, WriteMoves
<1>1. /\ c \in Client /\ s \in Seq(Byte \cup {Junk}) /\ got[c] \in Seq(Byte \cup {Junk})
      /\ \A d \in Client : d # c => got'[d] = got[d]
      /\ Len(got'[c]) = Len(got[c]) + Len(s)
      /\ \A i \in 1..Len(got[c]) : got'[c][i] = got[c][i]
      /\ \A i \in Len(got[c]) + 1..Len(got[c]) + Len(s) : got'[c][i] = s[i - Len(got[c])]
      /\ buf' = Clear /\ armed' = [armed EXCEPT ![f] = "in"]
      /\ UNCHANGED <<conn, state, sent, inq, overlap, full>>
  BY <1>w DEF Wrote
<1>2. TypeOK' BY <1>b, WriteTypes
<1>3. Pending' BY <1>1 DEF BInv, Pending, Read
<1>4. Len(got[c]) \in Nat /\ Len(s) \in Nat BY <1>1
<1>5. ASSUME NEW b \in Byte, NEW d \in Client, NEW i \in 1..Len(got'[d]), got'[d][i] = b
      PROVE  \/ i \in 1..Len(got[d]) /\ got[d][i] = b
             \/ /\ d = c /\ i - Len(got[c]) \in 1..MAXSIZE /\ buf[i - Len(got[c])] = b
  <2>1. CASE d # c BY <1>1, <1>5, <2>1
  <2>2. CASE d = c /\ i <= Len(got[c]) BY <1>1, <1>4, <1>5, <2>2
  <2>3. CASE d = c /\ ~ (i <= Len(got[c]))
    <3>1. i \in Len(got[c]) + 1..Len(got[c]) + Len(s) /\ i - Len(got[c]) \in 1..Len(s) BY <1>1, <1>4, <2>3
    <3>2. s[i - Len(got[c])] = b BY <1>1, <1>5, <2>3, <3>1
    <3>3. b # Junk BY ServerAssumption
    <3>4. i - Len(got[c]) \in 1..MAXSIZE /\ buf[i - Len(got[c])] = b BY <1>b, <3>1, <3>2, <3>3, StringBytes
    <3> QED BY <2>3, <3>4
  <2> QED BY <2>1, <2>2, <2>3
<1>6. \A b \in Byte, d \in Client : Returned(b, d)' => Returned(b, d) \/ Buffered(b)
  BY <1>5 DEF Returned, Buffered
<1>7. \A b \in Byte : ~ Buffered(b)' BY <1>1, ClearBytes
<1>8. Unread'
  <2> SUFFICES ASSUME NEW d \in Client, NEW k \in 1..MaxBytes, k > Read(d)'
               PROVE  ~ Buffered(<<d, k>>)' /\ \A e \in Client : ~ Returned(<<d, k>>, e)'
    BY Zenon DEF Unread
  <2>1. k > Read(d) BY <1>1 DEF Read
  <2>2. ~ Buffered(<<d, k>>) /\ \A e \in Client : ~ Returned(<<d, k>>, e) BY <2>1 DEF BInv, Unread
  <2>3. <<d, k>> \in Byte BY ByteFacts
  <2> QED BY <1>6, <1>7, <2>2, <2>3
<1>9. Single'
  <2> SUFFICES ASSUME NEW b \in Byte, NEW e \in Client, NEW d \in Client,
                      NEW i \in 1..Len(got'[e]), NEW j \in 1..Len(got'[d]),
                      got'[e][i] = b, got'[d][j] = b
               PROVE  e = d /\ i = j
    <3>1. \A b \in Byte : \A i \in 1..MAXSIZE : buf'[i] # b BY <1>7 DEF Buffered
    <3> QED BY <1>7, <3>1 DEF Single
  <2>1. /\ \A k, l \in 1..MAXSIZE : buf[k] = b /\ buf[l] = b => k = l
        /\ \A x, y \in Client : \A k \in 1..Len(got[x]), l \in 1..Len(got[y]) :
             got[x][k] = b /\ got[y][l] = b => x = y /\ k = l
        /\ Buffered(b) => \A x \in Client : ~ Returned(b, x)
    BY DEF BInv, Single
  <2>2. CASE i \in 1..Len(got[e]) /\ got[e][i] = b
    <3>1. ~ Buffered(b) BY <2>1, <2>2 DEF Returned
    <3>2. j \in 1..Len(got[d]) /\ got[d][j] = b BY <1>5, <3>1 DEF Buffered
    <3> QED BY <2>1, <2>2, <3>2
  <2>3. CASE e = c /\ i - Len(got[c]) \in 1..MAXSIZE /\ buf[i - Len(got[c])] = b
    <3>1. ~ Returned(b, d) BY <2>1, <2>3 DEF Buffered
    <3>2. d = c /\ j - Len(got[c]) \in 1..MAXSIZE /\ buf[j - Len(got[c])] = b BY <1>5, <3>1 DEF Returned
    <3>3. i - Len(got[c]) = j - Len(got[c]) BY <2>1, <2>3, <3>2
    <3>4. i \in Int /\ j \in Int OBVIOUS
    <3> QED BY <1>4, <2>3, <3>2, <3>3, <3>4
  <2> QED BY <1>5, <2>2, <2>3
<1> QED BY <1>2, <1>3, <1>8, <1>9 DEF BInv

\* A step that clears buf and moves no byte.
LEMMA ClearBInv ==
  ASSUME BInv, TypeOK', buf' = Clear, UNCHANGED <<inq, got, sent>>
  PROVE  BInv'
<1>1. \A b \in Byte : ~ Buffered(b)' BY ClearBytes
<1>2. Pending' BY DEF BInv, Pending, Read
<1>3. \A b, c : Returned(b, c)' = Returned(b, c) BY DEF Returned
<1>4. Unread'
  <2> SUFFICES ASSUME NEW d \in Client, NEW k \in 1..MaxBytes, k > Read(d)'
               PROVE  ~ Buffered(<<d, k>>)' /\ \A e \in Client : ~ Returned(<<d, k>>, e)'
    BY Zenon DEF Unread
  <2>1. k > Read(d) BY DEF Read
  <2>2. \A e \in Client : ~ Returned(<<d, k>>, e) BY <2>1 DEF BInv, Unread
  <2>3. <<d, k>> \in Byte BY ByteFacts
  <2> QED BY <1>1, <1>3, <2>2, <2>3
<1>5. Single'
  <2>1. \A b \in Byte : \A i \in 1..MAXSIZE : buf'[i] # b BY <1>1 DEF Buffered
  <2> QED BY <1>1, <2>1 DEF BInv, Single
<1> QED BY <1>2, <1>4, <1>5 DEF BInv

\* One step.
LEMMA StepBInv == IInv /\ BInv /\ [Next]_vars => BInv'
<1> SUFFICES ASSUME IInv, BInv, [Next]_vars PROVE BInv'
  OBVIOUS
<1>0. TypeOK BY DEF BInv
<1>1. CASE \E f \in Fd : DoRead(f) BY <1>1, ReadBInv
<1>2. CASE \E f \in Fd : DoWrite(f) BY <1>2, WriteBInv
<1>3. CASE \E c \in Client : Send(c) BY <1>3, SendBInv
<1>4. CASE EpollWait
  <2>1. TypeOK' BY <1>0, <1>4, WaitTypes
  <2>2. UNCHANGED <<buf, inq, got, sent>> BY <1>4 DEF EpollWait, clients
  <2> QED BY <2>1, <2>2, StillBInv
<1>5. CASE \/ HandleAccept \/ AcceptFails \/ EpollFails \/ UNCHANGED vars
           \/ \E f \in Fd : DoReadEnd(f) \/ DoWriteError(f) \/ SigPipe(f)
           \/ \E c \in Client : Connect(c) \/ \E h \in {"fin", "rst"} : Leave(c, h)
  <2>1. TypeOK' /\ UNCHANGED <<inq, got, sent, overlap, full>> /\ (buf' = buf \/ buf' = Clear)
    BY <1>0, <1>5, OtherTypes
  <2> QED BY <2>1, StillBInv, ClearBInv
<1> QED BY <1>1, <1>2, <1>3, <1>4, <1>5 DEF Next, Server, Handle, Env

\* The inductive invariant of the bytes: what clients sent and the server has not read
\* waits in order, and a byte that was read is in buf or in what one client was sent
\* back, in one place.
THEOREM BytesInvariance == Spec => []BInv
<1>1. Init => IInv /\ BInv BY InitIInv, InitBInv
<1>2. IInv /\ BInv /\ [Next]_vars => IInv' /\ BInv' BY StepIInv, StepBInv
<1>3. Spec => [](IInv /\ BInv) BY <1>1, <1>2, PTL DEF Spec
<1> QED BY <1>3, PTL

\* A set with one element at most counts one at most.
LEMMA AtMostSingle ==
  ASSUME NEW S, \A x, y \in S : x = y
  PROVE  Cardinality(S) \in {0, 1} /\ (S = {} => Cardinality(S) = 0)
<1>1. CASE S = {} BY <1>1, FS_EmptySet
<1>2. CASE S # {}
  <2>1. PICK x \in S : TRUE BY <1>2
  <2>2. S = {x} BY <2>1
  <2>3. Cardinality({x}) = 1 BY FS_Singleton
  <2> QED BY <1>2, <2>2, <2>3
<1> QED BY <1>1, <1>2

\* A byte that do_write sends is cleared from buf, and one that do_read takes leaves the
\* socket: each byte a client sent goes out once at most, to whomever.
THEOREM OnceCorrect == Spec => []AtMostOnce
<1>1. ASSUME BInv PROVE AtMostOnce
  <2>0. TypeOK /\ MAXSIZE \in Nat /\ MaxBytes \in Nat BY <1>1, ServerAssumption DEF BInv
  <2> SUFFICES ASSUME NEW b \in Byte, NEW c \in Client, NEW d \in Client
               PROVE  /\ Times(b, got[c]) + Times(b, buf) + Times(b, inq[b[1]]) <= 1
                      /\ c # d => Times(b, got[c]) + Times(b, got[d]) <= 1
    BY <2>0 DEF AtMostOnce
  <2>1. b = <<b[1], b[2]>> /\ b[1] \in Client /\ b[2] \in 1..MaxBytes BY ByteFacts
  <2> DEFINE G(e) == {i \in DOMAIN got[e] : got[e][i] = b}
             B == {i \in DOMAIN buf : buf[i] = b}
             Q == {i \in DOMAIN inq[b[1]] : inq[b[1]][i] = b}
  <2>2. DOMAIN buf = 1..MAXSIZE BY <2>0 DEF TypeOK
  <2>3. \A e \in Client : DOMAIN got[e] = 1..Len(got[e]) BY <2>0 DEF TypeOK
  <2>4. DOMAIN inq[b[1]] = 1..Len(inq[b[1]]) BY <2>0, <2>1 DEF TypeOK
  <2>5. /\ \A i, j \in 1..MAXSIZE : buf[i] = b /\ buf[j] = b => i = j
        /\ \A x, y \in Client : \A i \in 1..Len(got[x]), j \in 1..Len(got[y]) :
             got[x][i] = b /\ got[y][j] = b => x = y /\ i = j
        /\ Buffered(b) => \A x \in Client : ~ Returned(b, x)
    BY <1>1 DEF BInv, Single
  <2>6. \A e \in Client : G(e) = {} \/ B = {} BY <2>2, <2>3, <2>5 DEF Buffered, Returned
  <2>7. \A x, y \in B : x = y BY <2>2, <2>5
  <2>8. \A e \in Client : \A x, y \in G(e) : x = y BY <2>3, <2>5
  <2>9. c # d => G(c) = {} \/ G(d) = {} BY <2>3, <2>5
  <2>10. ASSUME NEW i \in Q PROVE b[2] = Read(b[1]) + i /\ b[2] > Read(b[1])
    <3>1. i \in 1..Len(inq[b[1]]) /\ inq[b[1]][i] = b BY <2>4
    <3>2. b = <<b[1], Read(b[1]) + i>> BY <1>1, <2>1, <3>1 DEF BInv, Pending
    <3>3. <<b[1], b[2]>> = <<b[1], Read(b[1]) + i>> BY <2>1, <3>2
    <3>4. b[2] = Read(b[1]) + i BY <3>3
    <3>5. sent[b[1]] \in Nat /\ Len(inq[b[1]]) \in Nat BY <2>0, <2>1 DEF TypeOK
    <3>6. Read(b[1]) \in Int BY <3>5 DEF Read
    <3> QED BY <3>1, <3>4, <3>6
  <2>11. Q # {} => B = {} /\ \A e \in Client : G(e) = {}
    <3> SUFFICES ASSUME NEW i \in Q PROVE B = {} /\ \A e \in Client : G(e) = {}
      OBVIOUS
    <3>1. b[2] > Read(b[1]) BY <2>10
    <3>2. ~ Buffered(b) /\ \A e \in Client : ~ Returned(b, e) BY <1>1, <2>1, <3>1 DEF BInv, Unread
    <3> QED BY <2>2, <2>3, <3>2 DEF Buffered, Returned
  <2>12. ASSUME NEW x \in Q, NEW y \in Q PROVE x = y
    <3>1. Read(b[1]) + x = Read(b[1]) + y BY <2>10
    <3>2. x \in Int /\ y \in Int BY <2>4
    <3>3. sent[b[1]] \in Nat /\ Len(inq[b[1]]) \in Nat BY <2>0, <2>1 DEF TypeOK
    <3>4. Read(b[1]) \in Int BY <3>3 DEF Read
    <3> QED BY <3>1, <3>2, <3>4
  <2>13. /\ Times(b, got[c]) = Cardinality(G(c)) /\ Times(b, got[d]) = Cardinality(G(d))
         /\ Times(b, buf) = Cardinality(B) /\ Times(b, inq[b[1]]) = Cardinality(Q)
    BY DEF Times
  <2> HIDE DEF G, B, Q
  <2>14. Cardinality(B) \in {0, 1} /\ (B = {} => Cardinality(B) = 0) BY <2>7, AtMostSingle
  <2>15. Cardinality(Q) \in {0, 1} /\ (Q = {} => Cardinality(Q) = 0) BY <2>12, AtMostSingle
  <2>16. \A e \in Client : Cardinality(G(e)) \in {0, 1} /\ (G(e) = {} => Cardinality(G(e)) = 0)
    BY <2>8, AtMostSingle
  <2> QED BY <2>6, <2>9, <2>11, <2>13, <2>14, <2>15, <2>16
<1> QED BY <1>1, BytesInvariance, PTL
-----------------------------------------------------------------------------
\* A step that leaves buf and the connections as they are.
LEMMA StillTidy ==
  ASSUME IInv, Tidy, UNCHANGED <<buf, got, armed, conn>>, \A c \in Client : Read(c)' = Read(c),
         \A c \in Client : state'[c] \in {"new", "queued"} => state[c] \in {"new", "queued"}
  PROVE  Tidy'
<1>1. InOrder' /\ OneOut' /\ Idle' BY DEF Tidy, InOrder, OneOut, Idle, Clear
<1>2. \A f \in Fd : armed[f] # "none" => conn[f] \in Client BY DEF IInv, Open, Types
<1>3. \A c \in Client : \A m : Holds(c, m)' = Holds(c, m) BY DEF Holds
<1>4. \A c \in Client : Even(c)' = Even(c) BY DEF Even
<1>5. ASSUME NEW f \in Fd, armed'[f] = "out" PROVE \E m \in 1..MAXSIZE - 1 : Holds(conn[f], m)'
  <2>1. PICK c \in Client : c = conn[f] BY <1>2, <1>5
  <2>2. PICK m \in 1..MAXSIZE - 1 : Holds(c, m) BY <1>5, <2>1 DEF Tidy, Busy
  <2>3. Holds(c, m)' BY <1>3, <2>2
  <2>4. c = conn'[f] BY <2>1
  <2> QED BY <2>3, <2>4 DEF Holds
<1>6. ASSUME NEW f \in Fd, armed'[f] = "in" PROVE Even(conn[f])'
  <2>1. PICK c \in Client : c = conn[f] BY <1>2, <1>6
  <2>2. Even(c)' BY <1>4, <1>6, <2>1 DEF Tidy, Evened
  <2>3. c = conn'[f] BY <2>1
  <2> QED BY <2>2, <2>3 DEF Even
<1>7. Busy' BY <1>5 DEF Busy
<1>8. Evened' BY <1>4, <1>6 DEF Evened, Tidy
<1> QED BY <1>1, <1>7, <1>8 DEF Tidy

\* accept arms a connection whose client has not been answered more than was read.
LEMMA AcceptTidy ==
  ASSUME IInv, BInv, Tidy, HandleAccept
  PROVE  Tidy'
<1>1. PICK c \in Client, f \in Fd :
        /\ state[c] = "queued" /\ conn[f] = None
        /\ conn' = [conn EXCEPT ![f] = c]
        /\ armed' = [armed EXCEPT ![f] = "in"]
        /\ state' = [state EXCEPT ![c] = "connected"]
        /\ UNCHANGED <<buf, sent, inq, got>>
  BY Zenon DEF HandleAccept, Add
<1>2. /\ \A g \in Fd : g # f => armed'[g] = armed[g] /\ conn'[g] = conn[g]
      /\ armed[f] = "none" /\ armed'[f] = "in" /\ conn'[f] = c
      /\ \A d \in Client : d # c => state'[d] = state[d]
      /\ state'[c] = "connected"
  BY <1>1 DEF IInv, Types, Open
<1>3. \A g \in Fd : armed[g] # "none" => conn[g] \in Client BY DEF IInv, Open, Types
<1>4. \A d \in Client : \A m : Holds(d, m)' = Holds(d, m) BY <1>1 DEF Holds, Read
<1>5. \A d \in Client : Even(d)' = Even(d) BY <1>1 DEF Even, Read
<1>6. InOrder' BY <1>1 DEF Tidy, InOrder
<1>7. OneOut' BY <1>2 DEF Tidy, OneOut
<1>8. Idle' BY <1>1, <1>2 DEF Tidy, Idle, Clear
<1>9. ASSUME NEW g \in Fd, armed'[g] = "out" PROVE \E m \in 1..MAXSIZE - 1 : Holds(conn[g], m)'
  <2>1. g # f /\ armed[g] = "out" /\ conn'[g] = conn[g] BY <1>2, <1>9
  <2>2. PICK d \in Client : d = conn[g] BY <1>3, <2>1
  <2>3. PICK m \in 1..MAXSIZE - 1 : Holds(d, m) BY <2>1, <2>2 DEF Tidy, Busy
  <2>4. Holds(d, m)' /\ d = conn'[g] BY <1>4, <2>1, <2>2, <2>3
  <2> QED BY <2>4 DEF Holds
<1>10. ASSUME NEW g \in Fd, armed'[g] = "in" PROVE Even(conn[g])'
  <2>1. PICK d \in Client : d = conn'[g] /\ Even(d)
    <3>1. CASE g = f BY <1>1, <1>2, <3>1 DEF Tidy, Evened
    <3>2. CASE g # f BY <1>2, <1>3, <1>10, <3>2 DEF Tidy, Evened
    <3> QED BY <3>1, <3>2
  <2>2. Even(d)' BY <1>5, <2>1
  <2> QED BY <2>1, <2>2 DEF Even
<1>11. \A d \in Client : state'[d] \in {"new", "queued"} => Even(d)'
  BY <1>2, <1>5 DEF Tidy, Evened
<1> QED BY <1>6, <1>7, <1>8, <1>9, <1>10, <1>11 DEF Tidy, Busy, Evened

\* Closing a connection: at its end nothing of it is in buf, and after an error buf is
\* clear.
LEMMA CloseTidy ==
  ASSUME IInv, BInv, Tidy, NEW f \in Fd, DoReadEnd(f) \/ DoWriteError(f)
  PROVE  Tidy'
<1>1. conn[f] \in Client /\ Close(f) /\ UNCHANGED <<sent, inq, got>>
  BY Taken DEF DoReadEnd, ReadEnd, DoWriteError
<1>2. \/ armed[f] = "in" /\ buf' = buf
      \/ armed[f] = "out" /\ buf' = Clear
  BY Taken DEF DoReadEnd, ReadEnd, DoWriteError
<1>3. /\ \A g \in Fd : g # f => armed'[g] = armed[g] /\ conn'[g] = conn[g]
      /\ armed'[f] = "none"
      /\ \A d \in Client : state'[d] = state[d] \/ state'[d] = "served"
  BY <1>1 DEF Close, IInv, Types
<1>4. \A g \in Fd : armed[g] # "none" => conn[g] \in Client BY DEF IInv, Open, Types
<1>5. \A d \in Client : Even(d)' = Even(d) BY <1>1 DEF Even, Read
<1>6. InOrder' BY <1>1 DEF Tidy, InOrder
<1>7. OneOut' BY <1>3 DEF Tidy, OneOut
<1>8. Idle' BY <1>2, <1>3 DEF Tidy, Idle, Clear
<1>9. ASSUME NEW g \in Fd, armed'[g] = "out" PROVE \E m \in 1..MAXSIZE - 1 : Holds(conn[g], m)'
  <2>1. g # f /\ armed[g] = "out" /\ conn'[g] = conn[g] BY <1>3, <1>9
  <2>2. buf' = buf BY <1>2, <2>1 DEF Tidy, OneOut
  <2>3. PICK d \in Client : d = conn[g] BY <1>4, <2>1
  <2>4. PICK m \in 1..MAXSIZE - 1 : Holds(d, m) BY <2>1, <2>3 DEF Tidy, Busy
  <2>5. Holds(d, m)' /\ d = conn'[g] BY <1>1, <2>1, <2>2, <2>3, <2>4 DEF Holds, Read
  <2> QED BY <2>5 DEF Holds
<1>10. ASSUME NEW g \in Fd, armed'[g] = "in" PROVE Even(conn[g])'
  <2>1. PICK d \in Client : d = conn'[g] /\ Even(d) BY <1>3, <1>4, <1>10 DEF Tidy, Evened
  <2>2. Even(d)' BY <1>5, <2>1
  <2> QED BY <2>1, <2>2 DEF Even
<1>11. \A d \in Client : state'[d] \in {"new", "queued"} => Even(d)'
  BY <1>3, <1>5 DEF Tidy, Evened
<1> QED BY <1>6, <1>7, <1>8, <1>9, <1>10, <1>11 DEF Tidy, Busy, Evened

\* do_read into a clear buffer, with room for a NUL.
LEMMA ReadTidy ==
  ASSUME IInv, BInv, Tidy, NEW f \in Fd, DoRead(f), ~ overlap', ~ full'
  PROVE  Tidy'
<1>a. PICK c : c = conn[f] OBVIOUS
<1>b. PICK n : n = IF Len(inq[c]) < MAXSIZE THEN Len(inq[c]) ELSE MAXSIZE OBVIOUS
<1>1. /\ c \in Client /\ n \in 1..MAXSIZE /\ n <= Len(inq[c]) /\ Read(c) \in Nat
      /\ \A i \in 1..n : buf'[i] = <<c, Read(c) + i>>
      /\ \A i \in n + 1..MAXSIZE : buf'[i] = buf[i]
      /\ \A d \in Client : d # c => Read(d)' = Read(d) /\ inq'[d] = inq[d]
      /\ Read(c)' = Read(c) + n /\ Pending'
      /\ UNCHANGED <<got, sent, conn, state>>
  BY <1>a, <1>b, ReadMoves, SMTT(20)
<1>2. \A g \in Fd : armed[g] # "out" BY Zenon DEF DoRead
<1>3. n # MAXSIZE BY <1>a, <1>b, Zenon DEF DoRead
<1>4. armed[f] = "in" BY Taken DEF DoRead
<1>5. armed'[f] = "out" /\ \A g \in Fd : g # f => armed'[g] = armed[g]
  BY DEF DoRead, Rearm, IInv, Types
<1>6. n \in 1..MAXSIZE - 1
  <2>1. MAXSIZE \in Nat BY ServerAssumption
  <2>2. n \in 1..MAXSIZE BY <1>1
  <2> QED BY <1>3, <2>1, <2>2
<1>7. Len(got[c]) = Read(c) BY <1>a, <1>4 DEF Tidy, Evened, Even
<1>8. Holds(c, n)'
  <2>1. \A i \in 1..n : buf'[i] = <<c, Len(got'[c]) + i>> BY <1>1, <1>7
  <2>2. \A i \in n + 1..MAXSIZE : buf'[i] = NUL
    <3>1. buf = Clear BY <1>2 DEF Tidy, Idle
    <3>2. \A i \in n + 1..MAXSIZE : i \in 1..MAXSIZE BY <1>6
    <3> QED BY <1>1, <3>1, <3>2 DEF Clear
  <2>3. Len(got'[c]) + n = Read(c)' BY <1>1, <1>7
  <2> QED BY <2>1, <2>2, <2>3 DEF Holds
<1>9. ASSUME NEW g \in Fd, armed'[g] = "out" PROVE g = f BY <1>2, <1>5, <1>9
<1>10. InOrder' BY <1>1 DEF Tidy, InOrder
<1>11. OneOut' BY <1>9 DEF OneOut
<1>12. Idle' BY <1>5 DEF Idle
<1>13. Busy'
  <2>1. c = conn'[f] BY <1>a, <1>1
  <2>2. \E m \in 1..MAXSIZE - 1 : Holds(conn[f], m)' BY <1>6, <1>8, <2>1 DEF Holds
  <2> QED BY <1>9, <2>2 DEF Busy
<1>14. ASSUME NEW g \in Fd, armed'[g] = "in" PROVE Even(conn[g])'
  <2>1. g # f /\ armed[g] = "in" BY <1>5, <1>14
  <2>2. conn[g] \in Client /\ conn[g] # c BY <1>a, <2>1 DEF IInv, Own, Open, Types
  <2>3. PICK d \in Client : d = conn[g] /\ d # c BY <2>2
  <2>4. Even(d)' BY <1>1, <2>1, <2>3 DEF Tidy, Evened, Even
  <2>5. d = conn'[g] BY <1>1, <2>3
  <2> QED BY <2>4, <2>5 DEF Even
<1>15. ASSUME NEW d \in Client, state'[d] \in {"new", "queued"} PROVE Even(d)'
  <2>1. state[d] \in {"new", "queued"} BY <1>1, <1>15
  <2>2. d # c BY <1>a, <2>1 DEF IInv, Known
  <2> QED BY <1>1, <2>1, <2>2 DEF Tidy, Evened, Even
<1> QED BY <1>10, <1>11, <1>12, <1>13, <1>14, <1>15 DEF Tidy, Evened

\* A buffer that holds m bytes and NULs behind them is the string of these bytes.
LEMMA HeldString ==
  ASSUME BInv, NEW c \in Client, NEW m \in 1..MAXSIZE - 1, Holds(c, m), NEW s \in Strings
  PROVE  s \in Seq(Byte \cup {Junk}) /\ Len(s) = m /\ \A i \in 1..m : s[i] = <<c, Len(got[c]) + i>>
<1>1. PICK n \in 0..MAXSIZE :
        /\ \A i \in 1..n : buf[i] # NUL
        /\ n = MAXSIZE \/ buf[n + 1] = NUL
        /\ \/ s = [i \in 1..n |-> buf[i]]
           \/ n = MAXSIZE /\ s = Append([i \in 1..n |-> buf[i]], Junk)
  BY StringFacts DEF BInv
<1>2. MAXSIZE \in Nat /\ m \in Nat /\ m < MAXSIZE /\ n \in Nat /\ n <= MAXSIZE BY ServerAssumption
<1>3. \A i \in 1..m : buf[i] # NUL
  <2> SUFFICES ASSUME NEW i \in 1..m PROVE buf[i] # NUL
    OBVIOUS
  <2>1. buf[i] = <<c, Len(got[c]) + i>> BY DEF Holds
  <2>2. got[c] \in Seq(Byte \cup {Junk}) /\ sent[c] \in 0..MaxBytes /\ Len(inq[c]) \in Nat BY DEF BInv, TypeOK
  <2>3. Len(got[c]) \in Nat BY <2>2
  <2>4. Len(got[c]) + m = sent[c] - Len(inq[c]) BY DEF Holds, Read
  <2>5. Len(got[c]) + i \in 1..MaxBytes BY <1>2, <2>2, <2>3, <2>4, ServerAssumption
  <2>6. <<c, Len(got[c]) + i>> \in Byte BY <2>5, ByteFacts
  <2> QED BY <2>1, <2>6, ServerAssumption
<1>4. buf[m + 1] = NUL
  <2>1. m + 1 \in m + 1..MAXSIZE BY <1>2
  <2> QED BY <2>1 DEF Holds
<1>5. ~ (n > m)
  <2>1. ASSUME n > m PROVE m + 1 \in 1..n BY <1>2, <2>1
  <2> QED BY <1>1, <1>4, <2>1
<1>6. ~ (n < m)
  <2>1. ASSUME n < m PROVE n + 1 \in 1..m /\ n # MAXSIZE BY <1>2, <2>1
  <2> QED BY <1>1, <1>3, <2>1
<1>7. n = m BY <1>2, <1>5, <1>6
<1>8. n # MAXSIZE BY <1>2, <1>7
<1>9. s = [i \in 1..m |-> buf[i]] BY <1>1, <1>7, <1>8
<1>10. s \in Seq(Byte \cup {Junk}) BY StringBytes DEF BInv
<1>11. Len(s) = m BY <1>2, <1>9, <1>10
<1>12. \A i \in 1..m : s[i] = buf[i] BY <1>9
<1> QED BY <1>10, <1>11, <1>12 DEF Holds

\* do_write sends what buf holds to the client it is from.
LEMMA WriteTidy ==
  ASSUME IInv, BInv, Tidy, NEW f \in Fd, DoWrite(f)
  PROVE  Tidy'
<1>a. PICK c : c = conn[f] OBVIOUS
<1>b. TypeOK BY DEF BInv
<1>w. PICK s \in Strings : Wrote(f, c, s) BY <1>a, <1>b, WriteMoves
<1>1. /\ c \in Client /\ got[c] \in Seq(Byte \cup {Junk})
      /\ \A d \in Client : d # c => got'[d] = got[d]
      /\ Len(got'[c]) = Len(got[c]) + Len(s)
      /\ \A i \in 1..Len(got[c]) : got'[c][i] = got[c][i]
      /\ \A i \in Len(got[c]) + 1..Len(got[c]) + Len(s) : got'[c][i] = s[i - Len(got[c])]
      /\ buf' = Clear /\ armed' = [armed EXCEPT ![f] = "in"]
      /\ UNCHANGED <<conn, state, sent, inq>>
  BY <1>w DEF Wrote
<1>2. armed[f] = "out" BY Taken DEF DoWrite, WriteThen
<1>3. armed'[f] = "in" /\ \A g \in Fd : g # f => armed'[g] = armed[g] BY <1>1 DEF IInv, Types
<1>4. PICK m \in 1..MAXSIZE - 1 : Holds(c, m) BY <1>a, <1>2 DEF Tidy, Busy
<1>5. Len(s) = m /\ \A i \in 1..m : s[i] = <<c, Len(got[c]) + i>> BY <1>1, <1>4, HeldString
<1>6. \A g \in Fd : armed'[g] # "out" BY <1>2, <1>3 DEF Tidy, OneOut
<1>7. \A d \in Client : Read(d)' = Read(d) BY <1>1 DEF Read
<1>8. Len(got[c]) \in Nat /\ m \in Nat BY <1>1
<1>9. Even(c)' BY <1>1, <1>4, <1>5, <1>7 DEF Even, Holds
<1>10. \A d \in Client : d # c /\ Even(d) => Even(d)' BY <1>1, <1>7 DEF Even
<1>11. InOrder'
  <2> SUFFICES ASSUME NEW d \in Client, NEW i \in 1..Len(got'[d]) PROVE got'[d][i] = <<d, i>>
    BY DEF InOrder
  <2>1. CASE d # c BY <1>1, <2>1 DEF Tidy, InOrder
  <2>2. CASE d = c /\ i <= Len(got[c])
    <3>1. i \in 1..Len(got[c]) BY <1>8, <2>2
    <3> QED BY <1>1, <2>2, <3>1 DEF Tidy, InOrder
  <2>3. CASE d = c /\ ~ (i <= Len(got[c]))
    <3>1. /\ i \in Len(got[c]) + 1..Len(got[c]) + Len(s) /\ i - Len(got[c]) \in 1..m
          /\ Len(got[c]) + (i - Len(got[c])) = i
      BY <1>1, <1>5, <1>8, <2>3
    <3>2. got'[c][i] = s[i - Len(got[c])] BY <1>1, <3>1
    <3>3. s[i - Len(got[c])] = <<c, Len(got[c]) + (i - Len(got[c]))>> BY <1>5, <3>1
    <3> QED BY <2>3, <3>1, <3>2, <3>3
  <2> QED BY <2>1, <2>2, <2>3
<1>12. OneOut' /\ Busy' BY <1>6 DEF OneOut, Busy
<1>13. Idle' BY <1>1 DEF Idle, Clear
<1>14. ASSUME NEW g \in Fd, armed'[g] = "in" PROVE Even(conn[g])'
  <2>1. PICK d \in Client : d = conn[g] /\ (d = c \/ Even(d))
    <3>1. CASE g = f BY <1>a, <1>1, <3>1
    <3>2. CASE g # f BY <1>3, <1>14, <3>2 DEF Tidy, Evened, IInv, Open, Types
    <3> QED BY <3>1, <3>2
  <2>2. Even(d)' BY <1>9, <1>10, <2>1
  <2>3. d = conn'[g] BY <1>1, <2>1, ZenonT(30)
  <2> QED BY <2>2, <2>3 DEF Even
<1>15. ASSUME NEW d \in Client, state'[d] \in {"new", "queued"} PROVE Even(d)'
  BY <1>1, <1>9, <1>10, <1>15 DEF Tidy, Evened
<1> QED BY <1>11, <1>12, <1>13, <1>14, <1>15 DEF Tidy, Evened

\* Once bytes have met in buf, or have filled it, that is remembered.
LEMMA HistoryStep ==
  ASSUME [Next]_vars
  PROVE  /\ overlap => overlap'
         /\ full => full'
<1> USE DEF vars, clients, server, history
<1>1. ASSUME NEW f \in Fd, DoRead(f) PROVE (overlap => overlap') /\ (full => full')
  BY <1>1, Zenon DEF DoRead
<1>2. ASSUME ~ \E f \in Fd : DoRead(f) PROVE overlap' = overlap /\ full' = full
  BY <1>2, Zenon DEF Next, Server, Env, Handle, EpollWait, HandleAccept, AcceptFails, DoReadEnd, DoWrite,
              WriteThen, DoWriteError, SigPipe, EpollFails, Connect, Send, Leave
<1>3. CASE \E f \in Fd : DoRead(f) BY <1>1, <1>3, Zenon
<1>4. CASE ~ \E f \in Fd : DoRead(f)
  <2>1. overlap' = overlap /\ full' = full BY <1>2, <1>4
  <2> QED BY <2>1, Zenon
<1> QED BY <1>3, <1>4, Zenon

\* Nothing is under way when the server begins.
LEMMA InitTidy == Init => Tidy
<1> SUFFICES ASSUME Init PROVE Tidy
  OBVIOUS
<1>1. \A c \in Client : got[c] = <<>> /\ Read(c) = 0
  <2>1. \A c \in Client : got[c] = <<>> /\ inq[c] = <<>> /\ sent[c] = 0 BY DEF Init
  <2>2. Len(<<>>) = 0 BY EmptySeq
  <2>3. \A c \in Client : Len(inq[c]) = 0 BY <2>1, <2>2
  <2>4. \A c \in Client : Read(c) = 0 - 0 BY <2>1, <2>3 DEF Read
  <2>5. \A c \in Client : Read(c) = 0 BY <2>4
  <2> QED BY <2>1, <2>5
<1>2. \A f \in Fd : armed[f] = "none" BY DEF Init
<1>3. OneOut /\ Busy /\ Idle BY <1>2 DEF OneOut, Busy, Idle, Init
<1>4. InOrder /\ Evened BY <1>1, <1>2 DEF InOrder, Evened, Even
<1> QED BY <1>3, <1>4 DEF Tidy

\* One step that brings no bytes together in buf and does not fill it.
LEMMA StepTidy ==
  ASSUME IInv, BInv, Tidy, [Next]_vars, ~ overlap', ~ full'
  PROVE  Tidy'
<1> USE DEF vars, clients, server
<1>1. CASE \E f \in Fd : DoRead(f) BY <1>1, ReadTidy
<1>2. CASE \E f \in Fd : DoWrite(f) BY <1>2, WriteTidy
<1>3. CASE \E f \in Fd : DoReadEnd(f) \/ DoWriteError(f) BY <1>3, CloseTidy
<1>4. CASE HandleAccept BY <1>4, AcceptTidy
<1>5. ASSUME NEW c \in Client, Send(c) PROVE Tidy'
  <2>1. \A d \in Client : Read(d)' = Read(d) BY <1>5, SendBInv
  <2>2. UNCHANGED <<buf, got, armed, conn, state>> BY <1>5 DEF Send
  <2> QED BY <2>1, <2>2, StillTidy
<1>6. ASSUME NEW c \in Client, Connect(c) PROVE Tidy'
  <2>1. UNCHANGED <<buf, got, armed, conn, inq, sent>> BY <1>6 DEF Connect
  <2>2. \A d \in Client : Read(d)' = Read(d) BY <2>1 DEF Read
  <2>3. \A d \in Client : state'[d] \in {"new", "queued"} => state[d] \in {"new", "queued"}
    BY <1>6 DEF Connect, IInv, Types
  <2> QED BY <2>1, <2>2, <2>3, StillTidy
<1>7. CASE \/ EpollWait \/ AcceptFails \/ EpollFails \/ UNCHANGED vars
           \/ \E f \in Fd : SigPipe(f)
           \/ \E c \in Client : \E h \in {"fin", "rst"} : Leave(c, h)
  <2>1. UNCHANGED <<buf, got, armed, conn, inq, sent, state>>
    BY <1>7, Zenon DEF EpollWait, AcceptFails, EpollFails, SigPipe, Leave
  <2>2. \A d \in Client : Read(d)' = Read(d) BY <2>1 DEF Read
  <2> QED BY <2>1, <2>2, StillTidy
<1> QED BY <1>1, <1>2, <1>3, <1>4, <1>5, <1>6, <1>7 DEF Next, Server, Env, Handle

\* do_read and do_write echo: until bytes of two clients meet in buf, or a read fills it,
\* every client gets back what it sent, in order, and has got all that was read when its
\* connection is back to input.
THEOREM EchoCorrect == Spec => []Echo
<1>1. Init => IInv /\ BInv /\ Echoing BY InitIInv, InitBInv, InitTidy DEF Echoing
<1>2. IInv /\ BInv /\ Echoing /\ [Next]_vars => IInv' /\ BInv' /\ Echoing'
  <2> SUFFICES ASSUME IInv, BInv, Echoing, [Next]_vars PROVE IInv' /\ BInv' /\ Echoing'
    OBVIOUS
  <2>1. IInv' /\ BInv' BY StepIInv, StepBInv
  <2>2. ASSUME ~ overlap', ~ full' PROVE Tidy'
    <3>1. ~ overlap /\ ~ full BY <2>2, HistoryStep
    <3>2. Tidy BY <3>1 DEF Echoing
    <3> QED BY <2>2, <3>2, StepTidy
  <2> QED BY <2>1, <2>2, Zenon DEF Echoing
<1>3. ASSUME BInv, Echoing PROVE Echo
  <2> SUFFICES ASSUME ~ overlap, ~ full, NEW c \in Client
               PROVE  /\ got[c] = [i \in 1..Len(got[c]) |-> <<c, i>>]
                      /\ \A f \in Fd : conn[f] = c /\ armed[f] = "in" => Len(got[c]) + Len(inq[c]) = sent[c]
    BY Zenon DEF Echo
  <2>1. Tidy BY <1>3 DEF Echoing
  <2>2. got[c] \in Seq(Byte \cup {Junk}) /\ sent[c] \in Nat /\ Len(inq[c]) \in Nat
    BY <1>3, ServerAssumption DEF BInv, TypeOK
  <2>3. got[c] = [i \in 1..Len(got[c]) |-> <<c, i>>]
    <3>1. got[c] = [i \in 1..Len(got[c]) |-> got[c][i]] BY <2>2
    <3>2. \A i \in 1..Len(got[c]) : got[c][i] = <<c, i>> BY <2>1 DEF Tidy, InOrder
    <3> QED BY <3>1, <3>2, Zenon
  <2>4. ASSUME NEW f \in Fd, conn[f] = c, armed[f] = "in" PROVE Len(got[c]) + Len(inq[c]) = sent[c]
    <3>1. Len(got[c]) = sent[c] - Len(inq[c]) BY <2>1, <2>4 DEF Tidy, Evened, Even, Read
    <3> QED BY <2>2, <3>1
  <2> QED BY <2>3, <2>4, Zenon
<1>4. Spec => [](IInv /\ BInv /\ Echoing) BY <1>1, <1>2, PTL DEF Spec
<1> QED BY <1>3, <1>4, PTL
==============================================================================
