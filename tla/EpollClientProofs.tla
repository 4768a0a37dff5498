-------------------------- MODULE EpollClientProofs --------------------------
(***************************************************************************)
(* Proofs about epoll_demo/epoll_cli.c, for a buffer of any size, lines of *)
(* any lengths and any number of bytes typed: a byte is in one place at    *)
(* most, and a user who waits for each answer and types no line longer     *)
(* than the buffer sees what they typed, in order, and never finds the     *)
(* client wedged.                                                          *)
(***************************************************************************)
EXTENDS EpollClient, SequenceTheorems, WellFoundedInduction, TLAPS

Typed == 1..MaxTyped
Byte  == Typed \cup {Junk}

\* No typed byte is in s twice.
Once(s) == \A i, j \in DOMAIN s : s[i] = s[j] /\ s[i] \in Typed => i = j

\* Nor in two of the places it goes through.
Apart ==
  /\ Once(buf) /\ Once(toServer) /\ Once(toClient)
  /\ \A b \in Typed :
       /\ Occurs(b, buf) => ~ Occurs(b, toServer) /\ ~ Occurs(b, toClient) /\ ~ Occurs(b, shown)
       /\ Occurs(b, toServer) => ~ Occurs(b, toClient) /\ ~ Occurs(b, shown)
       /\ Occurs(b, toClient) => ~ Occurs(b, shown)

\* The lines typed and not yet read hold later bytes than what was read, in order.
Held(b) == Occurs(b, buf) \/ Occurs(b, toServer) \/ Occurs(b, toClient) \/ Occurs(b, shown)
LineOK(k) ==
  /\ Len(lines[k]) \in 1..longest
  /\ \A i \in DOMAIN lines[k] : lines[k][i] <= typed
  /\ \A i, j \in DOMAIN lines[k] : i < j => lines[k][i] < lines[k][j]
Before(k, l) == \A i \in DOMAIN lines[k], j \in DOMAIN lines[l] : lines[k][i] < lines[l][j]
After(b)     == b <= typed /\ \A k \in DOMAIN lines : \A i \in DOMAIN lines[k] : b < lines[k][i]
Queued ==
  /\ \A k \in DOMAIN lines : LineOK(k)
  /\ \A k, l \in DOMAIN lines : k < l => Before(k, l)
  /\ \A b \in Typed : Held(b) => After(b)

\* An event is of what its descriptor is still registered for.
Events == \A f \in Fd, kind \in {"in", "out"} : <<f, kind>> \in batch => reg[f] = kind

\* The user waits for each answer, and no line is longer than buf.
Patient == ~ hasty /\ longest <= MAXSIZE

\* Then the client does one thing at a time, has
\* something to write when it writes and something to wait for when it waits.
Busy == lines # <<>> \/ reg["sock"] # "none" \/ reg["stdout"] # "none"
Turn ==
  /\ lines # <<>> => reg["sock"] = "none" /\ reg["stdout"] = "none" /\ Len(lines) = 1
  /\ reg["sock"] = "none" \/ reg["stdout"] = "none"
  /\ Busy => typed > 0 /\ ~ Occurs(typed, shown)
  /\ reg["sock"] = "out" => buf[1] # NUL
  /\ reg["sock"] = "in" /\ ~ closed => toServer # <<>> \/ toClient # <<>>

\* Then the typed bytes keep their order, whatever else comes with them, and none is
\* missing: where a byte is seen, so are all those typed before it.
Asc(s)      == \A i, j \in DOMAIN s : i < j /\ s[i] \in Typed /\ s[j] \in Typed => s[i] < s[j]
Below(s, t) == \A b, c \in Typed : Occurs(b, s) /\ Occurs(c, t) => b < c
Bare(s)     == \A b \in Typed : ~ Occurs(b, s)
Front       == \A i \in 1..MAXSIZE : buf[i] \in Typed => \A j \in 1..i : buf[j] # NUL
Whole       == \A b \in Typed : Held(b) => \A c \in 1..b - 1 : Held(c)
Seen ==
  \A i \in DOMAIN shown : shown[i] \in Typed =>
    \A b \in 1..shown[i] - 1 : \E j \in 1..i - 1 : shown[j] = b
Sequel ==
  /\ Asc(buf) /\ Asc(toClient) /\ Asc(toServer)
  /\ Below(buf, toClient) /\ Below(buf, toServer) /\ Below(toClient, toServer)
  /\ Front /\ Whole /\ Seen
  /\ reg["sock"] = "out" \/ lines # <<>> => Bare(toServer) /\ Bare(toClient)
  /\ reg["stdout"] = "none" /\ reg["sock"] # "out" => Bare(buf)
  /\ lines # <<>> => \A c \in 1..typed : Occurs(c, shown) \/ Occurs(c, lines[1])

\* If buf was empty to begin with, too, and no line fills it, the bytes follow each other: those shown,
\* those in buf, those on their way back, those on their way out.
Holds(k) == /\ \A i \in 1..k : buf[i] = Len(shown) + i
            /\ \A i \in k + 1..MAXSIZE : buf[i] = NUL
Follows(k) ==
  /\ Holds(k)
  /\ \A i \in 1..Len(toClient) : toClient[i] = Len(shown) + k + i
  /\ \A i \in 1..Len(toServer) : toServer[i] = Len(shown) + k + Len(toClient) + i
  /\ Len(shown) + k + Len(toClient) + Len(toServer) <= typed
  /\ reg["stdout"] = "none" /\ reg["sock"] # "out" => k = 0
  /\ reg["sock"] = "out" => toServer = <<>> /\ toClient = <<>>
InOrder ==
  /\ \A i \in 1..Len(shown) : shown[i] = i
  /\ typed < Len(shown) + MAXSIZE
  /\ lines # <<>> =>
       /\ toServer = <<>> /\ toClient = <<>> /\ Len(lines[1]) = typed - Len(shown)
       /\ \A i \in DOMAIN lines[1] : lines[1][i] = Len(shown) + i
  /\ \E k \in Nat : Follows(k)

Tidy    == clean /\ longest < MAXSIZE
Paced   == Patient => Turn /\ (Tidy => InOrder)
Ordered == Patient => Sequel
CInv    == TypeOK /\ Apart /\ Queued /\ Events /\ Paced /\ Ordered
-----------------------------------------------------------------------------
\* What TypeOK says of each variable.
LEMMA Typing ==
  TypeOK <=> /\ reg \in [Fd -> {"none", "in", "out"}]
             /\ batch \subseteq Fd \X {"in", "out"}
             /\ buf \in [1..MAXSIZE -> Byte \cup {NUL}]
             /\ alive \in BOOLEAN /\ closed \in BOOLEAN /\ eof \in BOOLEAN
             /\ hasty \in BOOLEAN /\ split \in BOOLEAN /\ clean \in BOOLEAN
             /\ typed \in 0..MaxTyped /\ longest \in 0..MaxTyped /\ lines \in Seq(Seq(Typed))
             /\ toServer \in Seq(Byte) /\ toClient \in Seq(Byte) /\ shown \in Seq(Byte)
  BY Zenon DEF TypeOK, Byte, Typed

\* The same of the next state.
LEMMA NextTyping ==
  ASSUME reg' \in [Fd -> {"none", "in", "out"}], batch' \subseteq Fd \X {"in", "out"},
         buf' \in [1..MAXSIZE -> Byte \cup {NUL}],
         alive' \in BOOLEAN, closed' \in BOOLEAN, eof' \in BOOLEAN,
         hasty' \in BOOLEAN, split' \in BOOLEAN, clean' \in BOOLEAN,
         typed' \in 0..MaxTyped, longest' \in 0..MaxTyped, lines' \in Seq(Seq(Typed)),
         toServer' \in Seq(Byte), toClient' \in Seq(Byte), shown' \in Seq(Byte)
  PROVE  TypeOK'
  BY Zenon DEF TypeOK, Byte, Typed

\* What is in two sequences in a row is in one of them.
LEMMA OccursCat ==
  ASSUME NEW S, NEW s \in Seq(S), NEW t \in Seq(S), NEW b
  PROVE  Occurs(b, s \o t) <=> Occurs(b, s) \/ Occurs(b, t)
<1>1. /\ s \o t \in Seq(S) /\ Len(s \o t) = Len(s) + Len(t) /\ Len(s) \in Nat /\ Len(t) \in Nat
      /\ DOMAIN s = 1..Len(s) /\ DOMAIN t = 1..Len(t) /\ DOMAIN (s \o t) = 1..Len(s) + Len(t)
      /\ \A i \in 1..Len(s) + Len(t) : (s \o t)[i] = IF i <= Len(s) THEN s[i] ELSE t[i - Len(s)]
  BY ConcatProperties, LenProperties
<1> DEFINE u == s \o t
<1> HIDE DEF u
<1>2. ASSUME NEW i \in 1..Len(s) + Len(t), u[i] = b PROVE Occurs(b, s) \/ Occurs(b, t)
  <2>1. CASE i <= Len(s) BY <1>1, <1>2, <2>1 DEF Occurs, u
  <2>2. CASE i > Len(s)
    <3>1. i - Len(s) \in 1..Len(t) /\ t[i - Len(s)] = b BY <1>1, <1>2, <2>2 DEF u
    <3> QED BY <1>1, <3>1 DEF Occurs
  <2> QED BY <1>1, <2>1, <2>2
<1>3. ASSUME NEW i \in 1..Len(s), s[i] = b PROVE Occurs(b, u)
  <2>1. i \in 1..Len(s) + Len(t) /\ u[i] = b BY <1>1, <1>3 DEF u
  <2> QED BY <1>1, <2>1 DEF Occurs, u
<1>4. ASSUME NEW i \in 1..Len(t), t[i] = b PROVE Occurs(b, u)
  <2>1. /\ Len(s) + i \in 1..Len(s) + Len(t) /\ ~ (Len(s) + i <= Len(s))
        /\ (Len(s) + i) - Len(s) = i
    BY <1>1
  <2>2. u[Len(s) + i] = b BY <1>1, <1>4, <2>1 DEF u
  <2> QED BY <1>1, <2>1, <2>2 DEF Occurs, u
<1>5. DOMAIN u = 1..Len(s) + Len(t) BY <1>1 DEF u
<1>6. Occurs(b, u) => Occurs(b, s) \/ Occurs(b, t) BY <1>2, <1>5 DEF Occurs
<1>7. Occurs(b, s) \/ Occurs(b, t) => Occurs(b, u)
  <2>1. ASSUME Occurs(b, s) PROVE Occurs(b, u)
    <3>1. PICK i \in 1..Len(s) : s[i] = b BY <1>1, <2>1 DEF Occurs
    <3> QED BY <1>3, <3>1
  <2>2. ASSUME Occurs(b, t) PROVE Occurs(b, u)
    <3>1. PICK i \in 1..Len(t) : t[i] = b BY <1>1, <2>2 DEF Occurs
    <3> QED BY <1>4, <3>1
  <2> QED BY <2>1, <2>2
<1> QED BY <1>6, <1>7 DEF u

\* No byte is in two sequences in a row twice, if it is not in both.
LEMMA OnceCat ==
  ASSUME NEW S, NEW s \in Seq(S), NEW t \in Seq(S), Once(s), Once(t),
         \A b \in Typed : ~ (Occurs(b, s) /\ Occurs(b, t))
  PROVE  Once(s \o t)
<1>1. /\ Len(s) \in Nat /\ Len(t) \in Nat
      /\ DOMAIN s = 1..Len(s) /\ DOMAIN t = 1..Len(t) /\ DOMAIN (s \o t) = 1..Len(s) + Len(t)
      /\ \A i \in 1..Len(s) + Len(t) : (s \o t)[i] = IF i <= Len(s) THEN s[i] ELSE t[i - Len(s)]
  BY ConcatProperties, LenProperties
<1> DEFINE u == s \o t
<1> SUFFICES ASSUME NEW i \in 1..Len(s) + Len(t), NEW j \in 1..Len(s) + Len(t), u[i] = u[j], u[i] \in Typed
             PROVE  i = j
  BY <1>1 DEF Once
<1>2. /\ i <= Len(s) => i \in DOMAIN s /\ u[i] = s[i]
      /\ j <= Len(s) => j \in DOMAIN s /\ u[j] = s[j]
      /\ i > Len(s) => i - Len(s) \in DOMAIN t /\ u[i] = t[i - Len(s)]
      /\ j > Len(s) => j - Len(s) \in DOMAIN t /\ u[j] = t[j - Len(s)]
  BY <1>1
<1> HIDE DEF u
<1>3. CASE i <= Len(s) /\ j <= Len(s) BY <1>2, <1>3 DEF Once
<1>4. CASE i > Len(s) /\ j > Len(s)
  <2>1. i - Len(s) = j - Len(s) BY <1>2, <1>4 DEF Once
  <2> QED BY <1>1, <2>1
<1>5. CASE i <= Len(s) /\ j > Len(s)
  <2>1. Occurs(u[i], s) /\ Occurs(u[i], t) BY <1>2, <1>5 DEF Occurs
  <2> QED BY <2>1
<1>6. CASE i > Len(s) /\ j <= Len(s)
  <2>1. Occurs(u[i], s) /\ Occurs(u[i], t) BY <1>2, <1>6 DEF Occurs
  <2> QED BY <2>1
<1> QED BY <1>1, <1>3, <1>4, <1>5, <1>6

\* A sequence cut in two: each byte is in one part, and not in both if it was there
\* once.
LEMMA Cut ==
  ASSUME NEW S, NEW s \in Seq(S), NEW n \in 0..Len(s)
  PROVE  LET p == SubSeq(s, 1, n)
             q == SubSeq(s, n + 1, Len(s))
         IN  /\ p \in Seq(S) /\ Len(p) = n /\ \A i \in 1..n : p[i] = s[i]
             /\ q \in Seq(S) /\ Len(q) = Len(s) - n /\ \A i \in 1..Len(s) - n : q[i] = s[n + i]
             /\ \A b : Occurs(b, p) \/ Occurs(b, q) <=> Occurs(b, s)
             /\ Once(s) => Once(p) /\ Once(q) /\ \A b \in Typed : ~ (Occurs(b, p) /\ Occurs(b, q))
<1> DEFINE p == SubSeq(s, 1, n)
           q == SubSeq(s, n + 1, Len(s))
<1>1. Len(s) \in Nat /\ n \in Nat /\ n <= Len(s) /\ DOMAIN s = 1..Len(s) BY LenProperties
<1>2. p \in Seq(S) /\ Len(p) = n /\ \A i \in 1..n : p[i] = s[i]
  <2>1. \A i \in 1..n : s[i] \in S BY <1>1, ElementOfSeq
  <2>2. p = [i \in 1..n |-> s[i]] BY <1>1, SMTT(20)
  <2> QED BY <1>1, <2>1, <2>2
<1>3. q \in Seq(S) /\ Len(q) = Len(s) - n /\ \A i \in 1..Len(s) - n : q[i] = s[n + i]
  <2>1. /\ n + 1 \in Int /\ Len(s) \in Int /\ \A i \in n + 1..Len(s) : s[i] \in S
        /\ Len(s) - (n + 1) + 1 = Len(s) - n
    BY <1>1, ElementOfSeq
  <2>2. /\ q \in Seq(S)
        /\ Len(q) = IF n + 1 <= Len(s) THEN Len(s) - (n + 1) + 1 ELSE 0
        /\ \A i \in 1..Len(s) - (n + 1) + 1 : q[i] = s[(n + 1) + i - 1]
    BY <2>1, SubSeqProperties
  <2> HIDE DEF q
  <2>3. Len(q) = Len(s) - n
    <3>1. CASE n + 1 <= Len(s) BY <2>1, <2>2, <3>1, Zenon
    <3>2. CASE ~ (n + 1 <= Len(s))
      <4>1. \A x, y \in Nat : x <= y /\ ~ (x + 1 <= y) => y - x = 0 OBVIOUS
      <4>2. Len(s) - n = 0 BY <1>1, <3>2, <4>1, Zenon
      <4> QED BY <2>2, <3>2, <4>2, Zenon
    <3> QED BY <3>1, <3>2
  <2>4. \A i \in 1..Len(s) - n : (n + 1) + i - 1 = n + i BY <1>1
  <2> QED BY <2>1, <2>2, <2>3, <2>4, Zenon
<1>4. DOMAIN p = 1..n /\ DOMAIN q = 1..Len(s) - n BY <1>2, <1>3, LenProperties
<1> HIDE DEF p, q
<1>5. ASSUME NEW b PROVE /\ Occurs(b, p) => \E i \in 1..n : s[i] = b
                         /\ Occurs(b, q) => \E i \in n + 1..Len(s) : s[i] = b
  <2>1. Occurs(b, p) => \E i \in 1..n : s[i] = b BY <1>2, <1>4 DEF Occurs
  <2>2. ASSUME NEW i \in 1..Len(s) - n, q[i] = b PROVE n + i \in n + 1..Len(s) /\ s[n + i] = b
    BY <1>1, <1>3, <2>2
  <2>3. Occurs(b, q) => \E i \in n + 1..Len(s) : s[i] = b BY <1>4, <2>2 DEF Occurs
  <2> QED BY <2>1, <2>3
<1>6. ASSUME NEW b, Occurs(b, p) \/ Occurs(b, q) PROVE Occurs(b, s)
  <2>1. PICK i \in 1..Len(s) : s[i] = b BY <1>1, <1>5, <1>6
  <2> QED BY <1>1, <2>1 DEF Occurs
<1>7. ASSUME Once(s) PROVE Once(p)
  BY <1>1, <1>2, <1>4, <1>7 DEF Once
<1>8. ASSUME Once(s) PROVE Once(q)
  <2> SUFFICES ASSUME NEW i \in 1..Len(s) - n, NEW j \in 1..Len(s) - n, q[i] = q[j], q[i] \in Typed PROVE i = j
    BY <1>4 DEF Once
  <2>1. n + i \in DOMAIN s /\ n + j \in DOMAIN s /\ s[n + i] = q[i] /\ s[n + j] = q[j] BY <1>1, <1>3
  <2>2. n + i = n + j BY <1>8, <2>1 DEF Once
  <2> QED BY <1>1, <2>2
<1>9. ASSUME Once(s), NEW b \in Typed, Occurs(b, p), Occurs(b, q) PROVE FALSE
  <2>1. PICK i \in 1..n : s[i] = b BY <1>5, <1>9
  <2>2. PICK j \in n + 1..Len(s) : s[j] = b BY <1>5, <1>9
  <2>3. i \in DOMAIN s /\ j \in DOMAIN s /\ i # j BY <1>1
  <2> QED BY <1>9, <2>1, <2>2, <2>3 DEF Once
<1>10. ASSUME NEW b, Occurs(b, s) PROVE Occurs(b, p) \/ Occurs(b, q)
  <2>1. PICK i \in 1..Len(s) : s[i] = b BY <1>1, <1>10 DEF Occurs
  <2>2. CASE i <= n
    <3>1. i \in 1..n BY <1>1, <2>2
    <3> QED BY <1>2, <1>4, <2>1, <3>1 DEF Occurs
  <2>3. CASE i > n
    <3>1. i - n \in 1..Len(s) - n /\ n + (i - n) = i BY <1>1, <2>3
    <3>2. q[i - n] = b BY <1>3, <2>1, <3>1
    <3> QED BY <1>4, <3>1, <3>2 DEF Occurs
  <2> QED BY <1>1, <2>2, <2>3
<1> QED BY <1>2, <1>3, <1>6, <1>7, <1>8, <1>9, <1>10 DEF p, q

\* What read leaves in buf: the bytes that came, and behind them those there were.
LEMMA Filled ==
  ASSUME TypeOK, NEW s \in Seq(Byte), Len(s) <= MAXSIZE
  PROVE  /\ Fill(s) \in [1..MAXSIZE -> Byte \cup {NUL}]
         /\ \A b : Occurs(b, Fill(s)) => Occurs(b, s) \/ Occurs(b, buf)
         /\ Once(s) /\ Once(buf) /\ (\A b \in Typed : ~ (Occurs(b, s) /\ Occurs(b, buf))) => Once(Fill(s))
<1>1. MAXSIZE \in Nat /\ Len(s) \in Nat /\ DOMAIN s = 1..Len(s) BY ClientAssumption, LenProperties
<1>2. buf \in [1..MAXSIZE -> Byte \cup {NUL}] BY Typing
<1>3. \A i \in 1..Len(s) : s[i] \in Byte BY <1>1, ElementOfSeq
<1> DEFINE u == Fill(s)
<1>4. u = [i \in 1..MAXSIZE |-> IF i <= Len(s) THEN s[i] ELSE buf[i]] BY DEF Fill
<1> HIDE DEF u
<1>5. /\ DOMAIN u = 1..MAXSIZE
      /\ \A i \in 1..MAXSIZE : /\ i <= Len(s) => i \in DOMAIN s /\ u[i] = s[i]
                               /\ i > Len(s) => i \in DOMAIN buf /\ u[i] = buf[i]
  BY <1>1, <1>2, <1>4
<1>6. u \in [1..MAXSIZE -> Byte \cup {NUL}] BY <1>1, <1>2, <1>3, <1>4
<1>7. ASSUME NEW b, Occurs(b, u) PROVE Occurs(b, s) \/ Occurs(b, buf)
  <2>1. PICK i \in 1..MAXSIZE : u[i] = b BY <1>5, <1>7 DEF Occurs
  <2>2. CASE i <= Len(s) BY <1>5, <2>1, <2>2 DEF Occurs
  <2>3. CASE i > Len(s) BY <1>5, <2>1, <2>3 DEF Occurs
  <2> QED BY <1>1, <2>2, <2>3
<1>8. ASSUME Once(s), Once(buf), \A b \in Typed : ~ (Occurs(b, s) /\ Occurs(b, buf)) PROVE Once(u)
  <2> SUFFICES ASSUME NEW i \in 1..MAXSIZE, NEW j \in 1..MAXSIZE, u[i] = u[j], u[i] \in Typed PROVE i = j
    BY <1>5 DEF Once
  <2>1. CASE i <= Len(s) /\ j <= Len(s) BY <1>5, <1>8, <2>1 DEF Once
  <2>2. CASE i > Len(s) /\ j > Len(s) BY <1>5, <1>8, <2>2 DEF Once
  <2>3. CASE i <= Len(s) /\ j > Len(s)
    <3>1. Occurs(u[i], s) /\ Occurs(u[i], buf) BY <1>5, <2>3 DEF Occurs
    <3> QED BY <1>8, <3>1
  <2>4. CASE i > Len(s) /\ j <= Len(s)
    <3>1. Occurs(u[i], s) /\ Occurs(u[i], buf) BY <1>5, <2>4 DEF Occurs
    <3> QED BY <1>8, <3>1
  <2> QED BY <1>1, <2>1, <2>2, <2>3, <2>4
<1> QED BY <1>6, <1>7, <1>8 DEF u

\* An empty buffer holds no byte.
LEMMA Cleared ==
  /\ Clear \in [1..MAXSIZE -> Byte \cup {NUL}] /\ Once(Clear)
  /\ \A b \in Typed : ~ Occurs(b, Clear)
<1>1. NUL \notin Typed BY ClientAssumption DEF Typed
<1>2. DOMAIN Clear = 1..MAXSIZE /\ \A i \in 1..MAXSIZE : Clear[i] = NUL BY DEF Clear
<1>3. Clear \in [1..MAXSIZE -> Byte \cup {NUL}] BY DEF Clear
<1> QED BY <1>1, <1>2, <1>3 DEF Once, Occurs

\* The first k, if any, that has a property: what CHOOSE in Strings finds.
LEMMA FirstNat ==
  ASSUME NEW T, T \subseteq Nat, T # {}
  PROVE  \E x \in T : \A y \in T : x <= y
<1> DEFINE R == OpToRel(<, Nat)
<1>1. \A x, y \in Nat : <<y, x>> \in R <=> y < x
  BY DEF OpToRel
<1>2. IsWellFoundedOn(R, Nat)
  BY NatLessThanWellFounded, Zenon
<1> HIDE DEF R
<1>3. PICK x \in T : \A y \in T : ~ (<<y, x>> \in R)
  BY <1>2, WFMin, Zenon
<1>4. ASSUME NEW y \in T PROVE x <= y
  <2>1. x \in Nat /\ y \in Nat /\ ~ (y < x)
    BY <1>1, <1>3, Zenon
  <2> QED BY <2>1
<1> QED BY <1>3, <1>4

\* What do_write writes is the front of buf, up to its first NUL, and perhaps a byte
\* from behind buf when buf is full.
LEMMA StringFacts ==
  ASSUME TypeOK, NEW s \in Strings
  PROVE  \E n \in 0..MAXSIZE :
           /\ \A i \in 1..n : buf[i] # NUL
           /\ n = MAXSIZE \/ buf[n + 1] = NUL
           /\ \/ s = [i \in 1..n |-> buf[i]]
              \/ n = MAXSIZE /\ s = Append([i \in 1..n |-> buf[i]], Junk)
<1> DEFINE P(k) == (\A i \in 1..k : buf[i] # NUL) /\ (k = MAXSIZE \/ buf[k + 1] = NUL)
           n == CHOOSE k \in 0..MAXSIZE : P(k)
           T == {k \in 0..MAXSIZE : k = MAXSIZE \/ buf[k + 1] = NUL}
<1>1. MAXSIZE \in Nat BY ClientAssumption
<1>2. \E k \in 0..MAXSIZE : P(k)
  <2>1. T \subseteq Nat /\ MAXSIZE \in T BY <1>1
  <2>2. PICK k \in T : \A y \in T : k <= y
    <3> HIDE DEF T
    <3> QED BY <2>1, FirstNat, Zenon
  <2>3. ASSUME NEW i \in 1..k, buf[i] = NUL PROVE FALSE
    <3>1. i - 1 \in 0..MAXSIZE /\ (i - 1) + 1 = i /\ i - 1 < k BY <1>1, <2>2
    <3>2. i - 1 \in T BY <2>3, <3>1
    <3> HIDE DEF T
    <3>3. k <= i - 1 BY <2>2, <3>2
    <3>4. k \in Nat /\ i \in Nat BY <2>1, <2>2
    <3> QED BY <3>1, <3>3, <3>4
  <2> QED BY <2>2, <2>3
<1>3. n \in 0..MAXSIZE /\ P(n)
  <2> HIDE DEF P
  <2> QED BY <1>2
<1>4. Strings = IF n < MAXSIZE THEN {[i \in 1..n |-> buf[i]]}
                ELSE {[i \in 1..n |-> buf[i]], Append([i \in 1..n |-> buf[i]], Junk)}
  BY Zenon DEF Strings
<1> HIDE DEF n
<1>5. n < MAXSIZE \/ n = MAXSIZE BY <1>1, <1>3
<1>6. \/ s = [i \in 1..n |-> buf[i]]
      \/ n = MAXSIZE /\ s = Append([i \in 1..n |-> buf[i]], Junk)
  BY <1>4, <1>5, Zenon
<1> QED BY <1>3, <1>6

\* The string is made of bytes of buf, each where it is in buf, and is not empty if
\* buf has a byte in front.
LEMMA StringBytes ==
  ASSUME TypeOK, NEW s \in Strings
  PROVE  /\ s \in Seq(Byte)
         /\ \A b \in Typed : Occurs(b, s) => Occurs(b, buf)
         /\ Once(buf) => Once(s)
         /\ buf[1] # NUL => s # <<>>
<1>1. PICK n \in 0..MAXSIZE : /\ \A i \in 1..n : buf[i] # NUL
                              /\ n = MAXSIZE \/ buf[n + 1] = NUL
                              /\ \/ s = [i \in 1..n |-> buf[i]]
                                 \/ n = MAXSIZE /\ s = Append([i \in 1..n |-> buf[i]], Junk)
  BY StringFacts
<1> DEFINE t == [i \in 1..n |-> buf[i]]
<1>2. MAXSIZE \in Nat /\ n \in Nat /\ \A i \in 1..n : i \in DOMAIN buf /\ buf[i] \in Byte
  <2>1. MAXSIZE \in Nat /\ n \in Nat /\ n <= MAXSIZE BY ClientAssumption
  <2>2. buf \in [1..MAXSIZE -> Byte \cup {NUL}] BY Typing
  <2> QED BY <1>1, <2>1, <2>2
<1>3. t \in Seq(Byte) /\ Len(t) = n /\ \A i \in 1..n : t[i] = buf[i]
  BY <1>2
<1>4. Junk \in Byte /\ Junk \notin Typed BY ClientAssumption DEF Byte, Typed
<1> HIDE DEF t
<1>5. s \in Seq(Byte) /\ \A i \in DOMAIN s : s[i] \in Typed => i \in DOMAIN buf /\ s[i] = buf[i]
  <2>1. CASE s = t BY <1>2, <1>3, <2>1
  <2>2. CASE s = Append(t, Junk)
    <3>1. /\ s \in Seq(Byte) /\ DOMAIN s = 1..n + 1 /\ s[n + 1] = Junk
          /\ \A i \in 1..n : s[i] = t[i]
      BY <1>2, <1>3, <1>4, <2>2
    <3>2. ASSUME NEW i \in DOMAIN s, s[i] \in Typed PROVE i \in DOMAIN buf /\ s[i] = buf[i]
      <4>1. i \in 1..n BY <1>2, <1>4, <3>1, <3>2
      <4> QED BY <1>2, <1>3, <3>1, <4>1
    <3> QED BY <3>1, <3>2
  <2> QED BY <1>1, <2>1, <2>2 DEF t
<1>6. ASSUME NEW b \in Typed, Occurs(b, s) PROVE Occurs(b, buf)
  BY <1>5, <1>6 DEF Occurs
<1>7. ASSUME Once(buf) PROVE Once(s)
  BY <1>5, <1>7 DEF Once
<1>8. ASSUME buf[1] # NUL, s = <<>> PROVE FALSE
  <2>1. MAXSIZE > 0 BY ClientAssumption
  <2>2. CASE n = 0 BY <1>1, <1>2, <1>8, <2>1, <2>2
  <2>3. CASE n > 0
    <3>1. s # t BY <1>2, <1>3, <1>8, <2>3
    <3>2. s = Append(t, Junk) BY <1>1, <3>1 DEF t
    <3>3. Len(s) = n + 1 BY <1>3, <1>4, <3>2, AppendProperties
    <3>4. Len(s) = 0 BY <1>8
    <3> QED BY <1>2, <3>3, <3>4
  <2> QED BY <1>2, <2>2, <2>3
<1> QED BY <1>5, <1>6, <1>7, <1>8
-----------------------------------------------------------------------------
(* A byte is in one place at most, whatever the pace.                      *)

\* A step that leaves the bytes where they are.
LEMMA Still ==
  ASSUME Apart, Queued, UNCHANGED <<buf, toServer, toClient, shown, lines, typed, longest>>
  PROVE  Apart' /\ Queued'
  BY DEF Apart, Queued, Held, After, LineOK, Before, Once, Occurs

\* A step that reads no line keeps the lines behind what was read.
LEMMA StillQueued ==
  ASSUME Queued, UNCHANGED <<lines, typed, longest>>, \A b \in Typed : Held(b)' => Held(b)
  PROVE  Queued'
  BY DEF Queued, After, LineOK, Before

\* An event that is handled is gone; the others are of what is registered, if the
\* step only registers a descriptor that was not.
LEMMA TakeEvents ==
  ASSUME TypeOK, Events, NEW f \in Fd, NEW kind \in {"in", "out"}, Take(f, kind),
         \A g \in Fd : g # f /\ reg[g] # "none" => reg'[g] = reg[g]
  PROVE  Events' /\ batch' \subseteq Fd \X {"in", "out"} /\ reg[f] = kind
<1>1. alive /\ <<f, kind>> \in batch /\ batch' = batch \ {<<f, kind>>} BY DEF Take
<1>2. batch \subseteq Fd \X {"in", "out"} BY Typing
<1>3. reg[f] = kind BY <1>1, Zenon DEF Events
<1>4. ASSUME NEW g \in Fd, NEW k \in {"in", "out"}, <<g, k>> \in batch' PROVE reg'[g] = k
  <2>1. <<g, k>> \in batch /\ <<g, k>> # <<f, kind>> BY <1>1, <1>4
  <2>2. reg[g] = k BY <2>1, Zenon DEF Events
  <2>3. g # f BY <1>3, <2>1, <2>2
  <2> QED BY <2>2, <2>3
<1> QED BY <1>1, <1>2, <1>3, <1>4 DEF Events

\* The server sends back the front of what it was sent.
LEMMA AnswerMoves ==
  ASSUME TypeOK, Apart, Queued, Answer
  PROVE  /\ toServer' \in Seq(Byte) /\ toClient' \in Seq(Byte) /\ split' \in BOOLEAN
         /\ Apart' /\ Queued'
<1>1. PICK n \in 1..Len(toServer) :
        /\ toClient' = toClient \o SubSeq(toServer, 1, n)
        /\ toServer' = SubSeq(toServer, n + 1, Len(toServer))
        /\ split' = (split \/ n < Len(toServer))
        /\ UNCHANGED <<buf, typed, longest, lines, shown>>
  BY Zenon DEF Answer, user
<1>2. toServer \in Seq(Byte) /\ toClient \in Seq(Byte) /\ split \in BOOLEAN BY Typing
<1> DEFINE p == SubSeq(toServer, 1, n)
           q == SubSeq(toServer, n + 1, Len(toServer))
<1>3. n \in 0..Len(toServer) BY <1>2
<1>4. /\ p \in Seq(Byte) /\ q \in Seq(Byte)
      /\ \A b : Occurs(b, p) \/ Occurs(b, q) => Occurs(b, toServer)
      /\ Once(toServer) => Once(p) /\ Once(q) /\ \A b \in Typed : ~ (Occurs(b, p) /\ Occurs(b, q))
  BY <1>2, <1>3, Cut
<1>5. toServer' = q /\ toClient' = toClient \o p BY <1>1
<1> HIDE DEF p, q
<1>6. toClient' \in Seq(Byte) BY <1>2, <1>4, <1>5, ConcatProperties
<1>7. \A b : Occurs(b, toClient)' <=> Occurs(b, toClient) \/ Occurs(b, p)
  <2>1. \A b : Occurs(b, toClient \o p) <=> Occurs(b, toClient) \/ Occurs(b, p) BY <1>2, <1>4, OccursCat
  <2> QED BY <1>5, <2>1, Zenon DEF Occurs
<1>8. \A b : Occurs(b, toServer)' <=> Occurs(b, q) BY <1>5 DEF Occurs
<1>9. \A b : (Occurs(b, buf)' <=> Occurs(b, buf)) /\ (Occurs(b, shown)' <=> Occurs(b, shown))
  BY <1>1 DEF Occurs
<1>10. Once(toClient \o p)
  <2>1. Once(toClient) /\ Once(p) BY <1>4 DEF Apart
  <2>2. \A b \in Typed : ~ (Occurs(b, toClient) /\ Occurs(b, p)) BY <1>4 DEF Apart
  <2> QED BY <1>2, <1>4, <2>1, <2>2, OnceCat
<1>11. Once(buf)' /\ Once(toServer)' /\ Once(toClient)'
  BY <1>1, <1>4, <1>5, <1>10, Zenon DEF Apart, Once
<1>12. Apart'
  BY <1>4, <1>7, <1>8, <1>9, <1>11 DEF Apart
<1>13. Queued'
  <2>1. \A b \in Typed : Held(b)' => Held(b) BY <1>4, <1>7, <1>8, <1>9 DEF Held
  <2> QED BY <1>1, <2>1, StillQueued
<1>14. split' \in BOOLEAN BY <1>1, <1>2, Zenon
<1> QED BY <1>4, <1>5, <1>6, <1>12, <1>13, <1>14

\* A read that puts new bytes into buf.
LEMMA FillMoves ==
  ASSUME TypeOK, Apart, NEW s \in Seq(Byte), Len(s) <= MAXSIZE, Once(s), buf' = Fill(s),
         toServer' = toServer, shown' = shown, Once(toClient)',
         \A b \in Typed : Occurs(b, toClient)' => Occurs(b, toClient),
         \A b \in Typed : Occurs(b, s) => /\ ~ Occurs(b, buf) /\ ~ Occurs(b, toServer)
                                          /\ ~ Occurs(b, toClient)' /\ ~ Occurs(b, shown)
  PROVE  /\ buf' \in [1..MAXSIZE -> Byte \cup {NUL}] /\ Apart'
         /\ \A b \in Typed : Occurs(b, buf)' => Occurs(b, s) \/ Occurs(b, buf)
<1>1. Fill(s) \in [1..MAXSIZE -> Byte \cup {NUL}] BY Filled
<1>2. \A b : Occurs(b, Fill(s)) => Occurs(b, s) \/ Occurs(b, buf) BY Filled
<1>3. Once(Fill(s))
  <2>1. Once(buf) BY DEF Apart
  <2>2. \A b \in Typed : ~ (Occurs(b, s) /\ Occurs(b, buf)) OBVIOUS
  <2> QED BY <2>1, <2>2, Filled
<1>4. \A b : Occurs(b, buf)' => Occurs(b, s) \/ Occurs(b, buf) BY <1>2 DEF Occurs
<1>5. \A b : (Occurs(b, toServer)' <=> Occurs(b, toServer)) /\ (Occurs(b, shown)' <=> Occurs(b, shown))
  BY DEF Occurs
<1>6. Once(buf)' /\ Once(toServer)' BY <1>3 DEF Once, Apart
<1>7. Apart' BY <1>4, <1>5, <1>6 DEF Apart
<1> QED BY <1>1, <1>4, <1>7

\* The first line: its bytes are new, and the lines behind it move up.
LEMMA FirstLine ==
  ASSUME TypeOK, Queued, lines # <<>>
  PROVE  /\ Head(lines) = lines[1] /\ Head(lines) \in Seq(Byte) /\ 1 \in DOMAIN lines
         /\ Head(lines) \in Seq(Typed) /\ Len(Head(lines)) \in 1..longest
         /\ \A i \in DOMAIN Head(lines) : Head(lines)[i] \in Typed
         /\ Once(Head(lines)) /\ \A b \in Typed : Occurs(b, Head(lines)) => ~ Held(b)
         /\ Tail(lines) \in Seq(Seq(Typed)) /\ Len(Tail(lines)) = Len(lines) - 1
         /\ \A k \in 1..Len(lines) - 1 : Tail(lines)[k] = lines[k + 1]
<1>1. lines \in Seq(Seq(Typed)) /\ typed \in 0..MaxTyped BY Typing
<1>2. /\ Head(lines) = lines[1] /\ Head(lines) \in Seq(Typed) /\ 1 \in DOMAIN lines
      /\ Tail(lines) \in Seq(Seq(Typed)) /\ Len(Tail(lines)) = Len(lines) - 1
      /\ \A k \in 1..Len(lines) - 1 : Tail(lines)[k] = lines[k + 1]
  BY <1>1
<1> DEFINE h == Head(lines)
<1> HIDE DEF h
<1>3. h \in Seq(Typed) /\ h = lines[1] BY <1>2 DEF h
<1>4. Len(h) \in Nat /\ DOMAIN h = 1..Len(h) /\ \A i \in DOMAIN h : h[i] \in Typed
  BY <1>3, LenProperties, ElementOfSeq
<1>5. h \in Seq(Byte)
  <2>1. \A i \in DOMAIN h : h[i] \in Byte BY <1>4 DEF Byte
  <2> QED BY <1>3, <1>4, <2>1
<1>6. Len(h) \in 1..longest BY <1>2, <1>3 DEF Queued, LineOK
<1>7. Once(h)
  <2>1. \A i, j \in DOMAIN h : i < j => h[i] < h[j] BY <1>2, <1>3, Zenon DEF Queued, LineOK
  <2> SUFFICES ASSUME NEW i \in DOMAIN h, NEW j \in DOMAIN h, h[i] = h[j] PROVE i = j
    BY DEF Once
  <2>2. h[i] \in Int /\ h[j] \in Int /\ i \in Int /\ j \in Int BY <1>4 DEF Typed
  <2>3. ~ (i < j) /\ ~ (j < i) BY <2>1, <2>2
  <2> QED BY <2>2, <2>3
<1>8. ASSUME NEW b \in Typed, Occurs(b, h), Held(b) PROVE FALSE
  <2>1. PICK i \in DOMAIN h : h[i] = b BY <1>8 DEF Occurs
  <2>2. After(b) BY <1>8 DEF Queued
  <2>3. b < lines[1][i] BY <1>2, <1>3, <2>2 DEF After
  <2> QED BY <1>3, <2>1, <2>3 DEF Typed
<1> QED BY <1>2, <1>3, <1>4, <1>5, <1>6, <1>7, <1>8 DEF h

\* do_read on stdin: the front of the line that fits buf, and what is left of it.
LEMMA ReadStdinMoves ==
  ASSUME TypeOK, Apart, Queued, ReadStdin
  PROVE  /\ buf' \in [1..MAXSIZE -> Byte \cup {NUL}] /\ lines' \in Seq(Seq(Typed))
         /\ Apart' /\ Queued'
<1> DEFINE h == Head(lines)
           n == Smaller(Len(h), MAXSIZE)
           p == SubSeq(h, 1, n)
           q == SubSeq(h, n + 1, Len(h))
<1>1. /\ lines # <<>> /\ buf' = Fill(p)
      /\ lines' = IF n = Len(h) THEN Tail(lines) ELSE [lines EXCEPT ![1] = q]
      /\ UNCHANGED <<toServer, toClient, shown, typed, longest>>
  BY DEF ReadStdin
<1>2. /\ Len(lines) \in Nat /\ DOMAIN lines = 1..Len(lines) /\ MAXSIZE \in Nat /\ typed \in Nat
      /\ longest \in Nat /\ lines \in Seq(Seq(Typed))
  <2>1. lines \in Seq(Seq(Typed)) /\ typed \in 0..MaxTyped /\ longest \in 0..MaxTyped BY Typing
  <2> QED BY <2>1, LenProperties, ClientAssumption
<1>3. /\ h = lines[1] /\ h \in Seq(Byte) /\ h \in Seq(Typed) /\ 1 \in DOMAIN lines
      /\ Len(h) \in 1..longest /\ \A i \in DOMAIN h : h[i] \in Typed
      /\ Once(h) /\ \A b \in Typed : Occurs(b, h) => ~ Held(b)
  BY <1>1, FirstLine
<1>4. /\ Tail(lines) \in Seq(Seq(Typed)) /\ Len(Tail(lines)) = Len(lines) - 1
      /\ \A k \in 1..Len(lines) - 1 : Tail(lines)[k] = lines[k + 1]
  BY <1>1, FirstLine
<1>5. n \in 0..Len(h) /\ n <= MAXSIZE /\ DOMAIN h = 1..Len(h) /\ Len(h) \in Nat
  BY <1>2, <1>3, LenProperties DEF Smaller
<1> HIDE DEF h, n
<1>6. /\ p \in Seq(Byte) /\ Len(p) = n /\ \A i \in 1..n : p[i] = h[i]
      /\ \A b : Occurs(b, p) => Occurs(b, h)
      /\ Once(p)
  BY <1>3, <1>5, Cut
<1>7. q \in Seq(Typed) /\ Len(q) = Len(h) - n /\ \A i \in 1..Len(h) - n : q[i] = h[n + i]
  BY <1>3, <1>5, Cut
<1>8. DOMAIN p = 1..n /\ DOMAIN q = 1..Len(h) - n BY <1>6, <1>7, LenProperties
<1> HIDE DEF p, q
<1>9. Once(toClient)' /\ \A b : Occurs(b, toClient)' <=> Occurs(b, toClient) BY <1>1 DEF Apart, Once, Occurs
<1>10. /\ buf' \in [1..MAXSIZE -> Byte \cup {NUL}] /\ Apart'
       /\ \A b \in Typed : Occurs(b, buf)' => Occurs(b, p) \/ Occurs(b, buf)
  <2>1. Len(p) <= MAXSIZE BY <1>5, <1>6
  <2>2. \A b \in Typed : Occurs(b, p) => /\ ~ Occurs(b, buf) /\ ~ Occurs(b, toServer)
                                         /\ ~ Occurs(b, toClient)' /\ ~ Occurs(b, shown)
    BY <1>3, <1>6, <1>9 DEF Held
  <2> QED BY <1>1, <1>6, <1>9, <2>1, <2>2, FillMoves
<1>11. \A b \in Typed : Held(b)' => Held(b) \/ Occurs(b, p)
  <2>1. \A b : (Occurs(b, toServer)' <=> Occurs(b, toServer)) /\ (Occurs(b, shown)' <=> Occurs(b, shown))
    BY <1>1 DEF Occurs
  <2> QED BY <1>9, <1>10, <2>1 DEF Held
<1>12. /\ \A i \in DOMAIN h : h[i] <= typed
       /\ \A i, j \in DOMAIN h : i < j => h[i] < h[j]
  BY <1>3, Zenon DEF Queued, LineOK
<1>13. \A l \in DOMAIN lines : 1 < l => \A i \in DOMAIN h, j \in DOMAIN lines[l] : h[i] < lines[l][j]
  BY <1>3, Zenon DEF Queued, Before
<1>14. \A b \in Typed : Occurs(b, p) => \E i \in 1..n : h[i] = b /\ i \in DOMAIN h
  BY <1>5, <1>6, <1>8 DEF Occurs
<1>15. CASE n = Len(h)
  <2>1. lines' = Tail(lines) BY <1>1, <1>15
  <2>2. /\ DOMAIN lines' = 1..Len(lines) - 1
        /\ \A k \in DOMAIN lines' : k + 1 \in DOMAIN lines /\ 1 < k + 1 /\ lines'[k] = lines[k + 1] /\ k \in Int
    BY <1>2, <1>4, <2>1, LenProperties
  <2>3. \A k \in DOMAIN lines' : LineOK(k)' BY <1>1, <2>2 DEF Queued, LineOK
  <2>4. ASSUME NEW k \in DOMAIN lines', NEW l \in DOMAIN lines', k < l PROVE Before(k, l)'
    <3>1. k + 1 < l + 1 BY <2>2, <2>4
    <3>2. Before(k + 1, l + 1) BY <2>2, <3>1 DEF Queued
    <3> QED BY <2>2, <3>2 DEF Before
  <2>5. ASSUME NEW b \in Typed, Held(b)' PROVE After(b)'
    <3>1. CASE Held(b)
      <4>1. After(b) BY <3>1 DEF Queued
      <4> QED BY <1>1, <2>2, <4>1 DEF After
    <3>2. CASE Occurs(b, p)
      <4>1. PICK i \in DOMAIN h : h[i] = b BY <1>14, <3>2
      <4>2. b <= typed BY <1>12, <4>1
      <4>3. ASSUME NEW k \in DOMAIN lines', NEW j \in DOMAIN lines'[k] PROVE b < lines'[k][j]
        BY <1>13, <2>2, <4>1
      <4> QED BY <1>1, <4>2, <4>3 DEF After
    <3> QED BY <1>11, <2>5, <3>1, <3>2
  <2> QED BY <1>4, <1>10, <2>1, <2>3, <2>4, <2>5 DEF Queued
<1>16. CASE n # Len(h)
  <2>1. lines' = [lines EXCEPT ![1] = q] BY <1>1, <1>16
  <2>2. lines' \in Seq(Seq(Typed)) BY <1>2, <1>3, <1>7, <2>1
  <2>3. DOMAIN lines' = DOMAIN lines /\ lines'[1] = q /\ \A k \in DOMAIN lines : k # 1 => lines'[k] = lines[k]
    BY <1>3, <2>1
  <2>4. \A i \in DOMAIN q : n + i \in DOMAIN h /\ q[i] = h[n + i] /\ i \in Nat BY <1>5, <1>7, <1>8
  <2>5. ASSUME NEW k \in DOMAIN lines' PROVE LineOK(k)'
    <3>1. CASE k = 1
      <4>1. Len(q) \in 1..longest BY <1>2, <1>3, <1>5, <1>7, <1>16
      <4>2. \A i \in DOMAIN q : q[i] <= typed BY <1>12, <2>4
      <4>3. ASSUME NEW i \in DOMAIN q, NEW j \in DOMAIN q, i < j PROVE q[i] < q[j]
        <5>1. n + i < n + j BY <1>5, <2>4, <4>3
        <5> QED BY <1>12, <2>4, <5>1
      <4> QED BY <1>1, <2>3, <3>1, <4>1, <4>2, <4>3 DEF LineOK
    <3>2. CASE k # 1 BY <1>1, <2>3, <3>2 DEF Queued, LineOK
    <3> QED BY <3>1, <3>2
  <2>6. ASSUME NEW k \in DOMAIN lines', NEW l \in DOMAIN lines', k < l PROVE Before(k, l)'
    <3>1. l \in DOMAIN lines /\ 1 < l /\ lines'[l] = lines[l] BY <1>2, <2>3, <2>6
    <3>2. CASE k = 1 BY <1>13, <2>3, <2>4, <3>1, <3>2 DEF Before
    <3>3. CASE k # 1
      <4>1. Before(k, l) BY <2>3, <2>6 DEF Queued
      <4> QED BY <2>3, <3>1, <3>3, <4>1 DEF Before
    <3> QED BY <3>2, <3>3
  <2>7. ASSUME NEW b \in Typed, Held(b)' PROVE After(b)'
    <3>1. CASE Held(b)
      <4>1. After(b) BY <3>1 DEF Queued
      <4>2. \A j \in DOMAIN q : b < q[j] BY <1>3, <2>4, <4>1 DEF After
      <4>3. b <= typed' BY <1>1, <4>1 DEF After
      <4>4. ASSUME NEW k \in DOMAIN lines', NEW j \in DOMAIN lines'[k] PROVE b < lines'[k][j]
        <5>1. CASE k = 1 BY <2>3, <4>2, <5>1
        <5>2. CASE k # 1 BY <2>3, <4>1, <5>2 DEF After
        <5> QED BY <5>1, <5>2
      <4> QED BY <4>3, <4>4 DEF After
    <3>2. CASE Occurs(b, p)
      <4>1. PICK i \in 1..n : h[i] = b /\ i \in DOMAIN h BY <1>14, <3>2
      <4>2. b <= typed' BY <1>1, <1>12, <4>1
      <4>3. ASSUME NEW j \in DOMAIN q PROVE b < q[j]
        <5>1. i < n + j BY <1>5, <1>8
        <5> QED BY <1>12, <2>4, <4>1, <5>1
      <4>4. ASSUME NEW k \in DOMAIN lines', NEW j \in DOMAIN lines'[k] PROVE b < lines'[k][j]
        <5>1. CASE k = 1 BY <2>3, <4>3, <5>1
        <5>2. CASE k # 1
          <6>1. 1 < k BY <1>2, <2>3, <5>2
          <6> QED BY <1>13, <2>3, <4>1, <5>2, <6>1
        <5> QED BY <5>1, <5>2
      <4> QED BY <4>2, <4>4 DEF After
    <3> QED BY <1>11, <2>7, <3>1, <3>2
  <2> QED BY <1>10, <2>2, <2>5, <2>6, <2>7 DEF Queued
<1> QED BY <1>15, <1>16

\* A line that fits buf is read whole.
LEMMA ReadStdinWhole ==
  ASSUME TypeOK, Queued, ReadStdin, longest <= MAXSIZE
  PROVE  /\ lines # <<>> /\ lines' = Tail(lines) /\ Len(Head(lines)) <= MAXSIZE
         /\ \A i \in 1..MAXSIZE : buf'[i] = IF i <= Len(Head(lines)) THEN Head(lines)[i] ELSE buf[i]
<1> DEFINE h == Head(lines)
           n == Smaller(Len(h), MAXSIZE)
           p == SubSeq(h, 1, n)
<1>1. lines # <<>> /\ buf' = Fill(p) /\ (n = Len(h) => lines' = Tail(lines)) BY DEF ReadStdin
<1>2. h \in Seq(Byte) /\ Len(h) \in 1..longest BY <1>1, FirstLine
<1>3. MAXSIZE \in Nat /\ longest \in 0..MaxTyped BY Typing, ClientAssumption
<1> HIDE DEF h
<1>4. Len(h) <= MAXSIZE /\ n = Len(h) /\ n \in 0..Len(h) BY <1>2, <1>3 DEF Smaller
<1> HIDE DEF n
<1>5. Len(p) = n /\ \A i \in 1..n : p[i] = h[i] BY <1>2, <1>4, Cut
<1> HIDE DEF p
<1>6. ASSUME NEW i \in 1..MAXSIZE PROVE buf'[i] = IF i <= Len(h) THEN h[i] ELSE buf[i]
  <2>1. buf'[i] = IF i <= n THEN p[i] ELSE buf[i] BY <1>1, <1>5 DEF Fill
  <2>2. CASE i <= n
    <3>1. i \in 1..n BY <1>2, <1>3, <1>4, <2>2
    <3> QED BY <1>4, <1>5, <2>1, <2>2, <3>1
  <2>3. CASE ~ (i <= n) BY <1>4, <2>1, <2>3
  <2> QED BY <2>2, <2>3
<1> QED BY <1>1, <1>4, <1>6 DEF h

\* do_read on the socket.
LEMMA ReadSockMoves ==
  ASSUME TypeOK, Apart, Queued, ReadSock
  PROVE  /\ buf' \in [1..MAXSIZE -> Byte \cup {NUL}] /\ toClient' \in Seq(Byte)
         /\ Apart' /\ Queued'
<1> DEFINE n == Smaller(Len(toClient), MAXSIZE)
           p == SubSeq(toClient, 1, n)
           q == SubSeq(toClient, n + 1, Len(toClient))
<1>1. buf' = Fill(p) /\ toClient' = q /\ UNCHANGED <<toServer, shown, lines, typed, longest>>
  BY DEF ReadSock, user
<1>2. toClient \in Seq(Byte) /\ MAXSIZE \in Nat /\ Len(toClient) \in Nat
  BY Typing, ClientAssumption, LenProperties
<1>3. n \in 0..Len(toClient) /\ n <= MAXSIZE BY <1>2 DEF Smaller
<1> HIDE DEF n
<1>4. /\ p \in Seq(Byte) /\ q \in Seq(Byte) /\ Len(p) = n
      /\ \A b : Occurs(b, p) \/ Occurs(b, q) => Occurs(b, toClient)
      /\ Once(toClient) => Once(p) /\ Once(q) /\ \A b \in Typed : ~ (Occurs(b, p) /\ Occurs(b, q))
  BY <1>2, <1>3, Cut
<1> HIDE DEF p, q
<1>5. Once(toClient) BY DEF Apart
<1>6. Once(toClient)' /\ \A b : Occurs(b, toClient)' <=> Occurs(b, q) BY <1>1, <1>4, <1>5 DEF Once, Occurs
<1>7. \A b \in Typed : Occurs(b, p) => /\ ~ Occurs(b, buf) /\ ~ Occurs(b, toServer)
                                       /\ ~ Occurs(b, toClient)' /\ ~ Occurs(b, shown)
  BY <1>4, <1>5, <1>6 DEF Apart
<1>8. Len(p) <= MAXSIZE BY <1>3, <1>4
<1>9. \A b \in Typed : Occurs(b, toClient)' => Occurs(b, toClient) BY <1>4, <1>6
<1>10. /\ buf' \in [1..MAXSIZE -> Byte \cup {NUL}] /\ Apart'
       /\ \A b \in Typed : Occurs(b, buf)' => Occurs(b, p) \/ Occurs(b, buf)
  BY <1>1, <1>4, <1>5, <1>6, <1>7, <1>8, <1>9, FillMoves
<1>11. Queued'
  <2>1. \A b : (Occurs(b, toServer)' <=> Occurs(b, toServer)) /\ (Occurs(b, shown)' <=> Occurs(b, shown))
    BY <1>1 DEF Occurs
  <2>2. \A b \in Typed : Held(b)' => Held(b) BY <1>4, <1>9, <1>10, <2>1 DEF Held
  <2> QED BY <1>1, <2>2, StillQueued
<1> QED BY <1>1, <1>4, <1>10, <1>11

\* A write leaves buf empty, and what it writes goes behind what was written before.
LEMMA ClearMoves ==
  ASSUME TypeOK, buf' = Clear
  PROVE  /\ buf' \in [1..MAXSIZE -> Byte \cup {NUL}] /\ Once(buf)'
         /\ \A b \in Typed : ~ Occurs(b, buf)'
<1>1. /\ Clear \in [1..MAXSIZE -> Byte \cup {NUL}] /\ Once(Clear)
      /\ \A b \in Typed : ~ Occurs(b, Clear)
  BY Cleared
<1> QED BY <1>1 DEF Once, Occurs

\* do_write on the socket.
LEMMA WriteSockMoves ==
  ASSUME TypeOK, Apart, Queued, NEW s \in Strings, toServer' = toServer \o s, buf' = Clear,
         UNCHANGED <<toClient, shown, lines, typed, longest>>
  PROVE  toServer' \in Seq(Byte) /\ Apart' /\ Queued'
<1>1. toServer \in Seq(Byte) BY Typing
<1>2. s \in Seq(Byte) /\ \A b \in Typed : Occurs(b, s) => Occurs(b, buf) BY StringBytes
<1>3. Once(buf) /\ Once(toServer) /\ Once(s) BY StringBytes DEF Apart
<1>4. toServer' \in Seq(Byte) BY <1>1, <1>2, ConcatProperties
<1>5. \A b : Occurs(b, toServer \o s) <=> Occurs(b, toServer) \/ Occurs(b, s) BY <1>1, <1>2, OccursCat
<1>6. Once(toServer \o s)
  <2>1. \A b \in Typed : ~ (Occurs(b, toServer) /\ Occurs(b, s)) BY <1>2 DEF Apart
  <2> QED BY <1>1, <1>2, <1>3, <2>1, OnceCat
<1>7. Once(toServer)' BY <1>6 DEF Once
<1>8. \A b \in Typed : Occurs(b, toServer)' <=> Occurs(b, toServer) \/ Occurs(b, s) BY <1>5, Zenon DEF Occurs
<1>9. \A b : (Occurs(b, toClient)' <=> Occurs(b, toClient)) /\ (Occurs(b, shown)' <=> Occurs(b, shown))
  BY DEF Occurs
<1>10. Once(toClient)' BY DEF Apart, Once
<1>11. Once(buf)' /\ \A b \in Typed : ~ Occurs(b, buf)' BY ClearMoves
<1>12. Apart' BY <1>2, <1>7, <1>8, <1>9, <1>10, <1>11 DEF Apart
<1>13. \A b \in Typed : Held(b)' => Held(b) BY <1>2, <1>8, <1>9, <1>11 DEF Held
<1>14. Queued' BY <1>13, StillQueued
<1> QED BY <1>4, <1>12, <1>14

\* do_write on stdout.
LEMMA ShowMoves ==
  ASSUME TypeOK, Apart, Queued, NEW s \in Strings, shown' = shown \o s, buf' = Clear,
         UNCHANGED <<toServer, toClient, lines, typed, longest>>
  PROVE  shown' \in Seq(Byte) /\ Apart' /\ Queued'
<1>1. shown \in Seq(Byte) BY Typing
<1>2. s \in Seq(Byte) /\ \A b \in Typed : Occurs(b, s) => Occurs(b, buf) BY StringBytes
<1>3. shown' \in Seq(Byte) BY <1>1, <1>2, ConcatProperties
<1>4. \A b : Occurs(b, shown \o s) <=> Occurs(b, shown) \/ Occurs(b, s) BY <1>1, <1>2, OccursCat
<1>5. \A b \in Typed : Occurs(b, shown)' <=> Occurs(b, shown) \/ Occurs(b, s) BY <1>4, Zenon DEF Occurs
<1>6. \A b : (Occurs(b, toClient)' <=> Occurs(b, toClient)) /\ (Occurs(b, toServer)' <=> Occurs(b, toServer))
  BY DEF Occurs
<1>7. Once(toClient)' /\ Once(toServer)' BY DEF Apart, Once
<1>8. Once(buf)' /\ \A b \in Typed : ~ Occurs(b, buf)' BY ClearMoves
<1>9. Apart' BY <1>2, <1>5, <1>6, <1>7, <1>8 DEF Apart
<1>10. \A b \in Typed : Held(b)' => Held(b) BY <1>2, <1>5, <1>6, <1>8 DEF Held
<1>11. Queued' BY <1>10, StillQueued
<1> QED BY <1>3, <1>9, <1>11

\* do_write after the server has closed: the bytes are gone.
LEMMA LostMoves ==
  ASSUME TypeOK, Apart, Queued, buf' = Clear,
         UNCHANGED <<toServer, toClient, shown, lines, typed, longest>>
  PROVE  Apart' /\ Queued'
<1>1. \A b : /\ Occurs(b, toClient)' <=> Occurs(b, toClient)
             /\ Occurs(b, toServer)' <=> Occurs(b, toServer)
             /\ Occurs(b, shown)' <=> Occurs(b, shown)
  BY DEF Occurs
<1>2. Once(toClient)' /\ Once(toServer)' BY DEF Apart, Once
<1>3. Once(buf)' /\ \A b \in Typed : ~ Occurs(b, buf)' BY ClearMoves
<1>4. Apart' BY <1>1, <1>2, <1>3 DEF Apart
<1>5. \A b \in Typed : Held(b)' => Held(b) BY <1>1, <1>3 DEF Held
<1>6. Queued' BY <1>5, StillQueued
<1> QED BY <1>4, <1>6

\* The user types a line: its bytes are later than all others.
LEMMA TypeMoves ==
  ASSUME TypeOK, Apart, Queued, NEW n \in Length, Type(n)
  PROVE  /\ typed' \in 0..MaxTyped /\ longest' \in 0..MaxTyped
         /\ lines' \in Seq(Seq(Typed)) /\ hasty' \in BOOLEAN
         /\ Apart' /\ Queued'
<1> DEFINE w == [i \in 1..n |-> typed + i]
<1>1. /\ typed + n <= MaxTyped /\ lines' = Append(lines, w) /\ typed' = typed + n
      /\ hasty' = (hasty \/ (typed > 0 /\ ~ Occurs(typed, shown)))
      /\ longest' = Larger(n, longest) /\ UNCHANGED <<buf, toServer, toClient, shown>>
  BY DEF Type
<1>2. /\ lines \in Seq(Seq(Typed)) /\ typed \in 0..MaxTyped /\ longest \in 0..MaxTyped
      /\ hasty \in BOOLEAN
  BY Typing
<1>3. n \in Nat /\ n > 0 /\ MaxTyped \in Nat /\ typed \in Nat BY <1>2, ClientAssumption
<1>l. longest' \in 0..MaxTyped /\ n <= longest' /\ longest <= longest' BY <1>1, <1>2, <1>3 DEF Larger
<1>4. w \in Seq(Typed) /\ Len(w) = n /\ DOMAIN w = 1..n /\ \A i \in 1..n : w[i] = typed + i
  <2>1. \A i \in 1..n : typed + i \in Typed BY <1>1, <1>3 DEF Typed
  <2> QED BY <1>3, <2>1
<1> HIDE DEF w
<1>5. /\ lines' \in Seq(Seq(Typed)) /\ Len(lines') = Len(lines) + 1 /\ Len(lines) \in Nat
      /\ lines'[Len(lines) + 1] = w /\ \A k \in 1..Len(lines) : lines'[k] = lines[k]
  BY <1>1, <1>2, <1>4, AppendProperties, LenProperties
<1>6. DOMAIN lines = 1..Len(lines) /\ DOMAIN lines' = 1..Len(lines) + 1 BY <1>2, <1>5, LenProperties
<1>7. \A k \in DOMAIN lines' : \/ k \in DOMAIN lines /\ lines'[k] = lines[k]
                               \/ lines'[k] = w
  BY <1>5, <1>6
<1>8. \A k \in DOMAIN lines : \A i \in DOMAIN lines[k] : lines[k][i] \in Int /\ lines[k][i] <= typed
  <2>1. ASSUME NEW k \in DOMAIN lines, NEW i \in DOMAIN lines[k] PROVE lines[k][i] \in Int
    <3>1. lines[k] \in Seq(Typed) BY <1>2, <1>6, ElementOfSeq
    <3>2. lines[k][i] \in Typed BY <3>1, LenProperties, ElementOfSeq
    <3> QED BY <3>2 DEF Typed
  <2> QED BY <2>1 DEF Queued, LineOK
<1>9. ASSUME NEW k \in DOMAIN lines' PROVE LineOK(k)'
  <2>1. CASE k \in DOMAIN lines /\ lines'[k] = lines[k]
    <3>1. LineOK(k) BY <2>1 DEF Queued
    <3>2. \A i \in DOMAIN lines[k] : lines[k][i] <= typed + n BY <1>3, <1>8, <2>1
    <3>3. Len(lines[k]) \in 1..longest' BY <1>2, <1>l, <3>1 DEF LineOK
    <3> QED BY <1>1, <2>1, <3>1, <3>2, <3>3 DEF LineOK
  <2>2. CASE lines'[k] = w
    <3>1. \A i \in DOMAIN w : w[i] <= typed + n BY <1>3, <1>4
    <3>2. \A i, j \in DOMAIN w : i < j => w[i] < w[j] BY <1>3, <1>4
    <3>3. Len(w) \in 1..longest' BY <1>3, <1>4, <1>l
    <3> QED BY <1>1, <1>4, <2>2, <3>1, <3>2, <3>3 DEF LineOK
  <2> QED BY <1>7, <2>1, <2>2
<1>10. ASSUME NEW k \in DOMAIN lines', NEW l \in DOMAIN lines', k < l PROVE Before(k, l)'
  <2>1. k \in DOMAIN lines /\ lines'[k] = lines[k] BY <1>5, <1>6, <1>10
  <2>2. CASE l \in DOMAIN lines /\ lines'[l] = lines[l]
    <3>1. Before(k, l) BY <1>10, <2>1, <2>2 DEF Queued
    <3> QED BY <2>1, <2>2, <3>1 DEF Before
  <2>3. CASE lines'[l] = w
    <3>1. \A i \in DOMAIN lines[k], j \in DOMAIN w : lines[k][i] < w[j] BY <1>3, <1>4, <1>8, <2>1
    <3> QED BY <2>1, <2>3, <3>1 DEF Before
  <2> QED BY <1>7, <2>2, <2>3
<1>11. ASSUME NEW b \in Typed, Held(b)' PROVE After(b)'
  <2>1. Held(b) BY <1>1, <1>11 DEF Held, Occurs
  <2>2. After(b) /\ b \in Int BY <2>1 DEF Queued, Typed
  <2>3. b <= typed + n BY <1>3, <2>2 DEF After
  <2>4. ASSUME NEW k \in DOMAIN lines', NEW i \in DOMAIN lines'[k] PROVE b < lines'[k][i]
    <3>1. CASE k \in DOMAIN lines /\ lines'[k] = lines[k] BY <2>2, <3>1 DEF After
    <3>2. CASE lines'[k] = w
      <4>1. i \in 1..n /\ w[i] = typed + i BY <1>4, <3>2
      <4>2. b < typed + i BY <1>3, <2>2, <4>1 DEF After
      <4> QED BY <3>2, <4>1, <4>2
    <3> QED BY <1>7, <3>1, <3>2
  <2> QED BY <1>1, <2>3, <2>4 DEF After
<1>12. Queued' BY <1>9, <1>10, <1>11 DEF Queued
<1>13. Apart' BY <1>1 DEF Apart, Once, Occurs
<1>14. hasty' \in BOOLEAN BY <1>1, <1>2, Zenon
<1>15. typed' \in 0..MaxTyped BY <1>1, <1>3
<1> QED BY <1>5, <1>l, <1>12, <1>13, <1>14, <1>15

\* do_read on stdin: the socket is registered for output, if it was not registered.
LEMMA ReadStdinReg ==
  ASSUME TypeOK, Events, ReadStdin
  PROVE  /\ Events' /\ batch' \subseteq Fd \X {"in", "out"} /\ reg' \in [Fd -> {"none", "in", "out"}]
         /\ reg'["sock"] = IF reg["sock"] = "none" THEN "out" ELSE reg["sock"]
         /\ reg'["stdout"] = reg["stdout"]
<1>1. Take("stdin", "in") /\ reg' = Add(reg, "sock", "out") BY DEF ReadStdin
<1>2. reg \in [Fd -> {"none", "in", "out"}] BY Typing
<1>3. /\ reg' \in [Fd -> {"none", "in", "out"}]
      /\ reg'["sock"] = IF reg["sock"] = "none" THEN "out" ELSE reg["sock"]
      /\ \A g \in Fd : g # "sock" => reg'[g] = reg[g]
  BY <1>1, <1>2 DEF Add, Fd
<1>4. \A g \in Fd : g # "stdin" /\ reg[g] # "none" => reg'[g] = reg[g] BY <1>3
<1>5. Events' /\ batch' \subseteq Fd \X {"in", "out"}
  <2>1. "stdin" \in Fd BY DEF Fd
  <2> QED BY <1>1, <1>4, <2>1, TakeEvents
<1> QED BY <1>3, <1>5 DEF Fd

\* do_read on the socket: it is not registered any more, and stdout is.
LEMMA ReadSockReg ==
  ASSUME TypeOK, Events, ReadSock
  PROVE  /\ Events' /\ batch' \subseteq Fd \X {"in", "out"} /\ reg' \in [Fd -> {"none", "in", "out"}]
         /\ reg["sock"] = "in" /\ reg'["sock"] = "none" /\ reg'["stdout"] # "none"
<1>1. Take("sock", "in") /\ reg' = Add(Delete(reg, "sock"), "stdout", "out") BY DEF ReadSock
<1>2. reg \in [Fd -> {"none", "in", "out"}] BY Typing
<1>3. /\ reg' \in [Fd -> {"none", "in", "out"}] /\ reg'["sock"] = "none" /\ reg'["stdout"] # "none"
      /\ \A g \in Fd : g # "sock" /\ reg[g] # "none" => reg'[g] = reg[g]
  BY <1>1, <1>2 DEF Add, Delete, Fd
<1>4. Events' /\ batch' \subseteq Fd \X {"in", "out"} /\ reg["sock"] = "in"
  <2>1. "sock" \in Fd BY DEF Fd
  <2> QED BY <1>1, <1>3, <2>1, TakeEvents
<1> QED BY <1>3, <1>4

\* do_write on the socket: it waits for input.
LEMMA WriteSockReg ==
  ASSUME TypeOK, Events, Take("sock", "out"), reg' = Modify(reg, "sock", "in")
  PROVE  /\ Events' /\ batch' \subseteq Fd \X {"in", "out"} /\ reg' \in [Fd -> {"none", "in", "out"}]
         /\ reg["sock"] = "out" /\ reg'["sock"] = "in" /\ reg'["stdout"] = reg["stdout"]
<1>1. reg \in [Fd -> {"none", "in", "out"}] BY Typing
<1>2. /\ reg' \in [Fd -> {"none", "in", "out"}] /\ (reg["sock"] # "none" => reg'["sock"] = "in")
      /\ \A g \in Fd : g # "sock" => reg'[g] = reg[g]
  BY <1>1 DEF Modify, Fd
<1>3. Events' /\ batch' \subseteq Fd \X {"in", "out"} /\ reg["sock"] = "out"
  <2>1. "sock" \in Fd BY DEF Fd
  <2> QED BY <1>2, <2>1, TakeEvents
<1> QED BY <1>2, <1>3 DEF Fd

\* do_write on stdout: it is not registered any more.
LEMMA ShowReg ==
  ASSUME TypeOK, Events, Take("stdout", "out"), reg' = Delete(reg, "stdout")
  PROVE  /\ Events' /\ batch' \subseteq Fd \X {"in", "out"} /\ reg' \in [Fd -> {"none", "in", "out"}]
         /\ reg["stdout"] = "out" /\ reg'["stdout"] = "none" /\ reg'["sock"] = reg["sock"]
<1>1. reg \in [Fd -> {"none", "in", "out"}] BY Typing
<1>2. /\ reg' \in [Fd -> {"none", "in", "out"}] /\ reg'["stdout"] = "none"
      /\ \A g \in Fd : g # "stdout" => reg'[g] = reg[g]
  BY <1>1 DEF Delete, Fd
<1>3. Events' /\ batch' \subseteq Fd \X {"in", "out"} /\ reg["stdout"] = "out"
  <2>1. "stdout" \in Fd BY DEF Fd
  <2> QED BY <1>2, <2>1, TakeEvents
<1> QED BY <1>2, <1>3 DEF Fd
-----------------------------------------------------------------------------
(* A user who waits for each answer.                                       *)

\* Lengths are numbers, and a typed byte is neither NUL nor Junk.
LEMMA Sizes ==
  ASSUME TypeOK
  PROVE  /\ MAXSIZE \in Nat /\ MAXSIZE > 0 /\ typed \in Nat
         /\ Len(shown) \in Nat /\ Len(toServer) \in Nat /\ Len(toClient) \in Nat /\ Len(lines) \in Nat
         /\ DOMAIN shown = 1..Len(shown) /\ DOMAIN lines = 1..Len(lines)
         /\ (toServer = <<>> <=> Len(toServer) = 0) /\ (toClient = <<>> <=> Len(toClient) = 0)
         /\ (lines = <<>> <=> Len(lines) = 0)
<1>1. /\ typed \in 0..MaxTyped /\ lines \in Seq(Seq(Typed))
      /\ toServer \in Seq(Byte) /\ toClient \in Seq(Byte) /\ shown \in Seq(Byte)
  BY Typing
<1>2. MAXSIZE \in Nat /\ MAXSIZE > 0 /\ typed \in Nat BY <1>1, ClientAssumption
<1>3. /\ Len(shown) \in Nat /\ Len(toServer) \in Nat /\ Len(toClient) \in Nat /\ Len(lines) \in Nat
      /\ DOMAIN shown = 1..Len(shown) /\ DOMAIN lines = 1..Len(lines)
  BY <1>1, LenProperties
<1>4. /\ toServer = <<>> <=> Len(toServer) = 0
      /\ toClient = <<>> <=> Len(toClient) = 0
      /\ lines = <<>> <=> Len(lines) = 0
  BY <1>1, EmptySeq
<1> QED BY <1>2, <1>3, <1>4

\* A step that moves no byte and changes no registration.
LEMMA StillPaced ==
  ASSUME Paced, closed \in BOOLEAN, closed' = closed \/ closed' = TRUE,
         UNCHANGED <<reg, buf, typed, lines, hasty, longest, toServer, toClient, shown, clean>>
  PROVE  Paced'
<1>1. ASSUME Turn PROVE Turn' BY <1>1 DEF Turn, Busy, Occurs
<1>2. ASSUME InOrder PROVE InOrder' BY <1>2 DEF InOrder, Follows, Holds
<1> QED BY <1>1, <1>2 DEF Paced, Patient, Tidy

\* A buffer that holds k bytes and NULs behind them is the string of these bytes.
LEMMA HeldString ==
  ASSUME TypeOK, NEW k \in Nat, Holds(k), k < MAXSIZE, Len(shown) + k <= typed, NEW s \in Strings
  PROVE  s \in Seq(Byte) /\ Len(s) = k /\ \A i \in 1..k : s[i] = Len(shown) + i
<1>1. PICK n \in 0..MAXSIZE :
        /\ \A i \in 1..n : buf[i] # NUL
        /\ n = MAXSIZE \/ buf[n + 1] = NUL
        /\ \/ s = [i \in 1..n |-> buf[i]]
           \/ n = MAXSIZE /\ s = Append([i \in 1..n |-> buf[i]], Junk)
  BY StringFacts
<1>2. MAXSIZE \in Nat /\ n \in Nat /\ n <= MAXSIZE /\ Len(shown) \in Nat /\ typed \in Nat BY Sizes
<1>3. \A i \in 1..k : buf[i] # NUL
  <2> SUFFICES ASSUME NEW i \in 1..k PROVE buf[i] # NUL
    OBVIOUS
  <2>1. buf[i] = Len(shown) + i BY DEF Holds
  <2>2. typed \in 0..MaxTyped BY Typing
  <2>3. Len(shown) + i \in Typed BY <1>2, <2>2, ClientAssumption DEF Typed
  <2> QED BY <2>1, <2>3, ClientAssumption DEF Typed
<1>4. buf[k + 1] = NUL
  <2>1. k + 1 \in k + 1..MAXSIZE BY <1>2
  <2> QED BY <2>1 DEF Holds
<1>5. ~ (n > k)
  <2>1. ASSUME n > k PROVE k + 1 \in 1..n BY <1>2, <2>1
  <2> QED BY <1>1, <1>4, <2>1
<1>6. ~ (n < k)
  <2>1. ASSUME n < k PROVE n + 1 \in 1..k /\ n # MAXSIZE BY <1>2, <2>1
  <2> QED BY <1>1, <1>3, <2>1
<1>7. n = k BY <1>2, <1>5, <1>6
<1>8. n # MAXSIZE BY <1>2, <1>7
<1>9. s = [i \in 1..k |-> buf[i]] BY <1>1, <1>7, <1>8
<1>10. s \in Seq(Byte) BY StringBytes
<1>11. Len(s) = k BY <1>9, <1>10
<1>12. \A i \in 1..k : s[i] = buf[i] BY <1>9
<1> QED BY <1>10, <1>11, <1>12 DEF Holds

\* After a write, buf holds nothing.
LEMMA HoldsNone == buf' = Clear => Holds(0)'
<1> SUFFICES ASSUME buf' = Clear PROVE Holds(0)'
  OBVIOUS
<1>1. \A i \in 0 + 1..MAXSIZE : buf'[i] = NUL
  <2>1. \A i \in 0 + 1..MAXSIZE : i \in 1..MAXSIZE OBVIOUS
  <2> QED BY <2>1 DEF Clear
<1>2. \A i \in 1..0 : FALSE OBVIOUS
<1> QED BY <1>1, <1>2 DEF Holds

\* The user types in good time only when nothing is under way.
LEMMA TypeTurn ==
  ASSUME TypeOK, Queued, Paced, NEW n \in Length, Type(n), Patient'
  PROVE  /\ Patient /\ ~ Busy /\ (typed = 0 \/ Occurs(typed, shown)) /\ Turn'
<1>1. /\ typed + n <= MaxTyped /\ lines' = Append(lines, [i \in 1..n |-> typed + i]) /\ typed' = typed + n
      /\ hasty' = (hasty \/ (typed > 0 /\ ~ Occurs(typed, shown)))
      /\ UNCHANGED <<reg, buf, toServer, toClient, shown, closed>>
  BY DEF Type
<1>2. typed \in Nat /\ n \in Nat /\ n > 0 /\ MaxTyped \in Nat BY Sizes, ClientAssumption
<1>3. ~ hasty /\ ~ (typed > 0 /\ ~ Occurs(typed, shown)) BY <1>1, Zenon DEF Patient
<1>p. Patient
  <2>1. longest' = Larger(n, longest) /\ longest' <= MAXSIZE BY DEF Type, Patient
  <2>2. longest \in 0..MaxTyped BY Typing
  <2> QED BY <1>2, <1>3, <2>1, <2>2, ClientAssumption DEF Larger, Patient
<1>4. Turn BY <1>p DEF Paced
<1>5. ~ Busy BY <1>3, <1>4 DEF Turn
<1>6. typed = 0 \/ Occurs(typed, shown) BY <1>2, <1>3
<1>7. lines = <<>> /\ reg["sock"] = "none" /\ reg["stdout"] = "none" BY <1>5 DEF Busy
<1>8. Len(lines') = 1 BY <1>1, <1>7
<1>9. ~ Occurs(typed + n, shown)
  <2> SUFFICES ASSUME Occurs(typed + n, shown) PROVE FALSE
    OBVIOUS
  <2>1. typed + n \in Typed BY <1>1, <1>2 DEF Typed
  <2>2. typed + n <= typed BY <2>1 DEF Queued, Held, After
  <2> QED BY <1>2, <2>2
<1>10. typed' > 0 /\ ~ Occurs(typed, shown)' BY <1>1, <1>2, <1>9 DEF Occurs
<1>11. Turn' BY <1>1, <1>7, <1>8, <1>10 DEF Turn
<1> QED BY <1>p, <1>5, <1>6, <1>11

\* A line typed in good time holds the bytes behind those shown, and nothing else is
\* under way.
LEMMA TypeInOrder ==
  ASSUME TypeOK, Queued, Paced, NEW n \in Length, Type(n), Patient', Tidy', InOrder
  PROVE  InOrder'
<1> DEFINE w == [i \in 1..n |-> typed + i]
<1>1. lines' = Append(lines, w) /\ typed' = typed + n /\ UNCHANGED <<reg, buf, toServer, toClient, shown>>
  BY DEF Type
<1>2. /\ typed \in Nat /\ n \in Nat /\ n > 0 /\ n < MAXSIZE /\ MAXSIZE \in Nat
      /\ Len(shown) \in Nat /\ Len(toServer) \in Nat /\ Len(toClient) \in Nat
  <2>1. longest' = Larger(n, longest) /\ longest' < MAXSIZE BY DEF Type, Tidy
  <2>2. longest \in 0..MaxTyped BY Typing
  <2>3. n < MAXSIZE BY <2>1, <2>2, ClientAssumption DEF Larger
  <2> QED BY <2>3, Sizes, ClientAssumption
<1>3. ~ Busy /\ (typed = 0 \/ Occurs(typed, shown)) BY TypeTurn
<1>4. lines = <<>> /\ reg["sock"] = "none" /\ reg["stdout"] = "none" BY <1>3 DEF Busy
<1>5. PICK k \in Nat : Follows(k) BY DEF InOrder
<1>6. typed <= Len(shown)
  <2>1. CASE typed = 0 BY <1>2, <2>1
  <2>2. CASE Occurs(typed, shown)
    <3>1. PICK i \in 1..Len(shown) : shown[i] = typed BY <2>2, Sizes DEF Occurs
    <3>2. shown[i] = i BY DEF InOrder
    <3> QED BY <1>2, <3>1, <3>2
  <2> QED BY <1>3, <2>1, <2>2
<1>7. Len(shown) + k + Len(toClient) + Len(toServer) <= typed BY <1>5 DEF Follows
<1>8. k = 0 /\ typed = Len(shown) /\ Len(toClient) = 0 /\ Len(toServer) = 0 BY <1>2, <1>6, <1>7
<1>9. toClient = <<>> /\ toServer = <<>> BY <1>8, Sizes
<1>10. Len(w) = n /\ DOMAIN w = 1..n /\ \A i \in 1..n : w[i] = typed + i BY <1>2
<1> HIDE DEF w
<1>11. lines'[1] = w BY <1>1, <1>4
<1>12. Follows(0)'
  <2>1. Holds(0)' BY <1>1, <1>5, <1>8 DEF Follows, Holds
  <2>2. /\ \A i \in 1..Len(toClient') : FALSE
        /\ \A i \in 1..Len(toServer') : FALSE
        /\ Len(shown') + 0 + Len(toClient') + Len(toServer') <= typed'
    BY <1>1, <1>2, <1>8
  <2> QED BY <1>1, <1>9, <2>1, <2>2 DEF Follows
<1>13. typed' < Len(shown') + MAXSIZE /\ Len(lines'[1]) = typed' - Len(shown')
  BY <1>1, <1>2, <1>8, <1>10, <1>11
<1>14. \A i \in DOMAIN lines'[1] : lines'[1][i] = Len(shown') + i BY <1>1, <1>8, <1>10, <1>11
<1>15. \A i \in 1..Len(shown') : shown'[i] = i BY <1>1 DEF InOrder
<1> QED BY <1>1, <1>9, <1>12, <1>13, <1>14, <1>15 DEF InOrder

\* A line typed in good time is the only one, and the client is idle.
LEMMA TypePaced ==
  ASSUME TypeOK, Queued, Paced, NEW n \in Length, Type(n)
  PROVE  Paced'
<1> SUFFICES ASSUME Patient' PROVE Turn' /\ (Tidy' => InOrder')
  BY DEF Paced
<1>1. Turn' /\ Patient BY TypeTurn
<1>2. ASSUME Tidy' PROVE InOrder'
  <2>1. clean' = clean /\ longest' = Larger(n, longest) /\ longest' < MAXSIZE /\ clean'
    BY <1>2 DEF Type, Tidy
  <2>2. longest \in 0..MaxTyped BY Typing
  <2>3. Tidy BY <2>1, <2>2, ClientAssumption DEF Larger, Tidy
  <2>4. InOrder BY <1>1, <2>3 DEF Paced
  <2> QED BY <1>2, <2>4, TypeInOrder
<1> QED BY <1>1, <1>2

\* What comes back keeps its place between what was shown and what is still out.
LEMMA AnswerPaced ==
  ASSUME TypeOK, Paced, Answer
  PROVE  Paced'
<1>1. PICK n \in 1..Len(toServer) :
        /\ toClient' = toClient \o SubSeq(toServer, 1, n)
        /\ toServer' = SubSeq(toServer, n + 1, Len(toServer))
        /\ UNCHANGED <<reg, buf, typed, lines, shown, hasty, longest, closed, clean>>
  BY Zenon DEF Answer, user
<1> DEFINE p == SubSeq(toServer, 1, n)
           q == SubSeq(toServer, n + 1, Len(toServer))
<1>2. toServer \in Seq(Byte) /\ toClient \in Seq(Byte) BY Typing
<1>3. /\ Len(toServer) \in Nat /\ Len(toClient) \in Nat /\ typed \in Nat /\ Len(shown) \in Nat
      /\ n \in 0..Len(toServer) /\ n > 0 /\ toServer # <<>>
  BY Sizes
<1>4. /\ p \in Seq(Byte) /\ Len(p) = n /\ \A i \in 1..n : p[i] = toServer[i]
      /\ q \in Seq(Byte) /\ Len(q) = Len(toServer) - n /\ \A i \in 1..Len(toServer) - n : q[i] = toServer[n + i]
  BY <1>2, <1>3, Cut
<1>5. toServer' = q /\ toClient' = toClient \o p BY <1>1
<1> HIDE DEF p, q
<1>6. /\ Len(toClient') = Len(toClient) + n
      /\ \A i \in 1..Len(toClient) + n : toClient'[i] = IF i <= Len(toClient) THEN toClient[i] ELSE p[i - Len(toClient)]
  BY <1>2, <1>4, <1>5, ConcatProperties, ZenonT(30)
<1>7. toClient' # <<>> BY <1>3, <1>6
<1>8. ASSUME Turn PROVE Turn' BY <1>1, <1>7, <1>8 DEF Turn, Busy, Occurs
<1>9. ASSUME InOrder PROVE InOrder'
  <2>1. PICK k \in Nat : Follows(k) BY <1>9 DEF InOrder
  <2>2. lines = <<>> /\ reg["sock"] # "out" BY <1>3, <1>9, <2>1 DEF InOrder, Follows
  <2>3. \A i \in 1..Len(toClient') : toClient'[i] = Len(shown') + k + i
    <3> SUFFICES ASSUME NEW i \in 1..Len(toClient) + n PROVE toClient'[i] = Len(shown) + k + i
      BY <1>1, <1>6
    <3>1. CASE i <= Len(toClient)
      <4>1. i \in 1..Len(toClient) BY <1>3, <3>1
      <4> QED BY <1>6, <2>1, <3>1, <4>1 DEF Follows
    <3>2. CASE i > Len(toClient)
      <4>1. i - Len(toClient) \in 1..n /\ i - Len(toClient) \in 1..Len(toServer) /\ ~ (i <= Len(toClient))
        BY <1>3, <3>2
      <4>2. toClient'[i] = toServer[i - Len(toClient)] BY <1>4, <1>6, <4>1
      <4>3. toServer[i - Len(toClient)] = Len(shown) + k + Len(toClient) + (i - Len(toClient))
        BY <2>1, <4>1 DEF Follows
      <4> QED BY <1>3, <4>2, <4>3
    <3> QED BY <1>3, <3>1, <3>2
  <2>4. \A i \in 1..Len(toServer') : toServer'[i] = Len(shown') + k + Len(toClient') + i
    <3> SUFFICES ASSUME NEW i \in 1..Len(toServer) - n PROVE q[i] = Len(shown) + k + (Len(toClient) + n) + i
      BY <1>1, <1>4, <1>5, <1>6
    <3>1. n + i \in 1..Len(toServer) BY <1>3
    <3>2. toServer[n + i] = Len(shown) + k + Len(toClient) + (n + i) BY <2>1, <3>1 DEF Follows
    <3> QED BY <1>3, <1>4, <3>2
  <2>5. Len(shown') + k + Len(toClient') + Len(toServer') <= typed'
    <3>1. Len(shown) + k + Len(toClient) + Len(toServer) <= typed BY <2>1 DEF Follows
    <3>2. Len(toServer') = Len(toServer) - n BY <1>4, <1>5
    <3>3. Len(toClient') = Len(toClient) + n BY <1>6
    <3>4. typed' = typed /\ shown' = shown BY <1>1
    <3>5. Len(shown) + k + (Len(toClient) + n) + (Len(toServer) - n) <= typed BY <1>3, <3>1
    <3> QED BY <3>2, <3>3, <3>4, <3>5
  <2>6. Follows(k)'
    <3>1. Holds(k)' BY <1>1, <2>1 DEF Follows, Holds
    <3>2. reg'["stdout"] = "none" /\ reg'["sock"] # "out" => k = 0 BY <1>1, <2>1 DEF Follows
    <3> QED BY <1>1, <2>2, <2>3, <2>4, <2>5, <3>1, <3>2, Zenon DEF Follows
  <2> QED BY <1>1, <1>9, <2>2, <2>6 DEF InOrder
<1> QED BY <1>1, <1>8, <1>9 DEF Paced, Patient, Tidy

\* The line that was waiting is in buf, and goes out next.
LEMMA ReadStdinPaced ==
  ASSUME TypeOK, Queued, Events, Paced, ReadStdin
  PROVE  Paced'
<1>0. UNCHANGED <<toServer, toClient, shown, typed, hasty, longest, clean, closed>> BY DEF ReadStdin
<1> SUFFICES ASSUME Patient PROVE Turn' /\ (Tidy => InOrder')
  BY <1>0 DEF Paced, Patient, Tidy
<1>w. /\ lines # <<>> /\ lines' = Tail(lines) /\ Len(Head(lines)) <= MAXSIZE
      /\ \A i \in 1..MAXSIZE : buf'[i] = IF i <= Len(Head(lines)) THEN Head(lines)[i] ELSE buf[i]
  BY ReadStdinWhole DEF Patient
<1>1. /\ lines # <<>> /\ lines' = Tail(lines)
      /\ UNCHANGED <<toServer, toClient, shown, typed, hasty, longest, clean, closed>>
  BY <1>0, <1>w
<1>2. Turn BY DEF Paced
<1>3. reg["sock"] = "none" /\ reg["stdout"] = "none" /\ Len(lines) = 1 BY <1>1, <1>2 DEF Turn
<1>4. reg'["sock"] = "out" /\ reg'["stdout"] = "none" BY <1>3, ReadStdinReg
<1> DEFINE h == Head(lines)
<1>5. /\ h = lines[1] /\ h \in Seq(Byte) /\ Len(h) \in 1..longest /\ \A i \in DOMAIN h : h[i] \in Typed
      /\ Tail(lines) \in Seq(Seq(Typed)) /\ Len(Tail(lines)) = Len(lines) - 1
  BY <1>1, FirstLine
<1>6. lines' = <<>>
  <2>1. Len(lines') = 0 /\ lines' \in Seq(Seq(Typed)) BY <1>1, <1>3, <1>5
  <2> QED BY <2>1, EmptySeq
<1>7. /\ MAXSIZE \in Nat /\ MAXSIZE > 0 /\ typed \in Nat /\ Len(shown) \in Nat
  BY Sizes
<1>8. Len(h) \in Nat /\ DOMAIN h = 1..Len(h) /\ Len(h) > 0 /\ Len(h) <= MAXSIZE BY <1>5, <1>w, LenProperties
<1>9. \A i \in 1..MAXSIZE : buf'[i] = IF i <= Len(h) THEN h[i] ELSE buf[i] BY <1>w
<1> HIDE DEF h
<1>10. buf'[1] # NUL
  <2>1. 1 \in 1..MAXSIZE /\ 1 <= Len(h) /\ 1 \in DOMAIN h BY <1>7, <1>8
  <2>2. buf'[1] = h[1] /\ h[1] \in Typed BY <1>5, <1>9, <2>1
  <2> QED BY <2>2, ClientAssumption DEF Typed
<1>11. typed' > 0 /\ ~ Occurs(typed, shown)' BY <1>1, <1>2 DEF Turn, Busy, Occurs
<1>12. Turn' BY <1>4, <1>6, <1>10, <1>11 DEF Turn
<1>13. ASSUME Tidy PROVE InOrder'
  <2>1. InOrder BY <1>13 DEF Paced
  <2>2. PICK k \in Nat : Follows(k) BY <2>1 DEF InOrder
  <2>3. k = 0 BY <1>3, <2>2 DEF Follows
  <2>4. /\ toServer = <<>> /\ toClient = <<>> /\ Len(h) = typed - Len(shown)
        /\ \A i \in DOMAIN h : h[i] = Len(shown) + i
    BY <1>1, <1>5, <2>1, Zenon DEF InOrder
  <2> PICK c \in Nat : c = Len(h) BY <1>8, Zenon
  <2>5. Holds(c)'
    <3>1. ASSUME NEW i \in 1..c PROVE buf'[i] = Len(shown) + i
      <4>1. i \in 1..MAXSIZE /\ i <= Len(h) /\ i \in DOMAIN h BY <1>5, <1>7, <1>8
      <4> QED BY <1>9, <2>4, <4>1
    <3>2. ASSUME NEW i \in c + 1..MAXSIZE PROVE buf'[i] = NUL
      <4>1. i \in 1..MAXSIZE /\ ~ (i <= Len(h)) /\ i \in k + 1..MAXSIZE BY <1>7, <1>8, <2>3
      <4>2. buf[i] = NUL BY <2>2, <4>1 DEF Follows, Holds
      <4> QED BY <1>9, <4>1, <4>2
    <3> QED BY <1>1, <3>1, <3>2 DEF Holds
  <2>6. Len(toServer') = 0 /\ Len(toClient') = 0 BY <1>1, <2>4
  <2>7. Len(shown') + c + Len(toClient') + Len(toServer') <= typed'
    BY <1>1, <1>7, <2>4, <2>6
  <2>8. (\A i \in 1..Len(toClient') : FALSE) /\ (\A i \in 1..Len(toServer') : FALSE) BY <2>6
  <2>9. Follows(c)' BY <1>1, <1>4, <2>4, <2>5, <2>7, <2>8 DEF Follows
  <2>10. /\ \A i \in 1..Len(shown') : shown'[i] = i
         /\ typed' < Len(shown') + MAXSIZE
    BY <1>1, <2>1 DEF InOrder
  <2> QED BY <1>6, <2>9, <2>10 DEF InOrder
<1> QED BY <1>12, <1>13

\* The answer, or its first piece, is in buf, and is shown next.
LEMMA ReadSockPaced ==
  ASSUME TypeOK, Events, Paced, ReadSock
  PROVE  Paced'
<1> DEFINE n == Smaller(Len(toClient), MAXSIZE)
           p == SubSeq(toClient, 1, n)
           q == SubSeq(toClient, n + 1, Len(toClient))
<1>1. /\ buf' = Fill(p) /\ toClient' = q /\ n > 0
      /\ UNCHANGED <<toServer, shown, lines, typed, hasty, longest, clean, closed>>
  BY DEF ReadSock, user
<1> SUFFICES ASSUME Patient PROVE Turn' /\ (Tidy => InOrder')
  BY <1>1 DEF Paced, Patient, Tidy
<1>2. Turn BY DEF Paced
<1>3. reg["sock"] = "in" /\ reg'["sock"] = "none" /\ reg'["stdout"] # "none" BY ReadSockReg
<1>4. lines = <<>> /\ reg["stdout"] = "none" BY <1>2, <1>3 DEF Turn
<1>5. Turn'
  <2>1. typed' > 0 /\ ~ Occurs(typed, shown)' BY <1>1, <1>2, <1>3 DEF Turn, Busy, Occurs
  <2> QED BY <1>1, <1>3, <1>4, <2>1 DEF Turn
<1>6. /\ MAXSIZE \in Nat /\ typed \in Nat /\ Len(shown) \in Nat /\ Len(toClient) \in Nat /\ Len(toServer) \in Nat
  BY Sizes
<1>7. n \in 0..Len(toClient) /\ n <= MAXSIZE BY <1>6 DEF Smaller
<1> HIDE DEF n
<1>8. toClient \in Seq(Byte) BY Typing
<1>9. /\ Len(p) = n /\ \A i \in 1..n : p[i] = toClient[i]
      /\ Len(q) = Len(toClient) - n /\ \A i \in 1..Len(toClient) - n : q[i] = toClient[n + i]
  BY <1>7, <1>8, Cut
<1> HIDE DEF p, q
<1>10. \A i \in 1..MAXSIZE : buf'[i] = IF i <= n THEN p[i] ELSE buf[i] BY <1>1, <1>9 DEF Fill
<1>11. ASSUME Tidy PROVE InOrder'
  <2>1. InOrder BY <1>11 DEF Paced
  <2>2. PICK k \in Nat : Follows(k) BY <2>1 DEF InOrder
  <2>3. k = 0 BY <1>3, <1>4, <2>2 DEF Follows
  <2>4. \A i \in 1..Len(toClient) : toClient[i] = Len(shown) + i
    <3>1. \A i \in 1..Len(toClient) : toClient[i] = Len(shown) + 0 + i BY <2>2, <2>3 DEF Follows
    <3> QED BY <1>6, <3>1
  <2> PICK c \in Nat : c = n BY <1>7
  <2>5. Holds(c)'
    <3>1. ASSUME NEW i \in 1..c PROVE buf'[i] = Len(shown) + i
      <4>1. i \in 1..MAXSIZE /\ i <= n /\ i \in 1..Len(toClient) BY <1>6, <1>7
      <4> QED BY <1>9, <1>10, <2>4, <4>1
    <3>2. ASSUME NEW i \in c + 1..MAXSIZE PROVE buf'[i] = NUL
      <4>1. i \in 1..MAXSIZE /\ ~ (i <= n) /\ i \in k + 1..MAXSIZE BY <1>6, <1>7, <2>3
      <4>2. buf[i] = NUL BY <2>2, <4>1 DEF Follows, Holds
      <4> QED BY <1>10, <4>1, <4>2
    <3> QED BY <1>1, <3>1, <3>2 DEF Holds
  <2>6. Len(toClient') = Len(toClient) - n BY <1>1, <1>9
  <2>7. \A i \in 1..Len(toClient') : toClient'[i] = Len(shown') + c + i
    <3> SUFFICES ASSUME NEW i \in 1..Len(toClient) - n PROVE q[i] = Len(shown) + n + i
      BY <1>1, <2>6
    <3>1. n + i \in 1..Len(toClient) BY <1>6, <1>7
    <3>2. toClient[n + i] = Len(shown) + (n + i) BY <2>4, <3>1
    <3> QED BY <1>6, <1>7, <1>9, <3>2
  <2>8. \A i \in 1..Len(toServer') : toServer'[i] = Len(shown') + c + Len(toClient') + i
    <3> SUFFICES ASSUME NEW i \in 1..Len(toServer)
                 PROVE  toServer[i] = Len(shown) + n + (Len(toClient) - n) + i
      BY <1>1, <2>6
    <3>1. toServer[i] = Len(shown) + 0 + Len(toClient) + i BY <2>2, <2>3 DEF Follows
    <3> QED BY <1>6, <1>7, <3>1
  <2>9. Len(shown') + c + Len(toClient') + Len(toServer') <= typed'
    <3>1. Len(shown) + 0 + Len(toClient) + Len(toServer) <= typed BY <2>2, <2>3 DEF Follows
    <3>2. Len(shown) + n + (Len(toClient) - n) + Len(toServer) <= typed BY <1>6, <1>7, <3>1
    <3> QED BY <1>1, <2>6, <3>2
  <2>10. Follows(c)' BY <1>3, <2>5, <2>7, <2>8, <2>9 DEF Follows
  <2>11. /\ \A i \in 1..Len(shown') : shown'[i] = i
         /\ typed' < Len(shown') + MAXSIZE
    BY <1>1, <2>1 DEF InOrder
  <2> QED BY <1>1, <1>4, <2>10, <2>11 DEF InOrder
<1> QED BY <1>5, <1>11

\* The whole line goes out, and its answer is waited for.
LEMMA WriteSockPaced ==
  ASSUME TypeOK, Events, Paced, WriteSock
  PROVE  Paced'
<1>1. PICK s \in Strings :
        /\ toServer' = toServer \o s /\ buf' = Clear
        /\ UNCHANGED <<toClient, shown, lines, typed, hasty, longest, clean, closed>>
  BY DEF WriteSock, SendThen, user
<1>2. Take("sock", "out") /\ reg' = Modify(reg, "sock", "in") BY DEF WriteSock, SendThen
<1> SUFFICES ASSUME Patient PROVE Turn' /\ (Tidy => InOrder')
  BY <1>1 DEF Paced, Patient, Tidy
<1>3. Turn BY DEF Paced
<1>4. reg["sock"] = "out" /\ reg'["sock"] = "in" /\ reg'["stdout"] = reg["stdout"] BY <1>2, WriteSockReg
<1>5. lines = <<>> /\ reg["stdout"] = "none" /\ buf[1] # NUL BY <1>3, <1>4 DEF Turn
<1>6. toServer \in Seq(Byte) /\ s \in Seq(Byte) /\ s # <<>> BY <1>5, Typing, StringBytes
<1>7. toServer' # <<>>
  <2>1. Len(toServer') = Len(toServer) + Len(s) BY <1>1, <1>6, ConcatProperties
  <2>2. Len(toServer) \in Nat /\ Len(s) \in Nat /\ Len(s) # 0 BY <1>6, LenProperties, EmptySeq
  <2>3. Len(toServer') # 0 BY <2>1, <2>2
  <2> QED BY <2>3
<1>8. Turn'
  <2>1. typed' > 0 /\ ~ Occurs(typed, shown)' BY <1>1, <1>3, <1>4 DEF Turn, Busy, Occurs
  <2> QED BY <1>1, <1>4, <1>5, <1>7, <2>1 DEF Turn
<1>9. ASSUME Tidy PROVE InOrder'
  <2>1. InOrder BY <1>9 DEF Paced
  <2>2. PICK k \in Nat : Follows(k) BY <2>1 DEF InOrder
  <2>3. toServer = <<>> /\ toClient = <<>> BY <1>4, <2>2 DEF Follows
  <2>4. /\ MAXSIZE \in Nat /\ typed \in Nat /\ Len(shown) \in Nat BY Sizes
  <2>5. Len(toServer) = 0 /\ Len(toClient) = 0 BY <2>3
  <2>6. Len(shown) + k <= typed
    <3>1. Len(shown) + k + Len(toClient) + Len(toServer) <= typed BY <2>2 DEF Follows
    <3> QED BY <2>4, <2>5, <3>1
  <2>7. k < MAXSIZE
    <3>1. typed < Len(shown) + MAXSIZE BY <2>1 DEF InOrder
    <3> QED BY <2>4, <2>6, <3>1
  <2>8. Len(s) = k /\ \A i \in 1..k : s[i] = Len(shown) + i
    <3>1. Holds(k) BY <2>2 DEF Follows
    <3> QED BY <2>6, <2>7, <3>1, HeldString
  <2>9. toServer' = s BY <1>1, <1>6, <2>3
  <2>10. \A i \in 1..Len(toServer') : toServer'[i] = Len(shown') + 0 + Len(toClient') + i
    <3> SUFFICES ASSUME NEW i \in 1..k PROVE s[i] = Len(shown) + 0 + 0 + i
      BY <1>1, <2>5, <2>8, <2>9
    <3> QED BY <2>4, <2>8
  <2>11. \A i \in 1..Len(toClient') : FALSE BY <1>1, <2>5
  <2>12. Len(shown') + 0 + Len(toClient') + Len(toServer') <= typed'
    <3>1. Len(shown) + 0 + 0 + k <= typed BY <2>4, <2>6
    <3> QED BY <1>1, <2>5, <2>8, <2>9, <3>1
  <2>13. Holds(0)' BY <1>1, HoldsNone
  <2>14. Follows(0)' BY <1>4, <2>10, <2>11, <2>12, <2>13 DEF Follows
  <2>15. /\ \A i \in 1..Len(shown') : shown'[i] = i
         /\ typed' < Len(shown') + MAXSIZE
    BY <1>1, <2>1 DEF InOrder
  <2> QED BY <1>1, <1>5, <2>14, <2>15 DEF InOrder
<1> QED BY <1>8, <1>9

\* A line that is lost leaves nothing under way.
LEMMA WriteLostPaced ==
  ASSUME TypeOK, Events, Paced, WriteLost
  PROVE  Paced'
<1>1. /\ Take("sock", "out") /\ closed
      /\ UNCHANGED <<toServer, toClient, shown, lines, typed, hasty, longest, clean, closed>>
  BY DEF WriteLost, user
<1>2. CASE UNCHANGED <<reg, buf>>
  <2>1. closed \in BOOLEAN BY Typing
  <2> QED BY <1>1, <1>2, <2>1, StillPaced
<1>3. CASE reg' = Modify(reg, "sock", "in") /\ buf' = Clear
  <2> SUFFICES ASSUME Patient PROVE Turn' /\ (Tidy => InOrder')
    BY <1>1 DEF Paced, Patient, Tidy
  <2>1. Turn BY DEF Paced
  <2>2. reg["sock"] = "out" /\ reg'["sock"] = "in" /\ reg'["stdout"] = reg["stdout"] BY <1>1, <1>3, WriteSockReg
  <2>3. lines = <<>> /\ reg["stdout"] = "none" BY <2>1, <2>2 DEF Turn
  <2>4. Turn'
    <3>1. typed' > 0 /\ ~ Occurs(typed, shown)' BY <1>1, <2>1, <2>2 DEF Turn, Busy, Occurs
    <3> QED BY <1>1, <2>2, <2>3, <3>1 DEF Turn
  <2>5. ASSUME Tidy PROVE InOrder'
    <3>1. InOrder BY <2>5 DEF Paced
    <3>2. PICK k \in Nat : Follows(k) BY <3>1 DEF InOrder
    <3>3. toServer = <<>> /\ toClient = <<>> BY <2>2, <3>2 DEF Follows
    <3>4. Len(toServer') = 0 /\ Len(toClient') = 0 BY <1>1, <3>3
    <3>5. (\A i \in 1..Len(toClient') : FALSE) /\ (\A i \in 1..Len(toServer') : FALSE) BY <3>4
    <3>6. Len(shown') + 0 + Len(toClient') + Len(toServer') <= typed'
      <4>1. Len(shown) + k + Len(toClient) + Len(toServer) <= typed BY <3>2 DEF Follows
      <4>2. typed \in Nat /\ Len(shown) \in Nat /\ Len(toClient) = 0 /\ Len(toServer) = 0 BY <3>3, Sizes
      <4>3. Len(shown) + 0 + 0 + 0 <= typed BY <4>1, <4>2
      <4> QED BY <1>1, <3>4, <4>3
    <3>7. Holds(0)' BY <1>3, HoldsNone
    <3>8. Follows(0)' BY <2>2, <3>5, <3>6, <3>7 DEF Follows
    <3>9. /\ \A i \in 1..Len(shown') : shown'[i] = i
          /\ typed' < Len(shown') + MAXSIZE
      BY <1>1, <3>1 DEF InOrder
    <3> QED BY <1>1, <2>3, <3>8, <3>9 DEF InOrder
  <2> QED BY <2>4, <2>5
<1> QED BY <1>2, <1>3 DEF WriteLost

\* What is shown follows what was shown before, and the client is idle again.
LEMMA ShowPaced ==
  ASSUME TypeOK, Events, Paced, WriteStdout
  PROVE  Paced'
<1>1. PICK s \in Strings :
        /\ shown' = shown \o s /\ buf' = Clear
        /\ UNCHANGED <<toServer, toClient, lines, typed, hasty, longest, clean, closed>>
  BY DEF WriteStdout, user
<1>2. Take("stdout", "out") /\ reg' = Delete(reg, "stdout") BY DEF WriteStdout
<1> SUFFICES ASSUME Patient PROVE Turn' /\ (Tidy => InOrder')
  BY <1>1 DEF Paced, Patient, Tidy
<1>3. Turn BY DEF Paced
<1>4. reg["stdout"] = "out" /\ reg'["stdout"] = "none" /\ reg'["sock"] = reg["sock"] BY <1>2, ShowReg
<1>5. lines = <<>> /\ reg["sock"] = "none" BY <1>3, <1>4 DEF Turn
<1>6. Turn' BY <1>1, <1>4, <1>5 DEF Turn, Busy
<1>7. ASSUME Tidy PROVE InOrder'
  <2>1. InOrder BY <1>7 DEF Paced
  <2>2. PICK k \in Nat : Follows(k) BY <2>1 DEF InOrder
  <2>3. /\ MAXSIZE \in Nat /\ typed \in Nat /\ Len(shown) \in Nat
        /\ Len(toServer) \in Nat /\ Len(toClient) \in Nat
    BY Sizes
  <2>4. Len(shown) + k + Len(toClient) + Len(toServer) <= typed BY <2>2 DEF Follows
  <2>5. Len(shown) + k <= typed BY <2>3, <2>4
  <2>6. typed < Len(shown) + MAXSIZE BY <2>1 DEF InOrder
  <2>7. k < MAXSIZE BY <2>3, <2>5, <2>6
  <2>8. s \in Seq(Byte) /\ Len(s) = k /\ \A i \in 1..k : s[i] = Len(shown) + i
    <3>1. Holds(k) BY <2>2 DEF Follows
    <3> QED BY <2>5, <2>7, <3>1, HeldString
  <2>9. shown \in Seq(Byte) BY Typing
  <2>10. Len(shown') = Len(shown) + k BY <1>1, <2>8, <2>9, ConcatProperties, Zenon
  <2>11. \A i \in 1..Len(shown) + k : shown'[i] = IF i <= Len(shown) THEN shown[i] ELSE s[i - Len(shown)]
    BY <1>1, <2>8, <2>9, ConcatProperties
  <2>12. \A i \in 1..Len(shown') : shown'[i] = i
    <3> SUFFICES ASSUME NEW i \in 1..Len(shown) + k PROVE shown'[i] = i
      BY <2>10
    <3>1. CASE i <= Len(shown)
      <4>1. i \in 1..Len(shown) BY <2>3, <3>1
      <4> QED BY <2>1, <2>11, <3>1, <4>1 DEF InOrder
    <3>2. CASE i > Len(shown)
      <4>1. i - Len(shown) \in 1..k /\ ~ (i <= Len(shown)) BY <2>3, <3>2
      <4>2. shown'[i] = Len(shown) + (i - Len(shown)) BY <2>8, <2>11, <4>1
      <4> QED BY <2>3, <4>2
    <3> QED BY <2>3, <3>1, <3>2
  <2>13. typed' < Len(shown') + MAXSIZE
    <3>1. typed < Len(shown) + k + MAXSIZE BY <2>3, <2>6
    <3> QED BY <1>1, <2>10, <3>1
  <2>14. \A i \in 1..Len(toClient') : toClient'[i] = Len(shown') + 0 + i
    <3> SUFFICES ASSUME NEW i \in 1..Len(toClient) PROVE toClient[i] = Len(shown) + k + 0 + i
      BY <1>1, <2>10
    <3>1. toClient[i] = Len(shown) + k + i BY <2>2 DEF Follows
    <3> QED BY <2>3, <3>1
  <2>15. \A i \in 1..Len(toServer') : toServer'[i] = Len(shown') + 0 + Len(toClient') + i
    <3> SUFFICES ASSUME NEW i \in 1..Len(toServer) PROVE toServer[i] = Len(shown) + k + 0 + Len(toClient) + i
      BY <1>1, <2>10
    <3>1. toServer[i] = Len(shown) + k + Len(toClient) + i BY <2>2 DEF Follows
    <3> QED BY <2>3, <3>1
  <2>16. Len(shown') + 0 + Len(toClient') + Len(toServer') <= typed'
    <3>1. Len(shown) + k + 0 + Len(toClient) + Len(toServer) <= typed BY <2>3, <2>4
    <3> QED BY <1>1, <2>10, <3>1
  <2>17. Holds(0)' BY <1>1, HoldsNone
  <2>18. Follows(0)' BY <1>4, <1>5, <2>14, <2>15, <2>16, <2>17 DEF Follows
  <2> QED BY <1>1, <1>5, <2>12, <2>13, <2>18 DEF InOrder
<1> QED BY <1>6, <1>7
-----------------------------------------------------------------------------
(* The order of the bytes, for a user who waits for each answer and types  *)
(* no line longer than buf.                                                *)

\* A step that moves no byte and changes no registration.
LEMMA StillOrdered ==
  ASSUME Ordered, UNCHANGED <<reg, buf, typed, lines, hasty, longest, toServer, toClient, shown>>
  PROVE  Ordered'
<1> SUFFICES ASSUME Patient PROVE Sequel'
  BY DEF Ordered, Patient
<1>0. Sequel BY DEF Ordered
<1>1. Asc(buf)' /\ Asc(toClient)' /\ Asc(toServer)' BY <1>0 DEF Sequel, Asc
<1>2. Below(buf, toClient)' /\ Below(buf, toServer)' /\ Below(toClient, toServer)'
  BY <1>0 DEF Sequel, Below, Occurs
<1>3. Front' /\ Seen' BY <1>0 DEF Sequel, Front, Seen
<1>4. Whole' BY <1>0 DEF Sequel, Whole, Held, Occurs
<1>5. /\ reg'["sock"] = "out" \/ lines' # <<>> => Bare(toServer)' /\ Bare(toClient)'
      /\ reg'["stdout"] = "none" /\ reg'["sock"] # "out" => Bare(buf)'
  BY <1>0 DEF Sequel, Bare, Occurs
<1>6. lines' # <<>> => \A c \in 1..typed' : Occurs(c, shown)' \/ Occurs(c, lines'[1])
  BY <1>0 DEF Sequel, Occurs
<1> QED BY <1>1, <1>2, <1>3, <1>4, <1>5, <1>6 DEF Sequel

\* Bytes in order, put behind bytes that all come earlier, are in order.
LEMMA AscCat ==
  ASSUME NEW s \in Seq(Byte), NEW t \in Seq(Byte), Asc(s), Asc(t), Below(s, t)
  PROVE  Asc(s \o t)
<1>1. /\ Len(s) \in Nat /\ Len(t) \in Nat /\ DOMAIN s = 1..Len(s) /\ DOMAIN t = 1..Len(t)
  BY LenProperties
<1>2. s \o t \in Seq(Byte) /\ Len(s \o t) = Len(s) + Len(t) BY ConcatProperties
<1>3. \A i \in 1..Len(s) + Len(t) : (s \o t)[i] = IF i <= Len(s) THEN s[i] ELSE t[i - Len(s)]
  BY ConcatProperties
<1> DEFINE st == s \o t
<1>4. DOMAIN st = 1..Len(s) + Len(t) BY <1>1, <1>2, LenProperties
<1>5. \A i \in 1..Len(s) + Len(t) : st[i] = IF i <= Len(s) THEN s[i] ELSE t[i - Len(s)] BY <1>3
<1> HIDE DEF st
<1>6. ASSUME NEW i \in DOMAIN st, NEW j \in DOMAIN st, i < j, st[i] \in Typed, st[j] \in Typed
      PROVE  st[i] < st[j]
  <2>1. CASE j <= Len(s)
    <3>1. i \in DOMAIN s /\ j \in DOMAIN s /\ i <= Len(s) BY <1>1, <1>4, <1>6, <2>1
    <3>2. st[i] = s[i] /\ st[j] = s[j] BY <1>4, <1>5, <2>1, <3>1
    <3> QED BY <1>6, <3>1, <3>2 DEF Asc
  <2>2. CASE i <= Len(s) /\ ~ (j <= Len(s))
    <3>1. i \in DOMAIN s /\ j - Len(s) \in DOMAIN t BY <1>1, <1>4, <2>2
    <3>2. st[i] = s[i] /\ st[j] = t[j - Len(s)] BY <1>4, <1>5, <2>2
    <3>3. Occurs(st[i], s) /\ Occurs(st[j], t) BY <3>1, <3>2 DEF Occurs
    <3> QED BY <1>6, <3>3 DEF Below
  <2>3. CASE ~ (i <= Len(s))
    <3>1. /\ i - Len(s) \in DOMAIN t /\ j - Len(s) \in DOMAIN t /\ i - Len(s) < j - Len(s)
          /\ ~ (j <= Len(s))
      BY <1>1, <1>4, <1>6, <2>3
    <3>2. st[i] = t[i - Len(s)] /\ st[j] = t[j - Len(s)] BY <1>4, <1>5, <2>3, <3>1
    <3> QED BY <1>6, <3>1, <3>2 DEF Asc
  <2> QED BY <1>1, <1>4, <2>1, <2>2, <2>3
<1>7. Asc(st) BY <1>6 DEF Asc
<1> QED BY <1>7 DEF st

\* Bytes in order, cut in two.
LEMMA AscCut ==
  ASSUME NEW s \in Seq(Byte), NEW n \in 0..Len(s), Asc(s)
  PROVE  LET p == SubSeq(s, 1, n)
             q == SubSeq(s, n + 1, Len(s))
         IN  Asc(p) /\ Asc(q) /\ Below(p, q)
<1> DEFINE p == SubSeq(s, 1, n)
           q == SubSeq(s, n + 1, Len(s))
<1>1. /\ p \in Seq(Byte) /\ Len(p) = n /\ \A i \in 1..n : p[i] = s[i]
      /\ q \in Seq(Byte) /\ Len(q) = Len(s) - n /\ \A i \in 1..Len(s) - n : q[i] = s[n + i]
  BY Cut
<1>2. Len(s) \in Nat /\ n \in Nat /\ n <= Len(s) /\ DOMAIN s = 1..Len(s) BY LenProperties
<1>3. DOMAIN p = 1..n /\ DOMAIN q = 1..Len(s) - n BY <1>1, <1>2, LenProperties, Zenon
<1> HIDE DEF p, q
<1>4. \A i \in DOMAIN p : i \in DOMAIN s /\ p[i] = s[i] /\ i \in Nat /\ i <= n BY <1>1, <1>2, <1>3
<1>5. \A i \in DOMAIN q : n + i \in DOMAIN s /\ q[i] = s[n + i] /\ i \in Nat /\ i > 0 BY <1>1, <1>2, <1>3
<1>6. Asc(p) BY <1>4 DEF Asc
<1>7. ASSUME NEW i \in DOMAIN q, NEW j \in DOMAIN q, i < j, q[i] \in Typed, q[j] \in Typed PROVE q[i] < q[j]
  <2>1. n + i < n + j BY <1>2, <1>5, <1>7
  <2> QED BY <1>5, <1>7, <2>1 DEF Asc
<1>8. ASSUME NEW b \in Typed, NEW c \in Typed, Occurs(b, p), Occurs(c, q) PROVE b < c
  <2>1. PICK i \in DOMAIN p : p[i] = b BY <1>8 DEF Occurs
  <2>2. PICK j \in DOMAIN q : q[j] = c BY <1>8 DEF Occurs
  <2>3. i < n + j BY <1>2, <1>4, <1>5
  <2>4. i \in DOMAIN s /\ s[i] = b /\ n + j \in DOMAIN s /\ s[n + j] = c BY <1>4, <1>5, <2>1, <2>2
  <2> QED BY <2>3, <2>4 DEF Asc
<1> QED BY <1>6, <1>7, <1>8 DEF Asc, Below, p, q

\* What is read into a buffer that holds no typed byte is at its front and in order.
LEMMA FillOrdered ==
  ASSUME TypeOK, Bare(buf), NEW p \in Seq(Byte), Len(p) <= MAXSIZE, Asc(p), DOMAIN buf' = 1..MAXSIZE,
         \A i \in 1..MAXSIZE : buf'[i] = IF i <= Len(p) THEN p[i] ELSE buf[i]
  PROVE  Asc(buf)' /\ Front' /\ \A b \in Typed : Occurs(b, buf)' <=> Occurs(b, p)
<1>1. MAXSIZE \in Nat /\ Len(p) \in Nat /\ DOMAIN p = 1..Len(p) BY LenProperties, ClientAssumption
<1>2. DOMAIN buf = 1..MAXSIZE BY Typing
<1>3. \A i \in DOMAIN p : i \in 1..MAXSIZE /\ i \in Nat /\ i <= Len(p) /\ buf'[i] = p[i] BY <1>1
<1>4. ASSUME NEW i \in 1..MAXSIZE, buf'[i] \in Typed PROVE i \in DOMAIN p /\ buf'[i] = p[i]
  <2>1. CASE i <= Len(p) BY <1>1, <2>1
  <2>2. CASE ~ (i <= Len(p))
    <3>1. buf[i] \in Typed BY <1>4, <2>2
    <3>2. Occurs(buf[i], buf) BY <1>2 DEF Occurs
    <3> QED BY <3>1, <3>2 DEF Bare
  <2> QED BY <2>1, <2>2
<1>5. Asc(buf)' BY <1>4 DEF Asc
<1>6. ASSUME NEW i \in 1..MAXSIZE, buf'[i] \in Typed, NEW j \in 1..i PROVE buf'[j] # NUL
  <2>1. i \in DOMAIN p BY <1>4, <1>6
  <2>2. j \in DOMAIN p BY <1>1, <2>1
  <2>3. p[j] \in Byte BY <1>1, <2>2, ElementOfSeq
  <2> QED BY <1>3, <2>2, <2>3, ClientAssumption DEF Byte, Typed
<1>7. Front' BY <1>6 DEF Front
<1>8. ASSUME NEW b \in Typed PROVE Occurs(b, buf)' <=> Occurs(b, p)
  <2>1. ASSUME Occurs(b, p) PROVE Occurs(b, buf)' BY <1>3, <2>1 DEF Occurs
  <2>2. ASSUME Occurs(b, buf)' PROVE Occurs(b, p) BY <1>4, <2>2 DEF Occurs
  <2> QED BY <2>1, <2>2
<1> QED BY <1>5, <1>7, <1>8

\* The string in buf has all the typed bytes of buf, where they are.
LEMMA FrontString ==
  ASSUME TypeOK, Front, NEW s \in Strings
  PROVE  /\ \A i \in DOMAIN s : s[i] \in Typed => i \in 1..MAXSIZE /\ s[i] = buf[i]
         /\ \A i \in 1..MAXSIZE : buf[i] \in Typed => i \in DOMAIN s /\ s[i] = buf[i]
         /\ \A b \in Typed : Occurs(b, s) <=> Occurs(b, buf)
         /\ Asc(buf) => Asc(s)
<1>1. PICK n \in 0..MAXSIZE :
        /\ \A i \in 1..n : buf[i] # NUL
        /\ n = MAXSIZE \/ buf[n + 1] = NUL
        /\ \/ s = [i \in 1..n |-> buf[i]]
           \/ n = MAXSIZE /\ s = Append([i \in 1..n |-> buf[i]], Junk)
  BY StringFacts
<1>2. MAXSIZE \in Nat /\ n \in Nat /\ n <= MAXSIZE /\ DOMAIN buf = 1..MAXSIZE BY Typing, ClientAssumption
<1> DEFINE f == [i \in 1..n |-> buf[i]]
<1>3. /\ \A i \in 1..n : i \in DOMAIN s /\ s[i] = buf[i]
      /\ \A i \in DOMAIN s : i \in 1..n \/ s[i] = Junk
  <2>1. CASE s = f BY <2>1
  <2>2. CASE s = Append(f, Junk)
    <3>1. \A i \in 1..n : buf[i] \in Byte \cup {NUL}
      <4>1. buf \in [1..MAXSIZE -> Byte \cup {NUL}] BY Typing
      <4> QED BY <1>2, <4>1
    <3>2. f \in Seq(Byte \cup {NUL}) /\ Len(f) = n BY <1>2, <3>1
    <3>3. \A i \in 1..n : f[i] = buf[i] OBVIOUS
    <3> HIDE DEF f
    <3>4. Junk \in Byte \cup {NUL} BY DEF Byte
    <3>5. /\ s \in Seq(Byte \cup {NUL}) /\ Len(s) = n + 1 /\ s[n + 1] = Junk
          /\ \A i \in 1..n : s[i] = f[i]
      BY <2>2, <3>2, <3>4, AppendProperties
    <3>6. DOMAIN s = 1..n + 1 BY <3>5, LenProperties
    <3> QED BY <1>2, <3>3, <3>5, <3>6
  <2> QED BY <1>1, <2>1, <2>2
<1>4. Junk \notin Typed BY ClientAssumption DEF Typed
<1>5. \A i \in DOMAIN s : s[i] \in Typed => i \in 1..MAXSIZE /\ s[i] = buf[i] BY <1>2, <1>3, <1>4
<1>6. ASSUME NEW i \in 1..MAXSIZE, buf[i] \in Typed PROVE i \in DOMAIN s /\ s[i] = buf[i]
  <2>1. i <= n
    <3> SUFFICES ASSUME ~ (i <= n) PROVE FALSE
      OBVIOUS
    <3>1. n + 1 \in 1..i /\ n # MAXSIZE BY <1>2
    <3>2. buf[n + 1] # NUL BY <1>6, <3>1 DEF Front
    <3> QED BY <1>1, <3>1, <3>2
  <2>2. i \in 1..n BY <1>2, <2>1
  <2> QED BY <1>3, <2>2
<1>7. ASSUME NEW b \in Typed PROVE Occurs(b, s) <=> Occurs(b, buf) BY <1>2, <1>5, <1>6 DEF Occurs
<1>8. ASSUME Asc(buf) PROVE Asc(s) BY <1>2, <1>5, <1>8 DEF Asc
<1> QED BY <1>5, <1>6, <1>7, <1>8

\* The buffer after a write.
LEMMA ClearOrdered ==
  ASSUME TypeOK, buf' = Clear
  PROVE  Asc(buf)' /\ Front' /\ Bare(buf)'
<1>1. \A b \in Typed : ~ Occurs(b, buf)' BY ClearMoves
<1>2. \A i \in 1..MAXSIZE : buf'[i] = NUL BY DEF Clear
<1>3. NUL \notin Typed BY ClientAssumption DEF Typed
<1>4. DOMAIN buf' = 1..MAXSIZE BY DEF Clear
<1>5. Asc(buf)' BY <1>2, <1>3, <1>4 DEF Asc
<1> QED BY <1>1, <1>2, <1>3, <1>5 DEF Front, Bare

\* When the line before is answered, all that was typed is on the screen and nowhere
\* else.
LEMMA TypeOrdered ==
  ASSUME TypeOK, Apart, Queued, Paced, Ordered, NEW n \in Length, Type(n)
  PROVE  Ordered'
<1> SUFFICES ASSUME Patient' PROVE Sequel'
  BY DEF Ordered
<1> DEFINE w == [i \in 1..n |-> typed + i]
<1>1. /\ typed + n <= MaxTyped /\ lines' = Append(lines, w) /\ typed' = typed + n
      /\ UNCHANGED <<reg, buf, toServer, toClient, shown>>
  BY DEF Type
<1>2. typed \in Nat /\ n \in Nat /\ n > 0 /\ MaxTyped \in Nat BY Sizes, ClientAssumption
<1>3. Patient /\ ~ Busy /\ (typed = 0 \/ Occurs(typed, shown)) BY TypeTurn
<1>4. lines = <<>> /\ reg["sock"] = "none" /\ reg["stdout"] = "none" BY <1>3 DEF Busy
<1>5. Sequel BY <1>3 DEF Ordered
<1>6. ASSUME NEW c \in 1..typed PROVE Occurs(c, shown)
  <2>1. Occurs(typed, shown) BY <1>2, <1>3
  <2>2. PICK i \in DOMAIN shown : shown[i] = typed BY <2>1 DEF Occurs
  <2>3. CASE c = typed BY <2>1, <2>3
  <2>4. CASE c # typed
    <3>1. typed \in Typed BY <1>1, <1>2 DEF Typed
    <3>2. c \in 1..shown[i] - 1 BY <1>2, <2>2, <2>4
    <3>3. PICK j \in 1..i - 1 : shown[j] = c BY <1>5, <2>2, <3>1, <3>2 DEF Sequel, Seen
    <3>4. Len(shown) \in Nat /\ DOMAIN shown = 1..Len(shown) BY Sizes
    <3>5. j \in DOMAIN shown BY <3>4
    <3> QED BY <3>3, <3>5 DEF Occurs
  <2> QED BY <2>3, <2>4
<1>7. \A b \in Typed : Held(b) => Occurs(b, shown)
  <2> SUFFICES ASSUME NEW b \in Typed, Held(b) PROVE Occurs(b, shown)
    OBVIOUS
  <2>1. b <= typed BY DEF Queued, After
  <2>2. b \in 1..typed BY <1>2, <2>1 DEF Typed
  <2> QED BY <1>6, <2>2
<1>8. Bare(toServer) /\ Bare(toClient) BY <1>7 DEF Apart, Held, Bare
<1>9. Bare(toServer)' /\ Bare(toClient)' BY <1>1, <1>8 DEF Bare, Occurs
<1>10. DOMAIN w = 1..n /\ \A i \in 1..n : w[i] = typed + i OBVIOUS
<1> HIDE DEF w
<1>11. lines'[1] = w BY <1>1, <1>4
<1>12. ASSUME NEW c \in 1..typed' PROVE Occurs(c, shown)' \/ Occurs(c, lines'[1])
  <2>1. CASE c <= typed
    <3>1. c \in 1..typed BY <1>1, <1>2, <2>1
    <3>2. Occurs(c, shown) BY <1>6, <3>1
    <3> QED BY <1>1, <3>2 DEF Occurs
  <2>2. CASE ~ (c <= typed)
    <3>1. c - typed \in 1..n /\ typed + (c - typed) = c BY <1>1, <1>2, <2>2
    <3>2. w[c - typed] = c BY <1>10, <3>1
    <3> QED BY <1>10, <1>11, <3>1, <3>2 DEF Occurs
  <2> QED BY <2>1, <2>2
<1>13. Asc(buf)' /\ Asc(toClient)' /\ Asc(toServer)' BY <1>1, <1>5 DEF Sequel, Asc
<1>14. Below(buf, toClient)' /\ Below(buf, toServer)' /\ Below(toClient, toServer)'
  BY <1>1, <1>5 DEF Sequel, Below, Occurs
<1>15. Front' /\ Seen' BY <1>1, <1>5 DEF Sequel, Front, Seen
<1>16. Whole' BY <1>1, <1>5 DEF Sequel, Whole, Held, Occurs
<1>17. reg'["stdout"] = "none" /\ reg'["sock"] # "out" => Bare(buf)'
  BY <1>1, <1>5 DEF Sequel, Bare, Occurs
<1> QED BY <1>9, <1>12, <1>13, <1>14, <1>15, <1>16, <1>17 DEF Sequel

\* The bytes that come back are the first of those that are out.
LEMMA AnswerOrdered ==
  ASSUME TypeOK, Ordered, Answer
  PROVE  Ordered'
<1>1. PICK n \in 1..Len(toServer) :
        /\ toClient' = toClient \o SubSeq(toServer, 1, n)
        /\ toServer' = SubSeq(toServer, n + 1, Len(toServer))
        /\ UNCHANGED <<reg, buf, typed, lines, shown, hasty, longest>>
  BY Zenon DEF Answer, user
<1> SUFFICES ASSUME Patient PROVE Sequel'
  BY <1>1 DEF Ordered, Patient
<1>0. Sequel BY DEF Ordered
<1> DEFINE p == SubSeq(toServer, 1, n)
           q == SubSeq(toServer, n + 1, Len(toServer))
<1>2. toServer \in Seq(Byte) /\ toClient \in Seq(Byte) BY Typing
<1>3. n \in 0..Len(toServer) BY Sizes
<1>4. p \in Seq(Byte) /\ q \in Seq(Byte) /\ \A b : Occurs(b, p) \/ Occurs(b, q) <=> Occurs(b, toServer)
  BY <1>2, <1>3, Cut
<1>5. Asc(p) /\ Asc(q) /\ Below(p, q)
  <2>1. Asc(toServer) BY <1>0 DEF Sequel
  <2> QED BY <1>2, <1>3, <2>1, AscCut
<1>6. toServer' = q /\ toClient' = toClient \o p BY <1>1
<1> HIDE DEF p, q
<1>7. \A b : Occurs(b, toClient \o p) <=> Occurs(b, toClient) \/ Occurs(b, p) BY <1>2, <1>4, OccursCat
<1>8. \A b \in Typed : Occurs(b, toClient)' <=> Occurs(b, toClient) \/ Occurs(b, p)
  BY <1>6, <1>7, Zenon DEF Occurs
<1>9. \A b \in Typed : Occurs(b, toServer)' <=> Occurs(b, q) BY <1>6 DEF Occurs
<1>10. \A b \in Typed : (Occurs(b, buf)' <=> Occurs(b, buf)) /\ (Occurs(b, shown)' <=> Occurs(b, shown))
  BY <1>1 DEF Occurs
<1>11. Asc(buf)' /\ Asc(toServer)' BY <1>0, <1>1, <1>5, <1>6 DEF Sequel, Asc
<1>12. Asc(toClient)'
  <2>1. Asc(toClient) /\ Below(toClient, toServer) BY <1>0 DEF Sequel
  <2>2. Below(toClient, p) BY <1>4, <2>1 DEF Below
  <2>3. Asc(toClient \o p) BY <1>2, <1>4, <1>5, <2>1, <2>2, AscCat
  <2> QED BY <1>6, <2>3 DEF Asc
<1>13. Below(buf, toClient) /\ Below(buf, toServer) /\ Below(toClient, toServer) BY <1>0 DEF Sequel
<1>14. Below(buf, toClient)' BY <1>4, <1>8, <1>10, <1>13 DEF Below
<1>15. Below(buf, toServer)' BY <1>4, <1>9, <1>10, <1>13 DEF Below
<1>16. Below(toClient, toServer)' BY <1>4, <1>5, <1>8, <1>9, <1>13 DEF Below
<1>17. Front' /\ Seen' BY <1>0, <1>1 DEF Sequel, Front, Seen
<1>18. \A b \in Typed : Held(b)' <=> Held(b) BY <1>4, <1>8, <1>9, <1>10 DEF Held
<1>19. Whole'
  <2>1. \A b \in Typed : \A c \in 1..b - 1 : c \in Typed BY ClientAssumption DEF Typed
  <2>2. Whole BY <1>0 DEF Sequel
  <2> QED BY <1>18, <2>1, <2>2, Zenon DEF Whole
<1>20. reg'["sock"] = "out" \/ lines' # <<>> => Bare(toServer)' /\ Bare(toClient)'
  <2>1. reg["sock"] = "out" \/ lines # <<>> => Bare(toServer) /\ Bare(toClient) BY <1>0 DEF Sequel
  <2>2. Bare(toServer) /\ Bare(toClient) => Bare(toServer)' /\ Bare(toClient)'
    BY <1>4, <1>8, <1>9 DEF Bare
  <2> QED BY <1>1, <2>1, <2>2
<1>21. reg'["stdout"] = "none" /\ reg'["sock"] # "out" => Bare(buf)' BY <1>0, <1>1, <1>10 DEF Sequel, Bare
<1>22. lines' # <<>> => \A c \in 1..typed' : Occurs(c, shown)' \/ Occurs(c, lines'[1])
  BY <1>0, <1>1, Zenon DEF Sequel, Occurs
<1> QED BY <1>11, <1>12, <1>14, <1>15, <1>16, <1>17, <1>19, <1>20, <1>21, <1>22 DEF Sequel

\* The line is read whole, into a buffer that holds no other.
LEMMA ReadStdinOrdered ==
  ASSUME TypeOK, Apart, Queued, Events, Paced, Ordered, ReadStdin
  PROVE  Ordered'
<1>1. UNCHANGED <<toServer, toClient, shown, typed, hasty, longest>> BY DEF ReadStdin
<1> SUFFICES ASSUME Patient PROVE Sequel'
  BY <1>1 DEF Ordered, Patient
<1>0. Sequel /\ Turn BY DEF Ordered, Paced
<1> DEFINE h == Head(lines)
<1>2. /\ lines # <<>> /\ lines' = Tail(lines) /\ Len(h) <= MAXSIZE
      /\ \A i \in 1..MAXSIZE : buf'[i] = IF i <= Len(h) THEN h[i] ELSE buf[i]
  BY ReadStdinWhole DEF Patient
<1>3. reg["sock"] = "none" /\ reg["stdout"] = "none" /\ Len(lines) = 1 BY <1>0, <1>2 DEF Turn
<1>4. reg'["sock"] = "out" BY <1>3, ReadStdinReg
<1>5. /\ h = lines[1] /\ 1 \in DOMAIN lines /\ h \in Seq(Byte) /\ \A i \in DOMAIN h : h[i] \in Typed
      /\ Tail(lines) \in Seq(Seq(Typed)) /\ Len(Tail(lines)) = Len(lines) - 1
  BY <1>2, FirstLine
<1>6. lines' = <<>>
  <2>1. Len(lines') = 0 /\ lines' \in Seq(Seq(Typed)) BY <1>2, <1>3, <1>5
  <2> QED BY <2>1, EmptySeq
<1> HIDE DEF h
<1>7. (\A i \in DOMAIN h : h[i] <= typed) /\ (\A i, j \in DOMAIN h : i < j => h[i] < h[j])
  BY <1>5, Zenon DEF Queued, LineOK
<1>8. Asc(h) BY <1>7 DEF Asc
<1>9. Bare(buf) /\ Bare(toServer) /\ Bare(toClient) BY <1>0, <1>2, <1>3 DEF Sequel
<1>10. DOMAIN buf' = 1..MAXSIZE
  <2>1. buf' \in [1..MAXSIZE -> Byte \cup {NUL}] BY ReadStdinMoves
  <2> QED BY <2>1
<1>11. Asc(buf)' /\ Front' /\ \A b \in Typed : Occurs(b, buf)' <=> Occurs(b, h)
  BY <1>2, <1>5, <1>8, <1>9, <1>10, FillOrdered
<1>12. Bare(toServer)' /\ Bare(toClient)' BY <1>1, <1>9 DEF Bare, Occurs
<1>13. Asc(toClient)' /\ Asc(toServer)' BY <1>0, <1>1 DEF Sequel, Asc
<1>14. Below(buf, toClient)' /\ Below(buf, toServer)' /\ Below(toClient, toServer)'
  BY <1>12 DEF Below, Bare
<1>15. Seen' BY <1>0, <1>1 DEF Sequel, Seen
<1>16. Whole'
  <2> SUFFICES ASSUME NEW b \in Typed, Held(b)', NEW c \in 1..b - 1 PROVE Held(c)'
    BY DEF Whole
  <2>1. b <= typed
    <3>1. CASE Occurs(b, h) BY <1>7, <3>1 DEF Occurs
    <3>2. CASE ~ Occurs(b, h)
      <4>1. Occurs(b, shown)' BY <1>11, <1>12, <3>2 DEF Held, Bare
      <4>2. Held(b) BY <1>1, <4>1 DEF Held, Occurs
      <4> QED BY <4>2 DEF Queued, After
    <3> QED BY <3>1, <3>2
  <2>2. typed \in 0..MaxTyped BY Typing
  <2>3. c \in 1..typed /\ c \in Typed BY <2>1, <2>2, ClientAssumption DEF Typed
  <2>4. Occurs(c, shown) \/ Occurs(c, h) BY <1>0, <1>2, <1>5, <2>3 DEF Sequel
  <2>5. Occurs(c, shown)' <=> Occurs(c, shown) BY <1>1 DEF Occurs
  <2> QED BY <1>11, <2>3, <2>4, <2>5 DEF Held
<1> QED BY <1>4, <1>6, <1>11, <1>12, <1>13, <1>14, <1>15, <1>16 DEF Sequel

\* The answer, or its first piece, is read into a buffer that holds no line.
LEMMA ReadSockOrdered ==
  ASSUME TypeOK, Apart, Queued, Events, Paced, Ordered, ReadSock
  PROVE  Ordered'
<1> DEFINE n == Smaller(Len(toClient), MAXSIZE)
           p == SubSeq(toClient, 1, n)
           q == SubSeq(toClient, n + 1, Len(toClient))
<1>1. buf' = Fill(p) /\ toClient' = q /\ UNCHANGED <<toServer, shown, lines, typed, hasty, longest>>
  BY DEF ReadSock, user
<1> SUFFICES ASSUME Patient PROVE Sequel'
  BY <1>1 DEF Ordered, Patient
<1>0. Sequel /\ Turn BY DEF Ordered, Paced
<1>2. reg["sock"] = "in" /\ reg'["sock"] = "none" /\ reg'["stdout"] # "none" BY ReadSockReg
<1>3. lines = <<>> /\ reg["stdout"] = "none" BY <1>0, <1>2 DEF Turn
<1>4. Bare(buf) /\ Asc(toClient) /\ Below(toClient, toServer) BY <1>0, <1>2, <1>3 DEF Sequel
<1>5. toClient \in Seq(Byte) /\ MAXSIZE \in Nat /\ Len(toClient) \in Nat BY Typing, Sizes
<1>6. n \in 0..Len(toClient) /\ n <= MAXSIZE BY <1>5 DEF Smaller
<1> HIDE DEF n
<1>7. p \in Seq(Byte) /\ Len(p) = n /\ \A b : Occurs(b, p) \/ Occurs(b, q) <=> Occurs(b, toClient)
  BY <1>5, <1>6, Cut
<1>8. Asc(p) /\ Asc(q) /\ Below(p, q) BY <1>4, <1>5, <1>6, AscCut
<1> HIDE DEF p, q
<1>9. \A i \in 1..MAXSIZE : buf'[i] = IF i <= Len(p) THEN p[i] ELSE buf[i] BY <1>1 DEF Fill
<1>10. DOMAIN buf' = 1..MAXSIZE BY <1>1 DEF Fill
<1>11. Asc(buf)' /\ Front' /\ \A b \in Typed : Occurs(b, buf)' <=> Occurs(b, p)
  BY <1>4, <1>6, <1>7, <1>8, <1>9, <1>10, FillOrdered
<1>12. \A b \in Typed : Occurs(b, toClient)' <=> Occurs(b, q) BY <1>1 DEF Occurs
<1>13. \A b \in Typed : (Occurs(b, toServer)' <=> Occurs(b, toServer)) /\ (Occurs(b, shown)' <=> Occurs(b, shown))
  BY <1>1 DEF Occurs
<1>14. Asc(toClient)' /\ Asc(toServer)' BY <1>0, <1>1, <1>8 DEF Sequel, Asc
<1>15. Below(buf, toClient)' BY <1>8, <1>11, <1>12 DEF Below
<1>16. Below(buf, toServer)' BY <1>4, <1>7, <1>11, <1>13 DEF Below
<1>17. Below(toClient, toServer)' BY <1>4, <1>7, <1>12, <1>13 DEF Below
<1>18. Seen' BY <1>0, <1>1 DEF Sequel, Seen
<1>19. \A b \in Typed : Held(b)' <=> Held(b) BY <1>4, <1>7, <1>11, <1>12, <1>13 DEF Held, Bare
<1>20. Whole'
  <2>1. \A b \in Typed : \A c \in 1..b - 1 : c \in Typed BY ClientAssumption DEF Typed
  <2>2. Whole BY <1>0 DEF Sequel
  <2> QED BY <1>19, <2>1, <2>2, Zenon DEF Whole
<1> QED BY <1>1, <1>2, <1>3, <1>11, <1>14, <1>15, <1>16, <1>17, <1>18, <1>20 DEF Sequel

\* All the typed bytes of buf go out.
LEMMA WriteSockOrdered ==
  ASSUME TypeOK, Events, Paced, Ordered, WriteSock
  PROVE  Ordered'
<1>1. PICK s \in Strings :
        /\ toServer' = toServer \o s /\ buf' = Clear
        /\ UNCHANGED <<toClient, shown, lines, typed, hasty, longest>>
  BY DEF WriteSock, SendThen, user
<1>2. Take("sock", "out") /\ reg' = Modify(reg, "sock", "in") BY DEF WriteSock, SendThen
<1> SUFFICES ASSUME Patient PROVE Sequel'
  BY <1>1 DEF Ordered, Patient
<1>0. Sequel /\ Turn BY DEF Ordered, Paced
<1>3. reg["sock"] = "out" /\ reg'["sock"] = "in" BY <1>2, WriteSockReg
<1>4. lines = <<>> BY <1>0, <1>3 DEF Turn
<1>5. Bare(toServer) /\ Bare(toClient) /\ Asc(buf) /\ Front /\ Asc(toServer) BY <1>0, <1>3 DEF Sequel
<1>6. toServer \in Seq(Byte) /\ s \in Seq(Byte) BY Typing, StringBytes
<1>7. Asc(s) /\ \A b \in Typed : Occurs(b, s) <=> Occurs(b, buf) BY <1>5, FrontString
<1>8. \A b : Occurs(b, toServer \o s) <=> Occurs(b, toServer) \/ Occurs(b, s) BY <1>6, OccursCat
<1>9. \A b \in Typed : Occurs(b, toServer)' <=> Occurs(b, toServer) \/ Occurs(b, s)
  BY <1>1, <1>8, Zenon DEF Occurs
<1>10. Asc(toServer)'
  <2>1. Below(toServer, s) BY <1>5 DEF Below, Bare
  <2>2. Asc(toServer \o s) BY <1>5, <1>6, <1>7, <2>1, AscCat
  <2> QED BY <1>1, <2>2 DEF Asc
<1>11. Asc(buf)' /\ Front' /\ Bare(buf)' BY <1>1, ClearOrdered
<1>12. \A b \in Typed : (Occurs(b, toClient)' <=> Occurs(b, toClient)) /\ (Occurs(b, shown)' <=> Occurs(b, shown))
  BY <1>1 DEF Occurs
<1>13. Below(buf, toClient)' /\ Below(buf, toServer)' BY <1>11 DEF Below, Bare
<1>14. Below(toClient, toServer)' BY <1>5, <1>12 DEF Below, Bare
<1>15. Asc(toClient)' /\ Seen' BY <1>0, <1>1 DEF Sequel, Asc, Seen
<1>16. \A b \in Typed : Held(b)' <=> Held(b) BY <1>7, <1>9, <1>11, <1>12 DEF Held, Bare
<1>17. Whole'
  <2>1. \A b \in Typed : \A c \in 1..b - 1 : c \in Typed BY ClientAssumption DEF Typed
  <2>2. Whole BY <1>0 DEF Sequel
  <2> QED BY <1>16, <2>1, <2>2, Zenon DEF Whole
<1> QED BY <1>1, <1>3, <1>4, <1>10, <1>11, <1>13, <1>14, <1>15, <1>17 DEF Sequel

\* Where a byte is shown, those typed before it are, in the places before.
LEMMA SeenWhole ==
  ASSUME TypeOK, Seen, NEW b \in Typed, Occurs(b, shown), NEW c \in 1..b - 1
  PROVE  Occurs(c, shown)
<1>1. PICK i \in DOMAIN shown : shown[i] = b BY DEF Occurs
<1>2. PICK j \in 1..i - 1 : shown[j] = c BY <1>1 DEF Seen
<1>3. Len(shown) \in Nat /\ DOMAIN shown = 1..Len(shown) BY Sizes
<1>4. j \in DOMAIN shown BY <1>3
<1> QED BY <1>2, <1>4 DEF Occurs

\* When a line is lost, the screen is all that is left.
LEMMA WriteLostOrdered ==
  ASSUME TypeOK, Events, Paced, Ordered, WriteLost
  PROVE  Ordered'
<1>1. Take("sock", "out") /\ UNCHANGED <<toServer, toClient, shown, lines, typed, hasty, longest>>
  BY DEF WriteLost, user
<1>2. CASE UNCHANGED <<reg, buf>> BY <1>1, <1>2, StillOrdered
<1>3. CASE reg' = Modify(reg, "sock", "in") /\ buf' = Clear
  <2> SUFFICES ASSUME Patient PROVE Sequel'
    BY <1>1 DEF Ordered, Patient
  <2>0. Sequel /\ Turn BY DEF Ordered, Paced
  <2>1. reg["sock"] = "out" /\ reg'["sock"] = "in" BY <1>1, <1>3, WriteSockReg
  <2>2. lines = <<>> BY <2>0, <2>1 DEF Turn
  <2>3. Bare(toServer) /\ Bare(toClient) /\ Seen BY <2>0, <2>1 DEF Sequel
  <2>4. Bare(toServer)' /\ Bare(toClient)' BY <1>1, <2>3 DEF Bare, Occurs
  <2>5. Asc(buf)' /\ Front' /\ Bare(buf)' BY <1>3, ClearOrdered
  <2>6. Asc(toClient)' /\ Asc(toServer)' /\ Seen' BY <1>1, <2>0 DEF Sequel, Asc, Seen
  <2>7. Below(buf, toClient)' /\ Below(buf, toServer)' /\ Below(toClient, toServer)'
    BY <2>4, <2>5 DEF Below, Bare
  <2>8. \A b : Occurs(b, shown)' <=> Occurs(b, shown) BY <1>1 DEF Occurs
  <2>9. Whole'
    <3> SUFFICES ASSUME NEW b \in Typed, Held(b)', NEW c \in 1..b - 1 PROVE Held(c)'
      BY DEF Whole
    <3>1. Occurs(b, shown) BY <2>4, <2>5, <2>8 DEF Held, Bare
    <3>2. Occurs(c, shown) BY <2>3, <3>1, SeenWhole
    <3> QED BY <2>8, <3>2 DEF Held
  <2> QED BY <1>1, <2>1, <2>2, <2>5, <2>6, <2>7, <2>9 DEF Sequel
<1> QED BY <1>2, <1>3 DEF WriteLost

\* What is shown comes after all that was typed before it.
LEMMA ShowOrdered ==
  ASSUME TypeOK, Events, Paced, Ordered, WriteStdout
  PROVE  Ordered'
<1>1. PICK s \in Strings :
        /\ shown' = shown \o s /\ buf' = Clear
        /\ UNCHANGED <<toServer, toClient, lines, typed, hasty, longest>>
  BY DEF WriteStdout, user
<1>2. Take("stdout", "out") /\ reg' = Delete(reg, "stdout") BY DEF WriteStdout
<1> SUFFICES ASSUME Patient PROVE Sequel'
  BY <1>1 DEF Ordered, Patient
<1>0. Sequel /\ Turn BY DEF Ordered, Paced
<1>3. reg["stdout"] = "out" /\ reg'["stdout"] = "none" /\ reg'["sock"] = reg["sock"] BY <1>2, ShowReg
<1>4. lines = <<>> /\ reg["sock"] = "none" BY <1>0, <1>3 DEF Turn
<1>5. /\ Asc(buf) /\ Front /\ Whole /\ Seen /\ Below(buf, toClient) /\ Below(buf, toServer)
      /\ Below(toClient, toServer) /\ Asc(toClient) /\ Asc(toServer)
  BY <1>0 DEF Sequel
<1>6. shown \in Seq(Byte) /\ s \in Seq(Byte) BY Typing, StringBytes
<1>7. /\ \A i \in DOMAIN s : s[i] \in Typed => i \in 1..MAXSIZE /\ s[i] = buf[i]
      /\ \A i \in 1..MAXSIZE : buf[i] \in Typed => i \in DOMAIN s /\ s[i] = buf[i]
      /\ \A b \in Typed : Occurs(b, s) <=> Occurs(b, buf)
  BY <1>5, FrontString
<1>8. \A b : Occurs(b, shown \o s) <=> Occurs(b, shown) \/ Occurs(b, s) BY <1>6, OccursCat
<1>9. \A b \in Typed : Occurs(b, shown)' <=> Occurs(b, shown) \/ Occurs(b, s) BY <1>1, <1>8, Zenon DEF Occurs
<1>10. Asc(buf)' /\ Front' /\ Bare(buf)' BY <1>1, ClearOrdered
<1>11. \A b \in Typed : (Occurs(b, toClient)' <=> Occurs(b, toClient)) /\ (Occurs(b, toServer)' <=> Occurs(b, toServer))
  BY <1>1 DEF Occurs
<1>12. Below(buf, toClient)' /\ Below(buf, toServer)' BY <1>10 DEF Below, Bare
<1>13. Below(toClient, toServer)' BY <1>5, <1>11 DEF Below
<1>14. Asc(toClient)' /\ Asc(toServer)' BY <1>1, <1>5 DEF Asc
<1>15. \A b \in Typed : Held(b)' <=> Held(b) BY <1>7, <1>9, <1>10, <1>11 DEF Held, Bare
<1>t. \A b \in Typed : b \in Int /\ \A c \in 1..b - 1 : c \in Typed /\ c < b BY ClientAssumption DEF Typed
<1>16. Whole' BY <1>5, <1>15, <1>t, Zenon DEF Whole
<1>17. /\ Len(shown) \in Nat /\ Len(s) \in Nat /\ DOMAIN shown = 1..Len(shown) /\ DOMAIN s = 1..Len(s)
  BY <1>6, LenProperties
<1>18. DOMAIN shown' = 1..Len(shown) + Len(s)
  <2>1. shown' \in Seq(Byte) /\ Len(shown') = Len(shown) + Len(s) BY <1>1, <1>6, ConcatProperties
  <2> QED BY <2>1, LenProperties
<1>19. \A i \in 1..Len(shown) + Len(s) : shown'[i] = IF i <= Len(shown) THEN shown[i] ELSE s[i - Len(shown)]
  BY <1>1, <1>6, ConcatProperties
<1>20. Seen'
  <2> SUFFICES ASSUME NEW i \in DOMAIN shown', shown'[i] \in Typed, NEW b \in 1..shown'[i] - 1
               PROVE  \E j \in 1..i - 1 : shown'[j] = b
    BY DEF Seen
  <2>1. CASE i <= Len(shown)
    <3>1. i \in DOMAIN shown /\ shown'[i] = shown[i] BY <1>17, <1>18, <1>19, <2>1
    <3>2. PICK j \in 1..i - 1 : shown[j] = b BY <1>5, <3>1 DEF Seen
    <3>3. j \in 1..Len(shown) + Len(s) /\ j <= Len(shown) BY <1>17, <2>1, <3>1
    <3> QED BY <1>19, <3>2, <3>3
  <2>2. CASE ~ (i <= Len(shown))
    <3> DEFINE k == i - Len(shown)
    <3>1. k \in DOMAIN s /\ k \in Int /\ i = Len(shown) + k /\ k > 0 BY <1>17, <1>18, <2>2
    <3>2. shown'[i] = s[k] BY <1>18, <1>19, <2>2
    <3> HIDE DEF k
    <3>3. k \in 1..MAXSIZE /\ buf[k] = s[k] /\ buf[k] \in Typed BY <1>7, <3>1, <3>2
    <3>4. DOMAIN buf = 1..MAXSIZE BY Typing
    <3>5. Occurs(s[k], buf) BY <3>3, <3>4 DEF Occurs
    <3>6. b \in Typed /\ b < s[k] /\ b \in Int /\ s[k] \in Int BY <1>t, <3>2, <3>3
    <3>7. Held(b)
      <4>1. Held(s[k]) BY <3>5 DEF Held
      <4> QED BY <1>5, <3>2, <3>3, <4>1 DEF Whole
    <3>8. CASE Occurs(b, shown)
      <4>1. PICK j \in DOMAIN shown : shown[j] = b BY <3>8 DEF Occurs
      <4>2. j \in 1..i - 1 /\ j \in 1..Len(shown) + Len(s) /\ j <= Len(shown) BY <1>17, <3>1
      <4> QED BY <1>19, <4>1, <4>2
    <3>9. CASE Occurs(b, buf)
      <4>1. PICK m \in 1..MAXSIZE : buf[m] = b BY <3>4, <3>9 DEF Occurs
      <4>2. m \in DOMAIN s /\ s[m] = b BY <1>7, <3>6, <4>1
      <4>3. m # k BY <3>6, <4>2
      <4>4. ~ (k < m)
        <5> SUFFICES ASSUME k < m PROVE FALSE
          OBVIOUS
        <5>1. buf[k] < buf[m] BY <1>5, <3>3, <3>4, <3>6, <4>1 DEF Asc
        <5> QED BY <3>3, <3>6, <4>1, <5>1
      <4>5. m \in Int /\ m > 0 /\ m < k BY <3>1, <4>3, <4>4, ClientAssumption
      <4>6. /\ Len(shown) + m \in 1..i - 1 /\ Len(shown) + m \in 1..Len(shown) + Len(s)
            /\ ~ (Len(shown) + m <= Len(shown)) /\ (Len(shown) + m) - Len(shown) = m
        BY <1>17, <3>1, <4>2, <4>5
      <4>7. shown'[Len(shown) + m] = b BY <1>19, <4>2, <4>6
      <4> QED BY <4>6, <4>7
    <3>10. CASE Occurs(b, toClient) \/ Occurs(b, toServer)
      <4>1. s[k] < b BY <1>5, <3>3, <3>5, <3>6, <3>10 DEF Below
      <4> QED BY <3>6, <4>1
    <3> QED BY <3>7, <3>8, <3>9, <3>10 DEF Held
  <2> QED BY <2>1, <2>2
<1> QED BY <1>1, <1>3, <1>4, <1>10, <1>12, <1>13, <1>14, <1>16, <1>20 DEF Sequel
-----------------------------------------------------------------------------
\* CInv holds when handle_connection begins, with any buf it finds.
LEMMA InitCInv == Init => CInv
<1> SUFFICES ASSUME Init PROVE CInv
  OBVIOUS
<1>1. /\ batch = {} /\ typed = 0 /\ lines = <<>> /\ toServer = <<>> /\ toClient = <<>> /\ shown = <<>>
      /\ reg = [f \in Fd |-> IF f = "stdin" THEN "in" ELSE "none"]
      /\ buf \in [1..MAXSIZE -> {NUL, Junk}] /\ clean = (buf = Clear) /\ longest = 0
  BY DEF Init
<1>2. /\ alive \in BOOLEAN /\ closed \in BOOLEAN /\ eof \in BOOLEAN /\ hasty \in BOOLEAN
      /\ split \in BOOLEAN /\ clean \in BOOLEAN /\ ~ hasty
  BY Zenon DEF Init
<1>3. MAXSIZE \in Nat /\ MAXSIZE > 0 /\ MaxTyped \in Nat /\ NUL \notin Typed /\ Junk \notin Typed /\ Junk \in Byte
  BY ClientAssumption DEF Typed, Byte
<1>4. buf \in [1..MAXSIZE -> {NUL, Junk}] BY <1>1
<1>5. buf \in [1..MAXSIZE -> Byte \cup {NUL}] BY <1>3, <1>4
<1>6. reg \in [Fd -> {"none", "in", "out"}] /\ reg["sock"] = "none" /\ reg["stdout"] = "none"
  BY <1>1 DEF Fd
<1>7. lines \in Seq(Seq(Typed)) /\ toServer \in Seq(Byte) /\ toClient \in Seq(Byte) /\ shown \in Seq(Byte)
  BY <1>1
<1>8. typed \in 0..MaxTyped /\ longest \in 0..MaxTyped BY <1>1, <1>3
<1>9. TypeOK
  <2>1. batch \subseteq Fd \X {"in", "out"} BY <1>1
  <2> QED BY <1>1, <1>2, <1>5, <1>6, <1>7, <1>8, <2>1, Typing
<1>10. \A b \in Typed : ~ Occurs(b, buf) BY <1>3, <1>4 DEF Occurs
<1>11. \A b : ~ Occurs(b, toServer) /\ ~ Occurs(b, toClient) /\ ~ Occurs(b, shown) BY <1>1 DEF Occurs
<1>12. Apart
  <2>1. Once(buf) BY <1>3, <1>4 DEF Once
  <2>2. Once(toServer) /\ Once(toClient) BY <1>1 DEF Once
  <2> QED BY <1>10, <1>11, <2>1, <2>2 DEF Apart
<1>13. Queued
  <2>1. DOMAIN lines = {} BY <1>1
  <2> QED BY <1>10, <1>11, <2>1 DEF Queued, Held
<1>14. Events BY <1>1 DEF Events
<1>15. Turn BY <1>1, <1>6 DEF Turn, Busy
<1>16. ASSUME Tidy PROVE InOrder
  <2>1. Len(shown) = 0 /\ Len(toServer) = 0 /\ Len(toClient) = 0 BY <1>1
  <2>2. Holds(0)
    <3>1. \A i \in 0 + 1..MAXSIZE : i \in 1..MAXSIZE BY <1>3
    <3>2. \A i \in 0 + 1..MAXSIZE : buf[i] = NUL BY <1>1, <1>16, <3>1, Zenon DEF Clear, Tidy
    <3>3. \A i \in 1..0 : FALSE OBVIOUS
    <3> QED BY <3>2, <3>3 DEF Holds
  <2>3. /\ \A i \in 1..Len(shown) : FALSE
        /\ \A i \in 1..Len(toClient) : FALSE
        /\ \A i \in 1..Len(toServer) : FALSE
        /\ Len(shown) + 0 + Len(toClient) + Len(toServer) <= typed
        /\ typed < Len(shown) + MAXSIZE
    BY <1>1, <1>3, <2>1
  <2>4. Follows(0) BY <1>1, <2>2, <2>3 DEF Follows
  <2> QED BY <1>1, <2>3, <2>4 DEF InOrder
<1>17. Sequel
  <2>1. DOMAIN toServer = {} /\ DOMAIN toClient = {} /\ DOMAIN shown = {} BY <1>1
  <2>2. Asc(buf) /\ Front BY <1>3, <1>4 DEF Asc, Front
  <2>3. Asc(toClient) /\ Asc(toServer) /\ Seen BY <2>1 DEF Asc, Seen
  <2>4. Bare(buf) /\ Bare(toClient) /\ Bare(toServer) BY <1>10, <1>11 DEF Bare
  <2>5. Below(buf, toClient) /\ Below(buf, toServer) /\ Below(toClient, toServer) BY <2>4 DEF Below, Bare
  <2>6. Whole BY <1>10, <1>11 DEF Whole, Held
  <2> QED BY <1>1, <2>2, <2>3, <2>4, <2>5, <2>6 DEF Sequel
<1> QED BY <1>2, <1>9, <1>12, <1>13, <1>14, <1>15, <1>16, <1>17 DEF CInv, Paced, Ordered

\* epoll_wait reports what is registered.
LEMMA WaitEvents ==
  ASSUME TypeOK, EpollWait
  PROVE  Events' /\ batch' \subseteq Fd \X {"in", "out"}
<1>1. batch' = {<<f, reg[f]>> : f \in Ready} /\ reg' = reg BY DEF EpollWait
<1>2. reg \in [Fd -> {"none", "in", "out"}] BY Typing
<1>3. Ready \subseteq Fd /\ \A f \in Ready : reg[f] \in {"in", "out"} BY DEF Ready
<1>4. batch' \subseteq Fd \X {"in", "out"} BY <1>1, <1>3
<1>5. ASSUME NEW f \in Fd, NEW kind \in {"in", "out"}, <<f, kind>> \in batch' PROVE reg'[f] = kind
  <2>1. PICK g \in Ready : <<f, kind>> = <<g, reg[g]>> BY <1>1, <1>5
  <2> QED BY <1>1, <2>1
<1> QED BY <1>4, <1>5 DEF Events

\* Every step of the client, of the user and of the server keeps CInv.
LEMMA StepCInv == CInv /\ [Next]_vars => CInv'
<1> SUFFICES ASSUME CInv, [Next]_vars PROVE CInv'
  OBVIOUS
<1>0. TypeOK /\ Apart /\ Queued /\ Events /\ Paced /\ Ordered BY DEF CInv
<1>t. /\ reg \in [Fd -> {"none", "in", "out"}] /\ batch \subseteq Fd \X {"in", "out"}
      /\ buf \in [1..MAXSIZE -> Byte \cup {NUL}]
      /\ alive \in BOOLEAN /\ closed \in BOOLEAN /\ eof \in BOOLEAN
      /\ hasty \in BOOLEAN /\ split \in BOOLEAN /\ clean \in BOOLEAN
      /\ typed \in 0..MaxTyped /\ longest \in 0..MaxTyped /\ lines \in Seq(Seq(Typed))
      /\ toServer \in Seq(Byte) /\ toClient \in Seq(Byte) /\ shown \in Seq(Byte)
  BY <1>0, Typing
<1> DEFINE Quiet == UNCHANGED <<reg, buf, typed, lines, hasty, longest, split, toServer, toClient, shown, clean>>
<1>q. ASSUME Quiet, batch' \subseteq Fd \X {"in", "out"}, Events',
             alive' \in BOOLEAN, eof' \in BOOLEAN, closed' = closed \/ closed' = TRUE
      PROVE  CInv'
  <2>1. TypeOK'
    <3>1. closed' \in BOOLEAN BY <1>t, <1>q, Zenon
    <3> QED BY <1>t, <1>q, <3>1, NextTyping
  <2>2. Apart' /\ Queued' BY <1>0, <1>q, Still
  <2>3. Paced' BY <1>0, <1>t, <1>q, StillPaced, Zenon
  <2>4. Ordered' BY <1>0, <1>q, StillOrdered, Zenon
  <2> QED BY <1>q, <2>1, <2>2, <2>3, <2>4 DEF CInv
<1>1. CASE EpollWait
  <2>1. Quiet /\ alive' = alive /\ eof' = eof /\ closed' = closed BY <1>1 DEF EpollWait, user
  <2>2. Events' /\ batch' \subseteq Fd \X {"in", "out"} BY <1>0, <1>1, WaitEvents
  <2> QED BY <1>q, <1>t, <2>1, <2>2
<1>2. CASE ReadStdin
  <2>1. UNCHANGED <<alive, typed, eof, hasty, longest, split, closed, toServer, toClient, shown, clean>>
    BY <1>2 DEF ReadStdin
  <2>2. /\ buf' \in [1..MAXSIZE -> Byte \cup {NUL}] /\ lines' \in Seq(Seq(Typed))
        /\ Apart' /\ Queued'
    BY <1>0, <1>2, ReadStdinMoves
  <2>3. /\ Events' /\ batch' \subseteq Fd \X {"in", "out"} /\ reg' \in [Fd -> {"none", "in", "out"}]
    BY <1>0, <1>2, ReadStdinReg
  <2>4. TypeOK' BY <1>t, <2>1, <2>2, <2>3, NextTyping
  <2>5. Paced' BY <1>0, <1>2, ReadStdinPaced
  <2>6. Ordered' BY <1>0, <1>2, ReadStdinOrdered
  <2> QED BY <2>2, <2>3, <2>4, <2>5, <2>6 DEF CInv
<1>3. CASE ReadSock
  <2>1. /\ UNCHANGED <<alive, typed, lines, eof, hasty, longest, closed, toServer, shown, clean>>
        /\ split' \in BOOLEAN
    BY <1>3, <1>t, Zenon DEF ReadSock, user
  <2>2. /\ buf' \in [1..MAXSIZE -> Byte \cup {NUL}] /\ toClient' \in Seq(Byte)
        /\ Apart' /\ Queued'
    BY <1>0, <1>3, ReadSockMoves
  <2>3. /\ Events' /\ batch' \subseteq Fd \X {"in", "out"} /\ reg' \in [Fd -> {"none", "in", "out"}]
    BY <1>0, <1>3, ReadSockReg
  <2>4. TypeOK' BY <1>t, <2>1, <2>2, <2>3, NextTyping
  <2>5. Paced' BY <1>0, <1>3, ReadSockPaced
  <2>6. Ordered' BY <1>0, <1>3, ReadSockOrdered
  <2> QED BY <2>2, <2>3, <2>4, <2>5, <2>6 DEF CInv
<1>4. CASE ReadEnds
  <2>1. Quiet /\ alive' = FALSE /\ eof' = eof /\ closed' = closed BY <1>4 DEF ReadEnds, user
  <2>2. \E f \in Fd : Take(f, "in") BY <1>4 DEF ReadEnds, Fd
  <2>3. Events' /\ batch' \subseteq Fd \X {"in", "out"}
    <3>1. PICK f \in Fd : Take(f, "in") BY <2>2
    <3>2. \A g \in Fd : g # f /\ reg[g] # "none" => reg'[g] = reg[g] BY <2>1
    <3> QED BY <1>0, <3>1, <3>2, TakeEvents
  <2> QED BY <1>q, <1>t, <2>1, <2>3, Zenon
<1>5. CASE WriteSock
  <2>1. Take("sock", "out") /\ reg' = Modify(reg, "sock", "in") /\ buf' = Clear
        /\ UNCHANGED <<alive, typed, lines, eof, hasty, longest, split, closed, toClient, shown, clean>>
    BY <1>5 DEF WriteSock, SendThen, user
  <2>2. PICK s \in Strings : toServer' = toServer \o s BY <1>5 DEF WriteSock, SendThen
  <2>3. toServer' \in Seq(Byte) /\ Apart' /\ Queued' BY <1>0, <2>1, <2>2, WriteSockMoves
  <2>4. buf' \in [1..MAXSIZE -> Byte \cup {NUL}] BY <1>0, <2>1, ClearMoves
  <2>5. /\ Events' /\ batch' \subseteq Fd \X {"in", "out"} /\ reg' \in [Fd -> {"none", "in", "out"}]
    BY <1>0, <2>1, WriteSockReg
  <2>6. TypeOK' BY <1>t, <2>1, <2>3, <2>4, <2>5, NextTyping
  <2>7. Paced' BY <1>0, <1>5, WriteSockPaced
  <2>8. Ordered' BY <1>0, <1>5, WriteSockOrdered
  <2> QED BY <2>3, <2>5, <2>6, <2>7, <2>8 DEF CInv
<1>6. CASE WriteLost
  <2>1. /\ Take("sock", "out") /\ alive' \in BOOLEAN
        /\ UNCHANGED <<typed, lines, eof, hasty, longest, split, closed, toServer, toClient, shown, clean>>
    BY <1>6, Zenon DEF WriteLost, user
  <2>2. CASE UNCHANGED <<reg, buf>>
    <3>1. "sock" \in Fd /\ \A g \in Fd : g # "sock" /\ reg[g] # "none" => reg'[g] = reg[g] BY <2>2 DEF Fd
    <3>2. Events' /\ batch' \subseteq Fd \X {"in", "out"} BY <1>0, <2>1, <3>1, TakeEvents
    <3> QED BY <1>q, <1>t, <2>1, <2>2, <3>2
  <2>3. CASE reg' = Modify(reg, "sock", "in") /\ buf' = Clear
    <3>1. Apart' /\ Queued' BY <1>0, <2>1, <2>3, LostMoves
    <3>2. buf' \in [1..MAXSIZE -> Byte \cup {NUL}] BY <1>0, <2>3, ClearMoves
    <3>3. /\ Events' /\ batch' \subseteq Fd \X {"in", "out"} /\ reg' \in [Fd -> {"none", "in", "out"}]
      BY <1>0, <2>1, <2>3, WriteSockReg
    <3>4. TypeOK' BY <1>t, <2>1, <3>2, <3>3, NextTyping
    <3>5. Paced' BY <1>0, <1>6, WriteLostPaced
    <3>6. Ordered' BY <1>0, <1>6, WriteLostOrdered
    <3> QED BY <3>1, <3>3, <3>4, <3>5, <3>6 DEF CInv
  <2> QED BY <1>6, <2>2, <2>3 DEF WriteLost
<1>7. CASE WriteStdout
  <2>1. Take("stdout", "out") /\ reg' = Delete(reg, "stdout") /\ buf' = Clear
        /\ UNCHANGED <<alive, typed, lines, eof, hasty, longest, split, closed, toServer, toClient, clean>>
    BY <1>7 DEF WriteStdout, user
  <2>2. PICK s \in Strings : shown' = shown \o s BY <1>7 DEF WriteStdout
  <2>3. shown' \in Seq(Byte) /\ Apart' /\ Queued' BY <1>0, <2>1, <2>2, ShowMoves
  <2>4. buf' \in [1..MAXSIZE -> Byte \cup {NUL}] BY <1>0, <2>1, ClearMoves
  <2>5. /\ Events' /\ batch' \subseteq Fd \X {"in", "out"} /\ reg' \in [Fd -> {"none", "in", "out"}]
    BY <1>0, <2>1, ShowReg
  <2>6. TypeOK' BY <1>t, <2>1, <2>3, <2>4, <2>5, NextTyping
  <2>7. Paced' BY <1>0, <1>7, ShowPaced
  <2>8. Ordered' BY <1>0, <1>7, ShowOrdered
  <2> QED BY <2>3, <2>5, <2>6, <2>7, <2>8 DEF CInv
<1>8. CASE TypeEof
  <2>1. Quiet /\ alive' = alive /\ eof' = TRUE /\ closed' = closed /\ batch' = batch BY <1>8 DEF TypeEof
  <2>2. Events' BY <1>0, <2>1, Zenon DEF Events
  <2> QED BY <1>q, <1>t, <2>1, <2>2
<1>9. CASE Answer
  <2>1. UNCHANGED <<alive, reg, batch, buf, typed, lines, eof, hasty, longest, closed, shown, clean>>
    BY <1>9 DEF Answer, user
  <2>2. /\ toServer' \in Seq(Byte) /\ toClient' \in Seq(Byte) /\ split' \in BOOLEAN
        /\ Apart' /\ Queued'
    BY <1>0, <1>9, AnswerMoves
  <2>3. TypeOK' BY <1>t, <2>1, <2>2, NextTyping
  <2>4. Events' BY <1>0, <2>1, Zenon DEF Events
  <2>5. Paced' BY <1>0, <1>9, AnswerPaced
  <2>6. Ordered' BY <1>0, <1>9, AnswerOrdered
  <2> QED BY <2>2, <2>3, <2>4, <2>5, <2>6 DEF CInv
<1>10. CASE ServerCloses
  <2>1. Quiet /\ alive' = alive /\ eof' = eof /\ closed' = TRUE /\ batch' = batch
    BY <1>10 DEF ServerCloses, user
  <2>2. Events' BY <1>0, <2>1, Zenon DEF Events
  <2> QED BY <1>q, <1>t, <2>1, <2>2
<1>11. ASSUME NEW n \in Length, Type(n) PROVE CInv'
  <2>1. UNCHANGED <<alive, reg, batch, buf, eof, split, closed, toServer, toClient, shown, clean>>
    BY <1>11 DEF Type
  <2>2. /\ typed' \in 0..MaxTyped /\ longest' \in 0..MaxTyped
        /\ lines' \in Seq(Seq(Typed)) /\ hasty' \in BOOLEAN
        /\ Apart' /\ Queued'
    BY <1>0, <1>11, TypeMoves
  <2>3. TypeOK' BY <1>t, <2>1, <2>2, NextTyping
  <2>4. Events' BY <1>0, <2>1, Zenon DEF Events
  <2>5. Paced' BY <1>0, <1>11, TypePaced
  <2>6. Ordered' BY <1>0, <1>11, TypeOrdered
  <2> QED BY <2>2, <2>3, <2>4, <2>5, <2>6 DEF CInv
<1>12. CASE UNCHANGED vars
  <2>1. Quiet /\ alive' = alive /\ eof' = eof /\ closed' = closed /\ batch' = batch BY <1>12 DEF vars, user
  <2>2. Events' BY <1>0, <2>1, Zenon DEF Events
  <2> QED BY <1>q, <1>t, <2>1, <2>2
<1>13. CASE ShowFails
  <2>1. Quiet /\ alive' = FALSE /\ eof' = eof /\ closed' = closed BY <1>13 DEF ShowFails, user
  <2>2. Take("stdout", "out") /\ "stdout" \in Fd BY <1>13 DEF ShowFails, Fd
  <2>3. \A g \in Fd : g # "stdout" /\ reg[g] # "none" => reg'[g] = reg[g] BY <2>1
  <2>4. Events' /\ batch' \subseteq Fd \X {"in", "out"} BY <1>0, <2>2, <2>3, TakeEvents
  <2> QED BY <1>q, <1>t, <2>1, <2>4, Zenon
<1> HIDE DEF Quiet
<1> QED BY <1>1, <1>2, <1>3, <1>4, <1>5, <1>6, <1>7, <1>8, <1>9, <1>10, <1>11, <1>12, <1>13 DEF Next, Client

\* CInv holds in every state of epoll_cli.
THEOREM ClientInvariance == Spec => []CInv
<1>1. Init => CInv BY InitCInv
<1>2. CInv /\ [Next]_vars => CInv' BY StepCInv
<1> QED BY <1>1, <1>2, PTL DEF Spec

\* What CInv says of the bytes and of a user who waits.
LEMMA CInvEchoed == CInv => Echoed
<1> SUFFICES ASSUME CInv PROVE Echoed
  OBVIOUS
<1>0. TypeOK /\ Apart /\ Paced /\ Ordered BY DEF CInv
<1> DEFINE P == {<<"buf", buf>>, <<"out", toServer>>, <<"in", toClient>>, <<"shown", shown>>}
<1>1. ASSUME NEW b \in 1..MaxTyped, NEW s \in P, NEW t \in P, Occurs(b, s[2]), Occurs(b, t[2]) PROVE s = t
  <2>0. b \in Typed BY DEF Typed
  <2>1. /\ ~ (Occurs(b, buf) /\ Occurs(b, toServer)) /\ ~ (Occurs(b, buf) /\ Occurs(b, toClient))
        /\ ~ (Occurs(b, buf) /\ Occurs(b, shown)) /\ ~ (Occurs(b, toServer) /\ Occurs(b, toClient))
        /\ ~ (Occurs(b, toServer) /\ Occurs(b, shown)) /\ ~ (Occurs(b, toClient) /\ Occurs(b, shown))
    BY <1>0, <2>0 DEF Apart
  <2>2. CASE s = <<"buf", buf>> BY <1>1, <2>1, <2>2
  <2>3. CASE s = <<"out", toServer>> BY <1>1, <2>1, <2>3
  <2>4. CASE s = <<"in", toClient>> BY <1>1, <2>1, <2>4
  <2>5. CASE s = <<"shown", shown>> BY <1>1, <2>1, <2>5
  <2> QED BY <2>2, <2>3, <2>4, <2>5
<1>2. ASSUME Patient PROVE ~ Wedged BY <1>0, <1>2 DEF Paced, Turn, Wedged
<1>3. ASSUME Patient
      PROVE  \A i \in DOMAIN shown : shown[i] \in 1..MaxTyped =>
               \A b \in 1..shown[i] - 1 : \E j \in 1..i - 1 : shown[j] = b
  BY <1>0, <1>3 DEF Ordered, Sequel, Seen, Typed
<1>4. ASSUME Patient, Tidy PROVE shown = [i \in 1..Len(shown) |-> i]
  <2>1. \A i \in 1..Len(shown) : shown[i] = i BY <1>0, <1>4 DEF Paced, InOrder
  <2>2. shown \in Seq(Byte) BY <1>0, Typing
  <2> QED BY <2>1, <2>2
<1> QED BY <1>0, <1>1, <1>2, <1>3, <1>4 DEF Echoed, Patient, Tidy

\* epoll_cli, at any pace of the user and of the server: a byte that was typed is in
\* one place at most, so nothing is sent or shown twice.  A user who waits for each
\* answer, and types no line longer than buf, never finds the client waiting for an
\* answer to nothing and sees every byte after all those typed before it; if buf was
\* empty and no line fills it, they see nothing else.
THEOREM EchoedCorrect == Spec => []Echoed
BY ClientInvariance, CInvEchoed, PTL
=============================================================================
