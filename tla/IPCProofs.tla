------------------------------ MODULE IPCProofs ------------------------------
(***************************************************************************)
(* Proofs about the two modules of directory IPC: SemLock, for any number  *)
(* of rounds, any s_trylock callers and any leftover semaphores, and       *)
(* PipeStreams, for every text and every size of the buffers.              *)
(***************************************************************************)
EXTENDS SemLock, PipeStreams, SequenceTheorems, WellFoundedInduction, TLAPS

(* SemLock.                                                                *)

\* The inductive invariant.  Entry ties the semaphore to who is inside; Count ties cnt
\* to the loop counters, with one addition under way at most; Names says which names
\* exist in each stage of main.
Entry ==
  /\ main \in {"open", "unlink"} =>
       cnt = 0 /\ printed = None /\ \A t \in Thread : pc[t] = "out" /\ i[t] = 0
  /\ main = "unlink" => sem = 1
  /\ main = "join" => sem \in {0, 1} /\ printed = None
                      /\ (sem = 1 => \A t \in Thread : pc[t] = "out")
  /\ MutualExclusion
  /\ \A t \in Thread : pc[t] # "out" => i[t] < N
  /\ \A t \in Tryers : pc[t] \in {"out", "in"}

Done(t) == i[t] + (IF pc[t] = "stored" THEN 1 ELSE 0)

Count ==
  /\ cnt = Done("thr_fn1") + Done("thr_fn2")
  /\ \A t \in Adder : pc[t] = "loaded" => reg[t] = cnt
  /\ PrintsTotal

Names ==
  /\ main \notin {"unlink", "killed"} => named = DOMAIN Leftover
  /\ main = "unlink" => named = DOMAIN Leftover \cup {mine} /\ mine \notin DOMAIN Leftover
  /\ NamesAsFound

SemInv == SemTypeOK /\ Entry /\ Count /\ Names

\* The process starts with no semaphore and nobody inside.
LEMMA InitSemInv == SemInit => SemInv
<1> SUFFICES ASSUME SemInit PROVE SemInv
  OBVIOUS
<1> USE SemAssumption DEF SemInit, Thread, Adder
<1>1. SemTypeOK
  BY DEF SemTypeOK
<1>2. Entry
  BY DEF Entry, MutualExclusion
<1>3. Count
  BY DEF Count, Done, PrintsTotal
<1>4. Names
  BY DEF Names, NamesAsFound
<1> QED BY <1>1, <1>2, <1>3, <1>4 DEF SemInv

\* Every step of main, s_alloc and s_free included, and a kill.
LEMMA MainSemInv == SemInv /\ (Main \/ SemKill) => SemInv'
<1> USE SemAssumption DEF SemInv, os, work
<1>1. ASSUME SemInv, OpenExists \/ OpenCreates \/ AllocFails PROVE SemInv'
  <2> USE <1>1 DEF OpenExists, OpenCreates, AllocFails
  <2>1. SemTypeOK'
    <3>0. k \in Nat /\ k + 1 \in Nat /\ named \subseteq Nat /\ mine \in Nat \cup {None}
      BY DEF SemTypeOK
    <3>1. k' \in Nat /\ named' \subseteq Nat /\ mine' \in Nat \cup {None}
      <4>1. CASE OpenCreates
        BY <3>0, <4>1
      <4>2. CASE ~ OpenCreates
        BY <3>0, <4>2, Zenon
      <4> QED BY <4>1, <4>2
    <3>2. sem' \in {0, 1, None} /\ main' \in {"open", "unlink", "failed"}
      BY DEF SemTypeOK
    <3> QED BY <3>1, <3>2 DEF SemTypeOK
  <2>2. Entry'
    BY DEF Entry, MutualExclusion
  <2>3. Count'
    BY DEF Count, Done, PrintsTotal
  <2>4. Names'
    BY DEF Names, NamesAsFound, Entry
  <2> QED BY <2>1, <2>2, <2>3, <2>4
<1>2. ASSUME SemInv, Unlink PROVE SemInv'
  <2> USE <1>2 DEF Unlink
  <2>1. SemTypeOK'
    BY DEF SemTypeOK
  <2>2. Entry'
    BY DEF Entry, MutualExclusion
  <2>3. Count'
    BY DEF Count, Done, PrintsTotal
  <2>4. Names'
    BY DEF Names, NamesAsFound
  <2> QED BY <2>1, <2>2, <2>3, <2>4
<1>3. ASSUME SemInv, Join PROVE SemInv'
  <2> USE <1>3 DEF Join
  <2>1. SemTypeOK'
    BY DEF SemTypeOK
  <2>2. Entry'
    BY DEF Entry, MutualExclusion
  <2>3. Count'
    <3>1. \A t \in Adder : i[t] = N /\ pc[t] = "out"
      BY DEF Entry, SemTypeOK, Thread
    <3>2. cnt = N + N
      BY <3>1 DEF Count, Done, Adder
    <3> QED BY <3>1, <3>2 DEF Count, Done, PrintsTotal, Adder
  <2>4. Names'
    BY DEF Names, NamesAsFound
  <2> QED BY <2>1, <2>2, <2>3, <2>4
<1>4. ASSUME SemInv, SFree \/ SemKill PROVE SemInv'
  <2> USE <1>4 DEF SFree, SemKill
  <2>1. SemTypeOK'
    BY Zenon DEF SemTypeOK
  <2>2. Entry'
    BY DEF Entry, MutualExclusion
  <2>3. Count'
    BY DEF Count, Done, PrintsTotal
  <2>4. Names'
    BY DEF Names, NamesAsFound, Entry
  <2> QED BY <2>1, <2>2, <2>3, <2>4
<1> QED BY <1>1, <1>2, <1>3, <1>4 DEF Main

\* Every step of a thread.
LEMMA StepSemInv == ASSUME SemInv, NEW t \in Thread, Step(t) PROVE SemInv'
<1> USE SemAssumption DEF SemInv, os
<1>0. /\ main = "join" /\ i[t] < N /\ sem \in {0, 1}
      /\ main' = main /\ named' = named /\ mine' = mine /\ k' = k /\ printed' = printed
  BY DEF Step, SLock, SUnlock, Unlocks, Load, Store, TryFails, Running, Entry
<1>N. Names'
  BY <1>0 DEF Names, NamesAsFound
<1>1. CASE SLock(t)
  <2> USE <1>1 DEF SLock, Goto
  <2>1. SemTypeOK'
    BY <1>0 DEF SemTypeOK
  <2>2. sem = 1 /\ sem' = 0 /\ \A u \in Thread : pc[u] = "out"
    BY <1>0 DEF Entry
  <2>3. pc'[t] = "in" /\ \A u \in Thread \ {t} : pc'[u] = "out"
    BY <2>2 DEF SemTypeOK
  <2>4. Entry'
    BY <1>0, <2>2, <2>3 DEF Entry, MutualExclusion
  <2>5. Count'
    BY <1>0, <2>2, <2>3 DEF Count, Done, PrintsTotal, Thread, Adder
  <2> QED BY <2>1, <2>4, <2>5, <1>N
<1>2. CASE SUnlock(t)
  <2> USE <1>2 DEF SUnlock, Unlocks, Goto
  <2>1. pc[t] # "out" /\ sem = 0 /\ sem' = 1
    BY <1>0 DEF Entry
  <2>2. SemTypeOK'
    BY <1>0, <2>1 DEF SemTypeOK
  <2>3. \A u \in Thread : pc'[u] = "out" /\ (u # t => pc[u] = "out")
    BY <2>1 DEF SemTypeOK, Entry, MutualExclusion
  <2>4. Entry'
    BY <1>0, <2>1, <2>3 DEF Entry, MutualExclusion
  <2>5. Count'
    <3>1. CASE t \in Adder
      <4>1. \A u \in Adder : Done(u)' = Done(u)
        BY <2>3, <3>1 DEF Done, SemTypeOK, Thread
      <4> QED BY <1>0, <2>3, <4>1 DEF Count, PrintsTotal, Thread, Adder
    <3>2. CASE t \notin Adder
      <4>1. \A u \in Adder : Done(u)' = Done(u)
        BY <2>3, <3>2 DEF Done, SemTypeOK, Thread
      <4> QED BY <1>0, <2>3, <4>1 DEF Count, PrintsTotal, Thread, Adder
    <3> QED BY <3>1, <3>2
  <2> QED BY <2>2, <2>4, <2>5, <1>N
<1>3. CASE t \in Adder /\ (Load(t) \/ Store(t))
  <2> USE <1>3 DEF Load, Store, Goto
  <2>1. SemTypeOK'
    BY <1>0 DEF SemTypeOK
  <2>2. \A u \in Thread : (pc'[u] # "out" <=> pc[u] # "out") /\ (u # t => pc'[u] = pc[u])
    BY DEF SemTypeOK
  <2>3. Entry'
    <3>1. t \notin Tryers
      BY DEF Adder
    <3> QED BY <1>0, <2>2, <3>1 DEF Entry, MutualExclusion, Thread
  <2>4. \A u \in Adder \ {t} : pc[u] = "out" /\ pc'[u] = "out"
    BY <2>2 DEF Entry, MutualExclusion, Thread
  <2>5. Count'
    <3>1. CASE Load(t)
      <4>1. pc'[t] = "loaded" /\ pc[t] = "in" /\ reg'[t] = cnt /\ cnt' = cnt /\ i' = i
        BY <3>1 DEF SemTypeOK
      <4>2. \A u \in Adder : Done(u)' = Done(u)
        BY <2>4, <4>1 DEF Done
      <4> QED BY <1>0, <2>4, <4>1, <4>2 DEF Count, PrintsTotal, Adder
    <3>2. CASE Store(t)
      <4>1. pc'[t] = "stored" /\ pc[t] = "loaded" /\ cnt' = cnt + 1 /\ i' = i
        BY <3>2 DEF SemTypeOK, Count
      <4>2. /\ Done(t)' = Done(t) + 1 /\ \A u \in Adder \ {t} : Done(u)' = Done(u)
            /\ \A u \in Adder : Done(u) \in Int
        BY <2>4, <4>1 DEF Done, SemTypeOK, Thread
      <4>3. cnt' = Done("thr_fn1")' + Done("thr_fn2")'
        BY <4>1, <4>2 DEF Count, Adder
      <4> QED BY <1>0, <2>4, <4>1, <4>3 DEF Count, PrintsTotal, Adder
    <3> QED BY <3>1, <3>2
  <2> QED BY <2>1, <2>3, <2>5, <1>N
<1>4. CASE t \in Tryers /\ TryFails(t)
  <2> USE <1>4 DEF TryFails
  <2>1. SemTypeOK'
    BY <1>0 DEF SemTypeOK
  <2>2. Entry'
    BY <1>0 DEF Entry, MutualExclusion, SemTypeOK
  <2>3. \A u \in Adder : i'[u] = i[u]
    BY DEF SemTypeOK, Adder, Thread
  <2>4. Count'
    BY <1>0, <2>3 DEF Count, Done, PrintsTotal, Adder
  <2> QED BY <2>1, <2>2, <2>4, <1>N
<1> QED BY <1>1, <1>2, <1>3, <1>4 DEF Step

(***************************************************************************)
(* The inductive invariant holds in every reachable state.                 *)
(***************************************************************************)
THEOREM SemInvariance == SemSpec => []SemInv
<1>1. SemInv /\ [SemNext]_semVars => SemInv'
  <2> SUFFICES ASSUME SemInv, [SemNext]_semVars PROVE SemInv'
    OBVIOUS
  <2>1. CASE UNCHANGED semVars
    BY <2>1 DEF semVars, os, work, SemInv, SemTypeOK, Entry, MutualExclusion, Count, Done,
                PrintsTotal, Names, NamesAsFound
  <2> QED BY <2>1, MainSemInv, StepSemInv DEF SemNext
<1> QED BY <1>1, InitSemInv, PTL DEF SemSpec

\* The variables keep their types; the semaphore is never above 1.
THEOREM TypeCorrect == SemSpec => []SemTypeOK
<1>1. SemInv => SemTypeOK
  BY DEF SemInv
<1> QED BY <1>1, SemInvariance, PTL

\* s_lock and s_trylock admit one thread at a time.
THEOREM Exclusion == SemSpec => []MutualExclusion
<1>1. SemInv => MutualExclusion
  BY DEF SemInv, Entry
<1> QED BY <1>1, SemInvariance, PTL

\* The test prints 2 * N for every N.
THEOREM TotalCorrect == SemSpec => []PrintsTotal
<1>1. SemInv => PrintsTotal
  BY DEF SemInv, Count
<1> QED BY <1>1, SemInvariance, PTL

\* s_alloc leaves the names as it found them.
THEOREM NamesCorrect == SemSpec => []NamesAsFound
<1>1. SemInv => NamesAsFound
  BY DEF SemInv, Names
<1> QED BY <1>1, SemInvariance, PTL
-----------------------------------------------------------------------------
(* PipeStreams.                                                            *)

\* The types of what goes through the pipes, and where each program can be.
Char   == Byte \cup {"a"}
Places ==
  /\ prog = "coprocess"   => w \in {"fgets", "write", "read", "ended"} /\ r \in {"exec", "read", "answer", "ended"}
  /\ prog = "fifo_demo"   => w \in {"open", "fgets", "write", "ended"} /\ r \in {"open", "read", "ended"}
  /\ prog = "pipe_pager"  => w \in {"fgets", "write", "waitpid", "ended"} /\ r \in {"exec", "read", "ended"}
  /\ prog = "popen_pager" => w \in {"fgets", "fputs", "pclose", "waitpid", "ended"} /\ r \in {"exec", "read", "ended"}
  /\ prog = "pipe_filter" => w \in {"fgets", "fflush", "exit", "ended"} /\ r \in {"read", "ended"}
Types ==
  /\ TypeOK /\ Places
  /\ line \in Seq(Char) /\ wbuf \in Seq(Char) /\ pipe \in Seq(Char) /\ rbuf \in Seq(Char)
  /\ prog # "coprocess" => out \in Seq(Char)
  /\ prog = "coprocess" =>
       asked \in Seq(Seq(Char)) /\ back \in Seq(Seq(Char)) /\ out \in Seq(Seq(Seq(Char)))
  /\ w = "ended" <=> whow # "running"
  /\ r = "ended" <=> rhow # "running"

\* coprocess and add2: where the one request on its way is.
Asked == asked[Len(asked)]
Round ==
  \/ pipe = Asked /\ back = <<>> /\ r # "answer"
  \/ pipe = <<>> /\ back = <<>> /\ r \in {"answer", "ended"} /\ rbuf = Asked
  \/ pipe = <<>> /\ back = <<Asked>> /\ r # "answer"
Co == prog = "coprocess" =>
  /\ \A j \in 1..Len(asked) : Len(asked[j]) < MAXLINE
  /\ Len(rbuf) < MAXLINE /\ Len(pipe) < MAXLINE
  /\ Len(out) <= Len(asked) /\ Len(asked) <= Len(out) + 1
  /\ \A j \in 1..Len(out) : out[j] = <<asked[j]>>
  /\ w \in {"fgets", "write"} => Len(asked) = Len(out) /\ back = <<>> /\ pipe = <<>> /\ r # "answer"
  /\ w = "read" => Len(asked) = Len(out) + 1 /\ Round

\* The other programs: what was read of the text is printed, on its way or in the hands
\* of w, in this order.  readline has never more than the beginning of a line.
Clean   == {"A", "n", "a"}
Plain   == prog # "coprocess" /\ Zeroless /\ (prog = "fifo_demo" => Fits)
All     == IF prog = "pipe_filter" THEN Lower(text) ELSE text
Through == (out \o rbuf) \o pipe
Held    == IF w \in {"write", "fputs"} THEN line ELSE <<>>
Clears ==
  /\ line \in Seq(Clean) /\ wbuf \in Seq(Clean) /\ pipe \in Seq(Clean)
  /\ rbuf \in Seq(Clean) /\ out \in Seq(Clean)
Flow ==
  /\ w # "ended" => (Through \o wbuf) \o Held = SubSeq(All, 1, pos)
  /\ w = "ended" => IsPrefix(Through, All)
  /\ whow = "exit" /\ rhow \in {"running", "exit"} => Through = All
Buffers ==
  /\ w \in {"pclose", "waitpid", "exit"} => pos = Len(text)
  /\ w = "waitpid" \/ prog \notin {"popen_pager", "pipe_filter"} => wbuf = <<>>
  /\ prog \in {"pipe_pager", "popen_pager"} => rbuf = <<>>
Begun == prog = "fifo_demo" =>
  (out # <<>> => Last(out) = "n") /\ \A j \in 1..Len(rbuf) : rbuf[j] # "n"
Streams == Buffers /\ (Plain => Clears /\ Flow /\ Begun)
-----------------------------------------------------------------------------
\* Every set of numbers has a smallest one.
LEMMA MinFacts ==
  ASSUME NEW T, T \subseteq Nat, T # {}
  PROVE  Min(T) \in T /\ \A y \in T : Min(T) <= y
<1> DEFINE less == OpToRel(<, Nat)
<1>1. \A x, y \in Nat : <<y, x>> \in less <=> y < x
  BY DEF OpToRel
<1>2. IsWellFoundedOn(less, Nat)
  BY NatLessThanWellFounded, Zenon
<1> HIDE DEF less
<1>3. PICK x \in T : \A y \in T : ~ (<<y, x>> \in less)
  BY <1>2, WFMin, Zenon
<1>4. ASSUME NEW y \in T PROVE x <= y
  <2>1. x \in Nat /\ y \in Nat /\ ~ (y < x)
    BY <1>1, <1>3, Zenon
  <2> QED BY <2>1
<1> QED BY <1>3, <1>4, Zenon DEF Min

\* What String returns, and that it cuts nothing where there is no zero byte.
LEMMA StringFacts ==
  ASSUME NEW C, NEW s \in Seq(C)
  PROVE  /\ String(s) \in Seq(C) /\ Len(String(s)) <= Len(s)
         /\ "0" \notin C => String(s) = s
<1> DEFINE zeros == {x \in 1..Len(s) : s[x] = "0"}
<1>1. String(s) = IF zeros = {} THEN s ELSE SubSeq(s, 1, Min(zeros) - 1)
  BY DEF String
<1>2. ASSUME zeros # {}
      PROVE  /\ SubSeq(s, 1, Min(zeros) - 1) \in Seq(C) /\ Len(SubSeq(s, 1, Min(zeros) - 1)) <= Len(s)
             /\ "0" \in C
  <2>1. zeros \subseteq Nat OBVIOUS
  <2>2. Min(zeros) \in zeros BY <1>2, <2>1, MinFacts, Zenon
  <2> HIDE DEF zeros
  <2>3. PICK m \in 1..Len(s) : m = Min(zeros) /\ s[m] = "0" BY <2>2, Zenon DEF zeros
  <2>4. \A x \in 1..m - 1 : s[x] \in C OBVIOUS
  <2>5. SubSeq(s, 1, m - 1) \in Seq(C) /\ Len(SubSeq(s, 1, m - 1)) = m - 1
    <3>1. m - 1 \in Int /\ 1 \in Int /\ (1 <= m - 1 => m - 1 - 1 + 1 = m - 1) /\ (~ (1 <= m - 1) => 0 = m - 1) OBVIOUS
    <3> QED BY <2>4, <3>1, SubSeqProperties
  <2> QED BY <2>3, <2>5
<1> QED BY <1>1, <1>2

\* A line of fgets is neither empty nor longer than MAXLINE - 1.
LEMMA LineFacts ==
  ASSUME Types, pos < Len(text)
  PROVE  LineEnd \in pos + 1..Len(text) /\ LineEnd <= pos + MAXLINE - 1
<1> DEFINE T == {pos + MAXLINE - 1, Len(text)} \cup {x \in pos + 1..Len(text) : text[x] = "n"}
<1>1. pos \in Nat /\ Len(text) \in Nat /\ MAXLINE \in Nat /\ 1 < MAXLINE
  BY StreamAssumption DEF Types, TypeOK
<1>2. T \subseteq Nat /\ T # {} /\ \A y \in T : pos + 1 <= y BY <1>1
<1>3. pos + MAXLINE - 1 \in T /\ Len(text) \in T OBVIOUS
<1>4. LineEnd = Min(T) BY DEF LineEnd
<1> HIDE DEF T
<1>5. LineEnd \in T /\ \A y \in T : LineEnd <= y BY <1>2, <1>4, MinFacts, Zenon
<1> QED BY <1>1, <1>2, <1>3, <1>5
-----------------------------------------------------------------------------
(* Types is kept.                                                          *)

\* At the start every program is at its first statement and every buffer is empty.
LEMMA InitTypes == Init => Types
<1> SUFFICES ASSUME Init PROVE Types
  OBVIOUS
<1>1. text \in Seq(Byte)
  <2>1. PICK m \in 0..MaxText : text \in [1..m -> Byte] BY DEF Init, SeqOf
  <2>2. m \in Nat BY StreamAssumption
  <2> QED BY <2>1, <2>2
<1>2. <<>> \in Seq(Char) /\ <<>> \in Seq(Seq(Char)) /\ <<>> \in Seq(Seq(Seq(Char))) /\ Len(<<>>) = 0
  BY EmptySeq
<1>3. 0 < MAXLINE /\ 0 <= BUFSIZ /\ 0 <= PIPE_BUF BY StreamAssumption
<1>4. TypeOK BY <1>1, <1>2, <1>3 DEF Init, TypeOK, Prog
<1>5. Places BY DEF Init, Places
<1> QED BY <1>2, <1>4, <1>5 DEF Types, Init

\* The line fgets reads fits the buffer of w.
LEMMA FgetsTypes ==
  ASSUME Types, NEW p \in {"coprocess", "fifo_demo", "pipe_pager", "popen_pager"},
         NEW to, to = IF p = "popen_pager" THEN "fputs" ELSE "write", Fgets(p, to)
  PROVE  Types'
<1>1. pos < Len(text) /\ pos' = LineEnd /\ line' = String(SubSeq(text, pos + 1, LineEnd))
  BY DEF Fgets
<1>2. PICK e \in pos + 1..Len(text) : e = LineEnd /\ e <= pos + MAXLINE - 1
  BY <1>1, LineFacts
<1>3. pos \in Nat /\ Len(text) \in Nat /\ MAXLINE \in Nat /\ text \in Seq(Char)
  BY StreamAssumption DEF Types, TypeOK, Char
<1>4. SubSeq(text, pos + 1, e) \in Seq(Char) /\ Len(SubSeq(text, pos + 1, e)) = e - pos
  <2>1. \A x \in pos + 1..e : text[x] \in Char BY <1>2, <1>3
  <2>2. pos + 1 \in Int /\ e \in Int /\ pos + 1 <= e /\ e - (pos + 1) + 1 = e - pos BY <1>2, <1>3
  <2> QED BY <2>1, <2>2, SubSeqProperties
<1>5. line' \in Seq(Char) /\ Len(line') <= e - pos BY <1>1, <1>2, <1>4, StringFacts, Zenon
<1>6. Len(line') < MAXLINE
  <2>1. Len(line') \in Nat BY <1>5
  <2> QED BY <1>2, <1>3, <1>5, <2>1
<1>7. pos' \in 0..Len(text) BY <1>1, <1>2, <1>3
<1>8. TypeOK' BY <1>6, <1>7 DEF Types, TypeOK, Fgets, W
<1>9. Places' BY DEF Types, Places, Fgets, W
<1> QED BY <1>5, <1>8, <1>9 DEF Types, Fgets, W

\* fgets at the end of the text.
LEMMA NoMoreTypes ==
  ASSUME Types, NEW p, NEW to,
         <<p, to>> \in {<<"pipe_pager", "waitpid">>, <<"popen_pager", "pclose">>, <<"pipe_filter", "exit">>},
         NoMore(p, to)
  PROVE  Types'
<1>1. TypeOK' BY DEF Types, TypeOK, NoMore, W, writing
<1>2. Places' BY DEF Types, Places, NoMore, W
<1> QED BY <1>1, <1>2 DEF Types, NoMore, W, writing

\* An end of w.
LEMMA WEndsTypes ==
  ASSUME Types, NEW p, NEW from, from # "ended",
         NEW why \in {"exit", "SIGPIPE", "Caught_SIGPIPE", "child_closed_pipe"}, WEnds(p, from, why)
  PROVE  Types'
<1>1. TypeOK' BY DEF Types, TypeOK, WEnds, W, writing
<1>2. Places' BY DEF Types, Places, WEnds, W
<1> QED BY <1>1, <1>2 DEF Types, WEnds, W, writing

\* An end of r.
LEMMA REndsTypes ==
  ASSUME Types, NEW p, NEW from, from # "ended",
         NEW why \in {"exit", "SIGPIPE", "exec_failed"}, REnds(p, from, why), UNCHANGED out
  PROVE  Types'
<1>1. TypeOK' BY DEF Types, TypeOK, REnds, R, writing, source
<1>2. Places' BY DEF Types, Places, REnds, R
<1> QED BY <1>1, <1>2 DEF Types, REnds, R, writing

\* write puts no more into the pipe than it takes.
LEMMA WriteTypes ==
  ASSUME Types, NEW p, NEW from, NEW bytes \in Seq(Char), NEW to,
         \/ p = "coprocess" /\ to = "read"
         \/ p \in {"fifo_demo", "pipe_pager"} /\ to = "fgets"
         \/ p = "popen_pager" /\ to \in {"fputs", "waitpid"}
         \/ p = "pipe_filter" /\ to \in {"fgets", "exit"},
         from # "ended", Write(p, from, bytes, to), line' = line, wbuf' = wbuf \/ wbuf' = <<>>,
         asked' = asked \/ asked' = Append(asked, line)
  PROVE  Types'
<1>1. pipe' \in Seq(Char) /\ Len(pipe') <= PIPE_BUF
  <2>1. pipe' = pipe \o bytes /\ pipe \in Seq(Char) /\ Len(pipe) + Len(bytes) <= PIPE_BUF
    BY DEF Write, Types
  <2> QED BY <2>1, ConcatProperties
<1>2. wbuf' \in Seq(Char) /\ Len(wbuf') <= BUFSIZ
  <2>1. <<>> \in Seq(Char) /\ Len(<<>>) = 0 /\ 0 <= BUFSIZ BY EmptySeq, StreamAssumption
  <2> QED BY <2>1, Zenon DEF Types, TypeOK
<1>3. ASSUME prog = "coprocess" PROVE asked' \in Seq(Seq(Char))
  <2>1. asked \in Seq(Seq(Char)) /\ line \in Seq(Char) BY <1>3 DEF Types
  <2>2. Append(asked, line) \in Seq(Seq(Char)) BY <2>1, AppendProperties
  <2> QED BY <2>1, <2>2
<1>4. TypeOK' BY <1>1, <1>2 DEF Types, TypeOK, Write, W
<1>5. Places' BY DEF Types, Places, Write, W
<1> QED BY <1>1, <1>2, <1>3, <1>4, <1>5 DEF Types, Write, W

\* execl, or the first read.
LEMMA StartTypes ==
  ASSUME Types, NEW p \in {"coprocess", "pipe_pager", "popen_pager"}, R(p, "exec", "read"),
         UNCHANGED <<rhow, pipe, back, reading>>
  PROVE  Types'
<1>1. TypeOK' BY DEF Types, TypeOK, R, writing, source, reading
<1>2. Places' BY DEF Types, Places, R
<1> QED BY <1>1, <1>2 DEF Types, R, writing, reading

\* The read of coprocess.
LEMMA CoReadTypes == ASSUME Types, CoRead PROVE Types'
<1>1. prog = "coprocess" /\ w = "read" /\ w' = "fgets" /\ out' = Append(out, back) /\ back' = <<>>
      /\ UNCHANGED <<prog, text, pos, r, rhow, rbuf, whow, line, wbuf, asked, pipe>>
  BY DEF CoRead, W, writing
<1>2. out' \in Seq(Seq(Seq(Char)))
  <2>1. out \in Seq(Seq(Seq(Char))) /\ back \in Seq(Seq(Char)) BY <1>1 DEF Types
  <2> QED BY <1>1, <2>1, AppendProperties
<1>3. back' \in Seq(Seq(Char)) BY <1>1, EmptySeq
<1>4. TypeOK' BY <1>1 DEF Types, TypeOK
<1>5. Places' BY <1>1 DEF Types, Places
<1> QED BY <1>1, <1>2, <1>3, <1>4, <1>5 DEF Types

\* The read of add2.
LEMMA AddReadTypes == ASSUME Types, AddRead PROVE Types'
<1>1. /\ pipe # <<>> /\ prog = "coprocess" /\ r = "read" /\ r' = "answer"
      /\ rbuf' = SubSeq(pipe, 1, Min({MAXLINE, Len(pipe)})) /\ pipe' = SubSeq(pipe, MAXLINE + 1, Len(pipe))
      /\ UNCHANGED <<prog, text, pos, w, whow, line, wbuf, asked, rhow, back, out>>
  BY DEF AddRead, R, writing, source
<1>2. pipe \in Seq(Char) /\ Len(pipe) \in Nat /\ Len(pipe) <= PIPE_BUF /\ MAXLINE \in Nat /\ PIPE_BUF \in Nat
  BY StreamAssumption DEF Types, TypeOK
<1>3. PICK m \in {MAXLINE, Len(pipe)} : m = Min({MAXLINE, Len(pipe)}) /\ m <= Len(pipe)
  <2>1. {MAXLINE, Len(pipe)} \subseteq Nat /\ {MAXLINE, Len(pipe)} # {} BY <1>2
  <2>2. Min({MAXLINE, Len(pipe)}) \in {MAXLINE, Len(pipe)} /\ \A y \in {MAXLINE, Len(pipe)} : Min({MAXLINE, Len(pipe)}) <= y
    BY <2>1, MinFacts
  <2> QED BY <2>2
<1>4. SubSeq(pipe, 1, m) \in Seq(Char)
  <2>1. \A x \in 1..m : pipe[x] \in Char BY <1>2, <1>3
  <2>2. m \in Int /\ 1 \in Int BY <1>2, <1>3
  <2> QED BY <2>1, <2>2, SubSeqProperties
<1>5. pipe' \in Seq(Char) /\ Len(pipe') <= PIPE_BUF
  <2>1. \A x \in MAXLINE + 1..Len(pipe) : pipe[x] \in Char BY <1>2
  <2>2. MAXLINE + 1 \in Int /\ Len(pipe) \in Int BY <1>2
  <2>3. pipe' \in Seq(Char) /\ Len(pipe') = IF MAXLINE + 1 <= Len(pipe) THEN Len(pipe) - (MAXLINE + 1) + 1 ELSE 0
    BY <1>1, <2>1, <2>2, SubSeqProperties
  <2> QED BY <1>2, <2>3
<1>6. TypeOK' BY <1>1, <1>5 DEF Types, TypeOK
<1>7. Places' BY <1>1 DEF Types, Places
<1> QED BY <1>1, <1>3, <1>4, <1>5, <1>6, <1>7, Zenon DEF Types

\* The answer of add2.
LEMMA AddAnswerTypes == ASSUME Types, AddAnswer PROVE Types'
<1>1. CASE R("coprocess", "answer", "read") /\ back' = Append(back, rbuf) /\ UNCHANGED <<rhow, pipe, reading>>
  <2>1. prog = "coprocess" /\ r = "answer" /\ r' = "read"
        /\ UNCHANGED <<prog, text, pos, w, whow, line, wbuf, asked, rhow, rbuf, pipe, out>>
    BY <1>1 DEF R, writing, source, reading
  <2>2. back' \in Seq(Seq(Char))
    <3>1. back \in Seq(Seq(Char)) /\ rbuf \in Seq(Char) BY <2>1 DEF Types
    <3> QED BY <1>1, <3>1, AppendProperties
  <2>3. TypeOK' BY <2>1 DEF Types, TypeOK
  <2>4. Places' BY <2>1 DEF Types, Places
  <2> QED BY <2>1, <2>2, <2>3, <2>4 DEF Types
<1>2. CASE REnds("coprocess", "answer", "SIGPIPE") /\ UNCHANGED out BY <1>2, REndsTypes
<1> QED BY <1>1, <1>2 DEF AddAnswer

\* The two opens of fifo_demo.
LEMMA FiOpenTypes == ASSUME Types, FiOpen PROVE Types'
<1>1. TypeOK' BY DEF Types, TypeOK, FiOpen, source, writing, reading
<1>2. Places' BY DEF Types, Places, FiOpen
<1> QED BY <1>1, <1>2 DEF Types, FiOpen, writing, reading

\* readline, and fgets of pipe_filter, take one byte of the pipe.
LEMMA TakeTypes ==
  ASSUME Types, NEW p \in {"fifo_demo", "pipe_filter"}, R(p, "read", "read"), pipe # <<>>, pipe' = Tail(pipe),
         rbuf' \in Seq(Char), out' \in Seq(Char), UNCHANGED <<rhow, back>>
  PROVE  Types'
<1>1. pipe \in Seq(Char) /\ Len(pipe) \in Nat /\ PIPE_BUF \in Nat BY StreamAssumption DEF Types
<1>2. pipe' \in Seq(Char) /\ Len(pipe') = Len(pipe) - 1 BY <1>1, HeadTailProperties
<1>3. Len(pipe') <= PIPE_BUF BY <1>1, <1>2 DEF Types, TypeOK
<1>4. TypeOK' BY <1>3 DEF Types, TypeOK, R, source, writing
<1>5. Places' BY DEF Types, Places, R
<1> QED BY <1>2, <1>4, <1>5 DEF Types, R, writing

\* A byte of readline.
LEMMA ReadlineTypes == ASSUME Types, Readline PROVE Types'
<1>1. PICK got \in {rbuf, Append(rbuf, Head(pipe))} :
        \/ out' = out \o got /\ rbuf' = <<>>
        \/ rbuf' = got /\ out' = out
  BY DEF Readline, ReadlineOf
<1>2. R("fifo_demo", "read", "read") /\ pipe # <<>> /\ pipe' = Tail(pipe) /\ UNCHANGED <<rhow, back>>
  BY DEF Readline, ReadlineOf
<1>3. rbuf \in Seq(Char) /\ pipe \in Seq(Char) /\ out \in Seq(Char) BY <1>2 DEF Types, R
<1>4. Head(pipe) \in Char BY <1>2, <1>3, HeadTailProperties
<1>5. got \in Seq(Char) BY <1>1, <1>3, <1>4, AppendProperties
<1>6. out \o got \in Seq(Char) /\ <<>> \in Seq(Char) BY <1>3, <1>5, ConcatProperties, EmptySeq
<1>7. out' \in Seq(Char) /\ rbuf' \in Seq(Char) BY <1>1, <1>3, <1>5, <1>6, Zenon
<1> QED BY <1>2, <1>7, TakeTypes

\* A byte of the line that pipe_filter reads.
LEMMA PfLineTypes == ASSUME Types, PfLine PROVE Types'
<1>1. PICK got : got = Append(rbuf, Head(pipe)) BY Zenon
<1>2. \/ out' = out \o String(got) /\ rbuf' = <<>>
      \/ rbuf' = got /\ out' = out
  BY <1>1 DEF PfLine
<1>3. R("pipe_filter", "read", "read") /\ pipe # <<>> /\ pipe' = Tail(pipe) /\ UNCHANGED <<rhow, back>>
  BY DEF PfLine
<1>4. rbuf \in Seq(Char) /\ pipe \in Seq(Char) /\ out \in Seq(Char) BY <1>3 DEF Types, R
<1>5. Head(pipe) \in Char BY <1>3, <1>4, HeadTailProperties
<1>6. got \in Seq(Char) BY <1>1, <1>4, <1>5, AppendProperties
<1>7. String(got) \in Seq(Char) BY <1>6, StringFacts
<1>8. out \o String(got) \in Seq(Char) /\ <<>> \in Seq(Char) BY <1>4, <1>7, ConcatProperties, EmptySeq
<1>9. out' \in Seq(Char) /\ rbuf' \in Seq(Char) BY <1>2, <1>4, <1>6, <1>8, Zenon
<1> QED BY <1>3, <1>9, TakeTypes

\* The end of pipe_filter.
LEMMA PfDoneTypes == ASSUME Types, PfDone PROVE Types'
<1>1. rbuf \in Seq(Char) /\ out \in Seq(Char) BY DEF Types, PfDone, R
<1>2. String(rbuf) \in Seq(Char) BY <1>1, StringFacts
<1>3. out' \in Seq(Char) /\ rbuf' \in Seq(Char) BY <1>1, <1>2, ConcatProperties, EmptySeq DEF PfDone
<1>4. TypeOK' BY DEF Types, TypeOK, PfDone, R, source, writing
<1>5. Places' BY DEF Types, Places, PfDone, R
<1> QED BY <1>3, <1>4, <1>5 DEF Types, PfDone, R, writing

\* A step of a pager.
LEMMA PagerTypes ==
  ASSUME Types, NEW p \in {"pipe_pager", "popen_pager"}, Pager(p)
  PROVE  Types'
<1>1. CASE /\ pipe # <<>> /\ R(p, "read", "read") /\ out' = out \o pipe /\ pipe' = <<>>
           /\ UNCHANGED <<rhow, back, rbuf>>
  <2>1. out \in Seq(Char) /\ pipe \in Seq(Char) BY <1>1 DEF Types, R
  <2>2. out' \in Seq(Char) /\ pipe' \in Seq(Char) /\ Len(pipe') = 0 BY <1>1, <2>1, ConcatProperties, EmptySeq
  <2>3. TypeOK' BY <1>1, <2>2, StreamAssumption DEF Types, TypeOK, R, source, writing
  <2>4. Places' BY <1>1 DEF Types, Places, R
  <2> QED BY <1>1, <2>2, <2>3, <2>4 DEF Types, R, writing
<1>2. CASE REnds(p, "read", "exit") /\ UNCHANGED out BY <1>2, REndsTypes
<1> QED BY <1>1, <1>2 DEF Pager

\* fputs in popen_pager.
LEMMA PoFputsTypes == ASSUME Types, PoFputs PROVE Types'
<1>1. wbuf' \in Seq(Char) /\ Len(wbuf') <= BUFSIZ
  <2>1. wbuf \in Seq(Char) /\ line \in Seq(Char) BY DEF Types
  <2>2. wbuf' = wbuf \o line /\ Len(wbuf) + Len(line) <= BUFSIZ BY DEF PoFputs
  <2> QED BY <2>1, <2>2, ConcatProperties
<1>2. TypeOK' BY <1>1 DEF Types, TypeOK, PoFputs, W
<1>3. Places' BY DEF Types, Places, PoFputs, W
<1> QED BY <1>1, <1>2, <1>3 DEF Types, PoFputs, W

\* Lower case, byte by byte.
LEMMA LowerFacts ==
  ASSUME NEW s \in Seq(Byte)
  PROVE  /\ Lower(s) \in Seq(Char) /\ Len(Lower(s)) = Len(s)
         /\ \A x \in 1..Len(s) : Lower(s)[x] = IF s[x] = "A" THEN "a" ELSE s[x]
<1>1. DOMAIN s = 1..Len(s) /\ Len(s) \in Nat /\ \A x \in 1..Len(s) : s[x] \in Byte OBVIOUS
<1>2. Lower(s) = [x \in 1..Len(s) |-> IF s[x] = "A" THEN "a" ELSE s[x]] BY <1>1 DEF Lower
<1>3. \A x \in 1..Len(s) : (IF s[x] = "A" THEN "a" ELSE s[x]) \in Char BY <1>1 DEF Char
<1> QED BY <1>1, <1>2, <1>3

\* putchar in myuclc.
LEMMA McPutcharTypes == ASSUME Types, McPutchar PROVE Types'
<1>1. pos \in Nat /\ Len(text) \in Nat /\ pos < Len(text) /\ text[pos + 1] \in Byte /\ BUFSIZ \in Nat
  BY StreamAssumption DEF McPutchar, Types, TypeOK
<1>2. <<text[pos + 1]>> \in Seq(Byte) /\ Len(<<text[pos + 1]>>) = 1 BY <1>1
<1>3. PICK low \in Seq(Char) : low = Lower(<<text[pos + 1]>>) /\ Len(low) = 1 BY <1>2, LowerFacts, Zenon
<1>4. wbuf' \in Seq(Char) /\ Len(wbuf') <= BUFSIZ
  <2>1. wbuf \in Seq(Char) /\ wbuf' = wbuf \o low /\ Len(wbuf) < BUFSIZ BY <1>3 DEF McPutchar, Types
  <2>2. wbuf \o low \in Seq(Char) /\ Len(wbuf \o low) = Len(wbuf) + Len(low) BY <2>1, ConcatProperties
  <2>3. Len(wbuf) \in Nat /\ Len(low) = 1 BY <1>3, <2>1
  <2> QED BY <1>1, <2>1, <2>2, <2>3
<1>5. pos' \in 0..Len(text) BY <1>1 DEF McPutchar
<1>6. TypeOK' BY <1>4, <1>5 DEF Types, TypeOK, McPutchar, W
<1>7. Places' BY DEF Types, Places, McPutchar, W
<1> QED BY <1>4, <1>6, <1>7 DEF Types, McPutchar, W

\* The end of a process from outside.
LEMMA KillTypes == ASSUME Types, Kill PROVE Types'
<1>1. UNCHANGED <<prog, text, pos, line, wbuf, asked, pipe, back, rbuf, out>>
  BY DEF Kill, source, writing, reading
<1>2. \/ w' = "ended" /\ whow' = "killed" /\ r' = r /\ rhow' = rhow
      \/ r' = "ended" /\ rhow' = "killed" /\ w' = w /\ whow' = whow
  BY DEF Kill
<1>3. TypeOK' BY <1>1, <1>2 DEF Types, TypeOK
<1>4. Places' BY <1>1, <1>2 DEF Types, Places
<1> QED BY <1>1, <1>2, <1>3, <1>4 DEF Types

\* The flush of a stream's buffer.
LEMMA FlushTypes ==
  ASSUME Types, NEW p, NEW from, NEW to, from # "ended",
         \/ p = "popen_pager" /\ to \in {"fputs", "waitpid"}
         \/ p = "pipe_filter" /\ to \in {"fgets", "exit"},
         \/ Write(p, from, wbuf, to) /\ wbuf' = <<>> /\ UNCHANGED <<line, asked>>
         \/ Broken(p, from, wbuf, "SIGPIPE")
  PROVE  Types'
<1>1. wbuf \in Seq(Char) BY DEF Types
<1>2. CASE Write(p, from, wbuf, to) /\ wbuf' = <<>> /\ UNCHANGED <<line, asked>> BY <1>1, <1>2, WriteTypes
<1>3. CASE Broken(p, from, wbuf, "SIGPIPE") BY <1>3, WEndsTypes DEF Broken
<1> QED BY <1>2, <1>3

\* Every step keeps the types.
LEMMA StepTypes == Types /\ [Next]_vars => Types'
<1> SUFFICES ASSUME Types, [Next]_vars PROVE Types'
  OBVIOUS
<1>1. CASE UNCHANGED vars
  BY <1>1 DEF vars, source, writing, reading, Types, TypeOK, Places
<1>2. ASSUME WStep PROVE Types'
  <2>1. CASE CoFgets BY <2>1, FgetsTypes DEF CoFgets
  <2>2. CASE CoDone BY <2>2, WEndsTypes DEF CoDone
  <2>3. CASE CoWrite
    <3>1. line \in Seq(Char) BY DEF Types
    <3> QED BY <2>3, <3>1, WriteTypes DEF CoWrite, CoWriteTo
  <2>4. CASE SigPipe BY <2>4, WEndsTypes DEF SigPipe, Broken
  <2>5. CASE CoRead BY <2>5, CoReadTypes
  <2>6. CASE CoClosed BY <2>6, WEndsTypes DEF CoClosed
  <2>7. CASE FiFgets BY <2>7, FgetsTypes DEF FiFgets
  <2>8. CASE FiWrite
    <3>1. line \in Seq(Char) BY DEF Types
    <3> QED BY <2>8, <3>1, WriteTypes DEF FiWrite, writing
  <2>9. CASE FiPipe BY <2>9, WEndsTypes DEF FiPipe, Broken
  <2>10. CASE FiDone BY <2>10, WEndsTypes DEF FiDone
  <2>11. CASE PpFgets BY <2>11, FgetsTypes DEF PpFgets
  <2>12. CASE PpWrite
    <3>1. line \in Seq(Char) BY DEF Types
    <3> QED BY <2>12, <3>1, WriteTypes DEF PpWrite, writing
  <2>13. CASE PpPipe BY <2>13, WEndsTypes DEF PpPipe, Broken
  <2>14. CASE PpClose BY <2>14, NoMoreTypes DEF PpClose
  <2>15. CASE PpWait BY <2>15, WEndsTypes DEF PpWait
  <2>16. CASE PoFgets BY <2>16, FgetsTypes DEF PoFgets
  <2>17. CASE PoFputs BY <2>17, PoFputsTypes
  <2>18. CASE PoFull BY <2>18, FlushTypes, Zenon DEF PoFull, PoFlush
  <2>19. CASE PoDone BY <2>19, NoMoreTypes DEF PoDone
  <2>20. CASE PoPclose BY <2>20, FlushTypes, Zenon DEF PoPclose, PoFlush
  <2>21. CASE PoWait BY <2>21, WEndsTypes DEF PoWait
  <2>22. CASE McPutchar BY <2>22, McPutcharTypes
  <2>23. CASE McFull BY <2>23, FlushTypes, Zenon DEF McFull, McFlush
  <2>24. CASE McFflush BY <2>24, FlushTypes, Zenon DEF McFflush, McFlush
  <2>25. CASE McDone BY <2>25, NoMoreTypes DEF McDone
  <2>26. CASE McExit BY <2>26, WEndsTypes DEF McExit
  <2>27. CASE McFinal BY <2>27, FlushTypes, Zenon DEF McFinal, McFlush
  <2> QED BY <1>2, <2>1, <2>2, <2>3, <2>4, <2>5, <2>6, <2>7, <2>8, <2>9, <2>10, <2>11, <2>12, <2>13, <2>14, SMTT(20),
             <2>15, <2>16, <2>17, <2>18, <2>19, <2>20, <2>21, <2>22, <2>23, <2>24, <2>25, <2>26, <2>27 DEF WStep
<1>3. ASSUME RStep PROVE Types'
  <2>1. CASE CoExec BY <2>1, StartTypes, REndsTypes DEF CoExec
  <2>2. CASE AddRead BY <2>2, AddReadTypes
  <2>3. CASE AddAnswer BY <2>3, AddAnswerTypes
  <2>4. CASE AddDone BY <2>4, REndsTypes DEF AddDone
  <2>5. CASE FiOpen BY <2>5, FiOpenTypes
  <2>6. CASE Readline BY <2>6, ReadlineTypes
  <2>7. CASE ReadlineEnd BY <2>7, REndsTypes DEF ReadlineEnd
  <2>8. CASE PpExec BY <2>8, StartTypes, REndsTypes DEF PpExec
  <2>9. CASE PoExec BY <2>9, StartTypes DEF PoExec
  <2>10. CASE PfLine BY <2>10, PfLineTypes
  <2>11. CASE PfDone BY <2>11, PfDoneTypes
  <2> QED BY <1>3, <2>1, <2>2, <2>3, <2>4, <2>5, <2>6, <2>7, <2>8, <2>9, <2>10, <2>11, SMTT(20) DEF RStep
<1>4. ASSUME Pager("pipe_pager") \/ Pager("popen_pager") PROVE Types' BY <1>4, PagerTypes
<1>5. ASSUME Kill PROVE Types' BY <1>5, KillTypes
<1> QED BY <1>1, <1>2, <1>3, <1>4, <1>5 DEF Next
-----------------------------------------------------------------------------
(* coprocess: one request, one answer.                                     *)

\* What a step of coprocess is.
LEMMA CoSteps ==
  ASSUME Next, prog = "coprocess"
  PROVE  \/ CoFgets \/ CoDone \/ CoWrite \/ SigPipe \/ CoRead \/ CoClosed
         \/ CoExec \/ AddRead \/ AddAnswer \/ AddDone \/ Kill
<1>1. ~ (FiFgets \/ FiWrite \/ FiPipe \/ FiDone)
  BY DEF FiFgets, FiWrite, FiPipe, FiDone, Fgets, Write, Broken, WEnds, W
<1>2. ~ (PpFgets \/ PpWrite \/ PpPipe \/ PpClose \/ PpWait)
  BY DEF PpFgets, PpWrite, PpPipe, PpClose, PpWait, Fgets, Write, Broken, NoMore, WEnds, W
<1>3. ~ (PoFgets \/ PoFputs \/ PoFull \/ PoDone \/ PoPclose \/ PoWait)
  BY DEF PoFgets, PoFputs, PoFull, PoDone, PoPclose, PoWait, PoFlush, Fgets, Write, Broken, NoMore, WEnds, W
<1>4. ~ (McPutchar \/ McFull \/ McFflush \/ McDone \/ McExit \/ McFinal)
  BY DEF McPutchar, McFull, McFflush, McDone, McExit, McFinal, McFlush, Write, Broken, NoMore, WEnds, W
<1>5. ~ (FiOpen \/ Readline \/ ReadlineEnd \/ PpExec \/ PoExec \/ PfLine \/ PfDone)
  BY DEF FiOpen, Readline, ReadlineOf, ReadlineEnd, PpExec, PoExec, PfLine, PfDone, REnds, R
<1>6. ~ (Pager("pipe_pager") \/ Pager("popen_pager")) BY Zenon DEF Pager, REnds, R
<1> QED BY <1>1, <1>2, <1>3, <1>4, <1>5, <1>6, SMTT(20) DEF Next, WStep, RStep

\* The end of w, or of r, changes nothing that is said of the other.
LEMMA CoEnds ==
  ASSUME Types, Co, prog = "coprocess", UNCHANGED <<prog, asked, pipe, back, rbuf, out>>,
         \/ w' = "ended" /\ r' = r
         \/ w' = w /\ r' = "ended"
         \/ w' = w /\ r = "exec" /\ r' = "read"
  PROVE  Co'
BY ZenonT(30) DEF Co, Round, Asked

\* The request of coprocess goes into the pipe.
LEMMA CoWriteCo == ASSUME Types, Co, CoWrite PROVE Co'
<1>1. /\ prog = "coprocess" /\ w = "write" /\ w' = "read" /\ pipe' = pipe \o line /\ asked' = Append(asked, line)
      /\ UNCHANGED <<prog, r, rbuf, back, out>>
  BY DEF CoWrite, CoWriteTo, Write, W
<1>2. line \in Seq(Char) /\ Len(line) < MAXLINE /\ asked \in Seq(Seq(Char)) /\ out \in Seq(Seq(Seq(Char)))
  BY <1>1 DEF Types, TypeOK
<1>3. pipe = <<>> /\ back = <<>> /\ r # "answer" /\ Len(asked) = Len(out) BY <1>1 DEF Co
<1>4. pipe' = line BY <1>1, <1>2, <1>3, ConcatEmptySeq
<1>5. /\ Len(asked') = Len(asked) + 1 /\ asked'[Len(asked) + 1] = line
      /\ \A j \in 1..Len(asked) : asked'[j] = asked[j]
  BY <1>1, <1>2, AppendProperties
<1>6. Len(asked) \in Nat /\ Len(out) \in Nat BY <1>2
<1>7. \A j \in 1..Len(asked') : Len(asked'[j]) < MAXLINE BY <1>1, <1>2, <1>5, <1>6 DEF Co
<1>8. Round' BY <1>1, <1>3, <1>4, <1>5 DEF Round, Asked
<1>9. \A j \in 1..Len(out) : out[j] = <<asked'[j]>> BY <1>1, <1>3, <1>5 DEF Co
<1>10. Len(out) <= Len(asked') /\ Len(asked') <= Len(out) + 1 /\ Len(asked') = Len(out) + 1 BY <1>3, <1>5, <1>6
<1> QED BY <1>1, <1>2, <1>4, <1>7, <1>8, <1>9, <1>10, Zenon DEF Co

\* coprocess takes the answer to its request.
LEMMA CoReadCo == ASSUME Types, Co, CoRead PROVE Co'
<1>1. /\ prog = "coprocess" /\ w = "read" /\ w' = "fgets" /\ out' = Append(out, back) /\ back # <<>> /\ back' = <<>>
      /\ UNCHANGED <<prog, r, rbuf, asked, pipe>>
  BY DEF CoRead, W, writing
<1>2. asked \in Seq(Seq(Char)) /\ out \in Seq(Seq(Seq(Char))) /\ back \in Seq(Seq(Char)) BY <1>1 DEF Types
<1>3. pipe = <<>> /\ back = <<Asked>> /\ r # "answer" /\ Len(asked) = Len(out) + 1 BY <1>1 DEF Co, Round
<1>4. Len(asked) \in Nat /\ Len(out) \in Nat BY <1>2
<1>5. /\ Len(out') = Len(out) + 1 /\ out'[Len(out) + 1] = back
      /\ \A j \in 1..Len(out) : out'[j] = out[j]
  BY <1>1, <1>2, AppendProperties
<1>6. out'[Len(out) + 1] = <<asked[Len(out) + 1]>> BY <1>3, <1>5 DEF Asked
<1>7. \A j \in 1..Len(out') : out'[j] = <<asked[j]>> BY <1>1, <1>4, <1>5, <1>6 DEF Co
<1>8. Len(out') = Len(asked) BY <1>3, <1>5
<1> QED BY <1>1, <1>3, <1>4, <1>7, <1>8 DEF Co

\* One read of add2 takes the whole request.
LEMMA AddReadCo == ASSUME Types, Co, AddRead PROVE Co'
<1>1. /\ pipe # <<>> /\ prog = "coprocess" /\ r = "read" /\ r' = "answer"
      /\ rbuf' = SubSeq(pipe, 1, Min({MAXLINE, Len(pipe)})) /\ pipe' = SubSeq(pipe, MAXLINE + 1, Len(pipe))
      /\ UNCHANGED <<prog, w, asked, back, out>>
  BY DEF AddRead, R, writing
<1>2. pipe \in Seq(Char) /\ Len(pipe) \in Nat /\ MAXLINE \in Nat /\ Len(pipe) < MAXLINE
  BY <1>1, StreamAssumption DEF Types, Co
<1>3. Min({MAXLINE, Len(pipe)}) = Len(pipe)
  <2>1. {MAXLINE, Len(pipe)} \subseteq Nat /\ {MAXLINE, Len(pipe)} # {} BY <1>2
  <2>2. Min({MAXLINE, Len(pipe)}) \in {MAXLINE, Len(pipe)} /\ \A y \in {MAXLINE, Len(pipe)} : Min({MAXLINE, Len(pipe)}) <= y
    BY <2>1, MinFacts
  <2> QED BY <1>2, <2>2
<1>4. rbuf' = pipe BY <1>1, <1>2, <1>3, SubSeqFull
<1>5. pipe' = <<>>
  <2>1. MAXLINE + 1 \in Int /\ Len(pipe) \in Int /\ Len(pipe) < MAXLINE + 1 BY <1>2
  <2> QED BY <1>1, <2>1, SubSeqEmpty
<1>6. Len(<<>>) < MAXLINE BY StreamAssumption, EmptySeq
<1>7. w = "read" => Round' BY <1>1, <1>4, <1>5, Zenon DEF Co, Round, Asked
<1>8. w \notin {"fgets", "write"} BY <1>1 DEF Co
<1> QED BY <1>1, <1>2, <1>4, <1>5, <1>6, <1>7, <1>8, ZenonT(30) DEF Co

\* add2 answers the request it has read.
LEMMA AddAnswerCo == ASSUME Types, Co, AddAnswer PROVE Co'
<1>1. CASE w # "ended" /\ R("coprocess", "answer", "read") /\ back' = Append(back, rbuf) /\ UNCHANGED <<rhow, pipe, reading>>
  <2>1. prog = "coprocess" /\ r = "answer" /\ r' = "read" /\ UNCHANGED <<prog, w, asked, rbuf, pipe, out>>
    BY <1>1 DEF R, writing, reading
  <2>2. w = "read" BY <1>1, <2>1 DEF Types, Places, Co
  <2>3. pipe = <<>> /\ back = <<>> /\ rbuf = Asked BY <2>1, <2>2 DEF Co, Round
  <2>4. back' = <<Asked>> BY <1>1, <2>3
  <2>5. Round' BY <2>1, <2>3, <2>4 DEF Round, Asked
  <2> QED BY <2>1, <2>2, <2>5 DEF Co
<1>2. CASE REnds("coprocess", "answer", "SIGPIPE") /\ UNCHANGED out
  BY <1>2, CoEnds DEF REnds, R, writing
<1> QED BY <1>1, <1>2 DEF AddAnswer

\* Every step keeps the one request of coprocess in one place.
LEMMA StepCo == Types /\ Co /\ [Next]_vars => Co'
<1> SUFFICES ASSUME Types, Co, [Next]_vars PROVE Co'
  OBVIOUS
<1>1. CASE UNCHANGED vars BY <1>1 DEF vars, writing, reading, Co, Round, Asked
<1>2. CASE Next /\ prog = "coprocess"
  <2>1. CASE CoFgets BY <2>1 DEF CoFgets, Fgets, W, Co, Round, Asked
  <2>2. CASE CoDone BY <2>2, CoEnds DEF CoDone, WEnds, W, writing
  <2>3. CASE CoWrite BY <2>3, CoWriteCo
  <2>4. CASE SigPipe BY <2>4, CoEnds DEF SigPipe, Broken, WEnds, W, writing
  <2>5. CASE CoRead BY <2>5, CoReadCo
  <2>6. CASE CoClosed BY <2>6, CoEnds DEF CoClosed, WEnds, W, writing
  <2>7. CASE CoExec BY <2>7, CoEnds, SMTT(20) DEF CoExec, REnds, R, writing, reading
  <2>8. CASE AddRead BY <2>8, AddReadCo
  <2>9. CASE AddAnswer BY <2>9, AddAnswerCo
  <2>10. CASE AddDone BY <2>10, CoEnds DEF AddDone, REnds, R, writing
  <2>11. CASE Kill BY <1>2, <2>11, CoEnds DEF Kill, writing, reading
  <2> QED BY <1>2, <2>1, <2>2, <2>3, <2>4, <2>5, <2>6, <2>7, <2>8, <2>9, <2>10, <2>11, CoSteps, SMTT(20)
<1>3. CASE Next /\ prog # "coprocess"
  <2>1. prog' = prog
    BY <1>3, Zenon DEF Next, WStep, RStep, Pager, Kill, CoFgets, CoDone, CoWrite, CoWriteTo, SigPipe, CoRead, CoClosed,
       CoExec, AddRead, AddAnswer, AddDone,
       FiFgets, FiWrite, FiPipe, FiDone, PpFgets, PpWrite, PpPipe, PpClose, PpWait,
       PoFgets, PoFputs, PoFull, PoDone, PoPclose, PoWait, PoFlush, McPutchar, McFull, McFflush, McDone, McExit,
       McFinal, McFlush, FiOpen, Readline, ReadlineOf, ReadlineEnd, PpExec, PoExec, PfLine, PfDone,
       Fgets, Write, Broken, NoMore, WEnds, W, REnds, R
  <2> QED BY <1>3, <2>1, Zenon DEF Co
<1> QED BY <1>1, <1>2, <1>3
-----------------------------------------------------------------------------
(* The other programs: nothing is lost.                                    *)

\* Joining sequences of bytes is associative.
LEMMA Assoc == \A s, t, u \in Seq(Clean) : (s \o t) \o u = s \o (t \o u)
BY ConcatAssociative

\* A text without zero bytes, and what myuclc makes of it.
LEMMA Texts ==
  ASSUME Types, Plain
  PROVE  /\ text \in Seq(Clean) /\ All \in Seq(Clean) /\ Len(All) = Len(text)
         /\ prog # "pipe_filter" => All = text
<1>1. text \in Seq(Byte) /\ Len(text) \in Nat BY DEF Types, TypeOK
<1>2. \A x \in 1..Len(text) : text[x] \in Clean
  <2>1. \A x \in 1..Len(text) : text[x] \in Byte /\ text[x] # "0" BY <1>1 DEF Plain, Zeroless
  <2> QED BY <2>1 DEF Byte, Clean
<1>3. text \in Seq(Clean) BY <1>1, <1>2
<1>4. Lower(text) \in Seq(Clean) /\ Len(Lower(text)) = Len(text)
  <2>1. /\ Lower(text) \in Seq(Char) /\ Len(Lower(text)) = Len(text)
        /\ \A x \in 1..Len(text) : Lower(text)[x] = IF text[x] = "A" THEN "a" ELSE text[x]
    BY <1>1, LowerFacts
  <2>2. \A x \in 1..Len(text) : Lower(text)[x] \in Clean BY <1>2, <2>1 DEF Clean
  <2> QED BY <1>1, <2>1, <2>2
<1> QED BY <1>3, <1>4 DEF All

\* What is on its way is a sequence of bytes.
LEMMA Cats ==
  ASSUME Clears
  PROVE  /\ out \o rbuf \in Seq(Clean) /\ Through \in Seq(Clean) /\ Through \o wbuf \in Seq(Clean)
         /\ Held \in Seq(Clean)
<1>1. out \o rbuf \in Seq(Clean) BY ConcatProperties DEF Clears
<1>2. (out \o rbuf) \o pipe \in Seq(Clean) BY <1>1, ConcatProperties DEF Clears
<1>3. Through \o wbuf \in Seq(Clean) BY <1>2, ConcatProperties DEF Clears, Through
<1>4. Held \in Seq(Clean) BY EmptySeq DEF Held, Clears
<1> QED BY <1>1, <1>2, <1>3, <1>4 DEF Through

\* The beginning of a beginning.
LEMMA PrefixFacts ==
  ASSUME NEW C, NEW s \in Seq(C), NEW u \in Seq(C), NEW a \in Seq(C), NEW n \in 0..Len(a),
         s \o u = SubSeq(a, 1, n)
  PROVE  IsPrefix(s, a)
<1>1. Len(s) \in Nat /\ Len(u) \in Nat /\ Len(a) \in Nat /\ n \in Nat /\ n <= Len(a) OBVIOUS
<1>2. \A x \in 1..n : a[x] \in C BY <1>1
<1>3. Len(SubSeq(a, 1, n)) = n /\ \A x \in 1..n : SubSeq(a, 1, n)[x] = a[x]
  <2>1. n \in Int /\ 1 \in Int /\ (1 <= n => n - 1 + 1 = n) /\ (~ (1 <= n) => 0 = n) /\ n - 1 + 1 = n BY <1>1
  <2>2. /\ Len(SubSeq(a, 1, n)) = IF 1 <= n THEN n - 1 + 1 ELSE 0
        /\ \A x \in 1..n - 1 + 1 : SubSeq(a, 1, n)[x] = a[1 + x - 1]
    BY <1>2, <2>1, SubSeqProperties
  <2>3. \A x \in 1..n : 1 + x - 1 = x BY <1>1
  <2> QED BY <2>1, <2>2, <2>3
<1>4. Len(s \o u) = Len(s) + Len(u) /\ \A x \in 1..Len(s) : (s \o u)[x] = s[x]
  <2>1. /\ Len(s \o u) = Len(s) + Len(u)
        /\ \A x \in 1..Len(s) + Len(u) : (s \o u)[x] = IF x <= Len(s) THEN s[x] ELSE u[x - Len(s)]
    BY ConcatProperties
  <2> QED BY <1>1, <2>1
<1>5. Len(s) <= n BY <1>1, <1>3, <1>4
<1>6. \A x \in 1..Len(s) : s[x] = a[x] BY <1>1, <1>3, <1>4, <1>5
<1>7. SubSeq(s, 1, Len(s)) = s BY SubSeqFull
<1>8. SubSeq(a, 1, Len(s)) = s
  <2>1. /\ SubSeq(a, 1, Len(s)) \in Seq(C) /\ Len(SubSeq(a, 1, Len(s))) = Len(s)
        /\ \A x \in 1..Len(s) : SubSeq(a, 1, Len(s))[x] = a[x]
    <3>1. /\ Len(s) \in Int /\ 1 \in Int /\ (1 <= Len(s) => Len(s) - 1 + 1 = Len(s)) /\ (~ (1 <= Len(s)) => 0 = Len(s))
          /\ Len(s) - 1 + 1 = Len(s)
      BY <1>1
    <3>2. \A x \in 1..Len(s) : a[x] \in C BY <1>1, <1>2, <1>5
    <3>3. /\ SubSeq(a, 1, Len(s)) \in Seq(C)
          /\ Len(SubSeq(a, 1, Len(s))) = IF 1 <= Len(s) THEN Len(s) - 1 + 1 ELSE 0
          /\ \A x \in 1..Len(s) - 1 + 1 : SubSeq(a, 1, Len(s))[x] = a[1 + x - 1]
      BY <3>1, <3>2, SubSeqProperties
    <3>4. \A x \in 1..Len(s) : 1 + x - 1 = x BY <1>1
    <3> QED BY <3>1, <3>3, <3>4
  <2> QED BY <1>6, <2>1, SeqEqual
<1> QED BY <1>1, <1>5, <1>7, <1>8 DEF IsPrefix

\* What is printed or in the pipe is the beginning of the text, whatever w does.
LEMMA FlowPrefix ==
  ASSUME Types, Plain, Clears, Flow
  PROVE  IsPrefix(Through, All)
<1>1. CASE w # "ended"
  <2>1. Through \in Seq(Clean) /\ wbuf \in Seq(Clean) /\ Held \in Seq(Clean) /\ All \in Seq(Clean) /\ Through \o wbuf \in Seq(Clean)
    BY Cats, Texts DEF Clears
  <2>2. (Through \o wbuf) \o Held = SubSeq(All, 1, pos) /\ pos \in 0..Len(All) BY <1>1, Texts DEF Flow, Types, TypeOK
  <2>3. Through \o (wbuf \o Held) = SubSeq(All, 1, pos) BY <2>1, <2>2, Assoc
  <2>4. wbuf \o Held \in Seq(Clean) BY <2>1, ConcatProperties
  <2> QED BY <2>1, <2>2, <2>3, <2>4, PrefixFacts, ZenonT(30)
<1> QED BY <1>1 DEF Flow

\* A step of w.
LEMMA WStreams ==
  ASSUME Types, Streams, UNCHANGED <<prog, text, out, rbuf>>, Buffers',
         Plain => line' \in Seq(Clean) /\ wbuf' \in Seq(Clean) /\ pipe' \in Seq(Clean) /\ Flow'
  PROVE  Streams'
<1>1. Plain' = Plain BY DEF Plain, Zeroless, Fits
<1> QED BY <1>1 DEF Streams, Clears, Begun

\* A step of r: what is printed or in the pipe stays what it is.
LEMMA RStreams ==
  ASSUME Types, Streams, UNCHANGED <<prog, text, pos, w, whow, line, wbuf>>, rhow' = rhow \/ rhow = "running",
         prog \in {"pipe_pager", "popen_pager"} => rbuf' = rbuf,
         Plain => /\ pipe' \in Seq(Clean) /\ rbuf' \in Seq(Clean) /\ out' \in Seq(Clean)
                  /\ Through' = Through /\ Begun'
  PROVE  Streams'
<1>1. Plain' = Plain BY DEF Plain, Zeroless, Fits
<1>2. Buffers' BY DEF Streams, Buffers
<1>3. All' = All /\ Held' = Held BY DEF All, Held
<1>4. Plain => Flow' BY <1>3, Zenon DEF Streams, Flow
<1> QED BY <1>1, <1>2, <1>4 DEF Streams, Clears

\* fgets takes the next line of the text into the hands of w.
LEMMA FgetsStreams ==
  ASSUME Types, Streams, NEW p \in {"fifo_demo", "pipe_pager", "popen_pager"},
         NEW to, to = IF p = "popen_pager" THEN "fputs" ELSE "write", Fgets(p, to)
  PROVE  Streams'
<1>1. /\ prog = p /\ w = "fgets" /\ w' = to /\ pos < Len(text) /\ pos' = LineEnd
      /\ line' = String(SubSeq(text, pos + 1, LineEnd))
      /\ UNCHANGED <<prog, text, r, rhow, rbuf, whow, wbuf, pipe, out>>
  BY DEF Fgets, W
<1>2. Buffers' BY <1>1 DEF Streams, Buffers
<1>3. ASSUME Plain PROVE line' \in Seq(Clean) /\ wbuf' \in Seq(Clean) /\ pipe' \in Seq(Clean) /\ Flow'
  <2>1. Clears /\ Flow BY <1>3 DEF Streams
  <2>2. PICK e \in pos + 1..Len(text) : e = LineEnd BY <1>1, LineFacts
  <2>3. pos \in Nat /\ Len(text) \in Nat /\ text \in Seq(Clean) /\ All = text
    BY <1>1, <1>3, Texts DEF Types, TypeOK
  <2>4. SubSeq(text, pos + 1, e) \in Seq(Clean)
    <3>1. \A x \in pos + 1..e : text[x] \in Clean BY <2>2, <2>3
    <3>2. pos + 1 \in Int /\ e \in Int BY <2>2, <2>3
    <3> QED BY <3>1, <3>2, SubSeqProperties
  <2>5. line' = SubSeq(text, pos + 1, e)
    <3>1. "0" \notin Clean BY DEF Clean
    <3> QED BY <1>1, <2>2, <2>4, <3>1, StringFacts, Zenon
  <2>6. Through \o wbuf = SubSeq(text, 1, pos)
    <3>1. Held = <<>> BY <1>1 DEF Held
    <3>2. (Through \o wbuf) \o <<>> = SubSeq(text, 1, pos) BY <1>1, <2>1, <2>3, <3>1 DEF Flow
    <3>3. Through \o wbuf \in Seq(Clean) BY <2>1, Cats
    <3> QED BY <3>2, <3>3, ConcatEmptySeq, ZenonT(30)
  <2>7. SubSeq(text, 1, pos) \o SubSeq(text, pos + 1, e) = SubSeq(text, 1, e)
    <3>1. 1 \in 1..Len(text) + 1 /\ pos \in 1 - 1..Len(text) /\ e \in pos..Len(text) BY <1>1, <2>2, <2>3
    <3> QED BY <2>3, <3>1, ConcatAdjacentSubSeq
  <2>8. Through' = Through /\ Held' = line' /\ All' = text BY <1>1, <2>3 DEF Through, Held, All
  <2>9. (Through' \o wbuf') \o Held' = SubSeq(All', 1, pos') BY <1>1, <2>2, <2>5, <2>6, <2>7, <2>8, ZenonT(30)
  <2>10. w' # "ended" /\ whow' # "exit" BY <1>1 DEF Types
  <2>11. Flow' BY <2>9, <2>10 DEF Flow
  <2> QED BY <1>1, <2>1, <2>4, <2>5, <2>11, ZenonT(30) DEF Clears
<1> QED BY <1>1, <1>2, <1>3, WStreams

\* fgets at the end of the text.
LEMMA NoMoreStreams ==
  ASSUME Types, Streams, NEW p, NEW to,
         <<p, to>> \in {<<"pipe_pager", "waitpid">>, <<"popen_pager", "pclose">>, <<"pipe_filter", "exit">>},
         NoMore(p, to)
  PROVE  Streams'
<1>1. /\ prog = p /\ w = "fgets" /\ w' = to /\ pos = Len(text)
      /\ UNCHANGED <<prog, text, pos, r, rhow, rbuf, whow, line, wbuf, pipe, out>>
  BY DEF NoMore, W, writing
<1>2. Buffers' BY <1>1 DEF Streams, Buffers
<1>3. Through' = Through /\ Held' = Held /\ All' = All BY <1>1 DEF Through, Held, All
<1>4. w' # "ended" /\ w # "ended" /\ whow' # "exit" BY <1>1 DEF Types
<1>5. Plain => line' \in Seq(Clean) /\ wbuf' \in Seq(Clean) /\ pipe' \in Seq(Clean) /\ Flow'
  BY <1>1, <1>3, <1>4 DEF Streams, Clears, Flow
<1> QED BY <1>1, <1>2, <1>5, WStreams

\* An end of w: if it is a normal one, w holds nothing.
LEMMA WEndsStreams ==
  ASSUME Types, Streams, NEW p, NEW from, from # "ended", NEW why, WEnds(p, from, why),
         why = "exit" => pos = Len(text) /\ wbuf = <<>> /\ from \notin {"write", "fputs"}
  PROVE  Streams'
<1>1. /\ w = from /\ w' = "ended" /\ whow' = why
      /\ UNCHANGED <<prog, text, pos, rhow, rbuf, line, wbuf, pipe, out>>
  BY DEF WEnds, W, writing
<1>2. Buffers' BY <1>1 DEF Streams, Buffers
<1>3. ASSUME Plain PROVE Flow'
  <2>1. Clears /\ Flow BY <1>3 DEF Streams
  <2>2. Through' = Through /\ All' = All BY <1>1 DEF Through, All
  <2>3. IsPrefix(Through, All) BY <1>3, <2>1, FlowPrefix
  <2>4. ASSUME why = "exit" PROVE Through = All
    <3>1. Held = <<>> /\ wbuf = <<>> /\ pos = Len(All) BY <1>1, <1>3, <2>4, Texts DEF Held
    <3>2. (Through \o <<>>) \o <<>> = SubSeq(All, 1, Len(All)) BY <1>1, <2>1, <3>1 DEF Flow
    <3>3. Through \in Seq(Clean) /\ All \in Seq(Clean) BY <1>3, <2>1, Cats, Texts
    <3>4. Through \o <<>> = Through BY <3>3, ConcatEmptySeq
    <3>5. SubSeq(All, 1, Len(All)) = All BY <3>3, SubSeqFull
    <3> QED BY <3>2, <3>4, <3>5
  <2> QED BY <1>1, <2>2, <2>3, <2>4 DEF Flow
<1>4. Plain => line' \in Seq(Clean) /\ wbuf' \in Seq(Clean) /\ pipe' \in Seq(Clean) /\ Flow'
  BY <1>1, <1>3 DEF Streams, Clears
<1> QED BY <1>1, <1>2, <1>4, WStreams

\* write of a line, and of a buffer.
LEMMA LineStreams ==
  ASSUME Types, Streams, NEW p \in {"fifo_demo", "pipe_pager"}, Write(p, "write", line, "fgets"), UNCHANGED writing
  PROVE  Streams'
<1>1. /\ prog = p /\ w = "write" /\ w' = "fgets" /\ pipe' = pipe \o line
      /\ UNCHANGED <<prog, text, pos, rhow, rbuf, whow, line, wbuf, out>>
  BY DEF Write, W, writing
<1>2. Buffers' BY <1>1 DEF Streams, Buffers
<1>3. ASSUME Plain PROVE line' \in Seq(Clean) /\ wbuf' \in Seq(Clean) /\ pipe' \in Seq(Clean) /\ Flow'
  <2>1. Clears /\ Flow /\ wbuf = <<>> BY <1>1, <1>3 DEF Streams, Buffers
  <2>2. pipe' \in Seq(Clean) BY <1>1, <2>1, ConcatProperties DEF Clears
  <2>3. Through \in Seq(Clean) /\ out \o rbuf \in Seq(Clean) /\ pipe \in Seq(Clean) /\ line \in Seq(Clean)
    BY <2>1, Cats DEF Clears
  <2>4. Through' = Through \o line
    <3>1. Through' = (out \o rbuf) \o (pipe \o line) BY <1>1 DEF Through
    <3>2. ((out \o rbuf) \o pipe) \o line = (out \o rbuf) \o (pipe \o line) BY <2>3, Assoc, Zenon
    <3> QED BY <3>1, <3>2 DEF Through
  <2>5. Through \o line \in Seq(Clean) BY <2>3, ConcatProperties
  <2>6. (Through' \o <<>>) \o <<>> = Through \o line BY <2>4, <2>5, ConcatEmptySeq
  <2>7. (Through \o <<>>) \o line = SubSeq(All, 1, pos) BY <1>1, <2>1, Zenon DEF Flow, Held
  <2>8. Through \o <<>> = Through BY <2>3, ConcatEmptySeq
  <2>9. Held' = <<>> /\ All' = All /\ wbuf' = <<>> BY <1>1, <2>1 DEF Held, All
  <2>10. (Through' \o wbuf') \o Held' = SubSeq(All', 1, pos') BY <1>1, <2>6, <2>7, <2>8, <2>9, ZenonT(30)
  <2>11. w' # "ended" /\ whow' # "exit" BY <1>1 DEF Types
  <2>12. Flow' BY <2>10, <2>11 DEF Flow
  <2> QED BY <1>1, <2>1, <2>2, <2>12 DEF Clears
<1> QED BY <1>1, <1>2, <1>3, WStreams

\* A stream's buffer goes into the pipe.
LEMMA FlushStreams ==
  ASSUME Types, Streams, NEW p \in {"popen_pager", "pipe_filter"}, NEW from, NEW to, from # "ended", to # "ended",
         from \in {"write", "fputs"} <=> to \in {"write", "fputs"},
         to \in {"pclose", "waitpid", "exit"} => from \in {"pclose", "exit"},
         Write(p, from, wbuf, to), wbuf' = <<>>, UNCHANGED <<line, asked>>
  PROVE  Streams'
<1>1. /\ prog = p /\ w = from /\ w' = to /\ pipe' = pipe \o wbuf /\ wbuf' = <<>>
      /\ UNCHANGED <<prog, text, pos, rhow, rbuf, whow, line, out>>
  BY DEF Write, W
<1>2. Buffers' BY <1>1 DEF Streams, Buffers
<1>3. ASSUME Plain PROVE line' \in Seq(Clean) /\ wbuf' \in Seq(Clean) /\ pipe' \in Seq(Clean) /\ Flow'
  <2>1. Clears /\ Flow BY <1>3 DEF Streams
  <2>2. pipe' \in Seq(Clean) /\ wbuf' \in Seq(Clean) BY <1>1, <2>1, ConcatProperties, EmptySeq DEF Clears
  <2>3. Through \in Seq(Clean) /\ out \o rbuf \in Seq(Clean) /\ pipe \in Seq(Clean) /\ wbuf \in Seq(Clean)
        /\ Through \o wbuf \in Seq(Clean)
    BY <2>1, Cats DEF Clears
  <2>4. Through' = Through \o wbuf
    <3>1. Through' = (out \o rbuf) \o (pipe \o wbuf) BY <1>1 DEF Through
    <3>2. ((out \o rbuf) \o pipe) \o wbuf = (out \o rbuf) \o (pipe \o wbuf) BY <2>3, Assoc, ZenonT(30)
    <3> QED BY <3>1, <3>2 DEF Through
  <2>5. Through' \o <<>> = Through \o wbuf BY <2>3, <2>4, ConcatEmptySeq
  <2>6. (Through \o wbuf) \o Held = SubSeq(All, 1, pos) BY <1>1, <2>1, Zenon DEF Flow
  <2>7. Held' = Held /\ All' = All BY <1>1 DEF Held, All
  <2>8. (Through' \o wbuf') \o Held' = SubSeq(All', 1, pos') BY <1>1, <2>5, <2>6, <2>7, ZenonT(30)
  <2>9. w' # "ended" /\ whow' # "exit" BY <1>1 DEF Types
  <2>10. Flow' BY <2>8, <2>9, Zenon DEF Flow
  <2> QED BY <1>1, <2>1, <2>2, <2>10 DEF Clears
<1> QED BY <1>1, <1>2, <1>3, WStreams

\* The line goes into the buffer of the stream of popen.
LEMMA PoFputsStreams == ASSUME Types, Streams, PoFputs PROVE Streams'
<1>1. /\ prog = "popen_pager" /\ w = "fputs" /\ w' = "fgets" /\ wbuf' = wbuf \o line
      /\ UNCHANGED <<prog, text, pos, rhow, rbuf, whow, line, pipe, out>>
  BY DEF PoFputs, W
<1>2. Buffers' BY <1>1 DEF Streams, Buffers
<1>3. ASSUME Plain PROVE line' \in Seq(Clean) /\ wbuf' \in Seq(Clean) /\ pipe' \in Seq(Clean) /\ Flow'
  <2>1. Clears /\ Flow BY <1>3 DEF Streams
  <2>2. wbuf' \in Seq(Clean) BY <1>1, <2>1, ConcatProperties DEF Clears
  <2>3. Through \in Seq(Clean) /\ wbuf \in Seq(Clean) /\ line \in Seq(Clean) /\ Through \o wbuf \in Seq(Clean)
    BY <2>1, Cats DEF Clears
  <2>4. Through' = Through /\ All' = All /\ Held = line /\ Held' = <<>> BY <1>1 DEF Through, All, Held
  <2>5. Through \o (wbuf \o line) = SubSeq(All, 1, pos)
    <3>1. (Through \o wbuf) \o line = SubSeq(All, 1, pos) BY <1>1, <2>1, <2>4, Zenon DEF Flow
    <3>2. (Through \o wbuf) \o line = Through \o (wbuf \o line) BY <2>3, Assoc
    <3> QED BY <3>1, <3>2, Zenon
  <2>6. Through \o (wbuf \o line) \in Seq(Clean) BY <1>1, <2>2, <2>3, ConcatProperties
  <2>7. (Through \o (wbuf \o line)) \o <<>> = Through \o (wbuf \o line) BY <2>6, ConcatEmptySeq
  <2>8. (Through' \o wbuf') \o Held' = SubSeq(All', 1, pos') BY <1>1, <2>4, <2>5, <2>7
  <2>9. w' # "ended" /\ whow' # "exit" BY <1>1 DEF Types
  <2>10. Flow' BY <2>8, <2>9 DEF Flow
  <2> QED BY <1>1, <2>1, <2>2, <2>10 DEF Clears
<1> QED BY <1>1, <1>2, <1>3, WStreams

\* myuclc puts the next byte, in lower case, into its buffer.
LEMMA McPutcharStreams == ASSUME Types, Streams, McPutchar PROVE Streams'
<1>1. /\ prog = "pipe_filter" /\ w = "fgets" /\ w' \in {"fflush", "fgets"} /\ pos < Len(text) /\ pos' = pos + 1
      /\ wbuf' = wbuf \o Lower(<<text[pos + 1]>>)
      /\ UNCHANGED <<prog, text, rhow, rbuf, whow, line, pipe, out>>
  BY DEF McPutchar, W
<1>2. Buffers' BY <1>1 DEF Streams, Buffers
<1>3. ASSUME Plain PROVE line' \in Seq(Clean) /\ wbuf' \in Seq(Clean) /\ pipe' \in Seq(Clean) /\ Flow'
  <2>1. Clears /\ Flow BY <1>3 DEF Streams
  <2>2. text \in Seq(Byte) /\ Len(text) \in Nat /\ pos \in Nat /\ pos + 1 \in 1..Len(text) BY <1>1 DEF Types, TypeOK
  <2>3. All = Lower(text) /\ All \in Seq(Clean) /\ Len(All) = Len(text) BY <1>1, <1>3, Texts DEF All
  <2>4. PICK b \in Clean : b = All[pos + 1] BY <2>2, <2>3
  <2>5. Lower(<<text[pos + 1]>>) = <<b>>
    <3>1. PICK c \in Byte : c = text[pos + 1] BY <2>2
    <3>2. PICK s \in Seq(Byte) : s = <<c>> /\ Len(s) = 1 /\ s[1] = c
      <4>1. <<c>> \in Seq(Byte) /\ Len(<<c>>) = 1 /\ <<c>>[1] = c OBVIOUS
      <4> QED BY <4>1, Zenon
    <3>3. Lower(s) \in Seq(Char) /\ Len(Lower(s)) = 1 /\ Lower(s)[1] = IF c = "A" THEN "a" ELSE c
      <4>1. /\ Lower(s) \in Seq(Char) /\ Len(Lower(s)) = Len(s)
            /\ \A x \in 1..Len(s) : Lower(s)[x] = IF s[x] = "A" THEN "a" ELSE s[x]
        BY LowerFacts
      <4>2. 1 \in 1..Len(s) BY <3>2
      <4> QED BY <3>2, <4>1, <4>2
    <3>4. b = IF c = "A" THEN "a" ELSE c BY <2>2, <2>3, <2>4, <3>1, LowerFacts
    <3>5. <<b>> \in Seq(Char) /\ Len(<<b>>) = 1 /\ <<b>>[1] = b BY <2>4 DEF Clean, Char, Byte
    <3>6. Lower(s) = <<b>>
      <4>1. \A x \in 1..Len(<<b>>) : Lower(s)[x] = <<b>>[x] BY <3>3, <3>4, <3>5
      <4> QED BY <3>3, <3>5, <4>1, SeqEqual
    <3> QED BY <3>1, <3>2, <3>6
  <2>6. <<b>> \in Seq(Clean) OBVIOUS
  <2>7. wbuf \in Seq(Clean) /\ Through \in Seq(Clean) /\ Through \o wbuf \in Seq(Clean) BY <2>1, Cats DEF Clears
  <2>8. wbuf' = wbuf \o <<b>> /\ wbuf' \in Seq(Clean) BY <1>1, <2>5, <2>6, <2>7, ConcatProperties, ZenonT(30)
  <2>9. Through' = Through /\ All' = All /\ Held = <<>> /\ Held' = <<>> BY <1>1 DEF Through, All, Held
  <2>10. Through \o wbuf = SubSeq(All, 1, pos)
    <3>1. (Through \o wbuf) \o <<>> = SubSeq(All, 1, pos) BY <1>1, <2>1, <2>9, Zenon DEF Flow
    <3> QED BY <2>7, <3>1, ConcatEmptySeq, Zenon
  <2>11. Through \o (wbuf \o <<b>>) = SubSeq(All, 1, pos) \o <<b>>
    <3>1. (Through \o wbuf) \o <<b>> = Through \o (wbuf \o <<b>>) BY <2>6, <2>7, Assoc
    <3> QED BY <2>10, <3>1, Zenon
  <2>12. SubSeq(All, 1, pos + 1) = SubSeq(All, 1, pos) \o <<b>>
    <3>1. 1 \in 1..Len(All) /\ pos + 1 \in 1..Len(All) /\ (pos + 1) - 1 = pos BY <2>2, <2>3
    <3>2. SubSeq(All, 1, pos + 1) = SubSeq(All, 1, (pos + 1) - 1) \o <<All[pos + 1]>>
      BY <2>3, <3>1, SubSeqRecursiveSecond, Zenon
    <3> QED BY <2>4, <3>1, <3>2, Zenon
  <2>13. (Through \o (wbuf \o <<b>>)) \o <<>> = Through \o (wbuf \o <<b>>)
    <3>1. Through \o (wbuf \o <<b>>) \in Seq(Clean) BY <2>7, <2>8, ConcatProperties
    <3> QED BY <3>1, ConcatEmptySeq
  <2>14. (Through' \o wbuf') \o Held' = SubSeq(All', 1, pos') BY <1>1, <2>8, <2>9, <2>11, <2>12, <2>13, ZenonT(30)
  <2>15. w' # "ended" /\ whow' # "exit" BY <1>1 DEF Types
  <2>16. Flow' BY <2>14, <2>15 DEF Flow
  <2> QED BY <1>1, <2>1, <2>8, <2>16, ZenonT(30) DEF Clears
<1> QED BY <1>1, <1>2, <1>3, WStreams

\* The end of r, execl, and the opening of the fifo move no byte.
LEMMA REndsStreams ==
  ASSUME Types, Streams, NEW p, NEW from, from # "ended", NEW why, REnds(p, from, why), UNCHANGED out
  PROVE  Streams'
<1>1. UNCHANGED <<prog, text, pos, w, whow, line, wbuf, pipe, rbuf, out>> /\ r # "ended"
  BY DEF REnds, R, source, writing
<1>2. rhow = "running" BY <1>1 DEF Types
<1>3. Through' = Through BY <1>1 DEF Through
<1>4. Plain => Begun' BY <1>1 DEF Streams, Begun
<1> QED BY <1>1, <1>2, <1>3, <1>4, RStreams DEF Streams, Clears

\* exec changes nothing that is said of the text.
LEMMA StartStreams ==
  ASSUME Types, Streams, NEW p, R(p, "exec", "read"), UNCHANGED <<rhow, pipe, back, reading>>
  PROVE  Streams'
<1>1. UNCHANGED <<prog, text, pos, w, whow, line, wbuf, pipe, rbuf, out, rhow>>
  BY DEF R, source, writing, reading
<1>2. Through' = Through BY <1>1 DEF Through
<1>3. Plain => Begun' BY <1>1 DEF Streams, Begun
<1> QED BY <1>1, <1>2, <1>3, RStreams DEF Streams, Clears

\* Nor do the opens of fifo_demo.
LEMMA FiOpenStreams == ASSUME Types, Streams, FiOpen PROVE Streams'
<1>1. /\ prog = "fifo_demo" /\ w = "open" /\ w' = "fgets"
      /\ UNCHANGED <<prog, text, pos, whow, line, wbuf, pipe, rbuf, out, rhow>>
  BY DEF FiOpen, source, writing, reading
<1>2. Through' = Through /\ Held' = Held /\ All' = All BY <1>1 DEF Through, Held, All
<1>3. Buffers' BY <1>1 DEF Streams, Buffers
<1>4. whow # "exit" BY <1>1 DEF Types
<1>5. Plain => line' \in Seq(Clean) /\ wbuf' \in Seq(Clean) /\ pipe' \in Seq(Clean) /\ Flow'
  BY <1>1, <1>2, <1>4, Zenon DEF Streams, Clears, Flow
<1> QED BY <1>1, <1>3, <1>5, WStreams

\* A byte goes from the pipe into the buffer of r, and the buffer to the output.
LEMMA TakeThrough ==
  ASSUME out \in Seq(Clean), rbuf \in Seq(Clean), pipe \in Seq(Clean), pipe # <<>>
  PROVE
    /\ Head(pipe) \in Clean /\ Append(rbuf, Head(pipe)) \in Seq(Clean) /\ Tail(pipe) \in Seq(Clean)
    /\ out \o Append(rbuf, Head(pipe)) \in Seq(Clean)
    /\ (out \o Append(rbuf, Head(pipe))) \o Tail(pipe) = (out \o rbuf) \o pipe
    /\ ((out \o Append(rbuf, Head(pipe))) \o <<>>) \o Tail(pipe) = (out \o rbuf) \o pipe
<1>1. PICK h \in Clean, t \in Seq(Clean) : h = Head(pipe) /\ t = Tail(pipe) /\ <<h>> \o t = pipe
  <2>1. Head(pipe) \in Clean /\ Tail(pipe) \in Seq(Clean) /\ Len(pipe) \in Nat \ {0} BY HeadTailProperties, EmptySeq
  <2>2. 1 \in 1..Len(pipe) /\ Len(pipe) \in 1..Len(pipe) BY <2>1
  <2>3. SubSeq(pipe, 1, Len(pipe)) = <<pipe[1]>> \o SubSeq(pipe, 1 + 1, Len(pipe)) BY <2>2, SubSeqRecursiveFirst
  <2>4. Tail(pipe) = SubSeq(pipe, 2, Len(pipe)) BY TailIsSubSeq
  <2>5. Head(pipe) = pipe[1] BY <2>2
  <2>6. SubSeq(pipe, 1, Len(pipe)) = pipe BY SubSeqFull
  <2>7. 1 + 1 = 2 OBVIOUS
  <2> QED BY <2>1, <2>3, <2>4, <2>5, <2>6, <2>7, ZenonT(30)
<1>2. <<h>> \in Seq(Clean) OBVIOUS
<1>3. Append(rbuf, h) = rbuf \o <<h>> /\ Append(rbuf, h) \in Seq(Clean) BY AppendIsConcat, AppendProperties
<1>4. out \o (rbuf \o <<h>>) = (out \o rbuf) \o <<h>> BY <1>2, ConcatAssociative
<1>5. out \o rbuf \in Seq(Clean) BY ConcatProperties
<1>6. ((out \o rbuf) \o <<h>>) \o t = (out \o rbuf) \o (<<h>> \o t) BY <1>2, <1>5, ConcatAssociative
<1>7. out \o Append(rbuf, h) \in Seq(Clean) BY <1>3, ConcatProperties
<1>8. (out \o Append(rbuf, h)) \o <<>> = out \o Append(rbuf, h) BY <1>7, ConcatEmptySeq
<1> QED BY <1>1, <1>3, <1>4, <1>6, <1>7, <1>8, ZenonT(30)

\* readline drops a byte only where a line does not fit.
LEMMA ReadlineStreams == ASSUME Types, Streams, Readline PROVE Streams'
<1>1. /\ prog = "fifo_demo" /\ pipe # <<>> /\ pipe' = Tail(pipe)
      /\ UNCHANGED <<prog, text, pos, w, whow, line, wbuf, rhow>>
  BY DEF Readline, ReadlineOf, R, source, writing
<1>2. ASSUME Plain
      PROVE  /\ pipe' \in Seq(Clean) /\ rbuf' \in Seq(Clean) /\ out' \in Seq(Clean)
             /\ Through' = Through /\ Begun'
  <2>1. Clears /\ Flow /\ Begun /\ Fits BY <1>1, <1>2 DEF Streams, Plain
  <2>2. out \in Seq(Clean) /\ rbuf \in Seq(Clean) /\ pipe \in Seq(Clean) BY <2>1 DEF Clears
  <2>0. /\ Append(rbuf, Head(pipe)) \in Seq(Clean) /\ Tail(pipe) \in Seq(Clean)
        /\ out \o Append(rbuf, Head(pipe)) \in Seq(Clean)
        /\ (out \o Append(rbuf, Head(pipe))) \o Tail(pipe) = (out \o rbuf) \o pipe
        /\ ((out \o Append(rbuf, Head(pipe))) \o <<>>) \o Tail(pipe) = (out \o rbuf) \o pipe
    BY <1>1, <2>2, TakeThrough, Zenon
  <2>3. PICK h : h = Head(pipe) OBVIOUS
  <2>4. /\ Append(rbuf, h) \in Seq(Clean) /\ Tail(pipe) \in Seq(Clean) /\ out \o Append(rbuf, h) \in Seq(Clean)
        /\ (out \o Append(rbuf, h)) \o Tail(pipe) = (out \o rbuf) \o pipe
        /\ ((out \o Append(rbuf, h)) \o <<>>) \o Tail(pipe) = (out \o rbuf) \o pipe
    BY <2>0, <2>3, Zenon
  <2>5. ~ (Len(rbuf) >= MAXLINE - 1)
    <3>1. SUFFICES ASSUME Len(rbuf) >= MAXLINE - 1 PROVE FALSE
      OBVIOUS
    <3>2. Len(out) \in Nat /\ Len(rbuf) \in Nat /\ Len(pipe) \in Nat \ {0} /\ MAXLINE \in Nat /\ 1 < MAXLINE
          /\ Len(text) \in Nat
      BY <1>1, <2>2, EmptySeq, StreamAssumption DEF Types, TypeOK
    <3>3. PICK t \in Seq(Clean) : t = Through /\ Len(t) = Len(out) + Len(rbuf) + Len(pipe)
            /\ \A x \in 1..Len(rbuf) : t[Len(out) + x] = rbuf[x]
      <4>1. PICK s \in Seq(Clean) : s = out \o rbuf BY <2>2, ConcatProperties, Zenon
      <4>2. Len(s) = Len(out) + Len(rbuf) /\ \A x \in 1..Len(rbuf) : s[Len(out) + x] = rbuf[x]
        <5>1. /\ Len(s) = Len(out) + Len(rbuf)
              /\ \A x \in 1..Len(out) + Len(rbuf) : s[x] = IF x <= Len(out) THEN out[x] ELSE rbuf[x - Len(out)]
          BY <2>2, <4>1, ConcatProperties
        <5>2. \A x \in 1..Len(rbuf) : /\ Len(out) + x \in 1..Len(out) + Len(rbuf) /\ ~ (Len(out) + x <= Len(out))
                                      /\ (Len(out) + x) - Len(out) = x
          BY <3>2
        <5> QED BY <5>1, <5>2
      <4>3. PICK t \in Seq(Clean) : t = s \o pipe BY <2>2, ConcatProperties, Zenon
      <4>4. /\ Len(t) = Len(s) + Len(pipe)
            /\ \A x \in 1..Len(s) + Len(pipe) : t[x] = IF x <= Len(s) THEN s[x] ELSE pipe[x - Len(s)]
        BY <2>2, <4>3, ConcatProperties
      <4>5. \A x \in 1..Len(rbuf) : Len(out) + x \in 1..Len(s) + Len(pipe) /\ Len(out) + x <= Len(s) BY <3>2, <4>2
      <4> QED BY <4>1, <4>2, <4>3, <4>4, <4>5, ZenonT(30) DEF Through
    <3>4. Len(t) <= Len(text) /\ \A x \in 1..Len(t) : t[x] = text[x]
      <4>1. IsPrefix(t, text) BY <1>1, <1>2, <2>1, <3>3, FlowPrefix, Texts, SMTT(20)
      <4>2. Len(t) <= Len(text) /\ SubSeq(t, 1, Len(t)) = SubSeq(text, 1, Len(t)) BY <4>1 DEF IsPrefix
      <4>3. Len(t) \in Nat /\ SubSeq(t, 1, Len(t)) = t BY <3>3, SubSeqFull
      <4>4. text \in Seq(Clean) BY <1>2, Texts
      <4>5. \A x \in 1..Len(t) : text[x] \in Clean BY <3>2, <4>2, <4>3, <4>4, SMTT(20)
      <4>6. \A x \in 1..Len(t) - 1 + 1 : SubSeq(text, 1, Len(t))[x] = text[1 + x - 1]
        <5>1. Len(t) \in Int /\ 1 \in Int BY <4>3
        <5> QED BY <4>5, <5>1, SubSeqProperties
      <4>7. Len(t) - 1 + 1 = Len(t) /\ \A x \in 1..Len(t) : 1 + x - 1 = x BY <4>3
      <4> QED BY <4>2, <4>3, <4>6, <4>7, SMTT(20)
    <3>5. PICK q : q = Len(out) + 1 OBVIOUS
    <3>6. q \in 1..Len(text) - MAXLINE + 1 BY <3>1, <3>2, <3>3, <3>4, <3>5, SMTT(20)
    <3>7. PICK j \in q..q + MAXLINE - 2 : text[j] = "n" BY <2>1, <3>6 DEF Fits
    <3>8. j - Len(out) \in 1..Len(rbuf) /\ Len(out) + (j - Len(out)) = j /\ j \in 1..Len(t)
      BY <3>1, <3>2, <3>3, <3>5, <3>7, SMTT(20)
    <3>9. rbuf[j - Len(out)] = "n" BY <3>3, <3>4, <3>7, <3>8, SMTT(20)
    <3> QED BY <1>1, <2>1, <3>8, <3>9 DEF Begun
  <2>6. \/ h = "n" /\ out' = out \o Append(rbuf, h) /\ rbuf' = <<>>
        \/ h # "n" /\ rbuf' = Append(rbuf, h) /\ out' = out
    BY <2>3, <2>5 DEF Readline, ReadlineOf
  <2>7. CASE h = "n" /\ out' = out \o Append(rbuf, h) /\ rbuf' = <<>>
    <3>1. Through' = Through BY <1>1, <2>4, <2>7, Zenon DEF Through
    <3>2. Last(out') = "n"
      <4>1. PICK g \in Seq(Clean) : g = Append(rbuf, h) BY <2>4, Zenon
      <4>2. Len(g) = Len(rbuf) + 1 /\ g[Len(rbuf) + 1] = h /\ Len(rbuf) \in Nat
        <5>1. h \in Clean BY <1>1, <2>2, <2>3, HeadTailProperties
        <5> QED BY <2>2, <4>1, <5>1, AppendProperties
      <4>3. /\ Len(out \o g) = Len(out) + Len(g)
            /\ \A x \in 1..Len(out) + Len(g) : (out \o g)[x] = IF x <= Len(out) THEN out[x] ELSE g[x - Len(out)]
        BY <2>2, <4>1, ConcatProperties, Zenon
      <4>4. Len(out) \in Nat BY <2>2
      <4>5. /\ Len(out) + Len(g) \in 1..Len(out) + Len(g) /\ ~ (Len(out) + Len(g) <= Len(out))
            /\ (Len(out) + Len(g)) - Len(out) = Len(rbuf) + 1
        BY <4>2, <4>4
      <4> QED BY <2>7, <4>1, <4>2, <4>3, <4>5 DEF Last
    <3>3. Begun' BY <2>7, <3>2, EmptySeq DEF Begun
    <3>4. <<>> \in Seq(Clean) BY EmptySeq
    <3> QED BY <1>1, <2>4, <2>7, <3>1, <3>3, <3>4, ZenonT(30)
  <2>8. CASE h # "n" /\ rbuf' = Append(rbuf, h) /\ out' = out
    <3>1. Through' = Through BY <1>1, <2>4, <2>8, Zenon DEF Through
    <3>2. \A j \in 1..Len(rbuf') : rbuf'[j] # "n"
      <4>1. h \in Clean BY <1>1, <2>2, <2>3, HeadTailProperties
      <4>2. /\ Len(rbuf') = Len(rbuf) + 1 /\ rbuf'[Len(rbuf) + 1] = h /\ Len(rbuf) \in Nat
            /\ \A j \in 1..Len(rbuf) : rbuf'[j] = rbuf[j]
        BY <2>2, <2>8, <4>1, AppendProperties
      <4>3. \A j \in 1..Len(rbuf) : rbuf[j] # "n" BY <1>1, <2>1 DEF Begun
      <4> QED BY <2>8, <4>2, <4>3
    <3>3. Begun' BY <1>1, <2>1, <2>8, <3>2 DEF Begun
    <3> QED BY <1>1, <2>2, <2>4, <2>8, <3>1, <3>3, ZenonT(30)
  <2> QED BY <2>6, <2>7, <2>8
<1>3. prog \notin {"pipe_pager", "popen_pager"} BY <1>1
<1> QED BY <1>1, <1>2, <1>3, RStreams

\* pipe_filter takes a byte from the pipe, and prints the line that it completes.
LEMMA PfLineStreams == ASSUME Types, Streams, PfLine PROVE Streams'
<1>1. /\ prog = "pipe_filter" /\ pipe # <<>> /\ pipe' = Tail(pipe)
      /\ UNCHANGED <<prog, text, pos, w, whow, line, wbuf, rhow>>
  BY DEF PfLine, R, source, writing
<1>2. ASSUME Plain
      PROVE  /\ pipe' \in Seq(Clean) /\ rbuf' \in Seq(Clean) /\ out' \in Seq(Clean)
             /\ Through' = Through /\ Begun'
  <2>1. out \in Seq(Clean) /\ rbuf \in Seq(Clean) /\ pipe \in Seq(Clean) BY <1>2 DEF Streams, Clears
  <2>0. /\ Append(rbuf, Head(pipe)) \in Seq(Clean) /\ Tail(pipe) \in Seq(Clean)
        /\ out \o Append(rbuf, Head(pipe)) \in Seq(Clean)
        /\ (out \o Append(rbuf, Head(pipe))) \o Tail(pipe) = (out \o rbuf) \o pipe
        /\ ((out \o Append(rbuf, Head(pipe))) \o <<>>) \o Tail(pipe) = (out \o rbuf) \o pipe
    BY <1>1, <2>1, TakeThrough, Zenon
  <2>2. PICK g : g = Append(rbuf, Head(pipe)) BY Zenon
  <2>3. /\ g \in Seq(Clean) /\ Tail(pipe) \in Seq(Clean) /\ out \o g \in Seq(Clean)
        /\ (out \o g) \o Tail(pipe) = (out \o rbuf) \o pipe
        /\ ((out \o g) \o <<>>) \o Tail(pipe) = (out \o rbuf) \o pipe
    BY <2>0, <2>2, Zenon
  <2>4. String(g) = g
    <3>1. "0" \notin Clean BY DEF Clean
    <3> QED BY <2>3, <3>1, StringFacts
  <2>5. \/ out' = out \o g /\ rbuf' = <<>>
        \/ rbuf' = g /\ out' = out
    BY <2>2, <2>4, Zenon DEF PfLine
  <2>6. Begun' BY <1>1 DEF Begun
  <2>7. <<>> \in Seq(Clean) BY EmptySeq
  <2>8. CASE out' = out \o g /\ rbuf' = <<>>
    <3>1. Through' = Through BY <1>1, <2>3, <2>8, Zenon DEF Through
    <3> QED BY <1>1, <2>3, <2>6, <2>7, <2>8, <3>1
  <2>9. CASE rbuf' = g /\ out' = out
    <3>1. Through' = Through BY <1>1, <2>3, <2>9, ZenonT(30) DEF Through
    <3> QED BY <1>1, <2>1, <2>3, <2>6, <2>9, <3>1, SMTT(20)
  <2> QED BY <2>5, <2>8, <2>9
<1>3. prog \notin {"pipe_pager", "popen_pager"} BY <1>1
<1> QED BY <1>1, <1>2, <1>3, RStreams

\* At the end pipe_filter prints what it has of a line.
LEMMA PfDoneStreams == ASSUME Types, Streams, PfDone PROVE Streams'
<1>1. /\ prog = "pipe_filter" /\ r # "ended" /\ pipe = <<>> /\ rbuf' = <<>> /\ out' = out \o String(rbuf)
      /\ UNCHANGED <<prog, text, pos, w, whow, line, wbuf, pipe>>
  BY DEF PfDone, Eof, R, source, writing
<1>2. ASSUME Plain
      PROVE  /\ pipe' \in Seq(Clean) /\ rbuf' \in Seq(Clean) /\ out' \in Seq(Clean)
             /\ Through' = Through /\ Begun'
  <2>1. out \in Seq(Clean) /\ rbuf \in Seq(Clean) /\ pipe \in Seq(Clean) BY <1>2 DEF Streams, Clears
  <2>2. String(rbuf) = rbuf
    <3>1. "0" \notin Clean BY DEF Clean
    <3> QED BY <2>1, <3>1, StringFacts
  <2>3. out \o rbuf \in Seq(Clean) BY <2>1, ConcatProperties
  <2>4. (out \o rbuf) \o <<>> = out \o rbuf BY <2>3, ConcatEmptySeq
  <2>5. Through' = Through BY <1>1, <2>2, <2>4 DEF Through
  <2>6. Begun' BY <1>1 DEF Begun
  <2>7. <<>> \in Seq(Clean) BY EmptySeq
  <2> QED BY <1>1, <2>1, <2>2, <2>3, <2>5, <2>6, <2>7, SMTT(20)
<1>3. rhow = "running" BY <1>1 DEF Types
<1>4. prog \notin {"pipe_pager", "popen_pager"} BY <1>1
<1> QED BY <1>1, <1>2, <1>3, <1>4, RStreams, SMTT(20)

\* A pager prints what is in the pipe.
LEMMA PagerStreams ==
  ASSUME Types, Streams, NEW p \in {"pipe_pager", "popen_pager"}, Pager(p)
  PROVE  Streams'
<1>1. CASE pipe # <<>> /\ R(p, "read", "read") /\ out' = out \o pipe /\ pipe' = <<>> /\ UNCHANGED <<rhow, back, rbuf>>
  <2>1. /\ prog \in {"pipe_pager", "popen_pager"} /\ UNCHANGED <<prog, text, pos, w, whow, line, wbuf, rhow, rbuf>>
    BY <1>1 DEF R, source, writing
  <2>2. rbuf = <<>> BY <2>1 DEF Streams, Buffers
  <2>3. ASSUME Plain
        PROVE  /\ pipe' \in Seq(Clean) /\ rbuf' \in Seq(Clean) /\ out' \in Seq(Clean)
               /\ Through' = Through /\ Begun'
    <3>1. out \in Seq(Clean) /\ rbuf \in Seq(Clean) /\ pipe \in Seq(Clean) BY <2>3 DEF Streams, Clears
    <3>2. out \o pipe \in Seq(Clean) BY <3>1, ConcatProperties
    <3>3. out \o <<>> = out BY <3>1, ConcatEmptySeq
    <3>4. (out \o pipe) \o <<>> = out \o pipe BY <3>2, ConcatEmptySeq
    <3>5. Through = out \o pipe BY <2>2, <3>3 DEF Through
    <3>6. Through' = ((out \o pipe) \o <<>>) \o <<>> BY <1>1, <2>1, <2>2 DEF Through
    <3>7. Through' = Through BY <3>4, <3>5, <3>6
    <3>8. Begun' BY <2>1 DEF Begun
    <3>9. <<>> \in Seq(Clean) BY EmptySeq
    <3> QED BY <1>1, <2>1, <3>1, <3>2, <3>7, <3>8, <3>9, SMTT(20)
  <2> QED BY <2>1, <2>3, RStreams
<1>2. CASE REnds(p, "read", "exit") /\ UNCHANGED out BY <1>2, REndsStreams
<1> QED BY <1>1, <1>2 DEF Pager

\* An end from outside leaves in the pipe what is there.
LEMMA KillStreams == ASSUME Types, Streams, Kill PROVE Streams'
<1>1. CASE /\ w # "ended" /\ w' = "ended" /\ whow' = "killed"
           /\ UNCHANGED <<prog, source, r, rhow, writing, pipe, back, reading>>
  <2>1. UNCHANGED <<prog, text, pos, rhow, rbuf, line, wbuf, pipe, out>> BY <1>1 DEF source, writing, reading
  <2>2. Buffers' BY <1>1, <2>1 DEF Streams, Buffers
  <2>3. ASSUME Plain PROVE Flow'
    <3>1. Clears /\ Flow BY <2>3 DEF Streams
    <3>2. Through' = Through /\ All' = All BY <2>1 DEF Through, All
    <3>3. IsPrefix(Through, All) BY <2>3, <3>1, FlowPrefix
    <3> QED BY <1>1, <3>2, <3>3 DEF Flow
  <2>4. Plain => line' \in Seq(Clean) /\ wbuf' \in Seq(Clean) /\ pipe' \in Seq(Clean) /\ Flow'
    BY <2>1, <2>3 DEF Streams, Clears
  <2> QED BY <2>1, <2>2, <2>4, WStreams
<1>2. CASE /\ r # "ended" /\ r' = "ended" /\ rhow' = "killed"
           /\ UNCHANGED <<prog, source, w, whow, writing, pipe, back, reading>>
  <2>1. UNCHANGED <<prog, text, pos, w, whow, line, wbuf, pipe, rbuf, out>> BY <1>2 DEF source, writing, reading
  <2>2. rhow = "running" BY <1>2 DEF Types
  <2>3. Through' = Through BY <2>1 DEF Through
  <2>4. Plain => Begun' BY <2>1 DEF Streams, Begun
  <2> QED BY <2>1, <2>2, <2>3, <2>4, RStreams, SMTT(20) DEF Streams, Clears
<1> QED BY <1>1, <1>2 DEF Kill

\* The streams say nothing of coprocess but that its buffer stays empty.
LEMMA CoStreams ==
  ASSUME Types, Streams, prog = "coprocess", UNCHANGED <<prog, wbuf>>, w' \in {"fgets", "write", "read", "ended"}
  PROVE  Streams'
BY DEF Streams, Buffers, Plain

\* Every step keeps what is said of the text.
LEMMA StepStreams == Types /\ Streams /\ [Next]_vars => Streams'
<1> SUFFICES ASSUME Types, Streams, [Next]_vars PROVE Streams'
  OBVIOUS
<1>1. CASE UNCHANGED vars
  BY <1>1, Zenon DEF vars, source, writing, reading, Streams, Buffers, Plain, Zeroless, Fits, Clears, Flow, Begun,
              Through, Held, All
<1>2. ASSUME Next, prog = "coprocess" PROVE Streams'
  <2>1. w \in {"fgets", "write", "read", "ended"} BY <1>2 DEF Types, Places
  <2>2. CASE CoFgets BY <1>2, <2>2, CoStreams, SMTT(20) DEF CoFgets, Fgets, W
  <2>3. CASE CoDone \/ SigPipe \/ CoClosed
    BY <1>2, <2>3, CoStreams DEF CoDone, SigPipe, CoClosed, Broken, WEnds, W, writing
  <2>4. CASE CoWrite BY <1>2, <2>4, CoStreams DEF CoWrite, CoWriteTo, Write, W
  <2>5. CASE CoRead BY <1>2, <2>5, CoStreams DEF CoRead, W, writing
  <2>6. CASE CoExec \/ AddRead \/ AddAnswer \/ AddDone
    BY <1>2, <2>1, <2>6, CoStreams, ZenonT(30) DEF CoExec, AddRead, AddAnswer, AddDone, REnds, R, writing
  <2>7. CASE Kill BY <2>7, KillStreams
  <2> QED BY <1>2, <2>2, <2>3, <2>4, <2>5, <2>6, <2>7, CoSteps, SMTT(20)
<1>3. ASSUME WStep, prog # "coprocess" PROVE Streams'
  <2>1. CASE CoFgets \/ CoDone \/ CoWrite \/ SigPipe \/ CoRead \/ CoClosed
    BY <1>3, <2>1 DEF CoFgets, CoDone, CoWrite, CoWriteTo, SigPipe, CoRead, CoClosed, Fgets, Write, Broken, WEnds, W
  <2>2. CASE FiFgets BY <2>2, FgetsStreams DEF FiFgets
  <2>3. CASE FiWrite BY <2>3, LineStreams DEF FiWrite
  <2>4. CASE FiPipe BY <2>4, WEndsStreams DEF FiPipe, Broken
  <2>5. CASE FiDone
    <3>1. wbuf = <<>> BY <2>5 DEF FiDone, WEnds, W, Streams, Buffers
    <3> QED BY <2>5, <3>1, WEndsStreams DEF FiDone
  <2>6. CASE PpFgets BY <2>6, FgetsStreams DEF PpFgets
  <2>7. CASE PpWrite BY <2>7, LineStreams DEF PpWrite
  <2>8. CASE PpPipe BY <2>8, WEndsStreams DEF PpPipe, Broken
  <2>9. CASE PpClose BY <2>9, NoMoreStreams DEF PpClose
  <2>10. CASE PpWait
    <3>1. wbuf = <<>> /\ pos = Len(text) BY <2>10 DEF PpWait, WEnds, W, Streams, Buffers
    <3> QED BY <2>10, <3>1, WEndsStreams DEF PpWait
  <2>11. CASE PoFgets BY <2>11, FgetsStreams DEF PoFgets
  <2>12. CASE PoFputs BY <2>12, PoFputsStreams
  <2>13. CASE PoFull
    <3>1. \/ Write("popen_pager", "fputs", wbuf, "fputs") /\ wbuf' = <<>> /\ UNCHANGED <<line, asked>>
          \/ Broken("popen_pager", "fputs", wbuf, "SIGPIPE")
      BY <2>13 DEF PoFull, PoFlush
    <3> QED BY <3>1, FlushStreams, WEndsStreams DEF Broken
  <2>14. CASE PoDone BY <2>14, NoMoreStreams DEF PoDone
  <2>15. CASE PoPclose
    <3>1. \/ Write("popen_pager", "pclose", wbuf, "waitpid") /\ wbuf' = <<>> /\ UNCHANGED <<line, asked>>
          \/ Broken("popen_pager", "pclose", wbuf, "SIGPIPE")
      BY <2>15 DEF PoPclose, PoFlush
    <3> QED BY <3>1, FlushStreams, WEndsStreams DEF Broken
  <2>16. CASE PoWait
    <3>1. wbuf = <<>> /\ pos = Len(text) BY <2>16 DEF PoWait, WEnds, W, Streams, Buffers
    <3> QED BY <2>16, <3>1, WEndsStreams DEF PoWait
  <2>17. CASE McPutchar BY <2>17, McPutcharStreams
  <2>18. CASE McFull
    <3>1. \/ Write("pipe_filter", "fgets", wbuf, "fgets") /\ wbuf' = <<>> /\ UNCHANGED <<line, asked>>
          \/ Broken("pipe_filter", "fgets", wbuf, "SIGPIPE")
      BY <2>18 DEF McFull, McFlush
    <3> QED BY <3>1, FlushStreams, WEndsStreams DEF Broken
  <2>19. CASE McFflush
    <3>1. \/ Write("pipe_filter", "fflush", wbuf, "fgets") /\ wbuf' = <<>> /\ UNCHANGED <<line, asked>>
          \/ Broken("pipe_filter", "fflush", wbuf, "SIGPIPE")
      BY <2>19 DEF McFflush, McFlush
    <3> QED BY <3>1, FlushStreams, WEndsStreams DEF Broken
  <2>20. CASE McDone BY <2>20, NoMoreStreams DEF McDone
  <2>21. CASE McExit
    <3>1. wbuf = <<>> /\ pos = Len(text) BY <2>21 DEF McExit, WEnds, W, Streams, Buffers
    <3> QED BY <2>21, <3>1, WEndsStreams DEF McExit
  <2>22. CASE McFinal
    <3>1. \/ Write("pipe_filter", "exit", wbuf, "exit") /\ wbuf' = <<>> /\ UNCHANGED <<line, asked>>
          \/ Broken("pipe_filter", "exit", wbuf, "SIGPIPE")
      BY <2>22 DEF McFinal, McFlush
    <3> QED BY <3>1, FlushStreams, WEndsStreams DEF Broken
  <2> QED BY <1>3, <2>1, <2>2, <2>3, <2>4, <2>5, <2>6, <2>7, <2>8, <2>9, <2>10, <2>11, <2>12, <2>13, <2>14, SMTT(20),
             <2>15, <2>16, <2>17, <2>18, <2>19, <2>20, <2>21, <2>22 DEF WStep
<1>4. ASSUME RStep, prog # "coprocess" PROVE Streams'
  <2>1. CASE CoExec \/ AddRead \/ AddAnswer \/ AddDone
    BY <1>4, <2>1, SMTT(20) DEF CoExec, AddRead, AddAnswer, AddDone, REnds, R
  <2>2. CASE FiOpen BY <2>2, FiOpenStreams
  <2>3. CASE Readline BY <2>3, ReadlineStreams
  <2>4. CASE ReadlineEnd BY <2>4, REndsStreams DEF ReadlineEnd
  <2>5. CASE PpExec BY <2>5, StartStreams, REndsStreams DEF PpExec
  <2>6. CASE PoExec BY <2>6, StartStreams, SMTT(20) DEF PoExec
  <2>7. CASE PfLine BY <2>7, PfLineStreams
  <2>8. CASE PfDone BY <2>8, PfDoneStreams
  <2> QED BY <1>4, <2>1, <2>2, <2>3, <2>4, <2>5, <2>6, <2>7, <2>8, SMTT(20) DEF RStep
<1>5. ASSUME Pager("pipe_pager") \/ Pager("popen_pager") PROVE Streams' BY <1>5, PagerStreams
<1>6. ASSUME Kill PROVE Streams' BY <1>6, KillStreams
<1> QED BY <1>1, <1>2, <1>3, <1>4, <1>5, <1>6, ZenonT(30) DEF Next

\* At the start everything is empty.
LEMMA InitStreams == Init => Co /\ Streams
<1> SUFFICES ASSUME Init PROVE Co /\ Streams
  OBVIOUS
<1>1. /\ pos = 0 /\ w \in {"open", "fgets"} /\ r \in {"open", "read", "exec"} /\ whow = "running" /\ line = <<>>
      /\ wbuf = <<>> /\ pipe = <<>> /\ back = <<>> /\ rbuf = <<>> /\ out = <<>> /\ asked = <<>> /\ Types
  BY InitTypes DEF Init
<1>2. Len(<<>>) = 0 /\ <<>> \in Seq(Clean) BY EmptySeq
<1>3. Co BY <1>1, <1>2, StreamAssumption DEF Co
<1>4. Buffers BY <1>1 DEF Buffers
<1>5. Begun BY <1>1, <1>2 DEF Begun
<1>6. Clears BY <1>1, <1>2 DEF Clears
<1>7. ASSUME Plain PROVE Flow
  <2>1. <<>> \o <<>> = <<>> BY <1>2, ConcatEmptySeq
  <2>2. Through = <<>> /\ Held = <<>> BY <1>1, <2>1 DEF Through, Held
  <2>3. SubSeq(All, 1, 0) = <<>>
    <3>1. All \in Seq(Clean) BY <1>1, <1>7, Texts
    <3> QED BY <3>1, SubSeqEmpty
  <2> QED BY <1>1, <2>1, <2>2, <2>3 DEF Flow
<1> QED BY <1>3, <1>4, <1>5, <1>6, <1>7 DEF Streams
-----------------------------------------------------------------------------
\* The inductive invariant holds in every reachable state, for every text and every size
\* of the buffers.
THEOREM StreamInvariance == Spec => [](Types /\ Co /\ Streams)
<1>1. Init => Types /\ Co /\ Streams BY InitTypes, InitStreams
<1>2. (Types /\ Co /\ Streams) /\ [Next]_vars => (Types /\ Co /\ Streams)' BY StepTypes, StepCo, StepStreams
<1> QED BY <1>1, <1>2, PTL DEF Spec

\* coprocess prints to each request add2's answer to it, whole, and no read of either
\* program fills its buffer.
THEOREM PairedCorrect == Spec => []Paired
<1>1. Types /\ Co /\ Streams => Paired BY DEF Co, Paired
<1> QED BY <1>1, StreamInvariance, PTL

\* What fifo_demo, the two pagers and pipe_filter print is the text in order and without
\* gaps, and all of it when the processes have come to their end.
THEOREM NothingLostCorrect == Spec => []NothingLost
<1>1. ASSUME Types, Co, Streams PROVE NothingLost
  <2>1. ASSUME Plain
        PROVE  /\ IsPrefix(Through, All)
               /\ whow = "exit" /\ rhow \in {"running", "exit"} => Through = All
               /\ prog = "fifo_demo" /\ out # <<>> => Last(out) = "n"
    <3>1. Clears /\ Flow /\ Begun BY <1>1, <2>1 DEF Streams
    <3> QED BY <1>1, <2>1, <3>1, FlowPrefix, Zenon DEF Flow, Begun
  <2>2. TypeOK BY <1>1 DEF Types
  <2> QED BY <2>1, <2>2 DEF NothingLost, Plain, Through, All
<1> QED BY <1>1, StreamInvariance, PTL
=============================================================================
