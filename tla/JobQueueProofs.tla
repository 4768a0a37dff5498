--------------------------- MODULE JobQueueProofs ---------------------------
(***************************************************************************)
(* Proofs about JobQueue, for any number of jobs and of finders.           *)
(***************************************************************************)
EXTENDS JobQueue, SequenceTheorems, TLAPS

(***************************************************************************)
(* The inductive invariant.  Linked is not inductive by itself: an         *)
(* operation keeps the list well formed only if the job it adds is not     *)
(* queued and the job it removes is, which Membership knows from thr_fn1's *)
(* loop counter; and only if q holds the target of the operation before,   *)
(* which Locking says.  Walking carries what a reader has seen so far.     *)
(***************************************************************************)
Locking ==
  /\ pc["thr_fn1"] \in {"wrlock", "link", "store", "done"}
  /\ pc["thr_fn2"] \in {"test", "rdlock", "walk", "done"}
  /\ \A t \in Finders : pc[t] \in {"idle", "walk"}
  /\ writer = IF pc["thr_fn1"] \in {"link", "store"} THEN "thr_fn1" ELSE NULL
  /\ readers = {t \in Thread : pc[t] = "walk"}
  /\ writer # NULL => readers = {}
  /\ pc["thr_fn1"] # "store" => q = target

Queued(s, j) == \E k \in 1..Len(s) : s[k] = j

Membership ==
  /\ pc["thr_fn1"] = "done" => phase = "remove" /\ queue = <<>>
  /\ pc["thr_fn1"] # "done" => \A j \in Job :
       Queued(queue, j) <=>
         IF phase = "add" THEN j < i \/ (j = i /\ pc["thr_fn1"] = "store")
                          ELSE j > i \/ (j = i /\ pc["thr_fn1"] # "store")

\* A reader's jp when it has passed the first k jobs.
After(k) == IF k = Len(queue) THEN NULL ELSE queue[k + 1]

Walking ==
  /\ pc["thr_fn2"] = "walk" =>
       \E k \in 0..Len(queue) :
         printed = SubSeq(queue, 1, k) /\ jp["thr_fn2"] = After(k)
  /\ \A t \in Finders : pc[t] = "walk" =>
       /\ want[t] \in Job
       /\ \E k \in 0..Len(queue) :
            jp[t] = After(k) /\ \A l \in 1..k : queue[l] # want[t]

IInv == TypeOK /\ Locking /\ Membership /\ Linked /\ Walking
-----------------------------------------------------------------------------
(***************************************************************************)
(* The list operations on any represented list.                            *)
(***************************************************************************)
\* job_insert puts a job that is not queued at the head.
LEMMA InsertRepresents ==
  ASSUME NEW s \in Seq(Job), NEW h \in [Fields -> Ptr],
         NEW nx \in [Job -> Ptr \cup {Wild}], NEW pv \in [Job -> Ptr \cup {Wild}],
         NEW j \in Job, Represents(h, nx, pv, s), ~ Queued(s, j)
  PROVE  Represents([q_head |-> j,
                     q_tail |-> IF h.q_head = NULL THEN j ELSE h.q_tail],
                    [nx EXCEPT ![j] = h.q_head],
                    [k \in Job |-> IF k = h.q_head THEN j ELSE IF k = j THEN NULL ELSE pv[k]],
                    <<j>> \o s)
<1> DEFINE t == <<j>> \o s
           h2 == [q_head |-> j, q_tail |-> IF h.q_head = NULL THEN j ELSE h.q_tail]
           nx2 == [nx EXCEPT ![j] = h.q_head]
           pv2 == [k \in Job |-> IF k = h.q_head THEN j ELSE IF k = j THEN NULL ELSE pv[k]]
<1>1. /\ t \in Seq(Job) /\ Len(t) = Len(s) + 1 /\ t[1] = j /\ Len(s) \in Nat
      /\ \A k \in 2..Len(t) : t[k] = s[k - 1]
      /\ \A k \in 1..Len(s) : s[k] \in Job /\ s[k] # j
  BY DEF Queued
<1> HIDE DEF t
<1>2. /\ Len(s) = 0 <=> h.q_head = NULL
      /\ Len(s) # 0 => h.q_head = s[1] /\ h.q_tail = s[Len(s)]
  BY <1>1, JobQueueAssumption DEF Represents, Ptr
<1>3. h2["q_head"] = t[1] /\ h2["q_tail"] = t[Len(t)]
  BY <1>1, <1>2
<1>6. /\ \A k, l \in 1..Len(s) : s[k] = s[l] => k = l
      /\ \A k \in 1..Len(s) : nx[s[k]] = IF k = Len(s) THEN NULL ELSE s[k + 1]
  BY DEF Represents
<1>4. ASSUME NEW k \in 1..Len(t), NEW l \in 1..Len(t), t[k] = t[l]
      PROVE  k = l
  <2>1. \A m \in 2..Len(t) : t[m] # t[1]
    <3> SUFFICES ASSUME NEW m \in 2..Len(t) PROVE t[m] # j
      BY <1>1
    <3> m - 1 \in 1..Len(s) /\ t[m] = s[m - 1]
      BY <1>1
    <3> QED BY <1>1
  <2>2. CASE k # 1 /\ l # 1
    <3>1. k - 1 \in 1..Len(s) /\ l - 1 \in 1..Len(s) /\ s[k - 1] = s[l - 1]
      BY <1>1, <1>4, <2>2
    <3>2. k - 1 = l - 1
      BY <3>1, <1>6
    <3> QED BY <3>2
  <2> QED BY <2>1, <2>2, <1>1, <1>4
<1>5. ASSUME NEW k \in 1..Len(t)
      PROVE  /\ nx2[t[k]] = IF k = Len(t) THEN NULL ELSE t[k + 1]
             /\ pv2[t[k]] = IF k = 1 THEN NULL ELSE t[k - 1]
  <2>1. CASE k = 1
    <3>1. nx2[j] = h.q_head /\ pv2[j] = NULL /\ t[k] = j
      BY <1>1, <1>2, <2>1, JobQueueAssumption DEF Ptr
    <3>2. Len(s) # 0 => t[2] = s[1]
      BY <1>1
    <3> QED BY <1>1, <1>2, <2>1, <3>1, <3>2
  <2>2. CASE k # 1
    <3>1. t[k] = s[k - 1] /\ k - 1 \in 1..Len(s) /\ t[k] # j /\ t[k] \in Job
      BY <1>1, <2>2
    <3>2. nx2[t[k]] = nx[s[k - 1]]
      BY <3>1
    <3>3. nx[s[k - 1]] = IF k = Len(t) THEN NULL ELSE t[k + 1]
      <4>1. nx[s[k - 1]] = IF k - 1 = Len(s) THEN NULL ELSE s[(k - 1) + 1]
        BY <1>6, <3>1
      <4>2. k # Len(t) => t[k + 1] = s[k]
        BY <1>1
      <4> QED BY <4>1, <4>2, <1>1
    <3>4. pv2[t[k]] = IF t[k] = h.q_head THEN j ELSE pv[s[k-1]]
      BY <3>1
    <3>5. CASE k = 2
      BY <1>1, <1>2, <3>1, <3>2, <3>3, <3>4, <3>5
    <3>6. CASE k # 2
      <4>1. s[k-1] # s[1]
        BY <1>1, <3>1, <3>6, <2>2 DEF Represents
      <4>2. pv[s[k-1]] = s[k-2] /\ s[k-2] = t[k-1]
        BY <1>1, <3>1, <3>6, <2>2 DEF Represents
      <4> QED BY <4>1, <4>2, <1>1, <1>2, <2>2, <3>1, <3>2, <3>3, <3>4
    <3> QED BY <3>5, <3>6
  <2> QED BY <2>1, <2>2
<1> QED
  <2> HIDE DEF h2, nx2, pv2
  <2> Represents(h2, nx2, pv2, t)
    BY <1>1, <1>3, <1>4, <1>5 DEF Represents
  <2> QED BY DEF h2, nx2, pv2, t

\* job_append puts a job that is not queued at the tail.
LEMMA AppendRepresents ==
  ASSUME NEW s \in Seq(Job), NEW h \in [Fields -> Ptr],
         NEW nx \in [Job -> Ptr \cup {Wild}], NEW pv \in [Job -> Ptr \cup {Wild}],
         NEW j \in Job, Represents(h, nx, pv, s), ~ Queued(s, j)
  PROVE  Represents([q_head |-> IF h.q_tail = NULL THEN j ELSE h.q_head,
                     q_tail |-> j],
                    [k \in Job |-> IF k = h.q_tail THEN j ELSE IF k = j THEN NULL ELSE nx[k]],
                    [pv EXCEPT ![j] = h.q_tail],
                    Append(s, j))
<1> DEFINE t == Append(s, j)
           h2 == [q_head |-> IF h.q_tail = NULL THEN j ELSE h.q_head, q_tail |-> j]
           nx2 == [k \in Job |-> IF k = h.q_tail THEN j ELSE IF k = j THEN NULL ELSE nx[k]]
           pv2 == [pv EXCEPT ![j] = h.q_tail]
           n == Len(s)
<1>1. /\ t \in Seq(Job) /\ Len(t) = n + 1 /\ t[n + 1] = j /\ n \in Nat
      /\ \A k \in 1..n : t[k] = s[k]
      /\ \A k \in 1..n : s[k] \in Job /\ s[k] # j
  BY DEF Queued
<1> HIDE DEF t
<1>2. /\ n = 0 <=> h.q_tail = NULL
      /\ n # 0 => h.q_head = s[1] /\ h.q_tail = s[n]
      /\ h.q_tail # j
  BY <1>1, JobQueueAssumption DEF Represents, Ptr
<1>3. /\ \A k, l \in 1..n : s[k] = s[l] => k = l
      /\ \A k \in 1..n : nx[s[k]] = IF k = n THEN NULL ELSE s[k + 1]
      /\ \A k \in 1..n : pv[s[k]] = IF k = 1 THEN NULL ELSE s[k - 1]
  BY DEF Represents
<1>4. h2["q_head"] = t[1] /\ h2["q_tail"] = t[Len(t)]
  BY <1>1, <1>2
<1>5. \A k, l \in 1..Len(t) : t[k] = t[l] => k = l
  BY <1>1, <1>3
<1>6. ASSUME NEW k \in 1..Len(t)
      PROVE  /\ nx2[t[k]] = IF k = Len(t) THEN NULL ELSE t[k + 1]
             /\ pv2[t[k]] = IF k = 1 THEN NULL ELSE t[k - 1]
  <2>1. CASE k = n + 1
    <3>1. nx2[j] = NULL /\ pv2[j] = h.q_tail /\ t[k] = j
      BY <1>1, <1>2, <2>1
    <3>2. h.q_tail = IF k = 1 THEN NULL ELSE t[k - 1]
      BY <1>1, <1>2, <2>1
    <3>3. k = Len(t)
      BY <1>1, <2>1
    <3> HIDE DEF nx2, pv2
    <3> QED BY <3>1, <3>2, <3>3
  <2>2. CASE k # n + 1
    <3>1. t[k] = s[k] /\ k \in 1..n /\ t[k] # j /\ t[k] \in Job
      BY <1>1, <2>2
    <3>2. /\ nx2[t[k]] = IF s[k] = h.q_tail THEN j ELSE nx[s[k]]
          /\ pv2[t[k]] = pv[s[k]]
      BY <3>1
    <3>3. s[k] = h.q_tail <=> k = n
      BY <1>1, <1>2, <1>3, <3>1
    <3>4. k # n => t[k + 1] = s[k + 1]
      BY <1>1, <3>1
    <3>5. k # 1 => t[k - 1] = s[k - 1]
      BY <1>1, <3>1
    <3> QED BY <1>1, <1>3, <3>1, <3>2, <3>3, <3>4, <3>5
  <2> QED BY <2>1, <2>2
<1> QED
  <2> HIDE DEF h2, nx2, pv2
  <2> Represents(h2, nx2, pv2, t)
    BY <1>1, <1>4, <1>5, <1>6 DEF Represents
  <2> QED BY DEF h2, nx2, pv2, t

\* RemoveAt closes the gap that the removed element leaves.
LEMMA RemoveAtElements ==
  ASSUME NEW S, NEW s \in Seq(S), NEW p \in 1..Len(s)
  PROVE  /\ RemoveAt(s, p) \in Seq(S)
         /\ Len(RemoveAt(s, p)) = Len(s) - 1
         /\ \A k \in 1..Len(s) - 1 :
              RemoveAt(s, p)[k] = IF k < p THEN s[k] ELSE s[k + 1]
<1> DEFINE a == SubSeq(s, 1, p - 1)
           b == SubSeq(s, p + 1, Len(s))
<1>1. Len(s) \in Nat
  OBVIOUS
<1>2. /\ a \in Seq(S) /\ Len(a) = p - 1 /\ \A k \in 1..p - 1 : a[k] = s[k]
  BY <1>1, SubSeqProperties
<1>3. /\ b \in Seq(S) /\ Len(b) = Len(s) - p
      /\ \A k \in 1..Len(s) - p : b[k] = s[p + k]
  BY <1>1, SubSeqProperties
<1> HIDE DEF a, b
<1>4. /\ a \o b \in Seq(S) /\ Len(a \o b) = Len(a) + Len(b)
      /\ \A k \in 1..Len(a) + Len(b) :
           (a \o b)[k] = IF k <= Len(a) THEN a[k] ELSE b[k - Len(a)]
  BY <1>2, <1>3, ConcatProperties, Zenon
<1>5. Len(a) + Len(b) = Len(s) - 1
  BY <1>1, <1>2, <1>3
<1>6. ASSUME NEW k \in 1..Len(s) - 1
      PROVE  (a \o b)[k] = IF k < p THEN s[k] ELSE s[k + 1]
  <2>1. CASE k < p
    BY <1>1, <1>2, <1>4, <1>5, <2>1
  <2>2. CASE ~ (k < p)
    <3> DEFINE m == k - (p - 1)
    <3>1. (a \o b)[k] = b[m]
      BY <1>1, <1>2, <1>4, <1>5, <2>2
    <3>2. m \in 1..Len(s) - p /\ p + m = k + 1
      BY <1>1, <2>2
    <3> HIDE DEF m
    <3> QED BY <1>3, <3>1, <3>2, <2>2, Zenon
  <2> QED BY <2>1, <2>2, Zenon
<1> QED BY <1>4, <1>5, <1>6, Zenon DEF RemoveAt, a, b

\* RemoveAt keeps the elements of a sequence distinct.
LEMMA RemoveAtInjective ==
  ASSUME NEW S, NEW s \in Seq(S), NEW p \in 1..Len(s),
         \A k, l \in 1..Len(s) : s[k] = s[l] => k = l,
         NEW k \in 1..Len(s) - 1, NEW l \in 1..Len(s) - 1,
         RemoveAt(s, p)[k] = RemoveAt(s, p)[l]
  PROVE  k = l
<1> DEFINE at(m) == IF m < p THEN m ELSE m + 1
<1>1. Len(s) \in Nat
  OBVIOUS
<1>2. at(k) \in 1..Len(s) /\ at(l) \in 1..Len(s)
  BY <1>1
<1>3. s[at(k)] = s[at(l)]
  BY <1>1, RemoveAtElements, Zenon
<1>4. at(k) = at(l)
  <2> HIDE DEF at
  <2> QED BY <1>2, <1>3
<1> QED BY <1>1, <1>4

\* What the three branches of job_remove start from.
LEMMA RemovalFacts ==
  ASSUME NEW s \in Seq(Job), NEW h \in [Fields -> Ptr],
         NEW nx \in [Job -> Ptr \cup {Wild}], NEW pv \in [Job -> Ptr \cup {Wild}],
         Represents(h, nx, pv, s), NEW p \in 1..Len(s)
  PROVE  LET n == Len(s)
             t == RemoveAt(s, p)
         IN  /\ n \in Nat /\ \A k \in 1..n : s[k] \in Job
             /\ t \in Seq(Job) /\ Len(t) = n - 1
             /\ \A k \in 1..n - 1 : t[k] = IF k < p THEN s[k] ELSE s[k + 1]
             /\ \A k, l \in 1..n - 1 : t[k] = t[l] => k = l
<1> DEFINE n == Len(s)
           t == RemoveAt(s, p)
<1>1. n \in Nat /\ \A k \in 1..n : s[k] \in Job
  OBVIOUS
<1>2. /\ t \in Seq(Job) /\ Len(t) = n - 1
      /\ \A k \in 1..n - 1 : t[k] = IF k < p THEN s[k] ELSE s[k + 1]
  BY RemoveAtElements
<1>3. \A k, l \in 1..n : s[k] = s[l] => k = l
  BY DEF Represents
<1>4. \A k, l \in 1..n - 1 : t[k] = t[l] => k = l
  BY <1>3, RemoveAtInjective
<1> QED BY <1>1, <1>2, <1>4

\* job_remove at the head.
LEMMA RemoveHeadRepresents ==
  ASSUME NEW s \in Seq(Job), NEW h \in [Fields -> Ptr],
         NEW nx \in [Job -> Ptr \cup {Wild}], NEW pv \in [Job -> Ptr \cup {Wild}],
         Represents(h, nx, pv, s), NEW p \in 1..Len(s), p = 1
  PROVE  LET j == s[p] IN
         Represents([q_head |-> nx[j],
                     q_tail |-> IF h.q_tail = j THEN NULL ELSE h.q_tail],
                    nx,
                    IF h.q_tail = j THEN pv ELSE [pv EXCEPT ![nx[j]] = NULL],
                    RemoveAt(s, p))
<1> DEFINE n == Len(s)
           j == s[p]
           t == RemoveAt(s, p)
           h2 == [q_head |-> nx[j], q_tail |-> IF h.q_tail = j THEN NULL ELSE h.q_tail]
           nx2 == nx
           pv2 == IF h.q_tail = j THEN pv ELSE [pv EXCEPT ![nx[j]] = NULL]
<1>1. /\ n \in Nat /\ \A k \in 1..n : s[k] \in Job
      /\ t \in Seq(Job) /\ Len(t) = n - 1
      /\ \A k \in 1..n - 1 : t[k] = IF k < p THEN s[k] ELSE s[k + 1]
  BY RemovalFacts, Zenon
<1>2. /\ h.q_head = s[1] /\ h.q_tail = s[n]
      /\ \A k, l \in 1..n : s[k] = s[l] => k = l
      /\ \A k \in 1..n : nx[s[k]] = IF k = n THEN NULL ELSE s[k + 1]
      /\ \A k \in 1..n : pv[s[k]] = IF k = 1 THEN NULL ELSE s[k - 1]
  <2>1. h.q_head = s[1] /\ h.q_tail = s[n]
    BY <1>1 DEF Represents
  <2>2. /\ \A k, l \in 1..n : s[k] = s[l] => k = l
        /\ \A k \in 1..n : nx[s[k]] = IF k = n THEN NULL ELSE s[k + 1]
        /\ \A k \in 1..n : pv[s[k]] = IF k = 1 THEN NULL ELSE s[k - 1]
    BY DEF Represents
  <2> QED BY <2>1, <2>2
<1>3. \A k, l \in 1..n - 1 : t[k] = t[l] => k = l
  BY RemovalFacts, Zenon
<1> HIDE DEF t
<1>6. h.q_tail = j <=> n = 1
  BY <1>1, <1>2
<1>7. n # 1 => nx[j] = s[2] /\ t[1] = s[2] /\ t[n - 1] = s[n]
  BY <1>1, <1>2
<1>8. n = 1 => nx[j] = NULL
  BY <1>1, <1>2
<1>4. /\ h2["q_head"] = IF n - 1 = 0 THEN NULL ELSE t[1]
      /\ h2["q_tail"] = IF n - 1 = 0 THEN NULL ELSE t[n - 1]
  BY <1>1, <1>2, <1>6, <1>7, <1>8
<1>5. ASSUME NEW k \in 1..n - 1
      PROVE  /\ nx2[t[k]] = IF k = n - 1 THEN NULL ELSE t[k + 1]
             /\ pv2[t[k]] = IF k = 1 THEN NULL ELSE t[k - 1]
  <2>1. t[k] = s[k + 1] /\ k + 1 \in 1..n /\ n # 1 /\ s[k + 1] \in Job
    BY <1>1
  <2>2. pv2 = [pv EXCEPT ![s[2]] = NULL] /\ s[2] \in Job
    <3>1. h.q_tail # j /\ nx[j] = s[2] /\ 2 \in 1..n
      BY <1>1, <1>6, <1>7, <2>1
    <3> QED BY <1>1, <3>1
  <2>3. nx2[t[k]] = IF k + 1 = n THEN NULL ELSE s[(k + 1) + 1]
    BY <1>2, <2>1
  <2>4. k # n - 1 => t[k + 1] = s[(k + 1) + 1]
    BY <1>1
  <2>5. CASE k = 1
    BY <1>1, <2>1, <2>2, <2>3, <2>4, <2>5
  <2>6. CASE k # 1
    <3>1. s[k + 1] # s[2]
      BY <1>1, <1>2, <2>1, <2>6
    <3>2. pv2[t[k]] = pv[s[k + 1]]
      BY <2>1, <2>2, <3>1
    <3>3. pv[s[k + 1]] = s[(k + 1) - 1]
      BY <1>2, <2>1
    <3>4. t[k - 1] = s[k]
      BY <1>1, <2>6
    <3> QED BY <1>1, <2>1, <2>3, <2>4, <2>6, <3>2, <3>3, <3>4
  <2> QED BY <2>5, <2>6
<1> QED
  <2> HIDE DEF h2, nx2, pv2
  <2> Represents(h2, nx2, pv2, t)
    BY <1>1, <1>3, <1>4, <1>5 DEF Represents
  <2> QED BY DEF h2, nx2, pv2, t, j

\* job_remove at the tail of a list of two jobs or more.
LEMMA RemoveTailRepresents ==
  ASSUME NEW s \in Seq(Job), NEW h \in [Fields -> Ptr],
         NEW nx \in [Job -> Ptr \cup {Wild}], NEW pv \in [Job -> Ptr \cup {Wild}],
         Represents(h, nx, pv, s), NEW p \in 1..Len(s), p = Len(s), p # 1
  PROVE  LET j == s[p] IN
         Represents([h EXCEPT !.q_tail = pv[j]], [nx EXCEPT ![pv[j]] = NULL], pv,
                    RemoveAt(s, p))
<1> DEFINE n == Len(s)
           j == s[p]
           t == RemoveAt(s, p)
           h2 == [h EXCEPT !.q_tail = pv[j]]
           nx2 == [nx EXCEPT ![pv[j]] = NULL]
           pv2 == pv
<1>1. /\ n \in Nat /\ \A k \in 1..n : s[k] \in Job
      /\ t \in Seq(Job) /\ Len(t) = n - 1
      /\ \A k \in 1..n - 1 : t[k] = IF k < p THEN s[k] ELSE s[k + 1]
  BY RemovalFacts, Zenon
<1>2. /\ h.q_head = s[1] /\ h.q_tail = s[n]
      /\ \A k, l \in 1..n : s[k] = s[l] => k = l
      /\ \A k \in 1..n : nx[s[k]] = IF k = n THEN NULL ELSE s[k + 1]
      /\ \A k \in 1..n : pv[s[k]] = IF k = 1 THEN NULL ELSE s[k - 1]
  <2>1. h.q_head = s[1] /\ h.q_tail = s[n]
    BY <1>1 DEF Represents
  <2>2. /\ \A k, l \in 1..n : s[k] = s[l] => k = l
        /\ \A k \in 1..n : nx[s[k]] = IF k = n THEN NULL ELSE s[k + 1]
        /\ \A k \in 1..n : pv[s[k]] = IF k = 1 THEN NULL ELSE s[k - 1]
    BY DEF Represents
  <2> QED BY <2>1, <2>2
<1>3. \A k, l \in 1..n - 1 : t[k] = t[l] => k = l
  BY RemovalFacts
<1> HIDE DEF t
<1>6. pv[j] = s[n - 1] /\ s[n - 1] \in Job
  BY <1>1, <1>2
<1>7. t[1] = s[1] /\ t[n - 1] = s[n - 1]
  BY <1>1
<1>8. h2["q_head"] = h.q_head /\ h2["q_tail"] = pv[j]
  BY DEF Fields
<1>4. /\ h2["q_head"] = IF n - 1 = 0 THEN NULL ELSE t[1]
      /\ h2["q_tail"] = IF n - 1 = 0 THEN NULL ELSE t[n - 1]
  BY <1>1, <1>2, <1>6, <1>7, <1>8
<1>5. ASSUME NEW k \in 1..n - 1
      PROVE  /\ nx2[t[k]] = IF k = n - 1 THEN NULL ELSE t[k + 1]
             /\ pv2[t[k]] = IF k = 1 THEN NULL ELSE t[k - 1]
  <2>1. t[k] = s[k] /\ k \in 1..n /\ k # n /\ s[k] \in Job
    <3>1. k < p /\ k \in 1..n
      BY <1>1
    <3> QED BY <1>1, <3>1
  <2>2. nx2[s[k]] = IF k = n - 1 THEN NULL ELSE s[k + 1]
    BY <1>1, <1>2, <1>6, <2>1
  <2>3. k # n - 1 => t[k + 1] = s[k + 1]
    BY <1>1
  <2>4. pv2[s[k]] = IF k = 1 THEN NULL ELSE s[k - 1]
    BY <1>2, <2>1
  <2>5. k # 1 => t[k - 1] = s[k - 1]
    BY <1>1
  <2> QED BY <2>1, <2>2, <2>3, <2>4, <2>5
<1> QED
  <2> HIDE DEF h2, nx2, pv2
  <2> Represents(h2, nx2, pv2, t)
    BY <1>1, <1>3, <1>4, <1>5 DEF Represents
  <2> QED BY DEF h2, nx2, pv2, t, j

\* job_remove between two neighbours.
LEMMA RemoveMiddleRepresents ==
  ASSUME NEW s \in Seq(Job), NEW h \in [Fields -> Ptr],
         NEW nx \in [Job -> Ptr \cup {Wild}], NEW pv \in [Job -> Ptr \cup {Wild}],
         Represents(h, nx, pv, s), NEW p \in 1..Len(s), p # Len(s), p # 1
  PROVE  LET j == s[p] IN
         Represents(h, [nx EXCEPT ![pv[j]] = nx[j]], [pv EXCEPT ![nx[j]] = pv[j]],
                    RemoveAt(s, p))
<1> DEFINE n == Len(s)
           j == s[p]
           t == RemoveAt(s, p)
           h2 == h
           nx2 == [nx EXCEPT ![pv[j]] = nx[j]]
           pv2 == [pv EXCEPT ![nx[j]] = pv[j]]
<1>1. /\ n \in Nat /\ \A k \in 1..n : s[k] \in Job
      /\ t \in Seq(Job) /\ Len(t) = n - 1
      /\ \A k \in 1..n - 1 : t[k] = IF k < p THEN s[k] ELSE s[k + 1]
  BY RemovalFacts, Zenon
<1>2. /\ h.q_head = s[1] /\ h.q_tail = s[n]
      /\ \A k, l \in 1..n : s[k] = s[l] => k = l
      /\ \A k \in 1..n : nx[s[k]] = IF k = n THEN NULL ELSE s[k + 1]
      /\ \A k \in 1..n : pv[s[k]] = IF k = 1 THEN NULL ELSE s[k - 1]
  <2>1. h.q_head = s[1] /\ h.q_tail = s[n]
    BY <1>1 DEF Represents
  <2>2. /\ \A k, l \in 1..n : s[k] = s[l] => k = l
        /\ \A k \in 1..n : nx[s[k]] = IF k = n THEN NULL ELSE s[k + 1]
        /\ \A k \in 1..n : pv[s[k]] = IF k = 1 THEN NULL ELSE s[k - 1]
    BY DEF Represents
  <2> QED BY <2>1, <2>2
<1>3. \A k, l \in 1..n - 1 : t[k] = t[l] => k = l
  BY RemovalFacts, Zenon
<1> HIDE DEF t
<1>6. /\ pv[j] = s[p - 1] /\ s[p - 1] \in Job /\ p - 1 \in 1..n
      /\ nx[j] = s[p + 1] /\ s[p + 1] \in Job /\ p + 1 \in 1..n
  BY <1>1, <1>2
<1>7. n > 2 /\ t[1] = s[1] /\ t[n - 1] = s[n]
  <2>1. 1 < p /\ p < n
    BY <1>1
  <2> HIDE DEF n
  <2>2. n > 2 /\ 1 \in 1..n - 1 /\ n - 1 \in 1..n - 1 /\ ~ (n - 1 < p) /\ (n - 1) + 1 = n
    BY <1>1, <2>1
  <2>3. t[1] = s[1]
    BY <1>1, <2>1, <2>2
  <2>4. t[n - 1] = s[(n - 1) + 1]
    BY <1>1, <2>2
  <2> QED BY <2>2, <2>3, <2>4
<1>4. /\ h2["q_head"] = IF n - 1 = 0 THEN NULL ELSE t[1]
      /\ h2["q_tail"] = IF n - 1 = 0 THEN NULL ELSE t[n - 1]
  BY <1>1, <1>2, <1>7
<1>5. ASSUME NEW k \in 1..n - 1
      PROVE  /\ nx2[t[k]] = IF k = n - 1 THEN NULL ELSE t[k + 1]
             /\ pv2[t[k]] = IF k = 1 THEN NULL ELSE t[k - 1]
  <2> DEFINE m == IF k < p THEN k ELSE k + 1
  <2>1. t[k] = s[m] /\ m \in 1..n /\ s[m] \in Job
    BY <1>1
  <2>2. nx2[s[m]] = IF m = p - 1 THEN s[p + 1] ELSE IF m = n THEN NULL ELSE s[m + 1]
    <3> HIDE DEF m
    <3> QED BY <1>1, <1>2, <1>6, <2>1
  <2>3. pv2[s[m]] = IF m = p + 1 THEN s[p - 1] ELSE IF m = 1 THEN NULL ELSE s[m - 1]
    <3> HIDE DEF m, n
    <3>1. s[m] = s[p + 1] <=> m = p + 1
      BY <1>2, <1>6, <2>1
    <3>2. pv2[s[m]] = IF s[m] = s[p + 1] THEN s[p - 1] ELSE pv[s[m]]
      BY <1>6, <2>1
    <3>3. pv[s[m]] = IF m = 1 THEN NULL ELSE s[m - 1]
      BY <1>2, <2>1
    <3> QED BY <3>1, <3>2, <3>3
  <2>4. k # n - 1 => t[k + 1] = IF k + 1 < p THEN s[k + 1] ELSE s[(k + 1) + 1]
    BY <1>1
  <2>5. k # 1 => t[k - 1] = IF k - 1 < p THEN s[k - 1] ELSE s[(k - 1) + 1]
    BY <1>1
  <2>6. CASE k < p
    <3>1. m = k
      BY <2>6
    <3> HIDE DEF m
    <3> QED BY <1>1, <2>1, <2>2, <2>3, <2>4, <2>5, <2>6, <3>1
  <2>7. CASE ~ (k < p)
    <3>1. m = k + 1
      BY <2>7
    <3> HIDE DEF m
    <3> QED BY <1>1, <2>1, <2>2, <2>3, <2>4, <2>5, <2>7, <3>1
  <2> QED BY <2>6, <2>7
<1> QED
  <2> HIDE DEF h2, nx2, pv2
  <2> Represents(h2, nx2, pv2, t)
    BY <1>1, <1>3, <1>4, <1>5 DEF Represents
  <2> QED BY DEF h2, nx2, pv2, t, j
-----------------------------------------------------------------------------
(***************************************************************************)
(* The invariant is inductive.                                             *)
(***************************************************************************)
\* queue_init leaves an empty list that nobody reads or writes.
LEMMA InitIInv == Init => IInv
<1> SUFFICES ASSUME Init PROVE IInv
  OBVIOUS
<1>1. TypeOK
  BY JobQueueAssumption DEF Init, TypeOK, NotRead, Job, Ptr, Fields, Thread
<1>2. Locking
  BY JobQueueAssumption DEF Init, Locking, Thread
<1>3. Membership
  BY JobQueueAssumption DEF Init, Membership, Queued, Job, Thread
<1>4. Linked
  BY DEF Init, Linked, Represents, Fields
<1>5. Walking
  BY JobQueueAssumption DEF Init, Walking, Thread
<1> QED BY <1>1, <1>2, <1>3, <1>4, <1>5 DEF IInv

\* thr_fn1 takes the lock: the list stays as it is and nobody else is in it.
LEMMA WLockIInv == IInv /\ WLock => IInv'
<1> SUFFICES ASSUME IInv, WLock PROVE IInv'
  OBVIOUS
<1> USE DEF IInv, WLock, WrLock, Goto, list, loop1, loop2, finding
<1>1. TypeOK'
  BY Zenon DEF TypeOK
<1>2. Locking'
  BY JobQueueAssumption DEF TypeOK, Locking, Thread
<1>3. Membership'
  BY DEF TypeOK, Membership, Queued, Thread
<1>4. Linked'
  BY DEF Linked
<1>5. Walking'
  BY JobQueueAssumption DEF TypeOK, Walking, After, Thread
<1> QED BY <1>1, <1>2, <1>3, <1>4, <1>5

\* One store to q_head or q_tail changes nothing a lock holder relies on.
LEMMA WStoreIInv == ASSUME IInv, NEW f \in Fields, WStore(f) PROVE IInv'
<1> USE DEF IInv, WStore, lock, loop1, loop2, finding
<1>1. TypeOK'
  BY DEF TypeOK
<1>2. Locking'
  BY DEF Locking
<1>3. Membership'
  BY DEF Membership, Queued
<1>4. Linked'
  BY DEF Linked
<1>5. Walking'
  BY DEF Walking, After
<1> QED BY <1>1, <1>2, <1>3, <1>4, <1>5

\* thr_fn1 lets go of the lock and moves to its next round.
LEMMA WUnlockIInv == IInv /\ WUnlock => IInv'
<1> SUFFICES ASSUME IInv, WUnlock PROVE IInv'
  OBVIOUS
<1> USE DEF IInv, WUnlock, Unlock, Goto, list, loop2, finding
<1>1. TypeOK'
  <2>1. i' \in Job /\ phase' \in {"add", "remove"}
    BY JobQueueAssumption DEF TypeOK, NextRound, Advance, Job
  <2>2. pc' \in [Thread -> {"wrlock", "link", "store", "test", "rdlock", "walk",
                          "idle", "done"}]
    BY SMTT(20) DEF TypeOK, NextRound, Advance
  <2>3. writer' \in {"thr_fn1", NULL} /\ readers' \subseteq Thread
    BY DEF TypeOK
  <2> QED BY <2>1, <2>2, <2>3 DEF TypeOK
<1>2. Locking'
  <2>1. pc'["thr_fn1"] \in {"wrlock", "done"} /\ \A t \in Thread \ {"thr_fn1"} : pc'[t] = pc[t]
    BY DEF TypeOK, NextRound, Advance, Thread
  <2>2. writer' = NULL /\ readers' = {} /\ readers = {}
    BY JobQueueAssumption DEF Locking, Thread
  <2>3. \A t \in Thread : pc'[t] # "walk"
    BY <2>1, <2>2 DEF Locking
  <2> QED BY <2>1, <2>2, <2>3, JobQueueAssumption, Zenon DEF Locking, Thread
<1>3. Membership'
  <2>1. \A j \in Job : Queued(queue, j) <=> IF phase = "add" THEN j <= i ELSE j > i
    BY DEF Membership, TypeOK, Job
  <2>2. CASE i < NJOBS - 1
    <3>1. /\ i' = i + 1 /\ phase' = phase /\ pc'["thr_fn1"] = "wrlock"
      BY <2>2 DEF NextRound, Advance, TypeOK, Thread
    <3> QED BY <2>1, <3>1 DEF Membership, TypeOK, Job, Queued
  <2>3. CASE ~ (i < NJOBS - 1)
    <3>1. /\ i' = 0 /\ phase' = "remove"
          /\ pc'["thr_fn1"] = IF phase = "remove" THEN "done" ELSE "wrlock"
      BY <2>3 DEF NextRound, Advance, TypeOK, Thread
    <3>2. i = NJOBS - 1
      BY <2>3, JobQueueAssumption DEF TypeOK, Job
    <3>3. CASE phase = "remove"
      <4>1. \A j \in Job : ~ Queued(queue, j)
        BY <2>1, <3>2, <3>3, JobQueueAssumption DEF Job
      <4>2. queue = <<>>
        BY <4>1 DEF Queued, TypeOK
      <4> QED BY <3>1, <3>3, <4>2 DEF Membership
    <3>4. CASE phase # "remove"
      <4>1. phase = "add"
        BY <3>4 DEF TypeOK
      <4>2. \A j \in Job : Queued(queue, j) /\ j >= 0
        BY <2>1, <3>2, <4>1, JobQueueAssumption DEF Job
      <4> QED BY <3>1, <3>4, <4>2 DEF Membership, Queued, Job
    <3> QED BY <3>3, <3>4
  <2> QED BY <2>2, <2>3
<1>4. Linked'
  BY DEF Linked
<1>5. Walking'
  <2>1. readers = {}
    BY JobQueueAssumption DEF Locking, Thread
  <2>2. \A t \in Thread : pc[t] # "walk"
    BY <2>1 DEF Locking
  <2>3. \A t \in Thread : pc'[t] # "walk"
    BY <2>2 DEF NextRound, Advance, TypeOK
  <2> QED BY <2>3, Zenon DEF Walking, Thread
<1> QED BY <1>1, <1>2, <1>3, <1>4, <1>5

\* thr_fn2's unlocked loads and its test touch nothing shared.
LEMMA TestIInv ==
  IInv /\ (TestDone \/ \E f \in Fields : TLoad(f)) => IInv'
<1> USE DEF IInv, Goto, list, lock, loop1, loop2, finding
<1>1. ASSUME IInv, NEW f \in Fields, TLoad(f) PROVE IInv'
  <2>1. TypeOK'
    BY <1>1 DEF TLoad, TypeOK
  <2>2. Locking' /\ Membership' /\ Linked'
    BY <1>1 DEF TLoad, Locking, Membership, Queued, Linked
  <2>3. Walking'
    BY <1>1, Zenon DEF TLoad, Walking, After
  <2> QED BY <2>1, <2>2, <2>3
<1>2. ASSUME IInv, TestDone PROVE IInv'
  <2>1. TypeOK'
    BY <1>2, Zenon DEF TestDone, TypeOK
  <2>2. pc'["thr_fn2"] \in {"rdlock", "done"} /\ \A t \in Thread \ {"thr_fn2"} : pc'[t] = pc[t]
    BY <1>2 DEF TestDone, TypeOK, Thread
  <2>3. {t \in Thread : pc'[t] = "walk"} = {t \in Thread : pc[t] = "walk"}
    BY <1>2, <2>2 DEF TestDone
  <2>4. Locking'
    BY <1>2, <2>2, <2>3, JobQueueAssumption DEF TestDone, Locking, Thread
  <2>5. Membership' /\ Linked' /\ Walking'
    BY <1>2, <2>2, JobQueueAssumption DEF TestDone, Membership, Queued, Linked, Walking, After, Thread
  <2> QED BY <2>1, <2>4, <2>5
<1> QED BY <1>1, <1>2

\* While thr_fn1 is between lock and unlock nobody walks the list.
LEMMA WriterAlone ==
  ASSUME IInv, pc["thr_fn1"] \in {"link", "store"}
  PROVE  \A t \in Thread : pc[t] # "walk"
BY JobQueueAssumption DEF IInv, Locking, Thread

\* Which jobs are queued after an insertion, an append and a removal.
LEMMA QueuedInsert ==
  ASSUME NEW s \in Seq(Job), NEW j \in Job
  PROVE  /\ <<j>> \o s \in Seq(Job)
         /\ \A m \in Job : Queued(<<j>> \o s, m) <=> Queued(s, m) \/ m = j
<1> DEFINE t == <<j>> \o s
<1>1. /\ t \in Seq(Job) /\ Len(t) = Len(s) + 1 /\ Len(s) \in Nat /\ t[1] = j
      /\ \A k \in 2..Len(t) : t[k] = s[k - 1]
      /\ \A k \in 1..Len(s) : s[k] = t[k + 1]
  OBVIOUS
<1> HIDE DEF t
<1>2. ASSUME NEW m \in Job PROVE Queued(t, m) <=> Queued(s, m) \/ m = j
  <2>1. ASSUME Queued(t, m), m # j PROVE Queued(s, m)
    <3>1. PICK k \in 1..Len(t) : t[k] = m
      BY <2>1 DEF Queued
    <3>2. k - 1 \in 1..Len(s) /\ s[k - 1] = m
      BY <1>1, <2>1, <3>1
    <3> QED BY <3>2 DEF Queued
  <2>2. ASSUME Queued(s, m) PROVE Queued(t, m)
    <3>1. PICK k \in 1..Len(s) : s[k] = m
      BY <2>2 DEF Queued
    <3>2. k + 1 \in 1..Len(t) /\ t[k + 1] = m
      BY <1>1, <3>1
    <3> QED BY <3>2 DEF Queued
  <2>3. Queued(t, j)
    BY <1>1 DEF Queued
  <2> QED BY <2>1, <2>2, <2>3
<1> QED BY <1>1, <1>2 DEF t

\* An append puts one more job into the queue.
LEMMA QueuedAppend ==
  ASSUME NEW s \in Seq(Job), NEW j \in Job
  PROVE  /\ Append(s, j) \in Seq(Job)
         /\ \A m \in Job : Queued(Append(s, j), m) <=> Queued(s, m) \/ m = j
<1> DEFINE t == Append(s, j)
<1>1. /\ t \in Seq(Job) /\ Len(t) = Len(s) + 1 /\ Len(s) \in Nat /\ t[Len(s) + 1] = j
      /\ \A k \in 1..Len(s) : t[k] = s[k]
  OBVIOUS
<1> HIDE DEF t
<1>2. \A m \in Job : Queued(t, m) <=> Queued(s, m) \/ m = j
  BY <1>1 DEF Queued
<1> QED BY <1>1, <1>2 DEF t

\* A removal takes just the one job out of the queue.
LEMMA QueuedRemove ==
  ASSUME NEW s \in Seq(Job), NEW p \in 1..Len(s),
         \A k, l \in 1..Len(s) : s[k] = s[l] => k = l
  PROVE  /\ RemoveAt(s, p) \in Seq(Job)
         /\ \A m \in Job : Queued(RemoveAt(s, p), m) <=> Queued(s, m) /\ m # s[p]
<1> DEFINE t == RemoveAt(s, p)
<1>1. /\ t \in Seq(Job) /\ Len(t) = Len(s) - 1 /\ Len(s) \in Nat
      /\ \A k \in 1..Len(s) - 1 : t[k] = IF k < p THEN s[k] ELSE s[k + 1]
  <2>1. Len(s) \in Nat
    OBVIOUS
  <2>2. /\ t \in Seq(Job) /\ Len(t) = Len(s) - 1
        /\ \A k \in 1..Len(s) - 1 : t[k] = IF k < p THEN s[k] ELSE s[k + 1]
    BY RemoveAtElements
  <2> QED BY <2>1, <2>2
<1> HIDE DEF t
<1>2. ASSUME NEW m \in Job PROVE Queued(t, m) <=> Queued(s, m) /\ m # s[p]
  <2>1. ASSUME Queued(t, m) PROVE Queued(s, m) /\ m # s[p]
    <3>1. PICK k \in 1..Len(s) - 1 : t[k] = m
      BY <1>1, <2>1 DEF Queued
    <3> DEFINE l == IF k < p THEN k ELSE k + 1
    <3>2. l \in 1..Len(s) /\ l # p /\ s[l] = m
      BY <1>1, <3>1
    <3> HIDE DEF l
    <3> QED BY <3>2 DEF Queued
  <2>2. ASSUME Queued(s, m), m # s[p] PROVE Queued(t, m)
    <3>1. PICK k \in 1..Len(s) : s[k] = m
      BY <2>2 DEF Queued
    <3>2. k # p
      BY <2>2, <3>1
    <3>3. CASE k < p
      <4>1. k \in 1..Len(t) /\ t[k] = m
        BY <1>1, <3>1, <3>3
      <4> QED BY <4>1 DEF Queued
    <3>4. CASE k > p
      <4>1. k - 1 \in 1..Len(t) /\ ~ (k - 1 < p) /\ (k - 1) + 1 = k
        BY <1>1, <3>1, <3>4
      <4>2. t[k - 1] = m
        BY <1>1, <3>1, <4>1
      <4> QED BY <4>1, <4>2 DEF Queued
    <3> QED BY <1>1, <3>2, <3>3, <3>4
  <2> QED BY <2>1, <2>2
<1> QED BY <1>1, <1>2 DEF t

\* Whichever of its three branches job_remove takes, the list loses that job.
LEMMA JobRemoveRepresents ==
  ASSUME IInv, q = target, NEW p \in 1..Len(queue), JobRemove(queue[p]),
         queue' = RemoveAt(queue, p)
  PROVE  /\ Linked' /\ target' \in [Fields -> Ptr]
         /\ jNext' \in [Job -> Ptr \cup {Wild}] /\ jPrev' \in [Job -> Ptr \cup {Wild}]
<1> DEFINE j == queue[p]
           n == Len(queue)
<1>1. /\ queue \in Seq(Job) /\ target \in [Fields -> Ptr]
      /\ jNext \in [Job -> Ptr \cup {Wild}] /\ jPrev \in [Job -> Ptr \cup {Wild}]
      /\ Represents(target, jNext, jPrev, queue)
  BY DEF IInv, TypeOK, Linked
<1>2. n \in Nat /\ n # 0 /\ \A k \in 1..n : queue[k] \in Job
  BY <1>1
<1>3. /\ target.q_head = queue[1] /\ target.q_tail = queue[n]
      /\ \A k, l \in 1..n : queue[k] = queue[l] => k = l
      /\ jNext[j] = IF p = n THEN NULL ELSE queue[p + 1]
      /\ jPrev[j] = IF p = 1 THEN NULL ELSE queue[p - 1]
  BY <1>1, <1>2 DEF Represents
<1>4. (j = q.q_head <=> p = 1) /\ (j = q.q_tail <=> p = n)
  BY <1>2, <1>3
<1>5. jNext[j] \in Ptr /\ jPrev[j] \in Ptr /\ (p # 1 => jPrev[j] \in Job)
  BY <1>2, <1>3 DEF Ptr
<1>6. CASE p = 1
  <2>1. RemoveHead(j)
    BY <1>4, <1>6 DEF JobRemove, RemoveTail, RemoveMiddle
  <2>2. Linked'
    BY <1>1, <1>6, <2>1, RemoveHeadRepresents, Zenon DEF RemoveHead, Linked
  <2>3. target' \in [Fields -> Ptr]
    <3>1. target.q_tail \in Ptr /\ NULL \in Ptr
      BY <1>1 DEF Fields, Ptr
    <3>2. PICK tail \in Ptr : target' = [q_head |-> jNext[j], q_tail |-> tail]
      BY <2>1, <3>1 DEF RemoveHead
    <3> QED BY <1>5, <3>2 DEF Fields
  <2>4. jNext' \in [Job -> Ptr \cup {Wild}] /\ jPrev' \in [Job -> Ptr \cup {Wild}]
    BY <1>1, <2>1, Zenon DEF RemoveHead, Ptr
  <2> QED BY <2>2, <2>3, <2>4
<1>7. CASE p # 1 /\ p = n
  <2>1. RemoveTail(j)
    BY <1>4, <1>7 DEF JobRemove, RemoveHead, RemoveMiddle
  <2>2. Linked'
    BY <1>1, <1>7, <2>1, RemoveTailRepresents, Zenon DEF RemoveTail, Linked
  <2> QED BY <1>1, <1>5, <2>1, <2>2, Zenon DEF RemoveTail, Fields, Ptr
<1>8. CASE p # 1 /\ p # n
  <2>1. RemoveMiddle(j)
    BY <1>4, <1>8 DEF JobRemove, RemoveHead, RemoveTail
  <2>2. Linked'
    BY <1>1, <1>8, <2>1, RemoveMiddleRepresents, Zenon DEF RemoveMiddle, Linked
  <2> QED BY <1>1, <1>5, <2>1, <2>2, Zenon DEF RemoveMiddle
<1> QED BY <1>6, <1>7, <1>8

\* What is left to show of a step on the list once the list itself is right.
LEMMA WLinkFrame ==
  ASSUME IInv, WLink, Linked', target' \in [Fields -> Ptr],
         jNext' \in [Job -> Ptr \cup {Wild}], jPrev' \in [Job -> Ptr \cup {Wild}],
         queue' \in Seq(Job),
         \A j \in Job : Queued(queue', j) <=> IF phase = "add" THEN j <= i ELSE j > i
  PROVE  IInv'
<1>1. /\ pc["thr_fn1"] = "link" /\ pc' = [pc EXCEPT !["thr_fn1"] = "store"]
      /\ UNCHANGED <<q, writer, readers, phase, i, want, found, jp, seen, printed, line>>
      /\ short' \in BOOLEAN
  BY DEF WLink, Goto, lock, loop1, finding
<1>2. TypeOK'
  BY <1>1, Zenon DEF IInv, TypeOK
<1>3. /\ pc'["thr_fn1"] = "store" /\ \A t \in Thread \ {"thr_fn1"} : pc'[t] = pc[t]
  BY <1>1 DEF IInv, TypeOK, Thread
<1>4. \A t \in Thread : pc[t] # "walk" /\ pc'[t] # "walk"
  BY <1>1, <1>3, WriterAlone
<1>5. Locking'
  BY <1>1, <1>3, <1>4, JobQueueAssumption DEF IInv, Locking, Thread
<1>6. Membership'
  BY <1>1, <1>3 DEF IInv, TypeOK, Membership, Job
<1>7. Walking'
  BY <1>4, Zenon DEF Walking, Thread
<1> QED BY <1>2, <1>5, <1>6, <1>7 DEF IInv

\* job_insert, job_append and job_remove keep the list well formed.
LEMMA WLinkIInv == IInv /\ WLink => IInv'
<1> SUFFICES ASSUME IInv, WLink PROVE IInv'
  OBVIOUS
<1> USE DEF IInv
<1>1. /\ q = target /\ pc["thr_fn1"] = "link" /\ i \in Job /\ phase \in {"add", "remove"}
      /\ pc' = [pc EXCEPT !["thr_fn1"] = "store"]
      /\ q' = q /\ UNCHANGED <<lock, loop1, finding, jp, seen, printed, line>>
  BY DEF WLink, Goto, Locking, TypeOK
<1>2. /\ queue \in Seq(Job) /\ target \in [Fields -> Ptr]
      /\ jNext \in [Job -> Ptr \cup {Wild}] /\ jPrev \in [Job -> Ptr \cup {Wild}]
      /\ Represents(target, jNext, jPrev, queue)
  BY DEF TypeOK, Linked
<1>3. \A j \in Job : Queued(queue, j) <=> IF phase = "add" THEN j < i ELSE j >= i
  BY <1>1 DEF Membership, Job
<1>4. CASE phase = "add" /\ i % 2 = 1
  <2>1. JobInsert(i)
    BY <1>1, <1>4 DEF WLink
  <2>2. ~ Queued(queue, i)
    BY <1>1, <1>3, <1>4 DEF Job
  <2>3. Linked'
    BY <1>1, <1>2, <2>1, <2>2, InsertRepresents, Zenon DEF JobInsert, Linked
  <2>4. target' \in [Fields -> Ptr] /\ jNext' \in [Job -> Ptr \cup {Wild}]
        /\ jPrev' \in [Job -> Ptr \cup {Wild}]
    BY <1>1, <1>2, <2>1 DEF JobInsert, Fields, Ptr
  <2>5. /\ queue' \in Seq(Job)
        /\ \A j \in Job : Queued(queue', j) <=> Queued(queue, j) \/ j = i
    BY <1>1, <1>2, <2>1, QueuedInsert DEF JobInsert
  <2>6. \A j \in Job : Queued(queue', j) <=> IF phase = "add" THEN j <= i ELSE j > i
    BY <1>1, <1>3, <1>4, <2>5 DEF Job
  <2> QED BY <2>3, <2>4, <2>5, <2>6, WLinkFrame
<1>5. CASE phase = "add" /\ i % 2 # 1
  <2>1. JobAppend(i)
    <3>1. i % 2 = 0
      BY <1>1, <1>5 DEF Job
    <3> QED BY <1>5, <3>1 DEF WLink
  <2>2. ~ Queued(queue, i)
    BY <1>1, <1>3, <1>5 DEF Job
  <2>3. Linked'
    BY <1>1, <1>2, <2>1, <2>2, AppendRepresents, Zenon DEF JobAppend, Linked
  <2>4. target' \in [Fields -> Ptr] /\ jNext' \in [Job -> Ptr \cup {Wild}]
        /\ jPrev' \in [Job -> Ptr \cup {Wild}]
    BY <1>1, <1>2, <2>1 DEF JobAppend, Fields, Ptr
  <2>5. /\ queue' \in Seq(Job)
        /\ \A j \in Job : Queued(queue', j) <=> Queued(queue, j) \/ j = i
    BY <1>1, <1>2, <2>1, QueuedAppend DEF JobAppend
  <2>6. \A j \in Job : Queued(queue', j) <=> IF phase = "add" THEN j <= i ELSE j > i
    BY <1>1, <1>3, <1>5, <2>5 DEF Job
  <2> QED BY <2>3, <2>4, <2>5, <2>6, WLinkFrame
<1>6. CASE phase = "remove"
  <2>1. JobRemove(i)
    BY <1>6 DEF WLink
  <2> DEFINE p == CHOOSE k \in 1..Len(queue) : queue[k] = i
  <2>2. Queued(queue, i)
    BY <1>1, <1>3, <1>6 DEF Job
  <2>3. p \in 1..Len(queue) /\ queue[p] = i
    BY <2>2 DEF Queued
  <2>4. queue' = RemoveAt(queue, p)
    BY <2>1 DEF JobRemove
  <2> HIDE DEF p
  <2>5. Linked' /\ target' \in [Fields -> Ptr]
        /\ jNext' \in [Job -> Ptr \cup {Wild}] /\ jPrev' \in [Job -> Ptr \cup {Wild}]
    BY <1>1, <1>2, <2>1, <2>3, <2>4, JobRemoveRepresents
  <2>6. /\ queue' \in Seq(Job)
        /\ \A j \in Job : Queued(queue', j) <=> Queued(queue, j) /\ j # i
    <3>1. \A k, l \in 1..Len(queue) : queue[k] = queue[l] => k = l
      BY <1>2 DEF Represents
    <3> QED BY <1>2, <2>3, <2>4, <3>1, QueuedRemove
  <2>7. \A j \in Job : Queued(queue', j) <=> IF phase = "add" THEN j <= i ELSE j > i
    BY <1>1, <1>3, <1>6, <2>6 DEF Job
  <2> QED BY <2>5, <2>6, <2>7, WLinkFrame
<1> QED BY <1>1, <1>4, <1>5, <1>6

\* A step of a reader t: the list, the writer and the other readers stay put.
LEMMA ReaderLocking ==
  ASSUME IInv, NEW t \in Thread \ {"thr_fn1"}, writer = NULL \/ t \in readers,
         NEW label, (t = "thr_fn2" /\ label \in {"walk", "test"}) \/
                    (t \in Finders /\ label \in {"walk", "idle"}),
         Goto(t, label), UNCHANGED <<q, target>>, UNCHANGED writer,
         readers' = IF label = "walk" THEN readers \cup {t} ELSE readers \ {t}
  PROVE  Locking'
<1>1. pc'[t] = label /\ \A u \in Thread \ {t} : pc'[u] = pc[u]
  BY DEF Goto, IInv, TypeOK
<1>2. pc'["thr_fn1"] = pc["thr_fn1"] /\ "thr_fn1" \in Thread /\ "thr_fn2" \in Thread
  BY <1>1 DEF Thread
<1>3. writer = NULL
  BY JobQueueAssumption DEF IInv, Locking, Thread
<1>4. readers' = {u \in Thread : pc'[u] = "walk"}
  BY <1>1 DEF IInv, Locking
<1>5. /\ pc'["thr_fn2"] \in {"test", "rdlock", "walk", "done"}
      /\ \A u \in Finders : pc'[u] \in {"idle", "walk"}
  BY <1>1, <1>2, JobQueueAssumption, Zenon DEF IInv, Locking, Thread
<1> QED BY <1>2, <1>3, <1>4, <1>5 DEF IInv, Locking

\* A reader's steps leave the list and thr_fn1 alone.
LEMMA ReaderFrame ==
  ASSUME IInv, UNCHANGED list, UNCHANGED loop1, pc'["thr_fn1"] = pc["thr_fn1"]
  PROVE  Membership' /\ Linked'
BY DEF IInv, list, loop1, Membership, Queued, Linked

\* Where j_next leads a reader that stands at position k + 1.
LEMMA NextAfter ==
  ASSUME IInv, NEW k \in 0..Len(queue), After(k) # NULL
  PROVE  /\ k + 1 \in 1..Len(queue) /\ queue[k + 1] \in Job /\ After(k) = queue[k + 1]
         /\ jNext[After(k)] = After(k + 1) /\ After(k + 1) \in Ptr
<1>1. queue \in Seq(Job) /\ Len(queue) \in Nat
  BY DEF IInv, TypeOK
<1>2. k + 1 \in 1..Len(queue) /\ After(k) = queue[k + 1] /\ queue[k + 1] \in Job
  BY <1>1 DEF After
<1>3. jNext[queue[k + 1]] = IF k + 1 = Len(queue) THEN NULL ELSE queue[(k + 1) + 1]
  BY <1>2 DEF IInv, Linked, Represents
<1>4. After(k + 1) \in Ptr
  BY <1>1, <1>2 DEF After, Ptr
<1> QED BY <1>2, <1>3, <1>4 DEF After

\* A reader starts at the head, which is position 1.
LEMMA HeadAfter == ASSUME IInv, q = target PROVE q.q_head = After(0) /\ q.q_head \in Ptr
<1>1. queue \in Seq(Job) /\ Len(queue) \in Nat
  BY DEF IInv, TypeOK
<1> QED BY <1>1 DEF IInv, Linked, Represents, After, Ptr

\* traverse_jobs takes the lock at the head of the list.
LEMMA TLockIInv == IInv /\ TLock => IInv'
<1> SUFFICES ASSUME IInv, TLock PROVE IInv'
  OBVIOUS
<1>1. /\ writer = NULL /\ readers' = readers \cup {"thr_fn2"} /\ writer' = writer
      /\ Goto("thr_fn2", "walk") /\ UNCHANGED <<list, loop1, finding, seen, line, short>>
      /\ jp' = [jp EXCEPT !["thr_fn2"] = q.q_head] /\ printed' = <<>>
  BY DEF TLock, RdLock
<1>2. pc'["thr_fn2"] = "walk" /\ \A t \in Thread \ {"thr_fn2"} : pc'[t] = pc[t]
  BY <1>1 DEF Goto, IInv, TypeOK, Thread
<1>3. q = target
  BY <1>1, JobQueueAssumption DEF IInv, Locking, Thread
<1>4. q.q_head = After(0) /\ q.q_head \in Ptr
  BY <1>3, HeadAfter
<1>5. TypeOK'
  BY <1>1, <1>4 DEF IInv, TypeOK, Goto, list, loop1, finding, Thread
<1>6. Locking'
  BY <1>1, JobQueueAssumption, ReaderLocking DEF Thread, list
<1>7. Membership' /\ Linked'
  BY <1>1, <1>2, ReaderFrame DEF Thread
<1>8. Walking'
  <2>1. queue \in Seq(Job) /\ 0 \in 0..Len(queue) /\ SubSeq(queue, 1, 0) = <<>>
    BY DEF IInv, TypeOK
  <2>2. jp'["thr_fn2"] = After(0) /\ \A t \in Finders : jp'[t] = jp[t] /\ pc'[t] = pc[t]
    BY <1>1, <1>2, <1>4, JobQueueAssumption DEF IInv, TypeOK, Thread
  <2>3. queue' = queue /\ want' = want
    BY <1>1 DEF list, finding
  <2>4. \A m : After(m)' = After(m)
    BY <2>3 DEF After
  <2> HIDE DEF After
  <2>5. \E m \in 0..Len(queue') : printed' = SubSeq(queue', 1, m) /\ jp'["thr_fn2"] = After(m)'
    BY <1>1, <2>1, <2>2, <2>3, <2>4
  <2>6. \A t \in Finders : pc'[t] = "walk" =>
          /\ want'[t] \in Job
          /\ \E m \in 0..Len(queue') : jp'[t] = After(m)' /\ \A l \in 1..m : queue'[l] # want'[t]
    BY <2>2, <2>3, <2>4 DEF IInv, Walking
  <2> QED BY <2>5, <2>6 DEF Walking
<1> QED BY <1>5, <1>6, <1>7, <1>8 DEF IInv

\* One round of the loop of traverse_jobs prints the next job of the queue.
LEMMA TWalkIInv == IInv /\ TWalk => IInv'
<1> SUFFICES ASSUME IInv, TWalk PROVE IInv'
  OBVIOUS
<1>1. /\ pc["thr_fn2"] = "walk" /\ jp["thr_fn2"] # NULL
      /\ UNCHANGED <<list, lock, loop1, finding, pc, seen, line, short>>
      /\ jp' = [jp EXCEPT !["thr_fn2"] = jNext[jp["thr_fn2"]]]
      /\ printed' = Append(printed, jp["thr_fn2"])
  BY DEF TWalk
<1>2. PICK k \in 0..Len(queue) : printed = SubSeq(queue, 1, k) /\ jp["thr_fn2"] = After(k)
  BY <1>1 DEF IInv, Walking
<1>3. /\ k + 1 \in 1..Len(queue) /\ queue[k + 1] \in Job /\ After(k) = queue[k + 1]
      /\ jNext[After(k)] = After(k + 1) /\ After(k + 1) \in Ptr
  BY <1>1, <1>2, NextAfter, Zenon
<1>4. TypeOK'
  BY <1>1, <1>2, <1>3 DEF IInv, TypeOK, list, lock, loop1, finding, Thread
<1>5. Locking' /\ Membership' /\ Linked'
  BY <1>1 DEF IInv, list, lock, loop1, Locking, Membership, Queued, Linked
<1>6. Walking'
  <2>1. printed' = SubSeq(queue, 1, k + 1)
    BY <1>1, <1>2, <1>3 DEF IInv, TypeOK
  <2>2. jp'["thr_fn2"] = After(k + 1) /\ \A t \in Finders : jp'[t] = jp[t]
    BY <1>1, <1>2, <1>3, JobQueueAssumption DEF IInv, TypeOK, Thread
  <2>3. queue' = queue /\ want' = want /\ pc' = pc
    BY <1>1 DEF list, finding
  <2>4. k + 1 \in 0..Len(queue)
    BY <1>3
  <2>5. \A m : After(m)' = After(m)
    BY <2>3 DEF After
  <2> HIDE DEF After
  <2>6. \E m \in 0..Len(queue') : printed' = SubSeq(queue', 1, m) /\ jp'["thr_fn2"] = After(m)'
    BY <2>1, <2>2, <2>3, <2>4, <2>5
  <2>7. \A t \in Finders : pc'[t] = "walk" =>
          /\ want'[t] \in Job
          /\ \E m \in 0..Len(queue') : jp'[t] = After(m)' /\ \A l \in 1..m : queue'[l] # want'[t]
    BY <2>2, <2>3, <2>5 DEF IInv, Walking
  <2> QED BY <2>6, <2>7 DEF Walking
<1> QED BY <1>4, <1>5, <1>6 DEF IInv

\* The end of traverse_jobs.
LEMMA TUnlockIInv == IInv /\ TUnlock => IInv'
<1> SUFFICES ASSUME IInv, TUnlock PROVE IInv'
  OBVIOUS
<1>1. /\ pc["thr_fn2"] = "walk" /\ Goto("thr_fn2", "test")
      /\ UNCHANGED <<list, loop1, finding, jp, printed>>
      /\ line' = printed /\ seen' = NotRead /\ short' \in BOOLEAN
  BY DEF TUnlock
<1>2. pc'["thr_fn2"] = "test" /\ \A t \in Thread \ {"thr_fn2"} : pc'[t] = pc[t]
  BY <1>1 DEF Goto, IInv, TypeOK, Thread
<1>3. "thr_fn2" \in readers /\ writer' = writer /\ readers' = readers \ {"thr_fn2"}
  BY <1>1, JobQueueAssumption DEF TUnlock, Unlock, IInv, Locking, Thread
<1>4. TypeOK'
  BY <1>1, <1>3 DEF IInv, TypeOK, Goto, list, loop1, finding, NotRead
<1>5. Locking'
  BY <1>1, <1>3, JobQueueAssumption, ReaderLocking DEF Thread, list
<1>6. Membership' /\ Linked'
  BY <1>1, <1>2, ReaderFrame DEF Thread
<1>7. Walking'
  BY <1>1, <1>2, JobQueueAssumption, Zenon DEF IInv, Walking, After, Thread, list, finding
<1> QED BY <1>4, <1>5, <1>6, <1>7 DEF IInv

\* job_find takes the lock at the head of the list.
LEMMA FLockIInv == ASSUME IInv, NEW t \in Finders, FLock(t) PROVE IInv'
<1>1. /\ writer = NULL /\ readers' = readers \cup {t} /\ writer' = writer
      /\ Goto(t, "walk") /\ UNCHANGED <<list, loop1, loop2, found>>
      /\ jp' = [jp EXCEPT ![t] = q.q_head]
  BY DEF FLock, RdLock
<1>2. PICK id \in Job : want' = [want EXCEPT ![t] = id]
  BY Zenon DEF FLock
<1>3. t \in Thread \ {"thr_fn1"} /\ t # "thr_fn2" /\ "thr_fn1" \in Thread /\ "thr_fn2" \in Thread
  BY JobQueueAssumption DEF Thread
<1>4. pc'[t] = "walk" /\ \A u \in Thread \ {t} : pc'[u] = pc[u]
  BY <1>1, <1>3 DEF Goto, IInv, TypeOK
<1>5. q = target
  BY <1>1, JobQueueAssumption DEF IInv, Locking, Thread
<1>6. q.q_head = After(0) /\ q.q_head \in Ptr
  BY <1>5, HeadAfter
<1>7. TypeOK'
  BY <1>1, <1>2, <1>3, <1>6 DEF IInv, TypeOK, Goto, list, loop1, loop2, Ptr
<1>8. Locking'
  BY <1>1, <1>3, ReaderLocking DEF list
<1>9. Membership' /\ Linked'
  BY <1>1, <1>3, <1>4, ReaderFrame
<1>10. Walking'
  <2>1. 0 \in 0..Len(queue) /\ queue' = queue /\ printed' = printed
    BY <1>1 DEF IInv, TypeOK, list, loop2
  <2>2. jp'[t] = After(0) /\ \A u \in Thread \ {t} : jp'[u] = jp[u]
    BY <1>1, <1>3, <1>6 DEF IInv, TypeOK
  <2>3. want'[t] \in Job /\ \A u \in Finders \ {t} : want'[u] = want[u]
    BY <1>2 DEF IInv, TypeOK
  <2>4. pc'["thr_fn2"] = pc["thr_fn2"] /\ jp'["thr_fn2"] = jp["thr_fn2"]
    BY <1>3, <1>4, <2>2
  <2>5. \A u \in Finders \ {t} : pc'[u] = pc[u] /\ jp'[u] = jp[u]
    BY <1>4, <2>2, Zenon DEF Thread
  <2>6. Walking BY DEF IInv
  <2>7. \A k \in 0..Len(queue) : After(k)' = After(k) BY <2>1 DEF After
  <2>8. pc'["thr_fn2"] = "walk" =>
          \E k \in 0..Len(queue') : printed' = SubSeq(queue', 1, k) /\ jp'["thr_fn2"] = After(k)'
    BY <2>1, <2>4, <2>6, <2>7 DEF Walking
  <2>9. ASSUME NEW u \in Finders, pc'[u] = "walk"
        PROVE  /\ want'[u] \in Job
               /\ \E k \in 0..Len(queue') : jp'[u] = After(k)' /\ \A l \in 1..k : queue'[l] # want'[u]
    <3>1. CASE u = t
      <4>1. \A l \in 1..0 : queue'[l] # want'[t] OBVIOUS
      <4> QED BY <2>1, <2>2, <2>3, <2>7, <3>1, <4>1
    <3>2. CASE u # t BY <2>1, <2>3, <2>5, <2>6, <2>7, <2>9, <3>2 DEF Walking
    <3> QED BY <3>1, <3>2
  <2> QED BY <2>8, <2>9 DEF Walking
<1> QED BY <1>7, <1>8, <1>9, <1>10 DEF IInv

\* One round of the loop of job_find passes a job with another id.
LEMMA FWalkIInv == ASSUME IInv, NEW t \in Finders, FWalk(t) PROVE IInv'
<1>1. /\ pc[t] = "walk" /\ jp[t] # NULL /\ jp[t] # want[t]
      /\ UNCHANGED <<list, lock, loop1, loop2, finding, pc>>
      /\ jp' = [jp EXCEPT ![t] = jNext[jp[t]]]
  BY DEF FWalk
<1>2. t \in Thread /\ t # "thr_fn2" /\ "thr_fn2" \in Thread
  BY JobQueueAssumption DEF Thread
<1>3. PICK k \in 0..Len(queue) : jp[t] = After(k) /\ \A l \in 1..k : queue[l] # want[t]
  BY <1>1 DEF IInv, Walking
<1>4. /\ k + 1 \in 1..Len(queue) /\ After(k) = queue[k + 1]
      /\ jNext[After(k)] = After(k + 1) /\ After(k + 1) \in Ptr
  BY <1>1, <1>3, NextAfter
<1>5. TypeOK'
  BY <1>1, <1>2, <1>3, <1>4 DEF IInv, TypeOK, list, lock, loop1, loop2, finding
<1>6. Locking' /\ Membership' /\ Linked'
  BY <1>1 DEF IInv, list, lock, loop1, Locking, Membership, Queued, Linked
<1>7. Walking'
  <2>1. queue' = queue /\ want' = want /\ pc' = pc /\ printed' = printed
    BY <1>1 DEF list, finding, loop2
  <2>2. jp'[t] = After(k + 1) /\ \A u \in Thread \ {t} : jp'[u] = jp[u]
    BY <1>1, <1>2, <1>3, <1>4 DEF IInv, TypeOK
  <2>3. k + 1 \in 0..Len(queue) /\ \A l \in 1..k + 1 : queue[l] # want[t]
    BY <1>1, <1>3, <1>4
  <2>4. jp'["thr_fn2"] = jp["thr_fn2"] /\ \A u \in Finders \ {t} : jp'[u] = jp[u]
    BY <1>2, <2>2 DEF Thread
  <2>5. \A m \in 0..Len(queue) : After(m)' = After(m)
    BY <2>1 DEF After
  <2>6. want'[t] \in Job /\ \E m \in 0..Len(queue') :
          jp'[t] = After(m)' /\ \A l \in 1..m : queue'[l] # want'[t]
    BY <1>1, <2>1, <2>2, <2>3, <2>5 DEF IInv, Walking
  <2> HIDE DEF After
  <2>7. ASSUME NEW u \in Finders, pc'[u] = "walk"
        PROVE  /\ want'[u] \in Job
               /\ \E m \in 0..Len(queue') : jp'[u] = After(m)' /\ \A l \in 1..m : queue'[l] # want'[u]
    <3>1. CASE u = t
      BY <2>6, <3>1
    <3>2. CASE u # t
      BY <2>1, <2>4, <2>5, <2>7, <3>2 DEF IInv, Walking
    <3> QED BY <3>1, <3>2
  <2>8. pc'["thr_fn2"] = "walk" =>
          \E m \in 0..Len(queue') : printed' = SubSeq(queue', 1, m) /\ jp'["thr_fn2"] = After(m)'
    BY <2>1, <2>4, <2>5 DEF IInv, Walking
  <2> QED BY <2>7, <2>8 DEF Walking
<1> QED BY <1>5, <1>6, <1>7 DEF IInv

\* The end of job_find.
LEMMA FUnlockIInv == ASSUME IInv, NEW t \in Finders, FUnlock(t) PROVE IInv'
<1>1. /\ pc[t] = "walk" /\ Goto(t, "idle") /\ UNCHANGED <<list, loop1, loop2, want, jp>>
      /\ found' = [found EXCEPT ![t] = <<want[t], jp[t]>>]
  BY DEF FUnlock
<1>2. t \in Thread \ {"thr_fn1"} /\ t # "thr_fn2" /\ "thr_fn1" \in Thread /\ "thr_fn2" \in Thread
  BY JobQueueAssumption DEF Thread
<1>3. pc'[t] = "idle" /\ \A u \in Thread \ {t} : pc'[u] = pc[u]
  BY <1>1, <1>2 DEF Goto, IInv, TypeOK
<1>4. t \in readers /\ writer' = writer /\ readers' = readers \ {t}
  BY <1>1, <1>2, JobQueueAssumption DEF FUnlock, Unlock, IInv, Locking
<1>5. TypeOK'
  <2>1. want[t] \in Ptr /\ jp[t] \in Ptr
    BY <1>2 DEF IInv, TypeOK
  <2> QED BY <1>1, <1>4, <2>1 DEF IInv, TypeOK, Goto, list, loop1, loop2
<1>6. Locking'
  BY <1>1, <1>2, <1>4, ReaderLocking DEF list
<1>7. Membership' /\ Linked'
  BY <1>1, <1>2, <1>3, ReaderFrame, Zenon
<1>8. Walking'
  <2>1. pc'["thr_fn2"] = pc["thr_fn2"] /\ \A u \in Finders \ {t} : pc'[u] = pc[u]
    BY <1>2, <1>3 DEF Thread
  <2> QED BY <1>1, <1>3, <2>1, Zenon DEF IInv, Walking, After, list, loop2
<1> QED BY <1>5, <1>6, <1>7, <1>8 DEF IInv

\* Stuttering keeps the invariant.
LEMMA StutterIInv == IInv /\ UNCHANGED vars => IInv'
<1> SUFFICES ASSUME IInv, UNCHANGED vars PROVE IInv'
  OBVIOUS
<1> USE DEF IInv, vars, list, lock, loop1, loop2, finding
<1>1. TypeOK'
  BY DEF TypeOK
<1>2. Locking' /\ Membership' /\ Linked'
  BY Zenon DEF Locking, Membership, Queued, Linked
<1>3. Walking'
  BY Zenon DEF Walking, After
<1> QED BY <1>1, <1>2, <1>3

(***************************************************************************)
(* The inductive invariant holds in every reachable state.                 *)
(***************************************************************************)
THEOREM Invariance == Spec => []IInv
<1>1. Init => IInv
  BY InitIInv
<1>2. IInv /\ [Next]_vars => IInv'
  <2> SUFFICES ASSUME IInv, [Next]_vars PROVE IInv'
    OBVIOUS
  <2>1. CASE Thr1
    BY <2>1, WLockIInv, WLinkIInv, WStoreIInv, WUnlockIInv DEF Thr1
  <2>2. CASE Thr2
    BY <2>2, TestIInv, TLockIInv, TWalkIInv, TUnlockIInv DEF Thr2
  <2>3. ASSUME NEW t \in Finders, Finder(t) PROVE IInv'
    BY <2>3, FLockIInv, FWalkIInv, FUnlockIInv DEF Finder
  <2>4. CASE Exit \/ UNCHANGED vars
    BY <2>4, StutterIInv DEF Exit
  <2> QED BY <2>1, <2>2, <2>3, <2>4 DEF Next
<1> QED BY <1>1, <1>2, PTL DEF Spec
-----------------------------------------------------------------------------
\* Every variable keeps its type, in particular every pointer thr_fn1 and the
\* readers follow is a job or NULL, never uninitialised memory.
THEOREM TypeCorrect == Spec => []TypeOK
<1>1. IInv => TypeOK
  BY DEF IInv
<1> QED BY <1>1, Invariance, PTL

\* job_insert, job_append and job_remove keep the pointers a doubly linked
\* list of the queued jobs, for any NJOBS and any readers.
THEOREM ListCorrect == Spec => []Linked
<1>1. IInv => Linked
  BY DEF IInv
<1> QED BY <1>1, Invariance, PTL

\* Whoever holds the read lock sees no half-done operation.
THEOREM WholeQueue == Spec => []ReadersSeeWholeQueue
<1>1. IInv => ReadersSeeWholeQueue
  BY JobQueueAssumption, Zenon DEF IInv, Locking, ReadersSeeWholeQueue, Thread
<1> QED BY <1>1, Invariance, PTL

\* job_remove follows no null and no uninitialised pointer.
THEOREM RemoveIsSafe == Spec => []RemoveDereferencesJobs
<1>1. IInv => RemoveDereferencesJobs
  <2> SUFFICES ASSUME IInv, pc["thr_fn1"] = "link", phase = "remove"
               PROVE  /\ i = q.q_head /\ i # q.q_tail => jNext[i] \in Job
                      /\ i # q.q_head => jPrev[i] \in Job
                      /\ i # q.q_head /\ i # q.q_tail => jNext[i] \in Job
    BY DEF RemoveDereferencesJobs
  <2>1. q = target /\ i \in Job /\ queue \in Seq(Job)
    BY DEF IInv, Locking, TypeOK
  <2>2. Queued(queue, i)
    BY <2>1 DEF IInv, Membership
  <2>3. PICK p \in 1..Len(queue) : queue[p] = i
    BY <2>2 DEF Queued
  <2>4. /\ target.q_head = queue[1] /\ target.q_tail = queue[Len(queue)]
        /\ jNext[i] = IF p = Len(queue) THEN NULL ELSE queue[p + 1]
        /\ jPrev[i] = IF p = 1 THEN NULL ELSE queue[p - 1]
    BY <2>1, <2>3 DEF IInv, Linked, Represents
  <2> QED BY <2>1, <2>3, <2>4
<1> QED BY <1>1, Invariance, PTL

\* When both threads are joined nothing is left in the queue.
THEOREM EmptyAfterJoin == Spec => []EmptyAtExit
<1>1. IInv => EmptyAtExit
  <2> SUFFICES ASSUME IInv, pc["thr_fn1"] = "done"
               PROVE  queue = <<>> /\ q = [f \in Fields |-> NULL]
    BY DEF EmptyAtExit, Joined
  <2>1. queue = <<>> /\ q = target /\ q \in [Fields -> Ptr]
    BY DEF IInv, Membership, Locking, TypeOK
  <2>2. target["q_head"] = NULL /\ target["q_tail"] = NULL
    BY <2>1 DEF IInv, Linked, Represents
  <2> QED BY <2>1, <2>2 DEF Fields
<1> QED BY <1>1, Invariance, PTL
-----------------------------------------------------------------------------
(***************************************************************************)
(* The threads, locks and pointers implement the atomic queue: linking is  *)
(* the moment of an insertion or removal, unlocking that of a traversal or *)
(* a search, and every other step is invisible.                            *)
(***************************************************************************)
THEOREM Refinement == Spec => ImplementsAtomicQueue
<1>1. Init => Atomic!Init
  BY DEF Init, Atomic!Init
<1>2. IInv /\ [Next]_vars => [Atomic!Next]_<<queue, line, found>>
  <2> SUFFICES ASSUME IInv, [Next]_vars PROVE [Atomic!Next]_<<queue, line, found>>
    OBVIOUS
  <2>1. CASE WLink
    <3>1. UNCHANGED <<line, found>> /\ i \in Job /\ queue \in Seq(Job)
      BY <2>1 DEF WLink, finding, IInv, TypeOK
    <3>2. Queued(queue, i) <=> phase # "add"
      BY <2>1, <3>1 DEF WLink, IInv, Membership, TypeOK, Job
    <3>3. CASE JobInsert(i) /\ phase = "add"
      BY <3>1, <3>2, <3>3, Zenon DEF JobInsert, Atomic!Next, Atomic!Add, Atomic!In, Queued
    <3>4. CASE JobAppend(i) /\ phase = "add"
      BY <3>1, <3>2, <3>4, Zenon DEF JobAppend, Atomic!Next, Atomic!Add, Atomic!In, Queued
    <3>5. CASE JobRemove(i) /\ phase = "remove"
      <4> DEFINE p == CHOOSE k \in 1..Len(queue) : queue[k] = i
      <4>1. p \in 1..Len(queue) /\ queue[p] = i
        BY <3>2, <3>5 DEF Queued
      <4>2. queue' = SubSeq(queue, 1, p - 1) \o SubSeq(queue, p + 1, Len(queue))
        BY <3>5 DEF JobRemove, RemoveAt
      <4> HIDE DEF p
      <4>3. Atomic!Remove1(i)
        BY <3>1, <4>1, <4>2, Zenon DEF Atomic!Remove1
      <4> QED BY <3>1, <4>3 DEF Atomic!Next
    <3> QED BY <2>1, <3>3, <3>4, <3>5 DEF WLink
  <2>2. CASE TUnlock
    <3>1. /\ pc["thr_fn2"] = "walk" /\ jp["thr_fn2"] = NULL /\ line' = printed
          /\ UNCHANGED <<queue, found>> /\ queue \in Seq(Job)
      BY <2>2 DEF TUnlock, list, finding, IInv, TypeOK
    <3>2. PICK k \in 0..Len(queue) : printed = SubSeq(queue, 1, k) /\ After(k) = NULL
      BY <3>1 DEF IInv, Walking
    <3>3. k = Len(queue)
      <4> SUFFICES ASSUME k # Len(queue) PROVE FALSE
        OBVIOUS
      <4>1. k + 1 \in 1..Len(queue) /\ queue[k + 1] \in Job
        BY <3>1
      <4> QED BY <3>2, <4>1, JobQueueAssumption DEF After
    <3>4. printed = queue
      BY <3>1, <3>2, <3>3, SubSeqFull
    <3> QED BY <3>1, <3>4 DEF Atomic!Next, Atomic!Traverse
  <2>3. ASSUME NEW t \in Finders, FUnlock(t) PROVE Atomic!Next
    <3>1. /\ pc[t] = "walk" /\ jp[t] \in {NULL, want[t]} /\ UNCHANGED <<queue, line>>
          /\ found' = [found EXCEPT ![t] = <<want[t], jp[t]>>] /\ queue \in Seq(Job)
      BY <2>3 DEF FUnlock, list, loop2, IInv, TypeOK
    <3>2. want[t] \in Job
      BY <3>1 DEF IInv, Walking
    <3>3. PICK k \in 0..Len(queue) : jp[t] = After(k) /\ \A l \in 1..k : queue[l] # want[t]
      BY <3>1 DEF IInv, Walking
    <3>4. jp[t] = IF Atomic!In(want[t]) THEN want[t] ELSE NULL
      <4>1. CASE k = Len(queue)
        <5>1. jp[t] = NULL
          BY <3>3, <4>1 DEF After
        <5>2. ~ Atomic!In(want[t])
          BY <3>3, <4>1 DEF Atomic!In
        <5> QED BY <5>1, <5>2
      <4>2. CASE k # Len(queue)
        <5>1. k + 1 \in 1..Len(queue) /\ queue[k + 1] \in Job /\ jp[t] = queue[k + 1]
          BY <3>1, <3>3, <4>2 DEF After
        <5>2. jp[t] = want[t]
          BY <3>1, <5>1, JobQueueAssumption
        <5>3. Atomic!In(want[t])
          BY <5>1, <5>2, Zenon DEF Atomic!In
        <5> QED BY <5>2, <5>3
      <4> QED BY <4>1, <4>2
    <3>5. Atomic!Find(t, want[t])
      BY <3>1, <3>4 DEF Atomic!Find
    <3> QED BY <3>2, <3>5 DEF Atomic!Next
  <2>4. CASE WLock \/ (\E f \in Fields : WStore(f)) \/ WUnlock
    BY <2>4 DEF WLock, WStore, WUnlock, list, loop2, finding
  <2>5. CASE (\E f \in Fields : TLoad(f)) \/ TestDone \/ TLock \/ TWalk
    BY <2>5, SMTT(20) DEF TLoad, TestDone, TLock, TWalk, list, loop2, finding
  <2>6. ASSUME NEW t \in Finders, FLock(t) \/ FWalk(t) PROVE UNCHANGED <<queue, line, found>>
    BY <2>6 DEF FLock, FWalk, list, loop2, finding
  <2>7. CASE Exit \/ UNCHANGED vars
    BY <2>7 DEF Exit, vars, list, loop2, finding
  <2> QED
    BY <2>1, <2>2, <2>3, <2>4, <2>5, <2>6, <2>7 DEF Next, Thr1, Thr2, Finder
<1> QED BY <1>1, <1>2, Invariance, PTL DEF Spec, ImplementsAtomicQueue, Atomic!Spec
-----------------------------------------------------------------------------
(***************************************************************************)
(* The unlocked test of thr_fn2.  job_insert gets the odd jobs and         *)
(* job_append the even ones, so the odd jobs stay in front of the even     *)
(* ones, and as the queue always holds a range of numbers, from two jobs   *)
(* on the head is odd and the tail even.  Testing says that this is all    *)
(* thr_fn2 can have seen, in q_head and q_tail at whatever moments it read *)
(* them, unless the queue was short in between.                            *)
(***************************************************************************)
Odd(p)  == p \in Job /\ p % 2 = 1
Even(p) == p \in Job /\ p % 2 = 0

OddsFirst(s) == \A k, l \in 1..Len(s) : k < l /\ Even(s[k]) => Even(s[l])

Testing == ~ short =>
  /\ Len(queue) >= 2 /\ Odd(q["q_head"]) /\ Even(q["q_tail"])
  /\ seen["q_head"] = Wild \/ Odd(seen["q_head"])
  /\ seen["q_tail"] = Wild \/ Even(seen["q_tail"])
  /\ pc["thr_fn2"] # "done"

TInv == OddsFirst(queue) /\ Testing

\* A job is odd or even, never both, and its neighbours in number are the other.
LEMMA Parity ==
  /\ \A j \in Job : (Odd(j) \/ Even(j)) /\ ~ (Odd(j) /\ Even(j))
  /\ \A j, m \in Job : m = j + 1 => (Odd(j) <=> Even(m))
<1>1. \A j \in Int : j % 2 \in {0, 1} /\ ((j % 2 = 1) <=> ((j + 1) % 2 = 0)) OBVIOUS
<1>2. Job \subseteq Int BY JobQueueAssumption DEF Job
<1> QED BY <1>1, <1>2 DEF Odd, Even

\* A queue of two jobs or more has an odd one at its head and an even one at its
\* tail: with two jobs it has all those between, so that one is odd and one even.
LEMMA EndsDiffer ==
  ASSUME IInv, OddsFirst(queue), Len(queue) >= 2
  PROVE  Odd(target["q_head"]) /\ Even(target["q_tail"])
<1> DEFINE n == Len(queue)
<1>1. queue \in Seq(Job) /\ n \in Nat /\ n >= 2 BY DEF IInv, TypeOK
<1>2. \A k \in 1..n : queue[k] \in Job BY <1>1
<1>3. pc["thr_fn1"] # "done" BY <1>1 DEF IInv, Membership
<1>4. \A a, b, c \in Job : Queued(queue, a) /\ Queued(queue, c) /\ a < b /\ b < c => Queued(queue, b)
  <2>1. i \in Job /\ Job \subseteq Int BY JobQueueAssumption DEF IInv, TypeOK, Job
  <2> QED BY <1>3, <2>1 DEF IInv, Membership
<1>5. queue[1] # queue[2] BY <1>1 DEF IInv, Linked, Represents
<1>6. \E k, l \in 1..n : Odd(queue[k]) /\ Even(queue[l])
  <2>1. \A a, c \in Job : Queued(queue, a) /\ Queued(queue, c) /\ a < c =>
          \E b, d \in Job : Queued(queue, b) /\ Queued(queue, d) /\ Odd(b) /\ Even(d)
    <3> SUFFICES ASSUME NEW a \in Job, NEW c \in Job, Queued(queue, a), Queued(queue, c), a < c
                 PROVE  \E b, d \in Job : Queued(queue, b) /\ Queued(queue, d) /\ Odd(b) /\ Even(d)
      OBVIOUS
    <3>1. a + 1 \in Job BY JobQueueAssumption DEF Job
    <3>2. Queued(queue, a + 1)
      <4>1. a + 1 = c \/ (a < a + 1 /\ a + 1 < c) BY JobQueueAssumption DEF Job
      <4> QED BY <1>4, <3>1, <4>1
    <3>3. Odd(a) <=> Even(a + 1) BY <3>1, Parity
    <3>4. (Odd(a) \/ Even(a)) /\ (Odd(a + 1) \/ Even(a + 1)) /\ ~ (Odd(a + 1) /\ Even(a + 1)) BY <3>1, Parity
    <3> QED BY <3>1, <3>2, <3>3, <3>4
  <2>2. Queued(queue, queue[1]) /\ Queued(queue, queue[2]) BY <1>1 DEF Queued
  <2>3. queue[1] < queue[2] \/ queue[2] < queue[1]
    <3>1. queue[1] \in Int /\ queue[2] \in Int BY <1>1, <1>2, JobQueueAssumption DEF Job
    <3> QED BY <1>5, <3>1
  <2>4. \E b, d \in Job : Queued(queue, b) /\ Queued(queue, d) /\ Odd(b) /\ Even(d)
    BY <1>1, <1>2, <2>1, <2>2, <2>3
  <2> QED BY <2>4 DEF Queued
<1>7. PICK k \in 1..n, l \in 1..n : Odd(queue[k]) /\ Even(queue[l]) BY <1>6
<1>8. Odd(queue[1])
  <2>1. ASSUME Even(queue[1]) PROVE FALSE
    <3>1. k # 1 BY <1>1, <1>2, <1>7, <2>1, Parity
    <3>2. Even(queue[k]) BY <1>1, <2>1, <3>1 DEF OddsFirst
    <3> QED BY <1>2, <1>7, <3>2, Parity
  <2> QED BY <1>1, <1>2, <2>1, Parity
<1>9. Even(queue[n])
  <2>1. CASE l = n BY <1>7, <2>1
  <2>2. CASE l # n BY <1>1, <1>7, <2>2 DEF OddsFirst
  <2> QED BY <2>1, <2>2
<1>10. target["q_head"] = queue[1] /\ target["q_tail"] = queue[n]
  BY <1>1 DEF IInv, Linked, Represents
<1> QED BY <1>8, <1>9, <1>10

\* The order stays when an odd job comes in at the head.
LEMMA OddsFirstInsert ==
  ASSUME NEW s \in Seq(Job), NEW j \in Job, Odd(j), OddsFirst(s)
  PROVE  OddsFirst(<<j>> \o s)
<1> DEFINE t == <<j>> \o s
<1>1. /\ t \in Seq(Job) /\ Len(t) = Len(s) + 1 /\ Len(s) \in Nat /\ t[1] = j
      /\ \A k \in 2..Len(t) : t[k] = s[k - 1]
  OBVIOUS
<1> HIDE DEF t
<1>2. ASSUME NEW k \in 1..Len(t), NEW l \in 1..Len(t), k < l, Even(t[k]) PROVE Even(t[l])
  <2>1. k # 1 BY <1>1, <1>2, Parity
  <2>2. k - 1 \in 1..Len(s) /\ l - 1 \in 1..Len(s) /\ k - 1 < l - 1 /\ t[k] = s[k - 1] /\ t[l] = s[l - 1]
    BY <1>1, <1>2, <2>1
  <2> QED BY <1>2, <2>2 DEF OddsFirst
<1> QED BY <1>2 DEF OddsFirst, t

\* An even job at the tail.
LEMMA OddsFirstAppend ==
  ASSUME NEW s \in Seq(Job), NEW j \in Job, Even(j), OddsFirst(s)
  PROVE  OddsFirst(Append(s, j))
<1> DEFINE t == Append(s, j)
<1>1. /\ t \in Seq(Job) /\ Len(t) = Len(s) + 1 /\ Len(s) \in Nat /\ t[Len(s) + 1] = j
      /\ \A k \in 1..Len(s) : t[k] = s[k]
  OBVIOUS
<1> HIDE DEF t
<1>2. ASSUME NEW k \in 1..Len(t), NEW l \in 1..Len(t), k < l, Even(t[k]) PROVE Even(t[l])
  <2>1. CASE l = Len(s) + 1 BY <1>1, <2>1
  <2>2. CASE l # Len(s) + 1
    <3>1. k \in 1..Len(s) /\ l \in 1..Len(s) BY <1>1, <1>2, <2>2
    <3> QED BY <1>1, <1>2, <3>1 DEF OddsFirst
  <2> QED BY <2>1, <2>2
<1> QED BY <1>2 DEF OddsFirst, t

\* One job fewer.
LEMMA OddsFirstRemove ==
  ASSUME NEW s \in Seq(Job), NEW p \in 1..Len(s), OddsFirst(s)
  PROVE  OddsFirst(RemoveAt(s, p))
<1> DEFINE t == RemoveAt(s, p)
           at(k) == IF k < p THEN k ELSE k + 1
<1>1. Len(s) \in Nat OBVIOUS
<1>2. Len(t) = Len(s) - 1 /\ \A k \in 1..Len(s) - 1 : t[k] = IF k < p THEN s[k] ELSE s[k + 1]
  BY RemoveAtElements
<1> HIDE DEF t
<1>3. ASSUME NEW k \in 1..Len(t), NEW l \in 1..Len(t), k < l, Even(t[k]) PROVE Even(t[l])
  <2>1. at(k) \in 1..Len(s) /\ at(l) \in 1..Len(s) /\ at(k) < at(l) BY <1>1, <1>2, <1>3
  <2>2. t[k] = s[at(k)] /\ t[l] = s[at(l)] BY <1>2
  <2> HIDE DEF at
  <2> QED BY <1>3, <2>1, <2>2 DEF OddsFirst
<1> QED BY <1>3 DEF OddsFirst, t

\* Every operation of thr_fn1 keeps the order, and one that leaves the queue short
\* is noted.
LEMMA WLinkTInv == IInv /\ TInv /\ WLink => TInv'
<1> SUFFICES ASSUME IInv, TInv, WLink PROVE TInv'
  OBVIOUS
<1>1. /\ pc["thr_fn1"] = "link" /\ i \in Job /\ phase \in {"add", "remove"} /\ queue \in Seq(Job)
      /\ OddsFirst(queue) /\ pc["thr_fn2"] = pc'["thr_fn2"] /\ UNCHANGED <<q, seen>>
  BY DEF IInv, TInv, TypeOK, WLink, Goto, Thread
<1>2. OddsFirst(queue')
  <2>1. CASE phase = "add" /\ i % 2 = 1 /\ JobInsert(i)
    BY <1>1, <2>1, OddsFirstInsert DEF JobInsert, Odd
  <2>2. CASE phase = "add" /\ i % 2 = 0 /\ JobAppend(i)
    BY <1>1, <2>2, OddsFirstAppend DEF JobAppend, Even
  <2>3. CASE phase = "remove" /\ JobRemove(i)
    <3> DEFINE p == CHOOSE k \in 1..Len(queue) : queue[k] = i
    <3>1. Queued(queue, i) BY <1>1, <2>3 DEF IInv, Membership
    <3>2. p \in 1..Len(queue) BY <3>1 DEF Queued
    <3>3. queue' = RemoveAt(queue, p) BY <2>3 DEF JobRemove
    <3> HIDE DEF p
    <3> QED BY <1>1, <3>2, <3>3, OddsFirstRemove
  <2> QED BY <2>1, <2>2, <2>3 DEF WLink
<1>3. short' = (short \/ Len(queue') < 2) BY DEF WLink
<1>4. Testing'
  <2> SUFFICES ASSUME ~ short'
               PROVE  /\ Len(queue') >= 2 /\ Odd(q'["q_head"]) /\ Even(q'["q_tail"])
                      /\ seen'["q_head"] = Wild \/ Odd(seen'["q_head"])
                      /\ seen'["q_tail"] = Wild \/ Even(seen'["q_tail"])
                      /\ pc'["thr_fn2"] # "done"
    BY DEF Testing, Odd, Even
  <2>1. ~ short /\ ~ (Len(queue') < 2) BY <1>3, Zenon
  <2>2. queue' \in Seq(Job) BY WLinkIInv DEF IInv, TypeOK
  <2>3. Len(queue') >= 2 BY <2>1, <2>2
  <2> QED BY <1>1, <2>1, <2>3 DEF TInv, Testing
<1> QED BY <1>2, <1>4 DEF TInv

\* A store puts an end of the queue into q_head or q_tail.
LEMMA WStoreTInv == ASSUME IInv, TInv, NEW f \in Fields, WStore(f) PROVE TInv'
<1>1. UNCHANGED <<queue, seen, short, pc, target>> /\ q' = [q EXCEPT ![f] = target[f]] /\ q \in [Fields -> Ptr]
  BY DEF WStore, loop2, IInv, TypeOK
<1>2. ASSUME ~ short PROVE Odd(q'["q_head"]) /\ Even(q'["q_tail"])
  <2>1. Odd(target["q_head"]) /\ Even(target["q_tail"]) BY <1>2, EndsDiffer DEF TInv, Testing
  <2>2. Odd(q["q_head"]) /\ Even(q["q_tail"]) BY <1>2 DEF TInv, Testing
  <2> QED BY <1>1, <2>1, <2>2 DEF Fields
<1> QED BY <1>1, <1>2 DEF TInv, Testing, OddsFirst, Odd, Even

\* What the test has read is odd for q_head and even for q_tail, so it differs.
LEMMA TestTInv == IInv /\ TInv /\ (TestDone \/ \E f \in Fields : TLoad(f)) => TInv'
<1> SUFFICES ASSUME IInv, TInv, TestDone \/ \E f \in Fields : TLoad(f) PROVE TInv'
  OBVIOUS
<1>1. CASE TestDone
  <2>1. /\ UNCHANGED <<queue, q, seen, short>> /\ seen["q_head"] # Wild /\ seen["q_tail"] # Wild
        /\ pc'["thr_fn2"] = IF seen["q_head"] # seen["q_tail"] THEN "rdlock" ELSE "done"
    BY <1>1 DEF TestDone, Goto, list, loop2, Fields, IInv, TypeOK, Thread
  <2>2. ASSUME ~ short PROVE pc'["thr_fn2"] # "done"
    <3>1. Odd(seen["q_head"]) /\ Even(seen["q_tail"]) BY <2>1, <2>2 DEF TInv, Testing
    <3>2. seen["q_head"] # seen["q_tail"] BY <3>1 DEF Odd, Even
    <3> QED BY <2>1, <3>2
  <2> QED BY <2>1, <2>2 DEF TInv, Testing, OddsFirst, Odd, Even
<1>2. ASSUME NEW f \in Fields, TLoad(f) PROVE TInv'
  <2>1. UNCHANGED <<queue, q, pc, short>> /\ seen' = [seen EXCEPT ![f] = q[f]] /\ seen \in [Fields -> Ptr \cup {Wild}]
    BY <1>2 DEF TLoad, list, IInv, TypeOK
  <2>2. ASSUME ~ short PROVE /\ seen'["q_head"] = Wild \/ Odd(seen'["q_head"])
                             /\ seen'["q_tail"] = Wild \/ Even(seen'["q_tail"])
    BY <2>1, <2>2 DEF TInv, Testing, Fields
  <2> QED BY <2>1, <2>2 DEF TInv, Testing, OddsFirst, Odd, Even
<1> QED BY <1>1, <1>2

\* A new test begins while thr_fn2 still has the lock, so q is whole.
LEMMA TUnlockTInv == IInv /\ TInv /\ TUnlock => TInv'
<1> SUFFICES ASSUME IInv, TInv, TUnlock PROVE TInv'
  OBVIOUS
<1>1. /\ UNCHANGED <<queue, q, target>> /\ seen' = NotRead /\ short' = (Len(queue) < 2)
      /\ pc["thr_fn2"] = "walk" /\ pc'["thr_fn2"] = "test"
  BY DEF TUnlock, Goto, list, IInv, TypeOK, Thread
<1>2. q = target BY <1>1, WriterAlone DEF IInv, Locking, Thread
<1>3. seen'["q_head"] = Wild /\ seen'["q_tail"] = Wild BY <1>1 DEF NotRead, Fields
<1>4. ASSUME ~ short' PROVE Len(queue) >= 2 /\ Odd(q["q_head"]) /\ Even(q["q_tail"])
  <2>1. queue \in Seq(Job) BY DEF IInv, TypeOK
  <2>2. ~ (Len(queue) < 2) BY <1>1, <1>4, Zenon
  <2>3. Len(queue) >= 2 BY <2>1, <2>2
  <2> QED BY <1>2, <2>3, EndsDiffer DEF TInv
<1> QED BY <1>1, <1>3, <1>4 DEF TInv, Testing, OddsFirst, Odd, Even

\* The other steps change neither the queue nor what the test has seen.
LEMMA OtherTInv ==
  ASSUME IInv, TInv, UNCHANGED <<queue, q, seen, short>>,
         pc'["thr_fn2"] = pc["thr_fn2"] \/ pc'["thr_fn2"] = "walk"
  PROVE  TInv'
BY DEF TInv, Testing, OddsFirst, Odd, Even

\* thr_fn2 leaves its loop only if the queue had fewer than two jobs at some moment
\* of its last, unlocked test, although it may read q_head and q_tail at different
\* moments and between the two stores of an operation of thr_fn1.
THEOREM DoneCorrect == Spec => []DoneOnlyIfShort
<1>1. Init => TInv
  <2> SUFFICES ASSUME Init PROVE TInv
    OBVIOUS
  <2> QED BY DEF Init, TInv, Testing, OddsFirst
<1>2. IInv /\ TInv /\ [Next]_vars => TInv'
  <2> SUFFICES ASSUME IInv, TInv, [Next]_vars PROVE TInv'
    OBVIOUS
  <2>0. DOMAIN pc = Thread /\ "thr_fn1" \in Thread /\ "thr_fn2" \in Thread /\ "thr_fn1" # "thr_fn2"
    BY DEF IInv, TypeOK, Thread
  <2>1. CASE WLock
    BY <2>0, <2>1, OtherTInv DEF WLock, Goto, list, loop2
  <2>2. CASE WUnlock
    <3>1. pc'["thr_fn2"] = pc["thr_fn2"] BY <2>0, <2>2 DEF WUnlock, NextRound, Advance, Goto
    <3> QED BY <2>2, <3>1, OtherTInv DEF WUnlock, list, loop2
  <2>3. CASE TLock \/ TWalk
    BY <2>0, <2>3, OtherTInv DEF TLock, TWalk, Goto, list
  <2>4. ASSUME NEW t \in Finders, Finder(t) PROVE TInv'
    <3>1. t # "thr_fn2" BY JobQueueAssumption
    <3>2. pc'["thr_fn2"] = pc["thr_fn2"] /\ UNCHANGED <<list, loop2>>
      BY <2>0, <2>4, <3>1 DEF Finder, FLock, FWalk, FUnlock, Goto
    <3> QED BY <3>2, OtherTInv DEF list, loop2
  <2>5. CASE Exit \/ UNCHANGED vars
    BY <2>5, OtherTInv DEF Exit, vars, list, loop2
  <2> QED BY <2>1, <2>2, <2>3, <2>4, <2>5, WLinkTInv, WStoreTInv, TestTInv, TUnlockTInv DEF Next, Thr1, Thr2
<1>3. TInv => DoneOnlyIfShort BY DEF TInv, Testing, DoneOnlyIfShort
<1> QED BY <1>1, <1>2, <1>3, Invariance, PTL DEF Spec
=============================================================================
