----------------------------- MODULE BarrierSort -----------------------------
(***************************************************************************)
(* pthread/barrier_sort.c: NTHR threads sort a slice of nums each and meet *)
(* main at a barrier, after which main merges the slices into snums.       *)
(* pthread/norm_qsort.c sorts the same numbers at once, for comparison.    *)
(***************************************************************************)
EXTENDS Integers, FiniteSets

CONSTANTS NTHR, TNUM,   \* the threads, and the length of a slice
          LONG_MAX,     \* where merge begins its search for the smallest number
          Value         \* what random() returns

\* random() stays below 2^31, LONG_MAX is 2^63 - 1.
ASSUME SortAssumption ==
  /\ NTHR \in Nat \ {0} /\ TNUM \in Nat \ {0} /\ LONG_MAX \in Nat
  /\ Value \subseteq 0..LONG_MAX - 1

NUMNUM == NTHR * TNUM
Thread == 0..NTHR - 1
Index  == 0..NUMNUM - 1
Unset  == -1   \* a minidx that was never assigned

VARIABLES
  at,         \* of each thread: "none", "sort", "arrive", "barrier", "end"
  main,       \* of main: "create", "barrier", "wait", "merge", "done", "failed"
  made,       \* how many threads main has created
  arrived,    \* how many callers have come to the barrier
  nums, snums,
  idx, minidx, sidx,   \* the variables of merge
  input       \* nums as random() filled it

thread == <<at, arrived>>
merges == <<snums, idx, minidx, sidx>>
sortVars == <<thread, main, made, nums, merges, input>>

SortInit ==
  /\ at = [t \in Thread |-> "none"] /\ main = "create" /\ made = 0 /\ arrived = 0
  /\ input \in [Index -> Value] /\ nums = input
  /\ snums = [i \in Index |-> 0]
  /\ idx = [t \in Thread |-> t * TNUM] /\ minidx = Unset /\ sidx = 0

\* The loop of main around pthread_create.
Create ==
  /\ main = "create" /\ made < NTHR
  /\ at' = [at EXCEPT ![made] = "sort"]
  /\ made' = made + 1
  /\ main' = IF made + 1 = NTHR THEN "barrier" ELSE "create"
  /\ UNCHANGED <<arrived, nums, merges, input>>

\* pthread_create fails: exit(-1), whatever the threads are at.
CreateFails ==
  /\ main = "create"
  /\ main' = "failed"
  /\ UNCHANGED <<thread, made, nums, merges, input>>

Running == main \notin {"done", "failed"}
Slice(t) == t * TNUM .. (t + 1) * TNUM - 1

\* The numbers of s in ascending order from index f on: what qsort leaves.
\* The rank of an index breaks ties by position.
Sorted(a, s, f) ==
  LET rank(i) == Cardinality({j \in s : a[j] < a[i] \/ (a[j] = a[i] /\ j < i)})
  IN  [k \in s |-> a[CHOOSE i \in s : rank(i) = k - f]]

\* norm_qsort.c fills nums from the same seed and sorts it with one qsort.
NormQsort == Sorted(input, Index, 0)

\* thr_fn: qsort of the slice.
Sort(t) ==
  /\ Running /\ at[t] = "sort"
  /\ nums' = [i \in Index |-> IF i \in Slice(t) THEN Sorted(nums, Slice(t), t * TNUM)[i] ELSE nums[i]]
  /\ at' = [at EXCEPT ![t] = "arrive"]
  /\ UNCHANGED <<arrived, main, made, merges, input>>

\* pthread_barrier_wait lets nobody through before NTHR + 1 callers have come.
Arrive(t) ==
  /\ Running /\ at[t] = "arrive"
  /\ arrived' = arrived + 1
  /\ at' = [at EXCEPT ![t] = "barrier"]
  /\ UNCHANGED <<main, made, nums, merges, input>>

BugMany == NTHR + 2
Count == NTHR + 1

LeaveBarrier(t) ==
  /\ Running /\ at[t] = "barrier" /\ arrived >= Count
  /\ at' = [at EXCEPT ![t] = "end"]
  /\ UNCHANGED <<arrived, main, made, nums, merges, input>>

MainArrives ==
  /\ main = "barrier"
  /\ arrived' = arrived + 1
  /\ main' = "wait"
  /\ UNCHANGED <<at, made, nums, merges, input>>

MainLeaves ==
  /\ main = "wait" /\ arrived >= Count
  /\ main' = "merge"
  /\ UNCHANGED <<thread, made, nums, merges, input>>

\* The inner loop of merge: the first slice whose next number is the smallest
\* below LONG_MAX.  If there is none, minidx keeps its old value.
More(t)    == idx[t] < (t + 1) * TNUM /\ nums[idx[t]] < LONG_MAX
BugBest(t) == More(t) /\ \A u \in Thread : More(u) => t <= u
Best(t)    == /\ More(t)
              /\ \A u \in Thread : More(u) => \/ nums[idx[t]] < nums[idx[u]]
                                              \/ nums[idx[t]] = nums[idx[u]] /\ t <= u
MergeUpTo(last) ==
  /\ main = "merge" /\ sidx <= last
  /\ IF \E t \in Thread : More(t)
     THEN LET t == CHOOSE t \in Thread : Best(t)
          IN  minidx' = t /\ snums' = [snums EXCEPT ![sidx] = nums[idx[t]]]
     ELSE minidx' = minidx /\ snums' = [snums EXCEPT ![sidx] = LONG_MAX]
  /\ idx' = [idx EXCEPT ![minidx'] = @ + 1]
  /\ sidx' = sidx + 1
  /\ UNCHANGED <<thread, main, made, nums, input>>

MergeOne    == MergeUpTo(NUMNUM - 1)

MergeEnds ==
  /\ main = "merge" /\ sidx = NUMNUM
  /\ main' = "done"
  /\ UNCHANGED <<thread, made, nums, merges, input>>

Main == Create \/ MainArrives \/ MainLeaves \/ MergeOne \/ MergeEnds
Thr(t) == Sort(t) \/ Arrive(t) \/ LeaveBarrier(t)
SortNext == Main \/ CreateFails \/ \E t \in Thread : Thr(t)
SortSpec == SortInit /\ [][SortNext]_sortVars /\ WF_sortVars(Main) /\ \A t \in Thread : WF_sortVars(Thr(t))
-----------------------------------------------------------------------------
SortTypeOK ==
  /\ at \in [Thread -> {"none", "sort", "arrive", "barrier", "end"}]
  /\ main \in {"create", "barrier", "wait", "merge", "done", "failed"}
  /\ made \in 0..NTHR /\ arrived \in 0..NTHR + 1 /\ sidx \in 0..NUMNUM
  /\ nums \in [Index -> Value] /\ input \in [Index -> Value]
  /\ snums \in [Index -> 0..LONG_MAX]
  /\ idx \in [Thread -> Nat] /\ minidx \in Thread \cup {Unset}

\* merge reads no slice a thread may still be sorting.  While it runs it stays
\* within the slices, has taken one number for each it has put, and what is left
\* in a slice is no smaller than what it has put.
MergeInv ==
  /\ SortTypeOK
  /\ main \in {"merge", "done"} => \A t \in Thread : at[t] \in {"barrier", "end"}
  /\ main = "merge" =>
       /\ \A t \in Thread : t * TNUM <= idx[t] /\ idx[t] <= (t + 1) * TNUM
       /\ sidx > 0 => \A t \in Thread : idx[t] < (t + 1) * TNUM => snums[sidx - 1] <= nums[idx[t]]
       /\ \A v \in Value : Cardinality({i \in 0..sidx - 1 : snums[i] = v})
            = Cardinality({i \in Index : nums[i] = v /\ \E t \in Thread : i \in t * TNUM..idx[t] - 1})

\* The program prints the numbers it began with, in ascending order: a permutation
\* of them, the array norm_qsort.c is left with; and merge gets there by MergeInv.
Result == MergeInv /\ (main = "done" => snums = NormQsort)

\* All threads and main pass the barrier, and main comes to its end, unless a
\* thread could not be created.
Ends == <>(main \in {"done", "failed"})
=============================================================================
