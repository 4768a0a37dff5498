------------------------------ MODULE MCSemLock ------------------------------
(***************************************************************************)
(* Instances of SemLock for TLC.  The names 0 and 2 exist, one with a      *)
(* locked semaphore and one with a value that would let two threads in, so *)
(* s_alloc goes through its loop and then finds a gap.                     *)
(***************************************************************************)
EXTENDS SemLock

MCN == 3
MCLeftover == [n \in {0, 2} |-> 2 - n]
MCTryers == {"tryer"}
=============================================================================
