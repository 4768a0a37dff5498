------------------------------ MODULE MCThreads ------------------------------
(* Up to three signals and two returns of cond_wait without reason.           *)
EXTENDS Threads
=============================================================================
