--------------------------- MODULE MCLockDeadlock ---------------------------
(* Two runs of the program in one directory.                                 *)
EXTENDS LockDeadlock
CONSTANTS r1, r2
=============================================================================
