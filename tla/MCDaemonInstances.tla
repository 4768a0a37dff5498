------------------------ MODULE MCDaemonInstances ------------------------
(* Two starts of the daemon, each sent up to two signals; the pid file may   *)
(* name either of them, or none, from before.                                *)
EXTENDS DaemonInstances
CONSTANTS d1, d2
=============================================================================
