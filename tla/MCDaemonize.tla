---------------------------- MODULE MCDaemonize ----------------------------
(***************************************************************************)
(* Instance of Daemonize for TLC: six descriptors and a cap of four leave  *)
(* descriptors on both sides of every limit.                               *)
(***************************************************************************)
EXTENDS Daemonize

MCMaxFd == 5
MCCap   == 4
=============================================================================
