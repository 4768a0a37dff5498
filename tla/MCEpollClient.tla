---------------------------- MODULE MCEpollClient ----------------------------
(* A buffer of three bytes, and lines that leave room in it, fill it, or are  *)
(* read in three parts; seven bytes in all.                                   *)
EXTENDS EpollClient
=============================================================================
