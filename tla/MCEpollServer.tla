---------------------------- MODULE MCEpollServer ----------------------------
(* Two clients that send up to MaxBytes each, and a buffer of MAXSIZE.        *)
EXTENDS EpollServer
CONSTANTS c1, c2
=============================================================================
