--------------------------- MODULE MCSignalReceive ---------------------------
(* Every receiver; three realtime and two standard signals, then the last.    *)
EXTENDS SignalReceive
=============================================================================
