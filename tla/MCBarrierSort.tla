---------------------------- MODULE MCBarrierSort ----------------------------
(* Three threads with two numbers each, of three values.                     *)
EXTENDS BarrierSort
=============================================================================
