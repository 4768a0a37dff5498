--------------------------- MODULE MCFooRefCount ---------------------------
(***************************************************************************)
(* Instance of FooRefCount for TLC.  The code holds 20 and 22 times; two   *)
(* and three rounds already have a first, a middle and a last one.         *)
(***************************************************************************)
EXTENDS FooRefCount

MCHolds == [f \in Foo |-> f + 1]
=============================================================================
