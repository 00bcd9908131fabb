------------------------------ MODULE MCLoopHeader ------------------------------
(***************************************************************************)
(* Loops between -2 and 3 with steps of 1 to 3: empty loops, loops that    *)
(* end at their bound and loops that step over it, in both directions.     *)
(***************************************************************************)
EXTENDS LoopHeader

SomeEnds == -2 .. 3
SomeStrides == 1 .. 3
================================================================================
