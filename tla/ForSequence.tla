------------------------------ MODULE ForSequence ------------------------------
(***************************************************************************)
(* What an OpenMP program with two "parallel for" loops one after the      *)
(* other promises: each is a parallel loop, and nothing of the second      *)
(* happens before the barrier at the end of the first.                     *)
(***************************************************************************)
EXTENDS Integers

CONSTANTS Iteration1, Iteration2

VARIABLES runs1, visible1, joined1, runs2, visible2, joined2

One == INSTANCE ParallelFor WITH
         Iteration <- Iteration1, runs <- runs1, visible <- visible1, joined <- joined1
Two == INSTANCE ParallelFor WITH
         Iteration <- Iteration2, runs <- runs2, visible <- visible2, joined <- joined2

SequenceInit == One!ForInit /\ Two!ForInit

SequenceNext ==
  \/ One!ForNext /\ UNCHANGED Two!forVars
  \/ joined1 /\ Two!ForNext /\ UNCHANGED One!forVars

SequenceSpec == SequenceInit /\ [][SequenceNext]_<<One!forVars, Two!forVars>>
================================================================================
