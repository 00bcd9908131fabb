----------------------------- MODULE ParallelFor -----------------------------
(***************************************************************************)
(* What an OpenMP "parallel for" promises, and what every MPI block that   *)
(* OMP2MPI puts in its place must keep: each iteration runs exactly once,  *)
(* in any order; its result becomes visible after it ran and is folded in  *)
(* exactly once; the program goes on when all results are visible.         *)
(***************************************************************************)
EXTENDS Integers

CONSTANT Iteration    \* the values of the induction variable

VARIABLES
  runs,      \* how often the body ran, for every iteration
  visible,   \* how often its result reached the code after the loop
  joined     \* the code after the loop may run

forVars == <<runs, visible, joined>>

ForInit ==
  /\ runs = [i \in Iteration |-> 0]
  /\ visible = [i \in Iteration |-> 0]
  /\ joined = FALSE

Execute(i) ==
  /\ runs[i] = 0
  /\ runs' = [runs EXCEPT ![i] = 1]
  /\ UNCHANGED <<visible, joined>>

Ready(S) == \A i \in S : runs[i] = 1 /\ visible[i] = 0

Shown(S) == [i \in Iteration |-> IF i \in S THEN 1 ELSE visible[i]]

Publish(S) ==
  /\ ~joined
  /\ Ready(S)
  /\ visible' = Shown(S)
  /\ UNCHANGED <<runs, joined>>

(***************************************************************************)
(* The last results may become visible in the step that ends the loop.     *)
(***************************************************************************)
Join(S) ==
  /\ ~joined
  /\ Ready(S)
  /\ \A i \in Iteration \ S : visible[i] = 1
  /\ visible' = Shown(S)
  /\ joined' = TRUE
  /\ UNCHANGED runs

ForNext ==
  \/ \E i \in Iteration : Execute(i)
  \/ \E S \in SUBSET Iteration : Publish(S) \/ Join(S)

ForSpec == ForInit /\ [][ForNext]_forVars
==============================================================================
