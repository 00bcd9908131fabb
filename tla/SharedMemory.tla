---------------------------- MODULE SharedMemory ----------------------------
(***************************************************************************)
(* What OpenMP promises of the variables the threads of a loop share, and  *)
(* what the remote accesses printed by OMP2MPI must keep: an update under  *)
(* "atomic" or "critical" takes effect once and as a whole, between the    *)
(* moment the thread reaches it and the end of the loop; a plain write     *)
(* stores what the thread wrote.                                           *)
(***************************************************************************)
EXTENDS Integers

CONSTANTS
  Place,      \* the elements of a variable
  Updated,    \* variables incremented under atomic or critical, by anybody
  Owned       \* variables of which each thread writes its own element

VARIABLES
  mem,        \* mem[v][p]: the value of element p of variable v
  wanted,     \* wanted[v][p]: how many increments threads have begun
  joined      \* the code after the loop may run

sharedVars == <<mem, wanted, joined>>

Zero == [v \in Updated \cup Owned |-> [p \in Place |-> 0]]

SharedInit == mem = Zero /\ wanted = Zero /\ joined = FALSE

Begin(v, p) ==
  /\ ~joined
  /\ wanted' = [wanted EXCEPT ![v][p] = @ + 1]
  /\ UNCHANGED <<mem, joined>>

Apply(v, p) ==
  /\ mem[v][p] < wanted[v][p]
  /\ mem' = [mem EXCEPT ![v][p] = @ + 1]
  /\ UNCHANGED <<wanted, joined>>

(***************************************************************************)
(* Thread p writes its number into its element.                            *)
(***************************************************************************)
Put(v, p) ==
  /\ ~joined
  /\ mem' = [mem EXCEPT ![v][p] = p]
  /\ UNCHANGED <<wanted, joined>>

Join ==
  /\ ~joined
  /\ \A v \in Updated : mem[v] = wanted[v]
  /\ joined' = TRUE
  /\ UNCHANGED <<mem, wanted>>

SharedNext ==
  \/ \E v \in Updated, p \in Place : Begin(v, p) \/ Apply(v, p)
  \/ \E v \in Owned, p \in Place : Put(v, p)
  \/ Join

SharedSpec == SharedInit /\ [][SharedNext]_sharedVars
=============================================================================
