------------------------------- MODULE Messages -------------------------------
(***************************************************************************)
(* The MPI layer as the generated programs use it.  MPI is external: a     *)
(* pair of processes is connected by a FIFO channel (messages of one       *)
(* sender do not overtake each other) and a send is buffered, so that it   *)
(* never blocks.  A block keeps one function of channels for each          *)
(* direction; a channel is a sequence of records with a field "tag".       *)
(***************************************************************************)
EXTENDS Integers, Sequences

Send(ch, s, m) == [ch EXCEPT ![s] = Append(@, m)]
Drop(ch, s) == [ch EXCEPT ![s] = Tail(@)]
Arrived(ch, s, tag) == ch[s] # <<>> /\ Head(ch[s]).tag = tag

(***************************************************************************)
(* The n iterations that begin with o, and the history variables that      *)
(* count, for each iteration, how often something happened to it.          *)
(***************************************************************************)
Slice(o, n) == o .. (o + n - 1)

Counter(f) == \A i \in DOMAIN f : i \in Int /\ f[i] \in Nat

(***************************************************************************)
(* Count one more for every element of S, in or outside the domain of f.   *)
(***************************************************************************)
Bump(f, S) ==
  [i \in DOMAIN f \cup S |-> (IF i \in DOMAIN f THEN f[i] ELSE 0)
                             + (IF i \in S THEN 1 ELSE 0)]
===============================================================================
