---------------------------- MODULE MCRemoteMemory ----------------------------
(***************************************************************************)
(* Instances of RemoteMemory: the lists of variables of two loops.         *)
(***************************************************************************)
EXTENDS RemoteMemory

(***************************************************************************)
(* x[..] += 1 and n += 1 under atomic, y[..] = ..., and uses of y; n is    *)
(* not an array.  The indices of x and y in the two lists differ.          *)
(***************************************************************************)
MixedRead == <<"y", "n", "x">>
MixedWritten == <<"x", "n", "y">>

(***************************************************************************)
(* A counter n that is not an array: n += 1 under atomic or critical.  In  *)
(* either loop it is the only scalar that is written.                      *)
(***************************************************************************)
CounterRead == <<"c", "n">>
CounterWritten == <<"n">>
CountersSent == <<"n">>
===============================================================================
