------------------------------ MODULE Partition ------------------------------
(***************************************************************************)
(* How OMP2MPI splits the iteration space of a "parallel for" among the    *)
(* slaves.  trans_phase.cpp prints these expressions into the generated    *)
(* program; here they are operators over the values the printed names have *)
(* at run time:                                                            *)
(*   first   initValue, the first value of the induction variable          *)
(*   bound   conditionToWork, what follows the "<" of the loop condition   *)
(*   slaves  size - 1, the number of MPI processes other than rank 0       *)
(***************************************************************************)
EXTENDS Integers

(***************************************************************************)
(* The "/" of C rounds towards zero, the \div of TLA+ towards minus        *)
(* infinity; they differ when the loop runs backwards (bound < first).     *)
(***************************************************************************)
Quotient(a, b) == IF a >= 0 THEN a \div b ELSE -((-a) \div b)
Remainder(a, b) == a - b * Quotient(a, b)

Total(first, bound) == bound - first

(***************************************************************************)
(* The initial value of partSize in a dynamically scheduled block.  The    *)
(* file div.data holds either one number, which divides the even share, or *)
(* a second one, which is the chunk size itself (fixed).                   *)
(***************************************************************************)
ChunkSize(first, bound, slaves, fixed, number) ==
  LET share == Quotient(Total(first, bound), slaves)
  IN  IF fixed THEN number
      ELSE IF share > 0 THEN Quotient(share, number) ELSE 1

(***************************************************************************)
(* A statically scheduled block: every slave but the last gets the even    *)
(* share, the last one the share and the remainder.                        *)
(***************************************************************************)
StaticSize(first, bound, slaves, s) ==
  LET share == Quotient(Total(first, bound), slaves)
  IN  IF s # slaves THEN share
      ELSE share + Remainder(Total(first, bound), slaves)

(***************************************************************************)
(* Where the slave's share begins: the current style adds initValue, the   *)
(* old style (_oldMPIStyle) does not.                                      *)
(***************************************************************************)
StaticOffset(first, bound, slaves, s) ==
  Quotient(Total(first, bound), slaves) * (s - 1) + first

OldStaticOffset(first, bound, slaves, s) ==
  Quotient(Total(first, bound), slaves) * (s - 1)
==============================================================================
