------------------------------ MODULE StaticFarm ------------------------------
(***************************************************************************)
(* A statically scheduled block in the second style of OMP2MPI             *)
(* (schedule(static) or guided, _oldMPIStyle 0).  The master sends every   *)
(* slave its share, then collects the results slave by slave, in rank      *)
(* order; master and slave work out where a share lies independently of    *)
(* each other, each from the number of processes.                          *)
(*                                                                         *)
(* At least one variable has to be sent: without one the code that is      *)
(* printed is unbalanced and does not parse.                               *)
(***************************************************************************)
EXTENDS Block

CONSTANTS
  NumIn,     \* number of variables that slaves may read remotely
  Reduced    \* number of variables of the reduction clause

(***************************************************************************)
(* A share of negative size is an MPI error; the loop does not run         *)
(* backwards.                                                              *)
(***************************************************************************)
ASSUME StaticAssumption ==
  /\ NumIn \in Nat
  /\ Reduced \in Nat
  /\ Start <= Bound

VARIABLE from    \* master: the slave the second loop serves

vars == <<blockVars, from>>

InitFromZero == BlockInit /\ from = 0
Init == BlockInit /\ from = 1

(***************************************************************************)
(* Where the share of slave s lies is worked out in three places: by the   *)
(* master when it sends the share, by the slave, and by the master again   *)
(* when it stores the results.  The slave is told the size.                *)
(***************************************************************************)
SentSize(s) == StaticSize(Start, Bound, W, s)
SentOffset(s) == StaticOffset(Start, Bound, W, s)

OwnOffsetFromZero(s) == StaticOffset(0, Bound - Start, W, s)
OwnOffset(s) == StaticOffset(Start, Bound, W, s)

StoredSize(s) == StaticSize(Start, Bound, W, s)
StoredOffset(s) == StaticOffset(Start, Bound, W, s)
Stored(s) == Slice(StoredOffset(s), StoredSize(s))

-------------------------------------------------------------------------------
(***************************************************************************)
(* for (to = 1; to < size; ++to)                                           *)
(***************************************************************************)
Seed ==
  /\ mpc = "seed"
  /\ to \in Slave
  /\ toSlave' = Send(toSlave, to, Chunk("ATAG", SentOffset(to), SentSize(to)))
  /\ to' = to + 1
  /\ UNCHANGED <<mpc, slaveVars, toMaster, runs, merged, from>>

EndSeed ==
  /\ mpc = "seed"
  /\ to = W + 1
  /\ mpc' = "serve"
  /\ UNCHANGED <<to, slaveVars, toSlave, toMaster, runs, merged, from>>

(***************************************************************************)
(* for (from = 1; from < size; ++from) while(1): the result of slave from  *)
(* is put where the master works out that its share lies, and the slave is *)
(* told to stop.                                                           *)
(***************************************************************************)
LastButOne(s) == s = W - 1
LastSlave(s) == s = W

Collect ==
  /\ mpc = "serve"
  /\ Arrived(toMaster, from, "ATAG")
  /\ merged' = Bump(merged, Stored(from))
  /\ toSlave' = Send(toSlave, from, Stop)
  /\ toMaster' = Drop(toMaster, from)
  /\ from' = from + 1
  /\ mpc' = IF LastSlave(from) THEN "done" ELSE "serve"
  /\ UNCHANGED <<to, slaveVars, runs>>

(***************************************************************************)
(* Only the slave whose turn it is has its reads answered.                 *)
(***************************************************************************)
ServeRead ==
  /\ mpc = "serve"
  /\ AnswerRead(from)
  /\ UNCHANGED from

Master == Seed \/ EndSeed \/ Collect \/ ServeRead

-------------------------------------------------------------------------------
TakeShare(s) == SlaveStart(s, OwnOffset(s), Head(toSlave[s]).size)

(***************************************************************************)
(* A slave of a block with a reduction sends its partial results behind    *)
(* the answer.                                                             *)
(***************************************************************************)
Partial == Chunk("ATAG", 0, 1)
Partials == [k \in 1 .. Reduced |-> Partial]

Answer(s) ==
  SlaveReply(s, [toMaster EXCEPT ![s] = Append(@, Result(s, "ATAG")) \o Partials])

SlaveStep(s) ==
  /\ \/ TakeShare(s) \/ SlaveIterate(s) \/ Answer(s) \/ SlaveStop(s)
     \/ SlaveRead(s, 0 .. (NumIn - 1)) \/ SlaveGot(s)
  /\ UNCHANGED from

Finished == Over /\ UNCHANGED vars

Next == Master \/ (\E s \in Slave : SlaveStep(s)) \/ Finished

Spec == Init /\ [][Next]_vars

FairSpec ==
  /\ Spec
  /\ WF_vars(Master)
  /\ \A s \in Slave : WF_vars(SlaveStep(s))

-------------------------------------------------------------------------------
(***************************************************************************)
(* Where every variable may range.                                         *)
(***************************************************************************)
TypeOK == BlockTypeOK /\ from \in 1 .. (W + 1)

(***************************************************************************)
(* What a slave runs is what the master sent it and what the master will   *)
(* store its results over, although each works it out on its own.          *)
(***************************************************************************)
SharesAgree ==
  \A s \in Slave :
    /\ Granted(s) => Slice(Head(toSlave[s]).offset, Head(toSlave[s]).size) = Stored(s)
    /\ Working(s) \/ Returned(s) => Slice(offset[s], size[s]) = Stored(s)

(***************************************************************************)
(* A slave that asks for an element gets it, although the master does not  *)
(* look at its messages until all slaves before it have finished.          *)
(***************************************************************************)
ReadAnswered == \A s \in Slave : (spc[s] = "await") ~> (spc[s] = "got")
===============================================================================
