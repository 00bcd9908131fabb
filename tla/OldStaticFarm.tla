----------------------------- MODULE OldStaticFarm -----------------------------
(***************************************************************************)
(* A statically scheduled block in the first style of OMP2MPI              *)
(* (useOldStyle with schedule(static) or guided).  Every variable is a     *)
(* message of its own, received with MPI_ANY_TAG; only the tag of the last *)
(* one tells the slave whether to run or to stop.                          *)
(*                                                                         *)
(* The loop does not run backwards, and a block has some result: a block   *)
(* without would not be worth its messages (Start <= Bound and             *)
(* Outputs + Reduced > 0 for all values the constants may have).           *)
(***************************************************************************)
EXTENDS Block

CONSTANTS
  Fixed,     \* div.data has a second line: the chunk size is given
  Number,    \* the last number in div.data
  Inputs,    \* number of variables sent to the slaves (_inVars)
  Outputs,   \* number of variables sent back (_ioVars)
  Reduced    \* number of variables of the reduction clause

VARIABLES
  from,     \* master: the slave the second loop serves
  toSelf,   \* messages rank 0 has sent to itself
  got       \* got[s]: messages the slave has received in this round

extraVars == <<from, toSelf, got>>
vars == <<blockVars, extraVars>>

Init ==
  /\ BlockInit
  /\ from = 1
  /\ toSelf = <<>>
  /\ got = [s \in Slave |-> 0]

(***************************************************************************)
(* Without variables to send, the offset is sent.                          *)
(***************************************************************************)
PerRound == (IF Inputs = 0 THEN 1 ELSE Inputs) + Reduced
PerAnswer == Outputs + Reduced

(***************************************************************************)
(* Where the share of slave s lies is worked out in three places.  Without *)
(* variables to send the slave is told, and the master works out what it   *)
(* sends from the initial partSize, which is the even share only if        *)
(* div.data does not divide it.                                            *)
(***************************************************************************)
SentOffset(s) ==
  IF Inputs = 0 /\ s # W
  THEN ChunkSize(Start, Bound, W, Fixed, Number) * (s - 1)
  ELSE OldStaticOffset(Start, Bound, W, s)

OwnOffsetByRank(s, sent) ==
  IF Inputs = 0 THEN sent ELSE OldStaticOffset(Start, Bound, W, s + 1)
OwnOffset(s, sent) ==
  IF Inputs = 0 THEN sent ELSE OldStaticOffset(Start, Bound, W, s)
OwnSize(s) == StaticSize(Start, Bound, W, s)

StoredOffset(s) == OldStaticOffset(Start, Bound, W, s)
StoredSize(s) == StaticSize(Start, Bound, W, s)
Stored(s) == Slice(StoredOffset(s), StoredSize(s))

-------------------------------------------------------------------------------
(***************************************************************************)
(* for (to = 1; to < size; ++to)                                           *)
(***************************************************************************)
Parameters(s) ==
  [k \in 1 .. PerRound |-> Chunk("ATAG", SentOffset(s), OwnSize(s))]

Seed ==
  /\ mpc = "seed"
  /\ to \in Slave
  /\ toSlave' = [toSlave EXCEPT ![to] = @ \o Parameters(to)]
  /\ to' = to + 1
  /\ UNCHANGED <<mpc, slaveVars, toMaster, runs, merged, extraVars>>

EndSeed ==
  /\ mpc = "seed"
  /\ to = W + 1
  /\ mpc' = "serve"
  /\ UNCHANGED <<to, slaveVars, toSlave, toMaster, runs, merged, extraVars>>

(***************************************************************************)
(* for (from = 1; from < size; ++from)                                     *)
(***************************************************************************)
Collect ==
  /\ mpc = "serve"
  /\ from \in Slave
  /\ Len(toMaster[from]) >= PerAnswer
  /\ merged' = Bump(merged, Stored(from))
  /\ toMaster' = [toMaster EXCEPT ![from] = SubSeq(@, PerAnswer + 1, Len(@))]
  /\ from' = from + 1
  /\ UNCHANGED <<mpc, to, slaveVars, toSlave, runs, toSelf, got>>

(***************************************************************************)
(* for (s = 0; s < size; ++s): the stop message goes to rank 0 as well.    *)
(***************************************************************************)
StopAllButLast ==
  /\ mpc = "serve"
  /\ from = W + 1
  /\ toSlave' = [s \in Slave |-> IF s = W THEN toSlave[s] ELSE Append(toSlave[s], Stop)]
  /\ toSelf' = Append(toSelf, Stop)
  /\ mpc' = "done"
  /\ UNCHANGED <<to, slaveVars, toMaster, runs, merged, from, got>>

StopAll ==
  /\ mpc = "serve"
  /\ from = W + 1
  /\ toSlave' = [s \in Slave |-> Append(toSlave[s], Stop)]
  /\ toSelf' = Append(toSelf, Stop)
  /\ mpc' = "done"
  /\ UNCHANGED <<to, slaveVars, toMaster, runs, merged, from, got>>

Master == Seed \/ EndSeed \/ Collect \/ StopAll

-------------------------------------------------------------------------------
(***************************************************************************)
(* The slave receives as many messages as the block has variables, and     *)
(* looks at the tag of the last.                                           *)
(***************************************************************************)
Receive(s) ==
  /\ spc[s] = "recv"
  /\ toSlave[s] # <<>>
  /\ got[s] + 1 < PerRound
  /\ toSlave' = Drop(toSlave, s)
  /\ got' = [got EXCEPT ![s] = @ + 1]
  /\ UNCHANGED <<mpc, to, slaveVars, toMaster, runs, merged, from, toSelf>>

LastOfRound(s) ==
  /\ got[s] + 1 = PerRound
  /\ got' = [got EXCEPT ![s] = 0]
  /\ UNCHANGED <<from, toSelf>>

TakeShare(s) ==
  /\ LastOfRound(s)
  /\ SlaveStart(s, OwnOffset(s, Head(toSlave[s]).offset), OwnSize(s))

Leave(s) == LastOfRound(s) /\ SlaveStop(s)

Answers(s) == [k \in 1 .. PerAnswer |-> Result(s, "FTAG")]

Work(s) ==
  /\ \/ SlaveIterate(s)
     \/ SlaveReply(s, [toMaster EXCEPT ![s] = @ \o Answers(s)])
  /\ UNCHANGED extraVars

SlaveStep(s) == Receive(s) \/ TakeShare(s) \/ Leave(s) \/ Work(s)

Finished == Over /\ UNCHANGED vars

Next == Master \/ (\E s \in Slave : SlaveStep(s)) \/ Finished

Spec == Init /\ [][Next]_vars

FairSpec ==
  /\ Spec
  /\ WF_vars(Master)
  /\ \A s \in Slave : WF_vars(SlaveStep(s))

-------------------------------------------------------------------------------
(***************************************************************************)
(* What a slave runs lies where the master stores its results.             *)
(***************************************************************************)
SharesAgree ==
  \A s \in Slave : Working(s) => Slice(offset[s], size[s]) = Stored(s)
===============================================================================
