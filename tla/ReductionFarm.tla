----------------------------- MODULE ReductionFarm -----------------------------
(***************************************************************************)
(* A dynamically scheduled block (DynamicFarm) with a reduction clause.    *)
(* Every slave folds its iterations into its own copy of the variable,     *)
(* which it resets when it takes a chunk and sends behind the results of   *)
(* the chunk; the master folds what it receives into its variable, in the  *)
(* order in which the slaves answer.                                       *)
(*                                                                         *)
(* A value is not a number but the account of what was folded into it: how *)
(* often the term of every iteration (negative if it was taken away), how  *)
(* often the value before the loop, and how often a start value that is    *)
(* not neutral.  What holds of the account holds for every type and terms. *)
(***************************************************************************)
EXTENDS DynamicFarm

CONSTANT Operation    \* of the clause: one of "+", "-", "*", "&", "|" and "^"

VARIABLES
  value,     \* the variable in the master's memory
  partial,   \* partial[s]: the variable in the memory of slave s
  posted     \* posted[s]: the partial result behind the answer of slave s

dataVars == <<value, partial, posted>>
reductionVars == <<vars, dataVars>>

Account == [terms : [Iteration -> Int], before : Nat, stray : Nat]

Value(before, stray) ==
  [terms |-> [i \in Iteration |-> 0], before |-> before, stray |-> stray]

(***************************************************************************)
(* The value a slave starts from, 0 for + and - and 1 for all others, and  *)
(* the operations it is neutral for.                                       *)
(***************************************************************************)
StartValueZero == 0
StartValue == IF Operation \in {"+", "-"} THEN 0 ELSE 1

Neutral == IF Operation \in {"+", "-", "|", "^"} THEN 0 ELSE IF Operation = "*" THEN 1 ELSE -1

Fresh == Value(0, IF StartValue = Neutral THEN 0 ELSE 1)

(***************************************************************************)
(* name operation= work: folds w into v.                                   *)
(***************************************************************************)
Sign == IF Operation = "-" THEN -1 ELSE 1

Fold(v, w) ==
  [terms  |-> [i \in DOMAIN v.terms |-> v.terms[i] + Sign * w.terms[i]],
   before |-> v.before + w.before,
   stray  |-> v.stray + w.stray]

(***************************************************************************)
(* The code between the blocks runs in every process, so that all copies   *)
(* hold the value before the loop.                                         *)
(***************************************************************************)
ReductionInit ==
  /\ Init
  /\ value = Value(1, 0)
  /\ partial = [s \in Slave |-> Value(1, 0)]
  /\ posted = [s \in Slave |-> Value(0, 0)]

-------------------------------------------------------------------------------
ResetNever(s) == UNCHANGED dataVars

Reset(s) ==
  /\ partial' = [partial EXCEPT ![s] = Fresh]
  /\ UNCHANGED <<value, posted>>

Accumulate(s) ==
  /\ partial' = [partial EXCEPT ![s].terms[iter[s]] = @ + Sign]
  /\ UNCHANGED <<value, posted>>

Post(s) ==
  /\ posted' = [posted EXCEPT ![s] = partial[s]]
  /\ UNCHANGED <<value, partial>>

MergeLast(s) ==    \* name = work
  /\ value' = posted[s]
  /\ UNCHANGED <<partial, posted>>

Merge(s) ==
  /\ value' = Fold(value, posted[s])
  /\ UNCHANGED <<partial, posted>>

ReductionMaster ==
  \/ (Seed \/ EndSeed) /\ UNCHANGED dataVars
  \/ \E s \in Slave : \/ ServeChunk(s) /\ Merge(s)
                      \/ ServeRead(s) /\ UNCHANGED dataVars

ReductionSlave(s) ==
  /\ \/ TakeChunk(s) /\ Reset(s)
     \/ SlaveIterate(s) /\ Accumulate(s)
     \/ Answer(s) /\ Post(s)
     \/ /\ SlaveStop(s) \/ SlaveRead(s, 0 .. (NumIn - 1)) \/ SlaveGot(s)
        /\ UNCHANGED dataVars
  /\ UNCHANGED farmVars

ReductionNext ==
  \/ ReductionMaster
  \/ \E s \in Slave : ReductionSlave(s)
  \/ Finished /\ UNCHANGED dataVars

ReductionSpec == ReductionInit /\ [][ReductionNext]_reductionVars

ReductionFairSpec ==
  /\ ReductionSpec
  /\ WF_reductionVars(ReductionMaster)
  /\ \A s \in Slave : WF_reductionVars(ReductionSlave(s))

-------------------------------------------------------------------------------
(***************************************************************************)
(* At every step the variable of the master is its value before the loop   *)
(* with the terms of the merged iterations folded in, each once, and       *)
(* nothing else, in whatever order the slaves answer; so that after the    *)
(* block it is what the sequential loop computes.  True for + and *; for - *)
(* the terms come back with the wrong sign, for &, | and ^ the slaves      *)
(* start from a value that is not neutral.                                 *)
(***************************************************************************)
FoldedOnce ==
  /\ value.before = 1
  /\ value.stray = 0
  /\ \A i \in Iteration : value.terms[i] = Sign * merged[i]

(***************************************************************************)
(* At every step what a slave has run of its chunk, and nothing of earlier *)
(* chunks or of the value before the loop, is in its copy, and behind its  *)
(* answer on the way to the master.  With FoldedOnce it is the invariant   *)
(* that DynamicFarmProofs proves.                                          *)
(***************************************************************************)
Holding(account, s) ==
  /\ account.before = 0
  /\ account.stray = 0
  /\ \A i \in Iteration : account.terms[i] = IF Ran(s, i) THEN Sign ELSE 0

SlaveAccountOK(s) ==
  /\ Working(s) => Holding(partial[s], s)
  /\ Returned(s) => Holding(posted[s], s)

AccountTypeOK ==
  /\ value \in Account
  /\ partial \in [Slave -> Account]
  /\ posted \in [Slave -> Account]

AccountOK == AccountTypeOK /\ FoldedOnce /\ \A s \in Slave : SlaveAccountOK(s)
===============================================================================
