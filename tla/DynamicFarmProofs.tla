-------------------------- MODULE DynamicFarmProofs --------------------------
(***************************************************************************)
(* Machine-checked proofs about DynamicFarm, for every number of slaves,   *)
(* every loop and every chunk size: Inductive is an inductive invariant,   *)
(* and the safety properties follow.  The block part of ReductionFarm is   *)
(* DynamicFarm, so that the invariant holds there; with it AccountOK is    *)
(* inductive, and the reduction is right for + and *.                      *)
(***************************************************************************)
EXTENDS ReductionFarm, BlockProofs, FiniteSetTheorems

(***************************************************************************)
(* The slaves are a finite set, which Cardinality needs.                   *)
(***************************************************************************)
LEMMA SlaveFinite == IsFiniteSet(Slave) /\ Cardinality(Slave) = W
<1>1. 1 \in Int /\ W \in Int /\ ~(1 > W)
  BY BlockAssumption
<1> QED
  BY <1>1, FS_Interval DEF Slave

LEMMA InitPartNat == InitPart \in Nat
BY FarmAssumption, ChunkSizeNat DEF InitPart

-------------------------------------------------------------------------------
(***************************************************************************)
(* TypeOK holds in every reachable state: in particular a chunk is never   *)
(* of negative size.                                                       *)
(***************************************************************************)
LEMMA InitTypeOK == Init => TypeOK
BY InitPartNat, InitBlockType, BlockAssumption DEF Init, TypeOK

(***************************************************************************)
(* The outcomes of the scheduling code keep the types, whoever calls it.   *)
(***************************************************************************)
FarmTypes ==
  /\ toSlave \in [Slave -> Seq(Message)]
  /\ partSize \in Nat
  /\ followIN \in Int
  /\ killed \in Nat

LEMMA HandOutType ==
  ASSUME TypeOK, NEW s \in Slave, NEW n \in Nat, HandOut(s, n)
  PROVE  FarmTypes'
<1> USE DEF TypeOK, BlockTypeOK
<1>1. Chunk("ATAG", followIN, n) \in Message
  BY ChunkType DEF Tag
<1>2. Send(toSlave, s, Chunk("ATAG", followIN, n)) \in [Slave -> Seq(Message)]
  BY <1>1, SendType
<1> QED
  BY <1>2 DEF HandOut, FarmTypes

LEMMA DismissType ==
  ASSUME TypeOK, NEW s \in Slave, NEW p \in Nat, Dismiss(s, p)
  PROVE  FarmTypes'
<1> USE DEF TypeOK, BlockTypeOK
<1>1. Send(toSlave, s, Stop) \in [Slave -> Seq(Message)]
  BY StopType, SendType
<1> QED
  BY <1>1 DEF Dismiss, FarmTypes

LEMMA GrantType ==
  ASSUME TypeOK, NEW s \in Slave, NEW p \in Nat,
         \/ GrantFull(s, p)
         \/ GrantRest(s, p)
         \/ Dismiss(s, p)
         \/ DismissIfPast(s, p)
  PROVE  FarmTypes'
<1>1. CASE GrantFull(s, p)
  BY <1>1, HandOutType DEF GrantFull
<1>2. CASE GrantRest(s, p)
  <2>1. Bound - followIN \in Nat
    BY <1>2, BlockAssumption DEF GrantRest, TypeOK
  <2> QED
    BY <1>2, <2>1, HandOutType DEF GrantRest
<1>3. CASE Dismiss(s, p)
  BY <1>3, DismissType
<1>4. CASE DismissIfPast(s, p)
  <2>1. CASE Dismiss(s, p)
    BY <2>1, DismissType
  <2>2. CASE ~Dismiss(s, p)
    BY <1>4, <2>2 DEF DismissIfPast, TypeOK, BlockTypeOK, FarmTypes
  <2> QED
    BY <2>1, <2>2
<1> QED
  BY <1>1, <1>2, <1>3, <1>4

(***************************************************************************)
(* A slave's step is one of the shared ones and leaves the farm's          *)
(* variables alone.                                                        *)
(***************************************************************************)
LEMMA SlaveTypeOK ==
  ASSUME TypeOK, NEW s \in Slave, SlaveStep(s)
  PROVE  TypeOK'
<1>1. UNCHANGED farmVars
  BY DEF SlaveStep
<1>2. BlockTypeOK
  BY DEF TypeOK
<1>3. BlockTypeOK'
  <2>1. CASE TakeChunk(s)
    <3>1. Head(toSlave[s]).offset \in Int /\ Head(toSlave[s]).size \in Nat
      BY <2>1, <1>2, DropType DEF TakeChunk, SlaveStart, Arrived, BlockTypeOK
    <3> QED
      BY <2>1, <1>2, <3>1, StartBlockType DEF TakeChunk
  <2>2. CASE SlaveIterate(s)
    BY <2>2, <1>2, IterateBlockType
  <2>3. CASE Answer(s)
    <3>1. Result(s, "ATAG") \in Message
      BY <1>2, ChunkType DEF Result, Tag, BlockTypeOK
    <3>2. Send(toMaster, s, Result(s, "ATAG")) \in [Slave -> Seq(Message)]
      BY <1>2, <3>1, SendType DEF BlockTypeOK
    <3> QED
      BY <2>3, <1>2, <3>2, ReplyBlockType DEF Answer
  <2>4. CASE SlaveStop(s)
    BY <2>4, <1>2, StopBlockType
  <2>5. CASE SlaveRead(s, 0 .. (NumIn - 1))
    BY <2>5, <1>2, NumInAssumption, ReadBlockType
  <2>6. CASE SlaveGot(s)
    BY <2>6, <1>2, GotBlockType
  <2> QED
    BY <2>1, <2>2, <2>3, <2>4, <2>5, <2>6 DEF SlaveStep
<1> QED
  BY <1>1, <1>3 DEF TypeOK, farmVars

LEMMA NextTypeOK == TypeOK /\ [Next]_vars => TypeOK'
<1> SUFFICES ASSUME TypeOK, [Next]_vars PROVE TypeOK'
  OBVIOUS
<1> USE DEF TypeOK
<1>1. CASE Seed
  <2>1. to \in Slave /\ to' \in 1 .. (W + 1)
    BY <1>1, BlockAssumption DEF Seed, Slave
  <2>2. FarmTypes'
    BY <1>1, <2>1, GrantType DEF Seed
  <2> QED
    BY <1>1, <2>1, <2>2 DEF Seed, FarmTypes, BlockTypeOK, slaveVars, Counter
<1>2. CASE EndSeed
  BY <1>2 DEF EndSeed, BlockTypeOK, farmVars, slaveVars, Counter
<1>3. ASSUME NEW s \in Slave, ServeChunk(s) PROVE TypeOK'
  <2> DEFINE m == Head(toMaster[s])
  <2>1. /\ m.size \in Nat /\ m.offset \in Int
        /\ toMaster' \in [Slave -> Seq(Message)]
    BY <1>3, DropType DEF ServeChunk, Arrived, BlockTypeOK
  <2>2. FarmTypes'
    BY <1>3, <2>1, GrantType DEF ServeChunk
  <2>3. Counter(merged')
    BY <1>3, <2>1, SliceInt, BumpCounter DEF ServeChunk, BlockTypeOK
  <2> QED
    BY <1>3, <2>1, <2>2, <2>3
       DEF ServeChunk, FarmTypes, BlockTypeOK, slaveVars, Counter
<1>4. ASSUME NEW s \in Slave, ServeRead(s) PROVE TypeOK'
  BY <1>4, AnswerBlockType DEF ServeRead
<1>5. ASSUME NEW s \in Slave, SlaveStep(s) PROVE TypeOK'
  BY <1>5, SlaveTypeOK
<1>6. CASE UNCHANGED vars
  BY <1>6 DEF vars, blockVars, farmVars, slaveVars, BlockTypeOK, Counter
<1> QED
  BY <1>1, <1>2, <1>3, <1>4, <1>5, <1>6 DEF Next, Master, Finished

(***************************************************************************)
(* Channels, places and the variables of the master have their types; no   *)
(* chunk is ever of negative size.                                         *)
(***************************************************************************)
THEOREM TypeCorrect == Spec => []TypeOK
BY InitTypeOK, NextTypeOK, PTL DEF Spec

-------------------------------------------------------------------------------
(***************************************************************************)
(* What the invariant says of a slave depends only on its own part of the  *)
(* state.                                                                  *)
(***************************************************************************)
View(t) == <<toSlave[t], toMaster[t], spc[t], offset[t], size[t], iter[t]>>

LEMMA Frame ==
  ASSUME NEW t \in Slave, UNCHANGED View(t)
  PROVE  /\ Dismissed(t)' <=> Dismissed(t)
         /\ SlaveChunkOK(t) => SlaveChunkOK(t)'
         /\ \A i \in Iteration : (Holds(t, i)' <=> Holds(t, i)) /\ (Ran(t, i)' <=> Ran(t, i))
         /\ SlaveLockstep(t) /\ (Unseeded(t)' <=> Unseeded(t)) => SlaveLockstep(t)'
<1> USE DEF View, Granted, Working, Returned, Replied, Asks, Arrived
<1>1. Dismissed(t)' <=> Dismissed(t)
  BY DEF Dismissed
<1>2. SlaveChunkOK(t) => SlaveChunkOK(t)'
  BY DEF SlaveChunkOK, ChunkOK, SizeOK
<1>3. ASSUME NEW i \in Iteration
      PROVE  (Holds(t, i)' <=> Holds(t, i)) /\ (Ran(t, i)' <=> Ran(t, i))
  BY DEF Holds, Ran, Covers
<1>4. ASSUME SlaveLockstep(t), Unseeded(t)' <=> Unseeded(t) PROVE SlaveLockstep(t)'
  BY <1>4 DEF SlaveLockstep, Idle, SentTo, SentBy
<1> QED
  BY <1>1, <1>2, <1>3, <1>4

-------------------------------------------------------------------------------
(***************************************************************************)
(* A step of s is quiet if it moves or works on the chunk of s without     *)
(* changing which iterations s holds and has run.  Quiet steps keep the    *)
(* invariant.                                                              *)
(***************************************************************************)
Alone(s) == \A t \in Slave : t # s => UNCHANGED View(t)

Quiet(s) ==
  /\ Alone(s)
  /\ SlaveLockstep(s)'
  /\ SlaveChunkOK(s)'
  /\ Dismissed(s)' <=> Dismissed(s)
  /\ \A i \in Iteration : (Holds(s, i)' <=> Holds(s, i)) /\ (Ran(s, i)' <=> Ran(s, i))
  /\ UNCHANGED <<mpc, to, runs, merged, followIN, killed>>
  /\ mpc = "seed" => UNCHANGED partSize

LEMMA QuietInductive ==
  ASSUME Inductive, TypeOK', NEW s \in Slave, Quiet(s)
  PROVE  Inductive'
<1> USE DEF Inductive
<1>1. ASSUME NEW t \in Slave
      PROVE  /\ Dismissed(t)' <=> Dismissed(t)
             /\ SlaveChunkOK(t)'
             /\ \A i \in Iteration : (Holds(t, i)' <=> Holds(t, i)) /\ (Ran(t, i)' <=> Ran(t, i))
             /\ SlaveLockstep(t)'
  <2>1. CASE t = s
    BY <2>1 DEF Quiet
  <2>2. CASE t # s
    <3>1. Unseeded(t)' <=> Unseeded(t)
      BY DEF Quiet, Unseeded
    <3> QED
      BY <2>2, <3>1, Frame DEF Quiet, Alone, Lockstep
  <2> QED
    BY <2>1, <2>2
<1>2. Lockstep'
  BY <1>1 DEF Lockstep
<1>3. MasterOK'
  BY <1>1 DEF MasterOK, Quiet, SizeOK
<1>4. Histories'
  BY DEF Histories, Quiet
<1>5. ASSUME NEW i \in Iteration PROVE OnePlace(i)' /\ RanOnce(i)'
  <2>1. OnePlace(i)'
    BY <1>1 DEF OnePlace, Quiet
  <2>2. RanOnce(i)'
    BY <1>1 DEF RanOnce, Quiet
  <2> QED
    BY <2>1, <2>2
<1>6. KilledIsDismissed'
  <2>1. {t \in Slave : Dismissed(t)}' = {t \in Slave : Dismissed(t)}
    BY <1>1
  <2> QED
    BY <2>1 DEF KilledIsDismissed, Quiet
<1>7. Overshoot'
  BY DEF Overshoot, Quiet
<1> QED
  BY <1>1, <1>2, <1>3, <1>4, <1>5, <1>6, <1>7

(***************************************************************************)
(* All steps of a slave but the run of an iteration are quiet, and so is   *)
(* the answer to a read.                                                   *)
(***************************************************************************)
LEMMA TakeChunkQuiet ==
  ASSUME Inductive, NEW s \in Slave, TakeChunk(s), UNCHANGED farmVars
  PROVE  Quiet(s)
<1> USE DEF TypeOK, BlockTypeOK, farmVars
<1>1. TypeOK /\ SlaveLockstep(s) /\ SlaveChunkOK(s)
  BY DEF Inductive, Lockstep
<1> DEFINE m == Head(toSlave[s])
<1>2. /\ spc[s] = "recv" /\ Arrived(toSlave, s, "ATAG")
      /\ toSlave' = Drop(toSlave, s)
      /\ UNCHANGED <<mpc, to, toMaster, runs, merged>>
  BY DEF TakeChunk, SlaveStart
<1>3. /\ spc' = [spc EXCEPT ![s] = "run"]
      /\ offset' = [offset EXCEPT ![s] = m.offset]
      /\ size' = [size EXCEPT ![s] = m.size]
      /\ iter' = [iter EXCEPT ![s] = m.offset]
  BY DEF TakeChunk, SlaveStart
<1>4. /\ ~Unseeded(s) /\ Len(toSlave[s]) = 1 /\ toMaster[s] = <<>>
      /\ m.offset \in Int /\ m.size \in Nat
  BY <1>1, <1>2, DropType DEF SlaveLockstep, Idle, SentTo, SentBy, Arrived, Replied, Asks
<1>5. /\ toSlave'[s] = <<>> /\ toMaster'[s] = <<>> /\ spc'[s] = "run"
      /\ offset'[s] = m.offset /\ size'[s] = m.size /\ iter'[s] = m.offset
      /\ ~Unseeded(s)'
  BY <1>1, <1>2, <1>3, <1>4, DropLast DEF Unseeded
<1>6. Alone(s)
  BY <1>1, <1>2, <1>3, <1>4, DropLast DEF Alone, View
<1>7. SlaveLockstep(s)'
  BY <1>5 DEF SlaveLockstep, Idle
<1>8. SlaveChunkOK(s)'
  <2>1. ChunkOK(m.offset, m.size)
    BY <1>1, <1>2 DEF SlaveChunkOK, Granted
  <2> QED
    BY <1>4, <1>5, <2>1 DEF SlaveChunkOK, Granted, Working, Returned, ChunkOK, SizeOK
<1>9. ~Dismissed(s) /\ ~Dismissed(s)'
  BY <1>2, <1>5 DEF Dismissed, Arrived
<1>10. ASSUME NEW i \in Iteration
       PROVE  (Holds(s, i)' <=> Holds(s, i)) /\ (Ran(s, i)' <=> Ran(s, i))
  <2>1. Holds(s, i) <=> i \in Slice(m.offset, m.size)
    BY <1>2, <1>4 DEF Holds, Granted, Working, Returned, Replied, Covers
  <2>2. Holds(s, i)' <=> i \in Slice(m.offset, m.size)
    BY <1>5 DEF Holds, Granted, Working, Returned
  <2>3. ~Ran(s, i) /\ ~Ran(s, i)'
    BY <1>2, <1>4, <1>5 DEF Ran, Working, Returned, Replied
  <2> QED
    BY <2>1, <2>2, <2>3
<1> QED
  BY <1>2, <1>6, <1>7, <1>8, <1>9, <1>10 DEF Quiet

LEMMA AnswerQuiet ==
  ASSUME Inductive, NEW s \in Slave, Answer(s), UNCHANGED farmVars
  PROVE  Quiet(s)
<1> USE DEF TypeOK, BlockTypeOK, farmVars
<1>1. TypeOK /\ SlaveLockstep(s) /\ SlaveChunkOK(s)
  BY DEF Inductive, Lockstep
<1> DEFINE m == Result(s, "ATAG")
<1>2. /\ spc[s] = "run" /\ ~InChunk(s)
      /\ toMaster' = Send(toMaster, s, m)
      /\ spc' = [spc EXCEPT ![s] = "recv"]
      /\ UNCHANGED <<mpc, to, toSlave, offset, size, iter, runs, merged>>
  BY DEF Answer, SlaveReply
<1>3. /\ m \in Message /\ m.tag = "ATAG"
      /\ m.offset = offset[s] /\ m.size = size[s]
  BY <1>1, ChunkType DEF Result, Chunk, Tag
<1>4. ~Unseeded(s) /\ toSlave[s] = <<>> /\ toMaster[s] = <<>>
  BY <1>1, <1>2 DEF SlaveLockstep, Idle
<1> HIDE DEF m
<1>5. /\ toMaster'[s] # <<>> /\ Len(toMaster'[s]) = 1 /\ Head(toMaster'[s]) = m
      /\ toSlave'[s] = <<>> /\ spc'[s] = "recv" /\ ~Unseeded(s)'
  BY <1>1, <1>2, <1>3, <1>4, SendIdle DEF Unseeded
<1>6. Alone(s)
  BY <1>1, <1>2, <1>3, <1>4, SendIdle DEF Alone, View
<1>7. SlaveLockstep(s)'
  BY <1>3, <1>5 DEF SlaveLockstep, Idle, SentBy, Replied, Asks, Arrived
<1>8. SlaveChunkOK(s)'
  <2>1. ChunkOK(m.offset, m.size)
    BY <1>1, <1>2, <1>3 DEF SlaveChunkOK, Working
  <2> QED
    BY <1>5, <2>1 DEF SlaveChunkOK, Granted, Arrived, Working, ChunkOK, SizeOK
<1>9. ~Dismissed(s) /\ ~Dismissed(s)'
  BY <1>2, <1>4, <1>5 DEF Dismissed, Arrived
<1>10. ASSUME NEW i \in Iteration
       PROVE  (Holds(s, i)' <=> Holds(s, i)) /\ (Ran(s, i)' <=> Ran(s, i))
  <2>1. Returned(s)' /\ ~Granted(s)' /\ ~Working(s)'
    BY <1>3, <1>5 DEF Returned, Replied, Asks, Arrived, Granted, Working
  <2>2. Working(s) /\ ~Granted(s) /\ ~Returned(s)
    BY <1>2 DEF Working, Granted, Returned
  <2>3. (Holds(s, i) <=> i \in Slice(offset[s], size[s])) /\ (Holds(s, i)' <=> Covers(m, i))
    BY <1>5, <2>1, <2>2 DEF Holds, Covers
  <2>4. (Ran(s, i) <=> i \in offset[s] .. (iter[s] - 1)) /\ (Ran(s, i)' <=> Covers(m, i))
    BY <1>5, <2>1, <2>2 DEF Ran, Covers
  <2>5. iter[s] - 1 = offset[s] + size[s] - 1
    BY <1>1, <1>2, <2>2 DEF SlaveChunkOK, InChunk
  <2> QED
    BY <1>3, <2>3, <2>4, <2>5 DEF Covers, Slice
<1> QED
  BY <1>2, <1>6, <1>7, <1>8, <1>9, <1>10 DEF Quiet

LEMMA StopQuiet ==
  ASSUME Inductive, NEW s \in Slave, SlaveStop(s), UNCHANGED farmVars
  PROVE  Quiet(s)
<1> USE DEF TypeOK, BlockTypeOK, farmVars
<1>1. TypeOK /\ SlaveLockstep(s)
  BY DEF Inductive, Lockstep
<1>2. /\ spc[s] = "recv" /\ Arrived(toSlave, s, "FTAG")
      /\ spc' = [spc EXCEPT ![s] = "done"]
      /\ toSlave' = Drop(toSlave, s)
      /\ UNCHANGED <<mpc, to, toMaster, offset, size, iter, runs, merged>>
  BY DEF SlaveStop
<1>3. ~Unseeded(s) /\ Len(toSlave[s]) = 1 /\ toMaster[s] = <<>>
  BY <1>1, <1>2 DEF SlaveLockstep, Idle, SentTo, SentBy, Arrived
<1>4. /\ toSlave'[s] = <<>> /\ toMaster'[s] = <<>> /\ spc'[s] = "done"
      /\ ~Unseeded(s)'
  BY <1>1, <1>2, <1>3, DropLast DEF Unseeded
<1>5. Alone(s)
  BY <1>1, <1>2, <1>3, DropLast DEF Alone, View
<1>6. SlaveLockstep(s)'
  BY <1>4 DEF SlaveLockstep, Idle
<1>7. SlaveChunkOK(s)'
  BY <1>4 DEF SlaveChunkOK, Granted, Working, Returned
<1>8. Dismissed(s) /\ Dismissed(s)'
  BY <1>2, <1>4 DEF Dismissed
<1>9. ASSUME NEW i \in Iteration
      PROVE  /\ ~Holds(s, i) /\ ~Holds(s, i)'
             /\ ~Ran(s, i) /\ ~Ran(s, i)'
  BY <1>2, <1>3, <1>4 DEF Holds, Ran, Granted, Working, Returned, Replied, Arrived
<1> QED
  BY <1>2, <1>5, <1>6, <1>7, <1>8, <1>9 DEF Quiet

(***************************************************************************)
(* A slave that reads keeps its chunk.                                     *)
(***************************************************************************)
LEMMA SameChunk ==
  ASSUME Inductive, NEW s \in Slave,
         spc[s] \in {"run", "await", "got"}, spc'[s] \in {"run", "await", "got"},
         offset'[s] = offset[s], size'[s] = size[s], iter'[s] = iter[s],
         ~Arrived(toSlave, s, "FTAG"), ~Arrived(toSlave, s, "FTAG")'
  PROVE  /\ SlaveChunkOK(s)'
         /\ Dismissed(s)' <=> Dismissed(s)
         /\ \A i \in Iteration :
              (Holds(s, i)' <=> Holds(s, i)) /\ (Ran(s, i)' <=> Ran(s, i))
<1>1. /\ Working(s) /\ ~Granted(s) /\ ~Returned(s)
      /\ Working(s)' /\ ~Granted(s)' /\ ~Returned(s)'
  BY DEF Working, Granted, Returned
<1>2. SlaveChunkOK(s)'
  BY <1>1 DEF Inductive, SlaveChunkOK, ChunkOK, SizeOK
<1>3. ~Dismissed(s) /\ ~Dismissed(s)'
  BY DEF Dismissed
<1> QED
  BY <1>1, <1>2, <1>3 DEF Holds, Ran

LEMMA ReadQuiet ==
  ASSUME Inductive, NEW s \in Slave, SlaveRead(s, 0 .. (NumIn - 1)), UNCHANGED farmVars
  PROVE  Quiet(s)
<1> USE DEF TypeOK, BlockTypeOK, farmVars
<1>1. TypeOK /\ SlaveLockstep(s)
  BY DEF Inductive, Lockstep
<1>2. PICK v \in 0 .. (NumIn - 1) : toMaster' = Send(toMaster, s, Element(v))
  BY DEF SlaveRead
<1>3. /\ spc[s] = "run"
      /\ spc' = [spc EXCEPT ![s] = "await"]
      /\ UNCHANGED <<mpc, to, toSlave, offset, size, iter, runs, merged>>
  BY DEF SlaveRead
<1>4. Element(v) \in Message /\ Element(v).tag = "RTAG"
  BY NumInAssumption, ElementType DEF Element, Chunk
<1>5. ~Unseeded(s) /\ toSlave[s] = <<>> /\ toMaster[s] = <<>>
  BY <1>1, <1>3 DEF SlaveLockstep, Idle
<1>6. /\ toMaster'[s] # <<>> /\ Len(toMaster'[s]) = 1
      /\ Head(toMaster'[s]).tag = "RTAG"
      /\ toSlave'[s] = <<>> /\ spc'[s] = "await" /\ ~Unseeded(s)'
  BY <1>1, <1>2, <1>3, <1>4, <1>5, SendIdle DEF Unseeded
<1>7. Alone(s)
  BY <1>1, <1>2, <1>3, <1>4, <1>5, SendIdle DEF Alone, View
<1>8. SlaveLockstep(s)'
  BY <1>6 DEF SlaveLockstep, SentBy, Asks, Arrived
<1> QED
  BY <1>3, <1>5, <1>6, <1>7, <1>8, SameChunk DEF Quiet, Arrived

LEMMA GotQuiet ==
  ASSUME Inductive, NEW s \in Slave, SlaveGot(s), UNCHANGED farmVars
  PROVE  Quiet(s)
<1> USE DEF TypeOK, BlockTypeOK, farmVars
<1>1. TypeOK /\ SlaveLockstep(s)
  BY DEF Inductive, Lockstep
<1>2. /\ spc[s] = "await" /\ Arrived(toSlave, s, "RTAG")
      /\ spc' = [spc EXCEPT ![s] = "got"]
      /\ toSlave' = Drop(toSlave, s)
      /\ UNCHANGED <<mpc, to, toMaster, offset, size, iter, runs, merged>>
  BY DEF SlaveGot
<1>3. ~Unseeded(s) /\ Len(toSlave[s]) = 1 /\ toMaster[s] = <<>>
  BY <1>1, <1>2 DEF SlaveLockstep, SentTo, SentBy, Arrived
<1>4. /\ toSlave'[s] = <<>> /\ toMaster'[s] = <<>> /\ spc'[s] = "got"
      /\ ~Unseeded(s)'
  BY <1>1, <1>2, <1>3, DropLast DEF Unseeded
<1>5. Alone(s)
  BY <1>1, <1>2, <1>3, DropLast DEF Alone, View
<1>6. SlaveLockstep(s)'
  BY <1>4 DEF SlaveLockstep, Idle
<1> QED
  BY <1>2, <1>4, <1>5, <1>6, SameChunk DEF Quiet, Arrived

LEMMA ServeReadQuiet ==
  ASSUME Inductive, NEW s \in Slave, ServeRead(s)
  PROVE  Quiet(s)
<1> USE DEF TypeOK, BlockTypeOK
<1>1. TypeOK /\ SlaveLockstep(s)
  BY DEF Inductive, Lockstep
<1> DEFINE m == Element(Head(toMaster[s]).size)
<1>2. /\ mpc = "serve" /\ Arrived(toMaster, s, "RTAG")
      /\ toSlave' = Send(toSlave, s, m)
      /\ toMaster' = Drop(toMaster, s)
      /\ UNCHANGED <<mpc, to, spc, offset, size, iter, runs, merged, followIN, killed>>
  BY DEF ServeRead, AnswerRead, slaveVars
<1>3. m \in Message /\ m.tag = "RTAG"
  BY <1>1, <1>2, DropType, ElementType DEF Arrived, Element, Chunk
<1>4. /\ spc[s] = "await" /\ ~Unseeded(s)
      /\ toSlave[s] = <<>> /\ Len(toMaster[s]) = 1
  BY <1>1, <1>2
     DEF SlaveLockstep, Idle, SentTo, SentBy, Asks, Replied, Arrived, Unseeded
<1> HIDE DEF m
<1>5. /\ toSlave'[s] # <<>> /\ Len(toSlave'[s]) = 1 /\ Head(toSlave'[s]) = m
      /\ toMaster'[s] = <<>> /\ spc'[s] = "await" /\ ~Unseeded(s)'
  BY <1>1, <1>2, <1>3, <1>4, SendIdle, DropLast DEF Unseeded
<1>6. Alone(s)
  BY <1>1, <1>2, <1>3, <1>4, SendIdle, DropLast DEF Alone, View
<1>7. SlaveLockstep(s)'
  BY <1>3, <1>5 DEF SlaveLockstep, SentTo, Arrived
<1> QED
  BY <1>2, <1>3, <1>4, <1>5, <1>6, <1>7, SameChunk DEF Quiet, Arrived

-------------------------------------------------------------------------------
(***************************************************************************)
(* What a slave has run it still holds.                                    *)
(***************************************************************************)
LEMMA RanIsHeld ==
  ASSUME Inductive, NEW s \in Slave, NEW i \in Iteration, Ran(s, i)
  PROVE  Holds(s, i)
<1>1. CASE Working(s) /\ i \in offset[s] .. (iter[s] - 1)
  <2>1. offset[s] \in Int /\ size[s] \in Nat /\ iter[s] \in Int
    BY DEF Inductive, TypeOK, BlockTypeOK
  <2>2. iter[s] <= offset[s] + size[s]
    BY <1>1 DEF Inductive, SlaveChunkOK
  <2>3. i \in Slice(offset[s], size[s])
    BY <1>1, <2>1, <2>2 DEF Slice
  <2> QED
    BY <1>1, <2>3 DEF Holds
<1>2. CASE Returned(s) /\ Covers(Head(toMaster[s]), i)
  BY <1>2 DEF Holds
<1> QED
  BY <1>1, <1>2 DEF Ran

(***************************************************************************)
(* The iteration a slave runs is its own and has not run before.           *)
(***************************************************************************)
LEMMA IterateFresh ==
  ASSUME Inductive, NEW s \in Slave, spc[s] \in {"run", "got"}, InChunk(s)
  PROVE  /\ iter[s] \in Iteration
         /\ iter[s] \in Slice(offset[s], size[s])
         /\ runs[iter[s]] = 0
<1>1. Working(s) /\ ~Returned(s)
  BY DEF Working, Returned
<1>2. /\ offset[s] <= iter[s] /\ iter[s] < offset[s] + size[s]
      /\ Start <= offset[s] /\ offset[s] + size[s] <= Bound
      /\ offset[s] \in Int /\ size[s] \in Nat /\ iter[s] \in Int
  BY <1>1 DEF Inductive, TypeOK, BlockTypeOK, SlaveChunkOK, ChunkOK, InChunk
<1>3. iter[s] \in Iteration /\ iter[s] \in Slice(offset[s], size[s])
  BY <1>2, InsideLoop
<1>4. PICK i \in Iteration : i = iter[s]
  BY <1>3
<1>5. Holds(s, i)
  BY <1>1, <1>3, <1>4 DEF Holds
<1>6. OnePlace(i) /\ RanOnce(i)
  BY DEF Inductive
<1>7. ASSUME NEW t \in Slave, Ran(t, i) PROVE FALSE
  <2>1. t = s
    BY <1>5, <1>6, <1>7, RanIsHeld DEF OnePlace
  <2> QED
    BY <1>1, <1>2, <1>4, <1>7, <2>1 DEF Ran
<1>8. runs[i] = 0
  BY <1>5, <1>6, <1>7 DEF OnePlace, RanOnce
<1> QED
  BY <1>3, <1>4, <1>8

LEMMA IterateInductive ==
  ASSUME Inductive, TypeOK', NEW s \in Slave, SlaveIterate(s), UNCHANGED farmVars
  PROVE  Inductive'
<1> DEFINE i0 == iter[s]
<1>1. /\ TypeOK /\ SlaveLockstep(s) /\ SlaveChunkOK(s) /\ Histories
      /\ \A i \in Iteration : OnePlace(i) /\ RanOnce(i)
  BY DEF Inductive, Lockstep
<1>2. /\ spc[s] \in {"run", "got"} /\ InChunk(s)
      /\ runs' = Bump(runs, {i0})
      /\ iter' = [iter EXCEPT ![s] = @ + 1]
      /\ spc' = [spc EXCEPT ![s] = "run"]
      /\ UNCHANGED <<mpc, to, toSlave, toMaster, offset, size, merged, followIN, killed, partSize>>
  BY DEF SlaveIterate, farmVars
<1>3. iter'[s] = i0 + 1 /\ spc'[s] = "run" /\ offset'[s] = offset[s] /\ size'[s] = size[s]
  BY <1>1, <1>2 DEF TypeOK, BlockTypeOK
<1>4. /\ Working(s) /\ ~Granted(s) /\ ~Returned(s)
      /\ Working(s)' /\ ~Granted(s)' /\ ~Returned(s)'
  BY <1>2, <1>3 DEF Working, Granted, Returned
<1>5. /\ offset[s] <= i0 /\ i0 < offset[s] + size[s]
      /\ Start <= offset[s] /\ offset[s] + size[s] <= Bound
      /\ offset[s] \in Int /\ size[s] \in Nat /\ i0 \in Int
  BY <1>1, <1>2, <1>4 DEF TypeOK, BlockTypeOK, SlaveChunkOK, ChunkOK, InChunk
<1>6. i0 \in Iteration /\ runs[i0] = 0
  BY <1>2, IterateFresh
<1>7. Alone(s)
  BY <1>1, <1>2 DEF TypeOK, BlockTypeOK, Alone, View
<1>8. ASSUME NEW t \in Slave
      PROVE  /\ SlaveLockstep(t)' /\ SlaveChunkOK(t)'
             /\ Dismissed(t)' <=> Dismissed(t)
             /\ \A i \in Iteration : Holds(t, i)' <=> Holds(t, i)
  <2>1. Unseeded(t)' <=> Unseeded(t)
    BY <1>2 DEF Unseeded
  <2>2. CASE t # s
    BY <1>7, <2>1, <2>2, Frame DEF Alone, Inductive, Lockstep
  <2>3. CASE t = s
    <3>1. Idle(s) /\ ~Unseeded(s)
      BY <1>1, <1>2 DEF SlaveLockstep
    <3>2. SlaveLockstep(s)'
      BY <1>2, <1>3, <2>1, <2>3, <3>1 DEF SlaveLockstep, Idle
    <3>3. SlaveChunkOK(s)'
      BY <1>1, <1>3, <1>4, <1>5 DEF SlaveChunkOK, ChunkOK, SizeOK
    <3>4. ~Dismissed(s) /\ ~Dismissed(s)'
      BY <1>2, <1>3, <3>1 DEF Dismissed, Idle, Arrived
    <3> QED
      BY <1>3, <1>4, <2>3, <3>2, <3>3, <3>4 DEF Holds
  <2> QED
    BY <2>2, <2>3
<1>9. ASSUME NEW i \in Iteration PROVE OnePlace(i)'
  BY <1>1, <1>2, <1>8 DEF OnePlace
<1>10. Histories'
  BY <1>1, <1>2, <1>6, BumpHistory DEF Histories
<1>11. ASSUME NEW i \in Iteration PROVE RanOnce(i)'
  <2>1. ASSUME NEW t \in Slave PROVE Ran(t, i)' <=> Ran(t, i) \/ (t = s /\ i = i0)
    <3>1. CASE t # s
      BY <1>7, <3>1, Frame DEF Alone
    <3>2. CASE t = s
      <4>1. Ran(s, i) <=> i \in offset[s] .. (i0 - 1)
        BY <1>4 DEF Ran
      <4>2. Ran(s, i)' <=> i \in offset'[s] .. (iter'[s] - 1)
        BY <1>4 DEF Ran
      <4> QED
        BY <1>3, <1>5, <3>2, <4>1, <4>2, BlockAssumption DEF Iteration
    <3> QED
      BY <3>1, <3>2
  <2>2. runs'[i] = IF i = i0 THEN runs[i] + 1 ELSE runs[i]
    BY <1>1, <1>2, <1>6 DEF TypeOK, BlockTypeOK, Bump, Histories, Counter
  <2>3. CASE i # i0
    BY <1>1, <1>2, <2>1, <2>2, <2>3 DEF RanOnce
  <2>4. CASE i = i0
    BY <1>2, <1>6, <2>1, <2>2, <2>4 DEF RanOnce
  <2> QED
    BY <2>3, <2>4
<1>12. MasterOK'
  BY <1>2, <1>8 DEF Inductive, MasterOK, SizeOK
<1>13. KilledIsDismissed'
  <2>1. {t \in Slave : Dismissed(t)}' = {t \in Slave : Dismissed(t)}
    BY <1>8
  <2> QED
    BY <1>2, <2>1 DEF Inductive, KilledIsDismissed
<1>14. Overshoot'
  BY <1>2 DEF Inductive, Overshoot
<1> QED
  BY <1>8, <1>9, <1>10, <1>11, <1>12, <1>13, <1>14 DEF Inductive, Lockstep

-------------------------------------------------------------------------------
(***************************************************************************)
(* The master serves s: it takes the result of s, if there is one, and s   *)
(* waits with nothing in either channel until the scheduling code has sent *)
(* something.                                                              *)
(***************************************************************************)
Serving(s) ==
  /\ Alone(s)
  /\ spc[s] = "recv" /\ spc'[s] = "recv"
  /\ toSlave[s] = <<>> /\ toMaster'[s] = <<>>
  /\ ~Unseeded(s)'
  /\ \A t \in Slave : t # s => (Unseeded(t)' <=> Unseeded(t))
  /\ \A i \in Iteration : /\ merged'[i] = IF Holds(s, i) THEN 1 ELSE merged[i]
                          /\ Ran(s, i) <=> Holds(s, i)
  /\ merged' \in [Iteration -> Nat]
  /\ UNCHANGED runs
  /\ mpc' # "seed" => to' = W + 1
  /\ mpc' = "done" => killed' = W

LEMMA OthersKept ==
  ASSUME Inductive, NEW s \in Slave, Serving(s), NEW t \in Slave, t # s
  PROVE  /\ SlaveLockstep(t)' /\ SlaveChunkOK(t)'
         /\ Dismissed(t)' <=> Dismissed(t)
         /\ \A i \in Iteration : (Holds(t, i)' <=> Holds(t, i)) /\ (Ran(t, i)' <=> Ran(t, i))
BY Frame DEF Inductive, Lockstep, Serving, Alone

(***************************************************************************)
(* Where an iteration is, and how often it ran, after s was served: s now  *)
(* holds the iterations from followIN to the new followIN.                 *)
(***************************************************************************)
LEMMA ServedPlaces ==
  ASSUME Inductive, TypeOK', NEW s \in Slave, Serving(s), NEW i \in Iteration,
         followIN <= followIN',
         Holds(s, i)' <=> (followIN <= i /\ i < followIN'),
         ~Ran(s, i)'
  PROVE  OnePlace(i)' /\ RanOnce(i)'
<1>1. OnePlace(i) /\ RanOnce(i)
  BY DEF Inductive
<1>2. i \in Int /\ followIN \in Int /\ followIN' \in Int
  BY BlockAssumption DEF Inductive, TypeOK, Iteration
<1>3. \A t \in Slave : t # s => (Holds(t, i)' <=> Holds(t, i)) /\ (Ran(t, i)' <=> Ran(t, i))
  BY OthersKept
<1>4. /\ merged'[i] = IF Holds(s, i) THEN 1 ELSE merged[i]
      /\ Ran(s, i) <=> Holds(s, i)
      /\ runs'[i] = runs[i]
  BY DEF Serving
<1>5. OnePlace(i)'
  <2>1. ASSUME NEW t \in Slave, NEW u \in Slave, Holds(t, i)', Holds(u, i)'
        PROVE  t = u
    BY <1>1, <1>2, <1>3, <2>1 DEF OnePlace
  <2>2. merged'[i] \in {0, 1}
    BY <1>1, <1>4 DEF OnePlace
  <2>3. ASSUME NEW t \in Slave, merged'[i] = 1 PROVE ~Holds(t, i)'
    BY <1>1, <1>2, <1>3, <1>4, <2>3 DEF OnePlace
  <2>4. i < followIN' <=> (merged'[i] = 1 \/ \E t \in Slave : Holds(t, i)')
    BY <1>1, <1>2, <1>3, <1>4 DEF OnePlace
  <2> QED
    BY <2>1, <2>2, <2>3, <2>4 DEF OnePlace
<1>6. RanOnce(i)'
  <2>1. (merged'[i] = 1 \/ \E t \in Slave : Ran(t, i)')
          <=> (merged[i] = 1 \/ \E t \in Slave : Ran(t, i))
    BY <1>1, <1>3, <1>4 DEF OnePlace
  <2> QED
    BY <1>1, <1>4, <2>1 DEF RanOnce
<1> QED
  BY <1>5, <1>6

(***************************************************************************)
(* Handing out a chunk that lies inside the loop keeps the invariant.      *)
(***************************************************************************)
LEMMA OvershootBound == killed \in Nat => 0 <= killed * InitPart
BY InitPartNat

LEMMA HandOutInductive ==
  ASSUME Inductive, TypeOK', NEW s \in Slave, NEW n \in Nat,
         Serving(s), HandOut(s, n), ChunkOK(followIN, n),
         InitPart = 0 => followIN + n < Bound
  PROVE  Inductive'
<1> DEFINE m == Chunk("ATAG", followIN, n)
<1>1. /\ toSlave' = Send(toSlave, s, m)
      /\ followIN' = followIN + n
      /\ partSize' = n
      /\ killed' = killed
  BY DEF HandOut
<1>2. /\ followIN \in Int /\ killed \in Nat
      /\ toSlave \in [Slave -> Seq(Message)]
      /\ m \in Message /\ m.tag = "ATAG" /\ m.offset = followIN /\ m.size = n
  BY ChunkType DEF Inductive, TypeOK, BlockTypeOK, Chunk, Tag
<1> HIDE DEF m
<1>3. /\ spc[s] = "recv" /\ spc'[s] = "recv" /\ toSlave[s] = <<>>
      /\ toMaster'[s] = <<>> /\ ~Unseeded(s)'
  BY DEF Serving
<1>4. toSlave'[s] # <<>> /\ Len(toSlave'[s]) = 1 /\ Head(toSlave'[s]) = m
  BY <1>1, <1>2, <1>3, SendIdle
<1>5. /\ Granted(s)' /\ ~Working(s)' /\ ~Returned(s)'
      /\ ~Dismissed(s) /\ ~Dismissed(s)'
  BY <1>2, <1>3, <1>4 DEF Granted, Arrived, Working, Returned, Replied, Dismissed
<1>6. SlaveLockstep(s)'
  BY <1>2, <1>3, <1>4 DEF SlaveLockstep, SentTo, Arrived
<1>7. SlaveChunkOK(s)'
  BY <1>2, <1>4, <1>5 DEF SlaveChunkOK, ChunkOK, SizeOK
<1>8. ASSUME NEW t \in Slave
      PROVE  SlaveLockstep(t)' /\ SlaveChunkOK(t)' /\ (Dismissed(t)' <=> Dismissed(t))
  BY <1>5, <1>6, <1>7, OthersKept
<1>9. ASSUME NEW i \in Iteration PROVE OnePlace(i)' /\ RanOnce(i)'
  <2>1. i \in Int
    BY BlockAssumption DEF Iteration
  <2>2. Holds(s, i)' <=> Covers(m, i)
    BY <1>4, <1>5 DEF Holds, Covers
  <2>3. Holds(s, i)' <=> (followIN <= i /\ i < followIN')
    BY <1>1, <1>2, <2>1, <2>2 DEF Covers, Slice
  <2>4. ~Ran(s, i)'
    BY <1>5 DEF Ran
  <2> QED
    BY <1>1, <1>2, <2>3, <2>4, ServedPlaces
<1>10. MasterOK'
  <2>1. /\ Start <= followIN
        /\ (\E t \in Slave : Dismissed(t)) => Bound <= followIN
    BY DEF Inductive, MasterOK
  <2>2. (\E t \in Slave : Dismissed(t)') => (\E t \in Slave : Dismissed(t))
    BY <1>8
  <2>3. SizeOK(n)
    BY DEF ChunkOK
  <2> QED
    BY <1>1, <1>2, <2>1, <2>2, <2>3, BlockAssumption DEF MasterOK, Serving, SizeOK
<1>11. Histories'
  BY DEF Inductive, Histories, Serving
<1>12. KilledIsDismissed'
  <2>1. {t \in Slave : Dismissed(t)}' = {t \in Slave : Dismissed(t)}
    BY <1>8
  <2> QED
    BY <1>1, <2>1 DEF Inductive, KilledIsDismissed
<1>13. Overshoot'
  <2> DEFINE slack == killed * InitPart
  <2>1. 0 <= slack /\ slack \in Int
    BY <1>2, InitPartNat, OvershootBound
  <2>2. followIN + n <= Bound
    BY DEF ChunkOK
  <2>3. followIN <= (IF Start < Bound THEN Bound ELSE Start) + slack
    BY DEF Inductive, Overshoot
  <2> HIDE DEF slack
  <2>4. followIN + n <= (IF Start < Bound THEN Bound ELSE Start) + slack
    BY <1>2, <2>1, <2>2, <2>3, BlockAssumption
  <2> QED
    BY <1>1, <2>4 DEF Overshoot, slack
<1> QED
  BY <1>8, <1>9, <1>10, <1>11, <1>12, <1>13 DEF Inductive, Lockstep

(***************************************************************************)
(* So does telling a slave to stop when nothing is left.                   *)
(***************************************************************************)
LEMMA DismissInductive ==
  ASSUME Inductive, TypeOK', NEW s \in Slave, NEW p \in Nat,
         Serving(s), Dismiss(s, p), SizeOK(p), Bound <= followIN
  PROVE  Inductive'
<1>1. /\ toSlave' = Send(toSlave, s, Stop)
      /\ followIN' = followIN + p
      /\ partSize' = p
      /\ killed' = killed + 1
  BY DEF Dismiss
<1>2. /\ followIN \in Int /\ killed \in Nat
      /\ toSlave \in [Slave -> Seq(Message)]
      /\ Stop \in Message /\ Stop.tag = "FTAG"
  BY StopType DEF Inductive, TypeOK, BlockTypeOK, Stop, Chunk
<1>3. /\ spc[s] = "recv" /\ spc'[s] = "recv" /\ toSlave[s] = <<>>
      /\ toMaster'[s] = <<>> /\ ~Unseeded(s)'
  BY DEF Serving
<1>4. toSlave'[s] # <<>> /\ Len(toSlave'[s]) = 1 /\ Head(toSlave'[s]).tag = "FTAG"
  BY <1>1, <1>2, <1>3, SendIdle
<1>5. /\ ~Granted(s)' /\ ~Working(s)' /\ ~Returned(s)'
      /\ ~Dismissed(s) /\ Dismissed(s)'
  BY <1>3, <1>4 DEF Granted, Arrived, Working, Returned, Replied, Dismissed
<1>6. SlaveLockstep(s)'
  BY <1>3, <1>4 DEF SlaveLockstep, SentTo, Arrived
<1>7. SlaveChunkOK(s)'
  BY <1>5 DEF SlaveChunkOK
<1>8. ASSUME NEW t \in Slave
      PROVE  /\ SlaveLockstep(t)' /\ SlaveChunkOK(t)'
             /\ Dismissed(t)' <=> Dismissed(t) \/ t = s
  BY <1>5, <1>6, <1>7, OthersKept
<1>9. ASSUME NEW i \in Iteration PROVE OnePlace(i)' /\ RanOnce(i)'
  <2>1. i \in Int /\ i < Bound
    BY BlockAssumption DEF Iteration
  <2>2. ~Holds(s, i)' /\ ~Ran(s, i)'
    BY <1>5 DEF Holds, Ran
  <2>3. followIN <= followIN' /\ ~(followIN <= i)
    BY <1>1, <1>2, <2>1, BlockAssumption
  <2> QED
    BY <2>2, <2>3, ServedPlaces
<1>10. MasterOK'
  <2>1. /\ Start <= followIN
        /\ InitPart = 0 => followIN < Bound
    BY DEF Inductive, MasterOK
  <2> QED
    BY <1>1, <1>2, <2>1, BlockAssumption DEF MasterOK, Serving, SizeOK
<1>11. Histories'
  BY DEF Inductive, Histories, Serving
<1>12. KilledIsDismissed'
  <2> DEFINE D == {t \in Slave : Dismissed(t)}
  <2>1. {t \in Slave : Dismissed(t)}' = D \cup {s} /\ s \notin D
    BY <1>5, <1>8
  <2>2. IsFiniteSet(D)
    <3>1. D \in SUBSET Slave
      OBVIOUS
    <3> QED
      BY <3>1, SlaveFinite, FS_Subset
  <2>3. Cardinality(D \cup {s}) = Cardinality(D) + 1
    BY <2>1, <2>2, FS_AddElement
  <2> QED
    BY <1>1, <2>1, <2>3 DEF Inductive, KilledIsDismissed
<1>13. Overshoot'
  <2> DEFINE slack == killed * InitPart
             most == IF Start < Bound THEN Bound ELSE Start
  <2>1. /\ followIN <= most + slack
        /\ (killed + 1) * InitPart = slack + InitPart
        /\ slack \in Int /\ most \in Int /\ InitPart \in Nat /\ p <= InitPart
    BY <1>2, InitPartNat, BlockAssumption DEF Inductive, Overshoot, SizeOK
  <2> HIDE DEF slack, most
  <2>2. followIN + p <= most + (slack + InitPart)
    BY <1>2, <2>1
  <2> QED
    BY <1>1, <2>1, <2>2 DEF Overshoot, most
<1> QED
  BY <1>8, <1>9, <1>10, <1>11, <1>12, <1>13 DEF Inductive, Lockstep

-------------------------------------------------------------------------------
(***************************************************************************)
(* The scheduling code as a whole: a grant lies inside the loop, and in    *)
(* the serving loop, too, a slave that gets no chunk is always told to     *)
(* stop.                                                                   *)
(***************************************************************************)
Schedule(s, p) ==
  \/ GrantFull(s, p)
  \/ GrantRest(s, p)
  \/ NothingLeft(p) /\ Dismiss(s, p)
  \/ NothingLeft(p) /\ DismissIfPast(s, p)

LEMMA ScheduleOutcome ==
  ASSUME Inductive, NEW s \in Slave, NEW p \in Nat, SizeOK(p), Schedule(s, p)
  PROVE  \/ \E n \in Nat : /\ HandOut(s, n)
                           /\ ChunkOK(followIN, n)
                           /\ InitPart = 0 => followIN + n < Bound
         \/ Dismiss(s, p) /\ Bound <= followIN
<1>1. /\ Start <= followIN /\ followIN \in Int
      /\ InitPart = 0 => followIN < Bound
      /\ Start \in Int /\ Bound \in Int /\ InitPart \in Nat
  BY BlockAssumption, InitPartNat DEF Inductive, TypeOK, MasterOK
<1>2. CASE GrantFull(s, p)
  BY <1>1, <1>2 DEF GrantFull, ChunkOK
<1>3. CASE GrantRest(s, p)
  <2> DEFINE n == Bound - followIN
  <2>1. n \in Nat /\ n > 0 /\ n <= p /\ followIN + n = Bound /\ HandOut(s, n)
    BY <1>1, <1>3 DEF GrantRest
  <2> HIDE DEF n
  <2>2. InitPart # 0 /\ ChunkOK(followIN, n)
    BY <1>1, <2>1 DEF ChunkOK, SizeOK
  <2> QED
    BY <2>1, <2>2
<1>4. CASE NothingLeft(p) /\ Dismiss(s, p)
  BY <1>1, <1>4 DEF NothingLeft
<1>5. CASE NothingLeft(p) /\ DismissIfPast(s, p)
  <2>1. Bound <= followIN /\ followIN + p > Bound
    BY <1>1, <1>5 DEF NothingLeft, SizeOK
  <2> QED
    BY <1>5, <2>1 DEF DismissIfPast
<1> QED
  BY <1>2, <1>3, <1>4, <1>5 DEF Schedule

LEMMA ScheduleInductive ==
  ASSUME Inductive, TypeOK', NEW s \in Slave, NEW p \in Nat, SizeOK(p),
         Schedule(s, p), Serving(s)
  PROVE  Inductive'
<1>1. CASE Dismiss(s, p) /\ Bound <= followIN
  BY <1>1, DismissInductive
<1>2. ASSUME NEW n \in Nat, HandOut(s, n), ChunkOK(followIN, n),
             InitPart = 0 => followIN + n < Bound
      PROVE  Inductive'
  BY <1>2, HandOutInductive
<1> QED
  BY <1>1, <1>2, ScheduleOutcome

(***************************************************************************)
(* It sends to s only.                                                     *)
(***************************************************************************)
LEMMA ScheduleAlone ==
  ASSUME Inductive, NEW s \in Slave, NEW p \in Nat, SizeOK(p), Schedule(s, p),
         NEW t \in Slave, t # s
  PROVE  toSlave'[t] = toSlave[t]
<1>1. toSlave \in [Slave -> Seq(Message)]
  BY DEF Inductive, TypeOK, BlockTypeOK
<1>2. CASE Dismiss(s, p)
  BY <1>1, <1>2 DEF Dismiss, Send
<1>3. ASSUME NEW n \in Nat, HandOut(s, n) PROVE toSlave'[t] = toSlave[t]
  BY <1>1, <1>3 DEF HandOut, Send
<1> QED
  BY <1>2, <1>3, ScheduleOutcome

LEMMA SeedInductive ==
  ASSUME Inductive, TypeOK', NEW s \in Slave, s = to, Seed
  PROVE  Inductive'
<1>1. /\ mpc = "seed" /\ mpc' = "seed" /\ to' = s + 1
      /\ Schedule(s, partSize)
      /\ UNCHANGED <<spc, offset, size, iter, toMaster, runs, merged>>
  BY DEF Seed, Schedule, slaveVars
<1>2. partSize \in Nat /\ SizeOK(partSize)
  BY <1>1 DEF Inductive, TypeOK, MasterOK
<1>3. s \in Int /\ W \in Int
  BY BlockAssumption DEF Slave
<1>4. Unseeded(s) /\ ~Unseeded(s)'
  BY <1>1, <1>3 DEF Unseeded
<1>5. spc[s] = "recv" /\ toSlave[s] = <<>> /\ toMaster[s] = <<>>
  <2>1. SlaveLockstep(s) /\ spc[s] \in {"recv", "run", "await", "got", "done"}
    BY <1>1 DEF Inductive, Lockstep, TypeOK, BlockTypeOK
  <2> QED
    BY <1>4, <2>1 DEF SlaveLockstep, Idle
<1>6. ASSUME NEW i \in Iteration PROVE ~Holds(s, i) /\ ~Ran(s, i)
  BY <1>5 DEF Holds, Ran, Granted, Working, Returned, Replied, Arrived
<1>7. ASSUME NEW t \in Slave, t # s
      PROVE  UNCHANGED View(t) /\ (Unseeded(t)' <=> Unseeded(t))
  <2>1. toSlave'[t] = toSlave[t]
    BY <1>1, <1>2, <1>7, ScheduleAlone
  <2>2. t \in Int
    BY BlockAssumption DEF Slave
  <2> QED
    BY <1>1, <1>3, <1>7, <2>1, <2>2 DEF View, Unseeded
<1>8. Serving(s)
  <2>1. merged \in [Iteration -> Nat]
    BY DEF Inductive, Histories
  <2> QED
    BY <1>1, <1>4, <1>5, <1>6, <1>7, <2>1 DEF Serving, Alone
<1> QED
  BY <1>1, <1>2, <1>8, ScheduleInductive

LEMMA ServeChunkInductive ==
  ASSUME Inductive, TypeOK', NEW s \in Slave, ServeChunk(s)
  PROVE  Inductive'
<1> DEFINE m == Head(toMaster[s])
<1>1. /\ mpc = "serve" /\ mpc' \in {"serve", "done"}
      /\ mpc' = "done" => killed' = W
      /\ Arrived(toMaster, s, "ATAG")
      /\ merged' = Bump(merged, Slice(m.offset, m.size))
      /\ Schedule(s, m.size)
      /\ toMaster' = Drop(toMaster, s)
      /\ UNCHANGED <<to, spc, offset, size, iter, runs>>
  BY DEF ServeChunk, Schedule, slaveVars, AllKilled
<1>2. /\ TypeOK /\ SlaveLockstep(s) /\ SlaveChunkOK(s)
      /\ spc[s] \in {"recv", "run", "await", "got", "done"}
      /\ toMaster \in [Slave -> Seq(Message)]
      /\ to = W + 1
  BY <1>1 DEF Inductive, Lockstep, TypeOK, BlockTypeOK, MasterOK
<1>3. m.offset \in Int /\ m.size \in Nat
  BY <1>1, <1>2, DropType DEF Arrived
<1>4. /\ spc[s] = "recv" /\ Returned(s) /\ toSlave[s] = <<>>
      /\ Len(toMaster[s]) = 1
  BY <1>1, <1>2
     DEF SlaveLockstep, Idle, SentTo, SentBy, Asks, Replied, Arrived, Unseeded, Returned
<1>5. /\ ChunkOK(m.offset, m.size) /\ ~Granted(s) /\ ~Working(s)
  BY <1>2, <1>4 DEF SlaveChunkOK, Granted, Working, Arrived
<1> HIDE DEF m
<1>6. SizeOK(m.size) /\ Start <= m.offset /\ m.offset + m.size <= Bound
  BY <1>5 DEF ChunkOK
<1>7. ASSUME NEW i \in Iteration
      PROVE  /\ Holds(s, i) <=> i \in Slice(m.offset, m.size)
             /\ Ran(s, i) <=> Holds(s, i)
  BY <1>4, <1>5 DEF Holds, Ran, Covers, m
<1>8. Slice(m.offset, m.size) \subseteq Iteration /\ DOMAIN merged = Iteration
  BY <1>3, <1>6, BlockAssumption DEF Slice, Iteration, Inductive, Histories
<1>9. ASSUME NEW i \in Iteration
      PROVE  merged'[i] = IF Holds(s, i) THEN 1 ELSE merged[i]
  <2>1. /\ merged[i] \in {0, 1}
        /\ Holds(s, i) => merged[i] # 1
    BY DEF Inductive, OnePlace
  <2>2. merged'[i] = merged[i] + (IF Holds(s, i) THEN 1 ELSE 0)
    BY <1>1, <1>7, <1>8 DEF Bump
  <2> QED
    BY <2>1, <2>2
<1>10. merged' \in [Iteration -> Nat]
  BY <1>1, <1>8, BumpHistory DEF Inductive, Histories
<1>11. ASSUME NEW t \in Slave, t # s
       PROVE  UNCHANGED View(t)
  <2>1. toSlave'[t] = toSlave[t]
    BY <1>3, <1>6, <1>1, <1>11, ScheduleAlone
  <2>2. toMaster'[t] = toMaster[t]
    BY <1>1, <1>2, <1>4, <1>11, DropLast
  <2> QED
    BY <1>1, <2>1, <2>2 DEF View
<1>12. toMaster'[s] = <<>>
  BY <1>1, <1>2, <1>4, DropLast
<1>13. \A t \in Slave : ~Unseeded(t) /\ ~Unseeded(t)'
  BY <1>1 DEF Unseeded
<1>14. Serving(s)
  BY <1>1, <1>2, <1>4, <1>7, <1>9, <1>10, <1>11, <1>12, <1>13 DEF Serving, Alone
<1> QED
  BY <1>1, <1>3, <1>6, <1>14, ScheduleInductive

-------------------------------------------------------------------------------
(***************************************************************************)
(* A chunk size of 0 comes only from an even share that is positive.       *)
(***************************************************************************)
LEMMA QuotientPositive ==
  ASSUME NEW a \in Int, NEW b \in Nat \ {0}, Quotient(a, b) > 0
  PROVE  a > 0
<1>1. CASE a = 0
  BY <1>1 DEF Quotient
<1>2. CASE a < 0
  <2> DEFINE q == (-a) \div b
  <2>1. q \in Nat
    BY <1>2
  <2>2. Quotient(a, b) = -q
    BY <1>2 DEF Quotient
  <2> HIDE DEF q
  <2> QED
    BY <2>1, <2>2
<1> QED
  BY <1>1, <1>2

LEMMA NoEmptyChunks == InitPart = 0 => Start < Bound
<1> SUFFICES ASSUME InitPart = 0 PROVE Start < Bound
  OBVIOUS
<1> DEFINE share == Quotient(Total(Start, Bound), W)
<1>1. share > 0
  BY FarmAssumption DEF InitPart, ChunkSize
<1>2. Total(Start, Bound) \in Int /\ W \in Nat \ {0}
  BY BlockAssumption DEF Total
<1>3. Total(Start, Bound) > 0
  BY <1>1, <1>2, QuotientPositive
<1> QED
  BY <1>3, BlockAssumption DEF Total

LEMMA InitInductive == Init => Inductive
<1> SUFFICES ASSUME Init PROVE Inductive
  OBVIOUS
<1>1. /\ mpc = "seed" /\ to = 1 /\ followIN = Start /\ partSize = InitPart /\ killed = 0
      /\ runs = [i \in Iteration |-> 0] /\ merged = [i \in Iteration |-> 0]
  BY DEF Init, BlockInit
<1>2. ASSUME NEW s \in Slave
      PROVE  spc[s] = "recv" /\ toSlave[s] = <<>> /\ toMaster[s] = <<>> /\ Unseeded(s)
  <2>1. s >= 1
    BY DEF Slave
  <2> QED
    BY <1>1, <2>1 DEF Init, BlockInit, Unseeded
<1>3. ASSUME NEW s \in Slave
      PROVE  /\ SlaveLockstep(s) /\ ~Granted(s) /\ ~Working(s) /\ ~Returned(s)
             /\ ~Dismissed(s)
  BY <1>2 DEF SlaveLockstep, Idle, Granted, Working, Returned, Replied, Arrived, Dismissed
<1>4. TypeOK
  BY InitTypeOK
<1>5. MasterOK
  BY <1>1, <1>3, NoEmptyChunks, InitPartNat, BlockAssumption DEF MasterOK, SizeOK
<1>6. ASSUME NEW s \in Slave PROVE SlaveChunkOK(s)
  BY <1>3 DEF SlaveChunkOK
<1>7. ASSUME NEW i \in Iteration PROVE OnePlace(i) /\ RanOnce(i)
  <2>1. merged[i] = 0 /\ runs[i] = 0 /\ ~(i < followIN)
    BY <1>1, BlockAssumption DEF Iteration
  <2>2. \A s \in Slave : ~Holds(s, i) /\ ~Ran(s, i)
    BY <1>3 DEF Holds, Ran
  <2> QED
    BY <2>1, <2>2 DEF OnePlace, RanOnce
<1>8. KilledIsDismissed
  <2>1. {s \in Slave : Dismissed(s)} = {}
    BY <1>3
  <2> QED
    BY <1>1, <2>1, FS_EmptySet DEF KilledIsDismissed
<1>9. Overshoot
  <2>1. 0 * InitPart = 0
    BY InitPartNat
  <2> QED
    BY <1>1, <2>1, BlockAssumption DEF Overshoot
<1> QED
  BY <1>1, <1>3, <1>4, <1>5, <1>6, <1>7, <1>8, <1>9
     DEF Inductive, Lockstep, Histories

LEMMA SlaveInductive ==
  ASSUME Inductive, TypeOK', NEW s \in Slave, SlaveStep(s)
  PROVE  Inductive'
<1>1. UNCHANGED farmVars
  BY DEF SlaveStep
<1>2. CASE SlaveIterate(s)
  BY <1>1, <1>2, IterateInductive
<1>3. CASE \/ TakeChunk(s) \/ Answer(s) \/ SlaveStop(s)
           \/ SlaveRead(s, 0 .. (NumIn - 1)) \/ SlaveGot(s)
  <2>1. Quiet(s)
    BY <1>1, <1>3, TakeChunkQuiet, AnswerQuiet, StopQuiet, ReadQuiet, GotQuiet
  <2> QED
    BY <2>1, QuietInductive
<1> QED
  BY <1>2, <1>3 DEF SlaveStep

LEMMA NextInductive == Inductive /\ [Next]_vars => Inductive'
<1> SUFFICES ASSUME Inductive, [Next]_vars PROVE Inductive'
  OBVIOUS
<1>1. TypeOK'
  BY NextTypeOK DEF Inductive
<1>2. CASE Seed
  <2>1. PICK s \in Slave : s = to
    BY <1>2 DEF Seed
  <2> QED
    BY <1>1, <1>2, <2>1, SeedInductive
<1>3. CASE EndSeed
  <2>1. /\ mpc = "seed" /\ to = W + 1 /\ to' = W + 1
        /\ mpc' \in {"serve", "done"}
        /\ mpc' = "done" => killed = W
        /\ UNCHANGED <<spc, offset, size, iter, toSlave, toMaster, runs, merged>>
        /\ UNCHANGED <<followIN, partSize, killed>>
    BY <1>3 DEF EndSeed, AllKilled, slaveVars, farmVars
  <2>2. ASSUME NEW s \in Slave
        PROVE  UNCHANGED View(s) /\ ~Unseeded(s) /\ ~Unseeded(s)'
    <3>1. s \in Int /\ s < W + 1
      BY BlockAssumption DEF Slave
    <3> QED
      BY <2>1, <3>1, BlockAssumption DEF View, Unseeded
  <2>3. ASSUME NEW s \in Slave
        PROVE  /\ SlaveLockstep(s)' /\ SlaveChunkOK(s)'
               /\ Dismissed(s)' <=> Dismissed(s)
               /\ \A i \in Iteration :
                    (Holds(s, i)' <=> Holds(s, i)) /\ (Ran(s, i)' <=> Ran(s, i))
    BY <2>2, Frame DEF Inductive, Lockstep
  <2>4. ASSUME NEW i \in Iteration PROVE OnePlace(i)' /\ RanOnce(i)'
    BY <2>1, <2>3 DEF Inductive, OnePlace, RanOnce
  <2>5. MasterOK'
    BY <2>1, <2>3 DEF Inductive, MasterOK, SizeOK
  <2>6. KilledIsDismissed'
    <3>1. {s \in Slave : Dismissed(s)}' = {s \in Slave : Dismissed(s)}
      BY <2>3
    <3> QED
      BY <2>1, <3>1 DEF Inductive, KilledIsDismissed
  <2> QED
    BY <1>1, <2>1, <2>3, <2>4, <2>5, <2>6
       DEF Inductive, Lockstep, Histories, Overshoot
<1>4. ASSUME NEW s \in Slave, ServeChunk(s) PROVE Inductive'
  BY <1>1, <1>4, ServeChunkInductive
<1>5. ASSUME NEW s \in Slave, ServeRead(s) PROVE Inductive'
  BY <1>1, <1>5, ServeReadQuiet, QuietInductive
<1>6. ASSUME NEW s \in Slave, SlaveStep(s) PROVE Inductive'
  BY <1>1, <1>6, SlaveInductive
<1>7. CASE UNCHANGED vars
  <2>1. PICK s \in Slave : TRUE
    BY BlockAssumption DEF Slave
  <2>2. /\ \A t \in Slave : UNCHANGED View(t) /\ (Unseeded(t)' <=> Unseeded(t))
        /\ UNCHANGED <<mpc, to, runs, merged, followIN, killed, partSize>>
    BY <1>7 DEF vars, blockVars, farmVars, slaveVars, View, Unseeded
  <2>3. Quiet(s)
    BY <2>2, Frame DEF Quiet, Alone, Inductive, Lockstep
  <2> QED
    BY <1>1, <2>3, QuietInductive
<1> QED
  BY <1>2, <1>3, <1>4, <1>5, <1>6, <1>7 DEF Next, Master, Finished

(***************************************************************************)
(* In every reachable state Inductive holds.                               *)
(***************************************************************************)
THEOREM InductiveCorrect == Spec => []Inductive
BY InitInductive, NextInductive, PTL DEF Spec

-------------------------------------------------------------------------------
(***************************************************************************)
(* What the invariant implies, state by state.                             *)
(***************************************************************************)
LEMMA AllDismissed ==
  ASSUME Inductive, mpc = "done", NEW s \in Slave
  PROVE  Dismissed(s) /\ Bound <= followIN
<1> DEFINE D == {t \in Slave : Dismissed(t)}
<1>1. Cardinality(D) = W
  BY DEF Inductive, MasterOK, KilledIsDismissed
<1>2. D \in SUBSET Slave
  OBVIOUS
<1>3. D = Slave
  BY <1>1, <1>2, SlaveFinite, FS_Subset
<1>4. Dismissed(s)
  BY <1>3
<1> QED
  BY <1>4 DEF Inductive, MasterOK

LEMMA DismissedEmpty ==
  ASSUME Inductive, NEW s \in Slave, Dismissed(s)
  PROVE  toMaster[s] = <<>> /\ \A i \in Iteration : ~Holds(s, i)
<1>1. SlaveLockstep(s) /\ spc[s] \in {"recv", "run", "await", "got", "done"}
  BY DEF Inductive, Lockstep, TypeOK, BlockTypeOK
<1>2. /\ toMaster[s] = <<>> /\ ~Working(s) /\ ~Arrived(toSlave, s, "ATAG")
      /\ spc[s] \in {"recv", "done"}
  BY <1>1 DEF SlaveLockstep, Dismissed, Idle, SentTo, SentBy, Arrived, Working
<1> QED
  BY <1>2 DEF Holds, Granted, Returned, Replied

LEMMA InductiveCleanExit == Inductive => CleanExit
BY AllDismissed, DismissedEmpty DEF CleanExit

LEMMA InductiveSeparate == Inductive => Separate
<1> SUFFICES ASSUME Inductive PROVE Separate
  OBVIOUS
<1>1. TypeOK /\ Lockstep
  BY DEF Inductive
<1>2. ASSUME NEW s \in Slave, spc[s] = "done" PROVE toSlave[s] = <<>>
  BY <1>1, <1>2 DEF Lockstep, SlaveLockstep, Idle
<1>3. ASSUME mpc = "done", NEW s \in Slave
      PROVE  toMaster[s] = <<>> /\ (spc[s] = "done" \/ Leaving(s))
  <2>1. Dismissed(s) /\ toMaster[s] = <<>>
    BY <1>3, AllDismissed, DismissedEmpty
  <2>2. SlaveLockstep(s) /\ spc[s] \in {"recv", "run", "await", "got", "done"}
    BY <1>1 DEF Lockstep, TypeOK, BlockTypeOK
  <2> QED
    BY <1>3, <2>1, <2>2
       DEF SlaveLockstep, Dismissed, Leaving, Idle, SentTo, SentBy, Replied, Arrived
<1> QED
  BY <1>1, <1>2, <1>3 DEF Separate, TypeOK, BlockTypeOK

LEMMA InductiveExactlyOnce == Inductive => ExactlyOnce
<1> SUFFICES ASSUME Inductive, mpc = "done", NEW i \in Iteration
             PROVE  runs[i] = 1 /\ merged[i] = 1
  BY DEF ExactlyOnce
<1>1. \A s \in Slave : ~Holds(s, i)
  BY AllDismissed, DismissedEmpty
<1>2. Bound <= followIN
  <2>1. PICK s \in Slave : TRUE
    BY BlockAssumption DEF Slave
  <2> QED
    BY <2>1, AllDismissed
<1>3. i < followIN
  BY <1>2, BlockAssumption DEF Inductive, TypeOK, Iteration
<1> QED
  BY <1>1, <1>3 DEF Inductive, OnePlace, RanOnce

LEMMA InductiveOneHolder == Inductive => OneHolder
<1> SUFFICES ASSUME Inductive, NEW i \in Iteration
             PROVE  merged[i] + Cardinality(Holders(i)) = IF i < followIN THEN 1 ELSE 0
  BY DEF OneHolder
<1>1. OnePlace(i)
  BY DEF Inductive
<1>2. CASE \E s \in Slave : Holds(s, i)
  <2>1. PICK s \in Slave : Holds(s, i)
    BY <1>2
  <2>2. Holders(i) = {s}
    BY <1>1, <2>1 DEF Holders, OnePlace
  <2>3. Cardinality(Holders(i)) = 1
    BY <2>2, FS_Singleton
  <2>4. merged[i] = 0 /\ i < followIN
    BY <1>1, <2>1 DEF OnePlace
  <2> QED
    BY <2>3, <2>4
<1>3. CASE ~\E s \in Slave : Holds(s, i)
  <2>1. Holders(i) = {}
    BY <1>3 DEF Holders
  <2> QED
    BY <1>1, <1>3, <2>1, FS_EmptySet DEF OnePlace
<1> QED
  BY <1>2, <1>3

(***************************************************************************)
(* A slave is never sent anything it does not wait for, and never more     *)
(* than one message: the receives of offset, size and slices one after     *)
(* another from any tag are sound.                                         *)
(***************************************************************************)
THEOREM LockstepCorrect == Spec => []Lockstep
<1>1. Inductive => Lockstep
  BY DEF Inductive
<1> QED
  BY <1>1, InductiveCorrect, PTL

(***************************************************************************)
(* No iteration outside the loop is ever run or merged.                    *)
(***************************************************************************)
THEOREM NothingOutsideCorrect == Spec => []NothingOutside
<1>1. Inductive => NothingOutside
  BY DEF Inductive, Histories, NothingOutside
<1> QED
  BY <1>1, InductiveCorrect, PTL

(***************************************************************************)
(* Chunks never overlap, leave no gap and are never lost, whatever sizes   *)
(* the slaves report back and in whatever order.                           *)
(***************************************************************************)
THEOREM OneHolderCorrect == Spec => []OneHolder
BY InductiveOneHolder, InductiveCorrect, PTL

(***************************************************************************)
(* killed counts the slaves told to stop.                                  *)
(***************************************************************************)
THEOREM KilledIsDismissedCorrect == Spec => []KilledIsDismissed
<1>1. Inductive => KilledIsDismissed
  BY DEF Inductive
<1> QED
  BY <1>1, InductiveCorrect, PTL

(***************************************************************************)
(* followIN passes the bound by at most a chunk for every dismissal.       *)
(***************************************************************************)
THEOREM OvershootCorrect == Spec => []Overshoot
<1>1. Inductive => Overshoot
  BY DEF Inductive
<1> QED
  BY <1>1, InductiveCorrect, PTL

(***************************************************************************)
(* When the master leaves the block, no message to it is left and every    *)
(* slave has been told to stop.                                            *)
(***************************************************************************)
THEOREM CleanExitCorrect == Spec => []CleanExit
BY InductiveCleanExit, InductiveCorrect, PTL

(***************************************************************************)
(* When the master leaves the block, every iteration has run and been      *)
(* merged exactly once.                                                    *)
(***************************************************************************)
THEOREM ExactlyOnceCorrect == Spec => []ExactlyOnce
BY InductiveExactlyOnce, InductiveCorrect, PTL

-------------------------------------------------------------------------------
(***************************************************************************)
(* What a slave sends back it has run, and the master has not merged it.   *)
(***************************************************************************)
LEMMA ServedReady ==
  ASSUME Inductive, NEW s \in Slave, Arrived(toMaster, s, "ATAG"),
         NEW S, S = Slice(Head(toMaster[s]).offset, Head(toMaster[s]).size)
  PROVE  S \in SUBSET Iteration /\ \A i \in S : runs[i] = 1 /\ merged[i] = 0
<1> DEFINE m == Head(toMaster[s])
<1>1. /\ SlaveLockstep(s) /\ SlaveChunkOK(s)
      /\ spc[s] \in {"recv", "run", "await", "got", "done"}
      /\ toMaster \in [Slave -> Seq(Message)]
  BY DEF Inductive, Lockstep, TypeOK, BlockTypeOK
<1>2. Returned(s)
  BY <1>1 DEF SlaveLockstep, Idle, SentTo, SentBy, Asks, Replied, Arrived, Returned
<1>3. ChunkOK(m.offset, m.size) /\ m.offset \in Int /\ m.size \in Nat
  BY <1>1, <1>2, DropType DEF SlaveChunkOK, Arrived
<1>4. ASSUME NEW i \in S PROVE i \in Iteration /\ Holds(s, i) /\ Ran(s, i)
  <2>1. i \in Slice(m.offset, m.size)
    OBVIOUS
  <2>2. i \in Iteration
    BY <1>3, <2>1, BlockAssumption DEF Slice, Iteration, ChunkOK
  <2>3. Holds(s, i) /\ Ran(s, i)
    BY <1>2, <2>1 DEF Holds, Ran, Covers
  <2> QED
    BY <2>2, <2>3
<1>5. ASSUME NEW i \in S PROVE runs[i] = 1 /\ merged[i] = 0
  BY <1>4 DEF Inductive, OnePlace, RanOnce
<1> QED
  BY <1>4, <1>5

-------------------------------------------------------------------------------
(***************************************************************************)
(* The block implements ParallelFor: an iteration of a slave is Execute, a *)
(* result that the master takes is Publish, the last one Join, and all     *)
(* other steps stutter.                                                    *)
(***************************************************************************)
LEMMA IterateExecutes ==
  ASSUME Inductive, NEW s \in Slave, SlaveIterate(s)
  PROVE  \E i \in Iteration : For!Execute(i)
<1>1. PICK i : i = iter[s]
  OBVIOUS
<1>2. /\ spc[s] \in {"run", "got"} /\ InChunk(s)
      /\ runs' = Bump(runs, {i})
      /\ UNCHANGED <<merged, mpc>>
  BY <1>1 DEF SlaveIterate
<1>3. /\ i \in Iteration /\ runs[i] = 0
  BY <1>1, IterateFresh DEF SlaveIterate
<1>4. runs' = [runs EXCEPT ![i] = 1]
  <2>1. runs \in [Iteration -> Nat]
    BY DEF Inductive, Histories
  <2>2. ASSUME NEW j \in Iteration PROVE Bump(runs, {i})[j] = [runs EXCEPT ![i] = 1][j]
    BY <1>3, <2>1 DEF Bump
  <2>3. Bump(runs, {i}) \in [Iteration -> Nat]
    BY <1>3, <2>1, BumpHistory
  <2>4. [runs EXCEPT ![i] = 1] \in [Iteration -> Nat]
    BY <2>1
  <2> QED
    BY <1>2, <2>2, <2>3, <2>4
<1> QED
  BY <1>2, <1>3, <1>4 DEF For!Execute

LEMMA ServeChunkPublishes ==
  ASSUME Inductive, Inductive', NEW s \in Slave, ServeChunk(s)
  PROVE  \E S \in SUBSET Iteration : For!Publish(S) \/ For!Join(S)
<1>1. PICK S : S = Slice(Head(toMaster[s]).offset, Head(toMaster[s]).size)
  OBVIOUS
<1>2. /\ mpc = "serve" /\ mpc' \in {"serve", "done"}
      /\ merged' = Bump(merged, S)
      /\ UNCHANGED runs
  BY <1>1 DEF ServeChunk, slaveVars
<1>3. /\ S \in SUBSET Iteration
      /\ \A i \in S : runs[i] = 1 /\ merged[i] = 0
  BY <1>1, ServedReady DEF ServeChunk
<1>4. merged' = For!Shown(S)
  <2>1. merged \in [Iteration -> Nat] /\ DOMAIN merged = Iteration
    BY DEF Inductive, Histories
  <2>2. ASSUME NEW i \in Iteration
        PROVE  Bump(merged, S)[i] = IF i \in S THEN 1 ELSE merged[i]
    BY <1>3, <2>1 DEF Bump
  <2>3. Bump(merged, S) \in [Iteration -> Nat]
    BY <1>3, <2>1, BumpHistory
  <2>4. Bump(merged, S) = [i \in Iteration |-> IF i \in S THEN 1 ELSE merged[i]]
    BY <2>2, <2>3
  <2> QED
    BY <1>2, <2>4 DEF For!Shown
<1>5. For!Ready(S)
  BY <1>3 DEF For!Ready
<1>6. CASE mpc' = "serve"
  BY <1>2, <1>3, <1>4, <1>5, <1>6 DEF For!Publish
<1>7. CASE mpc' = "done"
  <2>1. ASSUME NEW i \in Iteration \ S PROVE merged[i] = 1
    <3>1. ExactlyOnce'
      BY InductiveExactlyOnce, PTL
    <3>2. merged'[i] = 1
      BY <1>7, <3>1 DEF ExactlyOnce
    <3> QED
      BY <1>4, <3>2 DEF For!Shown
  <2> QED
    BY <1>2, <1>3, <1>4, <1>5, <1>7, <2>1 DEF For!Join
<1> QED
  BY <1>2, <1>6, <1>7

LEMMA EndSeedJoins ==
  ASSUME Inductive, Inductive', EndSeed
  PROVE  For!Join({}) \/ UNCHANGED For!forVars
<1>1. /\ mpc = "seed" /\ mpc' \in {"serve", "done"}
      /\ UNCHANGED <<runs, merged>>
  BY DEF EndSeed
<1>2. CASE mpc' = "serve"
  BY <1>1, <1>2 DEF For!forVars
<1>3. CASE mpc' = "done"
  <2>1. ExactlyOnce'
    BY InductiveExactlyOnce, PTL
  <2>2. \A i \in Iteration : merged[i] = 1
    BY <1>1, <1>3, <2>1 DEF ExactlyOnce
  <2>3. merged = [i \in Iteration |-> merged[i]]
    BY DEF Inductive, Histories
  <2>4. merged' = For!Shown({})
    BY <1>1, <2>3 DEF For!Shown
  <2> QED
    BY <1>1, <1>3, <2>2, <2>4 DEF For!Join, For!Ready
<1> QED
  BY <1>1, <1>2, <1>3

LEMMA StepRefines ==
  ASSUME Inductive, Inductive', [Next]_vars
  PROVE  [For!ForNext]_(For!forVars)
<1>1. CASE EndSeed
  <2>1. {} \in SUBSET Iteration
    OBVIOUS
  <2> QED
    BY <1>1, <2>1, EndSeedJoins DEF For!ForNext
<1>2. ASSUME NEW s \in Slave, ServeChunk(s) PROVE For!ForNext
  BY <1>2, ServeChunkPublishes DEF For!ForNext
<1>3. ASSUME NEW s \in Slave, SlaveIterate(s) PROVE For!ForNext
  BY <1>3, IterateExecutes DEF For!ForNext
<1>4. CASE UNCHANGED <<mpc, runs, merged>>
  BY <1>4 DEF For!forVars
<1>5. CASE Seed
  BY <1>4, <1>5 DEF Seed
<1>6. ASSUME NEW s \in Slave, ServeRead(s) PROVE UNCHANGED <<mpc, runs, merged>>
  BY <1>6 DEF ServeRead, AnswerRead
<1>7. ASSUME NEW s \in Slave, SlaveStep(s), ~SlaveIterate(s)
      PROVE  UNCHANGED <<mpc, runs, merged>>
  BY <1>7 DEF SlaveStep, TakeChunk, SlaveStart, Answer, SlaveReply, SlaveStop,
              SlaveRead, SlaveGot
<1>8. CASE UNCHANGED vars
  BY <1>4, <1>8 DEF vars, blockVars
<1> QED
  BY <1>1, <1>2, <1>3, <1>4, <1>5, <1>6, <1>7, <1>8 DEF Next, Master, Finished

(***************************************************************************)
(* At every step the block is a parallel loop: no iteration runs twice, no *)
(* result is merged before its iteration ran, and the code after the loop  *)
(* starts only when all results are there.                                 *)
(***************************************************************************)
THEOREM Refinement == Spec => ImplementsParallelFor
<1>1. Init => For!ForInit
  BY DEF Init, BlockInit, For!ForInit
<1>2. Inductive /\ Inductive' /\ [Next]_vars => [For!ForNext]_(For!forVars)
  BY StepRefines
<1> QED
  BY <1>1, <1>2, InductiveCorrect, PTL DEF Spec, ImplementsParallelFor, For!ForSpec

-------------------------------------------------------------------------------
(***************************************************************************)
(* Every step is a step of the block.                                      *)
(***************************************************************************)
LEMMA FarmStep == [ReductionNext]_reductionVars => [Next]_vars
<1> SUFFICES ASSUME [ReductionNext]_reductionVars PROVE [Next]_vars
  OBVIOUS
<1>1. CASE ReductionMaster
  BY <1>1 DEF ReductionMaster, Next, Master
<1>2. ASSUME NEW s \in Slave, ReductionSlave(s) PROVE [Next]_vars
  BY <1>2 DEF ReductionSlave, Next, SlaveStep
<1>3. CASE Finished /\ UNCHANGED dataVars
  BY <1>3 DEF Next
<1>4. CASE UNCHANGED reductionVars
  BY <1>4 DEF reductionVars
<1> QED
  BY <1>1, <1>2, <1>3, <1>4 DEF ReductionNext

(***************************************************************************)
(* A dynamic block with a reduction clause is a dynamic block: everything  *)
(* that is proved of DynamicFarm holds of it.                              *)
(***************************************************************************)
THEOREM ReductionIsFarm == ReductionSpec => Spec
<1>1. ReductionInit => Init
  BY DEF ReductionInit
<1> QED
  BY <1>1, FarmStep, PTL DEF ReductionSpec, Spec

-------------------------------------------------------------------------------
(***************************************************************************)
(* What AccountOK says of a slave depends on its own part of the state.    *)
(***************************************************************************)
LEMMA AccountFrame ==
  ASSUME NEW t \in Slave, SlaveAccountOK(t), UNCHANGED View(t),
         partial'[t] = partial[t], posted'[t] = posted[t]
  PROVE  SlaveAccountOK(t)'
<1>1. (Working(t)' <=> Working(t)) /\ (Returned(t)' <=> Returned(t))
  BY DEF View, Working, Returned, Replied, Asks, Arrived
<1>2. \A i \in Iteration : Ran(t, i)' <=> Ran(t, i)
  BY Frame
<1> QED
  BY <1>1, <1>2 DEF SlaveAccountOK, Holding

(***************************************************************************)
(* A slave that keeps its copy and what it has run, and does not begin to  *)
(* work or to answer, keeps its account.                                   *)
(***************************************************************************)
LEMMA QuietAccount ==
  ASSUME AccountOK, NEW s \in Slave, Quiet(s), UNCHANGED dataVars,
         Working(s)' => Working(s), Returned(s)' => Returned(s)
  PROVE  AccountOK'
<1>1. ASSUME NEW t \in Slave PROVE SlaveAccountOK(t)'
  <2>1. SlaveAccountOK(t) /\ partial' = partial /\ posted' = posted
    BY DEF AccountOK, dataVars
  <2>2. CASE t = s
    <3>1. \A i \in Iteration : Ran(s, i)' <=> Ran(s, i)
      BY DEF Quiet
    <3> QED
      BY <2>1, <2>2, <3>1 DEF SlaveAccountOK, Holding
  <2>3. CASE t # s
    BY <2>1, <2>3, AccountFrame DEF Quiet, Alone
  <2> QED
    BY <2>2, <2>3
<1>2. AccountTypeOK'
  BY DEF AccountOK, AccountTypeOK, dataVars
<1>3. FoldedOnce'
  BY DEF AccountOK, FoldedOnce, Quiet, dataVars
<1> QED
  BY <1>1, <1>2, <1>3 DEF AccountOK

(***************************************************************************)
(* The quiet steps of ReductionFarm: a slave stops, asks for an element or *)
(* gets it.                                                                *)
(***************************************************************************)
LEMMA StopAccount ==
  ASSUME Inductive, AccountOK, NEW s \in Slave, SlaveStop(s), UNCHANGED <<farmVars, dataVars>>
  PROVE  AccountOK'
<1>1. Quiet(s)
  BY StopQuiet
<1>2. spc'[s] = "done"
  BY DEF SlaveStop, Inductive, TypeOK, BlockTypeOK
<1>3. ~Working(s)' /\ ~Returned(s)'
  BY <1>2 DEF Working, Returned
<1> QED
  BY <1>1, <1>3, QuietAccount

LEMMA ReadAccount ==
  ASSUME Inductive, AccountOK, NEW s \in Slave,
         SlaveRead(s, 0 .. (NumIn - 1)), UNCHANGED <<farmVars, dataVars>>
  PROVE  AccountOK'
<1>1. Quiet(s)
  BY ReadQuiet
<1>2. spc[s] = "run" /\ spc'[s] = "await"
  BY DEF SlaveRead, Inductive, TypeOK, BlockTypeOK
<1>3. Working(s) /\ ~Returned(s)'
  BY <1>2 DEF Working, Returned
<1> QED
  BY <1>1, <1>3, QuietAccount

LEMMA GotAccount ==
  ASSUME Inductive, AccountOK, NEW s \in Slave, SlaveGot(s), UNCHANGED <<farmVars, dataVars>>
  PROVE  AccountOK'
<1>1. Quiet(s)
  BY GotQuiet
<1>2. spc[s] = "await" /\ spc'[s] = "got"
  BY DEF SlaveGot, Inductive, TypeOK, BlockTypeOK
<1>3. Working(s) /\ ~Returned(s)'
  BY <1>2 DEF Working, Returned
<1> QED
  BY <1>1, <1>3, QuietAccount

LEMMA ServeReadAccount ==
  ASSUME Inductive, AccountOK, NEW s \in Slave, ServeRead(s), UNCHANGED dataVars
  PROVE  AccountOK'
<1>1. Quiet(s)
  BY ServeReadQuiet
<1>2. SlaveLockstep(s) /\ Asks(s) /\ spc' = spc
  BY DEF ServeRead, AnswerRead, Asks, Inductive, Lockstep, slaveVars
<1>3. spc[s] \in {"recv", "run", "await", "got", "done"}
  BY DEF Inductive, TypeOK, BlockTypeOK
<1>4. spc[s] = "await"
  BY <1>2, <1>3 DEF SlaveLockstep, SentTo, SentBy, Idle, Replied, Asks, Arrived
<1>5. Working(s) /\ ~Returned(s)'
  BY <1>2, <1>4 DEF Working, Returned
<1> QED
  BY <1>1, <1>5, QuietAccount

-------------------------------------------------------------------------------
(***************************************************************************)
(* For + and * partial results begin with a neutral value and are added.   *)
(***************************************************************************)
Sums == Operation \in {"+", "*"}

LEMMA FreshAccount ==
  ASSUME Sums
  PROVE  /\ Sign = 1
         /\ Fresh = [terms |-> [i \in Iteration |-> 0], before |-> 0, stray |-> 0]
         /\ Fresh \in Account
<1>1. StartValue = Neutral
  BY DEF Sums, StartValue, Neutral
<1>2. Fresh = [terms |-> [i \in Iteration |-> 0], before |-> 0, stray |-> 0]
  BY <1>1 DEF Fresh, Value
<1> QED
  BY <1>2 DEF Sums, Sign, Account

(***************************************************************************)
(* A slave that takes a chunk resets its copy and has run nothing of it.   *)
(***************************************************************************)
LEMMA TakeAccount ==
  ASSUME Sums, Inductive, AccountOK, NEW s \in Slave,
         TakeChunk(s), Reset(s), UNCHANGED farmVars
  PROVE  AccountOK'
<1>1. Quiet(s)
  BY TakeChunkQuiet
<1>2. /\ spc[s] = "recv" /\ spc'[s] = "run"
      /\ ~Returned(s) /\ ~Working(s) /\ ~Returned(s)'
  <2>1. spc[s] = "recv" /\ spc'[s] = "run" /\ Arrived(toSlave, s, "ATAG")
    BY DEF TakeChunk, SlaveStart, Inductive, TypeOK, BlockTypeOK
  <2>2. toMaster[s] = <<>>
    BY <2>1 DEF Inductive, Lockstep, SlaveLockstep, SentTo, SentBy, Idle, Arrived
  <2> QED
    BY <2>1, <2>2 DEF Working, Returned, Replied
<1>3. \A i \in Iteration : ~Ran(s, i)'
  BY <1>1, <1>2 DEF Quiet, Ran
<1>4. /\ partial' = [partial EXCEPT ![s] = Fresh]
      /\ posted' = posted /\ value' = value
  BY DEF Reset
<1>5. AccountTypeOK /\ FoldedOnce /\ merged' = merged
  BY <1>1 DEF AccountOK, Quiet
<1>6. AccountTypeOK'
  BY <1>4, <1>5, FreshAccount DEF AccountTypeOK
<1>7. FoldedOnce'
  BY <1>4, <1>5 DEF FoldedOnce
<1>8. ASSUME NEW t \in Slave PROVE SlaveAccountOK(t)'
  <2>1. CASE t = s
    <3>1. partial'[s] = Fresh
      BY <1>4, <1>5 DEF AccountTypeOK
    <3>2. Holding(partial[s], s)'
      BY <1>3, <3>1, FreshAccount DEF Holding
    <3> QED
      BY <1>2, <2>1, <3>2 DEF SlaveAccountOK
  <2>2. CASE t # s
    <3>1. SlaveAccountOK(t) /\ partial'[t] = partial[t] /\ posted'[t] = posted[t]
      BY <1>4, <1>5, <2>2 DEF AccountOK, AccountTypeOK
    <3> QED
      BY <1>1, <2>2, <3>1, AccountFrame DEF Quiet, Alone
  <2> QED
    BY <2>1, <2>2
<1> QED
  BY <1>6, <1>7, <1>8 DEF AccountOK

(***************************************************************************)
(* A slave that runs an iteration adds its term, which was not there yet.  *)
(***************************************************************************)
LEMMA IterateAccount ==
  ASSUME Sums, Inductive, AccountOK, NEW s \in Slave,
         SlaveIterate(s), Accumulate(s), UNCHANGED farmVars
  PROVE  AccountOK'
<1> DEFINE i0 == iter[s]
<1>1. /\ spc[s] \in {"run", "got"} /\ InChunk(s)
      /\ spc' = [spc EXCEPT ![s] = "run"] /\ iter' = [iter EXCEPT ![s] = @ + 1]
      /\ UNCHANGED <<toSlave, toMaster, offset, size, merged>>
  BY DEF SlaveIterate
<1>2. /\ spc'[s] = "run" /\ iter'[s] = i0 + 1 /\ offset'[s] = offset[s]
      /\ offset[s] \in Int /\ i0 \in Int
  BY <1>1 DEF Inductive, TypeOK, BlockTypeOK
<1>3. Working(s) /\ Working(s)' /\ ~Returned(s) /\ ~Returned(s)'
  BY <1>1, <1>2 DEF Working, Returned
<1>4. i0 \in Iteration /\ offset[s] <= i0
  BY <1>1, <1>3, IterateFresh DEF Inductive, SlaveChunkOK
<1>5. ASSUME NEW i \in Iteration
      PROVE  (Ran(s, i)' <=> Ran(s, i) \/ i = i0) /\ ~Ran(s, i0)
  <2>1. i \in Int
    BY BlockAssumption DEF Iteration
  <2>2. Ran(s, i) <=> i \in offset[s] .. (i0 - 1)
    BY <1>3 DEF Ran
  <2>3. Ran(s, i0) <=> i0 \in offset[s] .. (i0 - 1)
    BY <1>3 DEF Ran
  <2>4. Ran(s, i)' <=> i \in offset[s] .. (i0 + 1 - 1)
    BY <1>2, <1>3 DEF Ran
  <2>5. i \in offset[s] .. (i0 + 1 - 1) <=> i \in offset[s] .. (i0 - 1) \/ i = i0
    BY <1>2, <1>4, <2>1
  <2>6. i0 \notin offset[s] .. (i0 - 1)
    BY <1>2
  <2> QED
    BY <2>2, <2>3, <2>4, <2>5, <2>6
<1>6. AccountTypeOK /\ FoldedOnce /\ Holding(partial[s], s)
  BY <1>3 DEF AccountOK, SlaveAccountOK
<1>7. /\ partial' = [partial EXCEPT ![s].terms[i0] = @ + Sign]
      /\ posted' = posted /\ value' = value
  BY DEF Accumulate
<1>8. partial[s] \in Account
  BY <1>6 DEF AccountTypeOK
<1>9. /\ partial'[s].before = partial[s].before
      /\ partial'[s].stray = partial[s].stray
      /\ partial'[s].terms = [partial[s].terms EXCEPT ![i0] = @ + 1]
      /\ partial'[s] \in Account
      /\ \A t \in Slave : t # s => partial'[t] = partial[t]
  <2>1. partial \in [Slave -> Account] /\ Sign = 1
    BY <1>6, FreshAccount DEF AccountTypeOK
  <2> DEFINE terms == [partial[s].terms EXCEPT ![i0] = @ + 1]
  <2>3. /\ partial[s].terms \in [Iteration -> Int]
        /\ partial[s].before \in Nat /\ partial[s].stray \in Nat
        /\ partial[s] = [terms  |-> partial[s].terms,
                         before |-> partial[s].before,
                         stray  |-> partial[s].stray]
    BY <1>8 DEF Account
  <2>4. partial'[s] = [terms |-> terms, before |-> partial[s].before, stray |-> partial[s].stray]
    <3>1. partial'[s] = [partial[s] EXCEPT !.terms[i0] = @ + 1]
      BY <1>7, <2>1, Zenon
    <3>2. [partial[s] EXCEPT !.terms[i0] = @ + 1] = [partial[s] EXCEPT !.terms = terms]
      OBVIOUS
    <3>3. [partial[s] EXCEPT !.terms = terms] =
            [terms |-> terms, before |-> partial[s].before, stray |-> partial[s].stray]
      <4> HIDE DEF terms
      <4> QED
        BY <2>3
    <3> QED
      BY <3>1, <3>2, <3>3, Zenon
  <2>5. terms \in [Iteration -> Int]
    <3>1. partial[s].terms[i0] + 1 \in Int
      BY <1>4, <2>3
    <3> QED
      BY <1>4, <2>3, <3>1
  <2> HIDE DEF terms
  <2>6. partial'[s] \in Account
    BY <2>3, <2>4, <2>5 DEF Account
  <2>7. \A t \in Slave : t # s => partial'[t] = partial[t]
    BY <1>7, <2>1, Zenon
  <2> QED
    BY <2>4, <2>6, <2>7 DEF terms
<1>10. AccountTypeOK'
  BY <1>6, <1>7, <1>9 DEF AccountTypeOK
<1>11. FoldedOnce'
  BY <1>1, <1>6, <1>7 DEF FoldedOnce
<1>12. Holding(partial[s], s)'
  <2>1. partial[s].terms \in [Iteration -> Int]
    BY <1>8 DEF Account
  <2>2. ASSUME NEW i \in Iteration
        PROVE  partial'[s].terms[i] = IF Ran(s, i)' THEN 1 ELSE 0
    <3>1. partial[s].terms[i] = IF Ran(s, i) THEN 1 ELSE 0
      BY <1>6, FreshAccount DEF Holding
    <3>2. CASE i = i0
      BY <1>5, <1>9, <2>1, <3>1, <3>2
    <3>3. CASE i # i0
      BY <1>5, <1>9, <2>1, <3>1, <3>3
    <3> QED
      BY <3>2, <3>3
  <2> QED
    BY <1>6, <1>9, <2>2, FreshAccount DEF Holding
<1>13. ASSUME NEW t \in Slave PROVE SlaveAccountOK(t)'
  <2>1. CASE t = s
    BY <1>3, <1>12, <2>1 DEF SlaveAccountOK
  <2>2. CASE t # s
    <3>1. UNCHANGED View(t)
      BY <1>1, <2>2 DEF View, Inductive, TypeOK, BlockTypeOK
    <3> QED
      BY <1>7, <1>9, <2>2, <3>1, AccountFrame DEF AccountOK
  <2> QED
    BY <2>1, <2>2
<1> QED
  BY <1>10, <1>11, <1>13 DEF AccountOK

(***************************************************************************)
(* What a slave posts behind its answer is its whole chunk.                *)
(***************************************************************************)
LEMMA AnswerAccount ==
  ASSUME Inductive, AccountOK, NEW s \in Slave,
         Answer(s), Post(s), UNCHANGED farmVars
  PROVE  AccountOK'
<1>1. Quiet(s)
  BY AnswerQuiet
<1>2. Working(s) /\ ~Working(s)'
  BY DEF Answer, SlaveReply, Working, Inductive, TypeOK, BlockTypeOK
<1>3. AccountTypeOK /\ FoldedOnce /\ Holding(partial[s], s) /\ merged' = merged
  BY <1>1, <1>2 DEF AccountOK, SlaveAccountOK, Quiet
<1>4. /\ posted' = [posted EXCEPT ![s] = partial[s]]
      /\ partial' = partial /\ value' = value
  BY DEF Post
<1>5. /\ posted'[s] = partial[s]
      /\ \A t \in Slave : t # s => posted'[t] = posted[t]
  BY <1>3, <1>4 DEF AccountTypeOK
<1>6. AccountTypeOK'
  BY <1>3, <1>4 DEF AccountTypeOK
<1>7. FoldedOnce'
  BY <1>3, <1>4 DEF FoldedOnce
<1>8. \A i \in Iteration : Ran(s, i)' <=> Ran(s, i)
  BY <1>1 DEF Quiet
<1>9. Holding(posted[s], s)'
  BY <1>3, <1>5, <1>8 DEF Holding
<1>10. ASSUME NEW t \in Slave PROVE SlaveAccountOK(t)'
  <2>1. CASE t = s
    BY <1>2, <1>9, <2>1 DEF SlaveAccountOK
  <2>2. CASE t # s
    BY <1>1, <1>4, <1>5, <2>2, AccountFrame DEF AccountOK, Quiet, Alone
  <2> QED
    BY <2>1, <2>2
<1> QED
  BY <1>6, <1>7, <1>10 DEF AccountOK

-------------------------------------------------------------------------------
(***************************************************************************)
(* The master folds in what is posted behind the answer it merges.         *)
(***************************************************************************)
LEMMA ServeChunkAccount ==
  ASSUME Sums, Inductive, AccountOK, NEW s \in Slave, ServeChunk(s), Merge(s)
  PROVE  AccountOK'
<1> DEFINE m == Head(toMaster[s])
<1>1. /\ Arrived(toMaster, s, "ATAG")
      /\ merged' = Bump(merged, Slice(m.offset, m.size))
      /\ toMaster' = Drop(toMaster, s)
      /\ UNCHANGED slaveVars
  BY DEF ServeChunk
<1>2. /\ spc[s] = "recv" /\ Returned(s) /\ Len(toMaster[s]) = 1
      /\ toMaster \in [Slave -> Seq(Message)]
  <2>1. spc[s] \in {"recv", "run", "await", "got", "done"} /\ SlaveLockstep(s)
        /\ toMaster \in [Slave -> Seq(Message)]
    BY DEF Inductive, TypeOK, BlockTypeOK, Lockstep
  <2>2. toMaster[s] # <<>> /\ ~Asks(s)
    BY <1>1 DEF Arrived, Asks
  <2> QED
    BY <2>1, <2>2 DEF SlaveLockstep, SentTo, SentBy, Idle, Returned, Replied
<1>3. /\ toMaster'[s] = <<>>
      /\ \A t \in Slave : t # s => toMaster'[t] = toMaster[t]
  BY <1>1, <1>2, DropLast
<1>4. ~Working(s)' /\ ~Returned(s)' /\ ~Working(s)
  BY <1>1, <1>2, <1>3 DEF slaveVars, Working, Returned, Replied
<1>5. ASSUME NEW i \in Iteration PROVE Ran(s, i) <=> i \in Slice(m.offset, m.size)
  BY <1>2, <1>4 DEF Ran, Covers
<1>6. AccountTypeOK /\ FoldedOnce /\ Holding(posted[s], s) /\ merged \in [Iteration -> Nat]
  BY <1>2 DEF AccountOK, SlaveAccountOK, Inductive, Histories
<1>7. /\ value' = Fold(value, posted[s])
      /\ partial' = partial /\ posted' = posted
  BY DEF Merge
<1>8. value \in Account /\ posted[s] \in Account
  BY <1>6 DEF AccountTypeOK
<1>9. /\ value'.before = value.before + posted[s].before
      /\ value'.stray = value.stray + posted[s].stray
      /\ \A i \in Iteration : value'.terms[i] = value.terms[i] + posted[s].terms[i]
      /\ value' \in Account
  <2>1. /\ value.terms \in [Iteration -> Int] /\ posted[s].terms \in [Iteration -> Int]
        /\ value.before \in Nat /\ posted[s].before \in Nat
        /\ value.stray \in Nat /\ posted[s].stray \in Nat
    BY <1>8 DEF Account
  <2>2. value' = [terms  |-> [i \in Iteration |-> value.terms[i] + posted[s].terms[i]],
                  before |-> value.before + posted[s].before,
                  stray  |-> value.stray + posted[s].stray]
    <3>1. DOMAIN value.terms = Iteration
      BY <2>1
    <3>2. \A i \in Iteration : Sign * posted[s].terms[i] = posted[s].terms[i]
      BY <2>1, FreshAccount
    <3> QED
      BY <1>7, <3>1, <3>2 DEF Fold
  <2> QED
    BY <2>1, <2>2 DEF Account
<1>10. AccountTypeOK'
  BY <1>6, <1>7, <1>9 DEF AccountTypeOK
<1>11. ASSUME NEW i \in Iteration PROVE value'.terms[i] = merged'[i]
  <2>1. merged'[i] = merged[i] + (IF i \in Slice(m.offset, m.size) THEN 1 ELSE 0)
    BY <1>1, <1>6 DEF Bump
  <2>2. value.terms[i] = merged[i] /\ merged[i] \in Nat
    BY <1>6, FreshAccount DEF FoldedOnce
  <2>3. posted[s].terms[i] = IF i \in Slice(m.offset, m.size) THEN 1 ELSE 0
    BY <1>5, <1>6, FreshAccount DEF Holding
  <2> QED
    BY <1>9, <2>1, <2>2, <2>3
<1>12. FoldedOnce'
  <2>1. \A i \in Iteration : merged'[i] \in Int
    BY <1>9, <1>11 DEF Account
  <2>2. value'.before = 1 /\ value'.stray = 0
    BY <1>6, <1>9 DEF FoldedOnce, Holding
  <2> QED
    BY <1>11, <2>1, <2>2, FreshAccount DEF FoldedOnce
<1>13. ASSUME NEW t \in Slave PROVE SlaveAccountOK(t)'
  <2>1. CASE t = s
    BY <1>4, <2>1 DEF SlaveAccountOK
  <2>2. CASE t # s
    <3>1. toSlave'[t] = toSlave[t]
      <4>1. toSlave \in [Slave -> Seq(Message)]
        BY DEF Inductive, TypeOK, BlockTypeOK
      <4>2. toSlave' = toSlave \/ \E x : toSlave' = Send(toSlave, s, x)
        BY DEF ServeChunk, GrantFull, GrantRest, HandOut, DismissIfPast, Dismiss
      <4> QED
        BY <2>2, <4>1, <4>2 DEF Send
    <3>2. UNCHANGED View(t)
      BY <1>1, <1>3, <2>2, <3>1 DEF View, slaveVars
    <3> QED
      BY <1>7, <3>2, AccountFrame DEF AccountOK
  <2> QED
    BY <2>1, <2>2
<1> QED
  BY <1>10, <1>12, <1>13 DEF AccountOK
-------------------------------------------------------------------------------
(***************************************************************************)
(* The seeding loop touches neither results nor accounts.                  *)
(***************************************************************************)
LEMMA SeedAccount ==
  ASSUME AccountOK, UNCHANGED <<slaveVars, toMaster, merged, dataVars>>
  PROVE  AccountOK'
<1>1. ASSUME NEW t \in Slave PROVE SlaveAccountOK(t)'
  <2>1. (Working(t)' <=> Working(t)) /\ (Returned(t)' <=> Returned(t))
    BY DEF slaveVars, Working, Returned, Replied, Asks, Arrived
  <2>2. \A i \in Iteration : Ran(t, i)' <=> Ran(t, i)
    BY <2>1 DEF slaveVars, Ran, Covers
  <2>3. SlaveAccountOK(t) /\ partial' = partial /\ posted' = posted
    BY DEF AccountOK, dataVars
  <2> QED
    BY <2>1, <2>2, <2>3 DEF SlaveAccountOK, Holding
<1>2. AccountTypeOK' /\ FoldedOnce'
  BY DEF AccountOK, AccountTypeOK, FoldedOnce, dataVars
<1> QED
  BY <1>1, <1>2 DEF AccountOK

LEMMA InitAccount == ReductionInit => AccountOK
<1> SUFFICES ASSUME ReductionInit PROVE AccountOK
  OBVIOUS
<1>1. /\ value = Value(1, 0)
      /\ partial = [s \in Slave |-> Value(1, 0)]
      /\ posted = [s \in Slave |-> Value(0, 0)]
      /\ \A s \in Slave : spc[s] = "recv" /\ toMaster[s] = <<>>
      /\ \A i \in Iteration : merged[i] = 0
  BY DEF ReductionInit, Init, BlockInit
<1>2. Value(1, 0) \in Account /\ Value(0, 0) \in Account
  BY DEF Value, Account
<1>3. AccountTypeOK
  BY <1>1, <1>2 DEF AccountTypeOK
<1>4. FoldedOnce
  BY <1>1 DEF FoldedOnce, Value, Sign
<1>5. \A s \in Slave : SlaveAccountOK(s)
  BY <1>1 DEF SlaveAccountOK, Working, Returned, Replied
<1> QED
  BY <1>3, <1>4, <1>5 DEF AccountOK

LEMMA NextAccount ==
  ASSUME Sums, Inductive, AccountOK, [ReductionNext]_reductionVars
  PROVE  AccountOK'
<1>1. ASSUME NEW s \in Slave, ServeChunk(s), Merge(s) PROVE AccountOK'
  BY <1>1, ServeChunkAccount
<1>2. ASSUME NEW s \in Slave, ServeRead(s), UNCHANGED dataVars PROVE AccountOK'
  BY <1>2, ServeReadAccount
<1>3. CASE (Seed \/ EndSeed) /\ UNCHANGED dataVars
  BY <1>3, SeedAccount DEF Seed, EndSeed
<1>4. ASSUME NEW s \in Slave, ReductionSlave(s) PROVE AccountOK'
  <2>1. UNCHANGED farmVars
    BY <1>4 DEF ReductionSlave
  <2>2. CASE TakeChunk(s) /\ Reset(s)
    BY <2>1, <2>2, TakeAccount
  <2>3. CASE SlaveIterate(s) /\ Accumulate(s)
    BY <2>1, <2>3, IterateAccount
  <2>4. CASE Answer(s) /\ Post(s)
    BY <2>1, <2>4, AnswerAccount
  <2>5. CASE SlaveStop(s) /\ UNCHANGED dataVars
    BY <2>1, <2>5, StopAccount
  <2>6. CASE SlaveRead(s, 0 .. (NumIn - 1)) /\ UNCHANGED dataVars
    BY <2>1, <2>6, ReadAccount
  <2>7. CASE SlaveGot(s) /\ UNCHANGED dataVars
    BY <2>1, <2>7, GotAccount
  <2> QED
    BY <1>4, <2>2, <2>3, <2>4, <2>5, <2>6, <2>7 DEF ReductionSlave
<1>5. CASE UNCHANGED reductionVars \/ (Finished /\ UNCHANGED dataVars)
  BY <1>5, SeedAccount DEF Finished, reductionVars, vars, blockVars
<1> QED
  BY <1>1, <1>2, <1>3, <1>4, <1>5 DEF ReductionNext, ReductionMaster

(***************************************************************************)
(* For + and *, at every step, the copy of a working slave holds the terms *)
(* it has run of its present chunk and nothing else, and so does what it   *)
(* has posted for the master.                                              *)
(***************************************************************************)
THEOREM AccountCorrect == ASSUME Sums PROVE ReductionSpec => []AccountOK
<1>1. Inductive /\ AccountOK /\ [ReductionNext]_reductionVars => AccountOK'
  BY NextAccount
<1> QED
  BY <1>1, InitAccount, ReductionIsFarm, InductiveCorrect, PTL DEF ReductionSpec

(***************************************************************************)
(* For + and *, at every step, the variable of the master holds its value  *)
(* before the loop and the terms of the merged iterations, each once.      *)
(***************************************************************************)
THEOREM FoldedOnceCorrect == ASSUME Sums PROVE ReductionSpec => []FoldedOnce
<1>1. AccountOK => FoldedOnce
  BY DEF AccountOK
<1> QED
  BY <1>1, AccountCorrect, PTL

(***************************************************************************)
(* After the block the variable holds what the sequential loop computes:   *)
(* its value before the loop and the term of every iteration, once.        *)
(***************************************************************************)
Reduced ==
  mpc = "done" =>
    /\ value.before = 1
    /\ value.stray = 0
    /\ \A i \in Iteration : value.terms[i] = 1

(***************************************************************************)
(* For + and *, the master leaves the block with the value of the          *)
(* sequential loop, in whatever order the slaves answered.                 *)
(***************************************************************************)
THEOREM ReducedCorrect == ASSUME Sums PROVE ReductionSpec => []Reduced
<1>1. FoldedOnce /\ ExactlyOnce => Reduced
  BY FreshAccount DEF FoldedOnce, ExactlyOnce, Reduced
<1> QED
  BY <1>1, FoldedOnceCorrect, ReductionIsFarm, ExactlyOnceCorrect, PTL
===============================================================================
