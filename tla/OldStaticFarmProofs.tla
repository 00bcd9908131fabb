-------------------------- MODULE OldStaticFarmProofs --------------------------
(***************************************************************************)
(* Machine-checked proofs about OldStaticFarm, for every number of slaves  *)
(* and all numbers of variables that a block sends, gets back or reduces.  *)
(***************************************************************************)
EXTENDS OldStaticFarm, BlockProofs

(***************************************************************************)
(* What the comment at the head of OldStaticFarm says of the constants,    *)
(* and for a block that sends no variable, where the offset is sent: that  *)
(* div.data does not divide the even share.                                *)
(***************************************************************************)
BlockIsPrinted ==
  /\ Start <= Bound
  /\ Inputs \in Nat /\ Outputs \in Nat /\ Reduced \in Nat
  /\ Outputs + Reduced > 0
  /\ Fixed \in BOOLEAN /\ Number \in Nat \ {0}
  /\ Inputs = 0 /\ Share > 0 => ChunkSize(Start, Bound, W, Fixed, Number) = Share

(***************************************************************************)
(* The shares of this style are counted from 0 (OldStaticOffset).          *)
(***************************************************************************)
FromZero == Start = 0

-------------------------------------------------------------------------------
Parameter(s) == Chunk("ATAG", SentOffset(s), OwnSize(s))

Repeats(q, m) == \A k \in 1 .. Len(q) : q[k] = m

(***************************************************************************)
(* The stages of a slave.  A share arrives in PerRound messages; the stop  *)
(* message is one, and if more are expected the slave takes it for the     *)
(* first of a round and waits for the others.  Where an empty share begins *)
(* does not matter.                                                        *)
(***************************************************************************)
OwnShare(s) ==
  /\ size[s] = StoredSize(s)
  /\ size[s] > 0 => offset[s] = StoredOffset(s)

Waits(s) == Unseeded(s) /\ spc[s] = "recv" /\ got[s] = 0 /\ Idle(s)

HasShare(s) ==
  /\ ~Unseeded(s)
  /\ spc[s] = "recv"
  /\ got[s] < PerRound
  /\ Len(toSlave[s]) = PerRound - got[s]
  /\ Repeats(toSlave[s], Parameter(s))
  /\ toMaster[s] = <<>>

Works(s) ==
  /\ ~Unseeded(s)
  /\ spc[s] = "run"
  /\ got[s] = 0
  /\ Idle(s)
  /\ OwnShare(s)
  /\ offset[s] <= iter[s]
  /\ iter[s] <= offset[s] + size[s]

HasAnswered(s) ==
  /\ ~Unseeded(s)
  /\ spc[s] = "recv"
  /\ got[s] = 0
  /\ toSlave[s] = <<>>
  /\ Len(toMaster[s]) = PerAnswer

Collected(s) == spc[s] = "recv" /\ got[s] = 0 /\ Idle(s)

Told(s) ==
  /\ toMaster[s] = <<>>
  /\ \/ /\ spc[s] = "recv" /\ got[s] = 0
        /\ Len(toSlave[s]) = 1 /\ Head(toSlave[s]) = Stop
     \/ spc[s] = "recv" /\ got[s] = 1 /\ PerRound > 1 /\ toSlave[s] = <<>>
     \/ spc[s] = "done" /\ got[s] = 0 /\ PerRound = 1 /\ toSlave[s] = <<>>

StageOK(s) ==
  IF mpc = "done" THEN Told(s)
  ELSE IF s < from THEN Collected(s)
  ELSE Waits(s) \/ HasShare(s) \/ Works(s) \/ HasAnswered(s)

MasterOK ==
  /\ mpc = "seed" => from = 1
  /\ mpc # "seed" => to = W + 1
  /\ toSelf = IF mpc = "done" THEN <<Stop>> ELSE <<>>

TypeOK ==
  /\ BlockTypeOK
  /\ from \in 1 .. (W + 1)
  /\ got \in [Slave -> Nat]

Stages ==
  /\ TypeOK
  /\ MasterOK
  /\ mpc = "done" => from = W + 1
  /\ \A s \in Slave : StageOK(s)

-------------------------------------------------------------------------------
(***************************************************************************)
(* How many messages there are, and where the shares lie: they have the    *)
(* size of those of BlockProofs, and from 0 they lie where those lie.      *)
(***************************************************************************)
LEMMA RoundsNat ==
  ASSUME BlockIsPrinted
  PROVE  PerRound \in Nat \ {0} /\ PerAnswer \in Nat \ {0}
BY DEF BlockIsPrinted, PerRound, PerAnswer

LEMMA StoredShape ==
  ASSUME BlockIsPrinted, NEW s \in Slave
  PROVE  /\ StoredOffset(s) \in Int /\ StoredSize(s) \in Nat
         /\ OwnSize(s) = StoredSize(s)
         /\ FromZero => Stored(s) = ShareOf(s)
<1>1. s \in Int /\ Share \in Nat /\ Start \in Int /\ Bound \in Int /\ W \in Int
  BY SlaveRange, ShareNat DEF BlockIsPrinted
<1>2. StoredOffset(s) = Share * (s - 1) /\ Share * (s - 1) \in Int
  BY <1>1 DEF StoredOffset, OldStaticOffset, Share
<1>3. StoredSize(s) = ShareSize(s) /\ StoredSize(s) \in Nat /\ OwnSize(s) = StoredSize(s)
  BY ShareInside DEF BlockIsPrinted, StoredSize, ShareSize, OwnSize
<1>4. ASSUME FromZero PROVE StoredOffset(s) = ShareOffset(s)
  BY <1>1, <1>2, <1>4, ShareShape DEF FromZero, BlockIsPrinted
<1> QED
  BY <1>2, <1>3, <1>4 DEF Stored, ShareOf

LEMMA ParameterShape ==
  ASSUME BlockIsPrinted, NEW s \in Slave
  PROVE  /\ Parameter(s) \in Message /\ Parameter(s).tag = "ATAG"
         /\ OwnOffset(s, Parameter(s).offset) \in Int
         /\ StoredSize(s) > 0 => OwnOffset(s, Parameter(s).offset) = StoredOffset(s)
<1>1. /\ s \in Int /\ 1 <= s /\ s <= W
      /\ Share \in Nat /\ Start \in Int /\ Bound \in Int /\ W \in Int
  BY SlaveRange, ShareNat DEF BlockIsPrinted
<1>2. /\ StoredOffset(s) \in Int /\ StoredSize(s) \in Nat /\ OwnSize(s) = StoredSize(s)
      /\ StoredOffset(s) = Share * (s - 1)
  BY StoredShape DEF StoredOffset, OldStaticOffset, Share
<1>3. s # W => StoredSize(s) = Share
  BY DEF StoredSize, StaticSize, Share
<1>4. SentOffset(s) \in Int /\ (StoredSize(s) > 0 => SentOffset(s) = StoredOffset(s))
  <2>1. CASE Inputs = 0 /\ s # W
    <3> DEFINE c == ChunkSize(Start, Bound, W, Fixed, Number)
    <3>1. c \in Nat /\ (Share > 0 => c = Share)
      BY <2>1, ChunkSizeNat DEF BlockIsPrinted
    <3>2. SentOffset(s) = c * (s - 1)
      BY <2>1 DEF SentOffset
    <3> HIDE DEF c
    <3>3. c * (s - 1) \in Int
      BY <1>1, <3>1
    <3>4. ASSUME StoredSize(s) > 0 PROVE SentOffset(s) = StoredOffset(s)
      BY <1>2, <1>3, <2>1, <3>1, <3>2, <3>4
    <3> QED
      BY <3>2, <3>3, <3>4
  <2>2. CASE ~(Inputs = 0 /\ s # W)
    BY <1>2, <2>2 DEF SentOffset, StoredOffset
  <2> QED
    BY <2>1, <2>2
<1>5. /\ Parameter(s) \in Message /\ Parameter(s).tag = "ATAG"
      /\ Parameter(s).offset = SentOffset(s)
  BY <1>2, <1>4, ChunkType DEF Parameter, Chunk, Tag
<1> QED
  BY <1>2, <1>4, <1>5 DEF OwnOffset, StoredOffset

-------------------------------------------------------------------------------
(***************************************************************************)
(* Rounds of messages: what is sent at once, and what is left of it when   *)
(* its first message has been received.                                    *)
(***************************************************************************)
LEMMA SendRound ==
  ASSUME NEW m \in Message, NEW n \in Nat, NEW q, q = <<>> \o [k \in 1 .. n |-> m]
  PROVE  Len(q) = n /\ Repeats(q, m)
<1> DEFINE p == [k \in 1 .. n |-> m]
<1>1. p \in Seq(Message) /\ Len(p) = n /\ \A k \in 1 .. n : p[k] = m
  OBVIOUS
<1> HIDE DEF p
<1>2. <<>> \o p = p
  BY <1>1
<1> QED
  BY <1>1, <1>2 DEF p, Repeats

LEMMA TakeFirst ==
  ASSUME NEW q \in Seq(Message), q # <<>>, NEW m, Repeats(q, m)
  PROVE  /\ Head(q) = m
         /\ Tail(q) \in Seq(Message) /\ Len(Tail(q)) = Len(q) - 1
         /\ Repeats(Tail(q), m)
<1>1. Len(q) \in Nat /\ Len(q) # 0 /\ Head(q) = q[1]
  BY EmptySeq
<1>2. /\ Tail(q) \in Seq(Message) /\ Len(Tail(q)) = Len(q) - 1
      /\ \A k \in 1 .. Len(Tail(q)) : Tail(q)[k] = q[k + 1]
  BY HeadTailProperties
<1>3. \A k \in 1 .. Len(Tail(q)) : k + 1 \in 1 .. Len(q)
  BY <1>1, <1>2
<1> QED
  BY <1>1, <1>2, <1>3 DEF Repeats

-------------------------------------------------------------------------------
(***************************************************************************)
(* The types hold when the block begins, and every step keeps them.        *)
(***************************************************************************)
LEMMA InitTypeOK == Init => TypeOK
BY InitBlockType, BlockAssumption DEF Init, TypeOK

LEMMA AnswersType ==
  ASSUME BlockIsPrinted, BlockTypeOK, NEW s \in Slave
  PROVE  /\ Result(s, "FTAG") \in Message
         /\ Answers(s) = [k \in 1 .. PerAnswer |-> Result(s, "FTAG")]
         /\ Answers(s) \in Seq(Message)
<1>1. Result(s, "FTAG") \in Message
  BY ChunkType DEF BlockTypeOK, Result, Tag
<1>2. PerAnswer \in Nat
  BY RoundsNat
<1> QED
  BY <1>1, <1>2 DEF Answers

LEMMA MasterTypeOK ==
  ASSUME BlockIsPrinted, TypeOK, Master
  PROVE  TypeOK'
<1> USE DEF TypeOK, BlockTypeOK
<1>1. CASE Seed
  <2>1. PICK s \in Slave : s = to
    BY <1>1 DEF Seed
  <2>2. /\ toSlave' = [toSlave EXCEPT ![s] = @ \o Parameters(s)]
        /\ to' \in 1 .. (W + 1)
        /\ UNCHANGED <<mpc, spc, offset, size, iter, toMaster, runs, merged, from, got>>
    BY <1>1, <2>1, BlockAssumption DEF Seed, Slave, slaveVars, extraVars
  <2>3. Parameters(s) \in Seq(Message)
    <3>1. Parameter(s) \in Message /\ PerRound \in Nat
      BY ParameterShape, RoundsNat
    <3> QED
      BY <3>1 DEF Parameters, Parameter
  <2>4. toSlave' \in [Slave -> Seq(Message)]
    BY <2>2, <2>3
  <2> QED
    BY <2>2, <2>4 DEF Counter
<1>2. CASE EndSeed
  BY <1>2 DEF EndSeed, slaveVars, extraVars, Counter
<1>3. CASE Collect
  <2>1. /\ mpc = "serve" /\ from \in Slave /\ from' = from + 1
        /\ merged' = Bump(merged, Stored(from))
        /\ toMaster' = [toMaster EXCEPT ![from] = SubSeq(@, PerAnswer + 1, Len(@))]
        /\ UNCHANGED <<mpc, to, spc, offset, size, iter, toSlave, runs, got>>
    BY <1>3 DEF Collect, slaveVars
  <2>2. from' \in 1 .. (W + 1)
    BY <2>1, BlockAssumption DEF Slave
  <2>3. SubSeq(toMaster[from], PerAnswer + 1, Len(toMaster[from])) \in Seq(Message)
    <3>1. toMaster[from] \in Seq(Message) /\ PerAnswer + 1 \in Nat \ {0}
      BY <2>1, RoundsNat
    <3> QED
      BY <3>1, SubSeqProperties
  <2>4. toMaster' \in [Slave -> Seq(Message)]
    BY <2>1, <2>3
  <2>5. Counter(merged')
    <3>1. Stored(from) \in SUBSET Int
      BY <2>1, StoredShape, SliceInt DEF Stored
    <3> QED
      BY <2>1, <3>1, BumpCounter
  <2> QED
    BY <2>1, <2>2, <2>4, <2>5 DEF Counter
<1>4. CASE StopAll
  <2>1. toSlave' \in [Slave -> Seq(Message)]
    <3>1. \A s \in Slave : Append(toSlave[s], Stop) \in Seq(Message)
      BY StopType
    <3> QED
      BY <1>4, <3>1 DEF StopAll
  <2> QED
    BY <1>4, <2>1 DEF StopAll, slaveVars, Counter
<1> QED
  BY <1>1, <1>2, <1>3, <1>4 DEF Master

LEMMA SlaveTypeOK ==
  ASSUME BlockIsPrinted, TypeOK, NEW s \in Slave, SlaveStep(s)
  PROVE  TypeOK'
<1>1. BlockTypeOK /\ from \in 1 .. (W + 1) /\ got \in [Slave -> Nat]
  BY DEF TypeOK
<1>2. CASE Receive(s)
  <2>1. toSlave' \in [Slave -> Seq(Message)]
    BY <1>1, <1>2, DropType DEF Receive, BlockTypeOK
  <2>2. got' \in [Slave -> Nat]
    BY <1>1, <1>2 DEF Receive
  <2>3. UNCHANGED <<mpc, to, spc, offset, size, iter, toMaster, runs, merged, from>>
    BY <1>2 DEF Receive, slaveVars
  <2>4. BlockTypeOK'
    BY <1>1, <2>1, <2>3 DEF BlockTypeOK, Counter
  <2> QED
    BY <1>1, <2>2, <2>3, <2>4 DEF TypeOK
<1>3. CASE TakeShare(s)
  <2>1. PICK m : m = Head(toSlave[s])
    OBVIOUS
  <2>2. SlaveStart(s, OwnOffset(s, m.offset), OwnSize(s))
    BY <1>3, <2>1 DEF TakeShare
  <2>3. m.offset \in Int
    BY <1>1, <2>1, <2>2, DropType DEF SlaveStart, Arrived, BlockTypeOK
  <2>4. OwnOffset(s, m.offset) \in Int /\ OwnSize(s) \in Nat
    BY <2>3, StoredShape DEF OwnOffset, StoredOffset
  <2>5. BlockTypeOK'
    BY <1>1, <2>2, <2>4, StartBlockType
  <2> QED
    BY <1>1, <1>3, <2>5 DEF TakeShare, LastOfRound, TypeOK
<1>4. CASE Leave(s)
  <2>1. BlockTypeOK'
    BY <1>1, <1>4, StopBlockType DEF Leave
  <2> QED
    BY <1>1, <1>4, <2>1 DEF Leave, LastOfRound, TypeOK
<1>5. CASE Work(s)
  <2>1. BlockTypeOK'
    <3>1. ASSUME SlaveIterate(s) PROVE BlockTypeOK'
      BY <1>1, <3>1, IterateBlockType
    <3>2. ASSUME NEW q, q = Answers(s), SlaveReply(s, [toMaster EXCEPT ![s] = @ \o q])
          PROVE  BlockTypeOK'
      <4>1. toMaster \in [Slave -> Seq(Message)] /\ q \in Seq(Message)
        BY <1>1, <3>2, AnswersType DEF BlockTypeOK
      <4>2. [toMaster EXCEPT ![s] = @ \o q] \in [Slave -> Seq(Message)]
        BY <4>1
      <4> QED
        BY <1>1, <3>2, <4>2, ReplyBlockType
    <3> QED
      BY <1>5, <3>1, <3>2 DEF Work
  <2> QED
    BY <1>1, <1>5, <2>1 DEF Work, extraVars, TypeOK
<1> QED
  BY <1>2, <1>3, <1>4, <1>5 DEF SlaveStep

LEMMA NextTypeOK ==
  ASSUME BlockIsPrinted, TypeOK, [Next]_vars
  PROVE  TypeOK'
<1>1. CASE UNCHANGED vars
  BY <1>1 DEF vars, blockVars, slaveVars, extraVars, TypeOK, BlockTypeOK, Counter
<1> QED
  BY <1>1, MasterTypeOK, SlaveTypeOK DEF Next, Finished

-------------------------------------------------------------------------------
(***************************************************************************)
(* A step that does not concern a slave keeps its stage.                   *)
(***************************************************************************)
View(t) == <<toSlave[t], toMaster[t], spc[t], offset[t], size[t], iter[t], got[t]>>

Apart(t) ==
  /\ UNCHANGED View(t)
  /\ Unseeded(t)' <=> Unseeded(t)
  /\ (t < from') <=> (t < from)
  /\ mpc' = "done" <=> mpc = "done"

LEMMA Frame ==
  ASSUME NEW t \in Slave, Apart(t), StageOK(t)
  PROVE  StageOK(t)'
<1> USE DEF Apart, View
<1>1. /\ Waits(t)' <=> Waits(t)
      /\ Collected(t)' <=> Collected(t)
      /\ Told(t)' <=> Told(t)
      /\ HasAnswered(t)' <=> HasAnswered(t)
  BY DEF Waits, Collected, Told, HasAnswered, Idle, Stop, Chunk
<1>2. HasShare(t)' <=> HasShare(t)
  <2>1. Parameter(t)' = Parameter(t) /\ PerRound' = PerRound
    BY DEF Parameter, PerRound, SentOffset, OwnSize
  <2> QED
    BY <2>1 DEF HasShare, Repeats
<1>3. Works(t)' <=> Works(t)
  BY DEF Works, Idle, OwnShare, StoredOffset, StoredSize
<1> QED
  BY <1>1, <1>2, <1>3 DEF StageOK

(***************************************************************************)
(* A step that concerns slave s only.                                      *)
(***************************************************************************)
LEMMA StepStages ==
  ASSUME Stages, TypeOK', NEW s \in Slave,
         \A t \in Slave : t # s => Apart(t),
         StageOK(s)', MasterOK', mpc' = "done" => from' = W + 1
  PROVE  Stages'
<1>1. ASSUME NEW t \in Slave PROVE StageOK(t)'
  BY Frame DEF Stages
<1> QED
  BY <1>1 DEF Stages

LEMMA SlaveStages ==
  ASSUME Stages, TypeOK', NEW s \in Slave, StageOK(s)',
         \A t \in Slave : t # s => UNCHANGED View(t),
         UNCHANGED <<mpc, to, from, toSelf>>
  PROVE  Stages'
<1>1. \A t \in Slave : t # s => Apart(t)
  BY DEF Apart, Unseeded
<1>2. MasterOK' /\ (mpc' = "done" => from' = W + 1)
  BY DEF Stages, MasterOK, Stop, Chunk
<1> QED
  BY <1>1, <1>2, StepStages

-------------------------------------------------------------------------------
(***************************************************************************)
(* The steps of the master.                                                *)
(***************************************************************************)
LEMMA SeedStages ==
  ASSUME BlockIsPrinted, Stages, TypeOK', NEW s \in Slave, s = to, Seed
  PROVE  Stages'
<1> USE DEF TypeOK, BlockTypeOK
<1>1. /\ mpc = "seed" /\ to' = s + 1 /\ to = s
      /\ toSlave' = [toSlave EXCEPT ![s] = @ \o Parameters(s)]
      /\ UNCHANGED <<mpc, spc, offset, size, iter, toMaster, runs, merged, from, toSelf, got>>
  BY DEF Seed, slaveVars, extraVars
<1>2. TypeOK /\ MasterOK /\ StageOK(s) /\ s \in Int /\ 1 <= s
  BY SlaveRange DEF Stages
<1>3. from = 1 /\ Unseeded(s) /\ ~Unseeded(s)' /\ ~(s < from)
  BY <1>1, <1>2 DEF MasterOK, Unseeded
<1>4. spc[s] = "recv" /\ got[s] = 0 /\ toSlave[s] = <<>> /\ toMaster[s] = <<>>
  BY <1>1, <1>2, <1>3 DEF StageOK, Waits, HasShare, Works, HasAnswered, Idle
<1>5. Parameter(s) \in Message /\ PerRound \in Nat \ {0}
  BY ParameterShape, RoundsNat
<1>6. toSlave'[s] = <<>> \o [k \in 1 .. PerRound |-> Parameter(s)]
  BY <1>1, <1>2, <1>4 DEF Parameters, Parameter
<1>7. Len(toSlave'[s]) = PerRound /\ Repeats(toSlave'[s], Parameter(s))
  BY <1>5, <1>6, SendRound
<1>8. HasShare(s)'
  <2>1. spc'[s] = "recv" /\ got'[s] = 0 /\ toMaster'[s] = <<>>
    BY <1>1, <1>4
  <2>2. Parameter(s)' = Parameter(s) /\ PerRound' = PerRound
    BY DEF Parameter, PerRound, SentOffset, OwnSize
  <2> QED
    BY <1>3, <1>5, <1>7, <2>1, <2>2 DEF HasShare, Repeats
<1>9. StageOK(s)'
  BY <1>1, <1>3, <1>8 DEF StageOK
<1>10. ASSUME NEW t \in Slave, t # s PROVE Apart(t)
  <2>1. toSlave'[t] = toSlave[t] /\ t \in Int
    BY <1>1, <1>2, <1>10, SlaveRange
  <2>2. UNCHANGED View(t)
    BY <1>1, <2>1 DEF View
  <2>3. Unseeded(t)' <=> Unseeded(t)
    <3>1. to = s /\ to' = s + 1 /\ mpc' = mpc /\ s \in Int /\ t \in Int
      BY <1>1, <1>2, <2>1
    <3> QED
      BY <1>10, <3>1 DEF Unseeded
  <2> QED
    BY <1>1, <2>2, <2>3 DEF Apart
<1>11. MasterOK' /\ (mpc' = "done" => from' = W + 1)
  BY <1>1, <1>2 DEF MasterOK
<1> QED
  BY <1>9, <1>10, <1>11, StepStages

LEMMA EndSeedStages ==
  ASSUME Stages, TypeOK', EndSeed
  PROVE  Stages'
<1>1. /\ mpc = "seed" /\ mpc' = "serve" /\ to = W + 1
      /\ UNCHANGED <<to, spc, offset, size, iter, toSlave, toMaster, runs, merged, from, toSelf, got>>
  BY DEF EndSeed, slaveVars, extraVars
<1>2. ASSUME NEW t \in Slave PROVE Apart(t)
  <2>1. ~(t >= W + 1)
    BY SlaveRange, BlockAssumption
  <2> QED
    BY <1>1, <2>1 DEF Apart, View, Unseeded
<1>3. 1 \in Slave
  BY BlockAssumption DEF Slave
<1>4. StageOK(1)' /\ MasterOK' /\ (mpc' = "done" => from' = W + 1)
  BY <1>1, <1>2, <1>3, Frame DEF Stages, MasterOK
<1> QED
  BY <1>2, <1>3, <1>4, StepStages

(***************************************************************************)
(* The slave whose answer is complete has answered.                        *)
(***************************************************************************)
LEMMA CollectReady ==
  ASSUME BlockIsPrinted, Stages, Collect
  PROVE  from \in Slave /\ mpc = "serve" /\ to = W + 1 /\ HasAnswered(from)
<1>1. /\ mpc = "serve" /\ from \in Slave /\ Len(toMaster[from]) >= PerAnswer
      /\ to = W + 1 /\ from \in Int
  BY SlaveRange DEF Collect, Stages, MasterOK
<1>2. PerAnswer \in Nat \ {0} /\ toMaster[from] \in Seq(Message)
  BY <1>1, RoundsNat DEF Stages, TypeOK, BlockTypeOK
<1>3. toMaster[from] # <<>>
  BY <1>1, <1>2, EmptySeq
<1> QED
  BY <1>1, <1>3 DEF Stages, StageOK, Waits, HasShare, Works, Idle

LEMMA CollectStages ==
  ASSUME BlockIsPrinted, Stages, TypeOK', NEW s \in Slave, s = from, Collect
  PROVE  Stages'
<1> USE DEF TypeOK, BlockTypeOK
<1>1. /\ mpc = "serve" /\ from' = s + 1
      /\ toMaster' = [toMaster EXCEPT ![s] = SubSeq(@, PerAnswer + 1, Len(@))]
      /\ UNCHANGED <<mpc, to, spc, offset, size, iter, toSlave, runs, toSelf, got>>
  BY DEF Collect, slaveVars
<1>2. TypeOK /\ MasterOK /\ HasAnswered(s) /\ s \in Int /\ 1 <= s /\ s <= W
  BY CollectReady, SlaveRange DEF Stages
<1>3. toMaster'[s] = <<>>
  <2>1. /\ toMaster[s] \in Seq(Message) /\ PerAnswer \in Nat \ {0}
        /\ Len(toMaster[s]) = PerAnswer
    BY <1>2, RoundsNat DEF HasAnswered
  <2>2. SubSeq(toMaster[s], PerAnswer + 1, Len(toMaster[s])) = <<>>
    BY <2>1
  <2> QED
    BY <1>1, <1>2, <2>2
<1>4. Collected(s)'
  BY <1>1, <1>2, <1>3 DEF Collected, HasAnswered, Idle
<1>5. StageOK(s)'
  BY <1>1, <1>2, <1>4 DEF StageOK
<1>6. ASSUME NEW t \in Slave, t # s PROVE Apart(t)
  <2>1. toMaster'[t] = toMaster[t] /\ t \in Int
    BY <1>1, <1>2, <1>6, SlaveRange
  <2>2. UNCHANGED View(t)
    BY <1>1, <2>1 DEF View
  <2>3. (t < from') <=> (t < from)
    <3>1. from = s /\ from' = s + 1 /\ s \in Int /\ t \in Int
      BY <1>1, <1>2, <2>1
    <3> QED
      BY <1>6, <3>1
  <2> QED
    BY <1>1, <2>2, <2>3 DEF Apart, Unseeded
<1>7. MasterOK' /\ (mpc' = "done" => from' = W + 1)
  BY <1>1, <1>2 DEF MasterOK
<1> QED
  BY <1>5, <1>6, <1>7, StepStages

(***************************************************************************)
(* All slaves, and the master itself, get the stop message at once.        *)
(***************************************************************************)
LEMMA StopAllStages ==
  ASSUME Stages, TypeOK', StopAll
  PROVE  Stages'
<1> USE DEF TypeOK, BlockTypeOK
<1>1. /\ mpc = "serve" /\ mpc' = "done" /\ from = W + 1
      /\ toSlave' = [s \in Slave |-> Append(toSlave[s], Stop)]
      /\ toSelf' = Append(toSelf, Stop)
      /\ UNCHANGED <<to, spc, offset, size, iter, toMaster, runs, merged, from, got>>
  BY DEF StopAll, slaveVars
<1>2. TypeOK /\ MasterOK
  BY DEF Stages
<1>3. ASSUME NEW s \in Slave PROVE StageOK(s)'
  <2>1. s < from
    BY <1>1, SlaveRange, BlockAssumption
  <2>2. Collected(s)
    BY <1>1, <2>1 DEF Stages, StageOK
  <2>3. toSlave'[s] = Append(<<>>, Stop)
    BY <1>1, <2>2 DEF Collected, Idle
  <2>4. Len(toSlave'[s]) = 1 /\ Head(toSlave'[s]) = Stop
    BY <2>3
  <2>5. Told(s)'
    BY <1>1, <2>2, <2>4 DEF Told, Collected, Idle, Stop, Chunk
  <2> QED
    BY <1>1, <2>5 DEF StageOK
<1>4. MasterOK'
  BY <1>1, <1>2 DEF MasterOK, Stop, Chunk
<1> QED
  BY <1>1, <1>3, <1>4 DEF Stages

-------------------------------------------------------------------------------
(***************************************************************************)
(* The steps of a slave.                                                   *)
(***************************************************************************)
LEMMA ReceiveStages ==
  ASSUME BlockIsPrinted, Stages, TypeOK', NEW s \in Slave, Receive(s)
  PROVE  Stages'
<1>1. /\ spc[s] = "recv" /\ toSlave[s] # <<>> /\ got[s] + 1 < PerRound
      /\ toSlave' = [toSlave EXCEPT ![s] = Tail(@)]
      /\ got' = [got EXCEPT ![s] = @ + 1]
      /\ UNCHANGED <<mpc, to, spc, offset, size, iter, toMaster, from, toSelf>>
  BY DEF Receive, slaveVars, Drop
<1>2. /\ StageOK(s)
      /\ got \in [Slave -> Nat] /\ toSlave \in [Slave -> Seq(Message)]
      /\ PerRound \in Nat \ {0}
  BY RoundsNat DEF Stages, TypeOK, BlockTypeOK
<1>3. toSlave'[s] = Tail(toSlave[s]) /\ got'[s] = got[s] + 1 /\ PerRound' = PerRound
  BY <1>1, <1>2 DEF PerRound
<1>4. ASSUME HasShare(s), mpc # "done", ~(s < from) PROVE StageOK(s)'
  <2>1. /\ toSlave[s] \in Seq(Message) /\ Repeats(toSlave[s], Parameter(s))
        /\ Len(toSlave[s]) = PerRound - got[s] /\ toMaster[s] = <<>> /\ ~Unseeded(s)
    BY <1>2, <1>4 DEF HasShare
  <2>2. Len(toSlave'[s]) = PerRound - got'[s] /\ Repeats(toSlave'[s], Parameter(s))
    <3>1. Len(toSlave'[s]) = Len(toSlave[s]) - 1 /\ Repeats(toSlave'[s], Parameter(s))
      BY <1>1, <1>3, <2>1, TakeFirst
    <3> QED
      BY <1>2, <1>3, <2>1, <3>1
  <2>3. Parameter(s)' = Parameter(s)
    BY DEF Parameter, SentOffset, OwnSize
  <2>4. HasShare(s)'
    BY <1>1, <1>2, <1>3, <2>1, <2>2, <2>3 DEF HasShare, Unseeded, Repeats
  <2> QED
    BY <1>1, <1>4, <2>4 DEF StageOK
<1>5. ASSUME Told(s), mpc = "done" PROVE StageOK(s)'
  <2>1. got[s] = 0 /\ Len(toSlave[s]) = 1 /\ toMaster[s] = <<>>
    BY <1>1, <1>5 DEF Told
  <2>2. toSlave'[s] = <<>>
    BY <1>2, <1>3, <2>1, DropLast DEF Drop
  <2>3. Told(s)'
    BY <1>1, <1>2, <1>3, <2>1, <2>2 DEF Told
  <2> QED
    BY <1>1, <1>5, <2>3 DEF StageOK
<1>6. StageOK(s)'
  BY <1>1, <1>2, <1>4, <1>5 DEF StageOK, Waits, Works, HasAnswered, Collected, Idle
<1>7. \A t \in Slave : t # s => UNCHANGED View(t)
  BY <1>1, <1>2 DEF View
<1> QED
  BY <1>1, <1>6, <1>7, SlaveStages

(***************************************************************************)
(* A slave that takes the last message of a round has a share before it.   *)
(***************************************************************************)
LEMMA TakeShareReady ==
  ASSUME BlockIsPrinted, Stages, NEW s \in Slave, TakeShare(s)
  PROVE  /\ mpc # "done" /\ ~(s < from)
         /\ HasShare(s)
         /\ Head(toSlave[s]) = Parameter(s)
         /\ toSlave'[s] = <<>> /\ got'[s] = 0
<1>1. /\ spc[s] = "recv" /\ Arrived(toSlave, s, "ATAG") /\ got[s] + 1 = PerRound
      /\ toSlave' = [toSlave EXCEPT ![s] = Tail(@)]
      /\ got' = [got EXCEPT ![s] = 0]
  BY DEF TakeShare, LastOfRound, SlaveStart, Drop
<1>2. /\ StageOK(s)
      /\ got \in [Slave -> Nat] /\ toSlave \in [Slave -> Seq(Message)]
  BY DEF Stages, TypeOK, BlockTypeOK
<1>3. toSlave[s] # <<>> /\ Head(toSlave[s]).tag = "ATAG"
  BY <1>1 DEF Arrived
<1>4. ~Told(s) /\ ~Collected(s)
  BY <1>3 DEF Told, Collected, Idle, Stop, Chunk
<1>5. HasShare(s) /\ mpc # "done" /\ ~(s < from)
  BY <1>1, <1>2, <1>3, <1>4 DEF StageOK, Waits, Works, HasAnswered, Idle
<1>6. toSlave[s] \in Seq(Message) /\ Repeats(toSlave[s], Parameter(s)) /\ Len(toSlave[s]) = 1
  BY <1>1, <1>2, <1>5 DEF HasShare
<1>7. Head(toSlave[s]) = Parameter(s)
  BY <1>3, <1>6, TakeFirst
<1>8. toSlave'[s] = <<>> /\ got'[s] = 0
  BY <1>1, <1>2, <1>6, DropLast DEF Drop
<1> QED
  BY <1>5, <1>7, <1>8

LEMMA TakeShareStages ==
  ASSUME BlockIsPrinted, Stages, TypeOK', NEW s \in Slave, TakeShare(s)
  PROVE  Stages'
<1>1. /\ mpc # "done" /\ ~(s < from) /\ HasShare(s)
      /\ Head(toSlave[s]) = Parameter(s)
      /\ toSlave'[s] = <<>> /\ got'[s] = 0
  BY TakeShareReady
<1> DEFINE o == OwnOffset(s, Parameter(s).offset)
<1>2. /\ offset' = [offset EXCEPT ![s] = o]
      /\ size' = [size EXCEPT ![s] = OwnSize(s)]
      /\ iter' = [iter EXCEPT ![s] = o]
      /\ spc' = [spc EXCEPT ![s] = "run"]
      /\ toSlave' = Drop(toSlave, s)
      /\ got' = [got EXCEPT ![s] = 0]
      /\ UNCHANGED <<mpc, to, toMaster, from, toSelf>>
  BY <1>1 DEF TakeShare, LastOfRound, SlaveStart
<1>3. /\ o \in Int /\ (StoredSize(s) > 0 => o = StoredOffset(s))
      /\ OwnSize(s) = StoredSize(s) /\ StoredSize(s) \in Nat
  BY ParameterShape, StoredShape
<1> HIDE DEF o
<1>4. TypeOK
  BY DEF Stages
<1>5. /\ offset'[s] = o /\ size'[s] = StoredSize(s) /\ iter'[s] = o /\ spc'[s] = "run"
      /\ toMaster'[s] = <<>> /\ ~Unseeded(s)'
  BY <1>1, <1>2, <1>3, <1>4 DEF TypeOK, BlockTypeOK, HasShare, Unseeded
<1>6. OwnShare(s)'
  BY <1>3, <1>5 DEF OwnShare, StoredOffset, StoredSize
<1>7. Works(s)'
  BY <1>1, <1>3, <1>5, <1>6 DEF Works, Idle
<1>8. StageOK(s)'
  BY <1>1, <1>2, <1>7 DEF StageOK
<1>9. \A t \in Slave : t # s => UNCHANGED View(t)
  BY <1>2, <1>4 DEF View, Drop, TypeOK, BlockTypeOK
<1> QED
  BY <1>2, <1>8, <1>9, SlaveStages

LEMMA LeaveStages ==
  ASSUME BlockIsPrinted, Stages, TypeOK', NEW s \in Slave, Leave(s)
  PROVE  Stages' /\ PerRound = 1
<1>1. /\ spc[s] = "recv" /\ Arrived(toSlave, s, "FTAG") /\ got[s] + 1 = PerRound
      /\ spc' = [spc EXCEPT ![s] = "done"]
      /\ toSlave' = Drop(toSlave, s)
      /\ got' = [got EXCEPT ![s] = 0]
      /\ UNCHANGED <<mpc, to, offset, size, iter, toMaster, from, toSelf>>
  BY DEF Leave, LastOfRound, SlaveStop
<1>2. StageOK(s) /\ TypeOK
  BY DEF Stages
<1>3. toSlave[s] # <<>> /\ Head(toSlave[s]).tag = "FTAG"
  BY <1>1 DEF Arrived
<1>4. ~HasShare(s)
  <2>1. ASSUME HasShare(s) PROVE Head(toSlave[s]) = Parameter(s)
    BY <1>2, <1>3, <2>1, TakeFirst DEF HasShare, TypeOK, BlockTypeOK
  <2> QED
    BY <1>3, <2>1, ParameterShape
<1>5. Told(s) /\ mpc = "done"
  BY <1>1, <1>2, <1>3, <1>4 DEF StageOK, Waits, Works, HasAnswered, Collected, Idle
<1>6. got[s] = 0 /\ Len(toSlave[s]) = 1 /\ toMaster[s] = <<>> /\ PerRound = 1
  BY <1>1, <1>3, <1>5 DEF Told
<1>7. /\ spc'[s] = "done" /\ toSlave'[s] = <<>> /\ got'[s] = 0 /\ toMaster'[s] = <<>>
      /\ PerRound' = 1
  BY <1>1, <1>2, <1>6, DropLast DEF TypeOK, BlockTypeOK, PerRound
<1>8. Told(s)'
  BY <1>7 DEF Told
<1>9. StageOK(s)'
  BY <1>1, <1>5, <1>8 DEF StageOK
<1>10. \A t \in Slave : t # s => UNCHANGED View(t)
  BY <1>1, <1>2 DEF View, Drop, TypeOK, BlockTypeOK
<1> QED
  BY <1>1, <1>6, <1>9, <1>10, SlaveStages

LEMMA IterateStages ==
  ASSUME Stages, TypeOK', NEW s \in Slave, SlaveIterate(s), UNCHANGED extraVars
  PROVE  /\ Stages'
         /\ Works(s) /\ mpc # "done" /\ ~(s < from)
         /\ iter[s] \in Int /\ iter[s] \in Stored(s)
<1>1. /\ spc[s] \in {"run", "got"} /\ InChunk(s)
      /\ iter' = [iter EXCEPT ![s] = @ + 1]
      /\ spc' = [spc EXCEPT ![s] = "run"]
      /\ UNCHANGED <<mpc, to, toSlave, toMaster, offset, size, from, toSelf, got>>
  BY DEF SlaveIterate, extraVars
<1>2. StageOK(s) /\ TypeOK
  BY DEF Stages
<1>3. Works(s) /\ mpc # "done" /\ ~(s < from)
  BY <1>1, <1>2 DEF StageOK, Waits, HasShare, HasAnswered, Collected, Told
<1>4. /\ offset[s] \in Int /\ size[s] \in Nat /\ iter[s] \in Int
      /\ iter'[s] = iter[s] + 1 /\ spc'[s] = "run"
      /\ offset[s] <= iter[s] /\ iter[s] < offset[s] + size[s]
      /\ ~Unseeded(s)' /\ OwnShare(s)
  BY <1>1, <1>2, <1>3 DEF TypeOK, BlockTypeOK, InChunk, Works, Unseeded
<1>5. iter[s] \in Stored(s)
  <2>1. size[s] > 0
    BY <1>4
  <2>2. offset[s] = StoredOffset(s) /\ size[s] = StoredSize(s)
    BY <1>4, <2>1 DEF OwnShare
  <2> QED
    BY <1>4, <2>2 DEF Stored, Slice
<1>6. OwnShare(s)' /\ Idle(s)'
  BY <1>1, <1>3, <1>4 DEF OwnShare, Works, Idle, StoredOffset, StoredSize
<1>7. Works(s)'
  BY <1>1, <1>3, <1>4, <1>6 DEF Works
<1>8. StageOK(s)'
  BY <1>1, <1>3, <1>7 DEF StageOK
<1>9. \A t \in Slave : t # s => UNCHANGED View(t)
  BY <1>1, <1>2 DEF View, TypeOK, BlockTypeOK
<1>10. Stages'
  BY <1>1, <1>8, <1>9, SlaveStages
<1> QED
  BY <1>3, <1>4, <1>5, <1>10

LEMMA ReplyStages ==
  ASSUME BlockIsPrinted, Stages, TypeOK', NEW s \in Slave,
         SlaveReply(s, [toMaster EXCEPT ![s] = @ \o Answers(s)]), UNCHANGED extraVars
  PROVE  /\ Stages'
         /\ Works(s) /\ mpc # "done" /\ ~(s < from)
         /\ iter[s] = offset[s] + size[s] /\ toMaster'[s] # <<>>
<1>1. /\ spc[s] = "run" /\ ~InChunk(s)
      /\ toMaster' = [toMaster EXCEPT ![s] = @ \o Answers(s)]
      /\ spc' = [spc EXCEPT ![s] = "recv"]
      /\ UNCHANGED <<mpc, to, toSlave, offset, size, iter, from, toSelf, got>>
  BY DEF SlaveReply, extraVars
<1>2. StageOK(s) /\ TypeOK
  BY DEF Stages
<1>3. Works(s) /\ mpc # "done" /\ ~(s < from)
  BY <1>1, <1>2 DEF StageOK, Waits, HasShare, HasAnswered, Collected, Told
<1>4. iter[s] = offset[s] + size[s]
  BY <1>1, <1>2, <1>3 DEF TypeOK, BlockTypeOK, InChunk, Works
<1>5. toMaster'[s] = <<>> \o [k \in 1 .. PerAnswer |-> Result(s, "FTAG")]
  BY <1>1, <1>2, <1>3 DEF TypeOK, BlockTypeOK, Works, Idle, Answers
<1>6. Result(s, "FTAG") \in Message /\ PerAnswer \in Nat \ {0}
  BY <1>2, AnswersType, RoundsNat DEF TypeOK
<1>7. Len(toMaster'[s]) = PerAnswer
  BY <1>5, <1>6, SendRound
<1>8. toMaster'[s] # <<>>
  BY <1>6, <1>7, EmptySeq
<1>9. PerAnswer' = PerAnswer /\ spc'[s] = "recv" /\ got'[s] = 0 /\ toSlave'[s] = <<>>
  BY <1>1, <1>2, <1>3 DEF PerAnswer, TypeOK, BlockTypeOK, Works, Idle
<1>10. HasAnswered(s)'
  BY <1>1, <1>3, <1>7, <1>9 DEF HasAnswered, Works, Unseeded
<1>11. StageOK(s)'
  BY <1>1, <1>3, <1>10 DEF StageOK
<1>12. \A t \in Slave : t # s => UNCHANGED View(t)
  BY <1>1, <1>2 DEF View, TypeOK, BlockTypeOK
<1>13. Stages'
  BY <1>1, <1>11, <1>12, SlaveStages
<1> QED
  BY <1>3, <1>4, <1>8, <1>13

-------------------------------------------------------------------------------
LEMMA InitStages == Init => Stages
<1> SUFFICES ASSUME Init PROVE Stages
  OBVIOUS
<1>1. /\ TypeOK /\ mpc = "seed" /\ to = 1 /\ from = 1 /\ toSelf = <<>>
      /\ \A s \in Slave : spc[s] = "recv" /\ toSlave[s] = <<>> /\ toMaster[s] = <<>> /\ got[s] = 0
  BY InitTypeOK DEF Init, BlockInit
<1>2. ASSUME NEW s \in Slave PROVE StageOK(s)
  BY <1>1, SlaveRange DEF StageOK, Waits, Idle, Unseeded
<1> QED
  BY <1>1, <1>2 DEF Stages, MasterOK

LEMMA NextStages ==
  ASSUME BlockIsPrinted, Stages, [Next]_vars
  PROVE  Stages'
<1>1. TypeOK'
  BY NextTypeOK DEF Stages
<1>2. CASE Master
  <2>1. CASE Seed
    BY <1>1, <2>1, SeedStages DEF Seed
  <2>2. CASE EndSeed
    BY <1>1, <2>2, EndSeedStages
  <2>3. CASE Collect
    BY <1>1, <2>3, CollectStages DEF Collect
  <2>4. CASE StopAll
    BY <1>1, <2>4, StopAllStages
  <2> QED
    BY <1>2, <2>1, <2>2, <2>3, <2>4 DEF Master
<1>3. ASSUME NEW s \in Slave, SlaveStep(s) PROVE Stages'
  <2>1. CASE Work(s)
    BY <1>1, <2>1, IterateStages, ReplyStages DEF Work
  <2> QED
    BY <1>1, <1>3, <2>1, ReceiveStages, TakeShareStages, LeaveStages DEF SlaveStep
<1>4. CASE UNCHANGED vars
  <2>1. /\ UNCHANGED <<mpc, to, from, toSelf>>
        /\ UNCHANGED <<toSlave, toMaster, spc, offset, size, iter, got>>
    BY <1>4 DEF vars, blockVars, slaveVars, extraVars
  <2>2. \A t \in Slave : Apart(t)
    BY <2>1 DEF Apart, View, Unseeded
  <2>3. 1 \in Slave
    BY BlockAssumption DEF Slave
  <2>4. StageOK(1)' /\ \A t \in Slave : UNCHANGED View(t)
    BY <2>2, <2>3, Frame DEF Stages, Apart
  <2> QED
    BY <1>1, <2>1, <2>3, <2>4, SlaveStages
<1> QED
  BY <1>2, <1>3, <1>4 DEF Next, Finished

(***************************************************************************)
(* Each slave is in one of the stages, and the messages in its channels    *)
(* are those of the stage.                                                 *)
(***************************************************************************)
THEOREM StagesCorrect == ASSUME BlockIsPrinted PROVE Spec => []Stages
<1>1. Stages /\ [Next]_vars => Stages'
  BY NextStages
<1> QED
  BY <1>1, InitStages, PTL DEF Spec

(***************************************************************************)
(* Channels, places and shares have their types.                           *)
(***************************************************************************)
THEOREM TypeCorrect == ASSUME BlockIsPrinted PROVE Spec => []TypeOK
<1>1. Stages => TypeOK
  BY DEF Stages
<1> QED
  BY <1>1, StagesCorrect, PTL

LEMMA StagesSharesAgree == ASSUME BlockIsPrinted, Stages PROVE SharesAgree
<1>1. ASSUME NEW s \in Slave, Working(s)
      PROVE  Slice(offset[s], size[s]) = Stored(s)
  <2>1. OwnShare(s)
    BY <1>1 DEF Stages, StageOK, Working, Waits, HasShare, Works, HasAnswered, Collected, Told
  <2>2. offset[s] \in Int /\ size[s] \in Nat /\ StoredOffset(s) \in Int
    BY <1>1, StoredShape DEF Stages, TypeOK, BlockTypeOK
  <2>3. CASE size[s] > 0
    BY <2>1, <2>3 DEF OwnShare, Stored
  <2>4. CASE size[s] = 0
    <3>1. Slice(offset[s], 0) = {} /\ Slice(StoredOffset(s), 0) = {}
      BY <2>2 DEF Slice
    <3> QED
      BY <2>1, <2>4, <3>1 DEF OwnShare, Stored
  <2> QED
    BY <2>2, <2>3, <2>4
<1> QED
  BY <1>1 DEF SharesAgree

(***************************************************************************)
(* What a slave runs lies where the master stores its results, wherever    *)
(* the loop begins: the offset that the slave works out or receives, and   *)
(* the one that the master works out when it collects, agree.              *)
(***************************************************************************)
THEOREM SharesAgreeCorrect == ASSUME BlockIsPrinted PROVE Spec => []SharesAgree
BY StagesSharesAgree, StagesCorrect, PTL

(***************************************************************************)
(* When the master goes on, nothing is left for it to receive from the     *)
(* slaves, but one message that it has sent to itself: with a block behind *)
(* this one that receives from any rank, it may be taken there.            *)
(***************************************************************************)
Leftovers ==
  mpc = "done" => toSelf = <<Stop>> /\ \A s \in Slave : toMaster[s] = <<>>

(***************************************************************************)
(* The master has received all that the slaves send it by when it leaves;  *)
(* what it has sent to itself stays behind.                                *)
(***************************************************************************)
THEOREM LeftoversCorrect == ASSUME BlockIsPrinted PROVE Spec => []Leftovers
<1>1. Stages => Leftovers
  BY DEF Stages, MasterOK, StageOK, Told, Leftovers
<1> QED
  BY <1>1, StagesCorrect, PTL

(***************************************************************************)
(* One variable for each slave: then all slaves have been told to stop.    *)
(***************************************************************************)
THEOREM CleanExitCorrect ==
  ASSUME BlockIsPrinted, PerRound = 1 PROVE Spec => []CleanExit
<1>1. ASSUME Stages, mpc = "done", NEW s \in Slave
      PROVE  toMaster[s] = <<>> /\ Dismissed(s)
  <2>1. Told(s) /\ toSlave[s] \in Seq(Message)
    BY <1>1 DEF Stages, StageOK, TypeOK, BlockTypeOK
  <2>2. CASE spc[s] = "done"
    BY <2>1, <2>2 DEF Told, Dismissed
  <2>3. CASE spc[s] # "done"
    <3>1. Len(toSlave[s]) = 1 /\ Head(toSlave[s]) = Stop /\ toMaster[s] = <<>>
      BY <2>1, <2>3 DEF Told
    <3>2. toSlave[s] # <<>> /\ Stop.tag = "FTAG"
      BY <2>1, <3>1, NotEmpty DEF Stop, Chunk
    <3> QED
      BY <3>1, <3>2 DEF Dismissed, Arrived
  <2> QED
    BY <2>2, <2>3
<1>2. Stages => CleanExit
  BY <1>1 DEF CleanExit
<1> QED
  BY <1>2, StagesCorrect, PTL

LEMMA StagesSeparate == ASSUME PerRound = 1, Stages PROVE Separate
<1>1. ASSUME NEW s \in Slave PROVE StageOK(s)
  BY DEF Stages
<1>2. ASSUME NEW s \in Slave, spc[s] = "done" PROVE toSlave[s] = <<>>
  BY <1>1, <1>2 DEF StageOK, Told, Collected, Waits, HasShare, Works, HasAnswered
<1>3. ASSUME mpc = "done", NEW s \in Slave
      PROVE  toMaster[s] = <<>> /\ (spc[s] = "done" \/ Leaving(s))
  BY <1>1, <1>3 DEF StageOK, Told, Leaving, Stop, Chunk
<1> QED
  BY <1>2, <1>3 DEF Separate, Stages, TypeOK, BlockTypeOK

(***************************************************************************)
(* Several variables: no slave ever leaves the block, since each takes the *)
(* only stop message for the first of a round.                             *)
(***************************************************************************)
NobodyLeaves == \A s \in Slave : spc[s] # "done"

(***************************************************************************)
(* With more than one message in a round the stop message never brings a   *)
(* slave out of its loop.                                                  *)
(***************************************************************************)
THEOREM WideTraps ==
  ASSUME BlockIsPrinted, PerRound > 1 PROVE Spec => []NobodyLeaves
<1>1. Stages => NobodyLeaves
  BY RoundsNat
     DEF Stages, StageOK, Waits, HasShare, Works, HasAnswered, Collected, Told, NobodyLeaves
<1> QED
  BY <1>1, StagesCorrect, PTL

-------------------------------------------------------------------------------
(***************************************************************************)
(* The histories.  In a loop from 0 each share is where it should be: an   *)
(* iteration is merged when its slave has been collected from, and has run *)
(* when its slave has come past it.                                        *)
(***************************************************************************)
Ran(s, i) == s < from \/ toMaster[s] # <<>> \/ (spc[s] = "run" /\ i < iter[s])

ShareHistory(s) ==
  \A i \in Stored(s) :
    /\ merged[i] = IF s < from THEN 1 ELSE 0
    /\ runs[i] = IF Ran(s, i) THEN 1 ELSE 0

Histories ==
  /\ runs \in [Iteration -> Nat]
  /\ merged \in [Iteration -> Nat]
  /\ \A s \in Slave : ShareHistory(s)

Inductive == Stages /\ Histories

LEMMA StoredInside ==
  ASSUME BlockIsPrinted, FromZero, NEW s \in Slave
  PROVE  Stored(s) \in SUBSET Iteration /\ \A i \in Stored(s) : i \in Int
BY StoredShape, ShareInside DEF BlockIsPrinted, Iteration

LEMMA StoredApart ==
  ASSUME BlockIsPrinted, FromZero, NEW s \in Slave, NEW t \in Slave, s # t, NEW i \in Stored(s)
  PROVE  i \notin Stored(t)
BY StoredShape, SharesApart DEF BlockIsPrinted

LEMMA StoredCover ==
  ASSUME BlockIsPrinted, FromZero, NEW i \in Iteration
  PROVE  \E s \in Slave : i \in Stored(s)
BY StoredShape, SharesCover DEF BlockIsPrinted

(***************************************************************************)
(* A step that runs or merges nothing, and after which the same iterations *)
(* have run.                                                               *)
(***************************************************************************)
Still(s) ==
  /\ (s < from') <=> (s < from)
  /\ \A i \in Stored(s) : Ran(s, i)' <=> Ran(s, i)

LEMMA QuietHistories ==
  ASSUME Histories, UNCHANGED <<runs, merged>>, \A s \in Slave : Still(s)
  PROVE  Histories'
BY DEF Histories, ShareHistory, Still, Stored, StoredOffset, StoredSize

LEMMA SlaveQuiet ==
  ASSUME BlockIsPrinted, Stages, NEW s \in Slave, SlaveStep(s), ~SlaveIterate(s)
  PROVE  UNCHANGED <<runs, merged, mpc>> /\ \A t \in Slave : Still(t)
<1>1. TypeOK
  BY DEF Stages
<1>2. UNCHANGED <<runs, merged, mpc, from>>
  BY DEF SlaveStep, Receive, TakeShare, LastOfRound, SlaveStart, Leave, SlaveStop,
         Work, SlaveReply, extraVars
<1>3. ASSUME NEW t \in Slave, t # s PROVE Still(t)
  <2>1. UNCHANGED <<toMaster[t], spc[t], iter[t]>>
    BY <1>1, <1>3
       DEF SlaveStep, Receive, TakeShare, LastOfRound, SlaveStart, Leave, SlaveStop,
           Work, SlaveReply, slaveVars, TypeOK, BlockTypeOK
  <2> QED
    BY <1>2, <2>1 DEF Still, Ran
<1>4. CASE Receive(s)
  <2>1. UNCHANGED <<toMaster, spc, iter>>
    BY <1>4 DEF Receive, slaveVars
  <2> QED
    BY <1>2, <1>3, <2>1 DEF Still, Ran
<1>5. CASE Leave(s)
  <2>1. /\ spc[s] = "recv" /\ spc' = [spc EXCEPT ![s] = "done"]
        /\ UNCHANGED <<toMaster, iter>>
    BY <1>5 DEF Leave, SlaveStop
  <2>2. spc[s] # "run" /\ spc'[s] # "run"
    BY <1>1, <2>1 DEF TypeOK, BlockTypeOK
  <2> QED
    BY <1>2, <1>3, <2>1, <2>2 DEF Still, Ran
<1>6. CASE TakeShare(s)
  <2> DEFINE o == OwnOffset(s, Parameter(s).offset)
  <2>1. ~(s < from) /\ HasShare(s) /\ Head(toSlave[s]) = Parameter(s)
    BY <1>6, TakeShareReady
  <2>2. /\ iter' = [iter EXCEPT ![s] = o]
        /\ UNCHANGED toMaster
    BY <1>6, <2>1 DEF TakeShare, SlaveStart
  <2>3. iter'[s] = o /\ toMaster'[s] = <<>> /\ toMaster[s] = <<>> /\ spc[s] = "recv"
    BY <1>1, <2>1, <2>2 DEF HasShare, TypeOK, BlockTypeOK
  <2>4. ASSUME NEW i \in Stored(s) PROVE ~(i < o)
    <3>1. /\ StoredOffset(s) \in Int /\ StoredSize(s) \in Nat
          /\ StoredSize(s) > 0 => o = StoredOffset(s)
      BY StoredShape, ParameterShape
    <3>2. i \in Int /\ StoredOffset(s) <= i /\ i < StoredOffset(s) + StoredSize(s)
      BY <3>1 DEF Stored, Slice
    <3> HIDE DEF o
    <3>3. StoredSize(s) > 0
      BY <3>1, <3>2
    <3> QED
      BY <3>1, <3>2, <3>3
  <2> HIDE DEF o
  <2>5. Still(s)
    BY <1>2, <2>1, <2>3, <2>4 DEF Still, Ran
  <2> QED
    BY <1>2, <1>3, <2>5
<1>7. CASE Work(s)
  <2>1. SlaveReply(s, [toMaster EXCEPT ![s] = @ \o Answers(s)]) /\ UNCHANGED extraVars
    BY <1>7 DEF Work
  <2>2. /\ Works(s) /\ ~(s < from)
        /\ iter[s] = offset[s] + size[s] /\ toMaster'[s] # <<>>
    <3>1. TypeOK'
      <4>1. [Next]_vars
        BY DEF Next
      <4> QED
        BY <1>1, <4>1, NextTypeOK
    <3> QED
      BY <2>1, <3>1, ReplyStages
  <2>3. ASSUME NEW i \in Stored(s) PROVE i < iter[s]
    <3>1. /\ StoredOffset(s) \in Int /\ StoredSize(s) \in Nat /\ size[s] = StoredSize(s)
          /\ size[s] > 0 => offset[s] = StoredOffset(s)
      BY <2>2, StoredShape DEF Works, OwnShare
    <3>2. i \in Int /\ StoredOffset(s) <= i /\ i < StoredOffset(s) + StoredSize(s)
      BY <3>1 DEF Stored, Slice
    <3>3. size[s] > 0
      BY <3>1, <3>2
    <3> QED
      BY <2>2, <3>1, <3>2, <3>3
  <2>4. Still(s)
    BY <1>2, <2>2, <2>3 DEF Still, Ran, Works
  <2> QED
    BY <1>2, <1>3, <2>4
<1> QED
  BY <1>4, <1>5, <1>6, <1>7 DEF SlaveStep

LEMMA CollectHistories ==
  ASSUME BlockIsPrinted, FromZero, Stages, Histories, Collect
  PROVE  Histories'
<1> DEFINE s == from
<1>1. /\ s \in Slave /\ HasAnswered(s) /\ from' = s + 1
      /\ merged' = Bump(merged, Stored(s))
      /\ toMaster' = [toMaster EXCEPT ![s] = SubSeq(@, PerAnswer + 1, Len(@))]
      /\ UNCHANGED <<spc, iter, runs>>
  BY CollectReady DEF Collect, slaveVars
<1>2. /\ Stored(s) \in SUBSET Iteration /\ s \in Int
      /\ toMaster \in [Slave -> Seq(Message)]
  BY <1>1, StoredInside, SlaveRange DEF Stages, TypeOK, BlockTypeOK
<1>3. toMaster[s] # <<>>
  BY <1>1, <1>2, RoundsNat, EmptySeq DEF HasAnswered
<1>4. runs' \in [Iteration -> Nat] /\ merged' \in [Iteration -> Nat]
  BY <1>1, <1>2, BumpHistory DEF Histories
<1>5. ASSUME NEW i \in Iteration
      PROVE  merged'[i] = merged[i] + (IF i \in Stored(s) THEN 1 ELSE 0)
  BY <1>1, <1>2 DEF Histories, Bump
<1>6. ASSUME NEW t \in Slave, NEW i \in Stored(t)
      PROVE  /\ merged'[i] = IF t < from' THEN 1 ELSE 0
             /\ runs'[i] = IF Ran(t, i)' THEN 1 ELSE 0
  <2>1. /\ i \in Iteration /\ t \in Int
        /\ merged[i] = IF t < from THEN 1 ELSE 0
        /\ runs[i] = IF Ran(t, i) THEN 1 ELSE 0
    BY StoredInside, SlaveRange DEF Histories, ShareHistory
  <2>2. CASE t = s
    <3>1. merged[i] = 0 /\ runs[i] = 1
      BY <1>2, <1>3, <2>1, <2>2 DEF Ran
    <3>2. t < from' /\ Ran(t, i)'
      BY <1>1, <1>2, <2>2 DEF Ran
    <3>3. merged'[i] = 1
      BY <1>5, <2>1, <2>2, <3>1
    <3> QED
      BY <1>1, <3>1, <3>2, <3>3
  <2>3. CASE t # s
    <3>1. i \notin Stored(s)
      BY <1>1, <2>3, StoredApart
    <3>2. merged'[i] = merged[i]
      <4>1. merged[i] \in Nat
        BY <2>1
      <4> QED
        BY <1>5, <2>1, <3>1, <4>1
    <3>3. (t < from') <=> (t < from)
      BY <1>1, <1>2, <2>1, <2>3
    <3>4. toMaster'[t] = toMaster[t]
      BY <1>1, <1>2, <2>3
    <3>5. Ran(t, i)' <=> Ran(t, i)
      BY <1>1, <3>3, <3>4 DEF Ran
    <3> QED
      BY <1>1, <2>1, <3>2, <3>3, <3>5
  <2> QED
    BY <2>2, <2>3
<1> QED
  BY <1>4, <1>6 DEF Histories, ShareHistory, Stored, StoredOffset, StoredSize

(***************************************************************************)
(* The iteration a slave runs is in the loop and has not run before.       *)
(***************************************************************************)
LEMMA IterateFresh ==
  ASSUME BlockIsPrinted, FromZero, Stages, Histories, NEW s \in Slave,
         SlaveStep(s), SlaveIterate(s)
  PROVE  /\ iter[s] \in Iteration /\ iter[s] \in Stored(s) /\ iter[s] \in Int
         /\ runs[iter[s]] = 0
         /\ ~(s < from) /\ toMaster[s] = <<>> /\ spc[s] = "run"
         /\ UNCHANGED extraVars
<1>1. UNCHANGED extraVars
  BY DEF SlaveStep, Receive, TakeShare, Leave, SlaveIterate, SlaveStart, SlaveStop, Work,
         slaveVars
<1>2. TypeOK'
  BY NextTypeOK DEF Stages, Next
<1>3. Works(s) /\ ~(s < from) /\ iter[s] \in Int /\ iter[s] \in Stored(s)
  BY <1>1, <1>2, IterateStages
<1>4. iter[s] \in Iteration
  BY <1>3, StoredInside
<1>5. ~Ran(s, iter[s])
  BY <1>3 DEF Ran, Works, Idle
<1> QED
  BY <1>1, <1>3, <1>4, <1>5 DEF Histories, ShareHistory, Works, Idle

LEMMA IterateHistories ==
  ASSUME BlockIsPrinted, FromZero, Stages, Histories, NEW s \in Slave,
         SlaveStep(s), SlaveIterate(s)
  PROVE  Histories'
<1> DEFINE i0 == iter[s]
<1>1. /\ i0 \in Iteration /\ i0 \in Stored(s) /\ i0 \in Int /\ runs[i0] = 0
      /\ ~(s < from) /\ toMaster[s] = <<>> /\ spc[s] = "run" /\ from' = from
  BY IterateFresh DEF extraVars
<1>2. /\ runs' = Bump(runs, {i0})
      /\ iter' = [iter EXCEPT ![s] = @ + 1]
      /\ spc' = [spc EXCEPT ![s] = "run"]
      /\ UNCHANGED <<toMaster, merged>>
  BY DEF SlaveIterate
<1>3. spc \in [Slave -> {"recv", "run", "await", "got", "done"}] /\ iter \in [Slave -> Int]
  BY DEF Stages, TypeOK, BlockTypeOK
<1>4. runs' \in [Iteration -> Nat] /\ merged' \in [Iteration -> Nat]
  BY <1>1, <1>2, BumpHistory DEF Histories
<1>5. ASSUME NEW i \in Iteration PROVE runs'[i] = IF i = i0 THEN 1 ELSE runs[i]
  <2>1. runs'[i] = runs[i] + (IF i \in {i0} THEN 1 ELSE 0) /\ runs[i] \in Nat
    BY <1>1, <1>2 DEF Histories, Bump
  <2> QED
    BY <1>1, <2>1
<1>6. ASSUME NEW t \in Slave, NEW i \in Stored(t)
      PROVE  /\ merged'[i] = IF t < from' THEN 1 ELSE 0
             /\ runs'[i] = IF Ran(t, i)' THEN 1 ELSE 0
  <2>1. /\ i \in Iteration /\ i \in Int
        /\ merged[i] = IF t < from THEN 1 ELSE 0
        /\ runs[i] = IF Ran(t, i) THEN 1 ELSE 0
    BY StoredInside DEF Histories, ShareHistory
  <2>2. CASE t = s
    <3>1. (Ran(t, i) <=> i < i0) /\ (Ran(t, i)' <=> i < i0 + 1)
      BY <1>1, <1>2, <1>3, <2>2 DEF Ran
    <3>2. merged'[i] = IF t < from' THEN 1 ELSE 0
      BY <1>1, <1>2, <2>1
    <3>3. runs'[i] = IF i = i0 THEN 1 ELSE runs[i]
      BY <1>5, <2>1
    <3>4. runs'[i] = IF i < i0 + 1 THEN 1 ELSE 0
      BY <1>1, <2>1, <3>1, <3>3
    <3> QED
      BY <3>1, <3>2, <3>4
  <2>3. CASE t # s
    <3>1. i # i0
      BY <1>1, <2>3, StoredApart
    <3>2. Ran(t, i)' <=> Ran(t, i)
      BY <1>1, <1>2, <1>3, <2>3 DEF Ran
    <3> QED
      BY <1>1, <1>2, <1>5, <2>1, <3>1, <3>2
  <2> QED
    BY <2>2, <2>3
<1> QED
  BY <1>4, <1>6 DEF Histories, ShareHistory, Stored, StoredOffset, StoredSize

LEMMA InitInductive == ASSUME BlockIsPrinted, FromZero PROVE Init => Inductive
<1> SUFFICES ASSUME Init PROVE Inductive
  OBVIOUS
<1>1. /\ Stages /\ from = 1
      /\ \A s \in Slave : spc[s] = "recv" /\ toMaster[s] = <<>>
      /\ runs = [i \in Iteration |-> 0] /\ merged = [i \in Iteration |-> 0]
  BY InitStages DEF Init, BlockInit
<1>2. ASSUME NEW s \in Slave PROVE ShareHistory(s)
  <2>1. ~(s < from) /\ Stored(s) \in SUBSET Iteration
    BY <1>1, SlaveRange, StoredInside
  <2> QED
    BY <1>1, <2>1 DEF ShareHistory, Ran
<1> QED
  BY <1>1, <1>2 DEF Inductive, Histories

LEMMA OthersQuiet ==
  ASSUME Seed \/ EndSeed \/ StopAll \/ UNCHANGED vars
  PROVE  UNCHANGED <<runs, merged>> /\ \A s \in Slave : Still(s)
<1>1. UNCHANGED <<runs, merged, from, toMaster, spc, iter>>
  BY DEF Seed, EndSeed, StopAll, vars, blockVars, slaveVars, extraVars
<1> QED
  BY <1>1 DEF Still, Ran

LEMMA NextInductive ==
  ASSUME BlockIsPrinted, FromZero, Inductive, [Next]_vars
  PROVE  Inductive'
<1>1. Stages /\ Histories /\ Stages'
  BY NextStages DEF Inductive
<1>2. CASE Seed \/ EndSeed \/ StopAll \/ UNCHANGED vars
  BY <1>1, <1>2, OthersQuiet, QuietHistories DEF Inductive
<1>3. CASE Collect
  BY <1>1, <1>3, CollectHistories DEF Inductive
<1>4. ASSUME NEW s \in Slave, SlaveStep(s) PROVE Inductive'
  <2>1. CASE SlaveIterate(s)
    BY <1>1, <1>4, <2>1, IterateHistories DEF Inductive
  <2>2. CASE ~SlaveIterate(s)
    BY <1>1, <1>4, <2>2, SlaveQuiet, QuietHistories DEF Inductive
  <2> QED
    BY <2>1, <2>2
<1> QED
  BY <1>2, <1>3, <1>4 DEF Next, Master, Finished

(***************************************************************************)
(* In a loop from 0 the invariant holds with its histories.                *)
(***************************************************************************)
THEOREM InductiveCorrect == ASSUME BlockIsPrinted, FromZero PROVE Spec => []Inductive
<1>1. Init => Inductive
  BY InitInductive
<1>2. Inductive /\ [Next]_vars => Inductive'
  BY NextInductive
<1> QED
  BY <1>1, <1>2, PTL DEF Spec

(***************************************************************************)
(* When the master goes on, each iteration has run once and been stored    *)
(* once, although the shares are rounded down.                             *)
(***************************************************************************)
LEMMA InductiveExactlyOnce ==
  ASSUME BlockIsPrinted, FromZero, Inductive
  PROVE  ExactlyOnce
<1> SUFFICES ASSUME mpc = "done", NEW i \in Iteration
             PROVE  runs[i] = 1 /\ merged[i] = 1
  BY DEF ExactlyOnce
<1>1. PICK s \in Slave : i \in Stored(s)
  BY StoredCover
<1>2. s < from
  BY SlaveRange, BlockAssumption DEF Inductive, Stages
<1> QED
  BY <1>1, <1>2 DEF Inductive, Histories, ShareHistory, Ran

(***************************************************************************)
(* When the master leaves, each iteration has run once on one slave and    *)
(* its result has been stored once.                                        *)
(***************************************************************************)
THEOREM ExactlyOnceCorrect == ASSUME BlockIsPrinted, FromZero PROVE Spec => []ExactlyOnce
<1>1. Inductive => ExactlyOnce
  BY InductiveExactlyOnce
<1> QED
  BY <1>1, InductiveCorrect, PTL

(***************************************************************************)
(* Nothing but the iterations of the loop is run or stored.                *)
(***************************************************************************)
THEOREM NothingOutsideCorrect ==
  ASSUME BlockIsPrinted, FromZero PROVE Spec => []NothingOutside
<1>1. Inductive => NothingOutside
  BY DEF Inductive, Histories, NothingOutside
<1> QED
  BY <1>1, InductiveCorrect, PTL

-------------------------------------------------------------------------------
(***************************************************************************)
(* The block implements ParallelFor: an iteration of a slave is Execute,   *)
(* the collection of an answer Publish, and the stop message, which is     *)
(* sent when all shares have been collected, is a Join with nothing more   *)
(* to be shown.                                                            *)
(***************************************************************************)
LEMMA IterateExecutes ==
  ASSUME BlockIsPrinted, FromZero, Inductive, NEW s \in Slave, SlaveStep(s), SlaveIterate(s)
  PROVE  \E i \in Iteration : For!Execute(i)
<1>1. PICK i : i = iter[s]
  OBVIOUS
<1>2. runs' = Bump(runs, {i}) /\ UNCHANGED <<merged, mpc>>
  BY <1>1 DEF SlaveIterate
<1>3. i \in Iteration /\ runs[i] = 0
  BY <1>1, IterateFresh DEF Inductive
<1>4. runs' = [runs EXCEPT ![i] = 1]
  <2>1. runs \in [Iteration -> Nat]
    BY DEF Inductive, Histories
  <2>2. ASSUME NEW j \in Iteration PROVE Bump(runs, {i})[j] = [runs EXCEPT ![i] = 1][j]
    BY <1>3, <2>1 DEF Bump
  <2>3. Bump(runs, {i}) \in [Iteration -> Nat]
    BY <1>3, <2>1, BumpHistory
  <2>4. [runs EXCEPT ![i] = 1] \in [Iteration -> Nat]
    BY <2>1
  <2> QED
    BY <1>2, <2>2, <2>3, <2>4
<1> QED
  BY <1>2, <1>3, <1>4 DEF For!Execute

LEMMA CollectPublishes ==
  ASSUME BlockIsPrinted, FromZero, Inductive, Collect
  PROVE  \E S \in SUBSET Iteration : For!Publish(S)
<1>1. PICK S : S = Stored(from)
  OBVIOUS
<1>2. mpc = "serve" /\ mpc' = mpc /\ merged' = Bump(merged, S) /\ UNCHANGED runs
  BY <1>1 DEF Collect, slaveVars
<1>3. /\ from \in Slave /\ ~(from < from) /\ S \in SUBSET Iteration
      /\ toMaster[from] # <<>>
  <2>1. from \in Slave /\ HasAnswered(from)
    BY CollectReady DEF Inductive
  <2>2. toMaster[from] # <<>>
    BY <2>1, RoundsNat, EmptySeq DEF HasAnswered
  <2> QED
    BY <1>1, <2>1, <2>2, SlaveRange, StoredInside
<1>4. ASSUME NEW i \in S PROVE runs[i] = 1 /\ merged[i] = 0
  BY <1>1, <1>3 DEF Inductive, Histories, ShareHistory, Ran
<1>5. merged' = For!Shown(S)
  <2>1. merged \in [Iteration -> Nat] /\ DOMAIN merged = Iteration
    BY DEF Inductive, Histories
  <2>2. ASSUME NEW i \in Iteration
        PROVE  Bump(merged, S)[i] = IF i \in S THEN 1 ELSE merged[i]
    BY <1>3, <1>4, <2>1 DEF Bump
  <2>3. Bump(merged, S) \in [Iteration -> Nat]
    BY <1>3, <2>1, BumpHistory
  <2>4. Bump(merged, S) = [i \in Iteration |-> IF i \in S THEN 1 ELSE merged[i]]
    BY <2>2, <2>3
  <2> QED
    BY <1>2, <2>4 DEF For!Shown
<1> QED
  BY <1>2, <1>3, <1>4, <1>5 DEF For!Publish, For!Ready

LEMMA StopJoins ==
  ASSUME BlockIsPrinted, FromZero, Inductive, Inductive', StopAll
  PROVE  For!Join({})
<1>1. mpc = "serve" /\ mpc' = "done" /\ UNCHANGED <<runs, merged>>
  BY DEF StopAll
<1>2. ExactlyOnce'
  BY InductiveExactlyOnce, PTL
<1>3. \A i \in Iteration : merged[i] = 1
  BY <1>1, <1>2 DEF ExactlyOnce
<1>4. merged' = For!Shown({})
  BY <1>1 DEF For!Shown, Inductive, Histories
<1> QED
  BY <1>1, <1>3, <1>4 DEF For!Join, For!Ready

LEMMA StepRefines ==
  ASSUME BlockIsPrinted, FromZero, Inductive, Inductive', [Next]_vars
  PROVE  [For!ForNext]_(For!forVars)
<1>1. CASE Collect
  BY <1>1, CollectPublishes DEF For!ForNext
<1>2. CASE StopAll
  BY <1>2, StopJoins DEF For!ForNext
<1>3. CASE UNCHANGED <<runs, merged>> /\ (mpc' = "done" <=> mpc = "done")
  BY <1>3 DEF For!forVars
<1>4. CASE Seed \/ EndSeed \/ UNCHANGED vars
  BY <1>3, <1>4 DEF Seed, EndSeed, vars, blockVars
<1>5. ASSUME NEW s \in Slave, SlaveStep(s) PROVE [For!ForNext]_(For!forVars)
  <2>1. CASE SlaveIterate(s)
    BY <1>5, <2>1, IterateExecutes DEF For!ForNext
  <2>2. CASE ~SlaveIterate(s)
    BY <1>3, <1>5, <2>2, SlaveQuiet DEF Inductive
  <2> QED
    BY <2>1, <2>2
<1> QED
  BY <1>1, <1>2, <1>4, <1>5 DEF Next, Master, Finished

(***************************************************************************)
(* At every step the block is a parallel loop, whatever the number of its  *)
(* variables, although with several of them its slaves never leave it.     *)
(***************************************************************************)
THEOREM Refinement ==
  ASSUME BlockIsPrinted, FromZero PROVE Spec => ImplementsParallelFor
<1>1. Init => For!ForInit
  BY DEF Init, BlockInit, For!ForInit
<1>2. Inductive /\ Inductive' /\ [Next]_vars => [For!ForNext]_(For!forVars)
  BY StepRefines
<1> QED
  BY <1>1, <1>2, InductiveCorrect, PTL DEF Spec, ImplementsParallelFor, For!ForSpec
===============================================================================
