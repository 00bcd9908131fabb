--------------------------- MODULE StaticFarmProofs ---------------------------
(***************************************************************************)
(* Machine-checked proofs about StaticFarm, for every number of slaves,    *)
(* every loop and every number of variables in the reduction clause.       *)
(***************************************************************************)
EXTENDS StaticFarm, BlockProofs

(***************************************************************************)
(* A slave goes through five stages.  The messages of a reduction stay in  *)
(* the channel behind the answer: the master never receives them here.     *)
(***************************************************************************)
Waits(s) == Unseeded(s) /\ spc[s] = "recv" /\ Idle(s)

OwnShare(s) == offset[s] = StoredOffset(s) /\ size[s] = StoredSize(s)

HasShare(s) ==
  /\ ~Unseeded(s)
  /\ spc[s] = "recv"
  /\ SentTo(s, "ATAG")
  /\ Head(toSlave[s]).offset = StoredOffset(s)
  /\ Head(toSlave[s]).size = StoredSize(s)

Works(s) ==
  /\ ~Unseeded(s)
  /\ OwnShare(s)
  /\ offset[s] <= iter[s]
  /\ iter[s] <= offset[s] + size[s]
  /\ \/ spc[s] \in {"run", "got"} /\ Idle(s)
     \/ spc[s] = "await" /\ (SentTo(s, "RTAG") \/ (SentBy(s) /\ Asks(s)))

HasAnswered(s) ==
  /\ ~Unseeded(s)
  /\ OwnShare(s)
  /\ spc[s] = "recv"
  /\ toSlave[s] = <<>>
  /\ toMaster[s] = Append(<<>>, Result(s, "ATAG")) \o Partials

Collected(s) ==
  /\ ~Unseeded(s)
  /\ OwnShare(s)
  /\ toMaster[s] = Partials
  /\ \/ spc[s] = "recv" /\ Len(toSlave[s]) = 1 /\ Arrived(toSlave, s, "FTAG")
     \/ spc[s] = "done" /\ toSlave[s] = <<>>

(***************************************************************************)
(* The inductive invariant: the results of the slaves before from have     *)
(* been collected, the others are at one of the stages before; an          *)
(* iteration is merged when its slave has been collected from, and has run *)
(* when its slave has come past it.                                        *)
(***************************************************************************)
StageOK(s) ==
  IF s < from THEN Collected(s)
  ELSE Waits(s) \/ HasShare(s) \/ Works(s) \/ HasAnswered(s)

MasterOK ==
  /\ mpc = "seed" => from = 1
  /\ mpc = "serve" => from \in Slave /\ to = W + 1
  /\ mpc = "done" => from = W + 1 /\ to = W + 1

Ran(s, i) == s < from \/ HasAnswered(s) \/ (Works(s) /\ i < iter[s])

ShareHistory(s) ==
  \A i \in Stored(s) :
    /\ merged[i] = IF s < from THEN 1 ELSE 0
    /\ runs[i] = IF Ran(s, i) THEN 1 ELSE 0

Histories == runs \in [Iteration -> Nat] /\ merged \in [Iteration -> Nat]

Inductive ==
  /\ TypeOK
  /\ MasterOK
  /\ Histories
  /\ \A s \in Slave : StageOK(s) /\ ShareHistory(s)

-------------------------------------------------------------------------------
(***************************************************************************)
(* Where the master stores results are the shares of BlockProofs: each     *)
(* lies inside the loop, no two have an iteration in common, and together  *)
(* they are the whole loop.                                                *)
(***************************************************************************)
LEMMA StoredInside ==
  ASSUME NEW s \in Slave
  PROVE  /\ StoredOffset(s) \in Int /\ StoredSize(s) \in Nat
         /\ Start <= StoredOffset(s)
         /\ StoredOffset(s) + StoredSize(s) <= Bound
         /\ Stored(s) \in SUBSET Iteration
BY StaticAssumption, ShareInside
   DEF Stored, StoredOffset, StoredSize, ShareOf, ShareOffset, ShareSize

LEMMA StoredApart ==
  ASSUME NEW s \in Slave, NEW t \in Slave, s # t,
         NEW i \in Stored(s)
  PROVE  i \notin Stored(t)
BY StaticAssumption, SharesApart
   DEF Stored, StoredOffset, StoredSize, ShareOf, ShareOffset, ShareSize

LEMMA StoredCover ==
  ASSUME NEW i \in Iteration
  PROVE  \E s \in Slave : i \in Stored(s)
BY StaticAssumption, SharesCover
   DEF Stored, StoredOffset, StoredSize, ShareOf, ShareOffset, ShareSize

-------------------------------------------------------------------------------
(***************************************************************************)
(* The types hold in every reachable state.                                *)
(***************************************************************************)
LEMMA PartialsType == Partials \in Seq(Message)
<1>1. Partial \in Message
  BY ChunkType DEF Partial, Tag
<1>2. Partials \in [1 .. Reduced -> Message]
  BY <1>1 DEF Partials
<1> QED
  BY <1>2, StaticAssumption

LEMMA ResultType ==
  ASSUME BlockTypeOK, NEW s \in Slave
  PROVE  /\ Result(s, "ATAG") \in Message
         /\ Result(s, "ATAG") = [tag |-> "ATAG", offset |-> offset[s], size |-> size[s]]
BY ChunkType DEF BlockTypeOK, Result, Chunk, Tag

LEMMA InitTypeOK == Init => TypeOK
BY InitBlockType, BlockAssumption DEF Init, TypeOK

LEMMA SlaveTypeOK ==
  ASSUME TypeOK, NEW s \in Slave, SlaveStep(s)
  PROVE  TypeOK'
<1>1. BlockTypeOK /\ UNCHANGED from
  BY DEF TypeOK, SlaveStep
<1>2. BlockTypeOK'
  <2>1. CASE TakeShare(s)
    <3>1. OwnOffset(s) \in Int
      BY StoredInside DEF OwnOffset, StoredOffset
    <3>2. Head(toSlave[s]).size \in Nat
      BY <1>1, <2>1, DropType DEF TakeShare, SlaveStart, Arrived, BlockTypeOK
    <3> QED
      BY <1>1, <2>1, <3>1, <3>2, StartBlockType DEF TakeShare
  <2>2. CASE SlaveIterate(s)
    BY <1>1, <2>2, IterateBlockType
  <2>3. CASE Answer(s)
    <3> DEFINE answers == [toMaster EXCEPT ![s] = Append(@, Result(s, "ATAG")) \o Partials]
    <3>1. toMaster \in [Slave -> Seq(Message)] /\ Result(s, "ATAG") \in Message
      BY <1>1, ResultType DEF BlockTypeOK
    <3>2. Append(toMaster[s], Result(s, "ATAG")) \o Partials \in Seq(Message)
      BY <3>1, PartialsType
    <3>3. answers \in [Slave -> Seq(Message)]
      BY <3>1, <3>2
    <3> HIDE DEF answers
    <3>4. SlaveReply(s, answers)
      BY <2>3 DEF Answer, answers
    <3> QED
      BY <1>1, <3>3, <3>4, ReplyBlockType
  <2>4. CASE SlaveStop(s)
    BY <1>1, <2>4, StopBlockType
  <2>5. CASE SlaveRead(s, 0 .. (NumIn - 1))
    BY <1>1, <2>5, StaticAssumption, ReadBlockType
  <2>6. CASE SlaveGot(s)
    BY <1>1, <2>6, GotBlockType
  <2> QED
    BY <2>1, <2>2, <2>3, <2>4, <2>5, <2>6 DEF SlaveStep
<1> QED
  BY <1>1, <1>2 DEF TypeOK

LEMMA NextTypeOK ==
  ASSUME TypeOK, mpc = "serve" => from \in Slave, [Next]_vars
  PROVE  TypeOK'
<1> USE DEF TypeOK
<1>1. CASE Seed
  <2>1. to \in Slave /\ to' \in 1 .. (W + 1)
    BY <1>1, BlockAssumption DEF Seed, Slave
  <2>2. Chunk("ATAG", SentOffset(to), SentSize(to)) \in Message
    BY <2>1, StoredInside, ChunkType DEF SentOffset, StoredOffset, SentSize, StoredSize, Tag
  <2>3. toSlave' \in [Slave -> Seq(Message)]
    BY <1>1, <2>1, <2>2, SendType DEF Seed, BlockTypeOK
  <2> QED
    BY <1>1, <2>1, <2>3 DEF Seed, BlockTypeOK, slaveVars, Counter
<1>2. CASE EndSeed
  BY <1>2 DEF EndSeed, BlockTypeOK, slaveVars, Counter
<1>3. CASE Collect
  <2>1. from \in Slave /\ from' \in 1 .. (W + 1) /\ mpc' \in {"serve", "done"}
    BY <1>3, BlockAssumption DEF Collect, Slave
  <2>2. toSlave' \in [Slave -> Seq(Message)]
    BY <1>3, <2>1, StopType, SendType DEF Collect, BlockTypeOK
  <2>3. toMaster' \in [Slave -> Seq(Message)]
    BY <1>3, <2>1, DropType DEF Collect, Arrived, BlockTypeOK
  <2>4. Counter(merged')
    <3>1. Stored(from) \in SUBSET Int
      BY <2>1, StoredInside, SliceInt DEF Stored
    <3> QED
      BY <1>3, <3>1, BumpCounter DEF Collect, BlockTypeOK
  <2> QED
    BY <1>3, <2>1, <2>2, <2>3, <2>4 DEF Collect, BlockTypeOK, slaveVars, Counter
<1>4. CASE ServeRead
  BY <1>4, AnswerBlockType DEF ServeRead
<1>5. ASSUME NEW s \in Slave, SlaveStep(s) PROVE TypeOK'
  BY <1>5, SlaveTypeOK
<1>6. CASE UNCHANGED vars
  BY <1>6 DEF vars, blockVars, slaveVars, BlockTypeOK, Counter
<1> QED
  BY <1>1, <1>2, <1>3, <1>4, <1>5, <1>6 DEF Next, Master, Finished

-------------------------------------------------------------------------------
(***************************************************************************)
(* An answer is first in the channel, the partial results are behind it.   *)
(***************************************************************************)
LEMMA AnswerQueue ==
  ASSUME NEW m \in Message, NEW q, q = Append(<<>>, m) \o Partials
  PROVE  q \in Seq(Message) /\ q # <<>> /\ Head(q) = m /\ Tail(q) = Partials
<1> DEFINE one == Append(<<>>, m)
<1>1. one \in Seq(Message) /\ Len(one) = 1 /\ one[1] = m
  BY EmptySeq, AppendProperties
<1>2. Partials \in Seq(Message)
  BY PartialsType
<1> HIDE DEF one
<1>3. /\ q \in Seq(Message) /\ Len(q) = 1 + Len(Partials)
      /\ \A k \in 1 .. Len(q) : q[k] = IF k <= 1 THEN one[k] ELSE Partials[k - 1]
  BY <1>1, <1>2, ConcatProperties DEF one
<1>4. Len(Partials) \in Nat
  BY <1>2
<1>5. q # <<>> /\ Head(q) = m
  BY <1>1, <1>3, <1>4
<1>6. /\ Tail(q) \in Seq(Message) /\ Len(Tail(q)) = Len(Partials)
      /\ \A k \in 1 .. Len(Tail(q)) : Tail(q)[k] = q[k + 1]
  BY <1>3, <1>4, <1>5, HeadTailProperties
<1>7. ASSUME NEW k \in 1 .. Len(Partials) PROVE Tail(q)[k] = Partials[k]
  BY <1>3, <1>4, <1>6, <1>7
<1> QED
  BY <1>2, <1>3, <1>5, <1>6, <1>7, SeqEqual

LEMMA SequentialPartials ==
  Reduced = 0 => Partials = <<>>
BY DEF Partials

(***************************************************************************)
(* What the invariant says of a slave depends on its own part of the state *)
(* and on whether the master has come to it.                               *)
(***************************************************************************)
View(t) == <<toSlave[t], toMaster[t], spc[t], offset[t], size[t], iter[t]>>

Apart(t) ==
  /\ UNCHANGED View(t)
  /\ Unseeded(t)' <=> Unseeded(t)
  /\ (t < from') <=> (t < from)

LEMMA Frame ==
  ASSUME NEW t \in Slave, Apart(t)
  PROVE  /\ StageOK(t) => StageOK(t)'
         /\ \A i \in Int : Ran(t, i)' <=> Ran(t, i)
<1> USE DEF Apart, View
<1>1. /\ Idle(t)' <=> Idle(t)
      /\ Asks(t)' <=> Asks(t)
      /\ SentBy(t)' <=> SentBy(t)
      /\ \A tag \in Tag : SentTo(t, tag)' <=> SentTo(t, tag)
      /\ Result(t, "ATAG")' = Result(t, "ATAG")
  BY DEF Idle, Asks, SentBy, SentTo, Arrived, Result
<1>2. /\ Waits(t)' <=> Waits(t)
      /\ HasShare(t)' <=> HasShare(t)
      /\ Works(t)' <=> Works(t)
      /\ HasAnswered(t)' <=> HasAnswered(t)
      /\ Collected(t)' <=> Collected(t)
  <2>1. Waits(t)' <=> Waits(t)
    BY <1>1 DEF Waits
  <2>2. OwnShare(t)' <=> OwnShare(t)
    BY DEF OwnShare
  <2>3. HasShare(t)' <=> HasShare(t)
    BY <1>1 DEF HasShare, Tag
  <2>4. Works(t)' <=> Works(t)
    BY <1>1, <2>2 DEF Works, Tag
  <2>5. HasAnswered(t)' <=> HasAnswered(t)
    BY <1>1, <2>2 DEF HasAnswered
  <2>6. Collected(t)' <=> Collected(t)
    BY <2>2 DEF Collected, Arrived
  <2> QED
    BY <2>1, <2>3, <2>4, <2>5, <2>6
<1> QED
  BY <1>2 DEF StageOK, Ran

(***************************************************************************)
(* A step that concerns slave s and its share only keeps the invariant if  *)
(* it keeps what the invariant says of s.                                  *)
(***************************************************************************)
Alone(s) ==
  /\ \A t \in Slave : t # s => Apart(t)
  /\ \A i \in Iteration : i \notin Stored(s) => runs'[i] = runs[i] /\ merged'[i] = merged[i]

LEMMA StepInductive ==
  ASSUME Inductive, TypeOK', NEW s \in Slave, Alone(s),
         MasterOK', Histories', StageOK(s)', ShareHistory(s)'
  PROVE  Inductive'
<1>1. ASSUME NEW t \in Slave, t # s
      PROVE  StageOK(t)' /\ ShareHistory(t)'
  <2>1. /\ StageOK(t)'
        /\ \A i \in Int : Ran(t, i)' <=> Ran(t, i)
    BY <1>1, Frame DEF Alone, Inductive
  <2>2. ASSUME NEW i \in Stored(t)
        PROVE  /\ merged'[i] = IF t < from' THEN 1 ELSE 0
               /\ runs'[i] = IF Ran(t, i)' THEN 1 ELSE 0
    <3>1. i \in Iteration /\ i \notin Stored(s) /\ i \in Int
      BY <1>1, StoredInside, StoredApart, BlockAssumption DEF Iteration
    <3>2. runs'[i] = runs[i] /\ merged'[i] = merged[i] /\ ((t < from') <=> (t < from))
      BY <1>1, <3>1 DEF Alone, Apart
    <3>3. /\ merged[i] = IF t < from THEN 1 ELSE 0
          /\ runs[i] = IF Ran(t, i) THEN 1 ELSE 0
      BY DEF Inductive, ShareHistory
    <3> QED
      BY <2>1, <3>1, <3>2, <3>3
  <2>3. ShareHistory(t)'
    BY <2>2 DEF ShareHistory, Stored, StoredOffset, StoredSize
  <2> QED
    BY <2>1, <2>3
<1> QED
  BY <1>1 DEF Inductive
-------------------------------------------------------------------------------
(***************************************************************************)
(* The steps of the master.                                                *)
(***************************************************************************)
LEMMA SeedInductive ==
  ASSUME Inductive, TypeOK', NEW s \in Slave, s = to, Seed
  PROVE  Inductive'
<1> USE DEF TypeOK, BlockTypeOK
<1> DEFINE m == Chunk("ATAG", SentOffset(s), SentSize(s))
<1>1. /\ mpc = "seed" /\ to' = s + 1 /\ to = s
      /\ toSlave' = Send(toSlave, s, m)
      /\ UNCHANGED <<mpc, spc, offset, size, iter, toMaster, runs, merged, from>>
  BY DEF Seed, slaveVars
<1>2. /\ m \in Message /\ m.tag = "ATAG"
      /\ m.offset = StoredOffset(s) /\ m.size = StoredSize(s)
  BY StoredInside, ChunkType
     DEF SentOffset, StoredOffset, SentSize, StoredSize, Chunk, Tag
<1> HIDE DEF m
<1>3. /\ TypeOK /\ MasterOK /\ Histories /\ StageOK(s) /\ ShareHistory(s) /\ s \in Int /\ 1 <= s
  BY SlaveRange DEF Inductive
<1>4. from = 1 /\ Unseeded(s) /\ ~Unseeded(s)' /\ ~(s < from)
  BY <1>1, <1>3 DEF MasterOK, Unseeded
<1>5. spc[s] = "recv" /\ toSlave[s] = <<>> /\ toMaster[s] = <<>>
  BY <1>3, <1>4 DEF StageOK, Waits, HasShare, Works, HasAnswered, Idle
<1>6. toSlave'[s] # <<>> /\ Len(toSlave'[s]) = 1 /\ Head(toSlave'[s]) = m
  BY <1>1, <1>2, <1>3, <1>5, SendIdle
<1>7. HasShare(s)'
  BY <1>1, <1>2, <1>4, <1>5, <1>6
     DEF HasShare, SentTo, Arrived, StoredOffset, StoredSize
<1>8. StageOK(s)'
  BY <1>1, <1>4, <1>7 DEF StageOK
<1>9. ~HasAnswered(s) /\ ~Works(s) /\ ~HasAnswered(s)' /\ ~Works(s)'
  BY <1>1, <1>4, <1>5, <1>6 DEF HasAnswered, Works
<1>10. ShareHistory(s)'
  BY <1>1, <1>3, <1>4, <1>9 DEF ShareHistory, Ran, Stored, StoredOffset, StoredSize
<1>11. ASSUME NEW t \in Slave, t # s PROVE Apart(t)
  <2>1. toSlave'[t] = toSlave[t]
    BY <1>1, <1>2, <1>3, <1>5, <1>11, SendIdle
  <2>2. t \in Int
    BY SlaveRange
  <2> QED
    BY <1>1, <1>3, <1>11, <2>1, <2>2 DEF Apart, View, Unseeded
<1>12. Alone(s) /\ MasterOK' /\ Histories'
  BY <1>1, <1>3, <1>11 DEF Alone, MasterOK, Histories
<1> QED
  BY <1>8, <1>10, <1>12, StepInductive

LEMMA EndSeedInductive ==
  ASSUME Inductive, TypeOK', EndSeed
  PROVE  Inductive'
<1>1. /\ mpc = "seed" /\ mpc' = "serve" /\ to = W + 1
      /\ UNCHANGED <<to, spc, offset, size, iter, toSlave, toMaster, runs, merged, from>>
  BY DEF EndSeed, slaveVars
<1>2. 1 \in Slave
  BY BlockAssumption DEF Slave
<1>3. \A t \in Slave : Apart(t)
  <2> SUFFICES ASSUME NEW t \in Slave PROVE Apart(t)
    OBVIOUS
  <2>1. ~(t >= W + 1)
    BY SlaveRange, BlockAssumption
  <2> QED
    BY <1>1, <2>1 DEF Apart, View, Unseeded
<1>4. ASSUME NEW s \in Slave PROVE StageOK(s)' /\ ShareHistory(s)'
  <2>1. StageOK(s) /\ ShareHistory(s)
    BY DEF Inductive
  <2>2. StageOK(s)' /\ \A i \in Int : Ran(s, i)' <=> Ran(s, i)
    BY <1>3, <2>1, Frame
  <2>3. \A i \in Stored(s) : i \in Int
    BY StoredInside DEF Iteration
  <2> QED
    BY <1>1, <2>1, <2>2, <2>3 DEF ShareHistory, Stored, StoredOffset, StoredSize
<1>5. MasterOK' /\ Histories'
  BY <1>1, <1>2 DEF Inductive, MasterOK, Histories
<1> QED
  BY <1>4, <1>5 DEF Inductive

(***************************************************************************)
(* What arrives from the slave whose turn it is, is its answer.            *)
(***************************************************************************)
LEMMA CollectReady ==
  ASSUME Inductive, Collect
  PROVE  /\ from \in Slave /\ to = W + 1
         /\ HasAnswered(from)
         /\ Tail(toMaster[from]) = Partials
<1>1. /\ from \in Slave /\ to = W + 1 /\ Arrived(toMaster, from, "ATAG")
      /\ TypeOK /\ StageOK(from) /\ from \in Int
  BY SlaveRange DEF Collect, Inductive, MasterOK
<1>2. toMaster[from] # <<>> /\ Head(toMaster[from]).tag = "ATAG"
  BY <1>1 DEF Arrived
<1>3. HasAnswered(from)
  BY <1>1, <1>2
     DEF StageOK, Waits, HasShare, Works, Idle, SentTo, SentBy, Asks, Arrived
<1>4. Tail(toMaster[from]) = Partials
  BY <1>1, <1>3, ResultType, AnswerQueue DEF HasAnswered, TypeOK
<1> QED
  BY <1>1, <1>3, <1>4

LEMMA CollectInductive ==
  ASSUME Inductive, TypeOK', NEW s \in Slave, s = from, Collect
  PROVE  Inductive'
<1>1. /\ TypeOK /\ Histories /\ StageOK(s) /\ ShareHistory(s)
      /\ s \in Int /\ 1 <= s /\ s <= W /\ W \in Int
  <2>1. TypeOK /\ Histories /\ StageOK(s) /\ ShareHistory(s)
    BY DEF Inductive
  <2>2. s \in Int /\ 1 <= s /\ s <= W
    BY SlaveRange
  <2>3. W \in Int
    BY BlockAssumption
  <2> QED
    BY <2>1, <2>2, <2>3
<1> USE DEF TypeOK, BlockTypeOK
<1>2. /\ mpc = "serve"
      /\ mpc' = IF s = W THEN "done" ELSE "serve"
      /\ merged' = Bump(merged, Stored(s))
      /\ toSlave' = Send(toSlave, s, Stop)
      /\ toMaster' = Drop(toMaster, s)
      /\ from' = s + 1
      /\ UNCHANGED <<to, spc, offset, size, iter, runs>>
  BY DEF Collect, LastSlave, slaveVars
<1>3. HasAnswered(s) /\ Tail(toMaster[s]) = Partials /\ to = W + 1
  BY CollectReady
<1>4. Stop \in Message /\ Stop.tag = "FTAG"
  BY StopType DEF Stop, Chunk
<1>5. toSlave[s] = <<>> /\ spc[s] = "recv" /\ OwnShare(s) /\ ~Unseeded(s)
  BY <1>3 DEF HasAnswered
<1>6. toSlave'[s] # <<>> /\ Len(toSlave'[s]) = 1 /\ Head(toSlave'[s]) = Stop
  BY <1>1, <1>2, <1>4, <1>5, SendIdle
<1>7. toMaster'[s] = Partials
  BY <1>1, <1>2, <1>3 DEF Drop
<1>8. ~Unseeded(s)'
  BY <1>2 DEF Unseeded
<1>9. Collected(s)'
  BY <1>2, <1>4, <1>5, <1>6, <1>7, <1>8
     DEF Collected, OwnShare, Arrived, Partials, Partial, StoredOffset, StoredSize
<1>10. StageOK(s)'
  BY <1>1, <1>2, <1>9 DEF StageOK
<1>11. DOMAIN merged = Iteration /\ Stored(s) \in SUBSET Iteration
  BY <1>1, StoredInside DEF Histories
<1>12. ASSUME NEW i \in Iteration
       PROVE  merged'[i] = merged[i] + (IF i \in Stored(s) THEN 1 ELSE 0)
  BY <1>2, <1>11 DEF Bump
<1>13. ShareHistory(s)'
  <2>1. ASSUME NEW i \in Stored(s) PROVE merged'[i] = 1 /\ runs'[i] = 1
    <3>1. i \in Iteration /\ merged[i] = 0 /\ runs[i] = 1
      BY <1>1, <1>3, <1>11 DEF ShareHistory, Ran
    <3> QED
      BY <1>2, <1>12, <3>1
  <2>2. s < from' /\ \A i \in Int : Ran(s, i)'
    BY <1>1, <1>2 DEF Ran
  <2> QED
    BY <1>11, <2>1, <2>2 DEF ShareHistory, Iteration, Stored, StoredOffset, StoredSize
<1>14. Histories'
  BY <1>1, <1>2, <1>11, BumpHistory DEF Histories
<1>15. ASSUME NEW t \in Slave, t # s PROVE Apart(t)
  <2>1. toSlave'[t] = toSlave[t] /\ toMaster'[t] = toMaster[t]
    BY <1>1, <1>2, <1>15 DEF Send, Drop
  <2>2. t \in Int /\ 1 <= t /\ t <= W
    BY SlaveRange
  <2>3. ~Unseeded(t) /\ ~Unseeded(t)'
    BY <1>2 DEF Unseeded
  <2> QED
    BY <1>1, <1>2, <1>15, <2>1, <2>2, <2>3 DEF Apart, View
<1>16. Alone(s)
  BY <1>1, <1>2, <1>12, <1>15 DEF Alone, Histories
<1>17. MasterOK'
  BY <1>1, <1>2, <1>3 DEF MasterOK, Slave
<1> QED
  BY <1>10, <1>13, <1>14, <1>16, <1>17, StepInductive
-------------------------------------------------------------------------------
(***************************************************************************)
(* Messages that only move, and slaves that only wait: the steps that      *)
(* change neither what has run nor what is merged.                         *)
(***************************************************************************)
Quiet(s) ==
  /\ \A t \in Slave : t # s => UNCHANGED View(t)
  /\ StageOK(s)'
  /\ \A i \in Stored(s) : Ran(s, i)' <=> Ran(s, i)
  /\ UNCHANGED <<mpc, to, runs, merged, from>>

LEMMA QuietInductive ==
  ASSUME Inductive, TypeOK', NEW s \in Slave, Quiet(s)
  PROVE  Inductive'
<1>1. /\ MasterOK /\ Histories /\ ShareHistory(s)
      /\ UNCHANGED <<mpc, to, runs, merged, from>>
  BY DEF Inductive, Quiet
<1>2. \A t \in Slave : t # s => Apart(t)
  BY <1>1 DEF Quiet, Apart, Unseeded
<1>3. Alone(s) /\ MasterOK' /\ Histories'
  BY <1>1, <1>2 DEF Alone, MasterOK, Histories
<1>4. ShareHistory(s)'
  BY <1>1 DEF Quiet, ShareHistory, Stored, StoredOffset, StoredSize
<1> QED
  BY <1>3, <1>4, StepInductive DEF Quiet

LEMMA TakeShareQuiet ==
  ASSUME Inductive, NEW s \in Slave, TakeShare(s), UNCHANGED from
  PROVE  Quiet(s)
<1> USE DEF TypeOK, BlockTypeOK
<1> DEFINE m == Head(toSlave[s])
<1>1. /\ spc[s] = "recv" /\ Arrived(toSlave, s, "ATAG")
      /\ toSlave' = Drop(toSlave, s)
      /\ spc' = [spc EXCEPT ![s] = "run"]
      /\ offset' = [offset EXCEPT ![s] = StoredOffset(s)]
      /\ size' = [size EXCEPT ![s] = m.size]
      /\ iter' = [iter EXCEPT ![s] = StoredOffset(s)]
      /\ UNCHANGED <<mpc, to, toMaster, runs, merged, from>>
  BY DEF TakeShare, SlaveStart, OwnOffset, StoredOffset
<1>2. TypeOK /\ StageOK(s)
  BY DEF Inductive
<1>3. HasShare(s) /\ ~(s < from)
  BY <1>1, <1>2 DEF StageOK, Collected, Waits, Works, HasAnswered, Idle, Arrived
<1>4. /\ ~Unseeded(s) /\ ~Unseeded(s)' /\ Len(toSlave[s]) = 1 /\ toMaster[s] = <<>>
      /\ m.size = StoredSize(s)
  BY <1>1, <1>3 DEF HasShare, SentTo, Unseeded
<1>5. /\ StoredOffset(s) \in Int /\ StoredSize(s) \in Nat
  BY StoredInside
<1>6. /\ toSlave'[s] = <<>> /\ toMaster'[s] = <<>> /\ spc'[s] = "run"
      /\ offset'[s] = StoredOffset(s) /\ size'[s] = StoredSize(s)
      /\ iter'[s] = StoredOffset(s)
  BY <1>1, <1>2, <1>4, DropLast
<1>7. Works(s)'
  BY <1>4, <1>5, <1>6 DEF Works, OwnShare, Idle, StoredOffset, StoredSize
<1>8. StageOK(s)'
  BY <1>1, <1>3, <1>7 DEF StageOK
<1>9. ASSUME NEW i \in Stored(s) PROVE Ran(s, i)' <=> Ran(s, i)
  <2>1. ~(i < StoredOffset(s))
    BY <1>5 DEF Stored, Slice
  <2> QED
    BY <1>1, <1>3, <1>4, <1>6, <2>1 DEF Ran, HasShare, HasAnswered, Works
<1>10. \A t \in Slave : t # s => UNCHANGED View(t)
  BY <1>1, <1>2, <1>4, DropLast DEF View
<1> QED
  BY <1>1, <1>8, <1>9, <1>10 DEF Quiet
LEMMA AnswerQuiet ==
  ASSUME Inductive, NEW s \in Slave, Answer(s), UNCHANGED from
  PROVE  Quiet(s)
<1> USE DEF TypeOK, BlockTypeOK
<1> DEFINE q == Append(toMaster[s], Result(s, "ATAG")) \o Partials
<1>1. /\ spc[s] = "run" /\ ~InChunk(s)
      /\ toMaster' = [toMaster EXCEPT ![s] = q]
      /\ spc' = [spc EXCEPT ![s] = "recv"]
      /\ UNCHANGED <<mpc, to, toSlave, offset, size, iter, runs, merged, from>>
  BY DEF Answer, SlaveReply
<1>2. TypeOK /\ StageOK(s)
  BY DEF Inductive
<1>3. Works(s) /\ ~(s < from)
  BY <1>1, <1>2 DEF StageOK, Collected, Waits, HasShare, HasAnswered
<1>4. /\ ~Unseeded(s) /\ ~Unseeded(s)' /\ toMaster[s] = <<>> /\ toSlave[s] = <<>>
      /\ OwnShare(s)
  BY <1>1, <1>3 DEF Works, Idle, Unseeded
<1>5. /\ toSlave'[s] = <<>> /\ spc'[s] = "recv"
      /\ toMaster'[s] = Append(<<>>, Result(s, "ATAG")) \o Partials
  BY <1>1, <1>2, <1>4
<1>6. HasAnswered(s)'
  BY <1>1, <1>4, <1>5
     DEF HasAnswered, OwnShare, Result, Partials, Partial, StoredOffset, StoredSize
<1>7. StageOK(s)'
  BY <1>1, <1>3, <1>6 DEF StageOK
<1>8. ASSUME NEW i \in Stored(s) PROVE Ran(s, i)' <=> Ran(s, i)
  <2>1. offset[s] \in Int /\ size[s] \in Nat /\ iter[s] \in Int
    BY <1>2
  <2>2. iter[s] = offset[s] + size[s]
    BY <1>1, <1>3, <2>1 DEF Works, InChunk
  <2>3. i < iter[s]
    BY <1>4, <2>1, <2>2 DEF Stored, Slice, OwnShare
  <2> QED
    BY <1>3, <1>6, <2>3 DEF Ran
<1>9. \A t \in Slave : t # s => UNCHANGED View(t)
  BY <1>1, <1>2 DEF View
<1> QED
  BY <1>1, <1>7, <1>8, <1>9 DEF Quiet

LEMMA StopQuiet ==
  ASSUME Inductive, NEW s \in Slave, SlaveStop(s), UNCHANGED from
  PROVE  Quiet(s)
<1> USE DEF TypeOK, BlockTypeOK
<1>1. /\ spc[s] = "recv" /\ Arrived(toSlave, s, "FTAG")
      /\ spc' = [spc EXCEPT ![s] = "done"]
      /\ toSlave' = Drop(toSlave, s)
      /\ UNCHANGED <<mpc, to, toMaster, offset, size, iter, runs, merged, from>>
  BY DEF SlaveStop
<1>2. TypeOK /\ StageOK(s)
  BY DEF Inductive
<1>3. Collected(s) /\ s < from
  BY <1>1, <1>2 DEF StageOK, Waits, HasShare, Works, HasAnswered, Idle, SentTo, Arrived
<1>4. /\ ~Unseeded(s) /\ ~Unseeded(s)' /\ OwnShare(s) /\ toMaster[s] = Partials
      /\ Len(toSlave[s]) = 1
  BY <1>1, <1>3 DEF Collected, Unseeded
<1>5. toSlave'[s] = <<>> /\ spc'[s] = "done"
  BY <1>1, <1>2, <1>4, DropLast
<1>6. Collected(s)'
  BY <1>1, <1>4, <1>5 DEF Collected, OwnShare, Partials, Partial, StoredOffset, StoredSize
<1>7. StageOK(s)'
  BY <1>1, <1>3, <1>6 DEF StageOK
<1>8. \A i \in Stored(s) : Ran(s, i)' <=> Ran(s, i)
  BY <1>1, <1>3 DEF Ran
<1>9. \A t \in Slave : t # s => UNCHANGED View(t)
  BY <1>1, <1>2, <1>4, DropLast DEF View
<1> QED
  BY <1>1, <1>7, <1>8, <1>9 DEF Quiet

(***************************************************************************)
(* A slave that reads stays at work on its share.                          *)
(***************************************************************************)
LEMMA StillWorks ==
  ASSUME Inductive, NEW s \in Slave, Works(s), ~(s < from), ~Unseeded(s)',
         UNCHANGED <<offset, size, iter, from>>,
         \/ spc'[s] \in {"run", "got"} /\ Idle(s)'
         \/ spc'[s] = "await" /\ (SentTo(s, "RTAG")' \/ (SentBy(s)' /\ Asks(s)')),
         spc[s] # "recv"
  PROVE  /\ StageOK(s)'
         /\ \A i \in Stored(s) : Ran(s, i)' <=> Ran(s, i)
<1>1. Works(s)'
  BY DEF Works, OwnShare, StoredOffset, StoredSize
<1>2. spc'[s] # "recv"
  OBVIOUS
<1>3. StageOK(s)'
  BY <1>1 DEF StageOK
<1>4. ~HasAnswered(s) /\ ~HasAnswered(s)'
  BY <1>2 DEF HasAnswered
<1> QED
  BY <1>1, <1>3, <1>4 DEF Ran

LEMMA ReadQuiet ==
  ASSUME Inductive, NEW s \in Slave, SlaveRead(s, 0 .. (NumIn - 1)), UNCHANGED from
  PROVE  Quiet(s)
<1> USE DEF TypeOK, BlockTypeOK
<1>1. PICK v \in 0 .. (NumIn - 1) : toMaster' = Send(toMaster, s, Element(v))
  BY DEF SlaveRead
<1>2. /\ spc[s] = "run"
      /\ spc' = [spc EXCEPT ![s] = "await"]
      /\ UNCHANGED <<mpc, to, toSlave, offset, size, iter, runs, merged, from>>
  BY DEF SlaveRead
<1>3. Element(v) \in Message /\ Element(v).tag = "RTAG"
  BY StaticAssumption, ElementType DEF Element, Chunk
<1>4. TypeOK /\ StageOK(s)
  BY DEF Inductive
<1>5. Works(s) /\ ~(s < from)
  BY <1>2, <1>4 DEF StageOK, Collected, Waits, HasShare, HasAnswered
<1>6. ~Unseeded(s) /\ ~Unseeded(s)' /\ toSlave[s] = <<>> /\ toMaster[s] = <<>>
  BY <1>2, <1>5 DEF Works, Idle, Unseeded
<1>7. /\ toMaster'[s] # <<>> /\ Len(toMaster'[s]) = 1
      /\ Head(toMaster'[s]).tag = "RTAG"
      /\ toSlave'[s] = <<>> /\ spc'[s] = "await"
  BY <1>1, <1>2, <1>3, <1>4, <1>6, SendIdle
<1>8. SentBy(s)' /\ Asks(s)'
  BY <1>7 DEF SentBy, Asks, Arrived
<1>9. StageOK(s)' /\ \A i \in Stored(s) : Ran(s, i)' <=> Ran(s, i)
  BY <1>2, <1>5, <1>6, <1>7, <1>8, StillWorks
<1>10. \A t \in Slave : t # s => UNCHANGED View(t)
  BY <1>1, <1>2, <1>3, <1>4, <1>6, SendIdle DEF View
<1> QED
  BY <1>2, <1>9, <1>10 DEF Quiet

LEMMA GotQuiet ==
  ASSUME Inductive, NEW s \in Slave, SlaveGot(s), UNCHANGED from
  PROVE  Quiet(s)
<1> USE DEF TypeOK, BlockTypeOK
<1>1. /\ spc[s] = "await" /\ Arrived(toSlave, s, "RTAG")
      /\ spc' = [spc EXCEPT ![s] = "got"]
      /\ toSlave' = Drop(toSlave, s)
      /\ UNCHANGED <<mpc, to, toMaster, offset, size, iter, runs, merged, from>>
  BY DEF SlaveGot
<1>2. TypeOK /\ StageOK(s)
  BY DEF Inductive
<1>3. Works(s) /\ ~(s < from)
  BY <1>1, <1>2 DEF StageOK, Collected, Waits, HasShare, HasAnswered
<1>4. ~Unseeded(s)' /\ Len(toSlave[s]) = 1 /\ toMaster[s] = <<>>
  BY <1>1, <1>3 DEF Works, SentTo, SentBy, Arrived, Unseeded
<1>5. toSlave'[s] = <<>> /\ toMaster'[s] = <<>> /\ spc'[s] = "got"
  BY <1>1, <1>2, <1>4, DropLast
<1>6. Idle(s)'
  BY <1>5 DEF Idle
<1>7. StageOK(s)' /\ \A i \in Stored(s) : Ran(s, i)' <=> Ran(s, i)
  BY <1>1, <1>3, <1>4, <1>5, <1>6, StillWorks
<1>8. \A t \in Slave : t # s => UNCHANGED View(t)
  BY <1>1, <1>2, <1>4, DropLast DEF View
<1> QED
  BY <1>1, <1>7, <1>8 DEF Quiet

(***************************************************************************)
(* What the master answers is the question of a slave that is at work.     *)
(***************************************************************************)
LEMMA ServeReadQuiet ==
  ASSUME Inductive, NEW s \in Slave, s = from, ServeRead
  PROVE  Quiet(s)
<1> USE DEF TypeOK, BlockTypeOK
<1> DEFINE m == Element(Head(toMaster[s]).size)
<1>1. /\ mpc = "serve" /\ Arrived(toMaster, s, "RTAG")
      /\ toSlave' = Send(toSlave, s, m)
      /\ toMaster' = Drop(toMaster, s)
      /\ UNCHANGED <<mpc, to, spc, offset, size, iter, runs, merged, from>>
  BY DEF ServeRead, AnswerRead, slaveVars
<1>2. TypeOK /\ StageOK(s)
  BY DEF Inductive
<1>3. ~(s < from) /\ ~Unseeded(s)'
  BY <1>1, SlaveRange DEF Unseeded
<1>4. m \in Message /\ m.tag = "RTAG"
  BY <1>1, <1>2, DropType, ElementType DEF Arrived, Element, Chunk
<1>5. ~HasAnswered(s)
  <2>1. ASSUME HasAnswered(s) PROVE Head(toMaster[s]).tag = "ATAG"
    BY <1>2, <2>1, ResultType, AnswerQueue DEF HasAnswered
  <2> QED
    BY <1>1, <2>1 DEF Arrived
<1>6. Works(s)
  BY <1>1, <1>2, <1>3, <1>5 DEF StageOK, Waits, HasShare, Idle, SentTo, Arrived
<1>7. spc[s] = "await" /\ toSlave[s] = <<>> /\ Len(toMaster[s]) = 1
  BY <1>1, <1>6 DEF Works, Idle, SentTo, SentBy, Arrived
<1> HIDE DEF m
<1>8. /\ toSlave'[s] # <<>> /\ Len(toSlave'[s]) = 1 /\ Head(toSlave'[s]) = m
      /\ toMaster'[s] = <<>> /\ spc'[s] = "await"
  BY <1>1, <1>2, <1>4, <1>7, SendIdle, DropLast
<1>9. SentTo(s, "RTAG")'
  BY <1>4, <1>8 DEF SentTo, Arrived
<1>10. StageOK(s)' /\ \A i \in Stored(s) : Ran(s, i)' <=> Ran(s, i)
  BY <1>1, <1>3, <1>6, <1>7, <1>8, <1>9, StillWorks
<1>11. \A t \in Slave : t # s => UNCHANGED View(t)
  BY <1>1, <1>2, <1>4, <1>7, SendIdle, DropLast DEF View
<1> QED
  BY <1>1, <1>10, <1>11 DEF Quiet
-------------------------------------------------------------------------------
(***************************************************************************)
(* The iteration a slave runs is in its share and has not run before.      *)
(***************************************************************************)
LEMMA IterateFresh ==
  ASSUME Inductive, NEW s \in Slave, SlaveIterate(s)
  PROVE  /\ Works(s) /\ ~(s < from)
         /\ iter[s] \in Int /\ iter[s] \in Stored(s) /\ iter[s] \in Iteration
         /\ runs[iter[s]] = 0
<1>1. spc[s] \in {"run", "got"} /\ InChunk(s)
  BY DEF SlaveIterate
<1>2. TypeOK /\ StageOK(s) /\ ShareHistory(s)
  BY DEF Inductive
<1>3. Works(s) /\ ~(s < from)
  BY <1>1, <1>2 DEF StageOK, Collected, Waits, HasShare, HasAnswered
<1>4. offset[s] \in Int /\ size[s] \in Nat /\ iter[s] \in Int
  BY <1>2 DEF TypeOK, BlockTypeOK
<1>5. iter[s] \in Stored(s)
  BY <1>1, <1>3, <1>4 DEF InChunk, Works, OwnShare, Stored, Slice
<1>6. ~Ran(s, iter[s])
  BY <1>1, <1>3, <1>4 DEF Ran, HasAnswered
<1> QED
  BY <1>2, <1>3, <1>4, <1>5, <1>6, StoredInside DEF ShareHistory

LEMMA IterateInductive ==
  ASSUME Inductive, TypeOK', NEW s \in Slave, SlaveIterate(s), UNCHANGED from
  PROVE  Inductive'
<1> USE DEF TypeOK, BlockTypeOK
<1> DEFINE i0 == iter[s]
<1>1. /\ spc[s] \in {"run", "got"} /\ InChunk(s)
      /\ runs' = Bump(runs, {i0})
      /\ iter' = [iter EXCEPT ![s] = @ + 1]
      /\ spc' = [spc EXCEPT ![s] = "run"]
      /\ UNCHANGED <<mpc, to, toSlave, toMaster, offset, size, merged, from>>
  BY DEF SlaveIterate
<1>2. /\ TypeOK /\ MasterOK /\ Histories /\ ShareHistory(s)
  BY DEF Inductive
<1>3. /\ Works(s) /\ ~(s < from)
      /\ i0 \in Int /\ i0 \in Stored(s) /\ i0 \in Iteration /\ runs[i0] = 0
  BY IterateFresh
<1>4. /\ offset[s] \in Int /\ size[s] \in Nat
      /\ iter'[s] = i0 + 1 /\ spc'[s] = "run"
      /\ offset'[s] = offset[s] /\ size'[s] = size[s]
  BY <1>1, <1>2
<1>5. OwnShare(s) /\ Idle(s) /\ ~Unseeded(s) /\ offset[s] <= i0 /\ i0 < offset[s] + size[s]
  BY <1>1, <1>3 DEF Works, InChunk
<1>6. OwnShare(s)' /\ Idle(s)' /\ ~Unseeded(s)'
  BY <1>1, <1>4, <1>5 DEF OwnShare, Idle, Unseeded, StoredOffset, StoredSize
<1>7. Works(s)'
  BY <1>3, <1>4, <1>5, <1>6 DEF Works
<1>8. StageOK(s)'
  BY <1>1, <1>3, <1>7 DEF StageOK
<1>9. DOMAIN runs = Iteration /\ Stored(s) \in SUBSET Iteration
  BY <1>2, StoredInside DEF Histories
<1>10. ASSUME NEW i \in Iteration
       PROVE  runs'[i] = IF i = i0 THEN 1 ELSE runs[i]
  <2>1. runs'[i] = runs[i] + (IF i \in {i0} THEN 1 ELSE 0) /\ runs[i] \in Nat
    BY <1>1, <1>2, <1>3, <1>9 DEF Bump, Histories
  <2> QED
    BY <1>3, <2>1
<1>11. ShareHistory(s)'
  <2>1. ~HasAnswered(s) /\ ~HasAnswered(s)'
    BY <1>1, <1>4 DEF HasAnswered
  <2>2. ASSUME NEW i \in Stored(s)
        PROVE  /\ merged'[i] = 0
               /\ runs'[i] = IF Ran(s, i)' THEN 1 ELSE 0
    <3>1. i \in Iteration /\ i \in Int
      BY <1>9 DEF Iteration
    <3>2. (Ran(s, i) <=> i < i0) /\ (Ran(s, i)' <=> i < i0 + 1)
      BY <1>1, <1>3, <1>4, <1>7, <2>1 DEF Ran
    <3>3. /\ merged[i] = 0
          /\ runs[i] = IF i < i0 THEN 1 ELSE 0
      BY <1>2, <1>3, <3>2 DEF ShareHistory
    <3>4. runs'[i] = IF i = i0 THEN 1 ELSE runs[i]
      BY <1>10, <3>1
    <3>5. merged'[i] = 0
      BY <1>1, <3>3
    <3>6. runs'[i] = IF i < i0 + 1 THEN 1 ELSE 0
      BY <1>3, <3>1, <3>3, <3>4
    <3> QED
      BY <3>2, <3>5, <3>6
  <2> QED
    BY <1>1, <1>3, <2>2 DEF ShareHistory, Stored, StoredOffset, StoredSize
<1>12. Histories'
  BY <1>1, <1>2, <1>3, BumpHistory DEF Histories
<1>13. \A t \in Slave : t # s => Apart(t)
  BY <1>1, <1>2 DEF Apart, View, Unseeded
<1>14. Alone(s)
  <2>1. ASSUME NEW i \in Iteration, i \notin Stored(s)
        PROVE  runs'[i] = runs[i] /\ merged'[i] = merged[i]
    BY <1>1, <1>3, <1>10, <2>1
  <2> QED
    BY <1>13, <2>1 DEF Alone
<1>15. MasterOK'
  BY <1>1, <1>2 DEF MasterOK
<1> QED
  BY <1>8, <1>11, <1>12, <1>14, <1>15, StepInductive

-------------------------------------------------------------------------------
LEMMA InitInductive == Init => Inductive
<1> SUFFICES ASSUME Init PROVE Inductive
  OBVIOUS
<1>1. TypeOK
  BY InitTypeOK
<1>2. /\ mpc = "seed" /\ to = 1 /\ from = 1
      /\ \A s \in Slave : spc[s] = "recv" /\ toSlave[s] = <<>> /\ toMaster[s] = <<>>
      /\ runs = [i \in Iteration |-> 0] /\ merged = [i \in Iteration |-> 0]
  BY DEF Init, BlockInit
<1>3. ASSUME NEW s \in Slave PROVE StageOK(s) /\ ShareHistory(s)
  <2>1. ~(s < from) /\ Unseeded(s)
    BY <1>2, SlaveRange DEF Unseeded
  <2>2. StageOK(s)
    BY <1>2, <2>1 DEF StageOK, Waits, Idle
  <2>3. \A i \in Int : ~Ran(s, i)
    BY <2>1 DEF Ran, HasAnswered, Works
  <2>4. \A i \in Stored(s) : i \in Iteration /\ i \in Int
    BY StoredInside DEF Iteration
  <2> QED
    BY <1>2, <2>1, <2>2, <2>3, <2>4 DEF ShareHistory
<1>4. MasterOK /\ Histories
  BY <1>2 DEF MasterOK, Histories
<1> QED
  BY <1>1, <1>3, <1>4 DEF Inductive

LEMMA NextInductive ==
  ASSUME Inductive, [Next]_vars
  PROVE  Inductive'
<1>1. TypeOK'
  <2>1. TypeOK /\ (mpc = "serve" => from \in Slave)
    BY DEF Inductive, MasterOK
  <2> QED
    BY <2>1, NextTypeOK
<1>2. CASE Seed
  BY <1>1, <1>2, SeedInductive DEF Seed
<1>3. CASE EndSeed
  BY <1>1, <1>3, EndSeedInductive
<1>4. CASE Collect
  BY <1>1, <1>4, CollectReady, CollectInductive
<1>5. CASE ServeRead
  <2>1. from \in Slave
    BY <1>5 DEF ServeRead, Inductive, MasterOK
  <2> QED
    BY <1>1, <1>5, <2>1, ServeReadQuiet, QuietInductive
<1>6. ASSUME NEW s \in Slave, SlaveStep(s) PROVE Inductive'
  <2>1. UNCHANGED from
    BY <1>6 DEF SlaveStep
  <2>2. CASE SlaveIterate(s)
    BY <1>1, <2>1, <2>2, IterateInductive
  <2>3. CASE ~SlaveIterate(s)
    <3>1. Quiet(s)
      BY <1>6, <2>1, <2>3, TakeShareQuiet, AnswerQuiet, StopQuiet, ReadQuiet, GotQuiet
         DEF SlaveStep
    <3> QED
      BY <1>1, <3>1, QuietInductive
  <2> QED
    BY <2>2, <2>3
<1>7. CASE UNCHANGED vars
  <2>1. /\ UNCHANGED <<mpc, to, runs, merged, from>>
        /\ UNCHANGED <<toSlave, toMaster, spc, offset, size, iter>>
    BY <1>7 DEF vars, blockVars, slaveVars
  <2>2. 1 \in Slave
    BY BlockAssumption DEF Slave
  <2>3. \A t \in Slave : Apart(t)
    BY <2>1 DEF Apart, View, Unseeded
  <2>4. \A t \in Slave : StageOK(t)' /\ \A i \in Int : Ran(t, i)' <=> Ran(t, i)
    BY <2>3, Frame DEF Inductive
  <2>5. \A i \in Stored(1) : i \in Int
    BY <2>2, StoredInside DEF Iteration
  <2>6. Quiet(1)
    BY <2>1, <2>2, <2>4, <2>5 DEF Quiet, View
  <2> QED
    BY <1>1, <2>2, <2>6, QuietInductive
<1> QED
  BY <1>2, <1>3, <1>4, <1>5, <1>6, <1>7 DEF Next, Master, Finished

(***************************************************************************)
(* Inductive is an invariant, with and without a reduction clause.         *)
(***************************************************************************)
THEOREM InductiveCorrect == Spec => []Inductive
<1>1. Inductive /\ [Next]_vars => Inductive'
  BY NextInductive
<1> QED
  BY <1>1, InitInductive, PTL DEF Spec

(***************************************************************************)
(* TypeOK holds in every reachable state: in particular no share is of     *)
(* negative size.                                                          *)
(***************************************************************************)
THEOREM TypeCorrect == Spec => []TypeOK
<1>1. Inductive => TypeOK
  BY DEF Inductive
<1> QED
  BY <1>1, InductiveCorrect, PTL

(***************************************************************************)
(* What a slave works out to be its share is what the master sent it and   *)
(* what the master will store its results over, at every step.             *)
(***************************************************************************)
THEOREM SharesAgreeCorrect == Spec => []SharesAgree
<1>1. ASSUME Inductive, NEW s \in Slave
      PROVE  /\ Granted(s) => Slice(Head(toSlave[s]).offset, Head(toSlave[s]).size) = Stored(s)
             /\ Working(s) \/ Returned(s) => Slice(offset[s], size[s]) = Stored(s)
  <2>1. StageOK(s)
    BY <1>1 DEF Inductive
  <2>2. Granted(s) => HasShare(s)
    BY <2>1 DEF StageOK, Collected, Waits, Works, HasAnswered, Idle, Granted, Arrived
  <2>3. Working(s) => Works(s)
    BY <2>1 DEF StageOK, Collected, Waits, HasShare, HasAnswered, Working
  <2>4. Returned(s) => Collected(s) \/ HasAnswered(s)
    BY <2>1
       DEF StageOK, Waits, HasShare, Works, Idle, SentTo, Returned, Replied
  <2> QED
    BY <2>2, <2>3, <2>4 DEF HasShare, Works, Collected, HasAnswered, OwnShare, Stored
<1>2. Inductive => SharesAgree
  BY <1>1 DEF SharesAgree
<1> QED
  BY <1>2, InductiveCorrect, PTL
(***************************************************************************)
(* When the master leaves the block, every iteration has run and been      *)
(* merged exactly once.                                                    *)
(***************************************************************************)
LEMMA InductiveExactlyOnce == Inductive => ExactlyOnce
<1> SUFFICES ASSUME Inductive, mpc = "done", NEW i \in Iteration
             PROVE  runs[i] = 1 /\ merged[i] = 1
  BY DEF ExactlyOnce
<1>1. PICK s \in Slave : i \in Stored(s)
  BY StoredCover
<1>2. s < from
  BY SlaveRange, BlockAssumption DEF Inductive, MasterOK
<1> QED
  BY <1>1, <1>2 DEF Inductive, ShareHistory, Ran

(***************************************************************************)
(* When the master leaves, each iteration has run once on one slave and    *)
(* its result has been stored once.                                        *)
(***************************************************************************)
THEOREM ExactlyOnceCorrect == Spec => []ExactlyOnce
BY InductiveExactlyOnce, InductiveCorrect, PTL

(***************************************************************************)
(* When the master leaves the block every slave has been told to stop, and *)
(* what is left in the channels to the master are the partial results of   *)
(* the reduction clause, one for each variable and slave.                  *)
(***************************************************************************)
Leftovers ==
  mpc = "done" => \A s \in Slave : Len(toMaster[s]) = Reduced /\ Dismissed(s)

(***************************************************************************)
(* What a static block leaves to the next one is the partial results of    *)
(* the slaves, which nothing receives, and no more.                        *)
(***************************************************************************)
THEOREM LeftoversCorrect == Spec => []Leftovers
<1>1. Inductive => Leftovers
  <2> SUFFICES ASSUME Inductive, mpc = "done", NEW s \in Slave
               PROVE  Len(toMaster[s]) = Reduced /\ Dismissed(s)
    BY DEF Leftovers
  <2>1. s < from /\ StageOK(s)
    BY SlaveRange, BlockAssumption DEF Inductive, MasterOK
  <2>2. Collected(s)
    BY <2>1 DEF StageOK
  <2>3. Len(Partials) = Reduced
    BY StaticAssumption DEF Partials
  <2> QED
    BY <2>2, <2>3 DEF Collected, Dismissed
<1> QED
  BY <1>1, InductiveCorrect, PTL

-------------------------------------------------------------------------------
(***************************************************************************)
(* Without a reduction clause nothing is left behind.                      *)
(***************************************************************************)
NoReduction == Reduced = 0

(***************************************************************************)
(* A slave and the master never have more than one message between them,   *)
(* so that the receives from any tag are sound.                            *)
(***************************************************************************)
THEOREM LockstepCorrect == ASSUME NoReduction PROVE Spec => []Lockstep
<1>1. ASSUME Inductive, NEW s \in Slave PROVE SlaveLockstep(s)
  <2>1. StageOK(s) /\ TypeOK
    BY <1>1 DEF Inductive
  <2>2. Partials = <<>>
    BY SequentialPartials DEF NoReduction
  <2>3. CASE Waits(s) \/ HasShare(s)
    BY <2>3 DEF Waits, HasShare, SlaveLockstep
  <2>4. CASE Works(s)
    BY <2>4 DEF Works, SlaveLockstep
  <2>5. CASE HasAnswered(s)
    <3>1. Result(s, "ATAG") \in Message /\ Result(s, "ATAG").tag = "ATAG"
      BY <2>1, ResultType DEF TypeOK
    <3>2. /\ toMaster[s] \in Seq(Message) /\ toMaster[s] # <<>>
          /\ Head(toMaster[s]).tag = "ATAG" /\ Tail(toMaster[s]) = <<>>
      BY <2>2, <2>5, <3>1, AnswerQueue DEF HasAnswered
    <3>3. Len(toMaster[s]) = 1
      <4>1. Len(Tail(toMaster[s])) = Len(toMaster[s]) - 1 /\ Len(toMaster[s]) \in Nat
        BY <3>2, HeadTailProperties
      <4>2. Len(Tail(toMaster[s])) = 0
        BY <3>2, EmptySeq
      <4> QED
        BY <4>1, <4>2
    <3> QED
      BY <2>5, <3>2, <3>3
         DEF HasAnswered, SlaveLockstep, SentBy, Replied, Asks, Arrived
  <2>6. CASE Collected(s)
    BY <2>2, <2>6 DEF Collected, SlaveLockstep, Idle, SentTo
  <2> QED
    BY <2>1, <2>3, <2>4, <2>5, <2>6 DEF StageOK
<1>2. Inductive => Lockstep
  BY <1>1 DEF Lockstep
<1> QED
  BY <1>2, InductiveCorrect, PTL

(***************************************************************************)
(* When the master leaves the block, no message to it is left and every    *)
(* slave has been told to stop.                                            *)
(***************************************************************************)
THEOREM CleanExitCorrect == ASSUME NoReduction PROVE Spec => []CleanExit
<1>1. ASSUME TypeOK, Leftovers PROVE CleanExit
  <2> SUFFICES ASSUME mpc = "done", NEW s \in Slave
               PROVE  toMaster[s] = <<>> /\ Dismissed(s)
    BY DEF CleanExit
  <2>1. toMaster[s] \in Seq(Message) /\ Len(toMaster[s]) = 0 /\ Dismissed(s)
    BY <1>1 DEF Leftovers, TypeOK, BlockTypeOK, NoReduction
  <2> QED
    BY <2>1, EmptySeq
<1>2. TypeOK /\ Leftovers => CleanExit
  BY <1>1
<1> QED
  BY <1>2, TypeCorrect, LeftoversCorrect, PTL

LEMMA InductiveSeparate == ASSUME NoReduction, Inductive PROVE Separate
<1>1. TypeOK /\ MasterOK /\ Partials = <<>>
  BY SequentialPartials DEF Inductive, NoReduction
<1>2. ASSUME NEW s \in Slave PROVE StageOK(s)
  BY DEF Inductive
<1>3. ASSUME NEW s \in Slave, spc[s] = "done" PROVE toSlave[s] = <<>>
  BY <1>2, <1>3 DEF StageOK, Collected, Waits, HasShare, Works, HasAnswered
<1>4. ASSUME mpc = "done", NEW s \in Slave
      PROVE  toMaster[s] = <<>> /\ (spc[s] = "done" \/ Leaving(s))
  <2>1. s < from
    BY <1>1, <1>4, SlaveRange, BlockAssumption DEF MasterOK
  <2> QED
    BY <1>1, <1>2, <2>1 DEF StageOK, Collected, Leaving, Arrived
<1> QED
  BY <1>1, <1>3, <1>4 DEF Separate, TypeOK, BlockTypeOK

-------------------------------------------------------------------------------
(***************************************************************************)
(* The block implements ParallelFor: an iteration of a slave is Execute,   *)
(* the collection of a share Publish, that of the last one Join, and all   *)
(* other steps stutter.                                                    *)
(***************************************************************************)
LEMMA IterateExecutes ==
  ASSUME Inductive, NEW s \in Slave, SlaveIterate(s)
  PROVE  \E i \in Iteration : For!Execute(i)
<1>1. PICK i : i = iter[s]
  OBVIOUS
<1>2. runs' = Bump(runs, {i}) /\ UNCHANGED <<merged, mpc>>
  BY <1>1 DEF SlaveIterate
<1>3. i \in Iteration /\ runs[i] = 0
  BY <1>1, IterateFresh
<1>4. runs' = [runs EXCEPT ![i] = 1]
  <2>1. runs \in [Iteration -> Nat]
    BY DEF Inductive, Histories
  <2>2. ASSUME NEW j \in Iteration PROVE Bump(runs, {i})[j] = [runs EXCEPT ![i] = 1][j]
    BY <1>3, <2>1 DEF Bump
  <2>3. Bump(runs, {i}) \in [Iteration -> Nat]
    BY <1>3, <2>1, BumpHistory
  <2>4. [runs EXCEPT ![i] = 1] \in [Iteration -> Nat]
    BY <2>1
  <2> QED
    BY <1>2, <2>2, <2>3, <2>4
<1> QED
  BY <1>2, <1>3, <1>4 DEF For!Execute

LEMMA CollectPublishes ==
  ASSUME Inductive, Inductive', Collect
  PROVE  \E S \in SUBSET Iteration : For!Publish(S) \/ For!Join(S)
<1>1. PICK S : S = Stored(from)
  OBVIOUS
<1>2. /\ mpc = "serve" /\ mpc' \in {"serve", "done"}
      /\ merged' = Bump(merged, S)
      /\ UNCHANGED runs
  BY <1>1 DEF Collect, slaveVars
<1>3. from \in Slave /\ HasAnswered(from) /\ ~(from < from) /\ S \in SUBSET Iteration
  BY <1>1, CollectReady, SlaveRange, StoredInside
<1>4. ASSUME NEW i \in S PROVE runs[i] = 1 /\ merged[i] = 0
  BY <1>1, <1>3 DEF Inductive, ShareHistory, Ran
<1>5. merged' = For!Shown(S)
  <2>1. merged \in [Iteration -> Nat] /\ DOMAIN merged = Iteration
    BY DEF Inductive, Histories
  <2>2. ASSUME NEW i \in Iteration
        PROVE  Bump(merged, S)[i] = IF i \in S THEN 1 ELSE merged[i]
    BY <1>3, <1>4, <2>1 DEF Bump
  <2>3. Bump(merged, S) \in [Iteration -> Nat]
    BY <1>3, <2>1, BumpHistory
  <2>4. Bump(merged, S) = [i \in Iteration |-> IF i \in S THEN 1 ELSE merged[i]]
    BY <2>2, <2>3
  <2> QED
    BY <1>2, <2>4 DEF For!Shown
<1>6. For!Ready(S)
  BY <1>4 DEF For!Ready
<1>7. CASE mpc' = "serve"
  BY <1>2, <1>3, <1>5, <1>6, <1>7 DEF For!Publish
<1>8. CASE mpc' = "done"
  <2>1. ASSUME NEW i \in Iteration \ S PROVE merged[i] = 1
    <3>1. ExactlyOnce'
      BY InductiveExactlyOnce, PTL
    <3>2. merged'[i] = 1
      BY <1>8, <3>1 DEF ExactlyOnce
    <3> QED
      BY <1>5, <3>2 DEF For!Shown
  <2> QED
    BY <1>2, <1>3, <1>5, <1>6, <1>8, <2>1 DEF For!Join
<1> QED
  BY <1>2, <1>7, <1>8

LEMMA StepRefines ==
  ASSUME Inductive, Inductive', [Next]_vars
  PROVE  [For!ForNext]_(For!forVars)
<1>1. CASE Collect
  BY <1>1, CollectPublishes DEF For!ForNext
<1>2. ASSUME NEW s \in Slave, SlaveIterate(s) PROVE For!ForNext
  BY <1>2, IterateExecutes DEF For!ForNext
<1>3. CASE UNCHANGED <<runs, merged>> /\ (mpc' = "done" <=> mpc = "done")
  BY <1>3 DEF For!forVars
<1>4. CASE Seed \/ EndSeed \/ ServeRead
  BY <1>3, <1>4 DEF Seed, EndSeed, ServeRead, AnswerRead
<1>5. ASSUME NEW s \in Slave, SlaveStep(s), ~SlaveIterate(s)
      PROVE  UNCHANGED <<mpc, runs, merged>>
  BY <1>5 DEF SlaveStep, TakeShare, SlaveStart, Answer, SlaveReply, SlaveStop,
              SlaveRead, SlaveGot
<1>6. CASE UNCHANGED vars
  BY <1>3, <1>6 DEF vars, blockVars
<1> QED
  BY <1>1, <1>2, <1>3, <1>4, <1>5, <1>6 DEF Next, Master, Finished

(***************************************************************************)
(* At every step the block is a parallel loop, with and without a          *)
(* reduction clause: no iteration runs twice, no result is merged before   *)
(* its iteration ran, and the code after the loop starts only when all     *)
(* results are there.                                                      *)
(***************************************************************************)
THEOREM Refinement == Spec => ImplementsParallelFor
<1>1. Init => For!ForInit
  BY DEF Init, BlockInit, For!ForInit
<1>2. Inductive /\ Inductive' /\ [Next]_vars => [For!ForNext]_(For!forVars)
  BY StepRefines
<1> QED
  BY <1>1, <1>2, InductiveCorrect, PTL DEF Spec, ImplementsParallelFor, For!ForSpec
===============================================================================
