------------------------- MODULE OldDynamicFarmProofs -------------------------
(***************************************************************************)
(* A dynamic block of the old style is a dynamic block of the current      *)
(* style without remote reads, wherever its two defects do not show: its   *)
(* seeding loop does not look at the bound, and its serving loop grants no *)
(* rest that is exactly as long as a chunk.  All that is proved of         *)
(* DynamicFarm then holds of it.                                           *)
(***************************************************************************)
EXTENDS OldDynamicFarm, BlockProofs

(***************************************************************************)
(* There are iterations enough for the first chunk of every slave.         *)
(***************************************************************************)
SeedsFit == W * InitPart <= Bound - Start

(***************************************************************************)
(* The last of the chunks that are handed out is a shorter one.            *)
(***************************************************************************)
RestIsShorter == \A k \in Nat : Start + k * InitPart # Bound

(***************************************************************************)
(* The answers of this style have tag 0, those of the current one ATAG;    *)
(* there is never more than one of a slave.                                *)
(***************************************************************************)
Retagged ==
  [s \in Slave |->
     IF toMaster[s] = <<>> THEN <<>>
     ELSE <<Chunk("ATAG", Head(toMaster[s]).offset, Head(toMaster[s]).size)>>]

Farm == INSTANCE DynamicFarmProofs WITH
  NumIn <- 0, toMaster <- Retagged,
  Operation <- "+", value <- 0, partial <- 0, posted <- 0  \* of ReductionFarm

-------------------------------------------------------------------------------
(***************************************************************************)
(* While anything is left, only whole chunks have been handed out, and the *)
(* sizes that come back are those of whole chunks.                         *)
(***************************************************************************)
WholeChunk(s) ==
  /\ Granted(s) => Head(toSlave[s]).size = InitPart
  /\ Working(s) => size[s] = InitPart
  /\ toMaster[s] # <<>> => Head(toMaster[s]).size = InitPart

WholeChunks ==
  followIN < Bound =>
    /\ \E k \in Nat : followIN = Start + k * InitPart
    /\ \A s \in Slave : WholeChunk(s)

Seeding ==
  mpc = "seed" =>
    /\ followIN = Start + (to - 1) * InitPart
    /\ partSize = InitPart
    /\ killed = 0

(***************************************************************************)
(* A slave never waits for an element, and has at most one answer on its   *)
(* way.                                                                    *)
(***************************************************************************)
OneAnswer(s) ==
  /\ spc[s] \in {"recv", "run", "done"}
  /\ \/ toMaster[s] = <<>>
     \/ Len(toMaster[s]) = 1 /\ Head(toMaster[s]).tag = "FTAG"

Answers ==
  /\ toMaster \in [Slave -> Seq(Message)]
  /\ \A s \in Slave : OneAnswer(s)

Mapped ==
  /\ Farm!Inductive
  /\ Answers
  /\ Seeding
  /\ WholeChunks

-------------------------------------------------------------------------------
(***************************************************************************)
(* Arithmetic, and what the types of the current style say of this one.    *)
(***************************************************************************)
LEMMA OneMore ==
  ASSUME NEW k \in Int, NEW c \in Int
  PROVE  k * c \in Int /\ (k + 1) * c = k * c + c
OBVIOUS

LEMMA PartNat == InitPart \in Nat
BY FarmAssumption, ChunkSizeNat DEF InitPart

LEMMA SamePart == Farm!InitPart = InitPart
BY DEF Farm!InitPart, InitPart, Farm!ChunkSize, ChunkSize, Farm!Quotient, Quotient,
       Farm!Total, Total

LEMMA FarmTypes ==
  ASSUME Mapped
  PROVE  /\ mpc \in {"seed", "serve", "done"} /\ to \in 1 .. (W + 1)
         /\ toSlave \in [Slave -> Seq(Message)]
         /\ spc \in [Slave -> {"recv", "run", "await", "got", "done"}]
         /\ offset \in [Slave -> Int] /\ size \in [Slave -> Nat] /\ iter \in [Slave -> Int]
         /\ followIN \in Int /\ partSize \in Nat /\ killed \in Nat
<1>1. Farm!TypeOK
  BY DEF Mapped, Farm!Inductive
<1>2. Farm!Slave = Slave /\ Farm!Message = Message
  BY DEF Farm!Slave, Slave, Farm!Message, Message, Farm!Tag, Tag
<1> QED
  BY <1>1, <1>2 DEF Farm!TypeOK, Farm!BlockTypeOK

(***************************************************************************)
(* The messages of the two styles, slave by slave.                         *)
(***************************************************************************)
LEMMA Retag ==
  ASSUME Mapped, NEW s \in Slave
  PROVE  /\ Retagged[s] = <<>> <=> toMaster[s] = <<>>
         /\ toMaster[s] # <<>> =>
              Retagged[s] =
                <<Chunk("ATAG", Head(toMaster[s]).offset, Head(toMaster[s]).size)>>
BY DEF Retagged

LEMMA SlaveReady ==
  ASSUME Mapped, NEW s \in Slave
  PROVE  /\ toMaster[s] # <<>> => spc[s] = "recv" /\ toSlave[s] = <<>>
         /\ spc[s] = "run" => toSlave[s] = <<>> /\ toMaster[s] = <<>>
         /\ spc[s] = "recv" /\ toSlave[s] # <<>> => Len(toSlave[s]) = 1
         /\ toSlave[s] # <<>> => toMaster[s] = <<>>
         /\ Unseeded(s) => toSlave[s] = <<>> /\ toMaster[s] = <<>> /\ spc[s] = "recv"
<1>1. Farm!SlaveLockstep(s) /\ spc[s] \in {"recv", "run", "done"}
  BY DEF Mapped, Farm!Inductive, Farm!Lockstep, Farm!Slave, Slave, Answers, OneAnswer
<1>2. toSlave[s] \in Seq(Message)
  BY FarmTypes
<1>3. Retagged[s] = <<>> <=> toMaster[s] = <<>>
  BY Retag
<1>4. /\ spc[s] = "recv" =>
           IF Unseeded(s) THEN toSlave[s] = <<>> /\ Retagged[s] = <<>>
           ELSE \/ Len(toSlave[s]) = 1 /\ Retagged[s] = <<>>
                \/ toSlave[s] = <<>>
      /\ spc[s] \in {"run", "done"} =>
           toSlave[s] = <<>> /\ Retagged[s] = <<>> /\ ~Unseeded(s)
  BY <1>1 DEF Farm!SlaveLockstep, Farm!Idle, Farm!SentTo, Farm!SentBy, Farm!Unseeded, Unseeded
<1> QED
  BY <1>1, <1>2, <1>3, <1>4

-------------------------------------------------------------------------------
(***************************************************************************)
(* The steps of the master that hand out a chunk, grant or dismiss do the  *)
(* same in both styles.                                                    *)
(***************************************************************************)
LEMMA SameScheduling ==
  ASSUME NEW s \in Slave, NEW n
  PROVE  /\ HandOut(s, n) <=> Farm!HandOut(s, n)
         /\ GrantFull(s, n) <=> Farm!GrantFull(s, n)
         /\ Dismiss(s, n) <=> Farm!Dismiss(s, n)
         /\ DismissIfPast(s, n) <=> Farm!DismissIfPast(s, n)
<1> USE DEF HandOut, Farm!HandOut, Send, Farm!Send, Chunk, Farm!Chunk, Stop, Farm!Stop
<1>1. HandOut(s, n) <=> Farm!HandOut(s, n)
  OBVIOUS
<1>2. GrantFull(s, n) <=> Farm!GrantFull(s, n)
  BY DEF GrantFull, Farm!GrantFull
<1>3. Dismiss(s, n) <=> Farm!Dismiss(s, n)
  BY DEF Dismiss, Farm!Dismiss
<1>4. DismissIfPast(s, n) <=> Farm!DismissIfPast(s, n)
  BY <1>3 DEF DismissIfPast, Farm!DismissIfPast
<1> QED
  BY <1>1, <1>2, <1>3, <1>4

(***************************************************************************)
(* What a scheduling step leaves of the slaves it does not serve.          *)
(***************************************************************************)
LEMMA WholeFrame ==
  ASSUME NEW t \in Slave, WholeChunk(t), spc'[t] = spc[t], size'[t] = size[t],
         toSlave'[t] = toSlave[t], toMaster'[t] = toMaster[t]
  PROVE  WholeChunk(t)'
BY DEF WholeChunk, Granted, Working, Arrived

LEMMA RetagFrame ==
  ASSUME UNCHANGED toMaster
  PROVE  UNCHANGED Retagged
BY DEF Retagged

LEMMA SeedStep ==
  ASSUME Mapped, SeedsFit, RestIsShorter, Seed
  PROVE  Farm!Seed /\ Answers' /\ Seeding' /\ WholeChunks'
<1>1. /\ mpc = "seed" /\ to \in Slave /\ HandOut(to, partSize) /\ to' = to + 1
      /\ UNCHANGED <<mpc, spc, offset, size, iter, toMaster, runs, merged>>
  BY DEF Seed, slaveVars
<1>2. followIN = Start + (to - 1) * InitPart /\ partSize = InitPart /\ killed = 0
  BY <1>1 DEF Mapped, Seeding
<1>3. /\ to \in Nat /\ 1 <= to /\ to <= W /\ W \in Int /\ InitPart \in Nat
      /\ Start \in Int /\ Bound \in Int
  BY <1>1, SlaveRange, PartNat, BlockAssumption DEF Slave
<1>4. /\ (to - 1) * InitPart \in Int /\ to * InitPart = (to - 1) * InitPart + InitPart
      /\ W * InitPart \in Int
  <2>1. to - 1 \in Int /\ (to - 1) + 1 = to
    BY <1>3
  <2> QED
    BY <1>3, <2>1, OneMore
<1>5. to * InitPart <= W * InitPart
  <2>1. InitPart * to <= InitPart * W
    BY <1>3, TimesMonotone
  <2>2. InitPart * to = to * InitPart /\ InitPart * W = W * InitPart
    BY <1>3
  <2> QED
    BY <2>1, <2>2
<1>6. Start + to * InitPart # Bound /\ to * InitPart <= Bound - Start
  BY <1>3, <1>4, <1>5 DEF SeedsFit, RestIsShorter
<1>7. GrantFull(to, partSize)
  BY <1>1, <1>2, <1>3, <1>4, <1>6 DEF GrantFull
<1>8. Farm!Seed
  <2>1. Farm!GrantFull(to, partSize)
    BY <1>1, <1>7, SameScheduling
  <2>2. UNCHANGED Retagged
    BY <1>1, RetagFrame
  <2> QED
    BY <1>1, <2>1, <2>2 DEF Farm!Seed, Farm!Slave, Slave, Farm!slaveVars
<1>9. Answers'
  BY <1>1 DEF Mapped, Answers, OneAnswer
<1>10. /\ toSlave' = Send(toSlave, to, Chunk("ATAG", followIN, InitPart))
       /\ partSize' = InitPart /\ followIN' = followIN + InitPart /\ killed' = killed
  BY <1>1, <1>2 DEF HandOut
<1>11. followIN' = Start + to * InitPart
  BY <1>2, <1>3, <1>4, <1>10
<1>12. Seeding'
  <2>1. to' - 1 = to
    BY <1>1, <1>3
  <2> QED
    BY <1>1, <1>2, <1>10, <1>11, <2>1 DEF Seeding
<1>13. WholeChunks'
  <2>1. followIN < Bound /\ \A t \in Slave : WholeChunk(t)
    <3>1. followIN < Bound
      BY <1>2, <1>3, <1>4, <1>6
    <3> QED
      BY <3>1 DEF Mapped, WholeChunks
  <2>2. Unseeded(to)
    BY <1>1, <1>3 DEF Unseeded
  <2>3. toSlave[to] = <<>> /\ toMaster[to] = <<>> /\ spc[to] = "recv"
    BY <1>1, <2>2, SlaveReady
  <2>4. Chunk("ATAG", followIN, InitPart) \in Message
    BY <1>3, FarmTypes, ChunkType DEF Tag
  <2>5. PICK s \in Slave : s = to
    BY <1>1
  <2>6. /\ Head(toSlave'[s]) = Chunk("ATAG", followIN, InitPart)
        /\ \A t \in Slave : t # s => toSlave'[t] = toSlave[t]
    BY <1>1, <1>10, <2>3, <2>4, <2>5, FarmTypes, SendIdle
  <2>7. WholeChunk(s)'
    BY <1>1, <2>3, <2>5, <2>6 DEF WholeChunk, Granted, Working, Chunk
  <2>8. ASSUME NEW t \in Slave PROVE WholeChunk(t)'
    BY <1>1, <2>1, <2>6, <2>7, <2>8, WholeFrame
  <2> QED
    BY <1>3, <1>11, <2>8 DEF WholeChunks
<1> QED
  BY <1>8, <1>9, <1>12, <1>13

LEMMA EndSeedStep ==
  ASSUME Mapped, EndSeed
  PROVE  Farm!EndSeed /\ Answers' /\ Seeding' /\ WholeChunks'
<1>1. /\ mpc = "seed" /\ mpc' = "serve" /\ to = W + 1
      /\ UNCHANGED <<to, spc, offset, size, iter, toSlave, toMaster, runs, merged,
                     followIN, partSize, killed>>
  BY DEF EndSeed, slaveVars, farmVars
<1>2. killed = 0 /\ W # 0
  BY <1>1, BlockAssumption DEF Mapped, Seeding
<1>3. Farm!EndSeed
  BY <1>1, <1>2, RetagFrame DEF Farm!EndSeed, Farm!AllKilled, Farm!slaveVars, Farm!farmVars
<1>4. Answers' /\ Seeding'
  BY <1>1 DEF Mapped, Answers, OneAnswer, Seeding
<1>5. WholeChunks'
  BY <1>1, WholeFrame DEF Mapped, WholeChunks
<1> QED
  BY <1>3, <1>4, <1>5

(***************************************************************************)
(* An answer is served: the tag is the only difference, and the condition  *)
(* under which a rest is granted differs only if it is a whole chunk.      *)
(***************************************************************************)
LEMMA ServeReady ==
  ASSUME Mapped, NEW s \in Slave, toMaster[s] # <<>>
  PROVE  /\ spc[s] = "recv" /\ toSlave[s] = <<>> /\ Len(toMaster[s]) = 1
         /\ Head(toMaster[s]).offset \in Int /\ Head(toMaster[s]).size \in Nat
         /\ Head(Retagged[s]) =
              Chunk("ATAG", Head(toMaster[s]).offset, Head(toMaster[s]).size)
         /\ Retagged[s] # <<>> /\ Tail(Retagged[s]) = <<>>
<1>1. toMaster \in [Slave -> Seq(Message)] /\ OneAnswer(s)
  BY DEF Mapped, Answers
<1>2. /\ spc[s] = "recv" /\ toSlave[s] = <<>> /\ Len(toMaster[s]) = 1
  BY <1>1, SlaveReady DEF OneAnswer
<1>3. Head(toMaster[s]).offset \in Int /\ Head(toMaster[s]).size \in Nat
  BY <1>1, DropType
<1> DEFINE m == Chunk("ATAG", Head(toMaster[s]).offset, Head(toMaster[s]).size)
<1>4. Retagged[s] = <<m>>
  BY Retag
<1> HIDE DEF m
<1>5. Head(<<m>>) = m /\ <<m>> # <<>> /\ Tail(<<m>>) = <<>>
  OBVIOUS
<1> QED
  BY <1>2, <1>3, <1>4, <1>5 DEF m

LEMMA RetagDrop ==
  ASSUME Mapped, NEW s \in Slave, toMaster[s] # <<>>, toMaster' = Drop(toMaster, s)
  PROVE  /\ Retagged' = Farm!Drop(Retagged, s)
         /\ toMaster'[s] = <<>>
         /\ \A t \in Slave : t # s => toMaster'[t] = toMaster[t]
<1>1. toMaster \in [Slave -> Seq(Message)] /\ Len(toMaster[s]) = 1
  BY ServeReady DEF Mapped, Answers
<1>2. toMaster'[s] = <<>> /\ \A t \in Slave : t # s => toMaster'[t] = toMaster[t]
  BY <1>1, DropLast
<1>3. Tail(Retagged[s]) = <<>>
  BY ServeReady
<1>4. Farm!Drop(Retagged, s) = [t \in Slave |-> IF t = s THEN <<>> ELSE Retagged[t]]
  BY <1>3 DEF Farm!Drop, Retagged
<1>5. Retagged' = [t \in Slave |-> IF t = s THEN <<>> ELSE Retagged[t]]
  BY <1>2 DEF Retagged
<1> QED
  BY <1>2, <1>4, <1>5

(***************************************************************************)
(* As long as anything is left, what comes back is a whole chunk, and the  *)
(* iterations left are not exactly one.                                    *)
(***************************************************************************)
LEMMA LeftIsNoChunk ==
  ASSUME Mapped, RestIsShorter, followIN < Bound
  PROVE  Bound - followIN # InitPart
<1>1. PICK k \in Nat : followIN = Start + k * InitPart
  BY DEF Mapped, WholeChunks
<1>2. (k + 1) * InitPart = k * InitPart + InitPart /\ k * InitPart \in Int
  BY PartNat, OneMore
<1>3. Start + (k + 1) * InitPart # Bound
  BY DEF RestIsShorter
<1> QED
  BY <1>1, <1>2, <1>3, PartNat, BlockAssumption

LEMMA ServeScheduling ==
  ASSUME Mapped, RestIsShorter, NEW s \in Slave, NEW p \in Nat,
         followIN < Bound => p = InitPart,
         \/ GrantFull(s, p)
         \/ GrantRest(s, p)
         \/ NoGrant(p) /\ DismissIfPast(s, p)
  PROVE  /\ \/ Farm!GrantFull(s, p)
            \/ Farm!GrantRest(s, p)
            \/ Farm!NothingLeft(p) /\ Farm!DismissIfPast(s, p)
         /\ followIN' < Bound =>
              /\ followIN < Bound
              /\ followIN' = followIN + InitPart
              /\ toSlave' = Send(toSlave, s, Chunk("ATAG", followIN, InitPart))
<1>1. followIN \in Int /\ Bound \in Int /\ InitPart \in Nat
  BY FarmTypes, PartNat, BlockAssumption
<1>2. CASE GrantFull(s, p)
  <2>1. followIN + p < Bound /\ HandOut(s, p)
    BY <1>2 DEF GrantFull
  <2>2. p = InitPart /\ followIN < Bound
    BY <1>1, <2>1
  <2> QED
    BY <1>2, <2>1, <2>2, SameScheduling DEF HandOut
<1>3. CASE GrantRest(s, p)
  <2>1. /\ ~(followIN + p < Bound) /\ Bound - followIN > 0 /\ HandOut(s, Bound - followIN)
    BY <1>3 DEF GrantRest, RestIsShort
  <2>2. followIN' = Bound
    BY <1>1, <2>1 DEF HandOut
  <2>3. Farm!GrantRest(s, p)
    BY <2>1, SameScheduling DEF Farm!GrantRest
  <2> QED
    BY <1>1, <2>2, <2>3
<1>4. CASE NoGrant(p) /\ DismissIfPast(s, p)
  <2>1. /\ ~(followIN + p < Bound)
        /\ ~(Bound - followIN < p /\ Bound - followIN > 0)
        /\ DismissIfPast(s, p)
    BY <1>4 DEF NoGrant, RestIsShort
  <2>2. ~(followIN < Bound)
    <3>1. SUFFICES ASSUME followIN < Bound PROVE FALSE
      OBVIOUS
    <3>2. p = InitPart /\ Bound - followIN # InitPart
      BY <3>1, LeftIsNoChunk
    <3> QED
      BY <1>1, <2>1, <3>1, <3>2
  <2>3. followIN' = followIN + p
    BY <2>1 DEF DismissIfPast, Dismiss
  <2>4. ~(Bound - followIN > 0) /\ ~(followIN' < Bound)
    BY <1>1, <2>2, <2>3
  <2>5. Farm!NothingLeft(p) /\ Farm!DismissIfPast(s, p)
    BY <2>1, <2>4, SameScheduling DEF Farm!NothingLeft
  <2> QED
    BY <2>4, <2>5
<1> QED
  BY <1>2, <1>3, <1>4

LEMMA ServeStep ==
  ASSUME Mapped, RestIsShorter, NEW s \in Slave, ServeChunk(s)
  PROVE  Farm!ServeChunk(s) /\ Answers' /\ Seeding' /\ WholeChunks'
<1> DEFINE o == Head(toMaster[s]).offset
           n == Head(toMaster[s]).size
<1>1. /\ mpc = "serve" /\ toMaster[s] # <<>>
      /\ merged' = Bump(merged, Slice(o, n))
      /\ \/ GrantFull(s, n)
         \/ GrantRest(s, n)
         \/ NoGrant(n) /\ DismissIfPast(s, n)
      /\ toMaster' = Drop(toMaster, s)
      /\ mpc' = IF AllKilled(killed') THEN "done" ELSE "serve"
      /\ UNCHANGED <<to, spc, offset, size, iter, runs>>
  BY DEF ServeChunk, slaveVars
<1>2. /\ spc[s] = "recv" /\ toSlave[s] = <<>> /\ Len(toMaster[s]) = 1
      /\ o \in Int /\ n \in Nat
      /\ Head(Retagged[s]) = Chunk("ATAG", o, n) /\ Retagged[s] # <<>>
  BY <1>1, ServeReady
<1>3. followIN < Bound => n = InitPart /\ \A t \in Slave : WholeChunk(t)
  BY <1>1 DEF Mapped, WholeChunks, WholeChunk
<1> HIDE DEF o, n
<1>4. /\ \/ Farm!GrantFull(s, n)
         \/ Farm!GrantRest(s, n)
         \/ Farm!NothingLeft(n) /\ Farm!DismissIfPast(s, n)
      /\ followIN' < Bound =>
           /\ followIN < Bound
           /\ followIN' = followIN + InitPart
           /\ toSlave' = Send(toSlave, s, Chunk("ATAG", followIN, InitPart))
  BY <1>1, <1>2, <1>3, ServeScheduling
<1>5. /\ Retagged' = Farm!Drop(Retagged, s) /\ toMaster'[s] = <<>>
      /\ \A t \in Slave : t # s => toMaster'[t] = toMaster[t]
  BY <1>1, RetagDrop
<1>6. Farm!ServeChunk(s)
  <2>1. Farm!Arrived(Retagged, s, "ATAG")
    BY <1>2 DEF Farm!Arrived, Chunk
  <2>2. Head(Retagged[s]).offset = o /\ Head(Retagged[s]).size = n
    BY <1>2 DEF Chunk
  <2>3. merged' = Farm!Bump(merged, Farm!Slice(o, n))
    BY <1>1 DEF Farm!Bump, Bump, Farm!Slice, Slice
  <2>4. mpc' = IF Farm!AllKilled(killed') THEN "done" ELSE "serve"
    BY <1>1 DEF AllKilled, Farm!AllKilled
  <2> QED
    BY <1>1, <1>4, <1>5, <2>1, <2>2, <2>3, <2>4 DEF Farm!ServeChunk, Farm!slaveVars
<1>7. Answers'
  <2>1. toMaster' \in [Slave -> Seq(Message)]
    BY <1>1, DropType DEF Mapped, Answers
  <2>2. \A t \in Slave : OneAnswer(t)'
    BY <1>1, <1>5 DEF Mapped, Answers, OneAnswer
  <2> QED
    BY <2>1, <2>2 DEF Answers
<1>8. Seeding'
  BY <1>1 DEF Seeding
<1>9. WholeChunks'
  <2> SUFFICES ASSUME (followIN < Bound)'
               PROVE  /\ \E k \in Nat : followIN' = Start + k * InitPart
                      /\ \A t \in Slave : WholeChunk(t)'
    BY DEF WholeChunks
  <2>1. /\ followIN < Bound /\ followIN' = followIN + InitPart
        /\ toSlave' = Send(toSlave, s, Chunk("ATAG", followIN, InitPart))
    BY <1>4
  <2>2. PICK k \in Nat : followIN = Start + k * InitPart
    BY <2>1 DEF Mapped, WholeChunks
  <2>3. k + 1 \in Nat /\ followIN' = Start + (k + 1) * InitPart
    <3>1. (k + 1) * InitPart = k * InitPart + InitPart /\ k * InitPart \in Int
      BY PartNat, OneMore
    <3> QED
      BY <2>1, <2>2, <3>1, PartNat, BlockAssumption
  <2>4. Chunk("ATAG", followIN, InitPart) \in Message
    BY PartNat, FarmTypes, ChunkType DEF Tag
  <2>5. /\ Head(toSlave'[s]) = Chunk("ATAG", followIN, InitPart)
        /\ \A t \in Slave : t # s => toSlave'[t] = toSlave[t]
    BY <1>2, <2>1, <2>4, FarmTypes, SendIdle
  <2>6. WholeChunk(s)'
    BY <1>1, <1>2, <1>5, <2>5 DEF WholeChunk, Granted, Working, Chunk
  <2>7. ASSUME NEW t \in Slave PROVE WholeChunk(t)'
    BY <1>1, <1>3, <1>5, <2>1, <2>5, <2>6, <2>7, WholeFrame
  <2> QED
    BY <2>3, <2>7
<1> QED
  BY <1>6, <1>7, <1>8, <1>9

-------------------------------------------------------------------------------
(***************************************************************************)
(* The steps of a slave.  Only its answer has another tag.                 *)
(***************************************************************************)
LEMMA SlaveWhole ==
  ASSUME Mapped, NEW s \in Slave, UNCHANGED <<mpc, to, followIN, partSize, killed>>,
         followIN < Bound => WholeChunk(s)',
         \A t \in Slave : t # s =>
            /\ spc'[t] = spc[t] /\ size'[t] = size[t]
            /\ toSlave'[t] = toSlave[t] /\ toMaster'[t] = toMaster[t]
  PROVE  Seeding' /\ WholeChunks'
<1>1. Seeding'
  BY DEF Mapped, Seeding
<1>2. ASSUME followIN < Bound, NEW t \in Slave PROVE WholeChunk(t)'
  <2>1. CASE t = s
    BY <1>2, <2>1
  <2>2. CASE t # s
    BY <1>2, <2>2, WholeFrame DEF Mapped, WholeChunks
  <2> QED
    BY <2>1, <2>2
<1>3. WholeChunks'
  BY <1>2 DEF Mapped, WholeChunks
<1> QED
  BY <1>1, <1>3

LEMMA TakeStep ==
  ASSUME Mapped, NEW s \in Slave, TakeChunk(s), UNCHANGED farmVars
  PROVE  Farm!TakeChunk(s) /\ Answers' /\ Seeding' /\ WholeChunks'
<1> DEFINE o == Head(toSlave[s]).offset
           n == Head(toSlave[s]).size
<1>1. /\ spc[s] = "recv" /\ toSlave[s] # <<>> /\ Head(toSlave[s]).tag = "ATAG"
      /\ offset' = [offset EXCEPT ![s] = o]
      /\ size' = [size EXCEPT ![s] = n]
      /\ iter' = [iter EXCEPT ![s] = o]
      /\ spc' = [spc EXCEPT ![s] = "run"]
      /\ toSlave' = Drop(toSlave, s)
      /\ UNCHANGED <<mpc, to, toMaster, runs, merged, followIN, partSize, killed>>
  BY DEF TakeChunk, SlaveStart, Arrived, farmVars
<1>2. Farm!TakeChunk(s)
  BY <1>1, RetagFrame
     DEF Farm!TakeChunk, Farm!SlaveStart, Farm!Arrived, Farm!Drop, Drop
<1>3. toMaster[s] = <<>> /\ Len(toSlave[s]) = 1
  BY <1>1, SlaveReady
<1>4. /\ spc'[s] = "run" /\ size'[s] = n /\ toSlave'[s] = <<>>
      /\ \A t \in Slave : t # s =>
           /\ spc'[t] = spc[t] /\ size'[t] = size[t]
           /\ toSlave'[t] = toSlave[t] /\ toMaster'[t] = toMaster[t]
  BY <1>1, <1>3, FarmTypes, DropLast
<1>5. Answers'
  BY <1>1, <1>4 DEF Mapped, Answers, OneAnswer
<1>6. followIN < Bound => WholeChunk(s)'
  BY <1>1, <1>3, <1>4 DEF Mapped, WholeChunks, WholeChunk, Granted, Working, Arrived
<1> QED
  BY <1>1, <1>2, <1>4, <1>5, <1>6, SlaveWhole

LEMMA IterateStep ==
  ASSUME Mapped, NEW s \in Slave, SlaveIterate(s), UNCHANGED farmVars
  PROVE  Farm!SlaveIterate(s) /\ Answers' /\ Seeding' /\ WholeChunks'
<1>1. /\ spc[s] \in {"run", "got"} /\ InChunk(s)
      /\ runs' = Bump(runs, {iter[s]})
      /\ iter' = [iter EXCEPT ![s] = @ + 1]
      /\ spc' = [spc EXCEPT ![s] = "run"]
      /\ UNCHANGED <<mpc, to, toSlave, toMaster, offset, size, merged,
                     followIN, partSize, killed>>
  BY DEF SlaveIterate, farmVars
<1>2. Farm!SlaveIterate(s)
  BY <1>1, RetagFrame DEF Farm!SlaveIterate, Farm!InChunk, InChunk, Farm!Bump, Bump
<1>3. spc'[s] = "run" /\ \A t \in Slave : t # s => spc'[t] = spc[t]
  BY <1>1, FarmTypes
<1>4. Answers'
  BY <1>1, <1>3 DEF Mapped, Answers, OneAnswer
<1>5. followIN < Bound => WholeChunk(s)'
  BY <1>1, <1>3 DEF Mapped, WholeChunks, WholeChunk, Granted, Working
<1> QED
  BY <1>1, <1>2, <1>3, <1>4, <1>5, SlaveWhole

LEMMA AnswerStep ==
  ASSUME Mapped, NEW s \in Slave, Answer(s), UNCHANGED farmVars
  PROVE  Farm!Answer(s) /\ Answers' /\ Seeding' /\ WholeChunks'
<1> DEFINE m == Chunk("FTAG", offset[s], size[s])
           r == Chunk("ATAG", offset[s], size[s])
<1>1. /\ spc[s] = "run" /\ ~InChunk(s)
      /\ toMaster' = Send(toMaster, s, m)
      /\ spc' = [spc EXCEPT ![s] = "recv"]
      /\ UNCHANGED <<mpc, to, toSlave, offset, size, iter, runs, merged,
                     followIN, partSize, killed>>
  BY DEF Answer, SlaveReply, Result, farmVars
<1>2. toSlave[s] = <<>> /\ toMaster[s] = <<>> /\ toMaster \in [Slave -> Seq(Message)]
  BY <1>1, SlaveReady DEF Mapped, Answers
<1>3. offset[s] \in Int /\ size[s] \in Nat
  BY FarmTypes
<1>4. m \in Message /\ m.tag = "FTAG" /\ m.size = size[s] /\ m.offset = offset[s]
  BY <1>3, ChunkType DEF Tag, Chunk
<1>5. /\ toMaster'[s] # <<>> /\ Len(toMaster'[s]) = 1 /\ Head(toMaster'[s]) = m
      /\ \A t \in Slave : t # s => toMaster'[t] = toMaster[t]
      /\ toMaster' \in [Slave -> Seq(Message)]
  BY <1>1, <1>2, <1>4, SendIdle, SendType
<1>6. Retagged' = [t \in Slave |-> IF t = s THEN <<r>> ELSE Retagged[t]]
  BY <1>4, <1>5 DEF Retagged
<1>7. Farm!Send(Retagged, s, r) = [t \in Slave |-> IF t = s THEN <<r>> ELSE Retagged[t]]
  <2>1. Retagged[s] = <<>>
    BY <1>2, Retag
  <2>2. Append(<<>>, r) = <<r>>
    OBVIOUS
  <2> QED
    BY <2>1, <2>2 DEF Farm!Send, Retagged
<1>8. Farm!Answer(s)
  <2>1. Farm!Result(s, "ATAG") = r
    BY DEF Farm!Result, Farm!Chunk, Chunk
  <2>2. ~Farm!InChunk(s)
    BY <1>1 DEF Farm!InChunk, InChunk
  <2> QED
    BY <1>1, <1>6, <1>7, <2>1, <2>2 DEF Farm!Answer, Farm!SlaveReply
<1>9. spc'[s] = "recv" /\ \A t \in Slave : t # s => spc'[t] = spc[t]
  BY <1>1, FarmTypes
<1>10. Answers'
  BY <1>4, <1>5, <1>9 DEF Mapped, Answers, OneAnswer
<1>11. followIN < Bound => WholeChunk(s)'
  BY <1>1, <1>2, <1>4, <1>5, <1>9
     DEF Mapped, WholeChunks, WholeChunk, Granted, Working, Arrived
<1> QED
  BY <1>1, <1>5, <1>8, <1>9, <1>10, <1>11, SlaveWhole

LEMMA StopStep ==
  ASSUME Mapped, NEW s \in Slave, SlaveStop(s), UNCHANGED farmVars
  PROVE  Farm!SlaveStop(s) /\ Answers' /\ Seeding' /\ WholeChunks'
<1>1. /\ spc[s] = "recv" /\ toSlave[s] # <<>> /\ Head(toSlave[s]).tag = "FTAG"
      /\ spc' = [spc EXCEPT ![s] = "done"]
      /\ toSlave' = Drop(toSlave, s)
      /\ UNCHANGED <<mpc, to, toMaster, offset, size, iter, runs, merged,
                     followIN, partSize, killed>>
  BY DEF SlaveStop, Arrived, farmVars
<1>2. Farm!SlaveStop(s)
  BY <1>1, RetagFrame DEF Farm!SlaveStop, Farm!Arrived, Farm!Drop, Drop
<1>3. toMaster[s] = <<>> /\ Len(toSlave[s]) = 1
  BY <1>1, SlaveReady
<1>4. /\ spc'[s] = "done" /\ toSlave'[s] = <<>>
      /\ \A t \in Slave : t # s =>
           /\ spc'[t] = spc[t] /\ size'[t] = size[t]
           /\ toSlave'[t] = toSlave[t] /\ toMaster'[t] = toMaster[t]
  BY <1>1, <1>3, FarmTypes, DropLast
<1>5. Answers'
  BY <1>1, <1>4 DEF Mapped, Answers, OneAnswer
<1>6. followIN < Bound => WholeChunk(s)'
  BY <1>1, <1>3, <1>4 DEF WholeChunk, Granted, Working
<1> QED
  BY <1>1, <1>2, <1>4, <1>5, <1>6, SlaveWhole

-------------------------------------------------------------------------------
(***************************************************************************)
(* Every step of the block is one of DynamicFarm, and the mapping goes on. *)
(***************************************************************************)
LEMMA InitMapped == Init => Farm!Init /\ Mapped
<1> SUFFICES ASSUME Init PROVE Farm!Init /\ Mapped
  OBVIOUS
<1>1. /\ mpc = "seed" /\ to = 1 /\ followIN = Start /\ partSize = InitPart /\ killed = 0
      /\ toSlave = [s \in Slave |-> <<>>] /\ toMaster = [s \in Slave |-> <<>>]
      /\ spc = [s \in Slave |-> "recv"] /\ offset = [s \in Slave |-> 0]
      /\ size = [s \in Slave |-> 0] /\ iter = [s \in Slave |-> 0]
      /\ runs = [i \in Iteration |-> 0] /\ merged = [i \in Iteration |-> 0]
  BY DEF Init, BlockInit
<1>2. Retagged = [s \in Slave |-> <<>>]
  BY <1>1 DEF Retagged
<1>3. Farm!Init
  BY <1>1, <1>2, SamePart
     DEF Farm!Init, Farm!BlockInit, Farm!Slave, Slave, Farm!Iteration, Iteration
<1>4. Farm!Inductive
  BY <1>3, BlockAssumption, FarmAssumption, Farm!InitInductive
<1>5. Answers
  <2>1. <<>> \in Seq(Message)
    BY EmptySeq
  <2> QED
    BY <1>1, <2>1 DEF Answers, OneAnswer
<1>6. 0 * InitPart = 0 /\ Start \in Int
  BY PartNat, BlockAssumption
<1>7. Seeding
  BY <1>1, <1>6 DEF Seeding
<1>8. WholeChunks
  <2>1. followIN = Start + 0 * InitPart
    BY <1>1, <1>6
  <2>2. \A s \in Slave : WholeChunk(s)
    BY <1>1 DEF WholeChunk, Granted, Working, Arrived
  <2> QED
    BY <2>1, <2>2 DEF WholeChunks
<1> QED
  BY <1>3, <1>4, <1>5, <1>7, <1>8 DEF Mapped

LEMMA FarmStep ==
  ASSUME SeedsFit, RestIsShorter, Mapped, [Next]_vars
  PROVE  [Farm!Next]_(Farm!vars) /\ Answers' /\ Seeding' /\ WholeChunks'
<1>1. CASE Seed
  BY <1>1, SeedStep DEF Farm!Next, Farm!Master
<1>2. CASE EndSeed
  BY <1>2, EndSeedStep DEF Farm!Next, Farm!Master
<1>3. ASSUME NEW s \in Slave, ServeChunk(s)
      PROVE  [Farm!Next]_(Farm!vars) /\ Answers' /\ Seeding' /\ WholeChunks'
  BY <1>3, ServeStep DEF Farm!Next, Farm!Master, Farm!Slave, Slave
<1>4. ASSUME NEW s \in Slave, SlaveStep(s)
      PROVE  [Farm!Next]_(Farm!vars) /\ Answers' /\ Seeding' /\ WholeChunks'
  <2>1. UNCHANGED farmVars /\ (TakeChunk(s) \/ SlaveIterate(s) \/ Answer(s) \/ SlaveStop(s))
    BY <1>4 DEF SlaveStep
  <2>2. /\ \/ Farm!TakeChunk(s) \/ Farm!SlaveIterate(s) \/ Farm!Answer(s)
           \/ Farm!SlaveStop(s)
        /\ Answers' /\ Seeding' /\ WholeChunks'
    BY <2>1, TakeStep, IterateStep, AnswerStep, StopStep
  <2>3. Farm!SlaveStep(s)
    BY <2>1, <2>2 DEF Farm!SlaveStep, Farm!farmVars, farmVars
  <2> QED
    BY <2>2, <2>3 DEF Farm!Next, Farm!Slave, Slave
<1>5. CASE UNCHANGED vars
  <2>1. UNCHANGED <<mpc, to, spc, offset, size, iter, toSlave, toMaster, runs, merged,
                    followIN, partSize, killed>>
    BY <1>5 DEF vars, blockVars, slaveVars, farmVars
  <2>2. UNCHANGED Farm!vars
    BY <2>1, RetagFrame DEF Farm!vars, Farm!blockVars, Farm!slaveVars, Farm!farmVars
  <2>3. Answers' /\ Seeding' /\ WholeChunks'
    BY <2>1, WholeFrame DEF Mapped, Answers, OneAnswer, Seeding, WholeChunks
  <2> QED
    BY <2>2, <2>3
<1> QED
  BY <1>1, <1>2, <1>3, <1>4, <1>5 DEF Next, Master, Finished

LEMMA NextMapped ==
  ASSUME SeedsFit, RestIsShorter, Mapped, [Next]_vars
  PROVE  Mapped'
<1>1. [Farm!Next]_(Farm!vars) /\ Answers' /\ Seeding' /\ WholeChunks' /\ Farm!Inductive
  BY FarmStep DEF Mapped
<1>2. Farm!Inductive'
  BY <1>1, BlockAssumption, FarmAssumption, Farm!NextInductive
<1> QED
  BY <1>1, <1>2 DEF Mapped

(***************************************************************************)
(* The mapping holds in every reachable state.                             *)
(***************************************************************************)
THEOREM MappedCorrect ==
  ASSUME SeedsFit, RestIsShorter PROVE Spec => []Mapped
<1>1. Init => Mapped
  BY InitMapped
<1>2. Mapped /\ [Next]_vars => Mapped'
  BY NextMapped
<1> QED
  BY <1>1, <1>2, PTL DEF Spec

(***************************************************************************)
(* A dynamic block of the old style behaves as one of the current style:   *)
(* each grant, rest and dismissal is the same, if the seeds fit and the    *)
(* rest is shorter than a chunk.                                           *)
(***************************************************************************)
THEOREM OldIsFarm ==
  ASSUME SeedsFit, RestIsShorter PROVE Spec => Farm!Spec
<1>1. Init => Farm!Init
  BY InitMapped
<1>2. Mapped /\ [Next]_vars => [Farm!Next]_(Farm!vars)
  BY FarmStep
<1> QED
  BY <1>1, <1>2, MappedCorrect, PTL DEF Spec, Farm!Spec

-------------------------------------------------------------------------------
(***************************************************************************)
(* What is known of the current style, said of the messages of this one.   *)
(***************************************************************************)
LEMMA SamePlaces ==
  ASSUME Mapped, NEW s \in Slave
  PROVE  /\ Farm!Granted(s) <=> Granted(s)
         /\ Farm!Working(s) <=> Working(s)
         /\ Farm!Returned(s) <=> Returned(s)
         /\ Farm!Dismissed(s) <=> Dismissed(s)
         /\ \A i \in Iteration : Farm!Holds(s, i) <=> Holds(s, i)
<1>1. toMaster[s] # <<>> =>
        /\ Head(toMaster[s]).tag = "FTAG"
        /\ Retagged[s] # <<>>
        /\ Head(Retagged[s]) =
             Chunk("ATAG", Head(toMaster[s]).offset, Head(toMaster[s]).size)
  BY ServeReady DEF Mapped, Answers, OneAnswer
<1>2. Retagged[s] = <<>> <=> toMaster[s] = <<>>
  BY Retag
<1>3. /\ Farm!Granted(s) <=> Granted(s)
      /\ Farm!Working(s) <=> Working(s)
      /\ Farm!Dismissed(s) <=> Dismissed(s)
  BY DEF Farm!Granted, Granted, Farm!Working, Working, Farm!Dismissed, Dismissed,
         Farm!Arrived, Arrived
<1>4. Farm!Returned(s) <=> Returned(s)
  BY <1>1, <1>2
     DEF Farm!Returned, Returned, Farm!Replied, Replied, Farm!Asks, Asks,
         Farm!Arrived, Arrived, Chunk
<1>5. ASSUME NEW i \in Iteration PROVE Farm!Holds(s, i) <=> Holds(s, i)
  <2>1. Returned(s) =>
          (Farm!Covers(Head(Retagged[s]), i) <=> Covers(Head(toMaster[s]), i))
    BY <1>1 DEF Returned, Replied, Farm!Covers, Covers, Farm!Slice, Slice, Chunk
  <2>2. Farm!Covers(Head(toSlave[s]), i) <=> Covers(Head(toSlave[s]), i)
    BY DEF Farm!Covers, Covers, Farm!Slice, Slice
  <2> QED
    BY <1>3, <1>4, <2>1, <2>2 DEF Farm!Holds, Holds, Farm!Slice, Slice
<1> QED
  BY <1>3, <1>4, <1>5

(***************************************************************************)
(* Channels, places and the variables of the master have their types.      *)
(***************************************************************************)
THEOREM TypeCorrect == ASSUME SeedsFit, RestIsShorter PROVE Spec => []TypeOK
<1>1. ASSUME Mapped PROVE TypeOK
  <2>1. toMaster \in [Slave -> Seq(Message)]
    BY <1>1 DEF Mapped, Answers
  <2>2. Farm!TypeOK
    BY <1>1 DEF Mapped, Farm!Inductive
  <2>3. Counter(runs) /\ Counter(merged)
    BY <2>2 DEF Farm!TypeOK, Farm!BlockTypeOK, Farm!Counter, Counter
  <2> QED
    BY <1>1, <2>1, <2>3, FarmTypes DEF TypeOK, BlockTypeOK
<1> QED
  BY <1>1, MappedCorrect, PTL

LEMMA SameCardinality == ASSUME NEW S PROVE Farm!Cardinality(S) = Cardinality(S)
BY DEF Farm!Cardinality, Cardinality

LEMMA MappedOneHolder == ASSUME Mapped PROVE OneHolder
<1>1. Farm!OneHolder
  BY BlockAssumption, FarmAssumption, Farm!InductiveOneHolder DEF Mapped
<1>2. ASSUME NEW i \in Iteration PROVE Farm!Holders(i) = Holders(i)
  BY <1>2, SamePlaces DEF Farm!Holders, Holders, Farm!Slave, Slave
<1>3. Farm!Iteration = Iteration
  BY DEF Farm!Iteration, Iteration
<1> QED
  BY <1>1, <1>2, <1>3, SameCardinality DEF Farm!OneHolder, OneHolder

(***************************************************************************)
(* Every iteration below followIN is with exactly one slave or merged,     *)
(* none above it is anywhere.                                              *)
(***************************************************************************)
THEOREM OneHolderCorrect == ASSUME SeedsFit, RestIsShorter PROVE Spec => []OneHolder
BY MappedOneHolder, MappedCorrect, PTL

(***************************************************************************)
(* The counter that ends the serving loop counts the dismissed slaves.     *)
(***************************************************************************)
THEOREM KilledIsDismissedCorrect ==
  ASSUME SeedsFit, RestIsShorter PROVE Spec => []KilledIsDismissed
<1>1. ASSUME Mapped PROVE KilledIsDismissed
  <2>1. Farm!KilledIsDismissed
    BY <1>1 DEF Mapped, Farm!Inductive
  <2>2. {s \in Farm!Slave : Farm!Dismissed(s)} = {s \in Slave : Dismissed(s)}
    BY <1>1, SamePlaces DEF Farm!Slave, Slave
  <2> QED
    BY <2>1, <2>2, SameCardinality DEF Farm!KilledIsDismissed, KilledIsDismissed
<1> QED
  BY <1>1, MappedCorrect, PTL

(***************************************************************************)
(* Nothing but the iterations of the loop is run or stored.                *)
(***************************************************************************)
THEOREM NothingOutsideCorrect ==
  ASSUME SeedsFit, RestIsShorter PROVE Spec => []NothingOutside
<1>1. Mapped => NothingOutside
  BY DEF Mapped, Farm!Inductive, Farm!Histories, Farm!Iteration, Iteration, NothingOutside
<1> QED
  BY <1>1, MappedCorrect, PTL

(***************************************************************************)
(* When the master leaves the block no message to it is left and every     *)
(* slave has its stop message.                                             *)
(***************************************************************************)
THEOREM CleanExitCorrect == ASSUME SeedsFit, RestIsShorter PROVE Spec => []CleanExit
<1>1. ASSUME Mapped PROVE CleanExit
  <2>1. Farm!CleanExit
    BY <1>1, BlockAssumption, FarmAssumption, Farm!InductiveCleanExit DEF Mapped
  <2>2. ASSUME mpc = "done", NEW s \in Slave PROVE toMaster[s] = <<>> /\ Dismissed(s)
    <3>1. Retagged[s] = <<>> /\ Farm!Dismissed(s)
      BY <2>1, <2>2 DEF Farm!CleanExit, Farm!Slave, Slave
    <3> QED
      BY <1>1, <3>1, Retag, SamePlaces
  <2> QED
    BY <2>2 DEF CleanExit
<1> QED
  BY <1>1, MappedCorrect, PTL

LEMMA MappedSeparate == ASSUME Mapped PROVE Separate
<1>1. Farm!Separate
  BY BlockAssumption, FarmAssumption, Farm!InductiveSeparate DEF Mapped
<1>2. \A s \in Slave : spc[s] = "done" => toSlave[s] = <<>>
  BY <1>1 DEF Farm!Separate, Farm!Slave, Slave
<1>3. ASSUME mpc = "done", NEW s \in Slave
      PROVE  toMaster[s] = <<>> /\ (spc[s] = "done" \/ Leaving(s))
  <2>1. Retagged[s] = <<>> /\ (spc[s] = "done" \/ Farm!Leaving(s))
    BY <1>1, <1>3 DEF Farm!Separate, Farm!Slave, Slave
  <2> QED
    BY <2>1, Retag DEF Farm!Leaving, Leaving
<1> QED
  BY <1>2, <1>3, FarmTypes DEF Separate, Mapped, Answers

(***************************************************************************)
(* When the master leaves the block every iteration has run and been       *)
(* stored exactly once.                                                    *)
(***************************************************************************)
THEOREM ExactlyOnceCorrect == ASSUME SeedsFit, RestIsShorter PROVE Spec => []ExactlyOnce
<1>1. ASSUME Mapped PROVE ExactlyOnce
  <2>1. Farm!ExactlyOnce
    BY <1>1, BlockAssumption, FarmAssumption, Farm!InductiveExactlyOnce DEF Mapped
  <2> QED
    BY <2>1 DEF Farm!ExactlyOnce, ExactlyOnce, Farm!Iteration, Iteration
<1> QED
  BY <1>1, MappedCorrect, PTL

LEMMA StepRefines ==
  ASSUME SeedsFit, RestIsShorter, Mapped, Mapped', [Next]_vars
  PROVE  [For!ForNext]_(For!forVars)
<1>1. [Farm!Next]_(Farm!vars) /\ Farm!Inductive /\ Farm!Inductive'
  BY FarmStep DEF Mapped
<1>2. [Farm!For!ForNext]_(Farm!For!forVars)
  BY <1>1, BlockAssumption, FarmAssumption, Farm!StepRefines
<1> QED
  BY <1>2
     DEF Farm!For!ForNext, For!ForNext, Farm!For!forVars, For!forVars,
         Farm!For!Execute, For!Execute, Farm!For!Publish, For!Publish,
         Farm!For!Join, For!Join, Farm!For!Ready, For!Ready, Farm!For!Shown, For!Shown,
         Farm!Iteration, Iteration

(***************************************************************************)
(* At every step the block is a parallel loop.                             *)
(***************************************************************************)
THEOREM Refinement ==
  ASSUME SeedsFit, RestIsShorter PROVE Spec => ImplementsParallelFor
<1>1. Init => For!ForInit
  BY DEF Init, BlockInit, For!ForInit
<1>2. Mapped /\ Mapped' /\ [Next]_vars => [For!ForNext]_(For!forVars)
  BY StepRefines
<1> QED
  BY <1>1, <1>2, MappedCorrect, PTL DEF Spec, ImplementsParallelFor, For!ForSpec

-------------------------------------------------------------------------------
(***************************************************************************)
(* If div.data does not fix the chunk size, the seeds fit as soon as there *)
(* is an iteration for each slave.                                         *)
(***************************************************************************)
THEOREM SeedsFitEach == ASSUME ~Fixed, W <= Bound - Start PROVE SeedsFit
<1> DEFINE d == Bound - Start
           q == Quotient(d, W)
<1>1. d \in Nat /\ W \in Nat \ {0} /\ Number \in Nat \ {0}
  BY BlockAssumption, FarmAssumption
<1>2. q \in Nat /\ W * q <= d
  BY <1>1 DEF Quotient
<1> HIDE DEF d, q
<1>3. InitPart = IF q > 0 THEN Quotient(q, Number) ELSE 1
  BY DEF InitPart, ChunkSize, Total, d, q
<1>4. q > 0
  BY <1>1 DEF Quotient, q, d
<1>5. Quotient(q, Number) \in Nat /\ Quotient(q, Number) <= q
  BY <1>1, <1>2 DEF Quotient
<1>6. W * Quotient(q, Number) <= W * q
  BY <1>1, <1>2, <1>5, TimesMonotone
<1> QED
  BY <1>1, <1>2, <1>3, <1>4, <1>5, <1>6 DEF SeedsFit, d

===============================================================================
