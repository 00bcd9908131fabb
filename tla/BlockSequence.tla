----------------------------- MODULE BlockSequence -----------------------------
(***************************************************************************)
(* Two MPI blocks one after the other in the same program, or one block    *)
(* twice in a sequential loop.  OMP2MPI prints no barrier between them:    *)
(* putBarrier only records where the code of the block ends, and a process *)
(* goes on to the next block as soon as it has left this one.  The blocks  *)
(* use the same channels and the same tags, so a receive of the second     *)
(* block may take a message of the first.                                  *)
(*                                                                         *)
(* A process has the state of both blocks (the variables of block b end    *)
(* with b) and works in the second when it is done with the first.  All    *)
(* blocks of a program are printed in the same style.                      *)
(***************************************************************************)
EXTENDS Integers, Sequences

CONSTANTS
  Programs,          \* pairs of kinds of blocks
  W, Bound1, Bound2, \* both loops begin with 0
  Fixed, Number, NumIn, Inputs, Outputs, Reduced

ASSUME SequenceAssumption ==
  /\ Programs \subseteq ({"dynamic", "static"} \X {"dynamic", "static"})
               \cup ({"oldDynamic", "oldStatic"} \X {"oldDynamic", "oldStatic"})
  /\ W \in Nat \ {0}
  /\ Bound1 \in Nat /\ Bound2 \in Nat
  /\ Fixed \in BOOLEAN /\ Number \in Nat \ {0}
  /\ NumIn \in Nat
  /\ Inputs \in Nat /\ Outputs \in Nat /\ Reduced \in Nat

VARIABLES
  kind,      \* the program: the kinds of its two blocks
  toSlave, toMaster,
  toSelf,    \* messages of rank 0 to itself
  sentTo,    \* history: the blocks the messages in toSlave were sent in
  sentBy,    \* history: the blocks the messages in toMaster were sent in
  trapped,   \* the master has taken a message of its own for an answer
  mpc1, to1, spc1, offset1, size1, iter1, runs1, merged1,
  followIN1, partSize1, killed1, from1, got1,
  mpc2, to2, spc2, offset2, size2, iter2, runs2, merged2,
  followIN2, partSize2, killed2, from2, got2

channels == <<toSlave, toMaster, toSelf, sentTo, sentBy>>
farm1 == <<followIN1, partSize1, killed1>>
farm2 == <<followIN2, partSize2, killed2>>
block1 == <<mpc1, to1, spc1, offset1, size1, iter1, runs1, merged1, farm1, from1, got1>>
block2 == <<mpc2, to2, spc2, offset2, size2, iter2, runs2, merged2, farm2, from2, got2>>
vars == <<kind, trapped, channels, block1, block2>>

Dynamic1 == INSTANCE DynamicFarm WITH
  Start <- 0, Bound <- Bound1, mpc <- mpc1, to <- to1, spc <- spc1, offset <- offset1,
  size <- size1, iter <- iter1, runs <- runs1, merged <- merged1,
  followIN <- followIN1, partSize <- partSize1, killed <- killed1
Static1 == INSTANCE StaticFarm WITH
  Start <- 0, Bound <- Bound1, mpc <- mpc1, to <- to1, spc <- spc1, offset <- offset1,
  size <- size1, iter <- iter1, runs <- runs1, merged <- merged1, from <- from1
OldDynamic1 == INSTANCE OldDynamicFarm WITH
  Start <- 0, Bound <- Bound1, mpc <- mpc1, to <- to1, spc <- spc1, offset <- offset1,
  size <- size1, iter <- iter1, runs <- runs1, merged <- merged1,
  followIN <- followIN1, partSize <- partSize1, killed <- killed1
OldStatic1 == INSTANCE OldStaticFarm WITH
  Start <- 0, Bound <- Bound1, mpc <- mpc1, to <- to1, spc <- spc1, offset <- offset1,
  size <- size1, iter <- iter1, runs <- runs1, merged <- merged1,
  from <- from1, got <- got1

Dynamic2 == INSTANCE DynamicFarm WITH
  Start <- 0, Bound <- Bound2, mpc <- mpc2, to <- to2, spc <- spc2, offset <- offset2,
  size <- size2, iter <- iter2, runs <- runs2, merged <- merged2,
  followIN <- followIN2, partSize <- partSize2, killed <- killed2
Static2 == INSTANCE StaticFarm WITH
  Start <- 0, Bound <- Bound2, mpc <- mpc2, to <- to2, spc <- spc2, offset <- offset2,
  size <- size2, iter <- iter2, runs <- runs2, merged <- merged2, from <- from2
OldDynamic2 == INSTANCE OldDynamicFarm WITH
  Start <- 0, Bound <- Bound2, mpc <- mpc2, to <- to2, spc <- spc2, offset <- offset2,
  size <- size2, iter <- iter2, runs <- runs2, merged <- merged2,
  followIN <- followIN2, partSize <- partSize2, killed <- killed2
OldStatic2 == INSTANCE OldStaticFarm WITH
  Start <- 0, Bound <- Bound2, mpc <- mpc2, to <- to2, spc <- spc2, offset <- offset2,
  size <- size2, iter <- iter2, runs <- runs2, merged <- merged2,
  from <- from2, got <- got2

Slave == 1 .. W

Init ==
  /\ kind \in Programs
  /\ trapped = FALSE
  /\ Dynamic1!Init /\ OldStatic1!Init
  /\ Dynamic2!Init /\ OldStatic2!Init
  /\ sentTo = [s \in Slave |-> <<>>]
  /\ sentBy = [s \in Slave |-> <<>>]

-------------------------------------------------------------------------------
(***************************************************************************)
(* The block each process is in.  A slave leaves when it is told to stop,  *)
(* the master when it has told all slaves; neither waits for anybody.      *)
(***************************************************************************)
MasterBlockEarly ==       \* the master leaves when it has seeded the slaves
  IF mpc1 \in {"serve", "done"} THEN 2 ELSE 1
MasterBlock == IF mpc1 = "done" THEN 2 ELSE 1

SlaveBlockEarly(s) ==     \* a slave leaves with its first result
  IF spc1[s] = "done" \/ (spc1[s] = "recv" /\ size1[s] > 0) THEN 2 ELSE 1
SlaveBlock(s) == IF spc1[s] = "done" THEN 2 ELSE 1

(***************************************************************************)
(* Keep count of the blocks messages come from when ch becomes ch'.        *)
(***************************************************************************)
Track(sent, ch, b) ==
  [s \in Slave |->
     LET more == Len(ch'[s]) - Len(ch[s])
     IN  IF more < 0 THEN SubSeq(sent[s], 1 - more, Len(sent[s]))
         ELSE sent[s] \o [k \in 1 .. more |-> b]]

(***************************************************************************)
(* A step of the master in the block it is in.                             *)
(***************************************************************************)
Master1 ==
  /\ MasterBlock = 1
  /\ \/ kind[1] = "dynamic" /\ Dynamic1!Master /\ UNCHANGED <<from1, got1, toSelf>>
     \/ kind[1] = "static" /\ Static1!Master /\ UNCHANGED <<farm1, got1, toSelf>>
     \/ kind[1] = "oldDynamic" /\ OldDynamic1!Master /\ UNCHANGED <<from1, got1, toSelf>>
     \/ kind[1] = "oldStatic" /\ OldStatic1!Master /\ UNCHANGED farm1
  /\ UNCHANGED <<block2, trapped>>

(***************************************************************************)
(* The serving loop of the old style receives from any source: also the    *)
(* stop message that a static block made rank 0 send to itself.  It then   *)
(* waits for the size of the chunk from the same source.                   *)
(***************************************************************************)
TakeOwnStop ==
  /\ kind[2] = "oldDynamic"
  /\ mpc2 = "serve"
  /\ toSelf # <<>>
  /\ toSelf' = Tail(toSelf)
  /\ trapped' = TRUE
  /\ UNCHANGED <<toSlave, toMaster, block2>>

Master2 ==
  /\ MasterBlock = 2
  /\ ~trapped
  /\ \/ /\ \/ kind[2] = "dynamic" /\ Dynamic2!Master /\ UNCHANGED <<from2, got2, toSelf>>
           \/ kind[2] = "static" /\ Static2!Master /\ UNCHANGED <<farm2, got2, toSelf>>
           \/ kind[2] = "oldDynamic" /\ OldDynamic2!Master /\ UNCHANGED <<from2, got2, toSelf>>
           \/ kind[2] = "oldStatic" /\ OldStatic2!Master /\ UNCHANGED farm2
        /\ UNCHANGED trapped
     \/ TakeOwnStop
  /\ UNCHANGED block1

Master ==
  /\ Master1 \/ Master2
  /\ sentTo' = Track(sentTo, toSlave, MasterBlock)
  /\ sentBy' = Track(sentBy, toMaster, MasterBlock)
  /\ UNCHANGED kind

(***************************************************************************)
(* A step of a slave in the block it is in.                                *)
(***************************************************************************)
Slave1(s) ==
  /\ SlaveBlock(s) = 1
  /\ \/ kind[1] = "dynamic" /\ Dynamic1!SlaveStep(s) /\ UNCHANGED <<from1, got1, toSelf>>
     \/ kind[1] = "static" /\ Static1!SlaveStep(s) /\ UNCHANGED <<farm1, got1, toSelf>>
     \/ kind[1] = "oldDynamic" /\ OldDynamic1!SlaveStep(s) /\ UNCHANGED <<from1, got1, toSelf>>
     \/ kind[1] = "oldStatic" /\ OldStatic1!SlaveStep(s) /\ UNCHANGED farm1
  /\ UNCHANGED block2

Slave2(s) ==
  /\ SlaveBlock(s) = 2
  /\ \/ kind[2] = "dynamic" /\ Dynamic2!SlaveStep(s) /\ UNCHANGED <<from2, got2, toSelf>>
     \/ kind[2] = "static" /\ Static2!SlaveStep(s) /\ UNCHANGED <<farm2, got2, toSelf>>
     \/ kind[2] = "oldDynamic" /\ OldDynamic2!SlaveStep(s) /\ UNCHANGED <<from2, got2, toSelf>>
     \/ kind[2] = "oldStatic" /\ OldStatic2!SlaveStep(s) /\ UNCHANGED farm2
  /\ UNCHANGED block1

SlaveStep(s) ==
  /\ Slave1(s) \/ Slave2(s)
  /\ sentTo' = Track(sentTo, toSlave, SlaveBlock(s))
  /\ sentBy' = Track(sentBy, toMaster, SlaveBlock(s))
  /\ UNCHANGED <<kind, trapped>>

Over == mpc2 = "done" /\ \A s \in Slave : spc2[s] = "done"
Finished == Over /\ UNCHANGED vars

Next == Master \/ (\E s \in Slave : SlaveStep(s)) \/ Finished

Spec == Init /\ [][Next]_vars

(***************************************************************************)
(* As in one block: every process keeps running.                           *)
(***************************************************************************)
FairSpec ==
  /\ Spec
  /\ WF_vars(Master)
  /\ \A s \in Slave : WF_vars(SlaveStep(s))

-------------------------------------------------------------------------------
(***************************************************************************)
(* A message is received in the block that sent it, by slaves and by the   *)
(* master, although no process waits for the others between the blocks and *)
(* most receives name neither source nor tag.                              *)
(***************************************************************************)
Taken(sent, ch, s) ==
  {sent[s][k] : k \in 1 .. (Len(ch[s]) - Len(ch'[s]))}

TakesOwn ==
  \A s \in Slave : /\ Taken(sentBy, toMaster, s) \subseteq {MasterBlock}
                  /\ Taken(sentTo, toSlave, s) \subseteq {SlaveBlock(s)}

RightBlock == [][TakesOwn]_vars

(***************************************************************************)
(* Without a barrier in the code, the blocks still are two parallel loops  *)
(* one after the other: no iteration of the second runs, on any slave,     *)
(* before all results of the first are with the master.                    *)
(***************************************************************************)
InOrder == INSTANCE ForSequence WITH
  Iteration1 <- 0 .. (Bound1 - 1), visible1 <- merged1, joined1 <- (mpc1 = "done"),
  Iteration2 <- 0 .. (Bound2 - 1), visible2 <- merged2, joined2 <- (mpc2 = "done")

ImplementsForSequence == InOrder!SequenceSpec

(***************************************************************************)
(* Both blocks end, for all processes.  The stop message of rank 0 to      *)
(* itself is the only message of one block that can keep the other from    *)
(* ending.                                                                 *)
(***************************************************************************)
EndsUnlessTrapped == <>(Over \/ trapped)
================================================================================
