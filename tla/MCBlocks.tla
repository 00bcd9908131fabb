-------------------------------- MODULE MCBlocks --------------------------------
(***************************************************************************)
(* Blocks on one loop: the dynamic block of the old style, the static      *)
(* block of the old style that sends one variable to every slave, the one  *)
(* that sends several (wide), whose slaves never leave it, and the dynamic *)
(* block of the current style with so few chunks that its seeding loop     *)
(* dismisses a slave.                                                      *)
(***************************************************************************)
EXTENDS Block

CONSTANTS Fixed, Number

ASSUME ChunksAssumption == Fixed \in BOOLEAN /\ Number \in Nat \ {0}

VARIABLES which, followIN, partSize, killed, from, toSelf, got

farmVars == <<followIN, partSize, killed>>
staticVars == <<from, toSelf, got>>
allVars == <<which, blockVars, farmVars, staticVars>>

Dynamic == INSTANCE OldDynamicFarm
Few == INSTANCE DynamicFarm WITH Fixed <- TRUE, Number <- Bound - 4, NumIn <- 1
Static == INSTANCE OldStaticFarm WITH Inputs <- 1, Outputs <- 2, Reduced <- 0
Wide == INSTANCE OldStaticFarm WITH Inputs <- 2, Outputs <- 1, Reduced <- 1

MCInit ==
  /\ Static!Init
  /\ \/ which \in {"dynamic", "static", "wide"} /\ Dynamic!Init
     \/ which = "few" /\ Few!Init

MCMaster ==
  /\ \/ which = "few" /\ Few!Master /\ UNCHANGED staticVars
     \/ which = "dynamic" /\ Dynamic!Master /\ UNCHANGED staticVars
     \/ which = "static" /\ Static!Master /\ UNCHANGED farmVars
     \/ which = "wide" /\ Wide!Master /\ UNCHANGED farmVars
  /\ UNCHANGED which

MCSlaveStep(s) ==
  /\ \/ which = "few" /\ Few!SlaveStep(s) /\ UNCHANGED staticVars
     \/ which = "dynamic" /\ Dynamic!SlaveStep(s) /\ UNCHANGED staticVars
     \/ which = "static" /\ Static!SlaveStep(s) /\ UNCHANGED farmVars
     \/ which = "wide" /\ Wide!SlaveStep(s) /\ UNCHANGED farmVars
  /\ UNCHANGED which

MCFinished == Over /\ UNCHANGED allVars

MCNext == MCMaster \/ (\E s \in Slave : MCSlaveStep(s)) \/ MCFinished

MCSpec == MCInit /\ [][MCNext]_allVars

MCFairSpec ==
  /\ MCSpec
  /\ WF_allVars(MCMaster)
  /\ \A s \in Slave : WF_allVars(MCSlaveStep(s))

-------------------------------------------------------------------------------
(***************************************************************************)
(* The dynamic blocks give every iteration to exactly one slave or to the  *)
(* master (OneHolder of TaskFarm), the one of the old style when the rest  *)
(* is shorter than a chunk.                                                *)
(***************************************************************************)
DynamicOneHolder ==
  /\ which = "dynamic" => Dynamic!OneHolder
  /\ which = "few" => Few!OneHolder

(***************************************************************************)
(* What a slave of a static block runs lies where the master stores it     *)
(* (SharesAgree of OldStaticFarm).                                         *)
(***************************************************************************)
StaticSharesAgree == which \in {"static", "wide"} => Static!SharesAgree

(***************************************************************************)
(* Every process leaves the block; only the slaves of the wide block do    *)
(* not, which wait for a second stop message, but its master does and has  *)
(* all results (ImplementsParallelFor says so at every step of all four).  *)
(***************************************************************************)
EndsUnlessWide == <>(mpc = "done" /\ (Over \/ which = "wide"))
===============================================================================
