------------------------------- MODULE TaskFarm -------------------------------
(***************************************************************************)
(* What the two masters of a dynamically scheduled block share: their      *)
(* variables, how they hand out chunks and dismiss slaves, and how the     *)
(* slaves take their chunks.  DynamicFarm and OldDynamicFarm extend this   *)
(* module.                                                                 *)
(***************************************************************************)
EXTENDS Block

CONSTANTS
  Fixed,    \* div.data has a second line: the chunk size is given
  Number    \* the last number in div.data

ASSUME FarmAssumption ==
  /\ Fixed \in BOOLEAN
  /\ Number \in Nat \ {0}

InitPart == ChunkSize(Start, Bound, W, Fixed, Number)

VARIABLES
  followIN,  \* first iteration not handed out yet
  partSize,  \* size of the next chunk
  killed     \* number of slaves told to stop

farmVars == <<followIN, partSize, killed>>
vars == <<blockVars, farmVars>>

Init ==
  /\ BlockInit
  /\ followIN = Start
  /\ partSize = InitPart
  /\ killed = 0

-------------------------------------------------------------------------------
(***************************************************************************)
(* Scheduling: give slave s the next n iterations, or the order to stop.   *)
(***************************************************************************)
HandOutShort(s, n) ==
  /\ toSlave' = Send(toSlave, s, Chunk("ATAG", followIN, n))
  /\ partSize' = n
  /\ followIN' = followIN + n - 1
  /\ UNCHANGED killed

HandOut(s, n) ==
  /\ toSlave' = Send(toSlave, s, Chunk("ATAG", followIN, n))
  /\ partSize' = n
  /\ followIN' = followIN + n
  /\ UNCHANGED killed

GrantFull(s, p) ==
  /\ followIN + p < Bound
  /\ HandOut(s, p)

DismissUncounted(s, p) ==
  /\ toSlave' = Send(toSlave, s, Stop)
  /\ partSize' = p
  /\ followIN' = followIN + p
  /\ UNCHANGED killed

Dismiss(s, p) ==
  /\ toSlave' = Send(toSlave, s, Stop)
  /\ partSize' = p
  /\ followIN' = followIN + p
  /\ killed' = killed + 1

(***************************************************************************)
(* The serving loops dismiss only when the next chunk would end past the   *)
(* bound; otherwise they send nothing and still advance followIN.          *)
(***************************************************************************)
DismissIfPast(s, p) ==
  IF followIN + p > Bound
  THEN Dismiss(s, p)
  ELSE /\ partSize' = p
       /\ followIN' = followIN + p
       /\ UNCHANGED <<toSlave, killed>>

AllKilledButOne(k) == k = W - 1
AllKilled(k) == k = W

(***************************************************************************)
(* The slave receives where its chunk begins and how long it is.           *)
(***************************************************************************)
TakeChunkOldSize(s) == SlaveStart(s, Head(toSlave[s]).offset, size[s])

TakeChunk(s) == SlaveStart(s, Head(toSlave[s]).offset, Head(toSlave[s]).size)

Finished == Over /\ UNCHANGED vars

-------------------------------------------------------------------------------
(***************************************************************************)
(* Where every variable may range.                                         *)
(***************************************************************************)
TypeOK ==
  /\ BlockTypeOK
  /\ followIN \in Int
  /\ partSize \in Nat
  /\ killed \in Nat

(***************************************************************************)
(* Every iteration below followIN is in exactly one place, with one slave  *)
(* or with the master, and none at or above followIN is anywhere: chunks   *)
(* never overlap, leave no gap and are never lost.                         *)
(***************************************************************************)
OneHolder ==
  \A i \in Iteration :
    merged[i] + Cardinality(Holders(i)) = IF i < followIN THEN 1 ELSE 0

(***************************************************************************)
(* killed, the counter that ends the serving loop, counts the slaves that  *)
(* have been told to stop, and a slave is told once.                       *)
(***************************************************************************)
KilledIsDismissed == killed = Cardinality({s \in Slave : Dismissed(s)})
===============================================================================
