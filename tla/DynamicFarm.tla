----------------------------- MODULE DynamicFarm -----------------------------
(***************************************************************************)
(* A dynamically scheduled block in the second style of OMP2MPI (the       *)
(* branch of pragma_postorder taken when _oldMPIStyle is 0; the generated  *)
(* programs under allSystemExamples/mpi have this form).  The master seeds *)
(* every slave with a chunk, then gives whoever answers the next one, and  *)
(* serves the reads of single elements of its arrays that the slaves make  *)
(* in the middle of an iteration.                                          *)
(***************************************************************************)
EXTENDS TaskFarm

CONSTANT NumIn    \* number of variables that slaves may read remotely

ASSUME NumInAssumption == NumIn \in Nat

-------------------------------------------------------------------------------
(***************************************************************************)
(* The scheduling code, printed once for the seeding loop and once for the *)
(* serving loop: a full chunk, else the rest, else the order to stop.      *)
(***************************************************************************)
GrantRestUnchecked(s, p) ==
  /\ ~(followIN + p < Bound)
  /\ HandOut(s, Bound - followIN)

GrantWhole(s, p) ==
  /\ ~(followIN + p < Bound)
  /\ Bound - followIN > 0
  /\ HandOut(s, p)

GrantRest(s, p) ==
  /\ ~(followIN + p < Bound)
  /\ Bound - followIN > 0
  /\ HandOut(s, Bound - followIN)

NothingLeft(p) == ~(followIN + p < Bound) /\ ~(Bound - followIN > 0)

(***************************************************************************)
(* for (to = 1; to < size; ++to)                                           *)
(***************************************************************************)
Seed ==
  /\ mpc = "seed"
  /\ to \in Slave
  /\ \/ GrantFull(to, partSize)
     \/ GrantRest(to, partSize)
     \/ NothingLeft(partSize) /\ Dismiss(to, partSize)
  /\ to' = to + 1
  /\ UNCHANGED <<mpc, slaveVars, toMaster, runs, merged>>

EndSeed ==
  /\ mpc = "seed"
  /\ to = W + 1
  /\ mpc' = IF AllKilled(killed) THEN "done" ELSE "serve"
  /\ UNCHANGED <<to, slaveVars, toSlave, toMaster, runs, merged, farmVars>>

(***************************************************************************)
(* while (killed != size - 1): a finished chunk.  The size the slave sent  *)
(* back is the one that the next grant uses.                               *)
(***************************************************************************)
ServeChunk(s) ==
  /\ mpc = "serve"
  /\ Arrived(toMaster, s, "ATAG")
  /\ LET m == Head(toMaster[s])
     IN  /\ merged' = Bump(merged, Slice(m.offset, m.size))
         /\ \/ GrantFull(s, m.size)
            \/ GrantRest(s, m.size)
            \/ NothingLeft(m.size) /\ DismissIfPast(s, m.size)
  /\ toMaster' = Drop(toMaster, s)
  /\ mpc' = IF AllKilled(killed') THEN "done" ELSE "serve"
  /\ UNCHANGED <<to, slaveVars, runs>>

(***************************************************************************)
(* while (killed != size - 1): a slave wants an element of one of the      *)
(* variables (handleMemory).  Its index has overwritten partSize.          *)
(***************************************************************************)
ServeRead(s) ==
  /\ mpc = "serve"
  /\ AnswerRead(s)
  /\ partSize' = Head(toMaster[s]).size
  /\ UNCHANGED <<followIN, killed>>

Master == Seed \/ EndSeed \/ \E s \in Slave : ServeChunk(s) \/ ServeRead(s)

Answer(s) == SlaveReply(s, Send(toMaster, s, Result(s, "ATAG")))

SlaveStep(s) ==
  /\ \/ TakeChunk(s) \/ SlaveIterate(s) \/ Answer(s) \/ SlaveStop(s)
     \/ SlaveRead(s, 0 .. (NumIn - 1)) \/ SlaveGot(s)
  /\ UNCHANGED farmVars

Next == Master \/ (\E s \in Slave : SlaveStep(s)) \/ Finished

Spec == Init /\ [][Next]_vars

(***************************************************************************)
(* Every process of an MPI program keeps running; nothing is assumed about *)
(* which slave an MPI_ANY_SOURCE receive picks.                            *)
(***************************************************************************)
FairSpec ==
  /\ Spec
  /\ WF_vars(Master)
  /\ \A s \in Slave : WF_vars(SlaveStep(s))

-------------------------------------------------------------------------------
(***************************************************************************)
(* followIN goes past the end by at most one chunk for every dismissal:    *)
(* it is an int, so this is how close to INT_MAX the bound of the loop may *)
(* be.                                                                     *)
(***************************************************************************)
Overshoot ==
  followIN <= (IF Start < Bound THEN Bound ELSE Start) + killed * InitPart

(***************************************************************************)
(* A slave that asks for an element gets it, although the master picks the *)
(* message it answers next from any source.                                *)
(***************************************************************************)
ReadAnswered == \A s \in Slave : (spc[s] = "await") ~> (spc[s] = "got")
-------------------------------------------------------------------------------
(***************************************************************************)
(* The inductive invariant behind the properties of the block (proved in   *)
(* DynamicFarmProofs).  A chunk that is about is never longer than the     *)
(* first one, lies inside the loop and is empty only if all chunks are;    *)
(* partSize is such a size while the seeding loop runs, but not in the     *)
(* serving loop, where the index of a read overwrites it.                  *)
(***************************************************************************)
SizeOK(n) == n <= InitPart /\ (n = 0 <=> InitPart = 0)

ChunkOK(o, n) == SizeOK(n) /\ Start <= o /\ o + n <= Bound

SlaveChunkOK(s) ==
  /\ Granted(s) => ChunkOK(Head(toSlave[s]).offset, Head(toSlave[s]).size)
  /\ Working(s) => /\ ChunkOK(offset[s], size[s])
                   /\ offset[s] <= iter[s]
                   /\ iter[s] <= offset[s] + size[s]
  /\ Returned(s) => ChunkOK(Head(toMaster[s]).offset, Head(toMaster[s]).size)

MasterOK ==
  /\ mpc = "seed" => SizeOK(partSize)
  /\ mpc # "seed" => to = W + 1
  /\ mpc = "done" => killed = W
  /\ Start <= followIN
  /\ InitPart = 0 => followIN < Bound
  /\ (\E s \in Slave : Dismissed(s)) => Bound <= followIN

(***************************************************************************)
(* An iteration waits (at or above followIN), is held by one slave, or its *)
(* result is merged; its body has run if it is merged or the slave that    *)
(* holds it is past it.                                                    *)
(***************************************************************************)
Ran(s, i) ==
  \/ Working(s) /\ i \in offset[s] .. (iter[s] - 1)
  \/ Returned(s) /\ Covers(Head(toMaster[s]), i)

OnePlace(i) ==
  /\ \A s, t \in Slave : Holds(s, i) /\ Holds(t, i) => s = t
  /\ merged[i] \in {0, 1}
  /\ merged[i] = 1 => \A s \in Slave : ~Holds(s, i)
  /\ i < followIN <=> (merged[i] = 1 \/ \E s \in Slave : Holds(s, i))

RanOnce(i) ==
  runs[i] = IF merged[i] = 1 \/ (\E s \in Slave : Ran(s, i)) THEN 1 ELSE 0

Histories == runs \in [Iteration -> Nat] /\ merged \in [Iteration -> Nat]

Inductive ==
  /\ TypeOK
  /\ Lockstep
  /\ MasterOK
  /\ \A s \in Slave : SlaveChunkOK(s)
  /\ Histories
  /\ \A i \in Iteration : OnePlace(i) /\ RanOnce(i)
  /\ KilledIsDismissed
  /\ Overshoot
===============================================================================
