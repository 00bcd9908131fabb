---------------------------- MODULE OldDynamicFarm ----------------------------
(***************************************************************************)
(* A dynamically scheduled block in the first style of OMP2MPI             *)
(* (useOldStyle, called when _oldMPIStyle is 1, as the constructor of      *)
(* TransPhase sets it).  The seeding loop does not look at the bound, the  *)
(* rest is granted only if it is shorter than a chunk, the serving loop    *)
(* looks at no tag, and slaves have no remote reads.                       *)
(***************************************************************************)
EXTENDS TaskFarm

(***************************************************************************)
(* for (to = 1; to < size; ++to)                                           *)
(***************************************************************************)
Seed ==
  /\ mpc = "seed"
  /\ to \in Slave
  /\ HandOut(to, partSize)
  /\ to' = to + 1
  /\ UNCHANGED <<mpc, slaveVars, toMaster, runs, merged>>

EndSeed ==
  /\ mpc = "seed"
  /\ to = W + 1
  /\ mpc' = "serve"
  /\ UNCHANGED <<to, slaveVars, toSlave, toMaster, runs, merged, farmVars>>

-------------------------------------------------------------------------------
RestIsShort(p) ==
  /\ ~(followIN + p < Bound)
  /\ Bound - followIN < p
  /\ Bound - followIN > 0

GrantRest(s, p) == RestIsShort(p) /\ HandOut(s, Bound - followIN)

NoGrant(p) == ~(followIN + p < Bound) /\ ~RestIsShort(p)

(***************************************************************************)
(* while (1): a finished chunk, from any source and with any tag.          *)
(***************************************************************************)
ServeChunk(s) ==
  /\ mpc = "serve"
  /\ toMaster[s] # <<>>
  /\ LET m == Head(toMaster[s])
     IN  /\ merged' = Bump(merged, Slice(m.offset, m.size))
         /\ \/ GrantFull(s, m.size)
            \/ GrantRest(s, m.size)
            \/ NoGrant(m.size) /\ DismissIfPast(s, m.size)
  /\ toMaster' = Drop(toMaster, s)
  /\ mpc' = IF AllKilled(killed') THEN "done" ELSE "serve"
  /\ UNCHANGED <<to, slaveVars, runs>>

Master == Seed \/ EndSeed \/ \E s \in Slave : ServeChunk(s)

Answer(s) == SlaveReply(s, Send(toMaster, s, Result(s, "FTAG")))

SlaveStep(s) ==
  /\ TakeChunk(s) \/ SlaveIterate(s) \/ Answer(s) \/ SlaveStop(s)
  /\ UNCHANGED farmVars

Next == Master \/ (\E s \in Slave : SlaveStep(s)) \/ Finished

Spec == Init /\ [][Next]_vars

FairSpec ==
  /\ Spec
  /\ WF_vars(Master)
  /\ \A s \in Slave : WF_vars(SlaveStep(s))
===============================================================================
