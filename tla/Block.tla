--------------------------------- MODULE Block ---------------------------------
(***************************************************************************)
(* What every MPI block that OMP2MPI prints in place of a "parallel for"   *)
(* has in common: the channels between rank 0 (the master) and the other   *)
(* ranks (the slaves), the loop every slave runs, and the properties the   *)
(* block should keep.  The masters are in TaskFarm (dynamic schedules) and *)
(* StaticFarm, which extend this module.                                   *)
(*                                                                         *)
(* The sends that follow one another without a receive between them        *)
(* (offset, partSize and the array slices) are one message: the receiver   *)
(* also reads them one after another from that sender, and Lockstep below  *)
(* says that nothing else can be in the channel.                           *)
(***************************************************************************)
EXTENDS Messages, FiniteSets, Partition

CONSTANTS
  W,        \* number of slaves: the MPI size minus one
  Start,    \* initValue: first value of the induction variable
  Bound     \* conditionToWork: the loop runs while i < Bound

ASSUME BlockAssumption ==
  /\ W \in Nat \ {0}
  /\ Start \in Int
  /\ Bound \in Int

Slave == 1 .. W
Iteration == Start .. (Bound - 1)

VARIABLES
  mpc,       \* master: "seed" (the first for), "serve" (the second loop), "done"
  to,        \* master: the slave the first loop serves next
  toSlave,   \* toSlave[s]: messages from the master to s, oldest first
  toMaster,  \* toMaster[s]: messages from s to the master, oldest first
  spc,       \* slave: "recv", "run", "await", "got" or "done"
  offset,    \* slave: first iteration of its chunk
  size,      \* slave: partSize in the slave's memory, the size of its chunk
  iter,      \* slave: the induction variable
  runs,      \* history: how often the body ran, for every iteration
  merged     \* history: how often the master took in the iteration's result

slaveVars == <<spc, offset, size, iter>>
blockVars == <<mpc, to, slaveVars, toSlave, toMaster, runs, merged>>

(***************************************************************************)
(* Messages.  A slave answers with ATAG, or with tag 0, which is FTAG, in  *)
(* the old style.  The first integer of a message to the master lands in   *)
(* its variable partSize whatever the tag says, so "size" is either the    *)
(* length of a finished chunk or the index of the variable that the slave  *)
(* wants to read (RTAG).  "offset" is where the slices that come with a    *)
(* chunk begin in the sender's arrays.                                     *)
(***************************************************************************)
Tag == {"ATAG", "RTAG", "FTAG"}
Message == [tag : Tag, offset : Int, size : Nat]

Chunk(tag, o, n) == [tag |-> tag, offset |-> o, size |-> n]
Stop == Chunk("FTAG", 0, 0)
Element(v) == Chunk("RTAG", 0, v)

BlockInit ==
  /\ mpc = "seed"
  /\ to = 1
  /\ toSlave = [s \in Slave |-> <<>>]
  /\ toMaster = [s \in Slave |-> <<>>]
  /\ spc = [s \in Slave |-> "recv"]
  /\ offset = [s \in Slave |-> 0]
  /\ size = [s \in Slave |-> 0]
  /\ iter = [s \in Slave |-> 0]
  /\ runs = [i \in Iteration |-> 0]
  /\ merged = [i \in Iteration |-> 0]

-------------------------------------------------------------------------------
(***************************************************************************)
(* The slave: while(1) { receive; a chunk: run it and send it back; the    *)
(* stop message: break }.  Where the chunk begins (o) and how long it is   *)
(* (n) is in the message or worked out by the slave.                       *)
(***************************************************************************)
SlaveStart(s, o, n) ==
  /\ spc[s] = "recv"
  /\ Arrived(toSlave, s, "ATAG")
  /\ offset' = [offset EXCEPT ![s] = o]
  /\ size' = [size EXCEPT ![s] = n]
  /\ iter' = [iter EXCEPT ![s] = o]
  /\ spc' = [spc EXCEPT ![s] = "run"]
  /\ toSlave' = Drop(toSlave, s)
  /\ UNCHANGED <<mpc, to, toMaster, runs, merged>>

InChunkShort(s) == iter[s] < offset[s] + size[s] - 1
InChunkLong(s) == iter[s] <= offset[s] + size[s]
InChunk(s) == iter[s] < offset[s] + size[s]

SlaveIterate(s) ==
  /\ spc[s] \in {"run", "got"}
  /\ InChunk(s)
  /\ runs' = Bump(runs, {iter[s]})
  /\ iter' = [iter EXCEPT ![s] = @ + 1]
  /\ spc' = [spc EXCEPT ![s] = "run"]
  /\ UNCHANGED <<mpc, to, toSlave, toMaster, offset, size, merged>>

(***************************************************************************)
(* The answer: the size and the place of the chunk with the results, and   *)
(* whatever else the kind of block sends after it.                         *)
(***************************************************************************)
Result(s, tag) == Chunk(tag, offset[s], size[s])

SlaveReply(s, answers) ==
  /\ spc[s] = "run"
  /\ ~InChunk(s)
  /\ toMaster' = answers
  /\ spc' = [spc EXCEPT ![s] = "recv"]
  /\ UNCHANGED <<mpc, to, toSlave, offset, size, iter, runs, merged>>

SlaveStop(s) ==
  /\ spc[s] = "recv"
  /\ Arrived(toSlave, s, "FTAG")
  /\ spc' = [spc EXCEPT ![s] = "done"]
  /\ toSlave' = Drop(toSlave, s)
  /\ UNCHANGED <<mpc, to, toMaster, offset, size, iter, runs, merged>>

-------------------------------------------------------------------------------
(***************************************************************************)
(* An iteration may need an element, of a variable in V, that was not sent *)
(* with its chunk: the slave asks (RTAG) and waits.                        *)
(***************************************************************************)
SlaveReadOn(s, V) ==
  /\ spc[s] = "run"
  /\ InChunk(s)
  /\ \E v \in V : toMaster' = Send(toMaster, s, Element(v))
  /\ UNCHANGED <<mpc, to, toSlave, slaveVars, runs, merged>>

SlaveRead(s, V) ==
  /\ spc[s] = "run"
  /\ InChunk(s)
  /\ \E v \in V : toMaster' = Send(toMaster, s, Element(v))
  /\ spc' = [spc EXCEPT ![s] = "await"]
  /\ UNCHANGED <<mpc, to, toSlave, offset, size, iter, runs, merged>>

SlaveGot(s) ==
  /\ spc[s] = "await"
  /\ Arrived(toSlave, s, "RTAG")
  /\ spc' = [spc EXCEPT ![s] = "got"]
  /\ toSlave' = Drop(toSlave, s)
  /\ UNCHANGED <<mpc, to, toMaster, offset, size, iter, runs, merged>>

(***************************************************************************)
(* The master's answer (handleMemory).                                     *)
(***************************************************************************)
AnswerReadLast(s) ==    \* put off, with MPI_Iprobe, while other slaves are at work
  /\ Arrived(toMaster, s, "RTAG")
  /\ IF \E t \in Slave \ {s} : spc[t] \in {"run", "await", "got"}
     THEN UNCHANGED <<toSlave, toMaster>>
     ELSE /\ toSlave' = Send(toSlave, s, Element(Head(toMaster[s]).size))
          /\ toMaster' = Drop(toMaster, s)
  /\ UNCHANGED <<mpc, to, slaveVars, runs, merged>>

AnswerRead(s) ==
  /\ Arrived(toMaster, s, "RTAG")
  /\ toSlave' = Send(toSlave, s, Element(Head(toMaster[s]).size))
  /\ toMaster' = Drop(toMaster, s)
  /\ UNCHANGED <<mpc, to, slaveVars, runs, merged>>

(***************************************************************************)
(* The block is over when every process has left it.                       *)
(***************************************************************************)
Over ==
  /\ mpc = "done"
  /\ \A s \in Slave : spc[s] = "done"

-------------------------------------------------------------------------------
BlockTypeOK ==
  /\ mpc \in {"seed", "serve", "done"}
  /\ to \in 1 .. (W + 1)
  /\ toSlave \in [Slave -> Seq(Message)]
  /\ toMaster \in [Slave -> Seq(Message)]
  /\ spc \in [Slave -> {"recv", "run", "await", "got", "done"}]
  /\ offset \in [Slave -> Int]
  /\ size \in [Slave -> Nat]
  /\ iter \in [Slave -> Int]
  /\ Counter(runs)
  /\ Counter(merged)

(***************************************************************************)
(* No value of the induction variable outside the loop is ever run or      *)
(* sent back, whatever the number of slaves and the chunk size.            *)
(***************************************************************************)
NothingOutside == DOMAIN runs = Iteration /\ DOMAIN merged = Iteration

(***************************************************************************)
(* A slave the seeding loop has reached holds exactly one thing: a message *)
(* on its way to it, control, or a message on its way back.  This is what  *)
(* makes receiving offset, partSize and the slices one after another, from *)
(* MPI_ANY_TAG, sound, and why a send that blocks until the receiver is    *)
(* there would not deadlock either.                                        *)
(***************************************************************************)
Idle(s) == toSlave[s] = <<>> /\ toMaster[s] = <<>>

SentTo(s, tag) ==
  Len(toSlave[s]) = 1 /\ Arrived(toSlave, s, tag) /\ toMaster[s] = <<>>

Asks(s) == Arrived(toMaster, s, "RTAG")
Replied(s) == toMaster[s] # <<>> /\ ~Asks(s)

SentBy(s) == Len(toMaster[s]) = 1 /\ toSlave[s] = <<>>

Unseeded(s) == mpc = "seed" /\ s >= to

SlaveLockstep(s) ==
  /\ spc[s] = "recv" =>
       IF Unseeded(s) THEN Idle(s)
       ELSE \/ SentTo(s, "ATAG")
            \/ SentTo(s, "FTAG")
            \/ SentBy(s) /\ Replied(s)
  /\ spc[s] \in {"run", "got"} => Idle(s) /\ ~Unseeded(s)
  /\ spc[s] = "await" => ~Unseeded(s) /\ (SentTo(s, "RTAG") \/ (SentBy(s) /\ Asks(s)))
  /\ spc[s] = "done" => Idle(s) /\ ~Unseeded(s)

Lockstep == \A s \in Slave : SlaveLockstep(s)

(***************************************************************************)
(* The chunk that slave s is responsible for: on its way to s, being run   *)
(* by s, or on its way back.                                               *)
(***************************************************************************)
Granted(s) == spc[s] = "recv" /\ Arrived(toSlave, s, "ATAG")
Working(s) == spc[s] \in {"run", "await", "got"}
Returned(s) == spc[s] = "recv" /\ Replied(s)

Covers(m, i) == i \in Slice(m.offset, m.size)

Holds(s, i) ==
  \/ Granted(s) /\ Covers(Head(toSlave[s]), i)
  \/ Working(s) /\ i \in Slice(offset[s], size[s])
  \/ Returned(s) /\ Covers(Head(toMaster[s]), i)

Holders(i) == {s \in Slave : Holds(s, i)}

Dismissed(s) == Arrived(toSlave, s, "FTAG") \/ spc[s] = "done"

(***************************************************************************)
(* When the master goes on behind the block nothing is left for it to      *)
(* receive, so that no message of this block reaches a later one, and all  *)
(* slaves have their stop message, so that each will leave the block.      *)
(***************************************************************************)
CleanExit ==
  mpc = "done" => \A s \in Slave : toMaster[s] = <<>> /\ Dismissed(s)

(***************************************************************************)
(* When the master goes on, every iteration has run once and its result    *)
(* has been taken in once.                                                 *)
(***************************************************************************)
ExactlyOnce ==
  mpc = "done" => \A i \in Iteration : runs[i] = 1 /\ merged[i] = 1

(***************************************************************************)
(* At every step, not only at the end, the farm is a parallel loop.        *)
(***************************************************************************)
For == INSTANCE ParallelFor WITH visible <- merged, joined <- (mpc = "done")

ImplementsParallelFor == For!ForSpec

(***************************************************************************)
(* The block ends, for all processes.                                      *)
(***************************************************************************)
Termination == <>Over
===============================================================================
