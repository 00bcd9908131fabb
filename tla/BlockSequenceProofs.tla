-------------------------- MODULE BlockSequenceProofs --------------------------
(***************************************************************************)
(* Two blocks one after the other need no barrier between them: every      *)
(* message is received in the block that sent it, and the blocks are two   *)
(* parallel loops one after the other.                                     *)
(*                                                                         *)
(* While the master is in the first block, the second has not begun, and   *)
(* what is known of one block alone holds of the first.  When the master   *)
(* leaves it, all that is left of the first block is a stop message at the *)
(* head of the channel of every slave that is still in it.                 *)
(***************************************************************************)
EXTENDS BlockSequence, SequenceTheorems, TLAPS

-------------------------------------------------------------------------------
(***************************************************************************)
(* Channels of messages of whatever kind.                                  *)
(***************************************************************************)
IsChannel(c) == \E S : c \in [Slave -> Seq(S)]

LEMMA WiderSeq ==
  ASSUME NEW S, NEW T, NEW q \in Seq(S)
  PROVE  q \in Seq(S \cup T)
OBVIOUS

LEMMA TailBehind ==
  ASSUME NEW S, NEW q \in Seq(S), q # <<>>, NEW r \in Seq(S)
  PROVE  /\ Tail(q) \in Seq(S) /\ Len(Tail(q)) = Len(q) - 1
         /\ q \o r \in Seq(S) /\ q \o r # <<>> /\ Len(q \o r) >= Len(q)
         /\ Head(q \o r) = Head(q)
         /\ Tail(q \o r) = Tail(q) \o r
<1>1. /\ Tail(q) \in Seq(S) /\ Len(Tail(q)) = Len(q) - 1
      /\ \A k \in 1 .. (Len(q) - 1) : Tail(q)[k] = q[k + 1]
      /\ Len(q) \in Nat /\ Len(q) > 0 /\ Len(r) \in Nat
  OBVIOUS
<1>2. /\ q \o r \in Seq(S) /\ Len(q \o r) = Len(q) + Len(r) /\ q \o r # <<>>
      /\ Head(q \o r) = Head(q)
  BY <1>1
<1>3. Tail(q \o r) \in Seq(S) /\ Tail(q) \o r \in Seq(S)
  BY <1>1, <1>2
<1>4. /\ Len(Tail(q \o r)) = Len(q) + Len(r) - 1
      /\ Len(Tail(q) \o r) = Len(q) + Len(r) - 1
  BY <1>1, <1>2
<1>5. ASSUME NEW k \in 1 .. (Len(q) + Len(r) - 1)
      PROVE  Tail(q \o r)[k] = (Tail(q) \o r)[k]
  <2>1. CASE k <= Len(q) - 1
    BY <1>1, <1>2, <2>1
  <2>2. CASE k > Len(q) - 1
    BY <1>1, <1>2, <2>2
  <2> QED
    BY <1>1, <2>1, <2>2
<1>6. Tail(q \o r) = Tail(q) \o r
  BY <1>3, <1>4, <1>5, SeqEqual
<1> QED
  BY <1>1, <1>2, <1>6

(***************************************************************************)
(* A channel on which a process only sends grows at its end.               *)
(***************************************************************************)
Longer(c, d) ==
  /\ IsChannel(d)
  /\ \A s \in Slave :
       /\ Len(c[s]) <= Len(d[s])
       /\ c[s] # <<>> => d[s] # <<>> /\ Head(d[s]) = Head(c[s])

LEMMA ConcatLonger ==
  ASSUME NEW c, IsChannel(c), NEW d, NEW s, NEW T, NEW r \in Seq(T),
         d = [c EXCEPT ![s] = @ \o r]
  PROVE  Longer(c, d)
<1> PICK S : c \in [Slave -> Seq(S)]
  BY DEF IsChannel
<1>1. \A t \in Slave : c[t] \in Seq(S \cup T)
  BY WiderSeq
<1>2. r \in Seq(S \cup T)
  BY WiderSeq
<1>3. ASSUME NEW t \in Slave
      PROVE  /\ d[t] = (IF t = s THEN c[t] \o r ELSE c[t])
             /\ d[t] \in Seq(S \cup T)
             /\ Len(c[t]) <= Len(d[t])
             /\ c[t] # <<>> => d[t] # <<>> /\ Head(d[t]) = Head(c[t])
  <2>1. d[t] = (IF t = s THEN c[t] \o r ELSE c[t])
    OBVIOUS
  <2> QED
    BY <1>1, <1>2, <2>1
<1>4. d = [t \in Slave |-> d[t]]
  OBVIOUS
<1> QED
  BY <1>3, <1>4 DEF Longer, IsChannel
LEMMA AppendLonger ==
  ASSUME NEW c, IsChannel(c), NEW d, NEW s, NEW m, d = [c EXCEPT ![s] = Append(@, m)]
  PROVE  Longer(c, d)
<1> PICK S : c \in [Slave -> Seq(S)]
  BY DEF IsChannel
<1>1. \A t \in Slave : c[t] \in Seq(S \cup {m})
  BY WiderSeq
<1>2. ASSUME NEW t \in Slave
      PROVE  /\ d[t] \in Seq(S \cup {m})
             /\ Len(c[t]) <= Len(d[t])
             /\ c[t] # <<>> => d[t] # <<>> /\ Head(d[t]) = Head(c[t])
  <2>1. d[t] = (IF t = s THEN Append(c[t], m) ELSE c[t])
    OBVIOUS
  <2> QED
    BY <1>1, <2>1
<1>3. d = [t \in Slave |-> d[t]]
  OBVIOUS
<1> QED
  BY <1>2, <1>3 DEF Longer, IsChannel

LEMMA AppendConcatLonger ==
  ASSUME NEW c, IsChannel(c), NEW d, NEW s, NEW m, NEW T, NEW r \in Seq(T),
         d = [c EXCEPT ![s] = Append(@, m) \o r]
  PROVE  Longer(c, d)
<1> DEFINE e == [c EXCEPT ![s] = Append(@, m)]
<1>1. Longer(c, e) /\ IsChannel(e)
  BY AppendLonger DEF Longer
<1>2. d = [e EXCEPT ![s] = @ \o r]
  <2> PICK S : c \in [Slave -> Seq(S)]
    BY DEF IsChannel
  <2> QED
    OBVIOUS
<1> HIDE DEF e
<1>3. Longer(e, d)
  BY <1>1, <1>2, ConcatLonger
<1>4. PICK S : c \in [Slave -> Seq(S)]
  BY DEF IsChannel
<1>5. PICK T1 : e \in [Slave -> Seq(T1)]
  BY <1>1 DEF IsChannel
<1>6. PICK T2 : d \in [Slave -> Seq(T2)]
  BY <1>3 DEF Longer, IsChannel
<1>7. \A t \in Slave : Len(c[t]) \in Nat /\ Len(e[t]) \in Nat /\ Len(d[t]) \in Nat
  BY <1>4, <1>5, <1>6
<1> QED
  BY <1>1, <1>3, <1>7 DEF Longer

LEMMA AppendAllLonger ==
  ASSUME NEW c, IsChannel(c), NEW d, NEW m, d = [s \in Slave |-> Append(c[s], m)]
  PROVE  Longer(c, d)
<1> PICK S : c \in [Slave -> Seq(S)]
  BY DEF IsChannel
<1>1. \A t \in Slave : c[t] \in Seq(S \cup {m})
  BY WiderSeq
<1>2. ASSUME NEW t \in Slave
      PROVE  /\ d[t] \in Seq(S \cup {m})
             /\ Len(c[t]) <= Len(d[t])
             /\ c[t] # <<>> => d[t] # <<>> /\ Head(d[t]) = Head(c[t])
  <2>1. d[t] = Append(c[t], m)
    OBVIOUS
  <2> QED
    BY <1>1, <2>1
<1> QED
  BY <1>2 DEF Longer, IsChannel

LEMMA SameLonger == ASSUME NEW c, IsChannel(c) PROVE Longer(c, c)
BY DEF Longer, IsChannel

LEMMA TailChannel ==
  ASSUME NEW c, IsChannel(c), NEW d, NEW s, c[s] # <<>>, d = [c EXCEPT ![s] = Tail(@)]
  PROVE  IsChannel(d)
<1> PICK S : c \in [Slave -> Seq(S)]
  BY DEF IsChannel
<1>1. ASSUME NEW t \in Slave PROVE d[t] \in Seq(S)
  OBVIOUS
<1> QED
  BY <1>1 DEF IsChannel

LEMMA CutChannel ==
  ASSUME NEW c, IsChannel(c), NEW d, NEW s, NEW n \in Nat,
         d = [c EXCEPT ![s] = SubSeq(@, n + 1, Len(@))]
  PROVE  IsChannel(d)
<1> PICK S : c \in [Slave -> Seq(S)]
  BY DEF IsChannel
<1>1. ASSUME NEW t \in Slave PROVE d[t] \in Seq(S)
  <2>1. SubSeq(c[t], n + 1, Len(c[t])) \in Seq(S)
    OBVIOUS
  <2> QED
    BY <2>1
<1> QED
  BY <1>1 DEF IsChannel

-------------------------------------------------------------------------------
(***************************************************************************)
(* What the steps of the second block do to the channels, whatever they    *)
(* are good for: the master only sends to the slaves, and a slave only     *)
(* takes its own next message.                                             *)
(***************************************************************************)
MasterSends ==
  /\ \/ UNCHANGED toSlave
     \/ \E s, m : toSlave' = [toSlave EXCEPT ![s] = Append(@, m)]
     \/ \E s, T : \E r \in Seq(T) : toSlave' = [toSlave EXCEPT ![s] = @ \o r]
     \/ \E m : toSlave' = [s \in Slave |-> Append(toSlave[s], m)]
  /\ \/ UNCHANGED toMaster
     \/ \E s : toMaster[s] # <<>> /\ toMaster' = [toMaster EXCEPT ![s] = Tail(@)]
     \/ \E s : \E n \in Nat : toMaster' = [toMaster EXCEPT ![s] = SubSeq(@, n + 1, Len(@))]

SlaveTakes(s) ==
  /\ \/ UNCHANGED toSlave
     \/ toSlave[s] # <<>> /\ toSlave' = [toSlave EXCEPT ![s] = Tail(@)]
  /\ \/ UNCHANGED toMaster
     \/ \E m : toMaster' = [toMaster EXCEPT ![s] = Append(@, m)]
     \/ \E T : \E r \in Seq(T) : toMaster' = [toMaster EXCEPT ![s] = @ \o r]
     \/ \E m, T : \E r \in Seq(T) : toMaster' = [toMaster EXCEPT ![s] = Append(@, m) \o r]

LEMMA MasterLonger ==
  ASSUME IsChannel(toSlave), IsChannel(toMaster), MasterSends
  PROVE  Longer(toSlave, toSlave') /\ IsChannel(toMaster')
<1>1. Longer(toSlave, toSlave')
  BY ConcatLonger, AppendLonger, AppendAllLonger, SameLonger DEF MasterSends
<1>2. IsChannel(toMaster')
  BY TailChannel, CutChannel DEF MasterSends
<1> QED
  BY <1>1, <1>2

LEMMA SlaveShorter ==
  ASSUME IsChannel(toSlave), IsChannel(toMaster), NEW s \in Slave, SlaveTakes(s)
  PROVE  /\ IsChannel(toSlave') /\ Longer(toMaster, toMaster')
         /\ Len(toSlave'[s]) <= Len(toSlave[s])
         /\ Len(toSlave[s]) - Len(toSlave'[s]) <= 1
         /\ \A t \in Slave \ {s} : toSlave'[t] = toSlave[t]
<1>1. IsChannel(toSlave')
  BY TailChannel DEF SlaveTakes
<1>2. Longer(toMaster, toMaster')
  BY ConcatLonger, AppendLonger, AppendConcatLonger, SameLonger DEF SlaveTakes
<1>3. PICK S : toSlave \in [Slave -> Seq(S)]
  BY DEF IsChannel
<1>4. /\ Len(toSlave'[s]) <= Len(toSlave[s])
      /\ Len(toSlave[s]) - Len(toSlave'[s]) <= 1
      /\ \A t \in Slave \ {s} : toSlave'[t] = toSlave[t]
  <2>1. CASE UNCHANGED toSlave
    BY <1>3, <2>1
  <2>2. CASE toSlave[s] # <<>> /\ toSlave' = [toSlave EXCEPT ![s] = Tail(@)]
    BY <1>3, <2>2
  <2> QED
    BY <2>1, <2>2 DEF SlaveTakes
<1> QED
  BY <1>1, <1>2, <1>4

LEMMA Repeated == ASSUME NEW n \in Nat, NEW m PROVE [k \in 1 .. n |-> m] \in Seq({m})
OBVIOUS

LEMMA DynamicSends == ASSUME Dynamic2!Master PROVE MasterSends
BY SequenceAssumption
     DEF Dynamic2!Master, Dynamic2!Seed, Dynamic2!EndSeed, Dynamic2!ServeChunk,
         Dynamic2!ServeRead, Dynamic2!GrantRest, Dynamic2!NothingLeft,
         Dynamic2!AnswerRead, Dynamic2!Element, Dynamic2!Send, Dynamic2!Chunk,
         Dynamic2!Stop, Dynamic2!HandOut, Dynamic2!GrantFull, Dynamic2!Dismiss,
         Dynamic2!DismissIfPast, Dynamic2!AllKilled, Dynamic2!Slave,
         Dynamic2!slaveVars, Dynamic2!farmVars, Dynamic2!Drop, Dynamic2!Bump,
         Dynamic2!Slice, Dynamic2!Arrived, MasterSends

LEMMA DynamicTakes == ASSUME NEW s \in Slave, Dynamic2!SlaveStep(s) PROVE SlaveTakes(s)
BY SequenceAssumption
     DEF Dynamic2!SlaveStep, Dynamic2!TakeChunk, Dynamic2!SlaveStart,
         Dynamic2!SlaveIterate, Dynamic2!Answer, Dynamic2!SlaveReply,
         Dynamic2!SlaveStop, Dynamic2!SlaveRead, Dynamic2!SlaveGot,
         Dynamic2!InChunk, Dynamic2!Result, Dynamic2!Chunk, Dynamic2!Send,
         Dynamic2!Drop, Dynamic2!Bump, Dynamic2!Arrived, Dynamic2!slaveVars,
         Dynamic2!farmVars, Dynamic2!Element, SlaveTakes

LEMMA StaticSends == ASSUME Static2!Master PROVE MasterSends
BY SequenceAssumption
     DEF Static2!Master, Static2!Seed, Static2!EndSeed, Static2!Collect,
         Static2!ServeRead, Static2!AnswerRead, Static2!Element, Static2!Send,
         Static2!Drop, Static2!Bump, Static2!Slice, Static2!Arrived, Static2!Chunk,
         Static2!Stop, Static2!Slave, Static2!slaveVars, Static2!SentOffset,
         Static2!SentSize, Static2!Stored, Static2!StoredOffset, Static2!StoredSize,
         Static2!StaticOffset, Static2!StaticSize, Static2!Quotient,
         Static2!Remainder, Static2!Total, Static2!LastSlave, MasterSends

LEMMA StaticTakes == ASSUME NEW s \in Slave, Static2!SlaveStep(s) PROVE SlaveTakes(s)
<1>1. CASE Static2!Answer(s)
  <2>1. Static2!Partials \in Seq({Static2!Partial})
    BY SequenceAssumption, Repeated DEF Static2!Partials
  <2> QED
    BY <1>1, <2>1 DEF Static2!Answer, Static2!SlaveReply, SlaveTakes
<1>2. CASE ~Static2!Answer(s)
  BY <1>2
     DEF Static2!SlaveStep, Static2!TakeShare, Static2!OwnOffset,
         Static2!StaticOffset, Static2!Quotient, Static2!Total, Static2!Remainder,
         Static2!SlaveStart, Static2!SlaveIterate, Static2!SlaveStop,
         Static2!SlaveRead, Static2!SlaveGot, Static2!InChunk, Static2!Chunk,
         Static2!Send, Static2!Drop, Static2!Bump, Static2!Arrived,
         Static2!slaveVars, Static2!Element, SlaveTakes
<1> QED
  BY <1>1, <1>2

LEMMA OldDynamicSends == ASSUME OldDynamic2!Master PROVE MasterSends
BY SequenceAssumption
     DEF OldDynamic2!Master, OldDynamic2!Seed, OldDynamic2!EndSeed,
         OldDynamic2!ServeChunk, OldDynamic2!GrantRest, OldDynamic2!RestIsShort,
         OldDynamic2!NoGrant, OldDynamic2!Send, OldDynamic2!Chunk, OldDynamic2!Stop,
         OldDynamic2!HandOut, OldDynamic2!GrantFull, OldDynamic2!Dismiss,
         OldDynamic2!DismissIfPast, OldDynamic2!AllKilled, OldDynamic2!Slave,
         OldDynamic2!slaveVars, OldDynamic2!farmVars, OldDynamic2!Drop,
         OldDynamic2!Bump, OldDynamic2!Slice, OldDynamic2!Arrived, MasterSends

LEMMA OldDynamicTakes == ASSUME NEW s \in Slave, OldDynamic2!SlaveStep(s) PROVE SlaveTakes(s)
BY SequenceAssumption
     DEF OldDynamic2!SlaveStep, OldDynamic2!TakeChunk, OldDynamic2!SlaveStart,
         OldDynamic2!SlaveIterate, OldDynamic2!Answer, OldDynamic2!SlaveReply,
         OldDynamic2!SlaveStop, OldDynamic2!InChunk, OldDynamic2!Result,
         OldDynamic2!Chunk, OldDynamic2!Send, OldDynamic2!Drop, OldDynamic2!Bump,
         OldDynamic2!Arrived, OldDynamic2!slaveVars, OldDynamic2!farmVars,
         SlaveTakes

LEMMA OldStaticSends == ASSUME OldStatic2!Master PROVE MasterSends
<1>1. CASE OldStatic2!Seed
  <2> DEFINE m == OldStatic2!Chunk("ATAG", OldStatic2!SentOffset(to2), OldStatic2!OwnSize(to2))
  <2>1. OldStatic2!Parameters(to2) \in Seq({m})
    <3>1. OldStatic2!PerRound \in Nat
      BY SequenceAssumption DEF OldStatic2!PerRound
    <3> HIDE DEF m
    <3>2. [k \in 1 .. OldStatic2!PerRound |-> m] \in Seq({m})
      BY <3>1, Repeated
    <3> QED
      BY <3>2 DEF OldStatic2!Parameters, m
  <2> QED
    BY <1>1, <2>1 DEF OldStatic2!Seed, MasterSends
<1>2. CASE OldStatic2!Collect
  <2>1. OldStatic2!PerAnswer \in Nat
    BY SequenceAssumption DEF OldStatic2!PerAnswer
  <2> QED
    BY <1>2, <2>1 DEF OldStatic2!Collect, MasterSends
<1>3. CASE OldStatic2!EndSeed \/ OldStatic2!StopAll
  BY <1>3 DEF OldStatic2!EndSeed, OldStatic2!StopAll, OldStatic2!Slave, Slave, MasterSends
<1> QED
  BY <1>1, <1>2, <1>3 DEF OldStatic2!Master

LEMMA OldStaticTakes == ASSUME NEW s \in Slave, OldStatic2!SlaveStep(s) PROVE SlaveTakes(s)
<1>1. CASE OldStatic2!Work(s)
  <2> DEFINE m == OldStatic2!Result(s, "FTAG")
  <2>1. OldStatic2!Answers(s) \in Seq({m})
    <3>1. OldStatic2!PerAnswer \in Nat
      BY SequenceAssumption DEF OldStatic2!PerAnswer
    <3> HIDE DEF m
    <3>2. [k \in 1 .. OldStatic2!PerAnswer |-> m] \in Seq({m})
      BY <3>1, Repeated
    <3> QED
      BY <3>2 DEF OldStatic2!Answers, m
  <2> QED
    BY <1>1, <2>1 DEF OldStatic2!Work, OldStatic2!SlaveIterate, OldStatic2!SlaveReply, SlaveTakes
<1>2. CASE ~OldStatic2!Work(s)
  BY <1>2 DEF OldStatic2!SlaveStep, OldStatic2!Receive, OldStatic2!TakeShare, OldStatic2!Leave,
              OldStatic2!SlaveStart, OldStatic2!SlaveStop, OldStatic2!Arrived,
              OldStatic2!Drop, SlaveTakes
<1> QED
  BY <1>1, <1>2

-------------------------------------------------------------------------------
(***************************************************************************)
(* The histories have one entry for every message, the block that it was   *)
(* sent in.                                                                *)
(***************************************************************************)
Marks(sent, c) ==
  /\ sent \in [Slave -> Seq({1, 2})]
  /\ \A s \in Slave : Len(sent[s]) = Len(c[s])

LEMMA LastMarks ==
  ASSUME NEW q \in Seq({1, 2}), NEW n \in Nat, n < Len(q)
  PROVE  LET r == SubSeq(q, 1 - (n - Len(q)), Len(q))
         IN  /\ r \in Seq({1, 2}) /\ Len(r) = n
             /\ \A k \in 1 .. n : r[k] = q[k + Len(q) - n]
<1> DEFINE m == 1 - (n - Len(q))
<1>1. m \in 1 .. (Len(q) + 1) /\ m \in Int /\ Len(q) \in Nat /\ m = Len(q) - n + 1
  OBVIOUS
<1> HIDE DEF m
<1>2. SubSeq(q, m, Len(q)) \in Seq({1, 2}) /\ Len(SubSeq(q, m, Len(q))) = n
  BY <1>1
<1>3. \A k \in 1 .. n : SubSeq(q, m, Len(q))[k] = q[k + Len(q) - n]
  BY <1>1
<1> QED
  BY <1>2, <1>3 DEF m

LEMMA MoreMarks ==
  ASSUME NEW q \in Seq({1, 2}), NEW n \in Nat, ~(n < Len(q)), NEW b \in {1, 2}
  PROVE  LET r == q \o [k \in 1 .. (n - Len(q)) |-> b]
         IN  /\ r \in Seq({1, 2}) /\ Len(r) = n
             /\ \A k \in 1 .. n : r[k] = IF k <= Len(q) THEN q[k] ELSE b
<1> DEFINE m == n - Len(q)
           p == [k \in 1 .. m |-> b]
<1>1. m \in Nat /\ Len(q) \in Nat /\ n = Len(q) + m
  OBVIOUS
<1> HIDE DEF m
<1>2. p \in Seq({1, 2}) /\ Len(p) = m /\ \A k \in 1 .. m : p[k] = b
  BY <1>1
<1> HIDE DEF p
<1>3. q \o p \in Seq({1, 2}) /\ Len(q \o p) = n
  BY <1>1, <1>2
<1>4. ASSUME NEW k \in 1 .. n PROVE (q \o p)[k] = IF k <= Len(q) THEN q[k] ELSE b
  BY <1>1, <1>2, <1>4
<1> QED
  BY <1>3, <1>4 DEF p, m

(***************************************************************************)
(* Track, with the channel before and after the step.                      *)
(***************************************************************************)
Follow(sent, c, d, b) ==
  [s \in Slave |->
     LET more == Len(d[s]) - Len(c[s])
     IN  IF more < 0 THEN SubSeq(sent[s], 1 - more, Len(sent[s]))
         ELSE sent[s] \o [k \in 1 .. more |-> b]]

Mark(q, n, m, k, b) ==
  IF m < n THEN q[k + n - m] ELSE IF k <= n THEN q[k] ELSE b

Follows(r, q, n, m, b) == \A k \in 1 .. Len(r) : r[k] = Mark(q, n, m, k, b)

LEMMA TrackedMarks ==
  ASSUME NEW sent, NEW c, IsChannel(c), NEW d, IsChannel(d), Marks(sent, c), NEW b \in {1, 2}
  PROVE  /\ Marks(Follow(sent, c, d, b), d)
         /\ \A s \in Slave :
              Follows(Follow(sent, c, d, b)[s], sent[s], Len(c[s]), Len(d[s]), b)
<1> DEFINE e == Follow(sent, c, d, b)
<1>0. e = [s \in Slave |->
             LET more == Len(d[s]) - Len(c[s])
             IN  IF more < 0 THEN SubSeq(sent[s], 1 - more, Len(sent[s]))
                 ELSE sent[s] \o [k \in 1 .. more |-> b]]
  BY DEF Follow
<1> HIDE DEF e
<1>1. ASSUME NEW s \in Slave
      PROVE  /\ e[s] \in Seq({1, 2})
             /\ Len(e[s]) = Len(d[s])
             /\ \A k \in 1 .. Len(e[s]) :
                  e[s][k] = IF Len(d[s]) < Len(c[s]) THEN sent[s][k + Len(c[s]) - Len(d[s])]
                            ELSE IF k <= Len(c[s]) THEN sent[s][k] ELSE b
  <2> DEFINE q == sent[s]
             n == Len(d[s])
             more == n - Len(q)
             r == [k \in 1 .. more |-> b]
  <2>1. q \in Seq({1, 2}) /\ Len(q) = Len(c[s]) /\ n \in Nat
    BY DEF Marks, IsChannel
  <2>2. e[s] = IF more < 0 THEN SubSeq(q, 1 - more, Len(q)) ELSE q \o r
    BY <1>0, <2>1
  <2> HIDE DEF q, n
  <2>3. CASE more < 0
    <3>1. n < Len(q)
      BY <2>1, <2>3
    <3>2. /\ SubSeq(q, 1 - more, Len(q)) \in Seq({1, 2})
          /\ Len(SubSeq(q, 1 - more, Len(q))) = n
          /\ \A k \in 1 .. n : SubSeq(q, 1 - more, Len(q))[k] = q[k + Len(q) - n]
      BY <2>1, <3>1, LastMarks
    <3> QED
      BY <2>1, <2>2, <2>3, <3>1, <3>2 DEF q, n
  <2>4. CASE ~(more < 0)
    <3>1. ~(n < Len(q))
      BY <2>1, <2>4
    <3>2. /\ q \o r \in Seq({1, 2}) /\ Len(q \o r) = n
          /\ \A k \in 1 .. n : (q \o r)[k] = IF k <= Len(q) THEN q[k] ELSE b
      BY <2>1, <3>1, MoreMarks
    <3> QED
      BY <2>1, <2>2, <2>4, <3>1, <3>2 DEF q, n
  <2> QED
    BY <2>3, <2>4
<1>2. e = [s \in Slave |-> e[s]]
  BY <1>0
<1> QED
  BY <1>1, <1>2 DEF Marks, Follows, Mark, e

-------------------------------------------------------------------------------
(***************************************************************************)
(* Before the master is done with the first block the second has not begun *)
(* anywhere, and a slave that is through with the first waits.             *)
(***************************************************************************)
Unbegun ==
  /\ mpc2 = "seed" /\ to2 = 1
  /\ spc2 = [s \in Slave |-> "recv"]
  /\ offset2 = [s \in Slave |-> 0]
  /\ size2 = [s \in Slave |-> 0]
  /\ iter2 = [s \in Slave |-> 0]
  /\ runs2 = [i \in 0 .. (Bound2 - 1) |-> 0]
  /\ merged2 = [i \in 0 .. (Bound2 - 1) |-> 0]
  /\ followIN2 = 0 /\ partSize2 = Dynamic2!InitPart /\ killed2 = 0
  /\ from2 = 1
  /\ got2 = [s \in Slave |-> 0]

LEMMA NoSecond ==
  ASSUME Unbegun, NEW s \in Slave, toSlave[s] = <<>> PROVE ~Slave2(s)
<1>1. spc2[s] = "recv"
  BY DEF Unbegun
<1> QED
  BY <1>1
     DEF Slave2, Dynamic2!SlaveStep, Dynamic2!TakeChunk, Dynamic2!SlaveStart,
         Dynamic2!SlaveIterate, Dynamic2!Answer, Dynamic2!SlaveReply, Dynamic2!SlaveStop,
         Dynamic2!SlaveRead, Dynamic2!SlaveGot, Dynamic2!Arrived,
         Static2!SlaveStep, Static2!TakeShare, Static2!SlaveStart,
         Static2!SlaveIterate, Static2!Answer, Static2!SlaveReply, Static2!SlaveStop,
         Static2!SlaveRead, Static2!SlaveGot, Static2!Arrived,
         OldDynamic2!SlaveStep, OldDynamic2!TakeChunk, OldDynamic2!SlaveStart,
         OldDynamic2!SlaveIterate, OldDynamic2!Answer, OldDynamic2!SlaveReply,
         OldDynamic2!SlaveStop, OldDynamic2!Arrived,
         OldStatic2!SlaveStep, OldStatic2!Receive, OldStatic2!TakeShare, OldStatic2!Leave,
         OldStatic2!Work, OldStatic2!SlaveStart, OldStatic2!SlaveIterate,
         OldStatic2!SlaveReply, OldStatic2!SlaveStop, OldStatic2!Arrived

(***************************************************************************)
(* When the master has left the first block, a slave that has not can do   *)
(* nothing but take its stop message.                                      *)
(***************************************************************************)
Leaving(s) ==
  /\ spc1[s] = "recv"
  /\ toSlave[s] # <<>>
  /\ Head(toSlave[s]).tag = "FTAG"

TakesStop(s) ==
  /\ spc1' = [spc1 EXCEPT ![s] = "done"]
  /\ toSlave' = [toSlave EXCEPT ![s] = Tail(@)]
  /\ got1' \in [Slave -> Nat]
  /\ UNCHANGED <<mpc1, toMaster, toSelf, runs1, merged1, block2>>

LEMMA LeavesFirst ==
  ASSUME NEW s \in Slave, Leaving(s), Slave1(s), got1 \in [Slave -> Nat],
         kind[1] = "oldStatic" => OldStatic1!PerRound = 1
  PROVE  TakesStop(s)
<1>1. CASE kind[1] = "dynamic" /\ Dynamic1!SlaveStep(s) /\ UNCHANGED <<from1, got1, toSelf>>
  BY <1>1
     DEF Leaving, TakesStop, Slave1, Dynamic1!SlaveStep, Dynamic1!TakeChunk,
         Dynamic1!SlaveStart, Dynamic1!SlaveIterate, Dynamic1!Answer, Dynamic1!SlaveReply,
         Dynamic1!SlaveStop, Dynamic1!SlaveRead, Dynamic1!SlaveGot, Dynamic1!Arrived,
         Dynamic1!Drop
<1>2. CASE kind[1] = "static" /\ Static1!SlaveStep(s) /\ UNCHANGED <<farm1, got1, toSelf>>
  BY <1>2
     DEF Leaving, TakesStop, Slave1, Static1!SlaveStep, Static1!TakeShare,
         Static1!SlaveStart, Static1!SlaveIterate, Static1!Answer, Static1!SlaveReply,
         Static1!SlaveStop, Static1!SlaveRead, Static1!SlaveGot, Static1!Arrived, Static1!Drop
<1>3. CASE kind[1] = "oldDynamic" /\ OldDynamic1!SlaveStep(s) /\ UNCHANGED <<from1, got1, toSelf>>
  BY <1>3
     DEF Leaving, TakesStop, Slave1, OldDynamic1!SlaveStep, OldDynamic1!TakeChunk,
         OldDynamic1!SlaveStart, OldDynamic1!SlaveIterate, OldDynamic1!Answer,
         OldDynamic1!SlaveReply, OldDynamic1!SlaveStop, OldDynamic1!Arrived, OldDynamic1!Drop
<1>4. CASE kind[1] = "oldStatic" /\ OldStatic1!SlaveStep(s) /\ UNCHANGED farm1
  <2>1. got1[s] \in Nat /\ ~(got1[s] + 1 < OldStatic1!PerRound)
    BY <1>4
  <2> QED
    BY <1>4, <2>1
       DEF Leaving, TakesStop, Slave1, OldStatic1!SlaveStep, OldStatic1!Receive,
           OldStatic1!TakeShare, OldStatic1!Leave, OldStatic1!LastOfRound, OldStatic1!Work,
           OldStatic1!SlaveStart, OldStatic1!SlaveIterate, OldStatic1!SlaveReply,
           OldStatic1!SlaveStop, OldStatic1!Arrived, OldStatic1!Drop
<1> QED
  BY <1>1, <1>2, <1>3, <1>4 DEF Slave1

(***************************************************************************)
(* What the steps of the second block do to the channels.                  *)
(***************************************************************************)
LEMMA Master2Sends ==
  ASSUME Master2, IsChannel(toSlave), IsChannel(toMaster)
  PROVE  Longer(toSlave, toSlave') /\ IsChannel(toMaster') /\ UNCHANGED block1
<1>1. MasterSends /\ UNCHANGED block1
  BY DynamicSends, StaticSends, OldDynamicSends, OldStaticSends
     DEF Master2, TakeOwnStop, MasterSends
<1> QED
  BY <1>1, MasterLonger

LEMMA Slave2Takes ==
  ASSUME NEW s \in Slave, Slave2(s)
  PROVE  SlaveTakes(s) /\ UNCHANGED block1
BY DynamicTakes, StaticTakes, OldDynamicTakes, OldStaticTakes DEF Slave2

-------------------------------------------------------------------------------
(***************************************************************************)
(* The histories follow the channels.                                      *)
(***************************************************************************)
LEMMA TrackTo ==
  ASSUME IsChannel(toSlave), IsChannel(toSlave'), Marks(sentTo, toSlave), NEW b \in {1, 2},
         sentTo' = Track(sentTo, toSlave, b)
  PROVE  /\ Marks(sentTo', toSlave')
         /\ \A s \in Slave : Follows(sentTo'[s], sentTo[s], Len(toSlave[s]), Len(toSlave'[s]), b)
<1>1. sentTo' = Follow(sentTo, toSlave, toSlave', b)
  BY DEF Track, Follow
<1> QED
  BY <1>1, TrackedMarks

LEMMA TrackBy ==
  ASSUME IsChannel(toMaster), IsChannel(toMaster'), Marks(sentBy, toMaster), NEW b \in {1, 2},
         sentBy' = Track(sentBy, toMaster, b)
  PROVE  /\ Marks(sentBy', toMaster')
         /\ \A s \in Slave : Follows(sentBy'[s], sentBy[s], Len(toMaster[s]), Len(toMaster'[s]), b)
<1>1. sentBy' = Follow(sentBy, toMaster, toMaster', b)
  BY DEF Track, Follow
<1> QED
  BY <1>1, TrackedMarks

LEMMA Lengths ==
  ASSUME NEW c, IsChannel(c), NEW sent, Marks(sent, c), NEW s \in Slave
  PROVE  /\ Len(c[s]) \in Nat /\ Len(sent[s]) = Len(c[s])
         /\ c[s] = <<>> <=> Len(c[s]) = 0
BY DEF IsChannel, Marks

(***************************************************************************)
(* The marks that occur: all are of one block, or all but that of the stop *)
(* message at the head are of the second.                                  *)
(***************************************************************************)
AllAre(q, b) == \A k \in 1 .. Len(q) : q[k] = b
Stopped(q, spc) == \A k \in 1 .. Len(q) : q[k] = IF k = 1 /\ spc # "done" THEN 1 ELSE 2

LEMMA StillAll ==
  ASSUME NEW n \in Nat, NEW m \in Nat, NEW q, NEW r, NEW b, Len(q) = n, Len(r) = m,
         Follows(r, q, n, m, b), AllAre(q, b)
  PROVE  AllAre(r, b)
BY DEF Follows, Mark, AllAre

LEMMA StillStopped ==
  ASSUME NEW n \in Nat, NEW m \in Nat, NEW q, NEW r, NEW spc, Len(q) = n, Len(r) = m,
         n <= m, spc # "done" => n >= 1, Follows(r, q, n, m, 2), Stopped(q, spc)
  PROVE  Stopped(r, spc)
BY DEF Follows, Mark, Stopped

LEMMA StopTaken ==
  ASSUME NEW n \in Nat, NEW m \in Nat, NEW q, NEW r, NEW spc, NEW b, Len(q) = n, Len(r) = m,
         m = n - 1, Follows(r, q, n, m, b), Stopped(q, spc)
  PROVE  Stopped(r, "done")
BY DEF Follows, Mark, Stopped

LEMMA SameMarks ==
  ASSUME NEW n \in Nat, NEW q, NEW r, NEW b, Len(q) = n, Len(r) = n, Follows(r, q, n, n, b)
  PROVE  \A k \in 1 .. Len(r) : r[k] = q[k]
BY DEF Follows, Mark

LEMMA DoneIsAll == ASSUME NEW q PROVE Stopped(q, "done") <=> AllAre(q, 2)
BY DEF Stopped, AllAre

(***************************************************************************)
(* What a step may take from the channels.                                 *)
(***************************************************************************)
First(q, n, m) == {q[k] : k \in 1 .. (n - m)}

LEMMA TakenIsFirst ==
  ASSUME NEW s \in Slave
  PROVE  /\ Taken(sentBy, toMaster, s) = First(sentBy[s], Len(toMaster[s]), Len(toMaster'[s]))
         /\ Taken(sentTo, toSlave, s) = First(sentTo[s], Len(toSlave[s]), Len(toSlave'[s]))
BY DEF Taken, First

LEMMA FirstAre ==
  ASSUME NEW n \in Nat, NEW m \in Nat, NEW q, NEW b, Len(q) = n, AllAre(q, b)
  PROVE  First(q, n, m) \subseteq {b}
BY DEF First, AllAre

LEMMA NoneTaken ==
  ASSUME NEW n \in Nat, NEW m \in Nat, NEW q, n <= m PROVE First(q, n, m) = {}
BY DEF First

LEMMA FirstIsStop ==
  ASSUME NEW n \in Nat, NEW m \in Nat, NEW q, NEW spc, spc # "done", Len(q) = n, m = n - 1,
         Stopped(q, spc)
  PROVE  First(q, n, m) \subseteq {1}
BY DEF First, Stopped

-------------------------------------------------------------------------------
(***************************************************************************)
(* What is known of the sequence.  All messages are of the first block     *)
(* until the master leaves it, and then of the second, but for the stop    *)
(* message that a slave in the first block has before it.                  *)
(***************************************************************************)
Tracked ==
  /\ kind \in Programs
  /\ spc1 \in [Slave -> {"recv", "run", "await", "got", "done"}]
  /\ got1 \in [Slave -> Nat]
  /\ IsChannel(toSlave) /\ IsChannel(toMaster)
  /\ Marks(sentTo, toSlave) /\ Marks(sentBy, toMaster)

MarkedFirst == \A s \in Slave : AllAre(sentTo[s], 1) /\ AllAre(sentBy[s], 1)

InSecond ==
  \A s \in Slave : /\ spc1[s] = "done" \/ Leaving(s)
                   /\ Stopped(sentTo[s], spc1[s])
                   /\ AllAre(sentBy[s], 2)

(***************************************************************************)
(* Marks of steps of the first block, and when the master leaves it.       *)
(***************************************************************************)
LEMMA FirstMarks ==
  ASSUME Tracked, MarkedFirst, kind' \in Programs, got1' \in [Slave -> Nat],
         spc1' \in [Slave -> {"recv", "run", "await", "got", "done"}],
         IsChannel(toSlave'), IsChannel(toMaster'),
         sentTo' = Track(sentTo, toSlave, 1), sentBy' = Track(sentBy, toMaster, 1)
  PROVE  Tracked' /\ MarkedFirst'
<1>1. Marks(sentTo', toSlave') /\ Marks(sentBy', toMaster')
  BY TrackTo, TrackBy DEF Tracked
<1>2. Tracked'
  BY <1>1 DEF Tracked, IsChannel
<1>3. ASSUME NEW s \in Slave PROVE AllAre(sentTo'[s], 1) /\ AllAre(sentBy'[s], 1)
  <2>1. /\ Len(toSlave[s]) \in Nat /\ Len(sentTo[s]) = Len(toSlave[s])
        /\ Len(toSlave'[s]) \in Nat /\ Len(sentTo'[s]) = Len(toSlave'[s])
        /\ Len(toMaster[s]) \in Nat /\ Len(sentBy[s]) = Len(toMaster[s])
        /\ Len(toMaster'[s]) \in Nat /\ Len(sentBy'[s]) = Len(toMaster'[s])
    BY <1>1, Lengths DEF Tracked
  <2>2. /\ Follows(sentTo'[s], sentTo[s], Len(toSlave[s]), Len(toSlave'[s]), 1)
        /\ Follows(sentBy'[s], sentBy[s], Len(toMaster[s]), Len(toMaster'[s]), 1)
    BY TrackTo, TrackBy DEF Tracked
  <2> QED
    BY <2>1, <2>2, StillAll DEF MarkedFirst
<1> QED
  BY <1>2, <1>3 DEF MarkedFirst

LEMMA FirstTakes ==
  ASSUME Tracked, MarkedFirst, mpc1 # "done", IsChannel(toSlave'), IsChannel(toMaster'),
         \A s \in Slave : spc1[s] = "done" => toSlave[s] = <<>>
  PROVE  TakesOwn
<1>1. MasterBlock = 1
  BY DEF MasterBlock
<1>2. ASSUME NEW s \in Slave
      PROVE  /\ Taken(sentBy, toMaster, s) \subseteq {1}
             /\ Taken(sentTo, toSlave, s) \subseteq {SlaveBlock(s)}
  <2>1. /\ Len(toSlave[s]) \in Nat /\ Len(sentTo[s]) = Len(toSlave[s])
        /\ Len(toMaster[s]) \in Nat /\ Len(sentBy[s]) = Len(toMaster[s])
        /\ Len(toSlave'[s]) \in Nat /\ Len(toMaster'[s]) \in Nat
        /\ toSlave[s] = <<>> <=> Len(toSlave[s]) = 0
    <3>1. Len(toSlave'[s]) \in Nat /\ Len(toMaster'[s]) \in Nat
      BY DEF IsChannel
    <3> QED
      BY <3>1, Lengths DEF Tracked
  <2>2. AllAre(sentTo[s], 1) /\ AllAre(sentBy[s], 1)
    BY DEF MarkedFirst
  <2>3. Taken(sentBy, toMaster, s) \subseteq {1}
    BY <2>1, <2>2, TakenIsFirst, FirstAre
  <2>4. CASE spc1[s] = "done"
    <3>1. Len(toSlave[s]) <= Len(toSlave'[s])
      BY <2>1, <2>4
    <3> QED
      BY <2>1, <2>3, <3>1, TakenIsFirst, NoneTaken
  <2>5. CASE spc1[s] # "done"
    <3>1. SlaveBlock(s) = 1
      BY <2>5 DEF SlaveBlock
    <3> QED
      BY <2>1, <2>2, <2>3, <3>1, TakenIsFirst, FirstAre
  <2> QED
    BY <2>4, <2>5
<1> QED
  BY <1>1, <1>2 DEF TakesOwn

OnlyStops ==
  \A s \in Slave : /\ toMaster[s] = <<>>
                  /\ \/ spc1[s] = "done" /\ toSlave[s] = <<>>
                     \/ spc1[s] # "done" /\ Leaving(s) /\ Len(toSlave[s]) = 1

LEMMA LastOfFirst == ASSUME Tracked, MarkedFirst, OnlyStops PROVE InSecond
<1>1. ASSUME NEW s \in Slave
      PROVE  /\ spc1[s] = "done" \/ Leaving(s)
             /\ Stopped(sentTo[s], spc1[s])
             /\ AllAre(sentBy[s], 2)
  <2>1. /\ toMaster[s] = <<>>
        /\ \/ spc1[s] = "done" /\ toSlave[s] = <<>>
           \/ spc1[s] # "done" /\ Leaving(s) /\ Len(toSlave[s]) = 1
    BY DEF OnlyStops
  <2>2. Len(sentTo[s]) = Len(toSlave[s]) /\ Len(sentBy[s]) = Len(toMaster[s])
    BY DEF Tracked, Marks
  <2>3. AllAre(sentTo[s], 1)
    BY DEF MarkedFirst
  <2>4. Len(sentBy[s]) = 0 /\ (toSlave[s] = <<>> => Len(sentTo[s]) = 0)
    BY <2>1, <2>2
  <2>5. AllAre(sentBy[s], 2)
    BY <2>4 DEF AllAre
  <2>6. Stopped(sentTo[s], spc1[s])
    <3>1. CASE spc1[s] = "done"
      BY <2>1, <2>4, <3>1 DEF Stopped
    <3>2. CASE spc1[s] # "done"
      <4>1. Len(sentTo[s]) = 1
        BY <2>1, <2>2, <3>2
      <4> QED
        BY <2>3, <3>2, <4>1 DEF Stopped, AllAre
    <3> QED
      BY <3>1, <3>2
  <2> QED
    BY <2>1, <2>5, <2>6
<1> QED
  BY <1>1 DEF InSecond

LEMMA LastOfFirstNext == Tracked' /\ MarkedFirst' /\ OnlyStops' => InSecond'
<1>1. Tracked /\ MarkedFirst /\ OnlyStops => InSecond
  BY LastOfFirst
<1> QED
  BY <1>1, PTL

(***************************************************************************)
(* Steps with the master in the second block: of the master, of a slave    *)
(* that leaves the first block, and of a slave in the second.              *)
(***************************************************************************)
LEMMA SecondMaster ==
  ASSUME Tracked, InSecond, mpc1 = "done", Master2, kind' = kind,
         sentTo' = Track(sentTo, toSlave, 2), sentBy' = Track(sentBy, toMaster, 2)
  PROVE  Tracked' /\ InSecond' /\ mpc1' = "done" /\ TakesOwn
<1>1. /\ Longer(toSlave, toSlave') /\ IsChannel(toSlave') /\ IsChannel(toMaster')
      /\ mpc1' = mpc1 /\ spc1' = spc1 /\ got1' = got1
  BY Master2Sends DEF Tracked, block1, Longer
<1>2. Marks(sentTo', toSlave') /\ Marks(sentBy', toMaster')
  BY <1>1, TrackTo, TrackBy DEF Tracked
<1>3. Tracked'
  BY <1>1, <1>2 DEF Tracked, IsChannel
<1>4. ASSUME NEW s \in Slave
      PROVE  /\ spc1[s] = "done" \/ Leaving(s)'
             /\ Stopped(sentTo'[s], spc1[s])
             /\ AllAre(sentBy'[s], 2)
             /\ Taken(sentBy, toMaster, s) \subseteq {2}
             /\ Taken(sentTo, toSlave, s) = {}
  <2>1. /\ Len(toSlave[s]) \in Nat /\ Len(sentTo[s]) = Len(toSlave[s])
        /\ Len(toSlave'[s]) \in Nat /\ Len(sentTo'[s]) = Len(toSlave'[s])
        /\ Len(toMaster[s]) \in Nat /\ Len(sentBy[s]) = Len(toMaster[s])
        /\ Len(toMaster'[s]) \in Nat /\ Len(sentBy'[s]) = Len(toMaster'[s])
        /\ toSlave[s] = <<>> <=> Len(toSlave[s]) = 0
    BY <1>1, <1>2, Lengths DEF Tracked
  <2>2. /\ Len(toSlave[s]) <= Len(toSlave'[s])
        /\ spc1[s] = "done" \/ Leaving(s)
        /\ toSlave[s] # <<>> => toSlave'[s] # <<>> /\ Head(toSlave'[s]) = Head(toSlave[s])
        /\ Stopped(sentTo[s], spc1[s])
        /\ AllAre(sentBy[s], 2)
    BY <1>1 DEF Longer, InSecond
  <2>3. /\ Follows(sentTo'[s], sentTo[s], Len(toSlave[s]), Len(toSlave'[s]), 2)
        /\ Follows(sentBy'[s], sentBy[s], Len(toMaster[s]), Len(toMaster'[s]), 2)
    BY <1>1, TrackTo, TrackBy DEF Tracked
  <2>4. spc1[s] = "done" \/ Leaving(s)'
    BY <1>1, <2>2 DEF Leaving
  <2>5. spc1[s] # "done" => Len(toSlave[s]) >= 1
    BY <2>1, <2>2 DEF Leaving
  <2>6. Stopped(sentTo'[s], spc1[s])
    BY <2>1, <2>2, <2>3, <2>5, StillStopped
  <2>7. AllAre(sentBy'[s], 2)
    BY <2>1, <2>2, <2>3, StillAll
  <2>8. Taken(sentBy, toMaster, s) \subseteq {2}
    BY <2>1, <2>2, TakenIsFirst, FirstAre
  <2>9. Taken(sentTo, toSlave, s) = {}
    BY <2>1, <2>2, TakenIsFirst, NoneTaken
  <2> QED
    BY <2>4, <2>6, <2>7, <2>8, <2>9
<1>5. InSecond'
  BY <1>1, <1>4 DEF InSecond
<1>6. MasterBlock = 2
  BY DEF MasterBlock
<1> QED
  BY <1>1, <1>3, <1>4, <1>5, <1>6 DEF TakesOwn

LEMMA SecondLeaves ==
  ASSUME Tracked, InSecond, mpc1 = "done", kind' = kind,
         kind[1] = "oldStatic" => OldStatic1!PerRound = 1,
         NEW s \in Slave, Slave1(s),
         sentTo' = Track(sentTo, toSlave, 1), sentBy' = Track(sentBy, toMaster, 1)
  PROVE  Tracked' /\ InSecond' /\ mpc1' = "done" /\ TakesOwn
<1>1. spc1[s] # "done" /\ Leaving(s)
  BY DEF Slave1, SlaveBlock, InSecond
<1>2. TakesStop(s)
  BY <1>1, LeavesFirst DEF Tracked
<1>3. /\ IsChannel(toSlave') /\ IsChannel(toMaster') /\ mpc1' = mpc1 /\ toMaster' = toMaster
      /\ got1' \in [Slave -> Nat]
      /\ spc1' = [spc1 EXCEPT ![s] = "done"]
      /\ spc1' \in [Slave -> {"recv", "run", "await", "got", "done"}]
  <2>1. IsChannel(toSlave')
    BY <1>1, <1>2, TailChannel DEF TakesStop, Leaving, Tracked
  <2>2. toMaster' = toMaster /\ IsChannel(toMaster')
    BY <1>2 DEF TakesStop, Tracked, IsChannel
  <2> QED
    BY <1>2, <2>1, <2>2 DEF TakesStop, Tracked
<1>4. Marks(sentTo', toSlave') /\ Marks(sentBy', toMaster')
  BY <1>3, TrackTo, TrackBy DEF Tracked
<1>5. Tracked'
  BY <1>3, <1>4 DEF Tracked, IsChannel
<1>6. ASSUME NEW t \in Slave
      PROVE  /\ spc1'[t] = "done" \/ Leaving(t)'
             /\ Stopped(sentTo'[t], spc1'[t])
             /\ AllAre(sentBy'[t], 2)
             /\ Taken(sentBy, toMaster, t) = {}
             /\ Taken(sentTo, toSlave, t) \subseteq {SlaveBlock(t)}
  <2>1. /\ Len(toSlave[t]) \in Nat /\ Len(sentTo[t]) = Len(toSlave[t])
        /\ Len(toSlave'[t]) \in Nat /\ Len(sentTo'[t]) = Len(toSlave'[t])
        /\ Len(toMaster[t]) \in Nat /\ Len(sentBy[t]) = Len(toMaster[t])
        /\ Len(sentBy'[t]) = Len(toMaster[t])
    BY <1>3, <1>4, Lengths DEF Tracked
  <2>2. /\ Stopped(sentTo[t], spc1[t])
        /\ AllAre(sentBy[t], 2)
        /\ spc1[t] = "done" \/ Leaving(t)
    BY DEF InSecond
  <2>3. /\ Follows(sentTo'[t], sentTo[t], Len(toSlave[t]), Len(toSlave'[t]), 1)
        /\ Follows(sentBy'[t], sentBy[t], Len(toMaster[t]), Len(toMaster[t]), 1)
    BY <1>3, TrackTo, TrackBy DEF Tracked
  <2>4. AllAre(sentBy'[t], 2)
    <3>1. \A k \in 1 .. Len(sentBy'[t]) : sentBy'[t][k] = sentBy[t][k]
      BY <2>1, <2>3, SameMarks
    <3> QED
      BY <2>1, <2>2, <3>1 DEF AllAre
  <2>5. Taken(sentBy, toMaster, t) = {}
    BY <1>3, <2>1, TakenIsFirst, NoneTaken
  <2>6. CASE t = s
    <3>1. spc1'[t] = "done" /\ SlaveBlock(t) = 1 /\ spc1[t] # "done"
      BY <1>1, <1>3, <2>6 DEF SlaveBlock, Tracked
    <3>2. Len(toSlave'[t]) = Len(toSlave[t]) - 1
      <4>1. PICK S : toSlave \in [Slave -> Seq(S)]
        BY DEF Tracked, IsChannel
      <4>2. toSlave[t] # <<>> /\ toSlave'[t] = Tail(toSlave[t])
        BY <1>1, <1>2, <2>6, <4>1 DEF TakesStop, Leaving
      <4> QED
        BY <4>1, <4>2
    <3>3. Stopped(sentTo'[t], "done")
      BY <2>1, <2>2, <2>3, <3>2, StopTaken
    <3>4. Taken(sentTo, toSlave, t) \subseteq {1}
      BY <2>1, <2>2, <3>1, <3>2, TakenIsFirst, FirstIsStop
    <3> QED
      BY <2>4, <2>5, <3>1, <3>3, <3>4
  <2>7. CASE t # s
    <3>1. spc1'[t] = spc1[t] /\ toSlave'[t] = toSlave[t]
      BY <1>2, <1>3, <2>7 DEF TakesStop, Tracked, IsChannel
    <3>2. \A k \in 1 .. Len(sentTo'[t]) : sentTo'[t][k] = sentTo[t][k]
      BY <2>1, <2>3, <3>1, SameMarks
    <3>3. Stopped(sentTo'[t], spc1'[t])
      BY <2>1, <2>2, <3>1, <3>2 DEF Stopped
    <3>4. Taken(sentTo, toSlave, t) = {}
      BY <2>1, <3>1, TakenIsFirst, NoneTaken
    <3>5. spc1'[t] = "done" \/ Leaving(t)'
      BY <2>2, <3>1 DEF Leaving
    <3> QED
      BY <2>4, <2>5, <3>3, <3>4, <3>5
  <2> QED
    BY <2>6, <2>7
<1>7. InSecond'
  BY <1>6 DEF InSecond
<1>8. MasterBlock = 2
  BY DEF MasterBlock
<1> QED
  BY <1>3, <1>5, <1>6, <1>7, <1>8 DEF TakesOwn

LEMMA SecondSlave ==
  ASSUME Tracked, InSecond, mpc1 = "done", kind' = kind,
         NEW s \in Slave, Slave2(s),
         sentTo' = Track(sentTo, toSlave, 2), sentBy' = Track(sentBy, toMaster, 2)
  PROVE  Tracked' /\ InSecond' /\ mpc1' = "done" /\ TakesOwn
<1>1. spc1[s] = "done"
  BY DEF Slave2, SlaveBlock
<1>2. /\ IsChannel(toSlave') /\ Longer(toMaster, toMaster') /\ IsChannel(toMaster')
      /\ Len(toSlave'[s]) <= Len(toSlave[s])
      /\ \A t \in Slave \ {s} : toSlave'[t] = toSlave[t]
      /\ mpc1' = mpc1 /\ spc1' = spc1 /\ got1' = got1
  BY Slave2Takes, SlaveShorter DEF Tracked, block1, Longer
<1>3. Marks(sentTo', toSlave') /\ Marks(sentBy', toMaster')
  BY <1>2, TrackTo, TrackBy DEF Tracked
<1>4. Tracked'
  BY <1>2, <1>3 DEF Tracked, IsChannel
<1>5. ASSUME NEW t \in Slave
      PROVE  /\ spc1[t] = "done" \/ Leaving(t)'
             /\ Stopped(sentTo'[t], spc1[t])
             /\ AllAre(sentBy'[t], 2)
             /\ Taken(sentBy, toMaster, t) = {}
             /\ Taken(sentTo, toSlave, t) \subseteq {SlaveBlock(t)}
  <2>1. /\ Len(toSlave[t]) \in Nat /\ Len(sentTo[t]) = Len(toSlave[t])
        /\ Len(toSlave'[t]) \in Nat /\ Len(sentTo'[t]) = Len(toSlave'[t])
        /\ Len(toMaster[t]) \in Nat /\ Len(sentBy[t]) = Len(toMaster[t])
        /\ Len(toMaster'[t]) \in Nat /\ Len(sentBy'[t]) = Len(toMaster'[t])
        /\ Len(toMaster[t]) <= Len(toMaster'[t])
    <3>1. Len(toMaster[t]) <= Len(toMaster'[t])
      BY <1>2 DEF Longer
    <3> QED
      BY <1>2, <1>3, <3>1, Lengths DEF Tracked
  <2>2. /\ Stopped(sentTo[t], spc1[t])
        /\ AllAre(sentBy[t], 2)
        /\ spc1[t] = "done" \/ Leaving(t)
    BY DEF InSecond
  <2>3. /\ Follows(sentTo'[t], sentTo[t], Len(toSlave[t]), Len(toSlave'[t]), 2)
        /\ Follows(sentBy'[t], sentBy[t], Len(toMaster[t]), Len(toMaster'[t]), 2)
    BY <1>2, TrackTo, TrackBy DEF Tracked
  <2>4. AllAre(sentBy'[t], 2)
    BY <2>1, <2>2, <2>3, StillAll
  <2>5. Taken(sentBy, toMaster, t) = {}
    BY <2>1, TakenIsFirst, NoneTaken
  <2>6. CASE t = s
    <3>1. AllAre(sentTo[t], 2)
      BY <1>1, <2>2, <2>6, DoneIsAll
    <3>2. Stopped(sentTo'[t], "done")
      BY <2>1, <2>3, <3>1, StillAll, DoneIsAll
    <3>3. Taken(sentTo, toSlave, t) \subseteq {2} /\ SlaveBlock(t) = 2
      BY <1>1, <2>1, <2>6, <3>1, TakenIsFirst, FirstAre DEF SlaveBlock
    <3> QED
      BY <1>1, <2>4, <2>5, <2>6, <3>2, <3>3
  <2>7. CASE t # s
    <3>1. toSlave'[t] = toSlave[t]
      BY <1>2, <2>7
    <3>2. \A k \in 1 .. Len(sentTo'[t]) : sentTo'[t][k] = sentTo[t][k]
      BY <2>1, <2>3, <3>1, SameMarks
    <3>3. Stopped(sentTo'[t], spc1[t])
      BY <2>1, <2>2, <3>1, <3>2 DEF Stopped
    <3>4. Taken(sentTo, toSlave, t) = {}
      BY <2>1, <3>1, TakenIsFirst, NoneTaken
    <3>5. spc1[t] = "done" \/ Leaving(t)'
      BY <1>2, <2>2, <3>1 DEF Leaving
    <3> QED
      BY <2>4, <2>5, <3>3, <3>4, <3>5
  <2> QED
    BY <2>6, <2>7
<1>6. InSecond'
  BY <1>2, <1>5 DEF InSecond
<1>7. MasterBlock = 2
  BY DEF MasterBlock
<1> QED
  BY <1>2, <1>4, <1>5, <1>6, <1>7 DEF TakesOwn

LEMMA SecondNext ==
  ASSUME Tracked, InSecond, mpc1 = "done",
         kind[1] = "oldStatic" => OldStatic1!PerRound = 1,
         Master \/ \E s \in Slave : SlaveStep(s)
  PROVE  Tracked' /\ InSecond' /\ mpc1' = "done" /\ TakesOwn
<1>1. CASE Master
  <2>1. /\ Master2 /\ kind' = kind
        /\ sentTo' = Track(sentTo, toSlave, 2) /\ sentBy' = Track(sentBy, toMaster, 2)
    BY <1>1 DEF Master, Master1, MasterBlock
  <2> QED
    BY <2>1, SecondMaster
<1>2. CASE \E s \in Slave : SlaveStep(s)
  <2>1. PICK s \in Slave : SlaveStep(s)
    BY <1>2
  <2>2. CASE Slave1(s)
    <3>1. /\ kind' = kind
          /\ sentTo' = Track(sentTo, toSlave, 1) /\ sentBy' = Track(sentBy, toMaster, 1)
      BY <2>1, <2>2 DEF SlaveStep, Slave1
    <3> QED
      BY <2>2, <3>1, SecondLeaves
  <2>3. CASE Slave2(s)
    <3>1. /\ kind' = kind
          /\ sentTo' = Track(sentTo, toSlave, 2) /\ sentBy' = Track(sentBy, toMaster, 2)
      BY <2>1, <2>3 DEF SlaveStep, Slave2
    <3> QED
      BY <2>3, <3>1, SecondSlave
  <2> QED
    BY <2>1, <2>2, <2>3 DEF SlaveStep
<1> QED
  BY <1>1, <1>2

-------------------------------------------------------------------------------
(***************************************************************************)
(* The second block alone: its channels to the slaves are what is behind   *)
(* the stop message of the first, and the messages of rank 0 to itself     *)
(* are its own.  Every step of the second block is one on these channels,  *)
(* and a slave that takes its stop message changes nothing there.          *)
(***************************************************************************)
toSlave2 ==
  [s \in Slave |-> IF spc1[s] = "done" THEN toSlave[s] ELSE Tail(toSlave[s])]
toSelf2 == IF mpc2 = "done" THEN <<OldStatic2!Stop>> ELSE <<>>

DynamicBehind == INSTANCE DynamicFarm WITH
  Start <- 0, Bound <- Bound2, mpc <- mpc2, to <- to2, toSlave <- toSlave2,
  spc <- spc2, offset <- offset2, size <- size2, iter <- iter2, runs <- runs2,
  merged <- merged2, followIN <- followIN2, partSize <- partSize2, killed <- killed2
StaticBehind == INSTANCE StaticFarm WITH
  Start <- 0, Bound <- Bound2, mpc <- mpc2, to <- to2, toSlave <- toSlave2,
  spc <- spc2, offset <- offset2, size <- size2, iter <- iter2, runs <- runs2,
  merged <- merged2, from <- from2
OldDynamicBehind == INSTANCE OldDynamicFarm WITH
  Start <- 0, Bound <- Bound2, mpc <- mpc2, to <- to2, toSlave <- toSlave2,
  spc <- spc2, offset <- offset2, size <- size2, iter <- iter2, runs <- runs2,
  merged <- merged2, followIN <- followIN2, partSize <- partSize2, killed <- killed2
OldStaticBehind == INSTANCE OldStaticFarm WITH
  Start <- 0, Bound <- Bound2, mpc <- mpc2, to <- to2, toSlave <- toSlave2,
  toSelf <- toSelf2, spc <- spc2, offset <- offset2, size <- size2, iter <- iter2,
  runs <- runs2, merged <- merged2, from <- from2, got <- got2

StopsAhead ==
  /\ IsChannel(toSlave)
  /\ \A s \in Slave : spc1[s] # "done" => toSlave[s] # <<>>

LEMMA BehindConcat ==
  ASSUME StopsAhead, spc1' = spc1, NEW s \in Slave, NEW T, NEW r \in Seq(T),
         toSlave' = [toSlave EXCEPT ![s] = @ \o r]
  PROVE  toSlave2' = [toSlave2 EXCEPT ![s] = @ \o r]
<1> PICK S : toSlave \in [Slave -> Seq(S)]
  BY DEF StopsAhead, IsChannel
<1>1. r \in Seq(S \cup T) /\ \A t \in Slave : toSlave[t] \in Seq(S \cup T)
  BY WiderSeq
<1>2. toSlave2 = [t \in Slave |-> IF spc1[t] = "done" THEN toSlave[t] ELSE Tail(toSlave[t])]
  BY DEF toSlave2
<1>3. toSlave2' = [t \in Slave |-> IF spc1[t] = "done" THEN toSlave'[t] ELSE Tail(toSlave'[t])]
  BY DEF toSlave2
<1>4. \A t \in Slave : toSlave'[t] = IF t = s THEN toSlave[s] \o r ELSE toSlave[t]
  OBVIOUS
<1>5. spc1[s] # "done" => Tail(toSlave[s] \o r) = Tail(toSlave[s]) \o r
  BY <1>1, TailBehind DEF StopsAhead
<1> QED
  BY <1>2, <1>3, <1>4, <1>5

LEMMA AppendAsConcat ==
  ASSUME NEW S, NEW q \in Seq(S), NEW m PROVE Append(q, m) = q \o <<m>>
<1>1. q \in Seq(S \cup {m}) /\ <<m>> \in Seq(S \cup {m})
  BY WiderSeq
<1> QED
  BY <1>1

LEMMA Single == ASSUME NEW m PROVE <<m>> \in Seq({m})
OBVIOUS

LEMMA BehindAppend ==
  ASSUME StopsAhead, spc1' = spc1, NEW s \in Slave, NEW m,
         toSlave' = [toSlave EXCEPT ![s] = Append(@, m)]
  PROVE  toSlave2' = [toSlave2 EXCEPT ![s] = Append(@, m)]
<1> PICK S : toSlave \in [Slave -> Seq(S)]
  BY DEF StopsAhead, IsChannel
<1>1. toSlave' = [toSlave EXCEPT ![s] = @ \o <<m>>]
  BY AppendAsConcat
<1>2. toSlave2' = [toSlave2 EXCEPT ![s] = @ \o <<m>>]
  <2> DEFINE r == <<m>>
  <2>1. r \in Seq({m}) /\ toSlave' = [toSlave EXCEPT ![s] = @ \o r]
    BY <1>1, Single
  <2> HIDE DEF r
  <2>2. toSlave2' = [toSlave2 EXCEPT ![s] = @ \o r]
    BY <2>1, BehindConcat
  <2> QED
    BY <2>2 DEF r
<1>3. toSlave2[s] \in Seq(S)
  BY DEF toSlave2, StopsAhead
<1> QED
  BY <1>2, <1>3, AppendAsConcat

LEMMA BehindAppendAll ==
  ASSUME StopsAhead, spc1' = spc1, NEW m,
         toSlave' = [s \in Slave |-> Append(toSlave[s], m)]
  PROVE  toSlave2' = [s \in Slave |-> Append(toSlave2[s], m)]
<1> PICK S : toSlave \in [Slave -> Seq(S)]
  BY DEF StopsAhead, IsChannel
<1>1. toSlave2' = [t \in Slave |-> IF spc1[t] = "done" THEN toSlave'[t] ELSE Tail(toSlave'[t])]
  BY DEF toSlave2
<1>2. ASSUME NEW t \in Slave, spc1[t] # "done"
      PROVE  Tail(Append(toSlave[t], m)) = Append(Tail(toSlave[t]), m)
  <2>1. toSlave[t] \in Seq(S \cup {m}) /\ <<m>> \in Seq(S \cup {m}) /\ toSlave[t] # <<>>
    BY <1>2, WiderSeq DEF StopsAhead
  <2>2. Tail(toSlave[t] \o <<m>>) = Tail(toSlave[t]) \o <<m>> /\ Tail(toSlave[t]) \in Seq(S \cup {m})
    BY <2>1, TailBehind
  <2> QED
    BY <2>1, <2>2, AppendAsConcat
<1>3. \A t \in Slave : toSlave'[t] = Append(toSlave[t], m)
  OBVIOUS
<1> QED
  BY <1>1, <1>2, <1>3 DEF toSlave2

LEMMA BehindTail ==
  ASSUME StopsAhead, spc1' = spc1, NEW s \in Slave, spc1[s] = "done",
         toSlave' = [toSlave EXCEPT ![s] = Tail(@)]
  PROVE  toSlave2' = [toSlave2 EXCEPT ![s] = Tail(@)]
BY DEF toSlave2, StopsAhead, IsChannel

LEMMA BehindSame ==
  ASSUME spc1' = spc1, toSlave' = toSlave PROVE toSlave2' = toSlave2
BY DEF toSlave2

LEMMA BehindStop ==
  ASSUME StopsAhead, spc1 \in [Slave -> {"recv", "run", "await", "got", "done"}],
         NEW s \in Slave, spc1[s] # "done", TakesStop(s)
  PROVE  toSlave2' = toSlave2
<1>1. toSlave2' = [t \in Slave |-> IF spc1'[t] = "done" THEN toSlave'[t] ELSE Tail(toSlave'[t])]
  BY DEF toSlave2
<1>2. \A t \in Slave : /\ spc1'[t] = IF t = s THEN "done" ELSE spc1[t]
                       /\ toSlave'[t] = IF t = s THEN Tail(toSlave[t]) ELSE toSlave[t]
  BY DEF TakesStop, StopsAhead, IsChannel
<1> QED
  BY <1>1, <1>2 DEF toSlave2

LEMMA BehindOwn == ASSUME NEW s \in Slave, spc1[s] = "done" PROVE toSlave2[s] = toSlave[s]
BY DEF toSlave2

(***************************************************************************)
(* The dynamic blocks.                                                     *)
(***************************************************************************)
LEMMA DynamicBehindHandOut ==
  ASSUME StopsAhead, spc1' = spc1, NEW s \in Slave, NEW n
  PROVE  /\ Dynamic2!HandOut(s, n) => DynamicBehind!HandOut(s, n)
         /\ OldDynamic2!HandOut(s, n) => OldDynamicBehind!HandOut(s, n)
BY BehindAppend
   DEF Dynamic2!HandOut, DynamicBehind!HandOut, Dynamic2!Send, DynamicBehind!Send,
       Dynamic2!Chunk, DynamicBehind!Chunk, OldDynamic2!HandOut, OldDynamicBehind!HandOut,
       OldDynamic2!Send, OldDynamicBehind!Send, OldDynamic2!Chunk, OldDynamicBehind!Chunk

LEMMA DynamicBehindDismiss ==
  ASSUME StopsAhead, spc1' = spc1, NEW s \in Slave, NEW p
  PROVE  /\ Dynamic2!Dismiss(s, p) => DynamicBehind!Dismiss(s, p)
         /\ Dynamic2!DismissIfPast(s, p) => DynamicBehind!DismissIfPast(s, p)
         /\ OldDynamic2!DismissIfPast(s, p) => OldDynamicBehind!DismissIfPast(s, p)
<1>1. Dynamic2!Dismiss(s, p) => DynamicBehind!Dismiss(s, p)
  BY BehindAppend
     DEF Dynamic2!Dismiss, DynamicBehind!Dismiss, Dynamic2!Send, DynamicBehind!Send,
         Dynamic2!Stop, DynamicBehind!Stop, Dynamic2!Chunk, DynamicBehind!Chunk
<1>2. OldDynamic2!Dismiss(s, p) => OldDynamicBehind!Dismiss(s, p)
  BY BehindAppend
     DEF OldDynamic2!Dismiss, OldDynamicBehind!Dismiss, OldDynamic2!Send, OldDynamicBehind!Send,
         OldDynamic2!Stop, OldDynamicBehind!Stop, OldDynamic2!Chunk, OldDynamicBehind!Chunk
<1>3. toSlave' = toSlave => toSlave2' = toSlave2
  BY BehindSame
<1> QED
  BY <1>1, <1>2, <1>3
     DEF Dynamic2!DismissIfPast, DynamicBehind!DismissIfPast, OldDynamic2!DismissIfPast,
         OldDynamicBehind!DismissIfPast

LEMMA DynamicBehindMaster ==
  ASSUME StopsAhead, spc1' = spc1, Dynamic2!Master PROVE DynamicBehind!Master
<1>1. CASE Dynamic2!Seed
  <2>1. to2 \in Slave
    BY <1>1 DEF Dynamic2!Seed, Dynamic2!Slave, Slave
  <2>2. DynamicBehind!Seed
    BY <1>1, <2>1, DynamicBehindHandOut, DynamicBehindDismiss
       DEF Dynamic2!Seed, DynamicBehind!Seed, Dynamic2!GrantFull, DynamicBehind!GrantFull,
           Dynamic2!GrantRest, DynamicBehind!GrantRest, Dynamic2!NothingLeft,
           DynamicBehind!NothingLeft, Dynamic2!Slave, DynamicBehind!Slave,
           Dynamic2!slaveVars, DynamicBehind!slaveVars
  <2> QED
    BY <2>2 DEF DynamicBehind!Master
<1>2. CASE Dynamic2!EndSeed
  BY <1>2, BehindSame
     DEF Dynamic2!EndSeed, DynamicBehind!EndSeed, DynamicBehind!Master, Dynamic2!AllKilled,
         DynamicBehind!AllKilled, Dynamic2!slaveVars, DynamicBehind!slaveVars,
         Dynamic2!farmVars, DynamicBehind!farmVars
<1>3. ASSUME NEW s \in Slave, Dynamic2!ServeChunk(s) PROVE DynamicBehind!Master
  <2>1. DynamicBehind!ServeChunk(s)
    BY <1>3, DynamicBehindHandOut, DynamicBehindDismiss
       DEF Dynamic2!ServeChunk, DynamicBehind!ServeChunk, Dynamic2!GrantFull,
           DynamicBehind!GrantFull, Dynamic2!GrantRest, DynamicBehind!GrantRest,
           Dynamic2!NothingLeft, DynamicBehind!NothingLeft, Dynamic2!Arrived,
           DynamicBehind!Arrived, Dynamic2!Bump, DynamicBehind!Bump, Dynamic2!Slice,
           DynamicBehind!Slice, Dynamic2!Drop, DynamicBehind!Drop, Dynamic2!AllKilled,
           DynamicBehind!AllKilled, Dynamic2!slaveVars, DynamicBehind!slaveVars
  <2> QED
    BY <2>1 DEF DynamicBehind!Master, DynamicBehind!Slave, Slave
<1>4. ASSUME NEW s \in Slave, Dynamic2!ServeRead(s) PROVE DynamicBehind!Master
  <2>1. DynamicBehind!ServeRead(s)
    BY <1>4, BehindAppend
       DEF Dynamic2!ServeRead, DynamicBehind!ServeRead, Dynamic2!AnswerRead,
           DynamicBehind!AnswerRead, Dynamic2!Arrived, DynamicBehind!Arrived,
           Dynamic2!Send, DynamicBehind!Send, Dynamic2!Element, DynamicBehind!Element,
           Dynamic2!Chunk, DynamicBehind!Chunk, Dynamic2!Drop, DynamicBehind!Drop,
           Dynamic2!slaveVars, DynamicBehind!slaveVars
  <2> QED
    BY <2>1 DEF DynamicBehind!Master, DynamicBehind!Slave, Slave
<1> QED
  BY <1>1, <1>2, <1>3, <1>4 DEF Dynamic2!Master, Dynamic2!Slave, Slave

LEMMA DynamicBehindSlave ==
  ASSUME StopsAhead, spc1' = spc1, NEW s \in Slave, spc1[s] = "done", Dynamic2!SlaveStep(s)
  PROVE  DynamicBehind!SlaveStep(s)
<1>1. toSlave2[s] = toSlave[s]
  BY BehindOwn
<1>2. /\ toSlave' = toSlave => toSlave2' = toSlave2
      /\ toSlave' = [toSlave EXCEPT ![s] = Tail(@)] =>
           toSlave2' = [toSlave2 EXCEPT ![s] = Tail(@)]
  BY BehindSame, BehindTail
<1> QED
  BY <1>1, <1>2
     DEF Dynamic2!SlaveStep, DynamicBehind!SlaveStep, Dynamic2!TakeChunk,
         DynamicBehind!TakeChunk, Dynamic2!SlaveStart, DynamicBehind!SlaveStart,
         Dynamic2!SlaveIterate, DynamicBehind!SlaveIterate, Dynamic2!Answer,
         DynamicBehind!Answer, Dynamic2!SlaveReply, DynamicBehind!SlaveReply,
         Dynamic2!SlaveStop, DynamicBehind!SlaveStop, Dynamic2!SlaveRead,
         DynamicBehind!SlaveRead, Dynamic2!SlaveGot, DynamicBehind!SlaveGot,
         Dynamic2!InChunk, DynamicBehind!InChunk, Dynamic2!Result, DynamicBehind!Result,
         Dynamic2!Chunk, DynamicBehind!Chunk, Dynamic2!Send, DynamicBehind!Send,
         Dynamic2!Drop, DynamicBehind!Drop, Dynamic2!Bump, DynamicBehind!Bump,
         Dynamic2!Arrived, DynamicBehind!Arrived, Dynamic2!slaveVars,
         DynamicBehind!slaveVars, Dynamic2!farmVars, DynamicBehind!farmVars,
         Dynamic2!Element, DynamicBehind!Element

LEMMA OldDynamicBehindMaster ==
  ASSUME StopsAhead, spc1' = spc1, OldDynamic2!Master PROVE OldDynamicBehind!Master
<1>1. CASE OldDynamic2!Seed
  <2>1. to2 \in Slave
    BY <1>1 DEF OldDynamic2!Seed, OldDynamic2!Slave, Slave
  <2>2. OldDynamicBehind!Seed
    BY <1>1, <2>1, DynamicBehindHandOut
       DEF OldDynamic2!Seed, OldDynamicBehind!Seed, OldDynamic2!Slave,
           OldDynamicBehind!Slave, OldDynamic2!slaveVars, OldDynamicBehind!slaveVars
  <2> QED
    BY <2>2 DEF OldDynamicBehind!Master
<1>2. CASE OldDynamic2!EndSeed
  BY <1>2, BehindSame
     DEF OldDynamic2!EndSeed, OldDynamicBehind!EndSeed, OldDynamicBehind!Master,
         OldDynamic2!slaveVars, OldDynamicBehind!slaveVars, OldDynamic2!farmVars,
         OldDynamicBehind!farmVars
<1>3. ASSUME NEW s \in Slave, OldDynamic2!ServeChunk(s) PROVE OldDynamicBehind!Master
  <2>1. OldDynamicBehind!ServeChunk(s)
    BY <1>3, DynamicBehindHandOut, DynamicBehindDismiss
       DEF OldDynamic2!ServeChunk, OldDynamicBehind!ServeChunk, OldDynamic2!GrantFull,
           OldDynamicBehind!GrantFull, OldDynamic2!GrantRest, OldDynamicBehind!GrantRest,
           OldDynamic2!RestIsShort, OldDynamicBehind!RestIsShort, OldDynamic2!NoGrant,
           OldDynamicBehind!NoGrant, OldDynamic2!Bump, OldDynamicBehind!Bump,
           OldDynamic2!Slice, OldDynamicBehind!Slice, OldDynamic2!Drop,
           OldDynamicBehind!Drop, OldDynamic2!AllKilled, OldDynamicBehind!AllKilled,
           OldDynamic2!slaveVars, OldDynamicBehind!slaveVars
  <2> QED
    BY <2>1 DEF OldDynamicBehind!Master, OldDynamicBehind!Slave, Slave
<1> QED
  BY <1>1, <1>2, <1>3 DEF OldDynamic2!Master, OldDynamic2!Slave, Slave

LEMMA OldDynamicBehindSlave ==
  ASSUME StopsAhead, spc1' = spc1, NEW s \in Slave, spc1[s] = "done", OldDynamic2!SlaveStep(s)
  PROVE  OldDynamicBehind!SlaveStep(s)
<1>1. toSlave2[s] = toSlave[s]
  BY BehindOwn
<1>2. /\ toSlave' = toSlave => toSlave2' = toSlave2
      /\ toSlave' = [toSlave EXCEPT ![s] = Tail(@)] =>
           toSlave2' = [toSlave2 EXCEPT ![s] = Tail(@)]
  BY BehindSame, BehindTail
<1> QED
  BY <1>1, <1>2
     DEF OldDynamic2!SlaveStep, OldDynamicBehind!SlaveStep, OldDynamic2!TakeChunk,
         OldDynamicBehind!TakeChunk, OldDynamic2!SlaveStart, OldDynamicBehind!SlaveStart,
         OldDynamic2!SlaveIterate, OldDynamicBehind!SlaveIterate, OldDynamic2!Answer,
         OldDynamicBehind!Answer, OldDynamic2!SlaveReply, OldDynamicBehind!SlaveReply,
         OldDynamic2!SlaveStop, OldDynamicBehind!SlaveStop, OldDynamic2!InChunk,
         OldDynamicBehind!InChunk, OldDynamic2!Result, OldDynamicBehind!Result,
         OldDynamic2!Chunk, OldDynamicBehind!Chunk, OldDynamic2!Send,
         OldDynamicBehind!Send, OldDynamic2!Drop, OldDynamicBehind!Drop,
         OldDynamic2!Bump, OldDynamicBehind!Bump, OldDynamic2!Arrived,
         OldDynamicBehind!Arrived, OldDynamic2!farmVars, OldDynamicBehind!farmVars

(***************************************************************************)
(* The static blocks.                                                      *)
(***************************************************************************)
LEMMA StaticBehindMaster ==
  ASSUME StopsAhead, spc1' = spc1, from2 \in Slave \/ ~(mpc2 = "serve"), Static2!Master
  PROVE  StaticBehind!Master
<1> USE DEF StaticBehind!Master, Static2!slaveVars, StaticBehind!slaveVars, Static2!Send,
            StaticBehind!Send, Static2!Chunk, StaticBehind!Chunk, Static2!Drop,
            StaticBehind!Drop, Static2!Arrived, StaticBehind!Arrived
<1>1. CASE Static2!Seed
  <2>1. to2 \in Slave
    BY <1>1 DEF Static2!Seed, Static2!Slave, Slave
  <2> QED
    BY <1>1, <2>1, BehindAppend
       DEF Static2!Seed, StaticBehind!Seed, Static2!Slave, StaticBehind!Slave,
           Static2!SentOffset, StaticBehind!SentOffset, Static2!SentSize,
           StaticBehind!SentSize, Static2!StaticOffset, StaticBehind!StaticOffset,
           Static2!StaticSize, StaticBehind!StaticSize, Static2!Quotient,
           StaticBehind!Quotient, Static2!Remainder, StaticBehind!Remainder,
           Static2!Total, StaticBehind!Total
<1>2. CASE Static2!EndSeed
  BY <1>2, BehindSame DEF Static2!EndSeed, StaticBehind!EndSeed
<1>3. CASE Static2!Collect
  <2>1. from2 \in Slave
    BY <1>3 DEF Static2!Collect
  <2> QED
    BY <1>3, <2>1, BehindAppend
       DEF Static2!Collect, StaticBehind!Collect, Static2!Stop, StaticBehind!Stop,
           Static2!Bump, StaticBehind!Bump, Static2!Slice, StaticBehind!Slice,
           Static2!Stored, StaticBehind!Stored, Static2!StoredOffset,
           StaticBehind!StoredOffset, Static2!StoredSize, StaticBehind!StoredSize,
           Static2!StaticOffset, StaticBehind!StaticOffset, Static2!StaticSize,
           StaticBehind!StaticSize, Static2!Quotient, StaticBehind!Quotient,
           Static2!Remainder, StaticBehind!Remainder, Static2!Total,
           StaticBehind!Total, Static2!LastSlave, StaticBehind!LastSlave
<1>4. CASE Static2!ServeRead
  <2>1. from2 \in Slave
    BY <1>4 DEF Static2!ServeRead
  <2> QED
    BY <1>4, <2>1, BehindAppend
       DEF Static2!ServeRead, StaticBehind!ServeRead, Static2!AnswerRead,
           StaticBehind!AnswerRead, Static2!Element, StaticBehind!Element
<1> QED
  BY <1>1, <1>2, <1>3, <1>4 DEF Static2!Master

LEMMA StaticBehindSlave ==
  ASSUME StopsAhead, spc1' = spc1, NEW s \in Slave, spc1[s] = "done", Static2!SlaveStep(s)
  PROVE  StaticBehind!SlaveStep(s)
<1>1. toSlave2[s] = toSlave[s]
  BY BehindOwn
<1>2. /\ toSlave' = toSlave => toSlave2' = toSlave2
      /\ toSlave' = [toSlave EXCEPT ![s] = Tail(@)] =>
           toSlave2' = [toSlave2 EXCEPT ![s] = Tail(@)]
  BY BehindSame, BehindTail
<1> QED
  BY <1>1, <1>2
     DEF Static2!SlaveStep, StaticBehind!SlaveStep, Static2!TakeShare,
         StaticBehind!TakeShare, Static2!OwnOffset, StaticBehind!OwnOffset,
         Static2!StaticOffset, StaticBehind!StaticOffset, Static2!Quotient,
         StaticBehind!Quotient, Static2!Total, StaticBehind!Total,
         Static2!Remainder, StaticBehind!Remainder, Static2!SlaveStart,
         StaticBehind!SlaveStart, Static2!SlaveIterate, StaticBehind!SlaveIterate,
         Static2!Answer, StaticBehind!Answer, Static2!SlaveReply,
         StaticBehind!SlaveReply, Static2!SlaveStop, StaticBehind!SlaveStop,
         Static2!SlaveRead, StaticBehind!SlaveRead, Static2!SlaveGot,
         StaticBehind!SlaveGot, Static2!InChunk, StaticBehind!InChunk,
         Static2!Result, StaticBehind!Result, Static2!Chunk, StaticBehind!Chunk,
         Static2!Partial, StaticBehind!Partial, Static2!Partials,
         StaticBehind!Partials, Static2!Send, StaticBehind!Send, Static2!Drop,
         StaticBehind!Drop, Static2!Bump, StaticBehind!Bump, Static2!Arrived,
         StaticBehind!Arrived, Static2!slaveVars, StaticBehind!slaveVars,
         Static2!Element, StaticBehind!Element

LEMMA OldStaticBehindMaster ==
  ASSUME StopsAhead, spc1' = spc1, OldStatic2!Master PROVE OldStaticBehind!Master
<1> USE DEF OldStaticBehind!Master, OldStatic2!slaveVars, OldStaticBehind!slaveVars,
            OldStatic2!extraVars, OldStaticBehind!extraVars
<1>1. CASE OldStatic2!Seed
  <2> DEFINE m == OldStatic2!Chunk("ATAG", OldStatic2!SentOffset(to2), OldStatic2!OwnSize(to2))
  <2>1. to2 \in Slave /\ OldStatic2!Parameters(to2) \in Seq({m})
    <3>1. to2 \in Slave
      BY <1>1 DEF OldStatic2!Seed, OldStatic2!Slave, Slave
    <3>2. OldStatic2!PerRound \in Nat
      BY SequenceAssumption DEF OldStatic2!PerRound
    <3> HIDE DEF m
    <3>3. [k \in 1 .. OldStatic2!PerRound |-> m] \in Seq({m})
      BY <3>2, Repeated
    <3> QED
      BY <3>1, <3>3 DEF OldStatic2!Parameters, m
  <2> HIDE DEF m
  <2>2. toSlave2' = [toSlave2 EXCEPT ![to2] = @ \o OldStatic2!Parameters(to2)]
    BY <1>1, <2>1, BehindConcat DEF OldStatic2!Seed
  <2>3. OldStaticBehind!Parameters(to2) = OldStatic2!Parameters(to2)
    BY DEF OldStatic2!Parameters, OldStaticBehind!Parameters, OldStatic2!PerRound,
           OldStaticBehind!PerRound, OldStatic2!Chunk, OldStaticBehind!Chunk,
           OldStatic2!SentOffset, OldStaticBehind!SentOffset, OldStatic2!OwnSize,
           OldStaticBehind!OwnSize, OldStatic2!StaticSize, OldStaticBehind!StaticSize,
           OldStatic2!OldStaticOffset, OldStaticBehind!OldStaticOffset,
           OldStatic2!ChunkSize, OldStaticBehind!ChunkSize, OldStatic2!Quotient,
           OldStaticBehind!Quotient, OldStatic2!Remainder, OldStaticBehind!Remainder,
           OldStatic2!Total, OldStaticBehind!Total
  <2>4. OldStaticBehind!Seed
    BY <1>1, <2>2, <2>3
       DEF OldStatic2!Seed, OldStaticBehind!Seed, OldStatic2!Slave,
           OldStaticBehind!Slave, toSelf2
  <2> QED
    BY <2>4
<1>2. CASE OldStatic2!EndSeed
  <2>1. toSlave2' = toSlave2 /\ toSelf2' = toSelf2
    BY <1>2, BehindSame DEF OldStatic2!EndSeed, toSelf2
  <2>2. OldStaticBehind!EndSeed
    BY <1>2, <2>1 DEF OldStatic2!EndSeed, OldStaticBehind!EndSeed
  <2> QED
    BY <2>2
<1>3. CASE OldStatic2!Collect
  <2>1. toSlave2' = toSlave2 /\ toSelf2' = toSelf2
    BY <1>3, BehindSame DEF OldStatic2!Collect, toSelf2
  <2>2. OldStaticBehind!Collect
    BY <1>3, <2>1
       DEF OldStatic2!Collect, OldStaticBehind!Collect, OldStatic2!Slave,
           OldStaticBehind!Slave, OldStatic2!PerAnswer, OldStaticBehind!PerAnswer,
           OldStatic2!Bump, OldStaticBehind!Bump, OldStatic2!Slice,
           OldStaticBehind!Slice, OldStatic2!Stored, OldStaticBehind!Stored,
           OldStatic2!StoredOffset, OldStaticBehind!StoredOffset,
           OldStatic2!StoredSize, OldStaticBehind!StoredSize, OldStatic2!StaticSize,
           OldStaticBehind!StaticSize, OldStatic2!OldStaticOffset,
           OldStaticBehind!OldStaticOffset, OldStatic2!Quotient,
           OldStaticBehind!Quotient, OldStatic2!Remainder, OldStaticBehind!Remainder,
           OldStatic2!Total, OldStaticBehind!Total
  <2> QED
    BY <2>2
<1>4. CASE OldStatic2!StopAll
  <2>1. toSlave2' = [s \in Slave |-> Append(toSlave2[s], OldStatic2!Stop)]
    BY <1>4, BehindAppendAll DEF OldStatic2!StopAll, OldStatic2!Slave, Slave
  <2>2. toSelf2 = <<>> /\ toSelf2' = <<OldStatic2!Stop>>
    BY <1>4 DEF OldStatic2!StopAll, toSelf2, OldStatic2!Stop
  <2>3. Append(<<>>, OldStatic2!Stop) = <<OldStatic2!Stop>> /\ OldStaticBehind!Stop = OldStatic2!Stop
    BY DEF OldStatic2!Stop, OldStaticBehind!Stop, OldStatic2!Chunk, OldStaticBehind!Chunk
  <2>4. OldStaticBehind!StopAll
    BY <1>4, <2>1, <2>2, <2>3
       DEF OldStatic2!StopAll, OldStaticBehind!StopAll, OldStatic2!Slave,
           OldStaticBehind!Slave, Slave
  <2> QED
    BY <2>4
<1> QED
  BY <1>1, <1>2, <1>3, <1>4 DEF OldStatic2!Master

LEMMA OldStaticBehindSlave ==
  ASSUME StopsAhead, spc1' = spc1, NEW s \in Slave, spc1[s] = "done", OldStatic2!SlaveStep(s)
  PROVE  OldStaticBehind!SlaveStep(s)
<1>1. toSlave2[s] = toSlave[s]
  BY BehindOwn
<1>2. /\ toSlave' = toSlave => toSlave2' = toSlave2
      /\ toSlave' = [toSlave EXCEPT ![s] = Tail(@)] =>
           toSlave2' = [toSlave2 EXCEPT ![s] = Tail(@)]
  BY BehindSame, BehindTail
<1>3. mpc2' = mpc2 /\ toSelf2' = toSelf2
  <2>1. mpc2' = mpc2
    BY DEF OldStatic2!SlaveStep, OldStatic2!Receive, OldStatic2!TakeShare, OldStatic2!Leave,
           OldStatic2!Work, OldStatic2!SlaveStart, OldStatic2!SlaveIterate,
           OldStatic2!SlaveReply, OldStatic2!SlaveStop
  <2> QED
    BY <2>1 DEF toSelf2, OldStatic2!Stop, OldStatic2!Chunk
<1> QED
  BY <1>1, <1>2, <1>3
     DEF OldStatic2!SlaveStep, OldStaticBehind!SlaveStep, OldStatic2!Receive,
         OldStaticBehind!Receive, OldStatic2!TakeShare, OldStaticBehind!TakeShare,
         OldStatic2!Leave, OldStaticBehind!Leave, OldStatic2!LastOfRound,
         OldStaticBehind!LastOfRound, OldStatic2!Work, OldStaticBehind!Work,
         OldStatic2!Answers, OldStaticBehind!Answers, OldStatic2!PerRound,
         OldStaticBehind!PerRound, OldStatic2!PerAnswer, OldStaticBehind!PerAnswer,
         OldStatic2!OwnOffset, OldStaticBehind!OwnOffset, OldStatic2!OwnSize,
         OldStaticBehind!OwnSize, OldStatic2!StaticSize, OldStaticBehind!StaticSize,
         OldStatic2!OldStaticOffset, OldStaticBehind!OldStaticOffset,
         OldStatic2!Quotient, OldStaticBehind!Quotient, OldStatic2!Remainder,
         OldStaticBehind!Remainder, OldStatic2!Total, OldStaticBehind!Total,
         OldStatic2!SlaveStart, OldStaticBehind!SlaveStart, OldStatic2!SlaveIterate,
         OldStaticBehind!SlaveIterate, OldStatic2!SlaveReply,
         OldStaticBehind!SlaveReply, OldStatic2!SlaveStop, OldStaticBehind!SlaveStop,
         OldStatic2!InChunk, OldStaticBehind!InChunk, OldStatic2!Result,
         OldStaticBehind!Result, OldStatic2!Chunk, OldStaticBehind!Chunk,
         OldStatic2!Drop, OldStaticBehind!Drop, OldStatic2!Bump,
         OldStaticBehind!Bump, OldStatic2!Arrived, OldStaticBehind!Arrived,
         OldStatic2!slaveVars, OldStaticBehind!slaveVars, OldStatic2!extraVars,
         OldStaticBehind!extraVars

(***************************************************************************)
(* A step with the master in the first block is one of that block: nothing *)
(* has been sent to a slave in the second.                                 *)
(***************************************************************************)
LEMMA FirstMoves ==
  ASSUME mpc1 # "done", Unbegun, \A s \in Slave : spc1[s] = "done" => toSlave[s] = <<>>,
         Master \/ \E s \in Slave : SlaveStep(s)
  PROVE  /\ Master1 \/ \E s \in Slave : Slave1(s)
         /\ kind' = kind /\ UNCHANGED block2
         /\ sentTo' = Track(sentTo, toSlave, 1) /\ sentBy' = Track(sentBy, toMaster, 1)
<1>1. CASE Master
  BY <1>1 DEF Master, Master1, Master2, MasterBlock
<1>2. ASSUME NEW s \in Slave, SlaveStep(s)
      PROVE  /\ Slave1(s) /\ kind' = kind /\ UNCHANGED block2
             /\ sentTo' = Track(sentTo, toSlave, 1) /\ sentBy' = Track(sentBy, toMaster, 1)
  <2>1. ~Slave2(s)
    BY NoSecond DEF Slave2, SlaveBlock
  <2> QED
    BY <1>2, <2>1 DEF SlaveStep, Slave1
<1> QED
  BY <1>1, <1>2

LEMMA SecondStops == ASSUME Tracked, InSecond PROVE StopsAhead
BY DEF Tracked, InSecond, Leaving, StopsAhead

LEMMA SecondStays ==
  ASSUME Tracked, InSecond, mpc1 = "done",
         kind[1] = "oldStatic" => OldStatic1!PerRound = 1,
         \/ Master2 /\ trapped' # trapped
         \/ \E s \in Slave : Slave1(s)
  PROVE  UNCHANGED <<toSlave2, toMaster, toSelf2, block2, mpc1, runs1, merged1>>
<1>1. CASE Master2 /\ trapped' # trapped
  <2>1. TakeOwnStop /\ UNCHANGED block1
    BY <1>1 DEF Master2
  <2>2. UNCHANGED <<toSlave, toMaster, block2, spc1, mpc1, runs1, merged1, mpc2>>
    BY <2>1 DEF TakeOwnStop, block1, block2
  <2> QED
    BY <2>2, BehindSame DEF toSelf2, OldStatic2!Stop, OldStatic2!Chunk
<1>2. ASSUME NEW s \in Slave, Slave1(s)
      PROVE  UNCHANGED <<toSlave2, toMaster, toSelf2, block2, mpc1, runs1, merged1>>
  <2>1. spc1[s] # "done" /\ Leaving(s)
    BY <1>2 DEF Slave1, SlaveBlock, InSecond
  <2>2. TakesStop(s)
    BY <1>2, <2>1, LeavesFirst DEF Tracked
  <2>3. toSlave2' = toSlave2
    BY <2>1, <2>2, SecondStops, BehindStop DEF Tracked
  <2>4. UNCHANGED <<toMaster, block2, mpc2, mpc1, runs1, merged1>>
    BY <2>2 DEF TakesStop, block2
  <2> QED
    BY <2>3, <2>4 DEF toSelf2, OldStatic2!Stop, OldStatic2!Chunk
<1> QED
  BY <1>1, <1>2

(***************************************************************************)
(* A step with the master in the second block is one of that block on what *)
(* is left to it of the channels, or changes nothing of it.                *)
(***************************************************************************)
SecondMoves ==
  /\ kind[2] = "dynamic" => \/ DynamicBehind!Master
                            \/ \E s \in Slave : DynamicBehind!SlaveStep(s)
                            \/ UNCHANGED <<toSlave2, toMaster, block2>>
  /\ kind[2] = "static" => \/ StaticBehind!Master
                           \/ \E s \in Slave : StaticBehind!SlaveStep(s)
                           \/ UNCHANGED <<toSlave2, toMaster, block2>>
  /\ kind[2] = "oldDynamic" => \/ OldDynamicBehind!Master
                               \/ \E s \in Slave : OldDynamicBehind!SlaveStep(s)
                               \/ UNCHANGED <<toSlave2, toMaster, block2>>
  /\ kind[2] = "oldStatic" => \/ OldStaticBehind!Master
                              \/ \E s \in Slave : OldStaticBehind!SlaveStep(s)
                              \/ UNCHANGED <<toSlave2, toMaster, toSelf2, block2>>

LEMMA SecondRuns ==
  ASSUME Tracked, InSecond, mpc1 = "done",
         kind[1] = "oldStatic" => OldStatic1!PerRound = 1,
         kind[2] = "static" /\ mpc2 = "serve" => from2 \in Slave,
         Master \/ \E s \in Slave : SlaveStep(s)
  PROVE  SecondMoves /\ kind' = kind /\ UNCHANGED <<mpc1, runs1, merged1>>
<1>1. CASE Master
  <2>1. Master2 /\ kind' = kind /\ UNCHANGED block1
    BY <1>1 DEF Master, Master1, Master2, MasterBlock
  <2>2. CASE trapped' # trapped
    BY <2>1, <2>2, SecondStays DEF SecondMoves
  <2>3. CASE trapped' = trapped
    <3>1. spc1' = spc1 /\ UNCHANGED <<mpc1, runs1, merged1>> /\ StopsAhead
      BY <2>1, SecondStops DEF block1
    <3>2. /\ kind[2] = "dynamic" => Dynamic2!Master
          /\ kind[2] = "static" => Static2!Master
          /\ kind[2] = "oldDynamic" => OldDynamic2!Master
          /\ kind[2] = "oldStatic" => OldStatic2!Master
      BY <2>1, <2>3 DEF Master2, TakeOwnStop
    <3> QED
      BY <2>1, <3>1, <3>2, DynamicBehindMaster, StaticBehindMaster, OldDynamicBehindMaster,
         OldStaticBehindMaster
         DEF SecondMoves
  <2> QED
    BY <2>2, <2>3
<1>2. ASSUME NEW s \in Slave, SlaveStep(s)
      PROVE  SecondMoves /\ kind' = kind /\ UNCHANGED <<mpc1, runs1, merged1>>
  <2>1. kind' = kind
    BY <1>2 DEF SlaveStep
  <2>2. CASE Slave1(s)
    BY <2>1, <2>2, SecondStays DEF SecondMoves
  <2>3. CASE Slave2(s)
    <3>1. /\ spc1' = spc1 /\ UNCHANGED <<mpc1, runs1, merged1>> /\ StopsAhead
          /\ spc1[s] = "done"
      BY <2>3, SecondStops DEF Slave2, SlaveBlock, block1
    <3>2. /\ kind[2] = "dynamic" => Dynamic2!SlaveStep(s)
          /\ kind[2] = "static" => Static2!SlaveStep(s)
          /\ kind[2] = "oldDynamic" => OldDynamic2!SlaveStep(s)
          /\ kind[2] = "oldStatic" => OldStatic2!SlaveStep(s)
      BY <2>3 DEF Slave2
    <3> QED
      BY <2>1, <3>1, <3>2, DynamicBehindSlave, StaticBehindSlave, OldDynamicBehindSlave,
         OldStaticBehindSlave
         DEF SecondMoves
  <2> QED
    BY <1>2, <2>2, <2>3 DEF SlaveStep
<1> QED
  BY <1>1, <1>2

LEMMA SecondGoes ==
  ASSUME Tracked, InSecond, mpc1 = "done", [Next]_vars,
         kind[1] = "oldStatic" => OldStatic1!PerRound = 1,
         kind[2] = "static" /\ mpc2 = "serve" => from2 \in Slave
  PROVE  SecondMoves /\ kind' = kind /\ UNCHANGED <<mpc1, runs1, merged1>>
<1>1. CASE UNCHANGED vars
  BY <1>1 DEF vars, channels, block1, block2, SecondMoves, toSlave2, toSelf2,
              OldStatic2!Stop, OldStatic2!Chunk
<1>2. CASE Master \/ \E s \in Slave : SlaveStep(s)
  BY <1>2, SecondRuns
<1> QED
  BY <1>1, <1>2 DEF Next, Finished

-------------------------------------------------------------------------------
(***************************************************************************)
(* The second block, from when the master leaves the first, is a block     *)
(* alone with the channels that are left to it.                            *)
(***************************************************************************)
SecondStep == [InOrder!Two!ForNext]_(InOrder!Two!forVars)

NothingSent ==
  /\ toSlave2 = [s \in Slave |-> <<>>]
  /\ toMaster = [s \in Slave |-> <<>>]

LEMMA NothingIsSent ==
  ASSUME IsChannel(toSlave), IsChannel(toMaster), OnlyStops PROVE NothingSent
<1>1. ASSUME NEW s \in Slave, spc1[s] # "done" PROVE Tail(toSlave[s]) = <<>>
  <2>1. spc1[s] # "done" /\ Leaving(s) /\ Len(toSlave[s]) = 1
    BY <1>1 DEF OnlyStops
  <2>2. PICK S : toSlave[s] \in Seq(S)
    BY DEF IsChannel
  <2>3. Tail(toSlave[s]) \in Seq(S) /\ Len(Tail(toSlave[s])) = 0
    BY <2>1, <2>2
  <2> QED
    BY <2>3, EmptySeq
<1>2. toSlave2 = [s \in Slave |-> <<>>]
  BY <1>1 DEF toSlave2, OnlyStops
<1>3. toMaster = [s \in Slave |-> <<>>]
  BY DEF OnlyStops, IsChannel
<1> QED
  BY <1>2, <1>3 DEF NothingSent

LEMMA NothingIsSentNext ==
  (IsChannel(toSlave) /\ IsChannel(toMaster) /\ OnlyStops)' => NothingSent'
BY NothingIsSent, PTL

(***************************************************************************)
(* Steps of the two parallel loops one after the other.                    *)
(***************************************************************************)
FirstStep == [InOrder!One!ForNext]_(InOrder!One!forVars)
LoopsStep ==
  [InOrder!SequenceNext]_<<InOrder!One!forVars, InOrder!Two!forVars>>

LEMMA FirstIsLoops == FirstStep /\ UNCHANGED InOrder!Two!forVars => LoopsStep
BY DEF LoopsStep, FirstStep, InOrder!SequenceNext

LEMMA SecondIsLoops ==
  ASSUME mpc1 = "done", UNCHANGED <<mpc1, runs1, merged1>>, SecondStep PROVE LoopsStep
BY DEF LoopsStep, SecondStep, InOrder!SequenceNext, InOrder!One!forVars

LEMMA StaysIsLoops == UNCHANGED vars => LoopsStep
BY DEF vars, block1, block2, LoopsStep, InOrder!One!forVars, InOrder!Two!forVars

LEMMA InitLoops == Init => mpc1 # "done" /\ InOrder!SequenceInit
BY DEF Init, InOrder!SequenceInit, InOrder!One!ForInit, InOrder!Two!ForInit,
       Dynamic1!Init, Dynamic1!BlockInit, Dynamic1!Iteration,
       Dynamic2!Init, Dynamic2!BlockInit, Dynamic2!Iteration

-------------------------------------------------------------------------------
(***************************************************************************)
(* The first block, until the master leaves it, is that block alone.  When *)
(* the master leaves, it has nothing more to receive, and every slave has  *)
(* left or has its stop message.                                           *)
(***************************************************************************)
FirstApart ==
  /\ spc1 \in [Slave -> {"recv", "run", "await", "got", "done"}]
  /\ IsChannel(toSlave) /\ IsChannel(toMaster)
  /\ \A s \in Slave : spc1[s] = "done" => toSlave[s] = <<>>
  /\ mpc1 = "done" => \A s \in Slave :
                        /\ toMaster[s] = <<>>
                        /\ spc1[s] = "done" \/ (Leaving(s) /\ Len(toSlave[s]) = 1)

Shares1 == INSTANCE StaticFarmProofs WITH
  Start <- 0, Bound <- Bound1, mpc <- mpc1, to <- to1, spc <- spc1, offset <- offset1,
  size <- size1, iter <- iter1, runs <- runs1, merged <- merged1, from <- from1

LEMMA StaticMaster1 == ASSUME Static1!Master PROVE Shares1!Master
BY DEF Static1!Master, Shares1!Master, Static1!Seed, Shares1!Seed, Static1!EndSeed,
       Shares1!EndSeed, Static1!Collect, Shares1!Collect, Static1!ServeRead,
       Shares1!ServeRead, Static1!AnswerRead, Shares1!AnswerRead, Static1!Element,
       Shares1!Element, Static1!Send, Shares1!Send, Static1!Drop, Shares1!Drop,
       Static1!Bump, Shares1!Bump, Static1!Slice, Shares1!Slice, Static1!Arrived,
       Shares1!Arrived, Static1!Chunk, Shares1!Chunk, Static1!Stop, Shares1!Stop,
       Static1!Slave, Shares1!Slave, Static1!slaveVars, Shares1!slaveVars,
       Static1!SentOffset, Shares1!SentOffset, Static1!SentSize, Shares1!SentSize,
       Static1!Stored, Shares1!Stored, Static1!StoredOffset, Shares1!StoredOffset,
       Static1!StoredSize, Shares1!StoredSize, Static1!StaticOffset,
       Shares1!StaticOffset, Static1!StaticSize, Shares1!StaticSize, Static1!Quotient,
       Shares1!Quotient, Static1!Remainder, Shares1!Remainder, Static1!Total,
       Shares1!Total, Static1!LastSlave, Shares1!LastSlave

LEMMA StaticSlave1 == ASSUME NEW s \in Slave, Static1!SlaveStep(s) PROVE Shares1!SlaveStep(s)
BY DEF Static1!SlaveStep, Shares1!SlaveStep, Static1!TakeShare, Shares1!TakeShare,
       Static1!OwnOffset, Shares1!OwnOffset, Static1!StaticOffset, Shares1!StaticOffset,
       Static1!Quotient, Shares1!Quotient, Static1!Total, Shares1!Total,
       Static1!Remainder, Shares1!Remainder, Static1!SlaveStart, Shares1!SlaveStart,
       Static1!SlaveIterate, Shares1!SlaveIterate, Static1!Answer, Shares1!Answer,
       Static1!SlaveReply, Shares1!SlaveReply, Static1!SlaveStop, Shares1!SlaveStop,
       Static1!SlaveRead, Shares1!SlaveRead, Static1!SlaveGot, Shares1!SlaveGot,
       Static1!InChunk, Shares1!InChunk, Static1!Result, Shares1!Result, Static1!Chunk,
       Shares1!Chunk, Static1!Partial, Shares1!Partial, Static1!Partials,
       Shares1!Partials, Static1!Send, Shares1!Send, Static1!Drop, Shares1!Drop,
       Static1!Bump, Shares1!Bump, Static1!Arrived, Shares1!Arrived, Static1!slaveVars,
       Shares1!slaveVars, Static1!Element, Shares1!Element

LEMMA StaticBegins1 ==
  ASSUME Dynamic1!Init, OldStatic1!Init PROVE Shares1!Inductive
<1>1. Shares1!Init
  BY DEF OldStatic1!Init, Shares1!Init, OldStatic1!BlockInit,
         Shares1!BlockInit, OldStatic1!Slave, Shares1!Slave, OldStatic1!Iteration,
         Shares1!Iteration
<1> QED
  BY <1>1, SequenceAssumption, Shares1!InitInductive

LEMMA StaticAlone1 ==
  ASSUME Shares1!Inductive,
         \/ Static1!Master
         \/ \E s \in Slave : Static1!SlaveStep(s)
         \/ UNCHANGED <<toSlave, toMaster, toSelf, block1>>
  PROVE  Shares1!Inductive' /\ FirstStep
<1>1. [Shares1!Next]_(Shares1!vars)
  <2>1. CASE Static1!Master \/ \E s \in Slave : Static1!SlaveStep(s)
    BY <2>1, StaticMaster1, StaticSlave1 DEF Shares1!Next, Shares1!Slave, Slave
  <2>2. CASE UNCHANGED <<toSlave, toMaster, toSelf, block1>>
    BY <2>2 DEF block1, farm1, Shares1!vars, Shares1!blockVars,
        Shares1!slaveVars
  <2> QED
    BY <2>1, <2>2
<1>2. Shares1!Inductive'
  BY <1>1, SequenceAssumption, Shares1!NextInductive
<1>3. [Shares1!For!ForNext]_(Shares1!For!forVars)
  BY <1>1, <1>2, SequenceAssumption, Shares1!StepRefines
<1>4. FirstStep
  BY <1>3
     DEF FirstStep, Shares1!For!ForNext, InOrder!One!ForNext,
         Shares1!For!forVars, InOrder!One!forVars, Shares1!For!Execute,
         InOrder!One!Execute, Shares1!For!Publish, InOrder!One!Publish,
         Shares1!For!Join, InOrder!One!Join, Shares1!For!Ready,
         InOrder!One!Ready, Shares1!For!Shown, InOrder!One!Shown,
         Shares1!Iteration
<1> QED
  BY <1>2, <1>4

LEMMA StaticApart1 == ASSUME Reduced = 0, Shares1!Inductive PROVE FirstApart
<1>1. Shares1!Separate
  BY SequenceAssumption, Shares1!InductiveSeparate DEF Shares1!NoReduction
<1> QED
  BY <1>1 DEF Shares1!Separate, Shares1!Leaving, Shares1!Slave, FirstApart, IsChannel, Leaving, Slave

OldShares1 == INSTANCE OldStaticFarmProofs WITH
  Start <- 0, Bound <- Bound1, mpc <- mpc1, to <- to1, spc <- spc1, offset <- offset1,
  size <- size1, iter <- iter1, runs <- runs1, merged <- merged1,
  from <- from1, got <- got1

LEMMA OldStaticMaster1 == ASSUME OldStatic1!Master PROVE OldShares1!Master
BY DEF OldStatic1!Master, OldShares1!Master, OldStatic1!Seed, OldShares1!Seed,
       OldStatic1!EndSeed, OldShares1!EndSeed, OldStatic1!Collect, OldShares1!Collect,
       OldStatic1!StopAll, OldShares1!StopAll, OldStatic1!Parameters,
       OldShares1!Parameters, OldStatic1!SentOffset, OldShares1!SentOffset,
       OldStatic1!OwnSize, OldShares1!OwnSize, OldStatic1!StaticSize,
       OldShares1!StaticSize, OldStatic1!OldStaticOffset, OldShares1!OldStaticOffset,
       OldStatic1!ChunkSize, OldShares1!ChunkSize, OldStatic1!Quotient,
       OldShares1!Quotient, OldStatic1!Remainder, OldShares1!Remainder,
       OldStatic1!Total, OldShares1!Total, OldStatic1!PerRound, OldShares1!PerRound,
       OldStatic1!PerAnswer, OldShares1!PerAnswer, OldStatic1!Stored, OldShares1!Stored,
       OldStatic1!StoredOffset, OldShares1!StoredOffset, OldStatic1!StoredSize,
       OldShares1!StoredSize, OldStatic1!Stop, OldShares1!Stop, OldStatic1!Chunk,
       OldShares1!Chunk, OldStatic1!Bump, OldShares1!Bump, OldStatic1!Slice,
       OldShares1!Slice, OldStatic1!Slave, OldShares1!Slave, OldStatic1!slaveVars,
       OldShares1!slaveVars, OldStatic1!extraVars, OldShares1!extraVars

LEMMA OldStaticSlave1 == ASSUME NEW s \in Slave, OldStatic1!SlaveStep(s) PROVE OldShares1!SlaveStep(s)
BY DEF OldStatic1!SlaveStep, OldShares1!SlaveStep, OldStatic1!Receive,
       OldShares1!Receive, OldStatic1!TakeShare, OldShares1!TakeShare, OldStatic1!Leave,
       OldShares1!Leave, OldStatic1!LastOfRound, OldShares1!LastOfRound,
       OldStatic1!Work, OldShares1!Work, OldStatic1!Answers, OldShares1!Answers,
       OldStatic1!PerRound, OldShares1!PerRound, OldStatic1!PerAnswer,
       OldShares1!PerAnswer, OldStatic1!OwnOffset, OldShares1!OwnOffset,
       OldStatic1!OwnSize, OldShares1!OwnSize, OldStatic1!StaticSize,
       OldShares1!StaticSize, OldStatic1!OldStaticOffset, OldShares1!OldStaticOffset,
       OldStatic1!Quotient, OldShares1!Quotient, OldStatic1!Remainder,
       OldShares1!Remainder, OldStatic1!Total, OldShares1!Total, OldStatic1!SlaveStart,
       OldShares1!SlaveStart, OldStatic1!SlaveIterate, OldShares1!SlaveIterate,
       OldStatic1!SlaveReply, OldShares1!SlaveReply, OldStatic1!SlaveStop,
       OldShares1!SlaveStop, OldStatic1!InChunk, OldShares1!InChunk, OldStatic1!Result,
       OldShares1!Result, OldStatic1!Chunk, OldShares1!Chunk, OldStatic1!Drop,
       OldShares1!Drop, OldStatic1!Bump, OldShares1!Bump, OldStatic1!Arrived,
       OldShares1!Arrived, OldStatic1!slaveVars, OldShares1!slaveVars,
       OldStatic1!extraVars, OldShares1!extraVars

LEMMA OldStaticBegins1 ==
  ASSUME OldShares1!BlockIsPrinted, Dynamic1!Init, OldStatic1!Init PROVE OldShares1!Inductive
<1>1. OldShares1!Init
  BY DEF OldStatic1!Init, OldShares1!Init, OldStatic1!BlockInit,
         OldShares1!BlockInit, OldStatic1!Slave, OldShares1!Slave,
         OldStatic1!Iteration, OldShares1!Iteration
<1> QED
  BY <1>1, SequenceAssumption, OldShares1!InitInductive DEF OldShares1!FromZero

LEMMA OldStaticAlone1 ==
  ASSUME OldShares1!BlockIsPrinted, OldShares1!Inductive,
         \/ OldStatic1!Master
         \/ \E s \in Slave : OldStatic1!SlaveStep(s)
         \/ UNCHANGED <<toSlave, toMaster, toSelf, block1>>
  PROVE  OldShares1!Inductive' /\ FirstStep
<1>1. [OldShares1!Next]_(OldShares1!vars)
  <2>1. CASE OldStatic1!Master \/ \E s \in Slave : OldStatic1!SlaveStep(s)
    BY <2>1, OldStaticMaster1, OldStaticSlave1 DEF OldShares1!Next, OldShares1!Slave, Slave
  <2>2. CASE UNCHANGED <<toSlave, toMaster, toSelf, block1>>
    BY <2>2 DEF block1, farm1, OldShares1!vars, OldShares1!blockVars,
        OldShares1!slaveVars, OldShares1!extraVars
  <2> QED
    BY <2>1, <2>2
<1>2. OldShares1!Inductive'
  BY <1>1, SequenceAssumption, OldShares1!NextInductive DEF OldShares1!FromZero
<1>3. [OldShares1!For!ForNext]_(OldShares1!For!forVars)
  BY <1>1, <1>2, SequenceAssumption, OldShares1!StepRefines DEF OldShares1!FromZero
<1>4. FirstStep
  BY <1>3
     DEF FirstStep, OldShares1!For!ForNext, InOrder!One!ForNext,
         OldShares1!For!forVars, InOrder!One!forVars, OldShares1!For!Execute,
         InOrder!One!Execute, OldShares1!For!Publish, InOrder!One!Publish,
         OldShares1!For!Join, InOrder!One!Join, OldShares1!For!Ready,
         InOrder!One!Ready, OldShares1!For!Shown, InOrder!One!Shown,
         OldShares1!Iteration
<1> QED
  BY <1>2, <1>4

LEMMA OldStaticApart1 == ASSUME OldStatic1!PerRound = 1, OldShares1!Inductive PROVE FirstApart
<1>1. OldShares1!Separate
  <2>1. OldShares1!PerRound = 1 /\ OldShares1!Stages
    BY DEF OldShares1!PerRound, OldStatic1!PerRound, OldShares1!Inductive
  <2> QED
    BY <2>1, SequenceAssumption, OldShares1!StagesSeparate
<1> QED
  BY <1>1 DEF OldShares1!Separate, OldShares1!Leaving, OldShares1!Slave, FirstApart, IsChannel, Leaving, Slave

Farm1 == INSTANCE DynamicFarmProofs WITH
  Start <- 0, Bound <- Bound1, mpc <- mpc1, to <- to1, spc <- spc1, offset <- offset1,
  size <- size1, iter <- iter1, runs <- runs1, merged <- merged1,
  followIN <- followIN1, partSize <- partSize1, killed <- killed1,
  Operation <- "+", value <- 0, partial <- 0, posted <- 0

LEMMA DynamicMaster1 == ASSUME Dynamic1!Master PROVE Farm1!Master
BY DEF Dynamic1!Master, Farm1!Master, Dynamic1!Seed, Farm1!Seed, Dynamic1!EndSeed,
       Farm1!EndSeed, Dynamic1!ServeChunk, Farm1!ServeChunk, Dynamic1!ServeRead,
       Farm1!ServeRead, Dynamic1!GrantRest, Farm1!GrantRest, Dynamic1!NothingLeft,
       Farm1!NothingLeft, Dynamic1!AnswerRead, Farm1!AnswerRead, Dynamic1!Element,
       Farm1!Element, Dynamic1!Send, Farm1!Send, Dynamic1!Chunk, Farm1!Chunk,
       Dynamic1!Stop, Farm1!Stop, Dynamic1!HandOut, Farm1!HandOut, Dynamic1!GrantFull,
       Farm1!GrantFull, Dynamic1!Dismiss, Farm1!Dismiss, Dynamic1!DismissIfPast,
       Farm1!DismissIfPast, Dynamic1!AllKilled, Farm1!AllKilled, Dynamic1!Slave,
       Farm1!Slave, Dynamic1!slaveVars, Farm1!slaveVars, Dynamic1!farmVars,
       Farm1!farmVars, Dynamic1!Drop, Farm1!Drop, Dynamic1!Bump, Farm1!Bump,
       Dynamic1!Slice, Farm1!Slice, Dynamic1!Arrived, Farm1!Arrived

LEMMA DynamicSlave1 == ASSUME NEW s \in Slave, Dynamic1!SlaveStep(s) PROVE Farm1!SlaveStep(s)
BY DEF Dynamic1!SlaveStep, Farm1!SlaveStep, Dynamic1!TakeChunk, Farm1!TakeChunk,
       Dynamic1!SlaveStart, Farm1!SlaveStart, Dynamic1!SlaveIterate, Farm1!SlaveIterate,
       Dynamic1!Answer, Farm1!Answer, Dynamic1!SlaveReply, Farm1!SlaveReply,
       Dynamic1!SlaveStop, Farm1!SlaveStop, Dynamic1!SlaveRead, Farm1!SlaveRead,
       Dynamic1!SlaveGot, Farm1!SlaveGot, Dynamic1!InChunk, Farm1!InChunk,
       Dynamic1!Result, Farm1!Result, Dynamic1!Chunk, Farm1!Chunk, Dynamic1!Send,
       Farm1!Send, Dynamic1!Drop, Farm1!Drop, Dynamic1!Bump, Farm1!Bump,
       Dynamic1!Arrived, Farm1!Arrived, Dynamic1!slaveVars, Farm1!slaveVars,
       Dynamic1!farmVars, Farm1!farmVars, Dynamic1!Element, Farm1!Element

LEMMA DynamicBegins1 ==
  ASSUME Dynamic1!Init, OldStatic1!Init PROVE Farm1!Inductive
<1>1. Farm1!Init
  BY DEF Dynamic1!Init, Farm1!Init, Dynamic1!BlockInit, Farm1!BlockInit,
         Dynamic1!Slave, Farm1!Slave, Dynamic1!Iteration, Farm1!Iteration,
         Dynamic1!InitPart, Farm1!InitPart, Dynamic1!ChunkSize, Farm1!ChunkSize,
         Dynamic1!Quotient, Farm1!Quotient, Dynamic1!Total, Farm1!Total
<1> QED
  BY <1>1, SequenceAssumption, Farm1!InitInductive

LEMMA DynamicAlone1 ==
  ASSUME Farm1!Inductive,
         \/ Dynamic1!Master
         \/ \E s \in Slave : Dynamic1!SlaveStep(s)
         \/ UNCHANGED <<toSlave, toMaster, toSelf, block1>>
  PROVE  Farm1!Inductive' /\ FirstStep
<1>1. [Farm1!Next]_(Farm1!vars)
  <2>1. CASE Dynamic1!Master \/ \E s \in Slave : Dynamic1!SlaveStep(s)
    BY <2>1, DynamicMaster1, DynamicSlave1 DEF Farm1!Next, Farm1!Slave, Slave
  <2>2. CASE UNCHANGED <<toSlave, toMaster, toSelf, block1>>
    BY <2>2 DEF block1, farm1, Farm1!vars, Farm1!blockVars, Farm1!slaveVars,
        Farm1!farmVars
  <2> QED
    BY <2>1, <2>2
<1>2. Farm1!Inductive'
  BY <1>1, SequenceAssumption, Farm1!NextInductive
<1>3. [Farm1!For!ForNext]_(Farm1!For!forVars)
  BY <1>1, <1>2, SequenceAssumption, Farm1!StepRefines
<1>4. FirstStep
  BY <1>3
     DEF FirstStep, Farm1!For!ForNext, InOrder!One!ForNext,
         Farm1!For!forVars, InOrder!One!forVars, Farm1!For!Execute,
         InOrder!One!Execute, Farm1!For!Publish, InOrder!One!Publish,
         Farm1!For!Join, InOrder!One!Join, Farm1!For!Ready, InOrder!One!Ready,
         Farm1!For!Shown, InOrder!One!Shown, Farm1!Iteration
<1> QED
  BY <1>2, <1>4

LEMMA DynamicApart1 == ASSUME Farm1!Inductive PROVE FirstApart
<1>1. Farm1!Separate
  BY SequenceAssumption, Farm1!InductiveSeparate
<1> QED
  BY <1>1 DEF Farm1!Separate, Farm1!Leaving, Farm1!Slave, FirstApart, IsChannel, Leaving, Slave

OldFarm1 == INSTANCE OldDynamicFarmProofs WITH
  Start <- 0, Bound <- Bound1, mpc <- mpc1, to <- to1, spc <- spc1, offset <- offset1,
  size <- size1, iter <- iter1, runs <- runs1, merged <- merged1,
  followIN <- followIN1, partSize <- partSize1, killed <- killed1

LEMMA OldDynamicMaster1 == ASSUME OldDynamic1!Master PROVE OldFarm1!Master
BY DEF OldDynamic1!Master, OldFarm1!Master, OldDynamic1!Seed, OldFarm1!Seed,
       OldDynamic1!EndSeed, OldFarm1!EndSeed, OldDynamic1!ServeChunk,
       OldFarm1!ServeChunk, OldDynamic1!GrantRest, OldFarm1!GrantRest,
       OldDynamic1!RestIsShort, OldFarm1!RestIsShort, OldDynamic1!NoGrant,
       OldFarm1!NoGrant, OldDynamic1!Send, OldFarm1!Send, OldDynamic1!Chunk,
       OldFarm1!Chunk, OldDynamic1!Stop, OldFarm1!Stop, OldDynamic1!HandOut,
       OldFarm1!HandOut, OldDynamic1!GrantFull, OldFarm1!GrantFull, OldDynamic1!Dismiss,
       OldFarm1!Dismiss, OldDynamic1!DismissIfPast, OldFarm1!DismissIfPast,
       OldDynamic1!AllKilled, OldFarm1!AllKilled, OldDynamic1!Slave, OldFarm1!Slave,
       OldDynamic1!slaveVars, OldFarm1!slaveVars, OldDynamic1!farmVars,
       OldFarm1!farmVars, OldDynamic1!Drop, OldFarm1!Drop, OldDynamic1!Bump,
       OldFarm1!Bump, OldDynamic1!Slice, OldFarm1!Slice, OldDynamic1!Arrived,
       OldFarm1!Arrived

LEMMA OldDynamicSlave1 == ASSUME NEW s \in Slave, OldDynamic1!SlaveStep(s) PROVE OldFarm1!SlaveStep(s)
BY DEF OldDynamic1!SlaveStep, OldFarm1!SlaveStep, OldDynamic1!TakeChunk,
       OldFarm1!TakeChunk, OldDynamic1!SlaveStart, OldFarm1!SlaveStart,
       OldDynamic1!SlaveIterate, OldFarm1!SlaveIterate, OldDynamic1!Answer,
       OldFarm1!Answer, OldDynamic1!SlaveReply, OldFarm1!SlaveReply,
       OldDynamic1!SlaveStop, OldFarm1!SlaveStop, OldDynamic1!InChunk, OldFarm1!InChunk,
       OldDynamic1!Result, OldFarm1!Result, OldDynamic1!Chunk, OldFarm1!Chunk,
       OldDynamic1!Send, OldFarm1!Send, OldDynamic1!Drop, OldFarm1!Drop,
       OldDynamic1!Bump, OldFarm1!Bump, OldDynamic1!Arrived, OldFarm1!Arrived,
       OldDynamic1!slaveVars, OldFarm1!slaveVars, OldDynamic1!farmVars,
       OldFarm1!farmVars

LEMMA OldDynamicBegins1 ==
  ASSUME OldFarm1!SeedsFit, OldFarm1!RestIsShorter, Dynamic1!Init, OldStatic1!Init PROVE OldFarm1!Mapped
<1>1. OldFarm1!Init
  BY DEF Dynamic1!Init, OldFarm1!Init, Dynamic1!BlockInit,
         OldFarm1!BlockInit, Dynamic1!Slave, OldFarm1!Slave, Dynamic1!Iteration,
         OldFarm1!Iteration, Dynamic1!InitPart, OldFarm1!InitPart,
         Dynamic1!ChunkSize, OldFarm1!ChunkSize, Dynamic1!Quotient,
         OldFarm1!Quotient, Dynamic1!Total, OldFarm1!Total
<1> QED
  BY <1>1, SequenceAssumption, OldFarm1!InitMapped

LEMMA OldDynamicAlone1 ==
  ASSUME OldFarm1!SeedsFit, OldFarm1!RestIsShorter, OldFarm1!Mapped,
         \/ OldDynamic1!Master
         \/ \E s \in Slave : OldDynamic1!SlaveStep(s)
         \/ UNCHANGED <<toSlave, toMaster, toSelf, block1>>
  PROVE  OldFarm1!Mapped' /\ FirstStep
<1>1. [OldFarm1!Next]_(OldFarm1!vars)
  <2>1. CASE OldDynamic1!Master \/ \E s \in Slave : OldDynamic1!SlaveStep(s)
    BY <2>1, OldDynamicMaster1, OldDynamicSlave1 DEF OldFarm1!Next, OldFarm1!Slave, Slave
  <2>2. CASE UNCHANGED <<toSlave, toMaster, toSelf, block1>>
    BY <2>2 DEF block1, farm1, OldFarm1!vars, OldFarm1!blockVars,
        OldFarm1!slaveVars, OldFarm1!farmVars
  <2> QED
    BY <2>1, <2>2
<1>2. OldFarm1!Mapped'
  BY <1>1, SequenceAssumption, OldFarm1!NextMapped
<1>3. [OldFarm1!For!ForNext]_(OldFarm1!For!forVars)
  BY <1>1, <1>2, SequenceAssumption, OldFarm1!StepRefines
<1>4. FirstStep
  BY <1>3
     DEF FirstStep, OldFarm1!For!ForNext, InOrder!One!ForNext,
         OldFarm1!For!forVars, InOrder!One!forVars, OldFarm1!For!Execute,
         InOrder!One!Execute, OldFarm1!For!Publish, InOrder!One!Publish,
         OldFarm1!For!Join, InOrder!One!Join, OldFarm1!For!Ready,
         InOrder!One!Ready, OldFarm1!For!Shown, InOrder!One!Shown,
         OldFarm1!Iteration
<1> QED
  BY <1>2, <1>4

LEMMA OldDynamicApart1 == ASSUME OldFarm1!Mapped PROVE FirstApart
<1>1. OldFarm1!Separate
  BY SequenceAssumption, OldFarm1!MappedSeparate
<1> QED
  BY <1>1 DEF OldFarm1!Separate, OldFarm1!Leaving, OldFarm1!Slave, FirstApart, IsChannel, Leaving, Slave

(***************************************************************************)
(* The programs of which this is proved: a static block of the current     *)
(* style that comes first has no reduction (its partial results stay in    *)
(* the channels), a static block of the old style that comes first sends   *)
(* one message to each slave (with several its slaves take the messages of *)
(* the second block for those of the first), and the loop of an old block  *)
(* is as its proofs suppose.                                               *)
(***************************************************************************)
FirstFits ==
  \A p \in Programs :
    /\ p[1] = "static" => Reduced = 0
    /\ p[1] = "oldDynamic" => OldFarm1!SeedsFit /\ OldFarm1!RestIsShorter
    /\ p[1] = "oldStatic" => OldShares1!BlockIsPrinted /\ OldStatic1!PerRound = 1

FirstOK ==
  /\ kind[1] = "dynamic" => Farm1!Inductive
  /\ kind[1] = "static" => Shares1!Inductive
  /\ kind[1] = "oldDynamic" => OldFarm1!Mapped
  /\ kind[1] = "oldStatic" => OldShares1!Inductive

LEMMA Kinds ==
  ASSUME kind \in Programs
  PROVE  /\ kind[1] \in {"dynamic", "static", "oldDynamic", "oldStatic"}
         /\ kind[2] \in {"dynamic", "static", "oldDynamic", "oldStatic"}
BY SequenceAssumption

LEMMA FirstBegins == ASSUME FirstFits, Init PROVE FirstOK
BY StaticBegins1, OldStaticBegins1, DynamicBegins1, OldDynamicBegins1
   DEF Init, FirstFits, FirstOK

LEMMA FirstSeparate == ASSUME FirstFits, kind \in Programs, FirstOK PROVE FirstApart
BY Kinds, StaticApart1, OldStaticApart1, DynamicApart1, OldDynamicApart1
   DEF FirstFits, FirstOK

LEMMA FirstSeparateNext ==
  ASSUME FirstFits PROVE (kind \in Programs /\ FirstOK)' => FirstApart'
<1>1. kind \in Programs /\ FirstOK => FirstApart
  BY FirstSeparate
<1> QED
  BY <1>1, PTL

LEMMA FirstAlone ==
  ASSUME FirstFits, kind \in Programs, FirstOK, kind' = kind,
         \/ Master1
         \/ \E s \in Slave : Slave1(s)
         \/ UNCHANGED <<toSlave, toMaster, toSelf, block1>>
  PROVE  FirstOK' /\ FirstStep
<1>1. CASE kind[1] = "static"
  <2>1. \/ Static1!Master
        \/ \E s \in Slave : Static1!SlaveStep(s)
        \/ UNCHANGED <<toSlave, toMaster, toSelf, block1>>
    BY <1>1 DEF Master1, Slave1
  <2> QED
    BY <1>1, <2>1, StaticAlone1 DEF FirstOK
<1>2. CASE kind[1] = "oldStatic"
  <2>1. \/ OldStatic1!Master
        \/ \E s \in Slave : OldStatic1!SlaveStep(s)
        \/ UNCHANGED <<toSlave, toMaster, toSelf, block1>>
    BY <1>2 DEF Master1, Slave1
  <2> QED
    BY <1>2, <2>1, OldStaticAlone1 DEF FirstOK, FirstFits
<1>3. CASE kind[1] = "dynamic"
  <2>1. \/ Dynamic1!Master
        \/ \E s \in Slave : Dynamic1!SlaveStep(s)
        \/ UNCHANGED <<toSlave, toMaster, toSelf, block1>>
    BY <1>3 DEF Master1, Slave1
  <2> QED
    BY <1>3, <2>1, DynamicAlone1 DEF FirstOK
<1>4. CASE kind[1] = "oldDynamic"
  <2>1. \/ OldDynamic1!Master
        \/ \E s \in Slave : OldDynamic1!SlaveStep(s)
        \/ UNCHANGED <<toSlave, toMaster, toSelf, block1>>
    BY <1>4 DEF Master1, Slave1
  <2> QED
    BY <1>4, <2>1, OldDynamicAlone1 DEF FirstOK, FirstFits
<1> QED
  BY Kinds, <1>1, <1>2, <1>3, <1>4

-------------------------------------------------------------------------------
(***************************************************************************)
(* The invariant.                                                          *)
(***************************************************************************)
InFirst ==
  /\ FirstOK
  /\ Unbegun
  /\ MarkedFirst

SequenceOK ==
  /\ Tracked
  /\ IF mpc1 = "done" THEN InSecond ELSE InFirst

-------------------------------------------------------------------------------
(***************************************************************************)
(* Initially, and while the master is in the first block.                  *)
(***************************************************************************)
LEMMA InitSequence == ASSUME FirstFits, Init PROVE SequenceOK
<1>1. /\ mpc1 = "seed" /\ toSlave = [s \in Slave |-> <<>>] /\ toMaster = [s \in Slave |-> <<>>]
      /\ spc1 = [s \in Slave |-> "recv"] /\ got1 = [s \in Slave |-> 0]
  BY DEF Init, Dynamic1!Init, Dynamic1!BlockInit, Dynamic1!Slave, OldStatic1!Init,
         OldStatic1!Slave, Slave
<1>2. Unbegun
  BY DEF Init, Dynamic2!Init, Dynamic2!BlockInit, Dynamic2!Slave, Dynamic2!Iteration,
         OldStatic2!Init, OldStatic2!Slave, Slave, Unbegun
<1>3. /\ sentTo = [s \in Slave |-> <<>>] /\ sentBy = [s \in Slave |-> <<>>]
      /\ kind \in Programs
  BY DEF Init
<1>4. Tracked
  <2>1. IsChannel(toSlave) /\ IsChannel(toMaster)
    BY <1>1 DEF IsChannel
  <2> QED
    BY <1>1, <1>3, <2>1 DEF Marks, Tracked
<1>5. InFirst
  BY <1>2, <1>3, FirstBegins DEF InFirst, MarkedFirst, AllAre
<1> QED
  BY <1>1, <1>4, <1>5 DEF SequenceOK

(***************************************************************************)
(* A step with the master in the first block.  No slave is in the second:  *)
(* nothing has been sent to it there.                                      *)
(***************************************************************************)
LEMMA FirstKeeps ==
  ASSUME FirstFits, SequenceOK, mpc1 # "done", kind' = kind, UNCHANGED block2,
         Master1 \/ \E s \in Slave : Slave1(s),
         sentTo' = Track(sentTo, toSlave, 1), sentBy' = Track(sentBy, toMaster, 1)
  PROVE  SequenceOK' /\ TakesOwn
<1>1. /\ kind \in Programs /\ FirstOK /\ Unbegun /\ got1 \in [Slave -> Nat]
      /\ Tracked /\ InFirst
  BY DEF SequenceOK, InFirst, Tracked
<1>2. kind' \in Programs /\ FirstOK'
  BY <1>1, FirstAlone
<1>3. FirstApart /\ FirstApart'
  BY <1>1, <1>2, FirstSeparate, FirstSeparateNext
<1>4. Unbegun'
  BY <1>1 DEF Unbegun, block2, farm2
<1>5. got1' \in [Slave -> Nat]
  <2>1. CASE kind[1] = "oldStatic"
    BY <1>2, <2>1 DEF FirstOK, OldShares1!Inductive, OldShares1!Stages, OldShares1!TypeOK,
                      OldShares1!Slave, Slave
  <2>2. CASE kind[1] # "oldStatic"
    BY <1>1, <2>2 DEF Master1, Slave1
  <2> QED
    BY <2>1, <2>2
<1>6. /\ IsChannel(toSlave) /\ IsChannel(toSlave') /\ IsChannel(toMaster) /\ IsChannel(toMaster')
      /\ spc1' \in [Slave -> {"recv", "run", "await", "got", "done"}]
  BY <1>3 DEF FirstApart, IsChannel
<1>7. Tracked' /\ MarkedFirst'
  BY <1>1, <1>2, <1>5, <1>6, FirstMarks DEF InFirst
<1>8. TakesOwn
  BY <1>1, <1>3, <1>6, FirstTakes DEF FirstApart, InFirst
<1>9. CASE mpc1' # "done"
  BY <1>2, <1>4, <1>7, <1>8, <1>9 DEF SequenceOK, InFirst
<1>10. CASE mpc1' = "done"
  <2>1. OnlyStops'
    BY <1>3, <1>10 DEF FirstApart, OnlyStops, Leaving
  <2> QED
    BY <1>7, <1>8, <1>10, <2>1, LastOfFirstNext DEF SequenceOK
<1> QED
  BY <1>9, <1>10

LEMMA NextSequence ==
  ASSUME FirstFits, SequenceOK, [Next]_vars PROVE SequenceOK' /\ [TakesOwn]_vars
<1>1. CASE UNCHANGED vars
  <2>1. UNCHANGED <<toSlave, toMaster, toSelf, block1>>
    BY <1>1 DEF vars, channels
  <2>2. /\ UNCHANGED <<kind, toSlave, toMaster, sentTo, sentBy, mpc1, spc1, got1>>
        /\ UNCHANGED <<mpc2, to2, spc2, offset2, size2, iter2, runs2, merged2, followIN2,
                       partSize2, killed2, from2, got2>>
    BY <1>1 DEF vars, channels, block1, block2, farm2
  <2>3. Tracked'
    BY <2>2 DEF SequenceOK, Tracked, Marks, IsChannel
  <2>4. InSecond => InSecond'
    BY <2>2 DEF InSecond, Leaving
  <2>5. InFirst => InFirst'
    BY <2>1, <2>2, FirstAlone DEF SequenceOK, InFirst, Tracked, Unbegun, MarkedFirst
  <2> QED
    BY <1>1, <2>2, <2>3, <2>4, <2>5 DEF SequenceOK
<1>2. CASE mpc1 # "done" /\ Next
  <2>1. InFirst /\ Tracked /\ FirstApart
    BY <1>2, FirstSeparate DEF SequenceOK, InFirst, Tracked
  <2>2. CASE Master \/ \E s \in Slave : SlaveStep(s)
    <3>1. /\ Master1 \/ \E s \in Slave : Slave1(s)
          /\ kind' = kind /\ UNCHANGED block2
          /\ sentTo' = Track(sentTo, toSlave, 1) /\ sentBy' = Track(sentBy, toMaster, 1)
      BY <1>2, <2>1, <2>2, FirstMoves DEF InFirst, FirstApart
    <3> QED
      BY <1>2, <3>1, FirstKeeps
  <2> QED
    BY <1>1, <1>2, <2>2 DEF Next, Finished
<1>3. CASE mpc1 = "done" /\ Next
  <2>1. Tracked /\ InSecond
    BY <1>3 DEF SequenceOK
  <2>2. kind[1] = "oldStatic" => OldStatic1!PerRound = 1
    BY <2>1 DEF FirstFits, Tracked
  <2>3. CASE Finished
    BY <1>1, <2>3 DEF Finished
  <2>4. CASE Master \/ \E s \in Slave : SlaveStep(s)
    BY <1>3, <2>1, <2>2, <2>4, SecondNext DEF SequenceOK
  <2> QED
    BY <1>3, <2>3, <2>4 DEF Next
<1> QED
  BY <1>1, <1>2, <1>3

(***************************************************************************)
(* Of the programs above the invariant always holds: until the master      *)
(* leaves the first block it is that block alone, and afterwards the       *)
(* messages of the second follow those of the first in every channel.      *)
(***************************************************************************)
THEOREM SequenceCorrect == ASSUME FirstFits PROVE Spec => []SequenceOK
<1>1. Init => SequenceOK
  BY InitSequence
<1>2. SequenceOK /\ [Next]_vars => SequenceOK'
  BY NextSequence
<1> QED
  BY <1>1, <1>2, PTL DEF Spec

(***************************************************************************)
(* A message is received in the block that sent it, by slaves and by the   *)
(* master, for any number of slaves and iterations.                        *)
(***************************************************************************)
THEOREM RightBlockCorrect == ASSUME FirstFits PROVE Spec => RightBlock
<1>1. SequenceOK /\ [Next]_vars => [TakesOwn]_vars
  BY NextSequence
<1>2. Spec => []SequenceOK
  BY SequenceCorrect
<1> QED
  BY <1>1, <1>2, PTL DEF Spec, RightBlock
(***************************************************************************)
(* A step with the master in the first block is one of that parallel loop, *)
(* and when the master leaves, the second block can begin.                 *)
(***************************************************************************)
LEMMA FirstLeaves ==
  ASSUME FirstFits, SequenceOK, mpc1 # "done", Next
  PROVE  /\ FirstStep /\ UNCHANGED InOrder!Two!forVars
         /\ mpc1' = "done" => kind' \in Programs /\ Unbegun' /\ NothingSent'
<1>1. kind \in Programs /\ FirstOK /\ Unbegun
  BY DEF SequenceOK, InFirst, Tracked
<1>2. Master \/ \E s \in Slave : SlaveStep(s)
  <2>1. mpc2 # "done"
    BY <1>1 DEF Unbegun
  <2> QED
    BY <2>1 DEF Next, Finished, Over
<1>3. FirstApart
  BY <1>1, FirstSeparate
<1>4. /\ Master1 \/ \E s \in Slave : Slave1(s)
      /\ kind' = kind /\ UNCHANGED block2
  BY <1>1, <1>2, <1>3, FirstMoves DEF FirstApart
<1>5. FirstOK' /\ FirstStep
  BY <1>1, <1>4, FirstAlone
<1>6. UNCHANGED InOrder!Two!forVars
  BY <1>4 DEF block2, InOrder!Two!forVars
<1>7. ASSUME mpc1' = "done" PROVE kind' \in Programs /\ Unbegun' /\ NothingSent'
  <2>1. FirstApart'
    BY <1>1, <1>4, <1>5, FirstSeparateNext
  <2>2. OnlyStops'
    BY <1>7, <2>1 DEF FirstApart, OnlyStops, Leaving
  <2>3. NothingSent'
    BY <2>1, <2>2, NothingIsSentNext DEF FirstApart, IsChannel
  <2> QED
    BY <1>1, <1>4, <2>3 DEF Unbegun, block2, farm2
<1> QED
  BY <1>5, <1>6, <1>7

Shares2 == INSTANCE StaticFarmProofs WITH
  Start <- 0, Bound <- Bound2, mpc <- mpc2, to <- to2, toSlave <- toSlave2,
  spc <- spc2, offset <- offset2, size <- size2, iter <- iter2, runs <- runs2,
  merged <- merged2, from <- from2

LEMMA StaticMaster2 == ASSUME StaticBehind!Master PROVE Shares2!Master
BY DEF StaticBehind!Master, Shares2!Master, StaticBehind!Seed, Shares2!Seed,
       StaticBehind!EndSeed, Shares2!EndSeed, StaticBehind!Collect,
       Shares2!Collect, StaticBehind!ServeRead, Shares2!ServeRead,
       StaticBehind!AnswerRead, Shares2!AnswerRead, StaticBehind!Element,
       Shares2!Element, StaticBehind!Send, Shares2!Send, StaticBehind!Drop,
       Shares2!Drop, StaticBehind!Bump, Shares2!Bump, StaticBehind!Slice,
       Shares2!Slice, StaticBehind!Arrived, Shares2!Arrived, StaticBehind!Chunk,
       Shares2!Chunk, StaticBehind!Stop, Shares2!Stop, StaticBehind!Slave,
       Shares2!Slave, StaticBehind!slaveVars, Shares2!slaveVars,
       StaticBehind!SentOffset, Shares2!SentOffset, StaticBehind!SentSize,
       Shares2!SentSize, StaticBehind!Stored, Shares2!Stored,
       StaticBehind!StoredOffset, Shares2!StoredOffset, StaticBehind!StoredSize,
       Shares2!StoredSize, StaticBehind!StaticOffset, Shares2!StaticOffset,
       StaticBehind!StaticSize, Shares2!StaticSize, StaticBehind!Quotient,
       Shares2!Quotient, StaticBehind!Remainder, Shares2!Remainder,
       StaticBehind!Total, Shares2!Total, StaticBehind!LastSlave,
       Shares2!LastSlave

LEMMA StaticSlave2 == ASSUME NEW s \in Slave, StaticBehind!SlaveStep(s) PROVE Shares2!SlaveStep(s)
BY DEF StaticBehind!SlaveStep, Shares2!SlaveStep, StaticBehind!TakeShare,
       Shares2!TakeShare, StaticBehind!OwnOffset, Shares2!OwnOffset,
       StaticBehind!StaticOffset, Shares2!StaticOffset, StaticBehind!Quotient,
       Shares2!Quotient, StaticBehind!Total, Shares2!Total,
       StaticBehind!Remainder, Shares2!Remainder, StaticBehind!SlaveStart,
       Shares2!SlaveStart, StaticBehind!SlaveIterate, Shares2!SlaveIterate,
       StaticBehind!Answer, Shares2!Answer, StaticBehind!SlaveReply,
       Shares2!SlaveReply, StaticBehind!SlaveStop, Shares2!SlaveStop,
       StaticBehind!SlaveRead, Shares2!SlaveRead, StaticBehind!SlaveGot,
       Shares2!SlaveGot, StaticBehind!InChunk, Shares2!InChunk,
       StaticBehind!Result, Shares2!Result, StaticBehind!Chunk, Shares2!Chunk,
       StaticBehind!Partial, Shares2!Partial, StaticBehind!Partials,
       Shares2!Partials, StaticBehind!Send, Shares2!Send, StaticBehind!Drop,
       Shares2!Drop, StaticBehind!Bump, Shares2!Bump, StaticBehind!Arrived,
       Shares2!Arrived, StaticBehind!slaveVars, Shares2!slaveVars,
       StaticBehind!Element, Shares2!Element

LEMMA StaticBegins2 ==
  ASSUME Unbegun, NothingSent PROVE Shares2!Inductive
<1>1. Shares2!Init
  BY DEF Unbegun, NothingSent, Slave, Shares2!Init, Shares2!BlockInit,
         Shares2!Slave, Shares2!Iteration
<1> QED
  BY <1>1, SequenceAssumption, Shares2!InitInductive

LEMMA StaticAlone2 ==
  ASSUME Shares2!Inductive,
         \/ StaticBehind!Master
         \/ \E s \in Slave : StaticBehind!SlaveStep(s)
         \/ UNCHANGED <<toSlave2, toMaster, block2>>
  PROVE  Shares2!Inductive' /\ SecondStep
<1>1. [Shares2!Next]_(Shares2!vars)
  <2>1. CASE StaticBehind!Master \/ \E s \in Slave : StaticBehind!SlaveStep(s)
    BY <2>1, StaticMaster2, StaticSlave2 DEF Shares2!Next, Shares2!Slave, Slave
  <2>2. CASE UNCHANGED <<toSlave2, toMaster, block2>>
    BY <2>2 DEF block2, farm2, Shares2!vars, Shares2!blockVars,
        Shares2!slaveVars
  <2> QED
    BY <2>1, <2>2
<1>2. Shares2!Inductive'
  BY <1>1, SequenceAssumption, Shares2!NextInductive
<1>3. [Shares2!For!ForNext]_(Shares2!For!forVars)
  BY <1>1, <1>2, SequenceAssumption, Shares2!StepRefines
<1>4. SecondStep
  BY <1>3
     DEF SecondStep, Shares2!For!ForNext, InOrder!Two!ForNext,
         Shares2!For!forVars, InOrder!Two!forVars, Shares2!For!Execute,
         InOrder!Two!Execute, Shares2!For!Publish, InOrder!Two!Publish,
         Shares2!For!Join, InOrder!Two!Join, Shares2!For!Ready,
         InOrder!Two!Ready, Shares2!For!Shown, InOrder!Two!Shown,
         Shares2!Iteration
<1> QED
  BY <1>2, <1>4

OldShares2 == INSTANCE OldStaticFarmProofs WITH
  Start <- 0, Bound <- Bound2, mpc <- mpc2, to <- to2, toSlave <- toSlave2,
  spc <- spc2, offset <- offset2, size <- size2, iter <- iter2, runs <- runs2,
  merged <- merged2, from <- from2, got <- got2, toSelf <- toSelf2

LEMMA OldStaticMaster2 == ASSUME OldStaticBehind!Master PROVE OldShares2!Master
BY DEF OldStaticBehind!Master, OldShares2!Master, OldStaticBehind!Seed,
       OldShares2!Seed, OldStaticBehind!EndSeed, OldShares2!EndSeed,
       OldStaticBehind!Collect, OldShares2!Collect, OldStaticBehind!StopAll,
       OldShares2!StopAll, OldStaticBehind!Parameters, OldShares2!Parameters,
       OldStaticBehind!SentOffset, OldShares2!SentOffset,
       OldStaticBehind!OwnSize, OldShares2!OwnSize, OldStaticBehind!StaticSize,
       OldShares2!StaticSize, OldStaticBehind!OldStaticOffset,
       OldShares2!OldStaticOffset, OldStaticBehind!ChunkSize,
       OldShares2!ChunkSize, OldStaticBehind!Quotient, OldShares2!Quotient,
       OldStaticBehind!Remainder, OldShares2!Remainder, OldStaticBehind!Total,
       OldShares2!Total, OldStaticBehind!PerRound, OldShares2!PerRound,
       OldStaticBehind!PerAnswer, OldShares2!PerAnswer, OldStaticBehind!Stored,
       OldShares2!Stored, OldStaticBehind!StoredOffset, OldShares2!StoredOffset,
       OldStaticBehind!StoredSize, OldShares2!StoredSize, OldStaticBehind!Stop,
       OldShares2!Stop, OldStaticBehind!Chunk, OldShares2!Chunk,
       OldStaticBehind!Bump, OldShares2!Bump, OldStaticBehind!Slice,
       OldShares2!Slice, OldStaticBehind!Slave, OldShares2!Slave,
       OldStaticBehind!slaveVars, OldShares2!slaveVars,
       OldStaticBehind!extraVars, OldShares2!extraVars

LEMMA OldStaticSlave2 == ASSUME NEW s \in Slave, OldStaticBehind!SlaveStep(s) PROVE OldShares2!SlaveStep(s)
BY DEF OldStaticBehind!SlaveStep, OldShares2!SlaveStep, OldStaticBehind!Receive,
       OldShares2!Receive, OldStaticBehind!TakeShare, OldShares2!TakeShare,
       OldStaticBehind!Leave, OldShares2!Leave, OldStaticBehind!LastOfRound,
       OldShares2!LastOfRound, OldStaticBehind!Work, OldShares2!Work,
       OldStaticBehind!Answers, OldShares2!Answers, OldStaticBehind!PerRound,
       OldShares2!PerRound, OldStaticBehind!PerAnswer, OldShares2!PerAnswer,
       OldStaticBehind!OwnOffset, OldShares2!OwnOffset, OldStaticBehind!OwnSize,
       OldShares2!OwnSize, OldStaticBehind!StaticSize, OldShares2!StaticSize,
       OldStaticBehind!OldStaticOffset, OldShares2!OldStaticOffset,
       OldStaticBehind!Quotient, OldShares2!Quotient, OldStaticBehind!Remainder,
       OldShares2!Remainder, OldStaticBehind!Total, OldShares2!Total,
       OldStaticBehind!SlaveStart, OldShares2!SlaveStart,
       OldStaticBehind!SlaveIterate, OldShares2!SlaveIterate,
       OldStaticBehind!SlaveReply, OldShares2!SlaveReply,
       OldStaticBehind!SlaveStop, OldShares2!SlaveStop, OldStaticBehind!InChunk,
       OldShares2!InChunk, OldStaticBehind!Result, OldShares2!Result,
       OldStaticBehind!Chunk, OldShares2!Chunk, OldStaticBehind!Drop,
       OldShares2!Drop, OldStaticBehind!Bump, OldShares2!Bump,
       OldStaticBehind!Arrived, OldShares2!Arrived, OldStaticBehind!slaveVars,
       OldShares2!slaveVars, OldStaticBehind!extraVars, OldShares2!extraVars

LEMMA OldStaticBegins2 ==
  ASSUME OldShares2!BlockIsPrinted, Unbegun, NothingSent PROVE OldShares2!Inductive
<1>1. OldShares2!Init
  BY DEF Unbegun, NothingSent, Slave, OldShares2!Init, OldShares2!BlockInit,
         OldShares2!Slave, OldShares2!Iteration, toSelf2
<1> QED
  BY <1>1, SequenceAssumption, OldShares2!InitInductive DEF OldShares2!FromZero

LEMMA OldStaticAlone2 ==
  ASSUME OldShares2!BlockIsPrinted, OldShares2!Inductive,
         \/ OldStaticBehind!Master
         \/ \E s \in Slave : OldStaticBehind!SlaveStep(s)
         \/ UNCHANGED <<toSlave2, toMaster, toSelf2, block2>>
  PROVE  OldShares2!Inductive' /\ SecondStep
<1>1. [OldShares2!Next]_(OldShares2!vars)
  <2>1. CASE OldStaticBehind!Master \/ \E s \in Slave : OldStaticBehind!SlaveStep(s)
    BY <2>1, OldStaticMaster2, OldStaticSlave2 DEF OldShares2!Next, OldShares2!Slave, Slave
  <2>2. CASE UNCHANGED <<toSlave2, toMaster, toSelf2, block2>>
    BY <2>2 DEF block2, farm2, OldShares2!vars, OldShares2!blockVars,
        OldShares2!slaveVars, OldShares2!extraVars
  <2> QED
    BY <2>1, <2>2
<1>2. OldShares2!Inductive'
  BY <1>1, SequenceAssumption, OldShares2!NextInductive DEF OldShares2!FromZero
<1>3. [OldShares2!For!ForNext]_(OldShares2!For!forVars)
  BY <1>1, <1>2, SequenceAssumption, OldShares2!StepRefines DEF OldShares2!FromZero
<1>4. SecondStep
  BY <1>3
     DEF SecondStep, OldShares2!For!ForNext, InOrder!Two!ForNext,
         OldShares2!For!forVars, InOrder!Two!forVars, OldShares2!For!Execute,
         InOrder!Two!Execute, OldShares2!For!Publish, InOrder!Two!Publish,
         OldShares2!For!Join, InOrder!Two!Join, OldShares2!For!Ready,
         InOrder!Two!Ready, OldShares2!For!Shown, InOrder!Two!Shown,
         OldShares2!Iteration
<1> QED
  BY <1>2, <1>4

Farm2 == INSTANCE DynamicFarmProofs WITH
  Start <- 0, Bound <- Bound2, mpc <- mpc2, to <- to2, toSlave <- toSlave2,
  spc <- spc2, offset <- offset2, size <- size2, iter <- iter2, runs <- runs2,
  merged <- merged2, followIN <- followIN2, partSize <- partSize2, killed <- killed2,
  Operation <- "+", value <- 0, partial <- 0, posted <- 0

LEMMA DynamicMaster2 == ASSUME DynamicBehind!Master PROVE Farm2!Master
BY DEF DynamicBehind!Master, Farm2!Master, DynamicBehind!Seed, Farm2!Seed,
       DynamicBehind!EndSeed, Farm2!EndSeed, DynamicBehind!ServeChunk,
       Farm2!ServeChunk, DynamicBehind!ServeRead, Farm2!ServeRead,
       DynamicBehind!GrantRest, Farm2!GrantRest, DynamicBehind!NothingLeft,
       Farm2!NothingLeft, DynamicBehind!AnswerRead, Farm2!AnswerRead,
       DynamicBehind!Element, Farm2!Element, DynamicBehind!Send, Farm2!Send,
       DynamicBehind!Chunk, Farm2!Chunk, DynamicBehind!Stop, Farm2!Stop,
       DynamicBehind!HandOut, Farm2!HandOut, DynamicBehind!GrantFull,
       Farm2!GrantFull, DynamicBehind!Dismiss, Farm2!Dismiss,
       DynamicBehind!DismissIfPast, Farm2!DismissIfPast,
       DynamicBehind!AllKilled, Farm2!AllKilled, DynamicBehind!Slave,
       Farm2!Slave, DynamicBehind!slaveVars, Farm2!slaveVars,
       DynamicBehind!farmVars, Farm2!farmVars, DynamicBehind!Drop, Farm2!Drop,
       DynamicBehind!Bump, Farm2!Bump, DynamicBehind!Slice, Farm2!Slice,
       DynamicBehind!Arrived, Farm2!Arrived

LEMMA DynamicSlave2 == ASSUME NEW s \in Slave, DynamicBehind!SlaveStep(s) PROVE Farm2!SlaveStep(s)
BY DEF DynamicBehind!SlaveStep, Farm2!SlaveStep, DynamicBehind!TakeChunk,
       Farm2!TakeChunk, DynamicBehind!SlaveStart, Farm2!SlaveStart,
       DynamicBehind!SlaveIterate, Farm2!SlaveIterate, DynamicBehind!Answer,
       Farm2!Answer, DynamicBehind!SlaveReply, Farm2!SlaveReply,
       DynamicBehind!SlaveStop, Farm2!SlaveStop, DynamicBehind!SlaveRead,
       Farm2!SlaveRead, DynamicBehind!SlaveGot, Farm2!SlaveGot,
       DynamicBehind!InChunk, Farm2!InChunk, DynamicBehind!Result, Farm2!Result,
       DynamicBehind!Chunk, Farm2!Chunk, DynamicBehind!Send, Farm2!Send,
       DynamicBehind!Drop, Farm2!Drop, DynamicBehind!Bump, Farm2!Bump,
       DynamicBehind!Arrived, Farm2!Arrived, DynamicBehind!slaveVars,
       Farm2!slaveVars, DynamicBehind!farmVars, Farm2!farmVars,
       DynamicBehind!Element, Farm2!Element

LEMMA DynamicBegins2 ==
  ASSUME Unbegun, NothingSent PROVE Farm2!Inductive
<1>1. Farm2!Init
  BY DEF Unbegun, NothingSent, Slave, Farm2!Init, Farm2!BlockInit,
         Farm2!Slave, Farm2!Iteration, Farm2!ChunkSize, Farm2!Quotient,
         Farm2!Total, Dynamic2!InitPart, Dynamic2!ChunkSize, Dynamic2!Quotient,
         Dynamic2!Total, Farm2!InitPart
<1> QED
  BY <1>1, SequenceAssumption, Farm2!InitInductive

LEMMA DynamicAlone2 ==
  ASSUME Farm2!Inductive,
         \/ DynamicBehind!Master
         \/ \E s \in Slave : DynamicBehind!SlaveStep(s)
         \/ UNCHANGED <<toSlave2, toMaster, block2>>
  PROVE  Farm2!Inductive' /\ SecondStep
<1>1. [Farm2!Next]_(Farm2!vars)
  <2>1. CASE DynamicBehind!Master \/ \E s \in Slave : DynamicBehind!SlaveStep(s)
    BY <2>1, DynamicMaster2, DynamicSlave2 DEF Farm2!Next, Farm2!Slave, Slave
  <2>2. CASE UNCHANGED <<toSlave2, toMaster, block2>>
    BY <2>2 DEF block2, farm2, Farm2!vars, Farm2!blockVars, Farm2!slaveVars,
        Farm2!farmVars
  <2> QED
    BY <2>1, <2>2
<1>2. Farm2!Inductive'
  BY <1>1, SequenceAssumption, Farm2!NextInductive
<1>3. [Farm2!For!ForNext]_(Farm2!For!forVars)
  BY <1>1, <1>2, SequenceAssumption, Farm2!StepRefines
<1>4. SecondStep
  BY <1>3
     DEF SecondStep, Farm2!For!ForNext, InOrder!Two!ForNext,
         Farm2!For!forVars, InOrder!Two!forVars, Farm2!For!Execute,
         InOrder!Two!Execute, Farm2!For!Publish, InOrder!Two!Publish,
         Farm2!For!Join, InOrder!Two!Join, Farm2!For!Ready, InOrder!Two!Ready,
         Farm2!For!Shown, InOrder!Two!Shown, Farm2!Iteration
<1> QED
  BY <1>2, <1>4

OldFarm2 == INSTANCE OldDynamicFarmProofs WITH
  Start <- 0, Bound <- Bound2, mpc <- mpc2, to <- to2, toSlave <- toSlave2,
  spc <- spc2, offset <- offset2, size <- size2, iter <- iter2, runs <- runs2,
  merged <- merged2, followIN <- followIN2, partSize <- partSize2, killed <- killed2

LEMMA OldDynamicMaster2 == ASSUME OldDynamicBehind!Master PROVE OldFarm2!Master
BY DEF OldDynamicBehind!Master, OldFarm2!Master, OldDynamicBehind!Seed,
       OldFarm2!Seed, OldDynamicBehind!EndSeed, OldFarm2!EndSeed,
       OldDynamicBehind!ServeChunk, OldFarm2!ServeChunk,
       OldDynamicBehind!GrantRest, OldFarm2!GrantRest,
       OldDynamicBehind!RestIsShort, OldFarm2!RestIsShort,
       OldDynamicBehind!NoGrant, OldFarm2!NoGrant, OldDynamicBehind!Send,
       OldFarm2!Send, OldDynamicBehind!Chunk, OldFarm2!Chunk,
       OldDynamicBehind!Stop, OldFarm2!Stop, OldDynamicBehind!HandOut,
       OldFarm2!HandOut, OldDynamicBehind!GrantFull, OldFarm2!GrantFull,
       OldDynamicBehind!Dismiss, OldFarm2!Dismiss,
       OldDynamicBehind!DismissIfPast, OldFarm2!DismissIfPast,
       OldDynamicBehind!AllKilled, OldFarm2!AllKilled, OldDynamicBehind!Slave,
       OldFarm2!Slave, OldDynamicBehind!slaveVars, OldFarm2!slaveVars,
       OldDynamicBehind!farmVars, OldFarm2!farmVars, OldDynamicBehind!Drop,
       OldFarm2!Drop, OldDynamicBehind!Bump, OldFarm2!Bump,
       OldDynamicBehind!Slice, OldFarm2!Slice, OldDynamicBehind!Arrived,
       OldFarm2!Arrived

LEMMA OldDynamicSlave2 == ASSUME NEW s \in Slave, OldDynamicBehind!SlaveStep(s) PROVE OldFarm2!SlaveStep(s)
BY DEF OldDynamicBehind!SlaveStep, OldFarm2!SlaveStep,
       OldDynamicBehind!TakeChunk, OldFarm2!TakeChunk,
       OldDynamicBehind!SlaveStart, OldFarm2!SlaveStart,
       OldDynamicBehind!SlaveIterate, OldFarm2!SlaveIterate,
       OldDynamicBehind!Answer, OldFarm2!Answer, OldDynamicBehind!SlaveReply,
       OldFarm2!SlaveReply, OldDynamicBehind!SlaveStop, OldFarm2!SlaveStop,
       OldDynamicBehind!InChunk, OldFarm2!InChunk, OldDynamicBehind!Result,
       OldFarm2!Result, OldDynamicBehind!Chunk, OldFarm2!Chunk,
       OldDynamicBehind!Send, OldFarm2!Send, OldDynamicBehind!Drop,
       OldFarm2!Drop, OldDynamicBehind!Bump, OldFarm2!Bump,
       OldDynamicBehind!Arrived, OldFarm2!Arrived, OldDynamicBehind!slaveVars,
       OldFarm2!slaveVars, OldDynamicBehind!farmVars, OldFarm2!farmVars

LEMMA OldDynamicBegins2 ==
  ASSUME OldFarm2!SeedsFit, OldFarm2!RestIsShorter, Unbegun, NothingSent PROVE OldFarm2!Mapped
<1>1. OldFarm2!Init
  BY DEF Unbegun, NothingSent, Slave, OldFarm2!Init, OldFarm2!BlockInit,
         OldFarm2!Slave, OldFarm2!Iteration, OldFarm2!ChunkSize, OldFarm2!Quotient,
         OldFarm2!Total, Dynamic2!InitPart, Dynamic2!ChunkSize, Dynamic2!Quotient,
         Dynamic2!Total, OldFarm2!InitPart
<1> QED
  BY <1>1, SequenceAssumption, OldFarm2!InitMapped

LEMMA OldDynamicAlone2 ==
  ASSUME OldFarm2!SeedsFit, OldFarm2!RestIsShorter, OldFarm2!Mapped,
         \/ OldDynamicBehind!Master
         \/ \E s \in Slave : OldDynamicBehind!SlaveStep(s)
         \/ UNCHANGED <<toSlave2, toMaster, block2>>
  PROVE  OldFarm2!Mapped' /\ SecondStep
<1>1. [OldFarm2!Next]_(OldFarm2!vars)
  <2>1. CASE OldDynamicBehind!Master \/ \E s \in Slave : OldDynamicBehind!SlaveStep(s)
    BY <2>1, OldDynamicMaster2, OldDynamicSlave2 DEF OldFarm2!Next, OldFarm2!Slave, Slave
  <2>2. CASE UNCHANGED <<toSlave2, toMaster, block2>>
    BY <2>2 DEF block2, farm2, OldFarm2!vars, OldFarm2!blockVars,
        OldFarm2!slaveVars, OldFarm2!farmVars
  <2> QED
    BY <2>1, <2>2
<1>2. OldFarm2!Mapped'
  BY <1>1, SequenceAssumption, OldFarm2!NextMapped
<1>3. [OldFarm2!For!ForNext]_(OldFarm2!For!forVars)
  BY <1>1, <1>2, SequenceAssumption, OldFarm2!StepRefines
<1>4. SecondStep
  BY <1>3
     DEF SecondStep, OldFarm2!For!ForNext, InOrder!Two!ForNext,
         OldFarm2!For!forVars, InOrder!Two!forVars, OldFarm2!For!Execute,
         InOrder!Two!Execute, OldFarm2!For!Publish, InOrder!Two!Publish,
         OldFarm2!For!Join, InOrder!Two!Join, OldFarm2!For!Ready,
         InOrder!Two!Ready, OldFarm2!For!Shown, InOrder!Two!Shown,
         OldFarm2!Iteration
<1> QED
  BY <1>2, <1>4

(***************************************************************************)
(* The programs of which the refinement is proved: the loop of a second    *)
(* block of the old style is as its proofs suppose, too.                   *)
(***************************************************************************)
SecondFits ==
  \A p \in Programs :
    /\ p[2] = "oldDynamic" => OldFarm2!SeedsFit /\ OldFarm2!RestIsShorter
    /\ p[2] = "oldStatic" => OldShares2!BlockIsPrinted

SecondOK ==
  /\ kind[2] = "dynamic" => Farm2!Inductive
  /\ kind[2] = "static" => Shares2!Inductive
  /\ kind[2] = "oldDynamic" => OldFarm2!Mapped
  /\ kind[2] = "oldStatic" => OldShares2!Inductive

LEMMA SecondBegins ==
  ASSUME SecondFits, kind \in Programs, Unbegun, NothingSent PROVE SecondOK
BY StaticBegins2, OldStaticBegins2, DynamicBegins2, OldDynamicBegins2 DEF SecondFits, SecondOK

LEMMA SecondBeginsNext ==
  ASSUME SecondFits PROVE (kind \in Programs /\ Unbegun /\ NothingSent)' => SecondOK'
<1>1. kind \in Programs /\ Unbegun /\ NothingSent => SecondOK
  BY SecondBegins
<1> QED
  BY <1>1, PTL

LEMMA SharesTurn == ASSUME Shares2!Inductive, mpc2 = "serve" PROVE from2 \in Slave
BY DEF Shares2!Inductive, Shares2!MasterOK, Shares2!Slave, Slave

LEMMA SecondAlone ==
  ASSUME SecondFits, kind \in Programs, SecondOK, kind' = kind, SecondMoves
  PROVE  SecondOK' /\ SecondStep
<1>1. CASE kind[2] = "static"
  BY <1>1, StaticAlone2 DEF SecondOK, SecondMoves
<1>2. CASE kind[2] = "oldStatic"
  BY <1>2, OldStaticAlone2 DEF SecondOK, SecondMoves, SecondFits
<1>3. CASE kind[2] = "dynamic"
  BY <1>3, DynamicAlone2 DEF SecondOK, SecondMoves
<1>4. CASE kind[2] = "oldDynamic"
  BY <1>4, OldDynamicAlone2 DEF SecondOK, SecondMoves, SecondFits
<1> QED
  BY Kinds, <1>1, <1>2, <1>3, <1>4

LEMMA NextLoops ==
  ASSUME FirstFits, SecondFits, SequenceOK, mpc1 = "done" => SecondOK, [Next]_vars
  PROVE  (mpc1 = "done" => SecondOK)' /\ LoopsStep
<1>1. CASE mpc1 # "done" /\ Next
  <2>1. /\ LoopsStep
        /\ mpc1' = "done" => kind' \in Programs /\ Unbegun' /\ NothingSent'
    BY <1>1, FirstLeaves, FirstIsLoops
  <2> QED
    BY <2>1, SecondBeginsNext
<1>2. CASE mpc1 = "done"
  <2>1. Tracked /\ InSecond /\ kind \in Programs /\ SecondOK
    BY <1>2 DEF SequenceOK, Tracked
  <2>2. /\ kind[1] = "oldStatic" => OldStatic1!PerRound = 1
        /\ kind[2] = "static" /\ mpc2 = "serve" => from2 \in Slave
    BY <2>1, SharesTurn DEF SecondOK, FirstFits
  <2>3. SecondMoves /\ kind' = kind /\ UNCHANGED <<mpc1, runs1, merged1>>
    BY <1>2, <2>1, <2>2, SecondGoes
  <2>4. SecondOK' /\ SecondStep
    BY <2>1, <2>3, SecondAlone
  <2> QED
    BY <1>2, <2>3, <2>4, SecondIsLoops
<1>3. CASE mpc1 # "done" /\ UNCHANGED vars
  BY <1>3, StaysIsLoops DEF vars, block1
<1> QED
  BY <1>1, <1>2, <1>3

(***************************************************************************)
(* The two blocks are two parallel loops one after the other: no iteration *)
(* of the second runs on any slave before all results of the first are     *)
(* with the master, although nobody waits at a barrier.                    *)
(***************************************************************************)
THEOREM SequenceRefines ==
  ASSUME FirstFits, SecondFits PROVE Spec => ImplementsForSequence
<1>1. Init => InOrder!SequenceInit /\ (mpc1 = "done" => SecondOK)
  BY InitLoops
<1>2. /\ SequenceOK /\ (mpc1 = "done" => SecondOK) /\ [Next]_vars
         => /\ (mpc1 = "done" => SecondOK)'
            /\ [InOrder!SequenceNext]_<<InOrder!One!forVars, InOrder!Two!forVars>>
  BY NextLoops DEF LoopsStep
<1>3. Spec => []SequenceOK
  BY SequenceCorrect
<1> QED
  BY <1>1, <1>2, <1>3, PTL DEF Spec, ImplementsForSequence, InOrder!SequenceSpec
================================================================================
