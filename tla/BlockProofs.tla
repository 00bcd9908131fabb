------------------------------ MODULE BlockProofs ------------------------------
(***************************************************************************)
(* Machine-checked facts about the parts that all MPI blocks share: the    *)
(* arithmetic of Partition, the message layer, and the slave's loop.       *)
(***************************************************************************)
EXTENDS Block, TLAPS

(***************************************************************************)
(* Facts about sequences.  They are stated here, and the library of        *)
(* theorems about sequences is left aside, because BlockSequenceProofs has *)
(* two instances of every module that extends this one.                    *)
(***************************************************************************)
LEMMA EmptySeq ==
  ASSUME NEW S
  PROVE  /\ <<>> \in Seq(S) /\ Len(<<>>) = 0
         /\ \A q \in Seq(S) : q # <<>> => Len(q) \in Nat \ {0}
OBVIOUS

LEMMA AppendProperties ==
  ASSUME NEW S, NEW q \in Seq(S), NEW m \in S
  PROVE  /\ Append(q, m) \in Seq(S) /\ Append(q, m) # <<>>
         /\ Len(Append(q, m)) = Len(q) + 1
         /\ Append(q, m)[Len(q) + 1] = m
OBVIOUS

LEMMA HeadTailProperties ==
  ASSUME NEW S, NEW q \in Seq(S), q # <<>>
  PROVE  /\ Head(q) \in S
         /\ Tail(q) \in Seq(S) /\ Len(Tail(q)) = Len(q) - 1
         /\ \A k \in 1 .. Len(Tail(q)) : Tail(q)[k] = q[k + 1]
OBVIOUS

LEMMA ConcatProperties ==
  ASSUME NEW S, NEW q \in Seq(S), NEW r \in Seq(S)
  PROVE  /\ q \o r \in Seq(S) /\ Len(q \o r) = Len(q) + Len(r)
         /\ \A k \in 1 .. (Len(q) + Len(r)) :
              (q \o r)[k] = IF k <= Len(q) THEN q[k] ELSE r[k - Len(q)]
OBVIOUS

LEMMA SubSeqProperties ==
  ASSUME NEW S, NEW q, NEW m \in Int, NEW n \in Int, \A k \in m .. n : q[k] \in S
  PROVE  SubSeq(q, m, n) \in Seq(S)
OBVIOUS

LEMMA SeqEqual ==
  ASSUME NEW S, NEW q \in Seq(S), NEW r \in Seq(S), Len(q) = Len(r),
         \A k \in 1 .. Len(q) : q[k] = r[k]
  PROVE  q = r
OBVIOUS

(***************************************************************************)
(* C division by a positive number: it stays in the integers, in the       *)
(* naturals if the dividend is one, and never exceeds the dividend.        *)
(***************************************************************************)
LEMMA QuotientInt ==
  ASSUME NEW a \in Int, NEW b \in Nat \ {0}
  PROVE  Quotient(a, b) \in Int
BY DEF Quotient

LEMMA QuotientNat ==
  ASSUME NEW a \in Nat, NEW b \in Nat \ {0}
  PROVE  Quotient(a, b) \in Nat /\ a - b * Quotient(a, b) \in 0 .. (b - 1)
BY DEF Quotient

(***************************************************************************)
(* The first chunk size is a natural number, whatever div.data holds.      *)
(***************************************************************************)
LEMMA ChunkSizeNat ==
  ASSUME NEW fixed \in BOOLEAN, NEW number \in Nat \ {0}
  PROVE  ChunkSize(Start, Bound, W, fixed, number) \in Nat
<1> DEFINE share == Quotient(Total(Start, Bound), W)
<1>1. share \in Int
  BY BlockAssumption, QuotientInt DEF Total
<1>2. CASE fixed
  BY <1>2 DEF ChunkSize
<1>3. CASE ~fixed /\ share > 0
  <2>1. Quotient(share, number) \in Nat
    BY <1>1, <1>3, QuotientNat
  <2> QED
    BY <1>3, <2>1 DEF ChunkSize
<1>4. CASE ~fixed /\ ~(share > 0)
  BY <1>4 DEF ChunkSize
<1> QED
  BY <1>2, <1>3, <1>4

-------------------------------------------------------------------------------
(***************************************************************************)
(* What the operators of the message layer and the histories return.       *)
(***************************************************************************)
LEMMA SendType ==
  ASSUME NEW ch \in [Slave -> Seq(Message)], NEW s \in Slave, NEW m \in Message
  PROVE  Send(ch, s, m) \in [Slave -> Seq(Message)]
BY DEF Send

LEMMA DropType ==
  ASSUME NEW ch \in [Slave -> Seq(Message)], NEW s \in Slave, ch[s] # <<>>
  PROVE  /\ Drop(ch, s) \in [Slave -> Seq(Message)]
         /\ Head(ch[s]) \in Message
         /\ Head(ch[s]).offset \in Int
         /\ Head(ch[s]).size \in Nat
<1>1. /\ Head(ch[s]) \in Message
      /\ Tail(ch[s]) \in Seq(Message)
  OBVIOUS
<1> QED
  BY <1>1 DEF Drop, Message

LEMMA ChunkType ==
  ASSUME NEW tag \in Tag, NEW o \in Int, NEW n \in Nat
  PROVE  Chunk(tag, o, n) \in Message
BY DEF Chunk, Message

LEMMA StopType == Stop \in Message
BY ChunkType DEF Stop, Tag

LEMMA ElementType ==
  ASSUME NEW v \in Nat
  PROVE  Element(v) \in Message
BY ChunkType DEF Element, Tag

LEMMA BumpCounter ==
  ASSUME NEW f, Counter(f), NEW S \in SUBSET Int
  PROVE  Counter(Bump(f, S))
<1> DEFINE g == Bump(f, S)
<1>1. DOMAIN g = DOMAIN f \cup S
  BY DEF Bump
<1>2. ASSUME NEW i \in DOMAIN g
      PROVE  i \in Int /\ g[i] \in Nat
  <2> DEFINE old == IF i \in DOMAIN f THEN f[i] ELSE 0
             new == IF i \in S THEN 1 ELSE 0
  <2>1. g[i] = old + new
    BY <1>1, <1>2 DEF Bump
  <2>2. old \in Nat /\ new \in Nat
    BY DEF Counter
  <2>3. i \in Int
    BY <1>1, <1>2 DEF Counter
  <2> HIDE DEF g, old, new
  <2> QED
    BY <2>1, <2>2, <2>3
<1> QED
  BY <1>2 DEF Counter

LEMMA SliceInt ==
  ASSUME NEW o \in Int, NEW n \in Nat
  PROVE  Slice(o, n) \in SUBSET Int
BY DEF Slice

(***************************************************************************)
(* A channel that was empty holds the message sent, one with one message   *)
(* is empty after it is received; the other channels stay.                 *)
(***************************************************************************)
LEMMA SendIdle ==
  ASSUME NEW ch \in [Slave -> Seq(Message)], NEW s \in Slave, NEW m \in Message,
         ch[s] = <<>>
  PROVE  /\ Send(ch, s, m)[s] # <<>>
         /\ Len(Send(ch, s, m)[s]) = 1
         /\ Head(Send(ch, s, m)[s]) = m
         /\ \A t \in Slave : t # s => Send(ch, s, m)[t] = ch[t]
<1>1. Send(ch, s, m)[s] = Append(<<>>, m)
  BY DEF Send
<1>2. <<>> \in Seq(Message) /\ Len(<<>>) = 0
  BY EmptySeq
<1>3. /\ Append(<<>>, m) # <<>>
      /\ Len(Append(<<>>, m)) = 1
      /\ Append(<<>>, m)[1] = m
  BY <1>2, AppendProperties
<1>4. Head(Append(<<>>, m)) = m
  BY <1>3
<1> QED
  BY <1>1, <1>3, <1>4 DEF Send

LEMMA NotEmpty ==
  ASSUME NEW q \in Seq(Message), Len(q) = 1
  PROVE  q # <<>>
OBVIOUS

LEMMA DropLast ==
  ASSUME NEW ch \in [Slave -> Seq(Message)], NEW s \in Slave, Len(ch[s]) = 1
  PROVE  /\ Drop(ch, s)[s] = <<>>
         /\ \A t \in Slave : t # s => Drop(ch, s)[t] = ch[t]
<1>1. ch[s] \in Seq(Message) /\ ch[s] # <<>>
  BY NotEmpty
<1>2. Tail(ch[s]) \in Seq(Message) /\ Len(Tail(ch[s])) = 0
  BY <1>1, HeadTailProperties
<1>3. Tail(ch[s]) = <<>>
  BY <1>2, EmptySeq
<1> QED
  BY <1>3 DEF Drop

(***************************************************************************)
(* Counting iterations of the loop keeps a history to the loop.            *)
(***************************************************************************)
LEMMA BumpHistory ==
  ASSUME NEW f \in [Iteration -> Nat], NEW S \in SUBSET Iteration
  PROVE  Bump(f, S) \in [Iteration -> Nat]
<1>1. DOMAIN f \cup S = Iteration
  OBVIOUS
<1>2. ASSUME NEW i \in Iteration
      PROVE  (IF i \in DOMAIN f THEN f[i] ELSE 0) + (IF i \in S THEN 1 ELSE 0) \in Nat
  BY <1>2
<1> QED
  BY <1>1, <1>2 DEF Bump

(***************************************************************************)
(* An iteration of a chunk that lies inside the loop is one of the loop's. *)
(***************************************************************************)
LEMMA InsideLoop ==
  ASSUME NEW o \in Int, NEW n \in Nat, NEW i \in Int,
         Start <= o, o + n <= Bound, o <= i, i < o + n
  PROVE  i \in Iteration /\ i \in Slice(o, n)
BY BlockAssumption DEF Iteration, Slice

-------------------------------------------------------------------------------
(***************************************************************************)
(* The arithmetic of static shares: each lies inside the loop, that of a   *)
(* slave ends before that of the next begins, and together they are the    *)
(* whole loop.                                                             *)
(***************************************************************************)
Share == Quotient(Total(Start, Bound), W)
ShareOffset(s) == StaticOffset(Start, Bound, W, s)
ShareSize(s) == StaticSize(Start, Bound, W, s)
ShareOf(s) == Slice(ShareOffset(s), ShareSize(s))

LEMMA TimesMonotone ==
  ASSUME NEW a \in Nat, NEW b \in Int, NEW c \in Int, b <= c
  PROVE  a * b <= a * c
<1>1. PICK d \in Nat : c = b + d
  <2>1. c - b \in Nat
    OBVIOUS
  <2> QED
    BY <2>1
<1>2. a * d \in Nat /\ a * c = a * b + a * d
  BY <1>1
<1> QED
  BY <1>2

LEMMA SlaveRange ==
  ASSUME NEW s \in Slave
  PROVE  s \in Int /\ 1 <= s /\ s <= W
BY BlockAssumption DEF Slave

LEMMA ShareNat ==
  ASSUME Start <= Bound
  PROVE
  /\ W \in Nat \ {0} /\ Start \in Int /\ Bound \in Int
  /\ Share \in Nat
  /\ W * Share <= Bound - Start /\ Bound - Start < W * Share + W
<1> DEFINE total == Bound - Start
<1>1. total \in Nat /\ W \in Nat \ {0} /\ Start \in Int /\ Bound \in Int
  BY BlockAssumption
<1>2. Share \in Nat /\ total - W * Share \in 0 .. (W - 1)
  BY <1>1, QuotientNat DEF Share, Total
<1>3. W * Share \in Int
  BY <1>1, <1>2
<1> HIDE DEF total
<1>4. W * Share <= total /\ total < W * Share + W
  BY <1>1, <1>2, <1>3
<1> QED
  BY <1>1, <1>2, <1>4 DEF total

LEMMA ShareShape ==
  ASSUME NEW s \in Slave
  PROVE  /\ s \in Int /\ 1 <= s /\ s <= W
         /\ ShareOffset(s) = Share * (s - 1) + Start
         /\ s # W => ShareSize(s) = Share
         /\ s = W => ShareSize(s) = Share + (Bound - Start - W * Share)
<1>1. s \in Int /\ 1 <= s /\ s <= W
  BY BlockAssumption DEF Slave
<1> QED
  BY <1>1 DEF ShareOffset, ShareSize, StaticOffset, StaticSize, Share, Total, Remainder

LEMMA ShareEnd ==
  ASSUME Start <= Bound, NEW s \in Slave
  PROVE  /\ ShareOffset(s) \in Int
         /\ ShareSize(s) \in Nat
         /\ Start <= ShareOffset(s)
         /\ s # W => ShareOffset(s) + ShareSize(s) = Share * s + Start
         /\ s = W => ShareOffset(s) + ShareSize(s) = Bound
<1>1. s \in Int /\ 1 <= s /\ s <= W /\ Share \in Nat /\ W \in Int /\ Start \in Int /\ Bound \in Int
  BY ShareNat, ShareShape
<1>2. Share * (s - 1) = Share * s - Share /\ Share * s \in Int
  BY <1>1
<1>3. Share * (s - 1) \in Nat
  BY <1>1
<1>4. ShareOffset(s) = Share * (s - 1) + Start
  BY ShareShape
<1>5. CASE s # W
  BY <1>1, <1>2, <1>3, <1>4, <1>5, ShareShape
<1>6. CASE s = W
  <2>1. ShareSize(s) = Share + (Bound - Start - W * Share)
    BY <1>6, ShareShape
  <2>2. W * Share = Share * s /\ W * Share <= Bound - Start
    BY <1>1, <1>6, ShareNat
  <2> QED
    BY <1>1, <1>2, <1>3, <1>4, <1>6, <2>1, <2>2
<1> QED
  BY <1>5, <1>6

LEMMA ShareInside ==
  ASSUME Start <= Bound, NEW s \in Slave
  PROVE  /\ ShareOffset(s) \in Int /\ ShareSize(s) \in Nat
         /\ Start <= ShareOffset(s)
         /\ ShareOffset(s) + ShareSize(s) <= Bound
         /\ ShareOf(s) \in SUBSET Iteration
<1>1. /\ ShareOffset(s) \in Int /\ ShareSize(s) \in Nat
      /\ Start <= ShareOffset(s)
  BY ShareEnd
<1>2. s \in Int /\ s <= W /\ Share \in Nat /\ W \in Int /\ Start \in Int /\ Bound \in Int
  BY ShareNat, ShareShape
<1>3. Share * s <= Share * W
  BY <1>2, TimesMonotone
<1>4. Share * s \in Int /\ Share * W = W * Share /\ W * Share \in Int
  BY <1>2
<1>5. W * Share <= Bound - Start
  BY ShareNat
<1>6. ShareOffset(s) + ShareSize(s) <= Bound
  BY <1>2, <1>3, <1>4, <1>5, ShareEnd
<1> QED
  BY <1>1, <1>2, <1>6 DEF ShareOf, Slice, Iteration

LEMMA SharesApart ==
  ASSUME Start <= Bound, NEW s \in Slave, NEW t \in Slave, s # t,
         NEW i \in ShareOf(s)
  PROVE  i \notin ShareOf(t)
<1>1. ASSUME NEW a \in Slave, NEW b \in Slave, a < b
      PROVE  ShareOffset(a) + ShareSize(a) <= ShareOffset(b)
  <2>1. /\ a \in Int /\ b \in Int /\ a # W /\ a <= b - 1
        /\ Share \in Nat /\ W \in Int /\ Start \in Int
    BY <1>1, ShareNat, ShareShape
  <2>2. Share * a <= Share * (b - 1)
    BY <2>1, TimesMonotone
  <2>3. Share * a \in Int /\ Share * (b - 1) \in Int
    BY <2>1
  <2>4. /\ ShareOffset(a) + ShareSize(a) = Share * a + Start
        /\ ShareOffset(b) = Share * (b - 1) + Start
    BY <2>1, ShareEnd, ShareShape
  <2> QED
    BY <2>1, <2>2, <2>3, <2>4
<1>2. /\ s \in Int /\ t \in Int /\ i \in Int
      /\ ShareOffset(s) \in Int /\ ShareSize(s) \in Nat
      /\ ShareOffset(t) \in Int /\ ShareSize(t) \in Nat
  BY ShareShape, ShareInside, SliceInt DEF ShareOf
<1>3. ShareOffset(s) <= i /\ i < ShareOffset(s) + ShareSize(s)
  BY <1>2 DEF ShareOf, Slice
<1>4. CASE s < t
  BY <1>1, <1>2, <1>3, <1>4 DEF ShareOf, Slice
<1>5. CASE t < s
  BY <1>1, <1>2, <1>3, <1>5 DEF ShareOf, Slice
<1> QED
  BY <1>2, <1>4, <1>5

LEMMA SharesCover ==
  ASSUME Start <= Bound, NEW i \in Iteration
  PROVE  \E s \in Slave : i \in ShareOf(s)
<1>1. /\ i \in Int /\ Start <= i /\ i < Bound
      /\ W \in Nat \ {0} /\ Start \in Int /\ Bound \in Int /\ Share \in Nat
  BY ShareNat DEF Iteration
<1> DEFINE d == i - Start
<1>2. d \in Nat
  BY <1>1
<1>3. W \in Slave
  BY <1>1 DEF Slave
<1>4. CASE Share * (W - 1) <= d
  <2>1. ShareOffset(W) = Share * (W - 1) + Start /\ ShareOffset(W) + ShareSize(W) = Bound
    BY <1>3, ShareShape, ShareEnd
  <2>2. ShareOffset(W) \in Int /\ ShareSize(W) \in Nat /\ Share * (W - 1) \in Int
    BY <1>1, <1>3, ShareEnd
  <2>3. i \in ShareOf(W)
    BY <1>1, <1>4, <2>1, <2>2 DEF ShareOf, Slice
  <2> QED
    BY <1>3, <2>3
<1>5. CASE d < Share * (W - 1)
  <2>1. Share # 0
    BY <1>1, <1>2, <1>5
  <2> DEFINE k == Quotient(d, Share)
  <2>2. k \in Nat /\ d - Share * k \in 0 .. (Share - 1)
    BY <1>1, <1>2, <2>1, QuotientNat
  <2> HIDE DEF k
  <2>3. /\ Share * k \in Int /\ Share * (k + 1) = Share * k + Share
        /\ Share * (W - 1) \in Int
    BY <1>1, <2>2
  <2>4. Share * k <= d /\ d < Share * (k + 1)
    BY <1>1, <1>2, <2>2, <2>3
  <2>5. k < W - 1
    <3> SUFFICES ASSUME W - 1 <= k PROVE FALSE
      BY <1>1, <2>2
    <3>1. Share * (W - 1) <= Share * k
      BY <1>1, <2>2, TimesMonotone
    <3> QED
      BY <1>2, <1>5, <2>3, <2>4, <3>1
  <2>6. k + 1 \in Slave /\ k + 1 # W
    BY <1>1, <2>2, <2>5 DEF Slave
  <2>7. /\ ShareOffset(k + 1) = Share * k + Start
        /\ ShareOffset(k + 1) + ShareSize(k + 1) = Share * (k + 1) + Start
        /\ ShareOffset(k + 1) \in Int /\ ShareSize(k + 1) \in Nat
    <3>1. (k + 1) - 1 = k
      BY <2>2
    <3> QED
      BY <2>6, <3>1, ShareShape, ShareEnd
  <2>8. i \in ShareOf(k + 1)
    BY <1>1, <2>3, <2>4, <2>7 DEF ShareOf, Slice
  <2> QED
    BY <2>6, <2>8
<1>6. Share * (W - 1) \in Int
  BY <1>1
<1> QED
  BY <1>2, <1>4, <1>5, <1>6

-------------------------------------------------------------------------------
(***************************************************************************)
(* BlockTypeOK holds when a block begins and every step of a slave, and    *)
(* the master's answer to a read, keep it.                                 *)
(***************************************************************************)
LEMMA InitBlockType == BlockInit => BlockTypeOK
<1> SUFFICES ASSUME BlockInit PROVE BlockTypeOK
  OBVIOUS
<1> USE DEF BlockInit
<1>1. /\ toSlave \in [Slave -> Seq(Message)]
      /\ toMaster \in [Slave -> Seq(Message)]
  OBVIOUS
<1>2. Counter(runs) /\ Counter(merged)
  BY BlockAssumption DEF Counter, Iteration
<1> QED
  BY <1>1, <1>2, BlockAssumption DEF BlockTypeOK

LEMMA StartBlockType ==
  ASSUME BlockTypeOK, NEW s \in Slave, NEW o \in Int, NEW n \in Nat,
         SlaveStart(s, o, n)
  PROVE  BlockTypeOK'
<1> USE DEF BlockTypeOK
<1>1. toSlave' \in [Slave -> Seq(Message)]
  BY DropType DEF SlaveStart, Arrived
<1> QED
  BY <1>1 DEF SlaveStart, Counter

LEMMA IterateBlockType ==
  ASSUME BlockTypeOK, NEW s \in Slave, SlaveIterate(s)
  PROVE  BlockTypeOK'
<1> USE DEF BlockTypeOK
<1>1. Counter(runs')
  BY BumpCounter DEF SlaveIterate
<1>2. iter' \in [Slave -> Int]
  BY DEF SlaveIterate
<1> QED
  BY <1>1, <1>2 DEF SlaveIterate, Counter

LEMMA ReplyBlockType ==
  ASSUME BlockTypeOK, NEW s \in Slave,
         NEW answers \in [Slave -> Seq(Message)], SlaveReply(s, answers)
  PROVE  BlockTypeOK'
BY DEF BlockTypeOK, SlaveReply, Counter

LEMMA StopBlockType ==
  ASSUME BlockTypeOK, NEW s \in Slave, SlaveStop(s)
  PROVE  BlockTypeOK'
<1> USE DEF BlockTypeOK
<1>1. toSlave' \in [Slave -> Seq(Message)]
  BY DropType DEF SlaveStop, Arrived
<1> QED
  BY <1>1 DEF SlaveStop, Counter

LEMMA ReadBlockType ==
  ASSUME BlockTypeOK, NEW s \in Slave, NEW V \in SUBSET Nat, SlaveRead(s, V)
  PROVE  BlockTypeOK'
<1> USE DEF BlockTypeOK
<1>1. PICK v \in V : toMaster' = Send(toMaster, s, Element(v))
  BY DEF SlaveRead
<1>2. Element(v) \in Message
  BY ElementType
<1>3. toMaster' \in [Slave -> Seq(Message)]
  BY <1>1, <1>2, SendType
<1> QED
  BY <1>3 DEF SlaveRead, Counter

LEMMA GotBlockType ==
  ASSUME BlockTypeOK, NEW s \in Slave, SlaveGot(s)
  PROVE  BlockTypeOK'
<1> USE DEF BlockTypeOK
<1>1. toSlave' \in [Slave -> Seq(Message)]
  BY DropType DEF SlaveGot, Arrived
<1> QED
  BY <1>1 DEF SlaveGot, Counter

LEMMA AnswerBlockType ==
  ASSUME BlockTypeOK, NEW s \in Slave, AnswerRead(s)
  PROVE  BlockTypeOK' /\ Head(toMaster[s]).size \in Nat
<1> USE DEF BlockTypeOK
<1>1. /\ toMaster' \in [Slave -> Seq(Message)]
      /\ Head(toMaster[s]).size \in Nat
  BY DropType DEF AnswerRead, Arrived
<1>2. toSlave' \in [Slave -> Seq(Message)]
  BY <1>1, ElementType, SendType DEF AnswerRead
<1> QED
  BY <1>1, <1>2 DEF AnswerRead, slaveVars, Counter
-------------------------------------------------------------------------------
(***************************************************************************)
(* What a block must keep so that another may follow it without a barrier: *)
(* a slave that has left it has nothing more in its channel, and when the  *)
(* master leaves it nothing is left to receive but one stop message for    *)
(* each slave that is still there.                                         *)
(***************************************************************************)
Leaving(s) ==
  /\ spc[s] = "recv"
  /\ Len(toSlave[s]) = 1
  /\ Head(toSlave[s]).tag = "FTAG"

Separate ==
  /\ spc \in [Slave -> {"recv", "run", "await", "got", "done"}]
  /\ toSlave \in [Slave -> Seq(Message)]
  /\ toMaster \in [Slave -> Seq(Message)]
  /\ \A s \in Slave : spc[s] = "done" => toSlave[s] = <<>>
  /\ mpc = "done" => \A s \in Slave : toMaster[s] = <<>> /\ (spc[s] = "done" \/ Leaving(s))
===============================================================================
