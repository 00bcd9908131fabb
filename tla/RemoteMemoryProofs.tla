-------------------------- MODULE RemoteMemoryProofs --------------------------
(***************************************************************************)
(* Remote memory is right, for every number of slaves, all lists of        *)
(* variables and every number of statements in a chunk.                    *)
(***************************************************************************)
EXTENDS RemoteMemory, TLAPS, FiniteSetTheorems

(***************************************************************************)
(* Without variables to read, the announcement of an update is served as a *)
(* plain write (AfterIndex), and nothing below holds.                      *)
(***************************************************************************)
ReadsSomething == InVars # <<>>

-------------------------------------------------------------------------------
(***************************************************************************)
(* What a message can be.                                                  *)
(***************************************************************************)
Word == Nat \cup (SUBSET Place) \cup UNION {[at -> Nat] : at \in SUBSET Place}

Tag == {"RTAG", "FRTAG", "WTAG", "FWTAG", "SWTAG", "ATAG", "FTAG"}

Message ==
  [tag : Tag, what : {"index", "coords", "value"}, of : Var \cup {"none"}, x : Word]

Free == Datum("FTAG", "index", "none", 0)

Complete(m) == m.tag = "FTAG" \/ (m.what = "value" /\ m.tag \in {"WTAG", "FWTAG"})

Is(m, tag, what, v, x) == m.tag = tag /\ m.what = what /\ m.of = v /\ m.x = x

Index(m, tags, list) ==
  /\ m.what = "index" /\ m.tag \in tags
  /\ m.x \in DOMAIN list /\ m.of = list[m.x] /\ m.of \notin Scalar

Part(n, what, m) == n.what = what /\ n.tag = m.tag /\ n.of = m.of

(***************************************************************************)
(* What a slave s may send next after m: another access, an update that    *)
(* was announced, the rest of an access, or the rest of the answer.        *)
(***************************************************************************)
Begins(m, n) ==
  /\ Complete(m)
  /\ \/ Index(n, {"RTAG", "FRTAG"}, InVars)
     \/ Index(n, {"WTAG", "FWTAG"}, IoVars) /\ n.of \in Owned
     \/ Index(n, {"SWTAG"}, IoVars)
     \/ Is(n, "ATAG", "index", "none", 0)

Updates(m, n) ==
  /\ m.what = "index" /\ m.tag = "SWTAG"
  /\ \/ Index(n, {"RTAG"}, InVars)
     \/ Index(n, {"WTAG"}, IoVars) /\ n.x = m.x

Places(s, m, n) ==
  /\ m.what = "index" /\ m.tag \in {"RTAG", "FRTAG", "WTAG", "FWTAG"}
  /\ Part(n, "coords", m) /\ n.x \in SUBSET Place
  /\ n.tag \in {"WTAG", "FWTAG"} /\ n.of \in Owned => n.x = {s}

Gives(s, m, n) ==
  /\ m.tag \in {"WTAG", "FWTAG"} /\ Part(n, "value", m)
  /\ m.what = "coords" /\ n.x \in [m.x -> Nat]
  /\ n.of \in Owned => n.x[s] = s

Results(m, n) ==
  /\ m.tag = "ATAG" /\ n.tag = "ATAG"
  /\ n.what = "value" /\ n.of = "none" /\ n.x \in Nat

Follows(s, m, n) ==
  Begins(m, n) \/ Updates(m, n) \/ Places(s, m, n) \/ Gives(s, m, n) \/ Results(m, n)

-------------------------------------------------------------------------------
(***************************************************************************)
(* A channel q to the master, and the message a it has taken out of it     *)
(* last, as far as it is still in the middle of it.                        *)
(***************************************************************************)
At(a, q, i) == IF i = 0 THEN a ELSE q[i]
End(a, q) == At(a, q, Len(q))

(***************************************************************************)
(* Each message may follow the one before.  Only an update that reads the  *)
(* variable can write one it does not own, and it waits for what it reads: *)
(* no such write is behind other messages.                                 *)
(***************************************************************************)
Line(s, a, q) ==
  /\ \A i \in 1 .. Len(q) : Follows(s, At(a, q, i - 1), q[i])
  /\ \A i \in 2 .. Len(q) : q[i].what = "index" /\ q[i].tag = "WTAG" => q[i].of \in Owned

(***************************************************************************)
(* Behind the index of an answer are its scalars, and nothing else.        *)
(***************************************************************************)
Answers(q, pc) ==
  \A i \in 1 .. Len(q) : q[i].tag = "ATAG" =>
    /\ pc = "sent"
    /\ q[i].what = "index" => Len(q) - i = Len(IoScalars)

(***************************************************************************)
(* The last message before the reads and the write of the statement st.    *)
(***************************************************************************)
Home(st, m) ==
  IF st.secure
  THEN Is(m, "SWTAG", "index", st.target.var, Position(IoVars, st.target.var))
  ELSE Complete(m)

(***************************************************************************)
(* The request for operand rd + 1 of st is the end of the line.            *)
(***************************************************************************)
AskedAt(q) == Len(q) - 1

Asking(a, q, st, rd) ==
  LET r == st.operands[rd + 1]
      k == AskedAt(q)
  IN  /\ k >= 0
      /\ Is(At(a, q, k), ReadTag(r), "index", r.var, Position(InVars, r.var))
      /\ Is(q[k + 1], ReadTag(r), "coords", r.var, r.at)
      /\ k > 0 => Home(st, At(a, q, k - 1))
      /\ rd > 0 => k <= 1

Answered(a, q, ts, st, rd) ==
  LET r == st.operands[rd + 1]
  IN  /\ q = <<>>
      /\ Home(st, a)
      /\ Len(ts) = 1
      /\ ts[1].tag = ReadTag(r)
      /\ ts[1].x \in [r.at -> Nat]

(***************************************************************************)
(* Where the slave is, and what is in its two channels ts and q.           *)
(***************************************************************************)
Control(s, a, q, ts, pc, st, rd) ==
  CASE pc = "next" ->
         st = Empty /\ rd = 0 /\ ts = <<>> /\ Complete(End(a, q))
    [] pc = "reads" ->
         /\ st \in Possible(s) /\ rd \in 0 .. Len(st.operands)
         /\ ts = <<>> /\ Home(st, End(a, q))
         /\ rd > 0 => q = <<>>
    [] pc = "await" ->
         /\ st \in Possible(s) /\ rd \in 0 .. Len(st.operands) - 1
         /\ (ts = <<>> /\ Asking(a, q, st, rd)) \/ Answered(a, q, ts, st, rd)
    [] pc = "sent" ->
         /\ st = Empty /\ rd = 0
         /\ \/ ts = <<>> /\ End(a, q).tag = "ATAG"
            \/ Len(ts) = 1 /\ ts[1].tag = "FTAG" /\ q = <<>> /\ Complete(a)
    [] pc = "done" ->
         st = Empty /\ rd = 0 /\ ts = <<>> /\ q = <<>> /\ Complete(a)

(***************************************************************************)
(* Two messages after which the same may follow.                           *)
(***************************************************************************)
Alike(a, b) ==
  \/ Complete(a) /\ Complete(b)
  \/ a.tag = "ATAG" /\ b.tag = "ATAG"
  \/ Is(a, b.tag, b.what, b.of, b.x)

LEMMA FollowsAlike ==
  ASSUME NEW s, NEW a, NEW b, NEW n, Alike(a, b), Follows(s, a, n)
  PROVE  Follows(s, b, n)
  BY DEF Alike, Follows, Begins, Updates, Places, Gives, Results, Complete, Is, Part, Index

LEMMA HomeAlike ==
  ASSUME NEW st, NEW a, NEW b, Alike(a, b), Home(st, a)
  PROVE  Home(st, b)
  BY DEF Alike, Home, Complete, Is

LEMMA OneOrMore ==
  ASSUME NEW n \in Nat, n # 0
  PROVE  n >= 1 /\ (n = 1 \/ n >= 2)
  OBVIOUS

LEMMA OneLess ==
  ASSUME NEW n \in Int
  PROVE  /\ n > 0 => n - 1 >= 0
         /\ n <= 1 => n - 1 <= 1
         /\ n - 1 > 0 => n > 0
         /\ n - 1 = 0 => n = 1
  OBVIOUS

LEMMA TailFacts ==
  ASSUME NEW q \in Seq(Message), q # <<>>
  PROVE  /\ Tail(q) \in Seq(Message)
         /\ Len(q) \in Nat /\ Len(q) >= 1
         /\ Len(q) = 1 \/ Len(q) >= 2
         /\ Len(Tail(q)) = Len(q) - 1
         /\ Tail(q) = <<>> => Len(q) = 1
         /\ Head(q) = q[1]
         /\ q[1] \in Message
         /\ \A i \in 1 .. Len(q) - 1 : Tail(q)[i] = q[i + 1]
<1>1. Len(q) \in Nat /\ Len(q) # 0
  OBVIOUS
<1>2. Len(q) >= 1 /\ (Len(q) = 1 \/ Len(q) >= 2)
  BY <1>1, OneOrMore
<1>3. ASSUME Tail(q) = <<>> PROVE Len(q) = 1
  <2>1. Len(Tail(q)) = Len(q) - 1
    OBVIOUS
  <2>2. Len(<<>>) = 0
    OBVIOUS
  <2>3. Len(q) - 1 = 0
    BY <1>3, <2>1, <2>2
  <2> QED
    BY <1>1, <2>3, OneLess
<1> QED
  BY <1>1, <1>2, <1>3

LEMMA NoLength ==
  ASSUME NEW q \in Seq(Message), Len(q) = 0
  PROVE  q = <<>>
  OBVIOUS

LEMMA LineTake ==
  ASSUME NEW s, NEW a, NEW q \in Seq(Message), q # <<>>, Line(s, a, q)
  PROVE  Line(s, q[1], Tail(q)) /\ End(q[1], Tail(q)) = End(a, q)
<1>1. \A i \in 1 .. Len(Tail(q)) : Follows(s, At(q[1], Tail(q), i - 1), Tail(q)[i])
  BY TailFacts DEF Line, At
<1>2. \A i \in 2 .. Len(Tail(q)) : i + 1 \in 2 .. Len(q) /\ Tail(q)[i] = q[i + 1]
  BY TailFacts
<1>3. Line(s, q[1], Tail(q))
  BY <1>1, <1>2 DEF Line
<1>4. End(q[1], Tail(q)) = End(a, q)
  <2>1. CASE Len(q) = 1
    BY <2>1, TailFacts DEF End, At
  <2>2. CASE Len(q) >= 2
    <3>1. Len(q) - 1 \in 1 .. Len(q) - 1 /\ (Len(q) - 1) + 1 = Len(q)
      BY <2>2, TailFacts
    <3>2. Tail(q)[Len(q) - 1] = q[Len(q)]
      BY <3>1, TailFacts
    <3> QED
      BY <3>1, <3>2, TailFacts DEF End, At
  <2> QED
    BY <2>1, <2>2, TailFacts
<1> QED
  BY <1>3, <1>4

LEMMA LineAlike ==
  ASSUME NEW s, NEW a, NEW b, NEW q \in Seq(Message), Alike(a, b), Line(s, a, q)
  PROVE  Line(s, b, q)
  BY FollowsAlike DEF Line, At

LEMMA AnswersTake ==
  ASSUME NEW q \in Seq(Message), NEW pc, q # <<>>, Answers(q, pc)
  PROVE  Answers(Tail(q), pc)
  BY TailFacts DEF Answers

(***************************************************************************)
(* Lemmas about Control: another last message of the same kind, and the    *)
(* next message taken.                                                     *)
(***************************************************************************)
LEMMA EndAlike ==
  ASSUME NEW a, NEW b, NEW q, Alike(a, b)
  PROVE  Alike(End(a, q), End(b, q))
  BY DEF End, At, Alike, Is, Complete

LEMMA AskingAlike ==
  ASSUME NEW a, NEW b, NEW q \in Seq(Message), NEW st, NEW rd, Alike(a, b), Asking(a, q, st, rd)
  PROVE  Asking(b, q, st, rd)
<1> DEFINE r == st.operands[rd + 1]
           k == AskedAt(q)
<1>1. k \in Int
  BY DEF AskedAt
<1>2. Is(At(a, q, k), ReadTag(r), "index", r.var, Position(InVars, r.var)) =>
      Is(At(b, q, k), ReadTag(r), "index", r.var, Position(InVars, r.var))
  BY DEF At, Alike, Is, Complete, ReadTag
<1>3. Home(st, At(a, q, k - 1)) => Home(st, At(b, q, k - 1))
  BY HomeAlike DEF At
<1> QED
  BY <1>2, <1>3 DEF Asking

LEMMA ControlAlike ==
  ASSUME NEW s, NEW a, NEW b, NEW q \in Seq(Message), NEW ts, NEW pc, NEW st, NEW rd,
         Alike(a, b), Control(s, a, q, ts, pc, st, rd),
         pc \in {"next", "reads", "await", "sent", "done"}
  PROVE  Control(s, b, q, ts, pc, st, rd)
<1>1. Complete(End(a, q)) => Complete(End(b, q))
  BY EndAlike DEF Alike, Complete, Is
<1>2. Home(st, End(a, q)) => Home(st, End(b, q))
  BY EndAlike, HomeAlike
<1>3. End(a, q).tag = "ATAG" => End(b, q).tag = "ATAG"
  BY EndAlike DEF Alike, Complete, Is
<1>4. Complete(a) => Complete(b)
  BY DEF Alike, Complete, Is
<1>5. Answered(a, q, ts, st, rd) => Answered(b, q, ts, st, rd)
  BY HomeAlike DEF Answered
<1>6. Asking(a, q, st, rd) => Asking(b, q, st, rd)
  BY AskingAlike
<1> QED
  BY <1>1, <1>2, <1>3, <1>4, <1>5, <1>6 DEF Control

LEMMA AskingTake ==
  ASSUME NEW s, NEW a, NEW q \in Seq(Message), NEW st, NEW rd, q # <<>>,
         Line(s, a, q), Asking(a, q, st, rd), AskedAt(q) > 0
  PROVE  Asking(q[1], Tail(q), st, rd)
<1> DEFINE r == st.operands[rd + 1]
           k == AskedAt(q)
           j == AskedAt(Tail(q))
<1>1. k \in Int /\ j = k - 1 /\ k <= Len(q)
  BY TailFacts DEF AskedAt
<1>2. At(q[1], Tail(q), j) = At(a, q, k)
  BY <1>1, TailFacts DEF At
<1>3. Tail(q)[j + 1] = q[k + 1]
  BY <1>1, TailFacts DEF AskedAt, Asking
<1>4. j > 0 => At(q[1], Tail(q), j - 1) = At(a, q, k - 1)
  BY <1>1, TailFacts DEF At
<1>5. /\ k > 0
      /\ Is(At(a, q, k), ReadTag(r), "index", r.var, Position(InVars, r.var))
      /\ Is(q[k + 1], ReadTag(r), "coords", r.var, r.at)
      /\ k > 0 => Home(st, At(a, q, k - 1))
      /\ rd > 0 => k <= 1
  BY DEF Asking
<1>6. /\ j >= 0
      /\ Is(At(q[1], Tail(q), j), ReadTag(r), "index", r.var, Position(InVars, r.var))
      /\ Is(Tail(q)[j + 1], ReadTag(r), "coords", r.var, r.at)
      /\ j > 0 => Home(st, At(q[1], Tail(q), j - 1))
      /\ rd > 0 => j <= 1
  <2>1. j >= 0 /\ (k <= 1 => j <= 1) /\ (j > 0 => k > 0)
    BY <1>1, <1>5, OneLess
  <2> HIDE DEF r, k, j
  <2> QED
    BY <2>1, <1>2, <1>3, <1>4, <1>5
<1> QED
  BY <1>6 DEF Asking

(***************************************************************************)
(* A request is the end of its line: if it begins with the first message,  *)
(* that is all there is, and if the master is in the middle of a request,  *)
(* at most its coordinates are left.                                       *)
(***************************************************************************)
Request(m) == m.what = "index" /\ m.tag \in {"RTAG", "FRTAG"}

LEMMA NothingBehind ==
  ASSUME NEW s, NEW a, NEW q \in Seq(Message), Line(s, a, q), Request(a), q # <<>>
  PROVE  /\ Len(q) = 1
         /\ q[1].what = "coords" /\ q[1].tag = a.tag /\ q[1].of = a.of
         /\ q[1].x \in SUBSET Place
<1>1. Len(q) \in Nat /\ Len(q) >= 1 /\ (Len(q) = 1 \/ Len(q) >= 2)
  BY TailFacts
<1>2. Follows(s, a, q[1])
  BY <1>1 DEF Line, At
<1>3. /\ q[1].what = "coords" /\ q[1].tag = a.tag /\ q[1].of = a.of
      /\ q[1].x \in SUBSET Place
  BY <1>2 DEF Follows, Begins, Updates, Places, Gives, Results, Complete, Part, Request
<1>4. ~(Len(q) >= 2)
  <2> SUFFICES ASSUME Len(q) >= 2 PROVE FALSE
    OBVIOUS
  <2>1. Follows(s, q[1], q[2])
    BY <1>1 DEF Line, At
  <2> QED
    BY <1>3, <2>1 DEF Follows, Begins, Updates, Places, Gives, Results, Complete, Request
<1>5. Len(q) = 1
  BY <1>1, <1>4
<1> QED
  BY <1>3, <1>5

LEMMA RequestedNow ==
  ASSUME NEW s, NEW a, NEW q \in Seq(Message), NEW st, NEW rd, q # <<>>,
         Line(s, a, q), Asking(a, q, st, rd), Request(q[1])
  PROVE  AskedAt(q) = 1 /\ Home(st, a)
<1> DEFINE r == st.operands[rd + 1]
           k == AskedAt(q)
<1>1. /\ k >= 0 /\ k \in Int
      /\ Is(At(a, q, k), ReadTag(r), "index", r.var, Position(InVars, r.var))
      /\ Is(q[k + 1], ReadTag(r), "coords", r.var, r.at)
      /\ k > 0 => Home(st, At(a, q, k - 1))
  BY DEF Asking, AskedAt
<1>2. k = 1
  <2>1. Len(q) = 1 \/ (Len(q) = 2 /\ q[2].what = "coords")
    <3>1. CASE Tail(q) = <<>>
      BY <3>1, TailFacts
    <3>2. CASE Tail(q) # <<>>
      <4>1. Len(Tail(q)) = 1 /\ Tail(q)[1].what = "coords"
        BY <3>2, LineTake, TailFacts, NothingBehind
      <4> QED
        BY <4>1, TailFacts
    <3> QED
      BY <3>1, <3>2
  <2>2. k = Len(q) - 1
    BY DEF AskedAt
  <2> QED
    BY <1>1, <2>1, <2>2 DEF At, Is, Request
<1> QED
  BY <1>1, <1>2 DEF At

(***************************************************************************)
(* The master takes the next message and is in the middle of it.           *)
(***************************************************************************)
LEMMA ControlTake ==
  ASSUME NEW s, NEW a, NEW q \in Seq(Message), NEW ts, NEW pc, NEW st, NEW rd, q # <<>>,
         Line(s, a, q), Control(s, a, q, ts, pc, st, rd),
         pc \in {"next", "reads", "await", "sent", "done"},
         ~ Request(a)
  PROVE  Control(s, q[1], Tail(q), ts, pc, st, rd)
<1>1. End(q[1], Tail(q)) = End(a, q)
  BY LineTake
<1>2. CASE pc = "await"
  <2>1. /\ st \in Possible(s) /\ rd \in 0 .. Len(st.operands) - 1
        /\ ts = <<>> /\ Asking(a, q, st, rd)
    BY <1>2 DEF Control, Answered
  <2>2. AskedAt(q) > 0
    <3> DEFINE k == AskedAt(q)
    <3>1. k \in Int /\ k >= 0
      BY <2>1 DEF Asking, AskedAt
    <3>2. k # 0
      BY <2>1 DEF Asking, At, Is, Request, ReadTag
    <3> QED
      BY <3>1, <3>2
  <2> QED
    BY <1>2, <2>1, <2>2, AskingTake DEF Control
<1>3. CASE pc = "reads"
  <2>1. rd \in 0 .. Len(st.operands) /\ ~(rd > 0)
    BY <1>3 DEF Control
  <2> QED
    BY <1>1, <1>3, <2>1 DEF Control
<1> QED
  BY <1>1, <1>2, <1>3 DEF Control

-------------------------------------------------------------------------------
(***************************************************************************)
(* Putting messages behind a channel.                                      *)
(***************************************************************************)
LEMMA ConcatFacts ==
  ASSUME NEW q \in Seq(Message), NEW r \in Seq(Message)
  PROVE  /\ q \o r \in Seq(Message)
         /\ Len(q) \in Nat /\ Len(r) \in Nat
         /\ Len(q \o r) = Len(q) + Len(r)
         /\ \A i \in 1 .. Len(q) : (q \o r)[i] = q[i]
         /\ \A i \in 1 .. Len(r) : (q \o r)[Len(q) + i] = r[i]
  OBVIOUS

LEMMA InEither ==
  ASSUME NEW m \in Nat, NEW n \in Nat, NEW i \in 1 .. m + n
  PROVE  i \in 1 .. m \/ (i - m \in 1 .. n /\ i = m + (i - m))
  OBVIOUS

LEMMA EndAppend ==
  ASSUME NEW a, NEW q \in Seq(Message), NEW r \in Seq(Message)
  PROVE  /\ \A i \in 0 .. Len(q) : At(a, q \o r, i) = At(a, q, i)
         /\ \A i \in 0 .. Len(r) : At(a, q \o r, Len(q) + i) = At(End(a, q), r, i)
         /\ End(a, q \o r) = End(End(a, q), r)
<1>1. ASSUME NEW i \in 0 .. Len(q) PROVE At(a, q \o r, i) = At(a, q, i)
  BY ConcatFacts DEF At
<1>2. ASSUME NEW i \in 0 .. Len(r) PROVE At(a, q \o r, Len(q) + i) = At(End(a, q), r, i)
  <2>1. CASE i = 0
    <3>1. Len(q) \in 0 .. Len(q) /\ Len(q) + i = Len(q)
      BY <2>1, ConcatFacts
    <3> QED
      BY <1>1, <2>1, <3>1 DEF At, End
  <2>2. CASE i # 0
    <3>1. i \in 1 .. Len(r) /\ Len(q) + i # 0
      BY <2>2, ConcatFacts
    <3> QED
      BY <2>2, <3>1, ConcatFacts DEF At
  <2> QED
    BY <2>1, <2>2
<1>3. End(a, q \o r) = End(End(a, q), r)
  <2>1. Len(r) \in 0 .. Len(r) /\ Len(q \o r) = Len(q) + Len(r)
    BY ConcatFacts
  <2> QED
    BY <1>2, <2>1 DEF End
<1> QED
  BY <1>1, <1>2, <1>3

LEMMA EndLast ==
  ASSUME NEW a, NEW q \in Seq(Message), NEW r \in Seq(Message), Len(r) \in Nat \ {0}
  PROVE  End(a, q \o r) = r[Len(r)]
<1>1. End(a, q \o r) = End(End(a, q), r)
  BY EndAppend
<1> QED
  BY <1>1 DEF End, At

LEMMA LineAppend ==
  ASSUME NEW s, NEW a, NEW q \in Seq(Message), NEW r \in Seq(Message),
         Line(s, a, q), Line(s, End(a, q), r),
         q # <<>> /\ r # <<>> => \/ r[1].what # "index"
                               \/ r[1].tag # "WTAG"
                               \/ r[1].of \in Owned
  PROVE  Line(s, a, q \o r)
<1> DEFINE b == End(a, q)
<1>1. ASSUME NEW i \in 1 .. Len(q \o r) PROVE Follows(s, At(a, q \o r, i - 1), (q \o r)[i])
  <2>1. CASE i \in 1 .. Len(q)
    <3>1. i - 1 \in 0 .. Len(q)
      BY <2>1, ConcatFacts
    <3>2. At(a, q \o r, i - 1) = At(a, q, i - 1)
      BY <3>1, EndAppend
    <3>3. (q \o r)[i] = q[i]
      BY <2>1, ConcatFacts
    <3> QED
      BY <2>1, <3>2, <3>3 DEF Line
  <2>2. CASE i - Len(q) \in 1 .. Len(r) /\ i = Len(q) + (i - Len(q))
    <3> DEFINE j == i - Len(q)
    <3>1. j - 1 \in 0 .. Len(r) /\ i - 1 = Len(q) + (j - 1)
      BY <2>2, ConcatFacts
    <3>2. At(a, q \o r, i - 1) = At(b, r, j - 1)
      BY <3>1, EndAppend
    <3>3. (q \o r)[i] = r[j]
      BY <2>2, ConcatFacts
    <3> QED
      BY <2>2, <3>2, <3>3 DEF Line
  <2> QED
    BY <2>1, <2>2, ConcatFacts, InEither
<1>2. ASSUME NEW i \in 2 .. Len(q \o r),
             (q \o r)[i].what = "index", (q \o r)[i].tag = "WTAG"
      PROVE  (q \o r)[i].of \in Owned
  <2>1. CASE i \in 1 .. Len(q)
    BY <1>2, <2>1, ConcatFacts DEF Line
  <2>2. CASE i - Len(q) \in 1 .. Len(r) /\ i = Len(q) + (i - Len(q))
    <3> DEFINE j == i - Len(q)
    <3>1. (q \o r)[i] = r[j]
      BY <2>2, ConcatFacts
    <3>2. CASE j = 1
      <4>1. r # <<>> /\ q # <<>>
        BY <2>2, <3>2
      <4> QED
        BY <1>2, <3>1, <3>2, <4>1
    <3>3. CASE j \in 2 .. Len(r)
      BY <1>2, <3>1, <3>3 DEF Line
    <3> QED
      BY <2>2, <3>2, <3>3, ConcatFacts
  <2>3. i \in 1 .. Len(q) + Len(r)
    BY ConcatFacts
  <2> QED
    BY <2>1, <2>2, <2>3, ConcatFacts, InEither
<1> QED
  BY <1>1, <1>2 DEF Line

-------------------------------------------------------------------------------
(***************************************************************************)
(* What statements refer to.                                               *)
(***************************************************************************)
LEMMA PositionFacts ==
  ASSUME NEW list \in Seq(Var), NEW v \in {list[i] : i \in DOMAIN list}
  PROVE  Position(list, v) \in DOMAIN list /\ list[Position(list, v)] = v
  BY DEF Position

Readable(r) ==
  /\ r.var \in {InVars[i] : i \in DOMAIN InVars}
  /\ r.at \in SUBSET Place /\ r.at # {}
  /\ r.var \notin Scalar
  /\ r.rows \in BOOLEAN

Writable(s, r) ==
  /\ r.var \in {IoVars[i] : i \in DOMAIN IoVars}
  /\ r.at \in SUBSET Place /\ r.at # {}
  /\ r.var \notin Scalar
  /\ r.var \in Owned => r.at = {s}
  /\ r.rows \in BOOLEAN

Look(st) ==
  /\ st.secure = FALSE /\ st.target = Nowhere
  /\ Len(st.operands) = 1 /\ Readable(st.operands[1])

Put(s, st) ==
  /\ st.secure \in BOOLEAN /\ Writable(s, st.target) /\ st.target.var \in Owned
  /\ Len(st.operands) = 0
  /\ st.secure => st.target.rows = FALSE

Increment(s, st) ==
  /\ st.secure = TRUE /\ Writable(s, st.target) /\ st.target.var \in Updated
  /\ \E p \in Place : st.target = Ref(st.target.var, {p})
  /\ Len(st.operands) \in 1 .. 2
  /\ \A i \in 1 .. Len(st.operands) :
       Readable(st.operands[i]) /\ st.operands[i].rows = FALSE
  /\ st.operands[1] = st.target

LEMMA OneIsPlace == 1 \in Place /\ Slave \subseteq Nat
  BY MemoryAssumption DEF Place, Slave

LEMMA OperandFacts ==
  ASSUME NEW x, NEW y
  PROVE  /\ Len(<<>>) = 0
         /\ Len(<<x>>) = 1 /\ <<x>>[1] = x
         /\ Len(<<x, y>>) = 2 /\ <<x, y>>[1] = x /\ <<x, y>>[2] = y
  OBVIOUS

LEMMA OneOperand ==
  ASSUME NEW st, NEW r, st.operands = <<r>>
  PROVE  Len(st.operands) = 1 /\ st.operands[1] = r
  OBVIOUS

LEMMA LookKind ==
  ASSUME NEW st \in Looks
  PROVE  Look(st)
<1>1. PICK v \in Seen :
          \/ st = Statement(FALSE, <<Ref(v, {1})>>, Nowhere)
          \/ st = Statement(FALSE, <<Rows(v, Place)>>, Nowhere)
  BY DEF Looks
<1>2. CASE st = Statement(FALSE, <<Ref(v, {1})>>, Nowhere)
  <2>1. st.secure = FALSE /\ st.target = Nowhere /\ st.operands = <<Ref(v, {1})>>
    BY <1>2 DEF Statement
  <2>2. Readable(Ref(v, {1}))
    BY OneIsPlace DEF Readable, Ref, Seen
  <2> QED
    BY <2>1, <2>2, OneOperand DEF Look
<1>3. CASE st = Statement(FALSE, <<Rows(v, Place)>>, Nowhere)
  <2>1. st.secure = FALSE /\ st.target = Nowhere /\ st.operands = <<Rows(v, Place)>>
    BY <1>3 DEF Statement
  <2>2. Readable(Rows(v, Place))
    BY <1>3, OneIsPlace DEF Readable, Rows, Seen
  <2> QED
    BY <2>1, <2>2, OneOperand DEF Look
<1> QED
  BY <1>1, <1>2, <1>3

LEMMA PutKind ==
  ASSUME NEW s \in Slave, NEW st \in Puts(s)
  PROVE  Put(s, st)
<1>1. PICK v \in {IoVars[i] : i \in DOMAIN IoVars} \cap Owned :
          \/ st = Statement(FALSE, <<>>, Ref(v, {s}))
          \/ st = Statement(FALSE, <<>>, Rows(v, {s}))
          \/ st = Statement(TRUE, <<>>, Ref(v, {s}))
  BY DEF Puts
<1>2. v \notin Scalar
  BY MemoryAssumption DEF Owned
<1>3. Writable(s, Ref(v, {s})) /\ Writable(s, Rows(v, {s}))
  BY <1>2 DEF Writable, Ref, Rows, Place
<1>4. CASE st = Statement(FALSE, <<>>, Ref(v, {s}))
  BY <1>3, <1>4, OperandFacts DEF Put, Statement, Ref
<1>5. CASE st = Statement(FALSE, <<>>, Rows(v, {s}))
  BY <1>3, <1>5, OperandFacts DEF Put, Statement, Rows
<1>6. CASE st = Statement(TRUE, <<>>, Ref(v, {s}))
  BY <1>3, <1>6, OperandFacts DEF Put, Statement, Ref
<1> QED
  BY <1>1, <1>4, <1>5, <1>6

LEMMA IncrementKind ==
  ASSUME NEW s \in Slave, NEW st \in Increments
  PROVE  Increment(s, st)
<1>1. PICK v \in Updated \ Scalar, p \in Place, w \in Seen \cup (Updated \ Scalar) :
          \/ st = Statement(TRUE, <<Ref(v, {p})>>, Ref(v, {p}))
          \/ w \in Seen /\ st = Statement(TRUE, <<Ref(v, {p}), Ref(w, {1})>>, Ref(v, {p}))
  <2> DEFINE Two(v, p) ==
               {<<Ref(v, {p})>>} \cup {<<Ref(v, {p}), Ref(w, {1})>> : w \in Seen}
             Some(v, p) == {Statement(TRUE, operands, Ref(v, {p})) : operands \in Two(v, p)}
  <2>1. Increments = UNION {Some(v, p) : v \in Updated \ Scalar, p \in Place}
    BY DEF Increments
  <2> HIDE DEF Some
  <2>2. PICK v \in Updated \ Scalar, p \in Place : st \in Some(v, p)
    BY <2>1
  <2> HIDE DEF Two
  <2>3. PICK operands \in Two(v, p) : st = Statement(TRUE, operands, Ref(v, {p}))
    BY <2>2 DEF Some
  <2>4. CASE operands = <<Ref(v, {p})>>
    BY <2>3, <2>4
  <2>5. CASE \E w \in Seen : operands = <<Ref(v, {p}), Ref(w, {1})>>
    BY <2>3, <2>5
  <2> QED
    BY <2>4, <2>5 DEF Two
<1> DEFINE r == Ref(v, {p})
           z == Ref(w, {1})
<1>2. /\ v \in {InVars[i] : i \in DOMAIN InVars}
      /\ v \in {IoVars[i] : i \in DOMAIN IoVars}
      /\ w \in {InVars[i] : i \in DOMAIN InVars} \ Scalar
  BY MemoryAssumption DEF Seen
<1>3. st.secure = TRUE /\ st.target = r /\ (st.operands = <<r>> \/ st.operands = <<r, z>>)
  BY <1>1 DEF Statement
<1>4. r.var = v /\ r.at = {p} /\ r.rows = FALSE /\ z.var = w /\ z.at = {1} /\ z.rows = FALSE
  BY DEF Ref
<1>6. Readable(r) /\ Readable(z) /\ Writable(s, r) /\ r.var \in Updated
  BY <1>2, <1>4, OneIsPlace DEF Readable, Writable, Owned
<1>7. \E q \in Place : r = Ref(r.var, {q})
  BY <1>4
<1>8. /\ Len(st.operands) \in 1 .. 2
      /\ st.operands[1] = r
      /\ \A i \in 1 .. Len(st.operands) : st.operands[i] \in {r, z}
  <2> HIDE DEF r, z
  <2>1. CASE st.operands = <<r>>
    BY <2>1
  <2>2. CASE st.operands = <<r, z>>
    BY <2>2
  <2> QED
    BY <1>3, <2>1, <2>2
<1> QED
  BY <1>3, <1>4, <1>6, <1>7, <1>8 DEF Increment

LEMMA Kinds ==
  ASSUME NEW s \in Slave, NEW st \in Possible(s)
  PROVE  Look(st) \/ Put(s, st) \/ Increment(s, st)
  BY LookKind, PutKind, IncrementKind DEF Possible

-------------------------------------------------------------------------------
(***************************************************************************)
(* The series a slave sends are lines.                                     *)
(***************************************************************************)
LEMMA LineOne ==
  ASSUME NEW s, NEW a, NEW q \in Seq(Message), Len(q) = 1, Follows(s, a, q[1])
  PROVE  Line(s, a, q)
<1>1. 1 .. Len(q) = {1} /\ 2 .. Len(q) = {}
  OBVIOUS
<1> QED
  BY <1>1 DEF Line, At

LEMMA LineTwo ==
  ASSUME NEW s, NEW a, NEW q \in Seq(Message), Len(q) = 2,
         Follows(s, a, q[1]), Follows(s, q[1], q[2]), q[2].what # "index"
  PROVE  Line(s, a, q)
<1>1. 1 .. Len(q) = {1, 2} /\ 2 .. Len(q) = {2} /\ 2 - 1 = 1 /\ 1 - 1 = 0
  OBVIOUS
<1> QED
  BY <1>1 DEF Line, At

LEMMA LineThree ==
  ASSUME NEW s, NEW a, NEW q \in Seq(Message), Len(q) = 3,
         Follows(s, a, q[1]), Follows(s, q[1], q[2]), Follows(s, q[2], q[3]),
         q[2].what # "index", q[3].what # "index"
  PROVE  Line(s, a, q)
<1>1. /\ 1 .. Len(q) = {1, 2, 3} /\ 2 .. Len(q) = {2, 3}
      /\ 3 - 1 = 2 /\ 2 - 1 = 1 /\ 1 - 1 = 0
  OBVIOUS
<1> QED
  BY <1>1 DEF Line, At

LEMMA DatumFacts ==
  ASSUME NEW tag \in Tag, NEW what \in {"index", "coords", "value"},
         NEW v \in Var \cup {"none"}, NEW x \in Word
  PROVE  /\ Datum(tag, what, v, x) \in Message
         /\ Is(Datum(tag, what, v, x), tag, what, v, x)
  BY DEF Datum, Message, Is

LEMMA Words ==
  /\ \A x \in Nat : x \in Word
  /\ \A x \in SUBSET Place : x \in Word
  /\ \A at \in SUBSET Place : \A x \in [at -> Nat] : x \in Word
  BY DEF Word

LEMMA SeriesOne ==
  ASSUME NEW m \in Message
  PROVE  /\ <<m>> \in Seq(Message) /\ Len(<<m>>) = 1 /\ <<m>>[1] = m
         /\ <<>> \in Seq(Message) /\ Len(<<>>) = 0
  OBVIOUS

LEMMA SeriesOneMore ==
  ASSUME NEW q \in Seq(Message), NEW m \in Message
  PROVE  /\ q \o <<m>> \in Seq(Message) /\ Len(q \o <<m>>) = Len(q) + 1
         /\ (q \o <<m>>)[Len(q) + 1] = m
         /\ \A i \in 1 .. Len(q) : (q \o <<m>>)[i] = q[i]
<1>1. <<m>> \in Seq(Message) /\ Len(<<m>>) = 1 /\ <<m>>[1] = m /\ 1 \in 1 .. 1
  BY SeriesOne
<1> QED
  BY <1>1, ConcatFacts

LEMMA SeriesNoMore ==
  ASSUME NEW q \in Seq(Message)
  PROVE  /\ q \o <<>> \in Seq(Message) /\ Len(q \o <<>>) = Len(q)
         /\ \A i \in 1 .. Len(q) : (q \o <<>>)[i] = q[i]
<1>1. <<>> \in Seq(Message) /\ Len(<<>>) = 0
  OBVIOUS
<1> QED
  BY <1>1, ConcatFacts

LEMMA SeriesFacts ==
  ASSUME NEW m \in Message, NEW n \in Message, NEW o \in Message
  PROVE  /\ <<m, n>> \in Seq(Message) /\ Len(<<m, n>>) = 2
         /\ <<m, n>>[1] = m /\ <<m, n>>[2] = n
         /\ <<m, n, o>> \in Seq(Message) /\ Len(<<m, n, o>>) = 3
         /\ <<m, n, o>>[1] = m /\ <<m, n, o>>[2] = n /\ <<m, n, o>>[3] = o
  OBVIOUS

LEMMA AskLine ==
  ASSUME NEW s, NEW a, NEW st, NEW r, Readable(r), Home(st, a), st.secure => r.rows = FALSE
  PROVE  /\ AskFor(r) \in Seq(Message)
         /\ Line(s, a, AskFor(r))
         /\ Len(AskFor(r)) = 2
         /\ Is(AskFor(r)[1], ReadTag(r), "index", r.var, Position(InVars, r.var))
         /\ Is(AskFor(r)[2], ReadTag(r), "coords", r.var, r.at)
<1> DEFINE m == Datum(ReadTag(r), "index", r.var, Position(InVars, r.var))
           n == Datum(ReadTag(r), "coords", r.var, r.at)
<1>0. r.var \in {InVars[i] : i \in DOMAIN InVars} /\ InVars \in Seq(Var)
  BY MemoryAssumption DEF Readable
<1>1. /\ r.var \in Var /\ Position(InVars, r.var) \in DOMAIN InVars
      /\ InVars[Position(InVars, r.var)] = r.var
      /\ Position(InVars, r.var) \in Nat
      /\ ReadTag(r) \in {"RTAG", "FRTAG"}
      /\ r.rows = FALSE => ReadTag(r) = "RTAG"
      /\ r.var \notin Scalar
  BY <1>0, PositionFacts DEF Readable, Var, ReadTag
<1>2. /\ m \in Message /\ Is(m, ReadTag(r), "index", r.var, Position(InVars, r.var))
      /\ n \in Message /\ Is(n, ReadTag(r), "coords", r.var, r.at)
  BY <1>1, DatumFacts, Words DEF Readable, Tag
<1>3. Follows(s, a, m)
  <2>1. CASE st.secure
    BY <1>1, <1>2, <2>1 DEF Home, Follows, Updates, Index, Is
  <2>2. CASE ~st.secure
    BY <1>1, <1>2, <2>2 DEF Home, Follows, Begins, Index, Is
  <2> QED
    BY <2>1, <2>2
<1>4. Follows(s, m, n)
  BY <1>1, <1>2 DEF Follows, Places, Part, Is, Readable
<1> HIDE DEF m, n
<1> DEFINE q == AskFor(r)
<1>5. q = <<m, n>>
  BY DEF AskFor, Coords, m, n
<1>6. q \in Seq(Message) /\ Len(q) = 2 /\ q[1] = m /\ q[2] = n
  BY <1>2, <1>5, SeriesFacts
<1> HIDE DEF q
<1>7. Line(s, a, q)
  BY <1>2, <1>3, <1>4, <1>6, LineTwo DEF Is
<1> QED
  BY <1>2, <1>6, <1>7 DEF q

LEMMA StoreLine ==
  ASSUME NEW s, NEW a, NEW st, NEW x \in [st.target.at -> Nat],
         Writable(s, st.target), Home(st, a),
         st.target.var \in Owned => x[s] = s,
         st.secure => st.target.rows = FALSE, st.secure \/ st.target.var \in Owned
  PROVE  /\ Store(st.target, x) \in Seq(Message)
         /\ Line(s, a, Store(st.target, x))
         /\ Len(Store(st.target, x)) = 3
         /\ Is(Store(st.target, x)[1], WriteTag(st.target), "index",
              st.target.var, Position(IoVars, st.target.var))
         /\ Is(Store(st.target, x)[2], WriteTag(st.target), "coords",
               st.target.var, st.target.at)
         /\ Is(Store(st.target, x)[Len(Store(st.target, x))], WriteTag(st.target), "value",
              st.target.var, x)
<1> DEFINE r == st.target
           m == Datum(WriteTag(r), "index", r.var, Position(IoVars, r.var))
           n == Datum(WriteTag(r), "coords", r.var, r.at)
           o == Datum(WriteTag(r), "value", r.var, x)
<1>0. r.var \in {IoVars[i] : i \in DOMAIN IoVars} /\ IoVars \in Seq(Var)
  BY MemoryAssumption DEF Writable
<1>1. /\ r.var \in Var /\ Position(IoVars, r.var) \in DOMAIN IoVars
      /\ IoVars[Position(IoVars, r.var)] = r.var
      /\ Position(IoVars, r.var) \in Nat
      /\ WriteTag(r) \in {"WTAG", "FWTAG"}
      /\ r.rows = FALSE => WriteTag(r) = "WTAG"
      /\ r.var \notin Scalar
  BY <1>0, PositionFacts DEF Var, WriteTag, Writable
<1>2. /\ m \in Message /\ Is(m, WriteTag(r), "index", r.var, Position(IoVars, r.var))
      /\ n \in Message /\ Is(n, WriteTag(r), "coords", r.var, r.at)
      /\ o \in Message /\ Is(o, WriteTag(r), "value", r.var, x)
  BY <1>1, DatumFacts, Words DEF Writable, Tag
<1>3. Follows(s, a, m)
  <2>1. CASE st.secure
    BY <1>1, <1>2, <2>1 DEF Home, Follows, Updates, Index, Is
  <2>2. CASE ~st.secure
    BY <1>1, <1>2, <2>2 DEF Home, Follows, Begins, Index, Is
  <2> QED
    BY <2>1, <2>2
<1>4. Follows(s, m, n) /\ Follows(s, n, o)
  BY <1>1, <1>2 DEF Follows, Places, Gives, Part, Is, Writable
<1> HIDE DEF m, n, o
<1> DEFINE q == Store(r, x)
<1>5. q = <<m, n, o>>
  BY DEF Store, Coords, m, n, o
<1>6. q \in Seq(Message) /\ Len(q) = 3 /\ q[1] = m /\ q[2] = n /\ q[3] = o
  BY <1>2, <1>5, SeriesFacts
<1> HIDE DEF q
<1>7. Line(s, a, q)
  BY <1>2, <1>3, <1>4, <1>6, LineThree DEF Is
<1> QED
  BY <1>2, <1>6, <1>7 DEF q

Answering(n, x) ==
  <<Datum("ATAG", "index", "none", 0)>>
    \o [k \in 1 .. n |-> Datum("ATAG", "value", "none", x[k])]

LEMMA AnswerLine ==
  ASSUME NEW s, NEW a, Complete(a), NEW n \in Nat, NEW x \in [1 .. n -> Nat]
  PROVE  /\ Answering(n, x) \in Seq(Message)
         /\ Len(Answering(n, x)) = n + 1
         /\ Line(s, a, Answering(n, x))
         /\ \A i \in 1 .. Len(Answering(n, x)) :
              /\ Answering(n, x)[i].tag = "ATAG"
              /\ Answering(n, x)[i].what = "index" => i = 1
<1> DEFINE m == Datum("ATAG", "index", "none", 0)
           o(k) == Datum("ATAG", "value", "none", x[k])
           r == [k \in 1 .. n |-> o(k)]
<1>1. m \in Message /\ Is(m, "ATAG", "index", "none", 0)
  BY DatumFacts, Words DEF Tag
<1>2. \A k \in 1 .. n : o(k) \in Message /\ Is(o(k), "ATAG", "value", "none", x[k])
  BY DatumFacts, Words DEF Tag
<1> HIDE DEF m, o
<1>3. r \in Seq(Message) /\ Len(r) = n /\ \A i \in 1 .. n : r[i] = o(i)
  BY <1>2
<1>4. <<m>> \in Seq(Message) /\ Len(<<m>>) = 1 /\ <<m>>[1] = m
  BY <1>1, SeriesOne
<1> HIDE DEF r
<1>5. Answering(n, x) = <<m>> \o r
  BY DEF Answering, m, o, r
<1>6. /\ Follows(s, a, m)
      /\ \A k \in 1 .. n : Follows(s, m, o(k)) /\ \A l \in 1 .. n : Follows(s, o(l), o(k))
  <2>1. Follows(s, a, m)
    BY <1>1 DEF Follows, Begins, Is
  <2>2. ASSUME NEW k \in 1 .. n PROVE Follows(s, m, o(k))
    BY <1>1, <1>2 DEF Follows, Results, Is
  <2>3. ASSUME NEW k \in 1 .. n, NEW l \in 1 .. n PROVE Follows(s, o(l), o(k))
    BY <1>2 DEF Follows, Results, Is
  <2> QED
    BY <2>1, <2>2, <2>3
<1>7. Line(s, a, <<m>>)
  BY <1>4, <1>6, LineOne
<1>8. End(a, <<m>>) = m
  BY <1>4 DEF End, At
<1>9. Line(s, m, r)
  <2>1. \A i \in 1 .. Len(r) : Follows(s, At(m, r, i - 1), r[i])
    <3> TAKE i \in 1 .. Len(r)
    <3>1. r[i] = o(i) /\ (i - 1 = 0 \/ i - 1 \in 1 .. n)
      BY <1>3
    <3> QED
      BY <1>3, <1>6, <3>1 DEF At
  <2>2. \A i \in 2 .. Len(r) : r[i].what = "value"
    BY <1>2, <1>3 DEF Is
  <2> QED
    BY <2>1, <2>2 DEF Line
<1>10. Line(s, a, <<m>> \o r)
  <2>1. r # <<>> => r[1].what = "value"
    BY <1>2, <1>3 DEF Is
  <2> QED
    BY <1>3, <1>4, <1>7, <1>8, <1>9, <2>1, LineAppend
<1>11. <<m>> \o r \in Seq(Message) /\ Len(<<m>> \o r) = n + 1
  <2>1. Len(<<m>> \o r) = Len(<<m>>) + Len(r)
    BY <1>3, <1>4, ConcatFacts
  <2> QED
    BY <1>3, <1>4, <2>1, ConcatFacts
<1>12. ASSUME NEW i \in 1 .. n + 1
       PROVE  (((<<m>> \o r)[i] = m) /\ i = 1) \/ \E k \in 1 .. n : (<<m>> \o r)[i] = o(k)
  <2>1. CASE i = 1
    BY <1>3, <1>4, <2>1, ConcatFacts
  <2>2. CASE i # 1
    <3>1. i - 1 \in 1 .. n /\ i = 1 + (i - 1)
      BY <2>2
    <3>2. (<<m>> \o r)[Len(<<m>>) + (i - 1)] = r[i - 1]
      BY <1>3, <1>4, <3>1, ConcatFacts
    <3> QED
      BY <1>3, <1>4, <2>2, <3>1, <3>2
  <2> QED
    BY <2>1, <2>2
<1>13. ASSUME NEW i \in 1 .. n + 1
       PROVE  /\ (<<m>> \o r)[i].tag = "ATAG"
              /\ (<<m>> \o r)[i].what = "index" => i = 1
  <2>1. CASE (<<m>> \o r)[i] = m /\ i = 1
    BY <1>1, <2>1 DEF Is
  <2>2. CASE \E k \in 1 .. n : (<<m>> \o r)[i] = o(k)
    BY <1>2, <2>2 DEF Is
  <2> QED
    BY <1>12, <2>1, <2>2
<1> QED
  BY <1>5, <1>10, <1>11, <1>13

-------------------------------------------------------------------------------
(***************************************************************************)
(* The states.  Served is what the master is in the middle of: the message *)
(* of the slave that it has taken last, or none.                           *)
(***************************************************************************)
Item == IF section = 0 THEN partSize ELSE section

Served(s) ==
  IF s # source \/ mpc \in {"any", "done"} THEN Free
  ELSE IF mpc = "secure" THEN Datum("SWTAG", "index", IoVars[section], section)
  ELSE IF mpc = "read" THEN Datum(stat, "index", InVars[partSize], partSize)
  ELSE IF mpc = "result" THEN Datum("ATAG", "index", "none", 0)
  ELSE IF mpc = "write" THEN Datum(stat, "index", Target, Item)
  ELSE Datum(stat, "coords", Target, coord)

TypeOK ==
  /\ mpc \in {"any", "read", "write", "value", "secure", "result", "done"}
  /\ source \in Slave
  /\ coord \in SUBSET Place
  /\ section \in {0} \cup DOMAIN IoVars
  /\ taken \in Nat
  /\ killed \in Nat
  /\ mem \in [Var -> [Place -> Nat]]
  /\ toSlave \in [Slave -> Seq(Message)]
  /\ toMaster \in [Slave -> Seq(Message)]
  /\ spc \in [Slave -> {"next", "reads", "await", "sent", "done"}]
  /\ stmt \in [Slave -> {Empty} \cup UNION {Possible(s) : s \in Slave}]
  /\ reads \in [Slave -> Nat]
  /\ reg \in [Slave -> Nat]
  /\ left \in [Slave -> Nat]
  /\ copy \in [Slave -> [Scalar -> Nat]]
  /\ wanted \in [Var -> [Place -> Nat]]
  /\ wrote \in [Slave -> SUBSET Var]

MasterOK ==
  /\ mpc \in {"any", "done", "result"} => section = 0
  /\ mpc = "secure" => section # 0
  /\ mpc = "read" =>
       /\ stat \in {"RTAG", "FRTAG"}
       /\ partSize \in DOMAIN InVars
       /\ InVars[partSize] \notin Scalar
       /\ section = IF stmt[source].secure
                    THEN Position(IoVars, stmt[source].target.var) ELSE 0
  /\ mpc \in {"write", "value"} =>
       /\ stat \in {"WTAG", "FWTAG"}
       /\ Item \in DOMAIN IoVars
       /\ section = 0 => Target \in Owned
       /\ Target \notin Scalar
       /\ mpc = "value" /\ Target \in Owned => coord = {source}
  /\ mpc = "result" =>
       /\ stat = "ATAG"
       /\ spc[source] = "sent"
       /\ toSlave[source] = <<>>
       /\ taken + Len(toMaster[source]) = Len(IoScalars)

SlaveOK(s) ==
  /\ Line(s, Served(s), toMaster[s])
  /\ Answers(toMaster[s], spc[s])
  /\ Control(s, Served(s), toMaster[s], toSlave[s], spc[s], stmt[s], reads[s])

Protocol == TypeOK /\ MasterOK /\ \A s \in Slave : SlaveOK(s)

LEMMA InitProtocol == Init => Protocol
<1> SUFFICES ASSUME Init PROVE Protocol
  OBVIOUS
<1>1. 1 \in Slave /\ \A s \in Slave : s \in Nat
  BY OneIsPlace DEF Place
<1>2. TypeOK
  <2>1. Statements \in Nat
    BY MemoryAssumption
  <2> QED
    BY <1>1, <2>1 DEF Init, TypeOK
<1>3. MasterOK
  BY DEF Init, MasterOK
<1>4. ASSUME NEW s \in Slave PROVE SlaveOK(s)
  <2>1. Served(s) = Free /\ Complete(Free)
    BY DEF Init, Served, Complete, Free, Datum
  <2>2. toMaster[s] = <<>> /\ Len(<<>>) = 0 /\ 1 .. 0 = {} /\ 2 .. 0 = {}
    BY DEF Init
  <2>3. Line(s, Served(s), toMaster[s]) /\ Answers(toMaster[s], spc[s])
    BY <2>2 DEF Line, Answers
  <2>4. Complete(End(Served(s), toMaster[s]))
    BY <2>1, <2>2 DEF End, At
  <2> QED
    BY <2>3, <2>4 DEF SlaveOK, Control, Init
<1> QED
  BY <1>2, <1>3, <1>4 DEF Protocol

(***************************************************************************)
(* The slave the master serves a read of waits for it, and does nothing.   *)
(***************************************************************************)
LEMMA OnlyAwaits ==
  ASSUME NEW s, NEW a, NEW q \in Seq(Message), NEW ts, NEW pc, NEW st, NEW rd,
         Line(s, a, q), Control(s, a, q, ts, pc, st, rd),
         pc \in {"next", "reads", "await", "sent", "done"},
         Request(a)
  PROVE  pc = "await" /\ ts = <<>> /\ Asking(a, q, st, rd) /\ AskedAt(q) = 0
<1>1. End(a, q) = a \/ End(a, q).what = "coords"
  <2>1. CASE q = <<>>
    <3>1. Len(<<>>) = 0
      OBVIOUS
    <3> QED
      BY <2>1, <3>1 DEF End, At
  <2>2. CASE q # <<>>
    BY <2>2, NothingBehind DEF End, At
  <2> QED
    BY <2>1, <2>2
<1>2. /\ ~Complete(End(a, q)) /\ ~Complete(a)
      /\ ~Home(st, End(a, q)) /\ ~Home(st, a)
      /\ End(a, q).tag # "ATAG"
  <2>1. ~Complete(a) /\ ~Home(st, a) /\ a.tag # "ATAG"
    BY DEF Request, Complete, Home, Is
  <2>2. CASE q = <<>>
    <3>1. Len(<<>>) = 0
      OBVIOUS
    <3> QED
      BY <2>1, <2>2, <3>1 DEF End, At
  <2>3. CASE q # <<>>
    <3>1. End(a, q) = q[1]
      BY <2>3, NothingBehind DEF End, At
    <3>2. End(a, q).what = "coords" /\ End(a, q).tag = a.tag
      BY <2>3, <3>1, NothingBehind
    <3> QED
      BY <2>1, <3>2 DEF Request, Complete, Home, Is
  <2> QED
    BY <2>2, <2>3
<1>3. pc = "await" /\ ts = <<>> /\ Asking(a, q, st, rd)
  BY <1>2 DEF Control, Answered
<1>4. AskedAt(q) = 0
  <2> DEFINE r == st.operands[rd + 1]
             k == AskedAt(q)
  <2>1. k \in Int /\ k >= 0 /\ (k > 0 => Home(st, At(a, q, k - 1)))
    BY <1>3 DEF Asking, AskedAt
  <2>2. ASSUME k > 0 PROVE FALSE
    <3>1. q # <<>> /\ Len(q) = 1
      <4>1. Len(q) >= k
        BY <2>2 DEF AskedAt
      <4>2. Len(<<>>) = 0
        OBVIOUS
      <4> QED
        BY <2>1, <2>2, <4>1, <4>2, NothingBehind
    <3>2. k = 1
      BY <2>2, <3>1 DEF AskedAt
    <3> QED
      BY <1>2, <2>1, <3>2 DEF At
  <2> QED
    BY <2>1, <2>2
<1> QED
  BY <1>3, <1>4

LEMMA SourceWaits ==
  ASSUME Protocol, mpc = "read"
  PROVE  /\ spc[source] = "await" /\ toSlave[source] = <<>>
         /\ Served(source) = Datum(stat, "index", InVars[partSize], partSize)
         /\ Request(Served(source))
         /\ Asking(Served(source), toMaster[source], stmt[source], reads[source])
         /\ AskedAt(toMaster[source]) = 0
<1>1. /\ source \in Slave /\ SlaveOK(source)
      /\ toMaster[source] \in Seq(Message)
      /\ spc[source] \in {"next", "reads", "await", "sent", "done"}
      /\ stat \in {"RTAG", "FRTAG"}
  BY DEF Protocol, TypeOK, MasterOK
<1>2. Served(source) = Datum(stat, "index", InVars[partSize], partSize)
  BY DEF Served
<1>3. Request(Served(source))
  BY <1>1, <1>2 DEF Request, Datum
<1> QED
  BY <1>1, <1>2, <1>3, OnlyAwaits DEF SlaveOK, Operand

-------------------------------------------------------------------------------
(***************************************************************************)
(* Steps of the slaves.                                                    *)
(***************************************************************************)
LEMMA ServedSame ==
  ASSUME UNCHANGED masterVars
  PROVE  \A s \in Slave : Served(s)' = Served(s)
  BY DEF Served, Target, Item, masterVars, serving

Grows(s) ==
  \/ toMaster'[s] = toMaster[s]
  \/ \E r \in Seq(Message) : toMaster'[s] = toMaster[s] \o r

LEMMA OneSlave ==
  ASSUME Protocol, NEW s \in Slave, UNCHANGED masterVars, TypeOK',
         \A t \in Slave \ {s} :
           /\ toMaster[t]' = toMaster[t] /\ toSlave[t]' = toSlave[t]
           /\ spc[t]' = spc[t] /\ stmt[t]' = stmt[t] /\ reads[t]' = reads[t],
         SlaveOK(s)',
         s = source => mpc \notin {"read", "result"}
  PROVE  Protocol'
<1>1. ASSUME NEW t \in Slave PROVE SlaveOK(t)'
  <2>1. CASE t = s
    BY <2>1
  <2>2. CASE t # s
    BY <2>2, ServedSame DEF Protocol, SlaveOK
  <2> QED
    BY <2>1, <2>2
<1>2. MasterOK'
  <2>1. /\ mpc' = mpc /\ source' = source /\ stat' = stat /\ partSize' = partSize
        /\ coord' = coord /\ section' = section /\ taken' = taken
    BY DEF masterVars, serving
  <2>2. mpc \in {"read", "result"} => source \in Slave \ {s}
    BY DEF Protocol, TypeOK
  <2>3. MasterOK
    BY DEF Protocol
  <2> QED
    BY <2>1, <2>2, <2>3 DEF MasterOK, Item, Target
<1> QED
  BY <1>1, <1>2 DEF Protocol

LEMMA NoAnswers ==
  ASSUME NEW q \in Seq(Message), NEW pc, Answers(q, pc), pc # "sent",
         NEW r \in Seq(Message), \A i \in 1 .. Len(r) : r[i].tag # "ATAG"
  PROVE  \A now : Answers(q, now) /\ Answers(q \o r, now)
<1>1. \A i \in 1 .. Len(q) : q[i].tag # "ATAG"
  BY DEF Answers
<1>2. ASSUME NEW i \in 1 .. Len(q \o r) PROVE (q \o r)[i].tag # "ATAG"
  <2>1. i \in 1 .. Len(q) + Len(r)
    BY ConcatFacts
  <2>2. CASE i \in 1 .. Len(q)
    BY <1>1, <2>2, ConcatFacts
  <2>3. CASE i - Len(q) \in 1 .. Len(r) /\ i = Len(q) + (i - Len(q))
    BY <2>3, ConcatFacts
  <2> QED
    BY <2>1, <2>2, <2>3, ConcatFacts, InEither
<1> QED
  BY <1>1, <1>2 DEF Answers


(***************************************************************************)
(* What is known of a slave before its step.                               *)
(***************************************************************************)
LEMMA Before ==
  ASSUME Protocol, NEW s \in Slave
  PROVE  /\ toMaster[s] \in Seq(Message) /\ toSlave[s] \in Seq(Message)
         /\ Line(s, Served(s), toMaster[s]) /\ Answers(toMaster[s], spc[s])
         /\ Control(s, Served(s), toMaster[s], toSlave[s], spc[s], stmt[s], reads[s])
         /\ spc[s] \in {"next", "reads", "await", "sent", "done"}
         /\ reads[s] \in Nat /\ reg[s] \in Nat
         /\ s \in Nat
  BY OneIsPlace DEF Protocol, TypeOK, SlaveOK

LEMMA Sending ==
  ASSUME Protocol, NEW s \in Slave, NEW ms \in Seq(Message), SendAll(s, ms)
  PROVE  /\ toMaster' \in [Slave -> Seq(Message)]
         /\ toMaster'[s] = toMaster[s] \o ms
         /\ \A t \in Slave \ {s} : toMaster'[t] = toMaster[t]
<1>1. toMaster \in [Slave -> Seq(Message)]
  BY DEF Protocol, TypeOK
<1>2. toMaster[s] \o ms \in Seq(Message)
  BY <1>1, ConcatFacts
<1> QED
  BY <1>1, <1>2 DEF SendAll

LEMMA AnnounceLine ==
  ASSUME NEW s \in Slave, NEW a, NEW st \in Possible(s), st.secure, Complete(a)
  PROVE  /\ Announce(st.target) \in Seq(Message)
         /\ Len(Announce(st.target)) = 1
         /\ Line(s, a, Announce(st.target))
         /\ Home(st, Announce(st.target)[1])
         /\ Announce(st.target)[1].tag = "SWTAG"
<1> DEFINE m == Datum("SWTAG", "index", st.target.var, Position(IoVars, st.target.var))
<1>1. Writable(s, st.target)
  BY Kinds DEF Look, Put, Increment
<1>2. /\ st.target.var \in Var /\ Position(IoVars, st.target.var) \in DOMAIN IoVars
      /\ IoVars[Position(IoVars, st.target.var)] = st.target.var
      /\ Position(IoVars, st.target.var) \in Nat
      /\ st.target.var \notin Scalar
  <2>1. st.target.var \in {IoVars[i] : i \in DOMAIN IoVars} /\ IoVars \in Seq(Var)
    BY <1>1, MemoryAssumption DEF Writable
  <2> QED
    BY <1>1, <2>1, PositionFacts DEF Writable, Var
<1>3. /\ m \in Message
      /\ Is(m, "SWTAG", "index", st.target.var, Position(IoVars, st.target.var))
  BY <1>2, DatumFacts, Words DEF Tag
<1> HIDE DEF m
<1>4. Follows(s, a, m)
  BY <1>2, <1>3 DEF Follows, Begins, Index, Is
<1>5. Announce(st.target) = <<m>>
  BY DEF Announce, m
<1>6. <<m>> \in Seq(Message) /\ Len(<<m>>) = 1 /\ <<m>>[1] = m
  BY <1>3, SeriesOne
<1>7. Line(s, a, <<m>>)
  BY <1>4, <1>6, LineOne
<1> QED
  BY <1>3, <1>5, <1>6, <1>7 DEF Home, Is

LEMMA WishType ==
  ASSUME wanted \in [Var -> [Place -> Nat]], NEW r
  PROVE  Wish(r) \in [Var -> [Place -> Nat]]
<1> DEFINE more(p) == IF r.var \in Updated /\ p \in r.at THEN 1 ELSE 0
           row(v) == [p \in Place |-> wanted[v][p] + more(p)]
<1>1. Wish(r) = [wanted EXCEPT ![r.var] = row(r.var)]
  BY DEF Wish
<1>2. ASSUME NEW v \in Var PROVE row(v) \in [Place -> Nat]
  <2>1. \A p \in Place : wanted[v][p] \in Nat /\ more(p) \in Nat
    BY <1>2
  <2> HIDE DEF more
  <2> QED
    BY <2>1
<1> HIDE DEF row
<1>3. CASE r.var \in Var
  BY <1>1, <1>2, <1>3
<1>4. CASE r.var \notin Var
  BY <1>1, <1>4
<1> QED
  BY <1>3, <1>4

LEMMA StartStep ==
  ASSUME Protocol, NEW s \in Slave, Start(s)
  PROVE  Protocol' /\ Grows(s)
<1> DEFINE a == Served(s)
           q == toMaster[s]
<1>1. PICK st \in Possible(s) :
        /\ stmt' = [stmt EXCEPT ![s] = st]
        /\ IF st.secure
           THEN /\ SendAll(s, Announce(st.target))
                /\ wanted' = Wish(st.target)
           ELSE UNCHANGED <<toMaster, wanted>>
  BY DEF Start
<1>2. /\ Complete(End(a, q)) /\ toSlave[s] = <<>> /\ reads[s] = 0
      /\ Line(s, a, q) /\ Answers(q, spc[s]) /\ q \in Seq(Message)
  BY Before DEF Start, Control
<1>3. /\ st.secure => /\ Announce(st.target) \in Seq(Message)
                      /\ Len(Announce(st.target)) = 1
                      /\ Line(s, End(a, q), Announce(st.target))
                      /\ Home(st, Announce(st.target)[1])
                      /\ Announce(st.target)[1].tag = "SWTAG"
  BY <1>2, AnnounceLine
<1>4. TypeOK'
  <2>1. TypeOK /\ Wish(st.target) \in [Var -> [Place -> Nat]]
    <3>1. TypeOK
      BY DEF Protocol
    <3>2. wanted \in [Var -> [Place -> Nat]]
      BY <3>1 DEF TypeOK
    <3> QED
      BY <3>1, <3>2, WishType
  <2>2. toMaster' \in [Slave -> Seq(Message)]
    <3>1. CASE st.secure
      BY <1>1, <1>3, <3>1, Sending
    <3>2. CASE ~st.secure
      BY <1>1, <2>1, <3>2 DEF TypeOK
    <3> QED
      BY <3>1, <3>2
  <2>3. wanted' \in [Var -> [Place -> Nat]]
    BY <1>1, <2>1 DEF TypeOK
  <2>4. stmt' \in [Slave -> {Empty} \cup UNION {Possible(t) : t \in Slave}]
    BY <1>1, <2>1 DEF TypeOK
  <2>5. left' \in [Slave -> Nat]
    <3>1. left[s] \in Nat /\ left[s] > 0 => left[s] - 1 \in Nat
      OBVIOUS
    <3> QED
      BY <2>1, <3>1 DEF TypeOK, Start
  <2> QED
    BY <2>1, <2>2, <2>3, <2>4, <2>5 DEF TypeOK, Start, masterVars, serving
<1>5. /\ spc[s] = "next" /\ spc' = [spc EXCEPT ![s] = "reads"]
      /\ UNCHANGED <<masterVars, toSlave, reads>>
  BY DEF Start
<1>6. /\ stmt'[s] = st /\ spc'[s] = "reads" /\ reads'[s] = 0 /\ toSlave'[s] = <<>>
      /\ a' = a
  BY <1>1, <1>2, <1>5, ServedSame DEF Protocol, TypeOK
<1> DEFINE now == toMaster'[s]
<1>7. Line(s, a, now) /\ Answers(now, "reads") /\ Home(st, End(a, now))
  <2>1. CASE st.secure
    <3> DEFINE r == Announce(st.target)
    <3>1. now = q \o r
      BY <1>1, <1>3, <2>1, Sending
    <3>2. /\ r \in Seq(Message) /\ Len(r) = 1 /\ Line(s, End(a, q), r)
          /\ Home(st, r[1]) /\ r[1].tag = "SWTAG"
      BY <1>3, <2>1
    <3> HIDE DEF a, q, r, now
    <3>3. Line(s, a, q \o r)
      BY <1>2, <3>2, LineAppend
    <3>4. \A i \in 1 .. Len(r) : r[i].tag # "ATAG"
      BY <3>2
    <3>5. Answers(q \o r, "reads")
      BY <1>2, <1>5, <3>2, <3>4, NoAnswers
    <3>6. End(a, q \o r) = r[1]
      <4>1. Len(r) \in Nat \ {0} /\ r[Len(r)] = r[1]
        BY <3>2
      <4>2. q \in Seq(Message) /\ r \in Seq(Message)
        BY <1>2, <3>2
      <4> QED
        BY <4>1, <4>2, EndLast
    <3> QED
      BY <3>1, <3>2, <3>3, <3>5, <3>6
  <2>2. CASE ~st.secure
    <3>1. now = q
      BY <1>1, <2>2
    <3>2. Answers(q, "reads")
      <4>1. <<>> \in Seq(Message) /\ \A i \in 1 .. Len(<<>>) : <<>>[i].tag # "ATAG"
        OBVIOUS
      <4> QED
        BY <1>2, <1>5, <4>1, NoAnswers
    <3> QED
      BY <1>2, <2>2, <3>1, <3>2 DEF Home
  <2> QED
    BY <2>1, <2>2
<1>8. SlaveOK(s)'
  <2>1. 0 \in 0 .. Len(st.operands)
    BY Kinds DEF Look, Put, Increment
  <2> QED
    BY <1>6, <1>7, <2>1 DEF SlaveOK, Control
<1>9. s = source => mpc \notin {"read", "result"}
  BY <1>5, SourceWaits DEF Protocol, MasterOK
<1> QED
  <2>1. \A t \in Slave \ {s} :
           /\ toMaster[t]' = toMaster[t] /\ toSlave[t]' = toSlave[t]
           /\ spc[t]' = spc[t] /\ stmt[t]' = stmt[t] /\ reads[t]' = reads[t]
    BY <1>1, <1>3, <1>5, Sending DEF Protocol, TypeOK
  <2>2. Grows(s)
    BY <1>1, <1>3, Sending DEF Grows
  <2> QED
    BY <1>4, <1>5, <1>8, <1>9, <2>1, <2>2, OneSlave


(***************************************************************************)
(* An update of a scalar sends nothing, and leaves the slave where it is.  *)
(***************************************************************************)
LEMMA TallyLeaves ==
  ASSUME NEW s \in Slave, Tally(s)
  PROVE  /\ UNCHANGED <<masterVars, toSlave, toMaster, spc, stmt, reads, reg, wrote>>
         /\ spc[s] = "next"
         /\ \A v \in Updated \ Scalar : wanted'[v] = wanted[v]
  BY DEF Tally

LEMMA TallyStep ==
  ASSUME Protocol, NEW s \in Slave, Tally(s)
  PROVE  Protocol'
<1>1. UNCHANGED <<masterVars, toSlave, toMaster, spc, stmt, reads, reg, wrote>>
  BY TallyLeaves
<1>2. PICK v \in Updated \cap Scalar :
        /\ copy' = [copy EXCEPT ![s][v] = @ + 1]
        /\ wanted' = [wanted EXCEPT ![v][1] = @ + 1]
  BY DEF Tally
<1>3. TypeOK
  BY DEF Protocol
<1>4. v \in Var /\ 1 \in Place
  BY MemoryAssumption, OneIsPlace DEF Var
<1>5. copy' \in [Slave -> [Scalar -> Nat]]
  BY <1>2, <1>3 DEF TypeOK
<1>6. wanted' \in [Var -> [Place -> Nat]]
  BY <1>2, <1>3, <1>4 DEF TypeOK
<1>7. left' \in [Slave -> Nat]
  <2>1. left[s] \in Nat /\ left[s] > 0 => left[s] - 1 \in Nat
    OBVIOUS
  <2> QED
    BY <1>3, <2>1 DEF TypeOK, Tally
<1>8. TypeOK'
  BY <1>1, <1>3, <1>5, <1>6, <1>7 DEF TypeOK, masterVars, serving
<1>9. MasterOK'
  BY <1>1 DEF Protocol, MasterOK, Item, Target, masterVars, serving
<1>10. ASSUME NEW t \in Slave PROVE SlaveOK(t)'
  BY <1>1, ServedSame DEF Protocol, SlaveOK
<1> QED
  BY <1>8, <1>9, <1>10 DEF Protocol

(***************************************************************************)
(* The operand a slave is at.                                              *)
(***************************************************************************)
LEMMA OperandRead ==
  ASSUME NEW s \in Slave, NEW st \in Possible(s), NEW rd \in 0 .. Len(st.operands) - 1
  PROVE  /\ Readable(st.operands[rd + 1])
         /\ st.secure => st.operands[rd + 1].rows = FALSE
<1>1. CASE Look(st)
  BY <1>1 DEF Look
<1>2. CASE Put(s, st)
  BY <1>2 DEF Put
<1>3. CASE Increment(s, st)
  BY <1>3 DEF Increment
<1> QED
  BY <1>1, <1>2, <1>3, Kinds

LEMMA AskedLine ==
  ASSUME NEW s, NEW a, NEW q \in Seq(Message), NEW st, NEW rd \in Nat,
         Line(s, a, q), Home(st, End(a, q)), rd > 0 => q = <<>>,
         Readable(st.operands[rd + 1]), st.secure => st.operands[rd + 1].rows = FALSE
  PROVE  /\ AskFor(st.operands[rd + 1]) \in Seq(Message)
         /\ \A i \in 1 .. Len(AskFor(st.operands[rd + 1])) :
              AskFor(st.operands[rd + 1])[i].tag # "ATAG"
         /\ Line(s, a, q \o AskFor(st.operands[rd + 1]))
         /\ Asking(a, q \o AskFor(st.operands[rd + 1]), st, rd)
<1> DEFINE r == st.operands[rd + 1]
           ms == AskFor(r)
           now == q \o ms
           k == AskedAt(now)
<1>1. /\ ms \in Seq(Message)
      /\ Line(s, End(a, q), ms)
      /\ Len(ms) = 2
      /\ Is(ms[1], ReadTag(r), "index", r.var, Position(InVars, r.var))
      /\ Is(ms[2], ReadTag(r), "coords", r.var, r.at)
  BY AskLine
<1> HIDE DEF ms
<1>2. \A i \in 1 .. Len(ms) : ms[i].tag # "ATAG"
  <2>1. \A i \in 1 .. Len(ms) : i = 1 \/ i = 2
    BY <1>1
  <2> QED
    BY <1>1, <2>1 DEF Is, ReadTag
<1>3. Line(s, a, now)
  <2>1. ms[1].tag # "WTAG"
    BY <1>1 DEF Is, ReadTag
  <2> QED
    BY <1>1, <2>1, LineAppend DEF ms
<1>4. Len(q) \in Nat /\ Len(now) = Len(q) + Len(ms) /\ k = Len(q) + 1
  <2>1. Len(q) \in Nat /\ Len(q \o ms) = Len(q) + Len(ms)
    BY <1>1, ConcatFacts
  <2>2. Len(now) = Len(q) + 2 /\ k = Len(now) - 1
    BY <1>1, <2>1 DEF AskedAt, ms
  <2> HIDE DEF now, k
  <2>3. k = Len(q) + 1
    BY <2>1, <2>2
  <2> QED
    BY <1>1, <2>1, <2>2, <2>3
<1>5. At(a, now, k) = ms[1]
  <2>1. 1 \in 1 .. Len(ms) /\ k # 0
    BY <1>1, <1>4
  <2>2. (q \o ms)[Len(q) + 1] = ms[1]
    BY <1>1, <2>1, ConcatFacts
  <2> QED
    BY <1>4, <2>1, <2>2 DEF At, ms
<1>6. now[k + 1] = ms[2]
  <2>1. 2 \in 1 .. Len(ms) /\ k + 1 = Len(q) + 2
    BY <1>1, <1>4
  <2>2. (q \o ms)[Len(q) + 2] = ms[2]
    BY <1>1, <2>1, ConcatFacts
  <2> QED
    BY <2>1, <2>2 DEF ms
<1>7. At(a, now, k - 1) = End(a, q)
  <2>1. Len(q) \in 0 .. Len(q) /\ k - 1 = Len(q)
    BY <1>4
  <2>2. At(a, q \o ms, Len(q)) = At(a, q, Len(q))
    BY <1>1, <2>1, EndAppend
  <2> QED
    BY <2>1, <2>2 DEF End, ms
<1>8. rd > 0 => k <= 1
  <2>1. Len(<<>>) = 0
    OBVIOUS
  <2> QED
    BY <1>4, <2>1
<1>9. Asking(a, now, st, rd)
  <2>1. k >= 0
    BY <1>4
  <2> HIDE DEF k, r
  <2>2. /\ k >= 0
        /\ Is(At(a, now, k), ReadTag(r), "index", r.var, Position(InVars, r.var))
        /\ Is(now[k + 1], ReadTag(r), "coords", r.var, r.at)
        /\ k > 0 => Home(st, At(a, now, k - 1))
        /\ rd > 0 => k <= 1
    BY <1>1, <1>5, <1>6, <1>7, <1>8, <2>1
  <2> QED
    BY <2>2 DEF Asking, k, r
<1> QED
  BY <1>1, <1>2, <1>3, <1>9 DEF ms

LEMMA AskStep ==
  ASSUME Protocol, NEW s \in Slave, Ask(s)
  PROVE  Protocol' /\ Grows(s)
<1> DEFINE a == Served(s)
           q == toMaster[s]
           st == stmt[s]
           rd == reads[s]
           ms == AskFor(st.operands[rd + 1])
<1>1. /\ spc[s] = "reads" /\ rd # Len(st.operands)
      /\ SendAll(s, ms)
      /\ spc' = [spc EXCEPT ![s] = "await"]
      /\ UNCHANGED <<masterVars, toSlave, stmt, reads, reg, left, copy, wanted, wrote>>
  BY DEF Ask, AllRead, Operand
<1>2. /\ q \in Seq(Message) /\ Line(s, a, q) /\ Answers(q, spc[s])
      /\ st \in Possible(s) /\ rd \in 0 .. Len(st.operands)
      /\ toSlave[s] = <<>> /\ Home(st, End(a, q))
      /\ rd > 0 => q = <<>>
  BY <1>1, Before DEF Control
<1>3. rd \in 0 .. Len(st.operands) - 1 /\ rd \in Nat
  BY <1>1, <1>2
<1>4. Readable(st.operands[rd + 1]) /\ (st.secure => st.operands[rd + 1].rows = FALSE)
  BY <1>2, <1>3, OperandRead
<1>5. /\ ms \in Seq(Message)
      /\ \A i \in 1 .. Len(ms) : ms[i].tag # "ATAG"
      /\ Line(s, a, q \o ms) /\ Asking(a, q \o ms, st, rd)
  <2> HIDE DEF a, q, st, rd
  <2> QED
    BY <1>2, <1>3, <1>4, AskedLine
<1>6. /\ toMaster' \in [Slave -> Seq(Message)]
      /\ toMaster'[s] = q \o ms
      /\ \A t \in Slave \ {s} : toMaster'[t] = toMaster[t]
  BY <1>1, <1>5, Sending
<1>7. spc'[s] = "await" /\ \A t \in Slave \ {s} : spc'[t] = spc[t]
  BY <1>1 DEF Protocol, TypeOK
<1>8. TypeOK'
  BY <1>1, <1>6 DEF Protocol, TypeOK, masterVars, serving
<1>9. SlaveOK(s)'
  <2>1. Answers(q \o ms, "await")
    BY <1>1, <1>2, <1>5, NoAnswers
  <2> QED
    BY <1>1, <1>2, <1>3, <1>5, <1>6, <1>7, <2>1, ServedSame DEF SlaveOK, Control
<1>10. s = source => mpc \notin {"read", "result"}
  BY <1>1, SourceWaits DEF Protocol, MasterOK
<1>11. Grows(s)
  BY <1>5, <1>6 DEF Grows
<1> QED
  BY <1>1, <1>6, <1>7, <1>8, <1>9, <1>10, <1>11, OneSlave

(***************************************************************************)
(* Taking the one message there is of the master.                          *)
(***************************************************************************)
LEMMA Taking ==
  ASSUME Protocol, NEW s \in Slave, toSlave' = Drop(toSlave, s), Len(toSlave[s]) = 1
  PROVE  /\ toSlave' \in [Slave -> Seq(Message)]
         /\ toSlave'[s] = <<>>
         /\ \A t \in Slave \ {s} : toSlave'[t] = toSlave[t]
         /\ Head(toSlave[s]) = toSlave[s][1]
<1>1. toSlave \in [Slave -> Seq(Message)] /\ toSlave[s] \in Seq(Message)
  BY DEF Protocol, TypeOK
<1>2. toSlave[s] # <<>>
  <2>1. Len(<<>>) = 0
    OBVIOUS
  <2> QED
    BY <2>1
<1>3. Tail(toSlave[s]) \in Seq(Message) /\ Tail(toSlave[s]) = <<>>
  <2>1. Tail(toSlave[s]) \in Seq(Message) /\ Len(Tail(toSlave[s])) = Len(toSlave[s]) - 1
    BY <1>1, <1>2, TailFacts
  <2>2. Len(Tail(toSlave[s])) = 0
    BY <2>1
  <2> QED
    BY <2>1, <2>2, NoLength
<1> QED
  BY <1>1, <1>2, <1>3, TailFacts DEF Drop

LEMMA GotStep ==
  ASSUME Protocol, NEW s \in Slave, Got(s)
  PROVE  Protocol'
<1> DEFINE a == Served(s)
           q == toMaster[s]
           st == stmt[s]
           rd == reads[s]
           r == Operand(s)
<1>1. /\ spc[s] = "await" /\ toSlave[s] # <<>>
      /\ toSlave' = Drop(toSlave, s)
      /\ spc' = [spc EXCEPT ![s] = "reads"]
      /\ reads' = [reads EXCEPT ![s] = @ + 1]
      /\ UNCHANGED <<masterVars, toMaster, stmt, left, copy, wanted, wrote>>
  BY DEF Got, Arrived
<1>2. /\ q \in Seq(Message) /\ Line(s, a, q) /\ Answers(q, spc[s])
      /\ st \in Possible(s) /\ rd \in 0 .. Len(st.operands) - 1
      /\ Answered(a, q, toSlave[s], st, rd)
  BY <1>1, Before DEF Control
<1>3. q = <<>> /\ Home(st, a) /\ Len(toSlave[s]) = 1 /\ toSlave[s][1].x \in [r.at -> Nat]
  BY <1>2 DEF Answered, Operand
<1>4. /\ toSlave' \in [Slave -> Seq(Message)]
      /\ toSlave'[s] = <<>>
      /\ \A t \in Slave \ {s} : toSlave'[t] = toSlave[t]
      /\ Head(toSlave[s]) = toSlave[s][1]
  BY <1>1, <1>3, Taking
<1>5. /\ spc'[s] = "reads" /\ \A t \in Slave \ {s} : spc'[t] = spc[t]
      /\ reads'[s] = rd + 1 /\ \A t \in Slave \ {s} : reads'[t] = reads[t]
      /\ reads' \in [Slave -> Nat]
  BY <1>1 DEF Protocol, TypeOK
<1>6. reg' \in [Slave -> Nat]
  <2>1. Readable(r)
    BY <1>2, OperandRead DEF Operand
  <2>2. (CHOOSE p \in r.at : TRUE) \in r.at
    BY <2>1 DEF Readable
  <2>3. Head(toSlave[s]).x[CHOOSE p \in r.at : TRUE] \in Nat
    BY <1>3, <1>4, <2>2
  <2>4. reg \in [Slave -> Nat]
    BY DEF Protocol, TypeOK
  <2> QED
    BY <2>3, <2>4 DEF Got
<1>7. TypeOK'
  BY <1>1, <1>4, <1>5, <1>6 DEF Protocol, TypeOK, masterVars, serving
<1>8. SlaveOK(s)'
  <2>1. Answers(q, "reads")
    <3>1. Len(<<>>) = 0 /\ 1 .. 0 = {}
      OBVIOUS
    <3> QED
      BY <1>3, <3>1 DEF Answers
  <2>2. End(a, q) = a
    <3>1. Len(<<>>) = 0
      OBVIOUS
    <3> QED
      BY <1>3, <3>1 DEF End, At
  <2>3. rd + 1 \in 0 .. Len(st.operands)
    BY <1>2
  <2>4. /\ toMaster'[s] = q /\ stmt'[s] = st /\ Served(s)' = a
        /\ spc'[s] = "reads" /\ reads'[s] = rd + 1 /\ toSlave'[s] = <<>>
    BY <1>1, <1>4, <1>5, ServedSame
  <2>5. Control(s, a, q, <<>>, "reads", st, rd + 1)
    BY <1>2, <1>3, <2>2, <2>3 DEF Control
  <2> QED
    BY <1>2, <2>1, <2>4, <2>5 DEF SlaveOK
<1>9. s = source => mpc \notin {"read", "result"}
  BY <1>1, SourceWaits DEF Protocol, MasterOK
<1> QED
  BY <1>1, <1>4, <1>5, <1>7, <1>8, <1>9, OneSlave


(***************************************************************************)
(* What a statement that is through with its operands writes.              *)
(***************************************************************************)
LEMMA NoTarget ==
  ASSUME NEW s \in Slave, NEW st \in Possible(s), st.target = Nowhere
  PROVE  st.secure = FALSE
<1>1. Nowhere.at = {}
  BY DEF Nowhere, Ref
<1> QED
  BY <1>1, Kinds DEF Look, Put, Increment, Writable

LEMMA WhatIsWritten ==
  ASSUME Protocol, NEW s \in Slave, spc[s] = "reads", stmt[s].target # Nowhere
  PROVE  /\ Writable(s, stmt[s].target)
         /\ Result(s) \in [stmt[s].target.at -> Nat]
         /\ stmt[s].target.var \in Owned => Result(s)[s] = s
         /\ stmt[s].secure => stmt[s].target.rows = FALSE
         /\ stmt[s].secure \/ stmt[s].target.var \in Owned
         /\ stmt[s].target.var \notin Owned => Len(stmt[s].operands) # 0
<1>1. stmt[s] \in Possible(s) /\ reg[s] \in Nat /\ s \in Nat
  BY Before DEF Control
<1>2. Put(s, stmt[s]) \/ Increment(s, stmt[s])
  BY <1>1, Kinds DEF Look
<1>3. Writable(s, stmt[s].target)
  BY <1>2 DEF Put, Increment
<1>4. Result(s) \in [stmt[s].target.at -> Nat]
  BY <1>1 DEF Result
<1>5. stmt[s].target.var \in Owned => Result(s)[s] = s
  BY <1>1, <1>3 DEF Result, Writable, Owned
<1>6. CASE Put(s, stmt[s])
  BY <1>3, <1>4, <1>5, <1>6 DEF Put
<1>7. CASE Increment(s, stmt[s])
  <2>1. stmt[s].target.rows = FALSE /\ stmt[s].secure /\ Len(stmt[s].operands) # 0
    BY <1>7 DEF Increment, Ref
  <2> QED
    BY <1>3, <1>4, <1>5, <2>1
<1> QED
  BY <1>2, <1>6, <1>7

LEMMA StoredLine ==
  ASSUME NEW s, NEW a, NEW q \in Seq(Message), NEW st, NEW x \in [st.target.at -> Nat],
         Line(s, a, q), Home(st, End(a, q)),
         Writable(s, st.target), st.target.var \in Owned => x[s] = s,
         st.secure => st.target.rows = FALSE, st.secure \/ st.target.var \in Owned,
         st.target.var \notin Owned => q = <<>>
  PROVE  /\ Store(st.target, x) \in Seq(Message)
         /\ \A i \in 1 .. Len(Store(st.target, x)) : Store(st.target, x)[i].tag # "ATAG"
         /\ Line(s, a, q \o Store(st.target, x))
         /\ Complete(End(a, q \o Store(st.target, x)))
<1> DEFINE r == st.target
           ms == Store(r, x)
<1>1. /\ ms \in Seq(Message)
      /\ Line(s, End(a, q), ms)
      /\ Len(ms) = 3
      /\ Is(ms[1], WriteTag(r), "index", r.var, Position(IoVars, r.var))
      /\ Is(ms[2], WriteTag(r), "coords", r.var, r.at)
      /\ Is(ms[Len(ms)], WriteTag(r), "value", r.var, x)
  BY StoreLine
<1> HIDE DEF ms
<1>2. Len(ms) \in Nat \ {0} /\ WriteTag(r) \in {"WTAG", "FWTAG"}
  BY <1>1 DEF WriteTag
<1>3. \A i \in 1 .. Len(ms) : ms[i].tag # "ATAG"
  <2>1. \A i \in 1 .. Len(ms) : i = 1 \/ i = Len(ms) \/ i = 2
    BY <1>1
  <2> QED
    BY <1>1, <1>2, <2>1 DEF Is
<1>4. Line(s, a, q \o ms)
  <2>1. ms[1].of = r.var
    BY <1>1 DEF Is
  <2> QED
    BY <1>1, <2>1, LineAppend
<1>5. End(a, q \o ms) = ms[Len(ms)]
  BY <1>1, <1>2, EndLast
<1>6. Complete(ms[Len(ms)])
  BY <1>1, <1>2 DEF Complete, Is
<1> QED
  BY <1>1, <1>3, <1>4, <1>5, <1>6 DEF ms

LEMMA WriteStep ==
  ASSUME Protocol, NEW s \in Slave, Write(s)
  PROVE  Protocol'
<1> DEFINE a == Served(s)
           q == toMaster[s]
           st == stmt[s]
           ms == IF st.target = Nowhere THEN <<>> ELSE Store(st.target, Result(s))
<1>1. /\ spc[s] = "reads" /\ reads[s] = Len(st.operands)
      /\ IF st.target = Nowhere
         THEN UNCHANGED <<toMaster, wrote>>
         ELSE /\ SendAll(s, Store(st.target, Result(s)))
              /\ wrote' = [wrote EXCEPT ![s] = @ \cup ({st.target.var} \ Updated)]
      /\ spc' = [spc EXCEPT ![s] = "next"]
      /\ stmt' = [stmt EXCEPT ![s] = Empty]
      /\ reads' = [reads EXCEPT ![s] = 0]
      /\ reg' = [reg EXCEPT ![s] = 0]
      /\ UNCHANGED <<masterVars, toSlave, left, copy, wanted>>
  BY DEF Write, AllRead
<1>2. /\ q \in Seq(Message) /\ Line(s, a, q) /\ Answers(q, spc[s])
      /\ st \in Possible(s) /\ reads[s] \in Nat
      /\ toSlave[s] = <<>> /\ Home(st, End(a, q))
      /\ reads[s] > 0 => q = <<>>
  BY <1>1, Before DEF Control
<1>3. /\ toMaster' \in [Slave -> Seq(Message)]
      /\ \A t \in Slave \ {s} : toMaster'[t] = toMaster[t]
      /\ Line(s, a, toMaster'[s])
      /\ Answers(toMaster'[s], "next")
      /\ Complete(End(a, toMaster'[s]))
      /\ wrote' \in [Slave -> SUBSET Var]
  <2>1. CASE st.target = Nowhere
    <3>1. toMaster' = toMaster /\ wrote' = wrote
      BY <1>1, <2>1
    <3>2. Answers(q, "next")
      <4>1. <<>> \in Seq(Message) /\ \A i \in 1 .. Len(<<>>) : <<>>[i].tag # "ATAG"
        OBVIOUS
      <4> QED
        BY <1>1, <1>2, <4>1, NoAnswers
    <3>3. Complete(End(a, q))
      BY <1>2, <2>1, NoTarget DEF Home
    <3> QED
      BY <1>2, <3>1, <3>2, <3>3 DEF Protocol, TypeOK
  <2>2. CASE st.target # Nowhere
    <3> DEFINE r == st.target
               x == Result(s)
    <3>1. SendAll(s, Store(r, x))
      BY <1>1, <2>2
    <3>2. /\ Writable(s, r)
          /\ x \in [r.at -> Nat]
          /\ r.var \in Owned => x[s] = s
          /\ st.secure => r.rows = FALSE
          /\ st.secure \/ r.var \in Owned
          /\ r.var \notin Owned => Len(st.operands) # 0
      BY <1>1, <2>2, WhatIsWritten
    <3>3. r.var \notin Owned => q = <<>>
      BY <1>1, <1>2, <3>2
    <3>4. /\ Store(r, x) \in Seq(Message)
          /\ \A i \in 1 .. Len(Store(r, x)) : Store(r, x)[i].tag # "ATAG"
          /\ Line(s, a, q \o Store(r, x))
          /\ Complete(End(a, q \o Store(r, x)))
      <4> HIDE DEF a, q, st, x
      <4> QED
        BY <1>2, <3>2, <3>3, StoredLine
    <3>5. /\ toMaster' \in [Slave -> Seq(Message)]
          /\ toMaster'[s] = q \o Store(r, x)
          /\ \A t \in Slave \ {s} : toMaster'[t] = toMaster[t]
      BY <3>1, <3>4, Sending
    <3>6. Answers(q \o Store(r, x), "next")
      BY <1>1, <1>2, <3>4, NoAnswers
    <3>7. wrote' \in [Slave -> SUBSET Var]
      <4>1. r.var \in Var
        BY <3>2 DEF Writable, Var
      <4>2. wrote \in [Slave -> SUBSET Var]
        BY DEF Protocol, TypeOK
      <4>3. wrote' = [wrote EXCEPT ![s] = @ \cup ({r.var} \ Updated)]
        BY <1>1, <2>2
      <4> QED
        BY <4>1, <4>2, <4>3
    <3> QED
      BY <3>4, <3>5, <3>6, <3>7
  <2> QED
    BY <2>1, <2>2
<1>4. /\ spc'[s] = "next" /\ stmt'[s] = Empty /\ reads'[s] = 0
      /\ toSlave'[s] = <<>> /\ Served(s)' = a
      /\ \A t \in Slave \ {s} :
           /\ toMaster[t]' = toMaster[t] /\ toSlave[t]' = toSlave[t]
           /\ spc[t]' = spc[t] /\ stmt[t]' = stmt[t] /\ reads[t]' = reads[t]
  BY <1>1, <1>2, <1>3, ServedSame DEF Protocol, TypeOK
<1>5. TypeOK'
  BY <1>1, <1>3 DEF Protocol, TypeOK, masterVars, serving
<1>6. SlaveOK(s)'
  BY <1>3, <1>4 DEF SlaveOK, Control
<1>7. s = source => mpc \notin {"read", "result"}
  BY <1>1, SourceWaits DEF Protocol, MasterOK
<1> QED
  BY <1>1, <1>4, <1>5, <1>6, <1>7, OneSlave

LEMMA AnswerStep ==
  ASSUME Protocol, NEW s \in Slave, Answer(s)
  PROVE  Protocol' /\ Grows(s)
<1> DEFINE a == Served(s)
           q == toMaster[s]
           n == Len(IoScalars)
           x == [k \in 1 .. n |-> copy[s][IoScalars[k]]]
           ms == Answering(n, x)
<1>1. /\ spc[s] = "next"
      /\ SendAll(s, ms)
      /\ spc' = [spc EXCEPT ![s] = "sent"]
      /\ UNCHANGED <<masterVars, toSlave, stmt, reads, reg, left, copy, wanted, wrote>>
  <2>1. DOMAIN IoScalars = 1 .. n
    BY MemoryAssumption
  <2> QED
    BY <2>1 DEF Answer, Answering
<1>2. /\ q \in Seq(Message) /\ Line(s, a, q) /\ Answers(q, spc[s])
      /\ stmt[s] = Empty /\ reads[s] = 0 /\ toSlave[s] = <<>>
      /\ Complete(End(a, q))
  BY <1>1, Before DEF Control
<1>3. n \in Nat /\ x \in [1 .. n -> Nat]
  <2>1. n \in Nat /\ \A k \in 1 .. n : IoScalars[k] \in Scalar
    BY MemoryAssumption
  <2>2. copy[s] \in [Scalar -> Nat]
    BY DEF Protocol, TypeOK
  <2> QED
    BY <2>1, <2>2
<1>4. /\ ms \in Seq(Message)
      /\ Len(ms) = n + 1
      /\ Line(s, End(a, q), ms)
      /\ \A i \in 1 .. Len(ms) : ms[i].tag = "ATAG" /\ (ms[i].what = "index" => i = 1)
  <2> DEFINE b == End(a, q)
  <2>1. Complete(b)
    BY <1>2
  <2> HIDE DEF ms, b, n, x
  <2>2. /\ ms \in Seq(Message) /\ Len(ms) = n + 1 /\ Line(s, b, ms)
        /\ \A i \in 1 .. Len(ms) : ms[i].tag = "ATAG" /\ (ms[i].what = "index" => i = 1)
    BY <1>3, <2>1, AnswerLine DEF ms
  <2> QED
    BY <2>2 DEF b
<1>5. /\ toMaster' \in [Slave -> Seq(Message)]
      /\ toMaster'[s] = q \o ms
      /\ \A t \in Slave \ {s} : toMaster'[t] = toMaster[t]
  BY <1>1, <1>4, Sending
<1> HIDE DEF ms
<1>6. Line(s, a, q \o ms)
  <2>1. 1 \in 1 .. Len(ms)
    BY <1>3, <1>4
  <2>2. ms[1].tag # "WTAG"
    BY <1>4, <2>1
  <2> QED
    BY <1>2, <1>4, <2>2, LineAppend
<1>7. Answers(q \o ms, "sent")
  <2> SUFFICES ASSUME NEW i \in 1 .. Len(q \o ms), (q \o ms)[i].tag = "ATAG",
                      (q \o ms)[i].what = "index"
               PROVE  Len(q \o ms) - i = n
    BY DEF Answers
  <2>1. i \in 1 .. Len(q) + Len(ms) /\ Len(q) \in Nat /\ Len(ms) \in Nat
        /\ Len(q \o ms) = Len(q) + Len(ms)
    BY <1>2, <1>4, ConcatFacts
  <2>2. CASE i \in 1 .. Len(q)
    <3>1. q[i].tag = "ATAG"
      BY <1>2, <1>4, <2>2, ConcatFacts
    <3> QED
      BY <1>1, <1>2, <2>2, <3>1 DEF Answers
  <2>3. CASE i - Len(q) \in 1 .. Len(ms) /\ i = Len(q) + (i - Len(q))
    <3>1. (q \o ms)[i] = ms[i - Len(q)]
      BY <1>2, <1>4, <2>3, ConcatFacts
    <3>2. i - Len(q) = 1
      BY <1>4, <2>3, <3>1
    <3> HIDE DEF n, q
    <3> QED
      BY <1>3, <1>4, <2>1, <3>2
  <2> QED
    BY <2>1, <2>2, <2>3, InEither
<1>8. End(a, q \o ms).tag = "ATAG"
  <2>1. Len(ms) \in Nat \ {0} /\ Len(ms) \in 1 .. Len(ms)
    BY <1>3, <1>4
  <2>2. End(a, q \o ms) = ms[Len(ms)]
    BY <1>2, <1>4, <2>1, EndLast
  <2> QED
    BY <1>4, <2>1, <2>2
<1>9. spc'[s] = "sent" /\ \A t \in Slave \ {s} : spc'[t] = spc[t]
  BY <1>1 DEF Protocol, TypeOK
<1>10. TypeOK'
  BY <1>1, <1>5 DEF Protocol, TypeOK, masterVars, serving
<1>11. SlaveOK(s)'
  <2>1. /\ toMaster'[s] = q \o ms /\ stmt'[s] = Empty /\ reads'[s] = 0
        /\ toSlave'[s] = <<>> /\ Served(s)' = a
    BY <1>1, <1>2, <1>5, ServedSame
  <2>2. Control(s, a, q \o ms, <<>>, "sent", Empty, 0)
    BY <1>8 DEF Control
  <2> QED
    BY <1>6, <1>7, <1>9, <2>1, <2>2 DEF SlaveOK
<1>12. s = source => mpc \notin {"read", "result"}
  BY <1>1, SourceWaits DEF Protocol, MasterOK
<1>13. Grows(s)
  BY <1>4, <1>5 DEF Grows
<1> QED
  BY <1>1, <1>5, <1>9, <1>10, <1>11, <1>12, <1>13, OneSlave

LEMMA LeaveStep ==
  ASSUME Protocol, NEW s \in Slave, Leave(s)
  PROVE  Protocol'
<1> DEFINE a == Served(s)
           q == toMaster[s]
<1>1. /\ spc[s] = "sent" /\ toSlave[s] # <<>>
      /\ toSlave' = Drop(toSlave, s)
      /\ spc' = [spc EXCEPT ![s] = "done"]
      /\ UNCHANGED <<masterVars, toMaster, stmt, reads, reg, left, copy, wanted, wrote>>
  BY DEF Leave, Arrived
<1>2. /\ q \in Seq(Message) /\ Line(s, a, q)
      /\ stmt[s] = Empty /\ reads[s] = 0
      /\ Len(toSlave[s]) = 1 /\ q = <<>> /\ Complete(a)
  BY <1>1, Before DEF Control
<1>3. /\ toSlave' \in [Slave -> Seq(Message)]
      /\ toSlave'[s] = <<>>
      /\ \A t \in Slave \ {s} : toSlave'[t] = toSlave[t]
  BY <1>1, <1>2, Taking
<1>4. spc'[s] = "done" /\ \A t \in Slave \ {s} : spc'[t] = spc[t]
  BY <1>1 DEF Protocol, TypeOK
<1>5. TypeOK'
  BY <1>1, <1>3 DEF Protocol, TypeOK, masterVars, serving
<1>6. SlaveOK(s)'
  <2>1. Answers(q, "done")
    <3>1. Len(<<>>) = 0 /\ 1 .. 0 = {}
      OBVIOUS
    <3> QED
      BY <1>2, <3>1 DEF Answers
  <2>2. /\ toMaster'[s] = q /\ stmt'[s] = Empty /\ reads'[s] = 0 /\ Served(s)' = a
    BY <1>1, <1>2, ServedSame
  <2>3. Control(s, a, q, <<>>, "done", Empty, 0)
    BY <1>2 DEF Control
  <2> QED
    BY <1>2, <1>3, <1>4, <2>1, <2>2, <2>3 DEF SlaveOK
<1>7. s = source => mpc \notin {"read", "result"}
  BY <1>1, SourceWaits DEF Protocol, MasterOK
<1> QED
  BY <1>1, <1>3, <1>4, <1>5, <1>6, <1>7, OneSlave


LEMMA SlavesStep ==
  ASSUME Protocol, NEW s \in Slave, SlaveStep(s)
  PROVE  Protocol'
  BY StartStep, TallyStep, AskStep, GotStep, WriteStep, AnswerStep, LeaveStep DEF SlaveStep

-------------------------------------------------------------------------------
(***************************************************************************)
(* Steps of the master.  Only the slave it serves is concerned.            *)
(***************************************************************************)
LEMMA OneServed ==
  ASSUME Protocol, NEW s \in Slave, UNCHANGED slaveVars, TypeOK', MasterOK',
         source' = s, source = s \/ mpc = "any",
         \A t \in Slave \ {s} : toMaster'[t] = toMaster[t] /\ toSlave'[t] = toSlave[t],
         SlaveOK(s)'
  PROVE  Protocol'
<1>1. ASSUME NEW t \in Slave, t # s PROVE SlaveOK(t)'
  <2>1. Served(t) = Free
    BY <1>1 DEF Served
  <2>2. Served(t)' = Free
    BY <1>1 DEF Served
  <2>3. /\ toMaster'[t] = toMaster[t] /\ toSlave'[t] = toSlave[t]
        /\ spc'[t] = spc[t] /\ stmt'[t] = stmt[t] /\ reads'[t] = reads[t]
    BY <1>1 DEF slaveVars
  <2> QED
    BY <2>1, <2>2, <2>3 DEF Protocol, SlaveOK
<1> QED
  BY <1>1 DEF Protocol

LEMMA Dropping ==
  ASSUME Protocol, NEW s \in Slave, toMaster[s] # <<>>, toMaster' = Drop(toMaster, s)
  PROVE  /\ toMaster' \in [Slave -> Seq(Message)]
         /\ toMaster'[s] = Tail(toMaster[s])
         /\ \A t \in Slave \ {s} : toMaster'[t] = toMaster[t]
         /\ Head(toMaster[s]) = toMaster[s][1]
         /\ toMaster[s][1] \in Message
         /\ Follows(s, Served(s), toMaster[s][1])
<1>1. toMaster \in [Slave -> Seq(Message)] /\ toMaster[s] \in Seq(Message)
  BY DEF Protocol, TypeOK
<1>2. /\ Tail(toMaster[s]) \in Seq(Message) /\ Head(toMaster[s]) = toMaster[s][1]
      /\ toMaster[s][1] \in Message /\ 1 \in 1 .. Len(toMaster[s])
  BY <1>1, TailFacts
<1>3. Follows(s, Served(s), toMaster[s][1])
  BY <1>2, Before DEF Line, At
<1> QED
  BY <1>1, <1>2, <1>3 DEF Drop

LEMMA MasterTakes ==
  ASSUME Protocol, NEW s \in Slave, toMaster[s] # <<>>, ~Request(Served(s)),
         toMaster' = Drop(toMaster, s), UNCHANGED <<toSlave, slaveVars>>,
         Alike(toMaster[s][1], Served(s)')
  PROVE  SlaveOK(s)'
<1> DEFINE a == Served(s)
           q == toMaster[s]
           b == Served(s)'
<1>1. /\ q \in Seq(Message) /\ q # <<>> /\ Line(s, a, q) /\ Answers(q, spc[s])
      /\ Control(s, a, q, toSlave[s], spc[s], stmt[s], reads[s])
      /\ spc[s] \in {"next", "reads", "await", "sent", "done"}
      /\ Tail(q) \in Seq(Message)
  BY Before, TailFacts
<1>2. /\ toMaster'[s] = Tail(q) /\ toSlave'[s] = toSlave[s]
      /\ spc'[s] = spc[s] /\ stmt'[s] = stmt[s] /\ reads'[s] = reads[s]
  BY Dropping DEF slaveVars
<1> HIDE DEF a, q, b
<1>3. ~Request(a) /\ Alike(q[1], b)
  BY DEF a, b, q
<1>4. Line(s, b, Tail(q)) /\ Answers(Tail(q), spc[s])
  BY <1>1, <1>3, LineTake, LineAlike, AnswersTake
<1>5. Control(s, q[1], Tail(q), toSlave[s], spc[s], stmt[s], reads[s])
  BY <1>1, <1>3, ControlTake
<1>6. Control(s, b, Tail(q), toSlave[s], spc[s], stmt[s], reads[s])
  BY <1>1, <1>3, <1>5, ControlAlike
<1> QED
  BY <1>2, <1>4, <1>6 DEF SlaveOK, b, q

(***************************************************************************)
(* A request that is the next message: the slave waits, and what came      *)
(* before is the beginning of its statement.                               *)
(***************************************************************************)
LEMMA RequestNext ==
  ASSUME Protocol, NEW s \in Slave, toMaster[s] # <<>>, ~Request(Served(s)),
         Request(toMaster[s][1])
  PROVE  spc[s] = "await" /\ Home(stmt[s], Served(s)) /\ stmt[s] \in Possible(s)
<1> DEFINE a == Served(s)
           q == toMaster[s]
           st == stmt[s]
           rd == reads[s]
<1>1. /\ q \in Seq(Message) /\ q # <<>> /\ Line(s, a, q)
      /\ Control(s, a, q, toSlave[s], spc[s], st, rd)
      /\ spc[s] \in {"next", "reads", "await", "sent", "done"}
      /\ Tail(q) \in Seq(Message)
  BY Before, TailFacts
<1>2. ~Request(a) /\ Request(q[1])
  OBVIOUS
<1> HIDE DEF a, q, st, rd
<1>3. Line(s, q[1], Tail(q)) /\ Control(s, q[1], Tail(q), toSlave[s], spc[s], st, rd)
  BY <1>1, <1>2, LineTake, ControlTake
<1>4. spc[s] = "await" /\ toSlave[s] = <<>>
  BY <1>1, <1>2, <1>3, OnlyAwaits
<1>5. Asking(a, q, st, rd) /\ st \in Possible(s)
  BY <1>1, <1>4 DEF Control, Answered
<1>6. Home(st, a)
  BY <1>1, <1>2, <1>5, RequestedNow
<1> QED
  BY <1>4, <1>5, <1>6 DEF a, st

LEMMA ReceiveStep ==
  ASSUME Protocol, ReadsSomething, Receive
  PROVE  Protocol' /\ mpc' \in {"read", "write", "secure", "result"}
<1>1. mpc = "any" /\ taken' = 0 /\ UNCHANGED <<coord, killed, mem, slaveVars, toSlave>>
  BY DEF Receive
<1>2. PICK s \in Slave :
        /\ toMaster[s] # <<>>
        /\ source' = s
        /\ stat' = IF Head(toMaster[s]).tag = "SWTAG" THEN "WTAG" ELSE Head(toMaster[s]).tag
        /\ partSize' = Head(toMaster[s]).x
        /\ mpc' = AfterIndex(Head(toMaster[s]).tag, Head(toMaster[s]).x)
        /\ section' = IF mpc' = "secure" THEN Head(toMaster[s]).x ELSE 0
        /\ toMaster' = Drop(toMaster, s)
  BY DEF Receive
<1> DEFINE m == toMaster[s][1]
<1>3. /\ toMaster' \in [Slave -> Seq(Message)]
      /\ toMaster'[s] = Tail(toMaster[s])
      /\ \A t \in Slave \ {s} : toMaster'[t] = toMaster[t]
      /\ Head(toMaster[s]) = m
      /\ Follows(s, Served(s), m)
  BY <1>2, Dropping
<1>4. Served(s) = Free
  BY <1>1 DEF Served
<1>5. Begins(Free, m)
  BY <1>3, <1>4 DEF Follows, Updates, Places, Gives, Results, Part, Free, Datum
<1>6. /\ stat' = IF m.tag = "SWTAG" THEN "WTAG" ELSE m.tag
      /\ partSize' = m.x
      /\ mpc' = AfterIndex(m.tag, m.x)
      /\ section' = IF mpc' = "secure" THEN m.x ELSE 0
  BY <1>2, <1>3
<1> HIDE DEF m
<1>7. mpc' \in {"read", "write", "secure", "result"} /\ section' \in {0} \cup DOMAIN IoVars
      /\ MasterOK' /\ Alike(m, Served(s)')
  <2>1. CASE Index(m, {"RTAG", "FRTAG"}, InVars)
    <3>1. mpc' = "read" /\ section' = 0 /\ stat' = m.tag /\ partSize' = m.x
      BY <1>6, <2>1 DEF AfterIndex, Index
    <3>2. Request(m) /\ ~Request(Free)
      BY <2>1 DEF Request, Index, Free, Datum
    <3>3. Home(stmt[s], Free)
      BY <1>2, <1>4, <3>2, RequestNext DEF m
    <3>4. ~stmt[s].secure /\ stmt' = stmt
      BY <1>1, <3>3 DEF Home, Is, Free, Datum, slaveVars
    <3>5. MasterOK'
      BY <1>2, <2>1, <3>1, <3>4 DEF MasterOK, Index
    <3>6. Served(s)' = Datum(m.tag, "index", InVars[m.x], m.x)
      BY <1>2, <3>1 DEF Served
    <3>7. Alike(m, Served(s)')
      BY <2>1, <3>6 DEF Alike, Is, Index, Datum
    <3> QED
      BY <3>1, <3>5, <3>7
  <2>2. CASE Index(m, {"WTAG", "FWTAG"}, IoVars) /\ m.of \in Owned
    <3>1. IoVars[m.x] \notin Scalar /\ IoVars[m.x] = m.of /\ m.x \in DOMAIN IoVars
      BY <2>2, MemoryAssumption DEF Index, Owned
    <3>2. mpc' = "write" /\ section' = 0 /\ stat' = m.tag /\ partSize' = m.x
      BY <1>6, <2>2, <3>1 DEF AfterIndex, Index
    <3>3. Item' = m.x /\ Target' = m.of
      BY <3>1, <3>2 DEF Item, Target
    <3>4. MasterOK'
      BY <2>2, <3>1, <3>2, <3>3 DEF MasterOK, Index
    <3>5. Served(s)' = Datum(m.tag, "index", m.of, m.x)
      BY <1>2, <3>2, <3>3 DEF Served
    <3>6. Alike(m, Served(s)')
      BY <2>2, <3>5 DEF Alike, Is, Index, Datum
    <3> QED
      BY <3>2, <3>4, <3>6
  <2>3. CASE Index(m, {"SWTAG"}, IoVars)
    <3>1. mpc' = "secure"
      BY <1>6, <2>3 DEF AfterIndex, Index, ReadsSomething
    <3>2. section' = m.x /\ m.x \in DOMAIN IoVars
      BY <1>6, <2>3, <3>1 DEF Index
    <3>3. m.x # 0
      BY <3>2, MemoryAssumption
    <3>4. MasterOK'
      BY <3>1, <3>2, <3>3 DEF MasterOK
    <3>5. Served(s)' = Datum("SWTAG", "index", IoVars[m.x], m.x)
      BY <1>2, <3>1, <3>2 DEF Served
    <3>6. Alike(m, Served(s)')
      BY <2>3, <3>5 DEF Alike, Is, Index, Datum
    <3> QED
      BY <3>1, <3>2, <3>4, <3>6
  <2>4. CASE Is(m, "ATAG", "index", "none", 0)
    <3>1. mpc' = "result" /\ section' = 0 /\ stat' = "ATAG"
      BY <1>6, <2>4 DEF AfterIndex, Is
    <3>2. Served(s)' = Datum("ATAG", "index", "none", 0)
      BY <1>2, <3>1 DEF Served
    <3>3. Alike(m, Served(s)')
      BY <2>4, <3>2 DEF Alike, Is, Datum
    <3>4. /\ toMaster[s] \in Seq(Message) /\ Answers(toMaster[s], spc[s])
          /\ Control(s, Free, toMaster[s], toSlave[s], spc[s], stmt[s], reads[s])
      BY <1>4, Before
    <3>5. spc[s] = "sent" /\ Len(toMaster[s]) - 1 = Len(IoScalars)
      <4>1. 1 \in 1 .. Len(toMaster[s])
        BY <1>2, <3>4, TailFacts
      <4> QED
        BY <2>4, <3>4, <4>1 DEF Answers, Is, m
    <3>6. toSlave[s] = <<>>
      BY <1>2, <3>4, <3>5 DEF Control
    <3>7. Len(toMaster'[s]) = Len(IoScalars)
      BY <1>2, <1>3, <3>4, <3>5, TailFacts
    <3>8. taken' + Len(toMaster'[s]) = Len(IoScalars)
      BY <1>1, <3>7, MemoryAssumption
    <3>9. spc' = spc /\ toSlave' = toSlave
      BY <1>1 DEF slaveVars
    <3>10. MasterOK'
      BY <1>2, <3>1, <3>5, <3>6, <3>8, <3>9 DEF MasterOK
    <3> QED
      BY <3>1, <3>3, <3>10
  <2> QED
    BY <1>5, <2>1, <2>2, <2>3, <2>4 DEF Begins
<1>8. TypeOK'
  BY <1>1, <1>2, <1>3, <1>7 DEF Protocol, TypeOK, slaveVars
<1>9. SlaveOK(s)'
  <2>1. ~Request(Served(s))
    BY <1>4 DEF Request, Free, Datum
  <2> QED
    BY <1>1, <1>2, <1>7, <2>1, MasterTakes DEF m
<1> QED
  BY <1>1, <1>2, <1>3, <1>7, <1>8, <1>9, OneServed


LEMMA SecureStep ==
  ASSUME Protocol, Secure
  PROVE  Protocol'
<1> DEFINE s == source
           m == toMaster[s][1]
<1>1. /\ s \in Slave /\ mpc = "secure" /\ toMaster[s] # <<>>
      /\ section \in DOMAIN IoVars /\ section # 0
  <2>1. section \in {0} \cup DOMAIN IoVars /\ section # 0
    BY DEF Protocol, TypeOK, MasterOK, Secure
  <2> QED
    BY <2>1 DEF Protocol, TypeOK, Secure
<1>2. /\ toMaster' = Drop(toMaster, s)
      /\ UNCHANGED <<source, coord, section, taken, killed, mem, slaveVars, toSlave>>
  BY DEF Secure
<1>3. /\ toMaster' \in [Slave -> Seq(Message)]
      /\ \A t \in Slave \ {s} : toMaster'[t] = toMaster[t]
      /\ Head(toMaster[s]) = m
      /\ Follows(s, Served(s), m)
  BY <1>1, <1>2, Dropping
<1>4. /\ stat' = m.tag
      /\ partSize' = m.x
      /\ mpc' = CASE m.tag = "RTAG" -> "read"
                  [] m.tag = "WTAG" -> IF IoVars[section] \in Scalar THEN "value" ELSE "write"
                  [] OTHER -> "secure"
  BY <1>3 DEF Secure
<1>5. Served(s) = Datum("SWTAG", "index", IoVars[section], section)
  BY <1>1 DEF Served
<1>6. Updates(Served(s), m)
  BY <1>3, <1>5 DEF Follows, Begins, Complete, Places, Gives, Results, Part, Datum
<1> HIDE DEF m
<1>7. mpc' \in {"read", "write", "value"} /\ MasterOK' /\ Alike(m, Served(s)')
  <2>1. CASE Index(m, {"RTAG"}, InVars)
    <3>1. mpc' = "read" /\ stat' = "RTAG" /\ partSize' = m.x
      BY <1>4, <2>1 DEF Index
    <3>2. Request(m) /\ ~Request(Served(s))
      BY <1>5, <2>1 DEF Request, Index, Datum
    <3>3. Home(stmt[s], Served(s))
      BY <1>1, <3>2, RequestNext DEF m
    <3>4. /\ stmt[s].secure /\ section = Position(IoVars, stmt[s].target.var)
          /\ stmt' = stmt
      BY <1>2, <1>5, <3>3 DEF Home, Is, Complete, Datum, slaveVars
    <3>5. MasterOK'
      BY <1>2, <2>1, <3>1, <3>4 DEF MasterOK, Index
    <3>6. Served(s)' = Datum("RTAG", "index", InVars[m.x], m.x)
      BY <1>2, <3>1 DEF Served
    <3>7. Alike(m, Served(s)')
      BY <2>1, <3>6 DEF Alike, Is, Index, Datum
    <3> QED
      BY <3>1, <3>5, <3>7
  <2>2. CASE Index(m, {"WTAG"}, IoVars) /\ m.x = section
    <3>1. mpc' = "write" /\ stat' = "WTAG" /\ IoVars[section] \notin Scalar
      BY <1>4, <2>2 DEF Index
    <3>2. Item' = section /\ Target' = IoVars[section] /\ section' = section
      BY <1>1, <1>2 DEF Item, Target
    <3>4. MasterOK'
      BY <1>1, <3>1, <3>2 DEF MasterOK
    <3>5. Served(s)' = Datum("WTAG", "index", IoVars[section], section)
      BY <1>2, <3>1, <3>2 DEF Served
    <3>6. Alike(m, Served(s)')
      BY <2>2, <3>5 DEF Alike, Is, Index, Datum
    <3> QED
      BY <3>1, <3>4, <3>6
  <2> QED
    BY <1>5, <1>6, <2>1, <2>2 DEF Updates, Datum
<1>8. TypeOK'
  BY <1>2, <1>3, <1>7 DEF Protocol, TypeOK, slaveVars
<1>9. SlaveOK(s)'
  <2>1. ~Request(Served(s))
    BY <1>5 DEF Request, Datum
  <2>2. UNCHANGED <<toSlave, slaveVars>>
    BY <1>2
  <2> QED
    BY <1>1, <1>2, <1>7, <2>1, <2>2, MasterTakes DEF m
<1> QED
  BY <1>1, <1>2, <1>3, <1>7, <1>8, <1>9, OneServed

(***************************************************************************)
(* The coordinates of a write: of the variable meant, and the slave's own  *)
(* element of what it owns.                                                *)
(***************************************************************************)
LEMMA CoordsTaken ==
  ASSUME Protocol, mpc = "write", toMaster[source] # <<>>
  PROVE  /\ toMaster[source][1].what = "coords" /\ toMaster[source][1].of = Target
         /\ toMaster[source][1].tag = stat
         /\ toMaster[source][1].x \in SUBSET Place
         /\ Target \in Owned => toMaster[source][1].x = {source}
         /\ ~Request(Served(source))
<1> DEFINE s == source
           m == toMaster[s][1]
<1>1. /\ s \in Slave
      /\ stat \in {"WTAG", "FWTAG"} /\ Target \notin Scalar
  BY DEF Protocol, TypeOK, MasterOK
<1>2. Follows(s, Served(s), m)
  <2>1. toMaster[s] \in Seq(Message) /\ 1 \in 1 .. Len(toMaster[s])
    BY <1>1, Before, TailFacts
  <2> QED
    BY <1>1, <2>1, Before DEF Line, At
<1>3. Served(s) = Datum(stat, "index", Target, Item)
  BY DEF Served
<1>4. Places(s, Served(s), m)
  BY <1>1, <1>2, <1>3 DEF Follows, Begins, Complete, Updates, Gives, Results, Datum
<1>5. ~Request(Served(s))
  BY <1>1, <1>3 DEF Request, Datum
<1> HIDE DEF m
<1>6. /\ m.what = "coords" /\ m.tag = stat /\ m.of = Target /\ m.x \in SUBSET Place
      /\ Target \in Owned => m.x = {s}
  BY <1>1, <1>3, <1>4 DEF Places, Part, Datum
<1> QED
  BY <1>5, <1>6 DEF m

LEMMA TakeCoordsStep ==
  ASSUME Protocol, TakeCoords
  PROVE  Protocol'
<1> DEFINE s == source
           m == toMaster[s][1]
<1>1. /\ s \in Slave /\ mpc = "write" /\ toMaster[s] # <<>>
      /\ stat \in {"WTAG", "FWTAG"} /\ Item \in DOMAIN IoVars
      /\ section = 0 => Target \in Owned
      /\ Target \notin Scalar
  BY DEF Protocol, TypeOK, MasterOK, TakeCoords, Arrived
<1>2. /\ toMaster' = Drop(toMaster, s)
      /\ mpc' = "value"
      /\ UNCHANGED <<source, stat, partSize, section, taken, killed, mem, slaveVars, toSlave>>
  BY DEF TakeCoords
<1>3. /\ toMaster' \in [Slave -> Seq(Message)]
      /\ \A t \in Slave \ {s} : toMaster'[t] = toMaster[t]
      /\ Head(toMaster[s]) = m
  BY <1>1, <1>2, Dropping
<1>4. coord' = m.x
  BY <1>3 DEF TakeCoords
<1>5. /\ m.what = "coords" /\ m.tag = stat /\ m.of = Target /\ m.x \in SUBSET Place
      /\ Target \in Owned => m.x = {s}
      /\ ~Request(Served(s))
  BY <1>1, CoordsTaken
<1> HIDE DEF m
<1>6. Item' = Item /\ Target' = Target
  BY <1>2 DEF Item, Target
<1>7. MasterOK'
  BY <1>1, <1>2, <1>4, <1>5, <1>6 DEF MasterOK
<1>8. Served(s)' = Datum(stat, "coords", Target, m.x)
  BY <1>1, <1>2, <1>4, <1>6 DEF Served
<1>9. Alike(m, Served(s)')
  BY <1>5, <1>8 DEF Alike, Is, Datum
<1>10. TypeOK'
  BY <1>2, <1>3, <1>4, <1>5 DEF Protocol, TypeOK, slaveVars
<1>11. SlaveOK(s)'
  BY <1>1, <1>2, <1>5, <1>9, MasterTakes DEF m
<1> QED
  BY <1>1, <1>2, <1>3, <1>7, <1>10, <1>11, OneServed

(***************************************************************************)
(* The value that is stored: of the variable meant, for the elements       *)
(* meant, and the slave's own for what it owns.                            *)
(***************************************************************************)
LEMMA ValueStored ==
  ASSUME Protocol, mpc = "value", toMaster[source] # <<>>
  PROVE  /\ Target \in Var
         /\ toMaster[source][1].what = "value" /\ toMaster[source][1].of = Target
         /\ toMaster[source][1].tag = stat
         /\ Target \notin Scalar
         /\ toMaster[source][1].x \in [coord -> Nat]
         /\ Target \in Owned => toMaster[source][1].x[source] = source
         /\ Complete(toMaster[source][1])
         /\ ~Request(Served(source))
<1> DEFINE s == source
           m == toMaster[s][1]
<1>1. /\ s \in Slave
      /\ stat \in {"WTAG", "FWTAG"} /\ Item \in DOMAIN IoVars /\ Target \notin Scalar
  BY DEF Protocol, TypeOK, MasterOK
<1>2. Target = IoVars[Item] /\ Target \in Var
  BY <1>1 DEF Target, Item, Var
<1>3. Follows(s, Served(s), m)
  <2>1. toMaster[s] \in Seq(Message) /\ 1 \in 1 .. Len(toMaster[s])
    BY <1>1, Before, TailFacts
  <2> QED
    BY <1>1, <2>1, Before DEF Line, At
<1>4. Served(s) = Datum(stat, "coords", Target, coord)
  BY DEF Served
<1>5. Gives(s, Served(s), m)
  BY <1>1, <1>3, <1>4 DEF Follows, Begins, Complete, Updates, Places, Results, Datum
<1> HIDE DEF m
<1>6. /\ m.what = "value" /\ m.of = Target /\ m.tag = stat
      /\ m.x \in [coord -> Nat]
      /\ Target \in Owned => m.x[s] = s
  BY <1>1, <1>4, <1>5 DEF Gives, Part, Datum
<1>7. ~Request(Served(s))
  BY <1>1, <1>4 DEF Request, Datum
<1> QED
  BY <1>1, <1>2, <1>6, <1>7 DEF Complete, m

LEMMA Overwritten ==
  ASSUME mem \in [Var -> [Place -> Nat]], NEW v \in Var, NEW at \in SUBSET Place,
         NEW x, \A p \in at : x[p] \in Nat, Overwrite(v, at, x)
  PROVE  mem' \in [Var -> [Place -> Nat]]
<1>1. [p \in Place |-> IF p \in at THEN x[p] ELSE mem[v][p]] \in [Place -> Nat]
  OBVIOUS
<1> QED
  BY <1>1 DEF Overwrite

LEMMA StoreValueStep ==
  ASSUME Protocol, StoreValue
  PROVE  Protocol'
<1> DEFINE s == source
           m == toMaster[s][1]
           at == coord
<1>1. s \in Slave /\ mpc = "value" /\ toMaster[s] # <<>>
  BY DEF Protocol, TypeOK, StoreValue, Arrived
<1>2. /\ toMaster' = Drop(toMaster, s)
      /\ mpc' = "any" /\ section' = 0
      /\ UNCHANGED <<source, stat, partSize, coord, taken, killed, slaveVars, toSlave>>
  BY DEF StoreValue
<1>3. /\ toMaster' \in [Slave -> Seq(Message)]
      /\ \A t \in Slave \ {s} : toMaster'[t] = toMaster[t]
      /\ Head(toMaster[s]) = m
  BY <1>1, <1>2, Dropping
<1>4. Overwrite(Target, at, m.x)
  BY <1>1, <1>3, ValueStored DEF StoreValue
<1>5. /\ Target \in Var /\ m.x \in [at -> Nat] /\ Complete(m) /\ ~Request(Served(s))
  BY <1>1, ValueStored
<1>6. mem' \in [Var -> [Place -> Nat]]
  <2>1. mem \in [Var -> [Place -> Nat]] /\ at \in SUBSET Place
    BY OneIsPlace DEF Protocol, TypeOK
  <2> HIDE DEF at, m
  <2>2. \A p \in at : m.x[p] \in Nat
    BY <1>5
  <2> QED
    BY <1>4, <1>5, <2>1, <2>2, Overwritten
<1>7. TypeOK'
  BY <1>2, <1>3, <1>6 DEF Protocol, TypeOK, slaveVars
<1>8. MasterOK'
  BY <1>2 DEF MasterOK
<1>9. Alike(m, Served(s)')
  <2>1. Served(s)' = Free
    BY <1>2 DEF Served
  <2> QED
    BY <1>5, <2>1 DEF Alike, Complete, Free, Datum
<1>10. SlaveOK(s)'
  BY <1>1, <1>2, <1>5, <1>9, MasterTakes
<1> QED
  BY <1>1, <1>2, <1>3, <1>7, <1>8, <1>10, OneServed


LEMMA ScalarTaken ==
  ASSUME Protocol, mpc = "result", toMaster[source] # <<>>
  PROVE  /\ Results(Served(source), toMaster[source][1])
         /\ Due
         /\ Served(source) = Datum("ATAG", "index", "none", 0)
<1>1. source \in Slave /\ taken \in Nat /\ taken + Len(toMaster[source]) = Len(IoScalars)
  BY DEF Protocol, TypeOK, MasterOK
<1>2. toMaster[source] \in Seq(Message) /\ Len(toMaster[source]) >= 1
      /\ Len(toMaster[source]) \in Nat
      /\ 1 \in 1 .. Len(toMaster[source])
  BY <1>1, Before, TailFacts
<1>3. Served(source) = Datum("ATAG", "index", "none", 0)
  BY DEF Served
<1>4. Follows(source, Served(source), toMaster[source][1])
  BY <1>1, <1>2, Before DEF Line, At
<1>5. Results(Served(source), toMaster[source][1])
  BY <1>3, <1>4 DEF Follows, Begins, Complete, Updates, Places, Gives, Datum
<1>6. Due
  BY <1>1, <1>2 DEF Due
<1> QED
  BY <1>3, <1>5, <1>6

(***************************************************************************)
(* The scalar the next value of an answer is stored in.                    *)
(***************************************************************************)
LEMMA DueScalar ==
  ASSUME taken \in Nat, Due
  PROVE  IoScalars[taken + 1] \in Scalar \cap Var
<1>1. taken + 1 \in DOMAIN IoScalars
  BY MemoryAssumption DEF Due
<1>2. IoScalars[taken + 1] \in Scalar \cap {IoVars[i] : i \in DOMAIN IoVars}
  BY <1>1, MemoryAssumption
<1> QED
  BY <1>2 DEF Var

LEMMA ArraysLeft ==
  ASSUME Protocol, TakeScalar, NEW v \in Var \ Scalar
  PROVE  mem'[v] = mem[v]
<1>1. /\ mem \in [Var -> [Place -> Nat]] /\ taken \in Nat /\ Due
      /\ Overwrite(IoScalars[taken + 1], {1}, <<Head(toMaster[source]).x>>)
  BY DEF Protocol, TypeOK, TakeScalar
<1>2. IoScalars[taken + 1] # v
  BY <1>1, DueScalar
<1> QED
  BY <1>1, <1>2 DEF Overwrite

LEMMA TakeScalarStep ==
  ASSUME Protocol, TakeScalar
  PROVE  Protocol'
<1> DEFINE s == source
           m == toMaster[s][1]
<1>1. /\ s \in Slave /\ mpc = "result" /\ toMaster[s] # <<>>
      /\ stat = "ATAG" /\ section = 0
      /\ spc[s] = "sent" /\ toSlave[s] = <<>>
      /\ taken \in Nat /\ taken + Len(toMaster[s]) = Len(IoScalars)
  BY DEF Protocol, TypeOK, MasterOK, TakeScalar, Arrived
<1>2. /\ toMaster' = Drop(toMaster, s)
      /\ UNCHANGED <<mpc, source, stat, partSize, coord, section, killed, slaveVars, toSlave>>
  BY DEF TakeScalar
<1>3. /\ toMaster' \in [Slave -> Seq(Message)]
      /\ toMaster'[s] = Tail(toMaster[s])
      /\ \A t \in Slave \ {s} : toMaster'[t] = toMaster[t]
      /\ Head(toMaster[s]) = m
  BY <1>1, <1>2, Dropping
<1> DEFINE v == IoScalars[taken + 1]
<1>4. Overwrite(v, {1}, <<m.x>>) /\ taken' = taken + 1 /\ Due
  BY <1>3 DEF TakeScalar
<1>5. m.x \in Nat /\ m.tag = "ATAG" /\ Served(s) = Datum("ATAG", "index", "none", 0)
  BY <1>1, ScalarTaken DEF Results
<1>6. v \in Var
  BY <1>1, <1>4, DueScalar
<1>7. mem' \in [Var -> [Place -> Nat]]
  <2>1. mem \in [Var -> [Place -> Nat]] /\ {1} \in SUBSET Place
    BY OneIsPlace DEF Protocol, TypeOK
  <2> DEFINE x == <<m.x>>
  <2>2. \A p \in {1} : x[p] \in Nat
    BY <1>5
  <2>3. Overwrite(v, {1}, x)
    BY <1>4
  <2> HIDE DEF x, v
  <2> QED
    BY <1>6, <2>1, <2>2, <2>3, Overwritten
<1>8. TypeOK'
  BY <1>1, <1>2, <1>3, <1>4, <1>7 DEF Protocol, TypeOK, slaveVars
<1>9. MasterOK'
  <2>1. Len(toMaster'[s]) = Len(toMaster[s]) - 1 /\ Len(toMaster[s]) \in Nat
    <3>1. toMaster[s] \in Seq(Message)
      BY <1>1, Before
    <3> QED
      BY <1>1, <1>3, <3>1, TailFacts
  <2>2. taken' + Len(toMaster'[s]) = Len(IoScalars)
    <3>1. taken \in Nat /\ taken' = taken + 1 /\ taken + Len(toMaster[s]) = Len(IoScalars)
      BY <1>1, <1>4
    <3> DEFINE l == Len(toMaster[s])
               now == Len(toMaster'[s])
               all == Len(IoScalars)
    <3>2. l \in Nat /\ now = l - 1 /\ taken + l = all
      BY <2>1, <3>1
    <3> HIDE DEF l, now, all
    <3>3. taken + 1 + now = all
      BY <3>1, <3>2
    <3> QED
      BY <3>1, <3>3 DEF now, all
  <2>3. /\ mpc' = "result" /\ source' = source /\ section' = 0 /\ stat' = "ATAG"
        /\ spc'[s] = "sent" /\ toSlave'[s] = <<>>
    BY <1>1, <1>2 DEF slaveVars
  <2> QED
    BY <2>2, <2>3 DEF MasterOK
<1>10. SlaveOK(s)'
  <2>1. Served(s)' = Datum("ATAG", "index", "none", 0)
    BY <1>1, <1>2 DEF Served
  <2>2. Alike(m, Served(s)') /\ ~Request(Served(s))
    BY <1>5, <2>1 DEF Alike, Request, Datum
  <2>3. UNCHANGED <<toSlave, slaveVars>>
    BY <1>2
  <2> QED
    BY <1>1, <1>2, <2>2, <2>3, MasterTakes
<1> QED
  BY <1>1, <1>2, <1>3, <1>8, <1>9, <1>10, OneServed

(***************************************************************************)
(* A message to a slave whose two channels are empty.                      *)
(***************************************************************************)
LEMMA Replying ==
  ASSUME Protocol, NEW s \in Slave, NEW m \in Message, toSlave[s] = <<>>,
         toSlave' = Send(toSlave, s, m)
  PROVE  /\ toSlave' \in [Slave -> Seq(Message)]
         /\ Len(toSlave'[s]) = 1 /\ toSlave'[s][1] = m
         /\ \A t \in Slave \ {s} : toSlave'[t] = toSlave[t]
<1>1. toSlave \in [Slave -> Seq(Message)]
  BY DEF Protocol, TypeOK
<1>2. Append(<<>>, m) \in Seq(Message) /\ Len(Append(<<>>, m)) = 1 /\ Append(<<>>, m)[1] = m
  OBVIOUS
<1>3. toSlave'[s] = Append(<<>>, m)
  BY <1>1 DEF Send
<1>4. toSlave' = [toSlave EXCEPT ![s] = Append(<<>>, m)]
  BY DEF Send
<1> QED
  BY <1>1, <1>2, <1>3, <1>4

LEMMA DismissStep ==
  ASSUME Protocol, Dismiss
  PROVE  Protocol'
<1> DEFINE s == source
<1>1. /\ s \in Slave /\ mpc = "result" /\ ~Due /\ section = 0
      /\ spc[s] = "sent" /\ toSlave[s] = <<>>
      /\ taken \in Nat /\ taken + Len(toMaster[s]) = Len(IoScalars)
  BY DEF Protocol, TypeOK, MasterOK, Dismiss
<1>2. /\ toSlave' = Send(toSlave, s, Stop)
      /\ killed' = killed + 1
      /\ mpc' \in {"any", "done"}
      /\ UNCHANGED <<serving, mem, slaveVars, toMaster>>
  BY DEF Dismiss
<1>3. toMaster[s] = <<>> /\ reads[s] = 0 /\ stmt[s] = Empty
  <2>1. toMaster[s] \in Seq(Message)
        /\ Control(s, Served(s), toMaster[s], toSlave[s], spc[s], stmt[s], reads[s])
    BY <1>1, Before
  <2>2. Len(toMaster[s]) \in Nat /\ Len(IoScalars) \in Nat
    BY <2>1, MemoryAssumption
  <2>3. Len(toMaster[s]) = 0
    BY <1>1, <2>2 DEF Due
  <2> QED
    BY <1>1, <2>1, <2>3, NoLength DEF Control
<1>4. Stop \in Message /\ Stop.tag = "FTAG"
  BY DatumFacts, Words DEF Stop, Tag, Is
<1>5. /\ toSlave' \in [Slave -> Seq(Message)]
      /\ Len(toSlave'[s]) = 1 /\ toSlave'[s][1] = Stop
      /\ \A t \in Slave \ {s} : toSlave'[t] = toSlave[t]
  BY <1>1, <1>2, <1>4, Replying
<1>6. TypeOK'
  BY <1>2, <1>5 DEF Protocol, TypeOK, slaveVars, serving
<1>7. MasterOK'
  BY <1>1, <1>2 DEF MasterOK, serving
<1>8. SlaveOK(s)'
  <2>1. Served(s)' = Free /\ Complete(Free)
    BY <1>2 DEF Served, Complete, Free, Datum
  <2>2. Len(<<>>) = 0 /\ 1 .. 0 = {} /\ 2 .. 0 = {}
    OBVIOUS
  <2>3. Line(s, Free, <<>>) /\ Answers(<<>>, "sent")
    BY <2>2 DEF Line, Answers
  <2>4. Control(s, Free, <<>>, toSlave'[s], "sent", Empty, 0)
    BY <1>4, <1>5, <2>1 DEF Control
  <2>5. /\ toMaster'[s] = <<>> /\ spc'[s] = "sent" /\ stmt'[s] = Empty /\ reads'[s] = 0
        /\ source' = source
    BY <1>1, <1>2, <1>3 DEF slaveVars, serving
  <2> QED
    BY <2>1, <2>3, <2>4, <2>5 DEF SlaveOK
<1> QED
  BY <1>1, <1>2, <1>5, <1>6, <1>7, <1>8, OneServed DEF serving


(***************************************************************************)
(* The request that the master serves: of the operand the slave is at.     *)
(***************************************************************************)
LEMMA Requested ==
  ASSUME Protocol, mpc = "read"
  PROVE  /\ Operand(source).var = InVars[partSize] /\ stat = ReadTag(Operand(source))
         /\ Readable(Operand(source))
         /\ stmt[source] \in Possible(source)
         /\ reads[source] \in 0 .. Len(stmt[source].operands) - 1
         /\ Len(toMaster[source]) = 1
         /\ Is(toMaster[source][1], stat, "coords",
               Operand(source).var, Operand(source).at)
<1> DEFINE s == source
           a == Served(s)
           q == toMaster[s]
           r == Operand(s)
           k == AskedAt(q)
<1>1. /\ s \in Slave /\ q \in Seq(Message) /\ Len(q) \in Nat
  BY Before DEF Protocol, TypeOK
<1>2. /\ spc[s] = "await" /\ a = Datum(stat, "index", InVars[partSize], partSize)
      /\ Asking(a, q, stmt[s], reads[s]) /\ k = 0
  BY SourceWaits
<1>3. /\ Is(At(a, q, k), ReadTag(r), "index", r.var, Position(InVars, r.var))
      /\ Is(q[k + 1], ReadTag(r), "coords", r.var, r.at)
  BY <1>2 DEF Asking, Operand
<1>4. r.var = InVars[partSize] /\ stat = ReadTag(r)
  BY <1>2, <1>3 DEF At, Is, Datum
<1>5. /\ stmt[s] \in Possible(s) /\ reads[s] \in 0 .. Len(stmt[s].operands) - 1
  BY <1>1, <1>2, Before DEF Control
<1>6. Readable(r)
  BY <1>1, <1>5, OperandRead DEF Operand
<1>7. Len(q) = 1 /\ Is(q[1], stat, "coords", r.var, r.at)
  <2>1. Len(q) - 1 = 0
    BY <1>2 DEF AskedAt
  <2>2. Len(q) = 1
    BY <1>1, <2>1, OneLess
  <2>3. k + 1 = 1
    BY <1>2
  <2> QED
    BY <1>3, <1>4, <2>2, <2>3
<1> QED
  BY <1>4, <1>5, <1>6, <1>7

LEMMA ServeReadStep ==
  ASSUME Protocol, ServeRead
  PROVE  /\ Protocol'
         /\ toMaster'[source] = <<>>
         /\ toSlave'[source][1].x =
              [p \in Operand(source).at |-> mem[Operand(source).var][p]]
<1> DEFINE s == source
           r == Operand(s)
           v == InVars[partSize]
           m == Datum(stat, "value", v, [p \in r.at |-> mem[v][p]])
<1>1. /\ s \in Slave /\ mpc = "read"
      /\ stat \in {"RTAG", "FRTAG"} /\ partSize \in DOMAIN InVars
      /\ section = IF stmt[s].secure THEN Position(IoVars, stmt[s].target.var) ELSE 0
      /\ spc[s] = "await" /\ toSlave[s] = <<>>
      /\ mem \in [Var -> [Place -> Nat]]
  BY SourceWaits DEF Protocol, TypeOK, MasterOK, ServeRead
<1>2. /\ r.var = v /\ stat = ReadTag(r) /\ Readable(r)
      /\ stmt[s] \in Possible(s)
      /\ reads[s] \in 0 .. Len(stmt[s].operands) - 1
      /\ v \notin Scalar
      /\ Len(toMaster[s]) = 1 /\ Is(toMaster[s][1], stat, "coords", v, r.at)
  BY <1>1, Requested DEF Readable
<1>3. /\ mpc' = IF section = 0 THEN "any" ELSE "secure"
      /\ UNCHANGED <<source, stat, partSize, section, taken, killed, mem, slaveVars>>
  BY DEF ServeRead, Back
<1>4. /\ toMaster' \in [Slave -> Seq(Message)] /\ toMaster'[s] = <<>>
      /\ \A t \in Slave \ {s} : toMaster'[t] = toMaster[t]
      /\ coord' = r.at
  <2>1. /\ toMaster[s] # <<>> /\ coord' = Head(toMaster[s]).x
        /\ toMaster' = Drop(toMaster, s)
    BY <1>2 DEF ServeRead, Arrived
  <2>2. /\ toMaster' \in [Slave -> Seq(Message)]
        /\ toMaster'[s] = Tail(toMaster[s])
        /\ \A t \in Slave \ {s} : toMaster'[t] = toMaster[t]
        /\ Head(toMaster[s]) = toMaster[s][1]
    BY <1>1, <2>1, Dropping
  <2>3. Tail(toMaster[s]) = <<>>
    <3>1. toMaster[s] \in Seq(Message)
      BY <1>1, Before
    <3>2. Len(Tail(toMaster[s])) = Len(toMaster[s]) - 1 /\ Tail(toMaster[s]) \in Seq(Message)
      BY <2>1, <3>1, TailFacts
    <3>3. Len(Tail(toMaster[s])) = 0
      BY <1>2, <3>2
    <3> QED
      BY <3>2, <3>3, NoLength
  <2> QED
    BY <1>2, <2>1, <2>2, <2>3 DEF Is
<1>5. toSlave' = Send(toSlave, s, m)
  BY <1>4 DEF ServeRead
<1>6. m \in Message /\ m.tag = stat /\ m.x \in [r.at -> Nat]
  <2>1. v \in Var /\ r.at \in SUBSET Place
    BY <1>1, <1>2 DEF Var, Readable
  <2>2. [p \in r.at |-> mem[v][p]] \in [r.at -> Nat]
    BY <1>1, <2>1
  <2>3. [p \in r.at |-> mem[v][p]] \in Word
    BY <2>1, <2>2, Words
  <2>4. stat \in Tag
    BY <1>1 DEF Tag
  <2> QED
    BY <2>1, <2>2, <2>3, <2>4, DatumFacts DEF Is
<1> HIDE DEF m
<1>7. /\ toSlave' \in [Slave -> Seq(Message)]
      /\ Len(toSlave'[s]) = 1 /\ toSlave'[s][1] = m
      /\ \A t \in Slave \ {s} : toSlave'[t] = toSlave[t]
  BY <1>1, <1>5, <1>6, Replying
<1>8. TypeOK'
  BY <1>2, <1>3, <1>4, <1>7 DEF Protocol, TypeOK, slaveVars, Readable
<1>9. MasterOK'
  BY <1>3 DEF MasterOK
<1>10. Home(stmt[s], Served(s)')
  <2>1. CASE stmt[s].secure
    <3>1. Writable(s, stmt[s].target)
      BY <1>1, <1>2, <2>1, Kinds DEF Look, Put, Increment
    <3>2. /\ Position(IoVars, stmt[s].target.var) \in DOMAIN IoVars
          /\ IoVars[Position(IoVars, stmt[s].target.var)] = stmt[s].target.var
      BY <3>1, PositionFacts, MemoryAssumption DEF Writable
    <3>3. section \in DOMAIN IoVars /\ section # 0 /\ IoVars[section] = stmt[s].target.var
          /\ section = Position(IoVars, stmt[s].target.var)
      BY <1>1, <2>1, <3>2, MemoryAssumption
    <3>4. Served(s)' = Datum("SWTAG", "index", IoVars[section], section)
      BY <1>3, <3>3 DEF Served
    <3> QED
      BY <2>1, <3>3, <3>4 DEF Home, Is, Datum
  <2>2. CASE ~stmt[s].secure
    <3>1. Served(s)' = Free
      BY <1>1, <1>3, <2>2 DEF Served
    <3> QED
      BY <2>2, <3>1 DEF Home, Complete, Free, Datum
  <2> QED
    BY <2>1, <2>2
<1>11. SlaveOK(s)'
  <2> DEFINE b == Served(s)'
             ts == toSlave'[s]
             rd == reads[s]
             st == stmt[s]
  <2>1. Len(<<>>) = 0 /\ 1 .. 0 = {} /\ 2 .. 0 = {}
    OBVIOUS
  <2>2. Line(s, b, <<>>) /\ Answers(<<>>, "await")
    BY <2>1 DEF Line, Answers
  <2>3. Answered(b, <<>>, ts, st, rd)
    BY <1>2, <1>6, <1>7, <1>10 DEF Answered, Operand
  <2>4. Control(s, b, <<>>, ts, "await", st, rd)
    BY <1>2, <2>3 DEF Control
  <2>5. /\ source' = s /\ toMaster'[s] = <<>> /\ spc'[s] = "await"
        /\ stmt'[s] = st /\ reads'[s] = rd
    BY <1>1, <1>3, <1>4 DEF slaveVars
  <2> QED
    BY <2>2, <2>4, <2>5 DEF SlaveOK
<1>12. toSlave'[s][1].x = [p \in r.at |-> mem[r.var][p]]
  BY <1>2, <1>7 DEF m, Datum
<1> QED
  BY <1>1, <1>3, <1>4, <1>7, <1>8, <1>9, <1>11, <1>12, OneServed


-------------------------------------------------------------------------------
(***************************************************************************)
(* The protocol: in every state the channels hold what the two sides are   *)
(* in the middle of, and nothing else.                                     *)
(***************************************************************************)
LEMMA StutterProtocol ==
  ASSUME Protocol, UNCHANGED vars
  PROVE  Protocol'
<1>1. TypeOK'
  BY DEF Protocol, TypeOK, vars, masterVars, slaveVars, serving
<1>2. MasterOK'
  BY DEF Protocol, MasterOK, Item, Target, vars, masterVars, slaveVars, serving
<1>3. ASSUME NEW s \in Slave PROVE SlaveOK(s)'
  BY ServedSame DEF Protocol, SlaveOK, vars, slaveVars
<1> QED
  BY <1>1, <1>2, <1>3 DEF Protocol

LEMMA NextProtocol ==
  ASSUME ReadsSomething, Protocol, [Next]_vars
  PROVE  Protocol'
<1>1. CASE Master
  BY <1>1, ReceiveStep, ServeReadStep, SecureStep, TakeCoordsStep, StoreValueStep,
     TakeScalarStep, DismissStep DEF Master
<1>2. CASE \E s \in Slave : SlaveStep(s)
  BY <1>2, SlavesStep
<1>3. CASE Finished
  BY <1>3, StutterProtocol DEF Finished
<1>4. CASE UNCHANGED vars
  BY <1>4, StutterProtocol
<1> QED
  BY <1>1, <1>2, <1>3, <1>4 DEF Next

(***************************************************************************)
(* What a slave sends for its statement is, at every step, what the master *)
(* goes by when it serves that slave.                                      *)
(***************************************************************************)
THEOREM ProtocolCorrect == ASSUME ReadsSomething PROVE Spec => []Protocol
<1>1. Init => Protocol
  BY InitProtocol
<1>2. Protocol /\ [Next]_vars => Protocol'
  BY NextProtocol
<1> QED
  BY <1>1, <1>2, PTL DEF Spec

(***************************************************************************)
(* The variables keep their types: in particular every value read or       *)
(* stored is a number, and every index is one of the list it is for.       *)
(***************************************************************************)
THEOREM TypeCorrect == ASSUME ReadsSomething PROVE Spec => []TypeOK
<1>1. Protocol => TypeOK
  BY DEF Protocol
<1> QED
  BY <1>1, ProtocolCorrect, PTL

(***************************************************************************)
(* The first message after another one is complete, and the first of an    *)
(* update that was announced, is an index of the list meant.               *)
(***************************************************************************)
LEMMA FirstIsIndex ==
  ASSUME NEW m, NEW n, Begins(m, n) \/ Updates(m, n)
  PROVE  n.what = "index" /\ n.of = Indexed(n.tag, n.x)
<1>1. CASE Begins(m, n)
  BY <1>1 DEF Begins, Index, Is, Indexed
<1>2. CASE Updates(m, n)
  BY <1>2 DEF Updates, Index, Indexed
<1> QED
  BY <1>1, <1>2

(***************************************************************************)
(* The receiver takes every message for what the sender meant: the two     *)
(* sides agree on whether an index, coordinates or a value comes next,     *)
(* with which tag, and of which variable.                                  *)
(***************************************************************************)
LEMMA ProtocolInStep == Protocol => InStep
<1> SUFFICES ASSUME Protocol, NEW s \in Slave, toMaster[s] # <<>>
             PROVE  LET m == Head(toMaster[s])
                    IN  /\ m.what = IF s = source THEN Wanted ELSE "index"
                        /\ s = source /\ Wanted # "index" => m.tag = stat /\ m.of = About
                        /\ m.what = "index" => m.of = Indexed(m.tag, m.x)
  BY DEF InStep
<1> DEFINE m == toMaster[s][1]
<1>1. Head(toMaster[s]) = m /\ toMaster[s] \in Seq(Message) /\ Follows(s, Served(s), m)
  <2>1. toMaster[s] \in Seq(Message) /\ 1 \in 1 .. Len(toMaster[s])
        /\ Head(toMaster[s]) = m
    BY Before, TailFacts
  <2> QED
    BY <2>1, Before DEF Line, At
<1>2. mpc \in {"any", "read", "write", "value", "secure", "result", "done"}
  BY DEF Protocol, TypeOK
<1>3. CASE s # source \/ mpc \in {"any", "done"}
  <2>1. Served(s) = Free
    BY <1>3 DEF Served
  <2>2. Begins(Served(s), m)
    BY <1>1, <2>1 DEF Follows, Updates, Places, Gives, Results, Part, Free, Datum
  <2>3. m.what = "index" /\ m.of = Indexed(m.tag, m.x)
    BY <2>2, FirstIsIndex
  <2>4. s = source => Wanted = "index"
    BY <1>3 DEF Wanted
  <2> QED
    BY <1>1, <2>3, <2>4
<1>4. CASE s = source /\ mpc = "secure"
  <2>1. Served(s) = Datum("SWTAG", "index", IoVars[section], section)
    BY <1>4 DEF Served
  <2>2. Updates(Served(s), m)
    BY <1>1, <2>1 DEF Follows, Begins, Complete, Places, Gives, Results, Part, Datum
  <2>3. m.what = "index" /\ m.of = Indexed(m.tag, m.x)
    BY <2>2, FirstIsIndex
  <2>4. Wanted = "index"
    BY <1>4 DEF Wanted
  <2> QED
    BY <1>1, <2>3, <2>4
<1>5. CASE s = source /\ mpc = "read"
  <2>1. Is(m, stat, "coords", InVars[partSize], Operand(source).at)
    BY <1>5, Requested
  <2> QED
    BY <1>1, <1>5, <2>1 DEF Wanted, About, Is
<1>6. CASE s = source /\ mpc = "write"
  BY <1>1, <1>6, CoordsTaken DEF Wanted, About
<1>7. CASE s = source /\ mpc = "value"
  BY <1>1, <1>7, ValueStored DEF Wanted, About
<1>8. CASE s = source /\ mpc = "result"
  <2>1. Results(Served(s), m) /\ Due /\ stat = "ATAG"
    BY <1>1, <1>8, ScalarTaken DEF Protocol, MasterOK
  <2> QED
    BY <1>1, <1>8, <2>1 DEF Wanted, About, Results
<1> QED
  BY <1>2, <1>3, <1>4, <1>5, <1>6, <1>7, <1>8

(***************************************************************************)
(* Each receive of the master gets the part of the series that it waits    *)
(* for, and about the variable the slave means.                            *)
(***************************************************************************)
THEOREM InStepCorrect == ASSUME ReadsSomething PROVE Spec => []InStep
  BY ProtocolCorrect, ProtocolInStep, PTL


-------------------------------------------------------------------------------
(***************************************************************************)
(* A slave reads its own writes.  What it wrote is in the master's memory  *)
(* or on the way there, and a request is behind what is on the way.        *)
(***************************************************************************)
Pending(q, v) ==
  \E i \in 1 .. Len(q) : q[i].what = "value" /\ q[i].tag \in {"WTAG", "FWTAG"} /\ q[i].of = v

Remembered(s) ==
  \A v \in wrote[s] :
    v \in Owned \ Scalar /\ (mem[v][s] = s \/ Pending(toMaster[s], v))

Told(s) ==
  spc[s] = "await" /\ toSlave[s] # <<>>
    /\ Operand(s).var \in wrote[s] /\ s \in Operand(s).at
  => toSlave[s][1].x[s] = s

OwnWrites == Protocol /\ \A s \in Slave : Remembered(s) /\ Told(s)

LEMMA PendingAppend ==
  ASSUME NEW q \in Seq(Message), NEW r \in Seq(Message), NEW v, Pending(q, v) \/ Pending(r, v)
  PROVE  Pending(q \o r, v)
<1>1. CASE Pending(q, v)
  <2>1. PICK i \in 1 .. Len(q) :
          q[i].what = "value" /\ q[i].tag \in {"WTAG", "FWTAG"} /\ q[i].of = v
    BY <1>1 DEF Pending
  <2>2. i \in 1 .. Len(q \o r) /\ (q \o r)[i] = q[i]
    BY ConcatFacts
  <2> QED
    BY <2>1, <2>2 DEF Pending
<1>2. CASE Pending(r, v)
  <2>1. PICK i \in 1 .. Len(r) :
          r[i].what = "value" /\ r[i].tag \in {"WTAG", "FWTAG"} /\ r[i].of = v
    BY <1>2 DEF Pending
  <2>2. Len(q) + i \in 1 .. Len(q \o r) /\ (q \o r)[Len(q) + i] = r[i]
    BY ConcatFacts
  <2> QED
    BY <2>1, <2>2 DEF Pending
<1> QED
  BY <1>1, <1>2

LEMMA PendingTake ==
  ASSUME NEW q \in Seq(Message), NEW v, Pending(q, v)
  PROVE  \/ Pending(Tail(q), v)
         \/ q[1].what = "value" /\ q[1].tag \in {"WTAG", "FWTAG"} /\ q[1].of = v
<1>1. PICK i \in 1 .. Len(q) :
        q[i].what = "value" /\ q[i].tag \in {"WTAG", "FWTAG"} /\ q[i].of = v
  BY DEF Pending
<1>2. q # <<>>
  <2>1. Len(<<>>) = 0
    OBVIOUS
  <2> QED
    BY <2>1
<1>3. CASE i = 1
  BY <1>1, <1>3
<1>4. CASE i # 1
  <2>1. i - 1 \in 1 .. Len(Tail(q)) /\ Tail(q)[i - 1] = q[i]
    BY <1>2, <1>4, TailFacts
  <2> QED
    BY <1>1, <2>1 DEF Pending
<1> QED
  BY <1>3, <1>4

LEMMA Undisturbed ==
  ASSUME OwnWrites, NEW s \in Slave, wrote'[s] = wrote[s],
         \A v \in wrote[s] : mem'[v][s] = mem[v][s],
         toMaster'[s] = toMaster[s], toSlave'[s] = toSlave[s],
         spc'[s] = spc[s], stmt'[s] = stmt[s], reads'[s] = reads[s]
  PROVE  Remembered(s)' /\ Told(s)'
  BY DEF OwnWrites, Remembered, Told, Operand

LEMMA SlaveKeeps ==
  ASSUME OwnWrites, NEW s \in Slave, Grows(s), mem' = mem, wrote'[s] = wrote[s],
         spc'[s] # "await" \/ toSlave'[s] = <<>>
  PROVE  Remembered(s)' /\ Told(s)'
<1>1. toMaster[s] \in Seq(Message)
  BY Before DEF OwnWrites
<1>2. ASSUME NEW v \in wrote[s], Pending(toMaster[s], v) PROVE Pending(toMaster'[s], v)
  BY <1>1, <1>2, PendingAppend DEF Grows
<1>3. Remembered(s)'
  BY <1>2 DEF OwnWrites, Remembered
<1>4. Told(s)'
  BY DEF Told
<1> QED
  BY <1>3, <1>4

LEMMA WriteKeeps ==
  ASSUME OwnWrites, NEW s \in Slave, Write(s)
  PROVE  Remembered(s)' /\ Told(s)'
<1> DEFINE q == toMaster[s]
           r == stmt[s].target
<1>1. /\ Protocol /\ spc[s] = "reads" /\ spc'[s] = "next" /\ mem' = mem
      /\ q \in Seq(Message)
      /\ Home(stmt[s], End(Served(s), q))
  BY Before DEF OwnWrites, Write, Protocol, TypeOK, masterVars, Control
<1>2. CASE r = Nowhere
  <2>1. toMaster' = toMaster /\ wrote' = wrote
    BY <1>2 DEF Write
  <2> QED
    BY <1>1, <2>1 DEF OwnWrites, Remembered, Told
<1>3. CASE r # Nowhere
  <2> DEFINE ms == Store(r, Result(s))
  <2>1. /\ SendAll(s, ms)
        /\ wrote' = [wrote EXCEPT ![s] = @ \cup ({r.var} \ Updated)]
    BY <1>3 DEF Write
  <2>2. /\ Writable(s, r)
        /\ Result(s) \in [r.at -> Nat]
        /\ r.var \in Owned => Result(s)[s] = s
        /\ stmt[s].secure => r.rows = FALSE
        /\ stmt[s].secure \/ r.var \in Owned
    BY <1>1, <1>3, WhatIsWritten
  <2>3. /\ ms \in Seq(Message)
        /\ Len(ms) = 3
        /\ Is(ms[Len(ms)], WriteTag(r), "value", r.var, Result(s))
    <3> DEFINE b == End(Served(s), q)
               st == stmt[s]
               x == Result(s)
    <3>1. /\ Home(st, b) /\ Writable(s, st.target)
          /\ x \in [st.target.at -> Nat]
          /\ st.target.var \in Owned => x[s] = s
          /\ st.secure => st.target.rows = FALSE
          /\ st.secure \/ st.target.var \in Owned
      BY <1>1, <2>2
    <3> HIDE DEF b, st, x
    <3>2. /\ Store(st.target, x) \in Seq(Message)
          /\ Len(Store(st.target, x)) = 3
          /\ Is(Store(st.target, x)[Len(Store(st.target, x))], WriteTag(st.target), "value",
                st.target.var, x)
      BY <3>1, StoreLine
    <3> QED
      BY <3>2 DEF st, x
  <2> HIDE DEF ms
  <2>4. toMaster'[s] = q \o ms
    BY <1>1, <2>1, <2>3, Sending
  <2>5. Pending(ms, r.var)
    <3>1. Len(ms) \in 1 .. Len(ms) /\ WriteTag(r) \in {"WTAG", "FWTAG"}
      BY <2>3 DEF WriteTag
    <3> QED
      BY <2>3, <3>1 DEF Pending, Is
  <2>6. wrote'[s] = wrote[s] \cup ({r.var} \ Updated)
    BY <1>1, <2>1 DEF Protocol, TypeOK
  <2>7. ASSUME NEW v \in wrote'[s]
        PROVE  v \in Owned \ Scalar /\ (mem[v][s] = s \/ Pending(toMaster'[s], v))
    <3>1. CASE v \in wrote[s]
      BY <1>1, <2>3, <2>4, <3>1, PendingAppend DEF OwnWrites, Remembered
    <3>2. CASE v = r.var /\ v \notin Updated
      <4>1. v \in Var
        BY <2>2, <3>2 DEF Writable, Var
      <4> QED
        BY <1>1, <2>2, <2>3, <2>4, <2>5, <3>2, <4>1, PendingAppend DEF Writable, Owned
    <3> QED
      BY <2>6, <3>1, <3>2
  <2> QED
    BY <1>1, <2>7 DEF Remembered, Told
<1> QED
  BY <1>2, <1>3

LEMMA SlavesKeep ==
  ASSUME OwnWrites, NEW s \in Slave, SlaveStep(s), NEW t \in Slave
  PROVE  Remembered(t)' /\ Told(t)'
<1>1. Protocol /\ mem' = mem
  BY DEF OwnWrites, SlaveStep, Start, Tally, Ask, Got, Write, Answer, Leave, masterVars
<1>2. CASE t # s
  <2>1. /\ wrote'[t] = wrote[t] /\ toMaster'[t] = toMaster[t] /\ toSlave'[t] = toSlave[t]
        /\ spc'[t] = spc[t] /\ stmt'[t] = stmt[t] /\ reads'[t] = reads[t]
    <3>1. CASE Tally(s)
      BY <3>1, TallyLeaves
    <3>2. CASE Start(s) \/ Ask(s) \/ Got(s)
      BY <1>1, <1>2, <3>2 DEF Start, Ask, Got, SendAll, Drop, Protocol, TypeOK
    <3>3. CASE Write(s) \/ Answer(s) \/ Leave(s)
      BY <1>1, <1>2, <3>3 DEF Write, Answer, Leave, SendAll, Drop, Protocol, TypeOK
    <3> QED
      BY <3>1, <3>2, <3>3 DEF SlaveStep
  <2> QED
    BY <1>1, <2>1, Undisturbed
<1>3. CASE t = s
  <2>1. CASE Start(s) \/ Answer(s)
    <3>1. Grows(s)
      BY <1>1, <2>1, StartStep, AnswerStep
    <3>2. wrote' = wrote /\ spc'[s] # "await"
      BY <1>1, <2>1 DEF Start, Answer, Protocol, TypeOK
    <3> QED
      BY <1>1, <1>3, <3>1, <3>2, SlaveKeeps
  <2>2. CASE Ask(s)
    <3>1. Grows(s)
      BY <1>1, <2>2, AskStep
    <3>2. wrote' = wrote /\ toSlave'[s] = <<>>
      BY <1>1, <2>2, Before DEF Ask, Control
    <3> QED
      BY <1>1, <1>3, <3>1, <3>2, SlaveKeeps
  <2>3. CASE Got(s) \/ Leave(s)
    <3>1. Grows(s) /\ wrote' = wrote /\ spc'[s] # "await"
      BY <1>1, <2>3 DEF Got, Leave, Grows, Protocol, TypeOK
    <3> QED
      BY <1>1, <1>3, <3>1, SlaveKeeps
  <2>4. CASE Tally(s)
    <3>1. Grows(s) /\ wrote' = wrote /\ spc'[s] # "await"
      BY <2>4, TallyLeaves DEF Grows
    <3> QED
      BY <1>1, <1>3, <3>1, SlaveKeeps
  <2> QED
    BY <1>3, <2>1, <2>2, <2>3, <2>4, WriteKeeps DEF SlaveStep
<1> QED
  BY <1>2, <1>3


(***************************************************************************)
(* The master takes a message of s that is no value of an array.           *)
(***************************************************************************)
LEMMA TakeKeeps ==
  ASSUME OwnWrites, NEW s \in Slave, toMaster[s] # <<>>, toMaster' = Drop(toMaster, s),
         UNCHANGED <<toSlave, slaveVars>>,
         \/ toMaster[s][1].what # "value"
         \/ toMaster[s][1].tag \notin {"WTAG", "FWTAG"},
         \A v \in Owned \ Scalar : mem'[v] = mem[v],
         NEW t \in Slave
  PROVE  Remembered(t)' /\ Told(t)'
<1>1. /\ Protocol /\ wrote' = wrote /\ spc' = spc /\ stmt' = stmt /\ reads' = reads
      /\ toSlave' = toSlave /\ toMaster[s] \in Seq(Message)
  BY Before DEF OwnWrites, slaveVars
<1>2. /\ toMaster'[s] = Tail(toMaster[s])
      /\ t # s => toMaster'[t] = toMaster[t]
  BY <1>1, Dropping
<1>3. Remembered(t) /\ Told(t)
  BY DEF OwnWrites
<1>4. ASSUME NEW v \in wrote[t] PROVE mem'[v][t] = t \/ Pending(toMaster'[t], v)
  <2>1. v \in Owned \ Scalar /\ (mem[v][t] = t \/ Pending(toMaster[t], v))
    BY <1>3 DEF Remembered
  <2>2. Pending(toMaster[t], v) => Pending(toMaster'[t], v)
    BY <1>1, <1>2, PendingTake
  <2> QED
    BY <2>1, <2>2
<1>5. Remembered(t)'
  BY <1>1, <1>3, <1>4 DEF Remembered
<1>6. Told(t)'
  BY <1>1, <1>3 DEF Told, Operand
<1> QED
  BY <1>5, <1>6

LEMMA ReceiveKeeps ==
  ASSUME OwnWrites, Receive, NEW t \in Slave
  PROVE  Remembered(t)' /\ Told(t)'
<1>1. PICK s \in Slave : toMaster[s] # <<>> /\ toMaster' = Drop(toMaster, s)
  BY DEF Receive
<1>2. mpc = "any" /\ mem' = mem /\ UNCHANGED <<toSlave, slaveVars>> /\ Protocol
  BY DEF Receive, OwnWrites
<1>3. Head(toMaster[s]).what = "index"
  BY <1>1, <1>2, ProtocolInStep DEF InStep, Wanted
<1>4. toMaster[s][1].what # "value"
  BY <1>1, <1>2, <1>3, Dropping
<1> QED
  BY <1>1, <1>2, <1>4, TakeKeeps

LEMMA SecureKeeps ==
  ASSUME OwnWrites, Secure, NEW t \in Slave
  PROVE  Remembered(t)' /\ Told(t)'
<1>1. source \in Slave /\ toMaster[source] # <<>> /\ toMaster' = Drop(toMaster, source)
  BY DEF Secure, OwnWrites, Protocol, TypeOK
<1>2. mpc = "secure" /\ mem' = mem /\ UNCHANGED <<toSlave, slaveVars>> /\ Protocol
  BY DEF Secure, OwnWrites
<1>3. Head(toMaster[source]).what = "index"
  BY <1>1, <1>2, ProtocolInStep DEF InStep, Wanted
<1>4. toMaster[source][1].what # "value"
  BY <1>1, <1>2, <1>3, Dropping
<1> QED
  BY <1>1, <1>2, <1>4, TakeKeeps

LEMMA TakeCoordsKeeps ==
  ASSUME OwnWrites, TakeCoords, NEW t \in Slave
  PROVE  Remembered(t)' /\ Told(t)'
<1>1. source \in Slave /\ toMaster[source] # <<>> /\ toMaster' = Drop(toMaster, source)
  BY DEF TakeCoords, Arrived, OwnWrites, Protocol, TypeOK
<1>2. mpc = "write" /\ mem' = mem /\ UNCHANGED <<toSlave, slaveVars>> /\ Protocol
  BY DEF TakeCoords, OwnWrites
<1>3. toMaster[source][1].what # "value"
  BY <1>1, <1>2, CoordsTaken
<1> QED
  BY <1>1, <1>2, <1>3, TakeKeeps

LEMMA TakeScalarKeeps ==
  ASSUME OwnWrites, TakeScalar, NEW t \in Slave
  PROVE  Remembered(t)' /\ Told(t)'
<1>1. source \in Slave /\ toMaster[source] # <<>> /\ toMaster' = Drop(toMaster, source)
  BY DEF TakeScalar, Arrived, OwnWrites, Protocol, TypeOK
<1>2. mpc = "result" /\ UNCHANGED <<toSlave, slaveVars>> /\ Protocol
  BY DEF TakeScalar, OwnWrites
<1>3. toMaster[source][1].tag \notin {"WTAG", "FWTAG"}
  BY <1>1, <1>2, ScalarTaken DEF Results
<1>4. \A v \in Owned \ Scalar : mem'[v] = mem[v]
  BY <1>2, ArraysLeft DEF Owned
<1> QED
  BY <1>1, <1>2, <1>3, <1>4, TakeKeeps

LEMMA DismissKeeps ==
  ASSUME OwnWrites, Dismiss, NEW t \in Slave
  PROVE  Remembered(t)' /\ Told(t)'
<1>1. /\ mpc = "result" /\ mem' = mem /\ toMaster' = toMaster /\ Protocol
      /\ wrote' = wrote /\ spc' = spc /\ stmt' = stmt /\ reads' = reads
      /\ toSlave' = Send(toSlave, source, Stop)
  BY DEF Dismiss, OwnWrites, slaveVars
<1>2. spc[source] = "sent"
  BY <1>1 DEF Protocol, MasterOK
<1>3. t # source => toSlave'[t] = toSlave[t]
  BY <1>1 DEF Send, Protocol, TypeOK
<1>4. Remembered(t)'
  BY <1>1 DEF OwnWrites, Remembered
<1>5. Told(t)'
  BY <1>1, <1>2, <1>3 DEF OwnWrites, Told, Operand
<1> QED
  BY <1>4, <1>5

(***************************************************************************)
(* The answer to a read is what the slave wrote: when the master serves    *)
(* the request nothing is behind it, so the write was stored.              *)
(***************************************************************************)
LEMMA ServeReadKeeps ==
  ASSUME OwnWrites, ServeRead, NEW t \in Slave
  PROVE  Remembered(t)' /\ Told(t)'
<1> DEFINE s == source
           r == Operand(s)
           v == InVars[partSize]
<1>1. /\ Protocol /\ mpc = "read" /\ s \in Slave /\ mem' = mem
      /\ mem \in [Var -> [Place -> Nat]]
      /\ wrote' = wrote /\ spc' = spc /\ stmt' = stmt /\ reads' = reads
      /\ toSlave[s] = <<>> /\ spc[s] = "await"
  BY SourceWaits DEF OwnWrites, ServeRead, slaveVars, Protocol, TypeOK
<1>2. /\ r.var = v /\ Readable(r)
      /\ Len(toMaster[s]) = 1 /\ Is(toMaster[s][1], stat, "coords", v, r.at)
  BY <1>1, Requested
<1>3. CASE t # s
  <2>1. toMaster'[t] = toMaster[t] /\ toSlave'[t] = toSlave[t]
    BY <1>1, <1>3 DEF ServeRead, Drop, Send, Protocol, TypeOK
  <2> QED
    BY <1>1, <1>3, <2>1, Undisturbed
<1>4. CASE t = s
  <2>1. \A u : ~Pending(toMaster[s], u)
    BY <1>2 DEF Pending, Is
  <2>2. \A u \in wrote[s] : u \in Owned \ Scalar /\ mem[u][s] = s
    BY <1>1, <2>1 DEF OwnWrites, Remembered
  <2>3. Remembered(s)'
    <3>1. source' = source
      BY DEF ServeRead
    <3> QED
      BY <1>1, <2>2, <3>1 DEF Remembered
  <2>4. toSlave'[s][1].x = [p \in r.at |-> mem[v][p]]
    BY <1>1, <1>2, ServeReadStep
  <2>5. Told(s)'
    <3>1. Operand(s)' = r /\ source' = s
      BY <1>1 DEF Operand, ServeRead
    <3>2. v \in wrote[s] /\ s \in r.at => [p \in r.at |-> mem[v][p]][s] = s
      BY <2>2
    <3> QED
      BY <1>1, <1>2, <2>4, <3>1, <3>2 DEF Told
  <2>6. source' = s
    BY DEF ServeRead
  <2> QED
    BY <1>4, <2>3, <2>5, <2>6
<1> QED
  BY <1>3, <1>4

(***************************************************************************)
(* A store changes what another slave owns never, and what its own slave   *)
(* owns to its value.                                                      *)
(***************************************************************************)
LEMMA StoreValueKeeps ==
  ASSUME OwnWrites, StoreValue, NEW t \in Slave
  PROVE  Remembered(t)' /\ Told(t)'
<1> DEFINE s == source
           m == toMaster[s][1]
<1>1. /\ Protocol /\ mpc = "value" /\ s \in Slave /\ toMaster[s] # <<>>
      /\ toMaster' = Drop(toMaster, s)
      /\ wrote' = wrote /\ spc' = spc /\ stmt' = stmt /\ reads' = reads
      /\ toSlave' = toSlave
      /\ mem \in [Var -> [Place -> Nat]] /\ toMaster[s] \in Seq(Message)
  BY Before DEF OwnWrites, StoreValue, Arrived, slaveVars, Protocol, TypeOK
<1>2. /\ toMaster'[s] = Tail(toMaster[s])
      /\ t # s => toMaster'[t] = toMaster[t]
      /\ Head(toMaster[s]) = m
  BY <1>1, Dropping
<1>3. /\ Target \in Var /\ m.of = Target
      /\ Target \in Owned => m.x[s] = s
  BY <1>1, ValueStored
<1>4. Target \in Owned => coord = {s}
  BY <1>1 DEF Protocol, MasterOK
<1>5. Remembered(t) /\ Told(t)
  BY DEF OwnWrites
<1>6. Overwrite(Target, coord, m.x)
  BY <1>1, <1>2, ValueStored DEF StoreValue
<1> HIDE DEF m
<1>7. ASSUME NEW v \in wrote[t] PROVE mem'[v][t] = t \/ Pending(toMaster'[t], v)
  <2>1. v \in Owned \ Scalar /\ (mem[v][t] = t \/ Pending(toMaster[t], v)) /\ v \in Var
    BY <1>5 DEF Remembered, Owned
  <2>2. CASE v = Target
    <3>1. mem'[v] = [p \in Place |-> IF p \in {s} THEN m.x[p] ELSE mem[v][p]]
      BY <1>1, <1>4, <1>6, <2>1, <2>2 DEF Overwrite
    <3>2. t \in Place
      BY DEF Place
    <3>3. CASE t = s
      BY <1>3, <2>1, <2>2, <3>1, <3>2, <3>3
    <3>4. CASE t # s
      BY <1>2, <2>1, <3>1, <3>2, <3>4
    <3> QED
      BY <3>3, <3>4
  <2>3. CASE v # Target
    <3>1. mem'[v] = mem[v]
      BY <1>1, <1>6, <2>1, <2>3 DEF Overwrite
    <3>2. Pending(toMaster[t], v) => Pending(toMaster'[t], v)
      BY <1>1, <1>2, <1>3, <2>3, PendingTake DEF m
    <3> QED
      BY <2>1, <3>1, <3>2
  <2> QED
    BY <2>2, <2>3
<1>8. Remembered(t)'
  BY <1>1, <1>5, <1>7 DEF Remembered
<1>9. Told(t)'
  BY <1>1, <1>5 DEF Told, Operand
<1> QED
  BY <1>8, <1>9

LEMMA OwnWritesInvariant ==
  ASSUME ReadsSomething
  PROVE  Spec => []OwnWrites
<1>1. Init => OwnWrites
  <2>1. Init => \A s \in Slave : Remembered(s) /\ Told(s)
    BY DEF Init, Remembered, Told
  <2> QED
    BY <2>1, InitProtocol DEF OwnWrites
<1>2. ASSUME OwnWrites, [Next]_vars PROVE OwnWrites'
  <2>1. Protocol'
    BY <1>2, NextProtocol DEF OwnWrites
  <2>2. ASSUME NEW t \in Slave PROVE Remembered(t)' /\ Told(t)'
    <3>1. CASE Master
      BY <1>2, <3>1, ReceiveKeeps, ServeReadKeeps, SecureKeeps, TakeCoordsKeeps,
         StoreValueKeeps, TakeScalarKeeps, DismissKeeps DEF Master
    <3>2. CASE \E s \in Slave : SlaveStep(s)
      BY <1>2, <3>2, SlavesKeep
    <3>3. CASE UNCHANGED vars
      BY <1>2, <3>3, Undisturbed DEF vars, masterVars, slaveVars
    <3> QED
      BY <1>2, <3>1, <3>2, <3>3 DEF Next, Finished
  <2> QED
    BY <2>1, <2>2 DEF OwnWrites
<1>3. OwnWrites /\ [Next]_vars => OwnWrites'
  BY <1>2
<1> QED
  BY <1>1, <1>3, PTL DEF Spec

(***************************************************************************)
(* A slave that reads back its own element after writing it gets what it   *)
(* wrote, although no write is acknowledged.                               *)
(***************************************************************************)
THEOREM ReadsOwnWritesCorrect == ASSUME ReadsSomething PROVE Spec => []ReadsOwnWrites
<1>1. OwnWrites => ReadsOwnWrites
  <2> SUFFICES ASSUME OwnWrites, NEW s \in Slave,
                      spc[s] = "await", toSlave[s] # <<>>,
                      Operand(s).var \in wrote[s], s \in Operand(s).at
               PROVE  Head(toSlave[s]).x[s] = s
    BY DEF ReadsOwnWrites
  <2>1. toSlave[s] \in Seq(Message)
    BY Before DEF OwnWrites
  <2>2. Head(toSlave[s]) = toSlave[s][1]
    BY <2>1, TailFacts
  <2> QED
    BY <2>2 DEF OwnWrites, Told
<1> QED
  BY <1>1, OwnWritesInvariant, PTL


-------------------------------------------------------------------------------
(***************************************************************************)
(* Every slave that was told to stop is through, and the master goes on    *)
(* when it has told all of them.                                           *)
(***************************************************************************)
Dismissed(s) == spc[s] = "done" \/ (spc[s] = "sent" /\ toSlave[s] # <<>>)

DismissedAre ==
  /\ killed = Cardinality({s \in Slave : Dismissed(s)})
  /\ mpc = "done" <=> killed = W

LEMMA SlaveFinite == IsFiniteSet(Slave) /\ Cardinality(Slave) = W
  BY MemoryAssumption, FS_Interval DEF Slave

LEMMA InitDismissed == Init => DismissedAre
<1> SUFFICES ASSUME Init PROVE DismissedAre
  OBVIOUS
<1>1. {s \in Slave : Dismissed(s)} = {}
  BY DEF Init, Dismissed
<1>2. Cardinality({}) = 0 /\ 0 # W
  BY FS_EmptySet, MemoryAssumption
<1> QED
  BY <1>1, <1>2 DEF Init, DismissedAre

LEMMA SameDismissed ==
  ASSUME DismissedAre, killed' = killed, mpc' = "done" <=> mpc = "done",
         \A s \in Slave : Dismissed(s)' <=> Dismissed(s)
  PROVE  DismissedAre'
<1>1. {s \in Slave : Dismissed(s)}' = {s \in Slave : Dismissed(s)}
  OBVIOUS
<1> QED
  BY <1>1 DEF DismissedAre

LEMMA SlavesDismissed ==
  ASSUME Protocol, DismissedAre, NEW s \in Slave, SlaveStep(s)
  PROVE  DismissedAre'
<1>1. killed' = killed /\ mpc' = mpc
  BY DEF SlaveStep, Start, Tally, Ask, Got, Write, Answer, Leave, masterVars
<1>2. ASSUME NEW t \in Slave PROVE Dismissed(t)' <=> Dismissed(t)
  <2>1. CASE t # s
    <3>1. spc'[t] = spc[t] /\ toSlave'[t] = toSlave[t]
      BY <2>1 DEF SlaveStep, Start, Tally, Ask, Got, Write, Answer, Leave, Drop, Protocol, TypeOK
    <3> QED
      BY <3>1 DEF Dismissed
  <2>2. CASE t = s /\ (Start(s) \/ Tally(s) \/ Ask(s) \/ Got(s) \/ Write(s))
    BY <2>2 DEF Dismissed, Start, Tally, Ask, Got, Write, Protocol, TypeOK
  <2>3. CASE t = s /\ Answer(s)
    <3>1. toSlave'[s] = <<>>
      BY <2>3, Before DEF Answer, Control
    <3> QED
      BY <2>3, <3>1 DEF Dismissed, Answer, Protocol, TypeOK
  <2>4. CASE t = s /\ Leave(s)
    BY <2>4 DEF Dismissed, Leave, Arrived, Protocol, TypeOK
  <2> QED
    BY <2>1, <2>2, <2>3, <2>4 DEF SlaveStep
<1> QED
  BY <1>1, <1>2, SameDismissed

LEMMA MasterDismissed ==
  ASSUME ReadsSomething, Protocol, DismissedAre, Master
  PROVE  DismissedAre'
<1>1. CASE Receive \/ Secure \/ TakeCoords \/ StoreValue \/ TakeScalar
  <2>1. killed' = killed /\ spc' = spc /\ toSlave' = toSlave
    BY <1>1 DEF Receive, Secure, TakeCoords, StoreValue, TakeScalar, slaveVars
  <2>2. mpc # "done" /\ mpc' # "done"
    <3>1. CASE Receive
      BY <3>1, ReceiveStep DEF Receive
    <3>2. CASE Secure \/ TakeCoords \/ StoreValue \/ TakeScalar
      BY <3>2 DEF Secure, TakeCoords, StoreValue, TakeScalar
    <3> QED
      BY <1>1, <3>1, <3>2
  <2> QED
    BY <2>1, <2>2, SameDismissed DEF Dismissed
<1>2. CASE ServeRead
  <2>1. killed' = killed /\ spc' = spc /\ spc[source] = "await"
    BY <1>2, SourceWaits DEF ServeRead, slaveVars
  <2>2. mpc # "done" /\ mpc' # "done"
    BY <1>2 DEF ServeRead, Back
  <2>3. \A t \in Slave \ {source} : toSlave'[t] = toSlave[t]
    BY <1>2 DEF ServeRead, Send, Protocol, TypeOK
  <2> QED
    BY <2>1, <2>2, <2>3, SameDismissed DEF Dismissed
<1>3. CASE Dismiss
  <2> DEFINE S == {s \in Slave : Dismissed(s)}
  <2>1. /\ source \in Slave /\ spc[source] = "sent" /\ toSlave[source] = <<>> /\ spc' = spc
        /\ toSlave' = Send(toSlave, source, Stop)
        /\ toSlave \in [Slave -> Seq(Message)]
        /\ killed' = killed + 1 /\ mpc' = IF killed' = W THEN "done" ELSE "any"
    BY <1>3 DEF Dismiss, Protocol, TypeOK, MasterOK, slaveVars
  <2>2. Append(<<>>, Stop) # <<>>
    OBVIOUS
  <2>3. toSlave'[source] # <<>> /\ \A t \in Slave \ {source} : toSlave'[t] = toSlave[t]
    BY <2>1, <2>2 DEF Send
  <2>4. Dismissed(source)' = TRUE /\ ~Dismissed(source)
    <3>1. source' = source
      BY <1>3 DEF Dismiss, serving
    <3> QED
      BY <2>1, <2>3, <3>1 DEF Dismissed
  <2>5. \A t \in Slave \ {source} : Dismissed(t)' <=> Dismissed(t)
    BY <2>1, <2>3 DEF Dismissed
  <2>6. \A t \in Slave : t = source => Dismissed(t)'
    BY <2>1, <2>3 DEF Dismissed
  <2>7. S' = S \cup {source}
    BY <2>1, <2>5, <2>6
  <2>8. IsFiniteSet(S) /\ source \notin S
    BY <2>4, SlaveFinite, FS_Subset
  <2>9. Cardinality(S') = Cardinality(S) + 1
    BY <2>7, <2>8, FS_AddElement
  <2> QED
    BY <2>1, <2>9 DEF DismissedAre
<1> QED
  BY <1>1, <1>2, <1>3 DEF Master

LEMMA AllDismissed ==
  ASSUME DismissedAre, mpc = "done"
  PROVE  \A s \in Slave : Dismissed(s)
<1> DEFINE S == {s \in Slave : Dismissed(s)}
<1>1. S \subseteq Slave /\ Cardinality(S) = W
  BY DEF DismissedAre
<1> HIDE DEF S
<1>2. S = Slave
  BY <1>1, SlaveFinite, FS_Subset
<1> QED
  BY <1>2 DEF S


-------------------------------------------------------------------------------
(***************************************************************************)
(* Updates.  From the first read of the target until its write a slave has *)
(* the master for itself, and what it has read is the value still.         *)
(***************************************************************************)
Known(s) ==
  stmt[s].secure /\ stmt[s].target.var \in Updated \ Scalar =>
    /\ reads[s] > 0 =>
         \A p \in stmt[s].target.at : reg[s] = mem[stmt[s].target.var][p]
    /\ spc[s] = "await" /\ toSlave[s] # <<>> /\ Operand(s) = stmt[s].target =>
         \A p \in stmt[s].target.at : toSlave[s][1].x[p] = mem[stmt[s].target.var][p]

LEMMA HomeLocks ==
  ASSUME Protocol, NEW s \in Slave, stmt[s].secure, Home(stmt[s], Served(s))
  PROVE  /\ s = source /\ mpc = "secure"
         /\ section = Position(IoVars, stmt[s].target.var)
<1>1. /\ mpc \in {"any", "read", "write", "value", "secure", "result", "done"}
      /\ mpc = "read" => stat # "SWTAG"
      /\ mpc \in {"write", "value"} => stat # "SWTAG"
  BY DEF Protocol, TypeOK, MasterOK
<1>2. /\ Served(s).tag = "SWTAG"
      /\ Served(s).x = Position(IoVars, stmt[s].target.var)
  BY DEF Home, Is
<1>3. s = source /\ mpc \notin {"any", "done"}
  BY <1>2 DEF Served, Free, Datum
<1>4. CASE mpc = "secure"
  BY <1>2, <1>3, <1>4 DEF Served, Datum
<1>5. CASE mpc # "secure"
  BY <1>1, <1>2, <1>3, <1>5 DEF Served, Datum
<1> QED
  BY <1>3, <1>4, <1>5

LEMMA Locked ==
  ASSUME Protocol, NEW s \in Slave, stmt[s].secure,
         reads[s] > 0 \/ (spc[s] = "await" /\ toSlave[s] # <<>>)
  PROVE  /\ s = source /\ mpc \in {"secure", "read"}
         /\ section = Position(IoVars, stmt[s].target.var)
<1> DEFINE a == Served(s)
           q == toMaster[s]
           st == stmt[s]
           rd == reads[s]
<1>1. /\ q \in Seq(Message)
      /\ Control(s, a, q, toSlave[s], spc[s], st, rd)
      /\ spc[s] \in {"next", "reads", "await", "sent", "done"}
      /\ rd \in Nat /\ Empty.secure = FALSE
  BY Before DEF Empty, Statement
<1>2. Home(st, a) => /\ s = source /\ mpc = "secure"
                     /\ section = Position(IoVars, st.target.var)
  BY HomeLocks
<1>3. CASE spc[s] = "reads"
  <2>1. rd > 0 /\ q = <<>> /\ Home(st, End(a, q))
    BY <1>1, <1>3 DEF Control
  <2>2. End(a, q) = a
    <3>1. Len(<<>>) = 0
      OBVIOUS
    <3> QED
      BY <2>1, <3>1 DEF End, At
  <2> QED
    BY <1>2, <2>1, <2>2
<1>4. CASE spc[s] = "await"
  <2>1. CASE Answered(a, q, toSlave[s], st, rd)
    BY <1>2, <2>1 DEF Answered
  <2>2. CASE toSlave[s] = <<>> /\ Asking(a, q, st, rd)
    <3> DEFINE r == st.operands[rd + 1]
               k == AskedAt(q)
    <3>1. /\ k \in Int /\ k >= 0 /\ k <= 1
          /\ Is(At(a, q, k), ReadTag(r), "index", r.var, Position(InVars, r.var))
          /\ k > 0 => Home(st, At(a, q, k - 1))
      BY <1>4, <2>2 DEF Asking, AskedAt
    <3>2. CASE k = 1
      <4>1. Home(st, a)
        BY <3>1, <3>2 DEF At
      <4> QED
        BY <1>2, <4>1
    <3>3. CASE k = 0
      <4>1. a.tag \in {"RTAG", "FRTAG"}
        BY <3>1, <3>3 DEF At, Is, ReadTag
      <4>2. s = source /\ mpc = "read"
        BY <4>1 DEF Served, Free, Datum, Protocol, MasterOK, TypeOK
      <4> QED
        BY <4>2 DEF Protocol, MasterOK
    <3> QED
      BY <3>1, <3>2, <3>3
  <2> QED
    BY <1>1, <1>4, <2>1, <2>2 DEF Control
<1> QED
  BY <1>1, <1>3, <1>4 DEF Control

LEMMA UpdateKind ==
  ASSUME NEW s \in Slave, NEW st \in Possible(s), st.secure, st.target.var \in Updated
  PROVE  Increment(s, st)
  BY Kinds DEF Look, Put, Owned

LEMMA SlavesKnow ==
  ASSUME Protocol, NEW s \in Slave, SlaveStep(s), NEW t \in Slave, Known(t)
  PROVE  Known(t)'
<1>1. mem' = mem
  BY DEF SlaveStep, Start, Tally, Ask, Got, Write, Answer, Leave, masterVars
<1>2. CASE t # s
  <2>1. /\ spc'[t] = spc[t] /\ toSlave'[t] = toSlave[t] /\ stmt'[t] = stmt[t]
        /\ reads'[t] = reads[t] /\ reg'[t] = reg[t]
    BY <1>2 DEF SlaveStep, Start, Tally, Ask, Got, Write, Answer, Leave, Drop, Protocol, TypeOK
  <2> QED
    BY <1>1, <2>1 DEF Known, Operand
<1>3. CASE t = s /\ Start(s)
  <2>1. reads'[s] = 0 /\ spc'[s] = "reads"
    BY <1>3, Before DEF Start, Control, Protocol, TypeOK
  <2> QED
    BY <1>3, <2>1 DEF Known
<1>4. CASE t = s /\ Ask(s)
  <2>1. /\ toSlave'[s] = <<>> /\ stmt' = stmt /\ reads' = reads /\ reg' = reg
    BY <1>4, Before DEF Ask, Control
  <2> QED
    BY <1>1, <1>4, <2>1 DEF Known
<1>5. CASE t = s /\ Got(s)
  <2>1. /\ spc[s] = "await" /\ spc'[s] = "reads" /\ stmt' = stmt /\ toSlave[s] # <<>>
        /\ reads'[s] = reads[s] + 1
        /\ reg' = IF Operand(s) = stmt[s].target
                  THEN [reg EXCEPT ![s] = Head(toSlave[s]).x[CHOOSE p \in Operand(s).at : TRUE]]
                  ELSE reg
        /\ reg \in [Slave -> Nat]
    BY <1>5 DEF Got, Arrived, Protocol, TypeOK
  <2> SUFFICES ASSUME stmt[s].secure, stmt[s].target.var \in Updated \ Scalar,
                      NEW p \in stmt[s].target.at
               PROVE  reg'[s] = mem[stmt[s].target.var][p]
    BY <1>1, <1>5, <2>1 DEF Known
  <2>2. /\ stmt[s] \in Possible(s) /\ reads[s] \in Nat
        /\ toSlave[s] \in Seq(Message)
    BY <2>1, Before DEF Control
  <2>3. Increment(s, stmt[s])
    BY <2>2, UpdateKind
  <2>4. CASE Operand(s) = stmt[s].target
    <3>1. Head(toSlave[s]) = toSlave[s][1]
      BY <2>1, <2>2, TailFacts
    <3>2. toSlave[s][1].x[p] = mem[stmt[s].target.var][p]
      BY <1>5, <2>1, <2>4 DEF Known
    <3>3. (CHOOSE u \in Operand(s).at : TRUE) = p
      <4>1. PICK u \in Place : stmt[s].target = Ref(stmt[s].target.var, {u})
        BY <2>3 DEF Increment
      <4>2. Operand(s).at = {u}
        BY <2>4, <4>1 DEF Ref
      <4> QED
        BY <2>4, <4>2
    <3> QED
      BY <2>1, <2>4, <3>1, <3>2, <3>3
  <2>5. CASE Operand(s) # stmt[s].target
    <3>1. reads[s] > 0
      BY <2>2, <2>3, <2>5 DEF Increment, Operand
    <3> QED
      BY <1>5, <2>1, <2>5, <3>1 DEF Known
  <2> QED
    BY <2>4, <2>5
<1>6. CASE t = s /\ (Write(s) \/ Answer(s) \/ Leave(s))
  <2>1. stmt'[s] = Empty
    BY <1>6, Before DEF Write, Answer, Leave, Control, Protocol, TypeOK
  <2> QED
    BY <1>6, <2>1 DEF Known, Empty, Statement
<1>7. CASE t = s /\ Tally(s)
  <2>1. /\ spc' = spc /\ toSlave' = toSlave /\ stmt' = stmt /\ reads' = reads /\ reg' = reg
    BY <1>7, TallyLeaves
  <2> QED
    BY <1>1, <2>1 DEF Known, Operand
<1> QED
  BY <1>2, <1>3, <1>4, <1>5, <1>6, <1>7 DEF SlaveStep

LEMMA MasterKnows ==
  ASSUME Protocol, Master, NEW t \in Slave, Known(t)
  PROVE  Known(t)'
<1>1. /\ stmt' = stmt /\ spc' = spc /\ reads' = reads /\ reg' = reg
  BY DEF Master, Receive, ServeRead, Secure, TakeCoords, StoreValue, TakeScalar, Dismiss,
         slaveVars
<1>2. CASE Receive \/ Secure \/ TakeCoords
  <2>1. mem' = mem /\ toSlave' = toSlave
    BY <1>2 DEF Receive, Secure, TakeCoords
  <2> QED
    BY <1>1, <2>1 DEF Known, Operand
<1>3. CASE ServeRead
  <2>1. mem' = mem /\ mpc = "read" /\ source' = source
    BY <1>3 DEF ServeRead
  <2>2. CASE t = source
    <3>1. /\ Operand(t)' = Operand(t)
          /\ toSlave'[t][1].x = [p \in Operand(t).at |-> mem[Operand(t).var][p]]
      BY <1>1, <1>3, <2>2, ServeReadStep DEF Operand
    <3> QED
      BY <1>1, <2>1, <3>1 DEF Known
  <2>3. CASE t # source
    <3>1. toSlave'[t] = toSlave[t]
      BY <1>3, <2>3 DEF ServeRead, Send, Protocol, TypeOK
    <3> QED
      BY <1>1, <2>1, <3>1 DEF Known, Operand
  <2> QED
    BY <2>2, <2>3
<1>4. CASE StoreValue
  <2>1. mpc = "value" /\ toSlave' = toSlave
    BY <1>4 DEF StoreValue
  <2>2. stmt[t].secure => ~(reads[t] > 0) /\ ~(spc[t] = "await" /\ toSlave[t] # <<>>)
    BY <2>1, Locked
  <2> QED
    BY <1>1, <2>1, <2>2 DEF Known
<1>5. CASE TakeScalar
  <2>1. toSlave' = toSlave
    BY <1>5 DEF TakeScalar
  <2>2. \A v \in Updated \ Scalar : mem'[v] = mem[v]
    BY <1>5, MemoryAssumption, ArraysLeft DEF Var
  <2> QED
    BY <1>1, <2>1, <2>2 DEF Known, Operand
<1>6. CASE Dismiss
  <2>1. /\ mem' = mem /\ toSlave' = Send(toSlave, source, Stop) /\ spc[source] = "sent"
    BY <1>6 DEF Dismiss, Protocol, MasterOK
  <2>2. t # source => toSlave'[t] = toSlave[t]
    BY <2>1 DEF Send, Protocol, TypeOK
  <2> QED
    BY <1>1, <2>1, <2>2 DEF Known, Operand
<1> QED
  BY <1>2, <1>3, <1>4, <1>5, <1>6 DEF Master

-------------------------------------------------------------------------------
(***************************************************************************)
(* An update that the master has begun to take, or takes next: what is     *)
(* left of it are the coordinates meant and the value, and the value is    *)
(* one more than that of the element.                                      *)
(***************************************************************************)
Sent ==
  /\ section # 0
  /\ \/ mpc \in {"write", "value"}
     \/ mpc = "secure" /\ toMaster[source] # <<>> /\ toMaster[source][1].tag = "WTAG"

Offset == IF mpc = "value" THEN 1 ELSE IF mpc = "write" THEN 2 ELSE 3
Meant == IF mpc = "value" THEN coord ELSE toMaster[source][Offset - 1].x
Value == toMaster[source][Offset].x

Storing(v, p) ==
  Sent /\ IoVars[section] = v /\ Len(toMaster[source]) >= Offset /\ Meant = {p}

UpdateSent ==
  Sent /\ IoVars[section] \in Updated \ Scalar =>
    \E p \in Place :
      /\ Storing(IoVars[section], p)
      /\ Value[p] = mem[IoVars[section]][p] + 1

LEMMA SentGrows ==
  ASSUME UNCHANGED masterVars, toMaster[source] \in Seq(Message), Grows(source), Sent
  PROVE  /\ Sent'
         /\ Len(toMaster[source]) >= Offset =>
              /\ Len(toMaster'[source]) >= Offset'
              /\ Meant' = Meant /\ Value' = Value
<1> DEFINE q == toMaster[source]
<1>1. /\ mpc' = mpc /\ source' = source /\ section' = section /\ coord' = coord
  BY DEF masterVars, serving
<1>2. CASE toMaster'[source] = toMaster[source]
  BY <1>1, <1>2 DEF Sent, Offset, Meant, Value
<1>3. CASE \E r \in Seq(Message) : toMaster'[source] = toMaster[source] \o r
  <2>1. PICK r \in Seq(Message) : toMaster'[source] = toMaster[source] \o r
    BY <1>3
  <2>2. /\ Len(q) \in Nat /\ Len(toMaster'[source]) \in Nat
        /\ Len(toMaster'[source]) >= Len(q)
        /\ \A i \in 1 .. Len(q) : toMaster'[source][i] = q[i]
        /\ q # <<>> => toMaster'[source] # <<>> /\ 1 \in 1 .. Len(q)
    <3>1. /\ Len(q) \in Nat /\ Len(r) \in Nat
          /\ Len(q \o r) = Len(q) + Len(r)
          /\ \A i \in 1 .. Len(q) : (q \o r)[i] = q[i]
      BY <2>1, ConcatFacts
    <3>2. q # <<>> => Len(q) >= 1
      BY TailFacts
    <3>3. Len(<<>>) = 0
      OBVIOUS
    <3> HIDE DEF q
    <3> QED
      BY <2>1, <3>1, <3>2, <3>3 DEF q
  <2>3. Sent'
    BY <1>1, <2>2 DEF Sent
  <2>4. Offset' = Offset /\ Offset \in 1 .. 3
    BY <1>1 DEF Offset
  <2>5. ASSUME Len(q) >= Offset
        PROVE  /\ Len(toMaster'[source]) >= Offset'
               /\ Meant' = Meant /\ Value' = Value
    <3>1. Offset \in 1 .. Len(q)
      BY <2>2, <2>4, <2>5
    <3>2. mpc # "value" => Offset - 1 \in 1 .. Len(q)
      BY <2>2, <2>5 DEF Offset
    <3>3. Len(toMaster'[source]) >= Offset'
      BY <2>2, <2>4, <2>5
    <3>4. Value' = Value
      BY <1>1, <2>2, <2>4, <3>1 DEF Value
    <3>5. Meant' = Meant
      BY <1>1, <2>2, <2>4, <3>2 DEF Meant
    <3> QED
      BY <3>3, <3>4, <3>5
  <2> QED
    BY <2>3, <2>5
<1> QED
  BY <1>2, <1>3 DEF Grows

(***************************************************************************)
(* Only the write of the slave the master listens to brings an update.     *)
(***************************************************************************)
LEMMA SecureSource ==
  ASSUME Protocol, mpc = "secure"
  PROVE  /\ source \in Slave /\ section \in DOMAIN IoVars
         /\ IoVars[section] \in Var
         /\ Served(source) = Datum("SWTAG", "index", IoVars[section], section)
         /\ ~Complete(Served(source))
<1>1. source \in Slave /\ section \in {0} \cup DOMAIN IoVars /\ section # 0
  BY DEF Protocol, TypeOK, MasterOK
<1>2. Served(source) = Datum("SWTAG", "index", IoVars[section], section)
  BY DEF Served
<1> QED
  BY <1>1, <1>2 DEF Complete, Datum, Var

LEMMA NothingSent ==
  ASSUME Protocol, NEW s \in Slave, SlaveStep(s), ~Write(s), ~Sent
  PROVE  ~Sent'
<1>1. UNCHANGED masterVars
  BY DEF SlaveStep, Start, Tally, Ask, Got, Write, Answer, Leave
<1>2. mpc' = mpc /\ source' = source /\ section' = section
  BY <1>1 DEF masterVars, serving
<1>3. CASE section = 0 \/ mpc # "secure"
  BY <1>2, <1>3 DEF Sent
<1>4. CASE toMaster'[source] = toMaster[source]
  BY <1>2, <1>4 DEF Sent
<1>5. CASE section # 0 /\ mpc = "secure" /\ toMaster'[source] # toMaster[source]
  <2>1. s = source
    <3>1. source \in Slave
      BY DEF Protocol, TypeOK
    <3> QED
      BY <1>5, <3>1 DEF SlaveStep, Start, Tally, Ask, Got, Write, Answer, Leave, SendAll,
        Protocol, TypeOK
  <2>2. Start(s) \/ Ask(s) \/ Answer(s)
    BY <1>5 DEF SlaveStep, Tally, Got, Leave
  <2>3. Grows(s)
    BY <2>2, StartStep, AskStep, AnswerStep
  <2>4. PICK r \in Seq(Message) : toMaster'[s] = toMaster[s] \o r
    BY <1>5, <2>1, <2>3 DEF Grows
  <2>5. toMaster[s] \in Seq(Message)
    BY Before
  <2>6. CASE toMaster[s] # <<>>
    <3>1. toMaster'[s][1] = toMaster[s][1]
      BY <2>4, <2>5, <2>6, ConcatFacts, TailFacts
    <3> QED
      BY <1>2, <1>5, <2>1, <2>6, <3>1 DEF Sent
  <2>7. CASE toMaster[s] = <<>>
    <3>1. End(Served(s), toMaster[s]) = Served(s)
      <4>1. Len(<<>>) = 0
        OBVIOUS
      <4> QED
        BY <2>7, <4>1 DEF End, At
    <3>2. ~Complete(Served(s))
      BY <1>5, <2>1, SecureSource
    <3>3. Ask(s)
      BY <2>2, <3>1, <3>2, Before DEF Start, Answer, Control
    <3>4. toMaster'[s][1].tag # "WTAG"
      <4> DEFINE t == Operand(s)
      <4>1. /\ spc[s] = "reads" /\ reads[s] # Len(stmt[s].operands) /\ SendAll(s, AskFor(t))
        BY <3>3 DEF Ask, AllRead
      <4>2. /\ stmt[s] \in Possible(s) /\ reads[s] \in 0 .. Len(stmt[s].operands)
            /\ Home(stmt[s], Served(s))
        BY <3>1, <4>1, Before DEF Control
      <4>3. reads[s] \in 0 .. Len(stmt[s].operands) - 1
        BY <4>1, <4>2
      <4>4. Readable(t) /\ (stmt[s].secure => t.rows = FALSE)
        BY <4>2, <4>3, OperandRead DEF Operand
      <4>5. /\ AskFor(t) \in Seq(Message) /\ Len(AskFor(t)) \in {1, 2}
            /\ Is(AskFor(t)[1], ReadTag(t), "index", t.var, Position(InVars, t.var))
        BY <4>2, <4>4, AskLine
      <4>6. toMaster'[s] = toMaster[s] \o AskFor(t)
        BY <4>1, <4>5, Sending
      <4> HIDE DEF t
      <4>7. 1 \in 1 .. Len(AskFor(t)) /\ Len(toMaster[s]) + 1 = 1
        <5>1. Len(<<>>) = 0
          OBVIOUS
        <5> QED
          BY <2>7, <4>5, <5>1
      <4>8. toMaster'[s][1] = AskFor(t)[1]
        BY <2>5, <4>5, <4>6, <4>7, ConcatFacts
      <4> QED
        BY <4>5, <4>8 DEF Is, ReadTag
    <3> QED
      BY <1>2, <2>1, <3>4 DEF Sent
  <2> QED
    BY <2>6, <2>7
<1> QED
  BY <1>3, <1>4, <1>5

(***************************************************************************)
(* The write of an update: the slave has the master for itself, nothing is *)
(* on the way to it, and the value is computed from the one it still has.  *)
(***************************************************************************)
LEMMA UpdateWritten ==
  ASSUME Protocol, NEW s \in Slave, Write(s),
         stmt[s].target.var \in Updated, stmt[s].target # Nowhere
  PROVE  /\ s = source /\ mpc = "secure" /\ toMaster[s] = <<>> /\ ~Sent
         /\ IoVars[section] = stmt[s].target.var /\ Increment(s, stmt[s])
         /\ reads[s] > 0
<1>1. /\ spc[s] = "reads" /\ reads[s] = Len(stmt[s].operands)
  BY DEF Write, AllRead
<1>2. /\ stmt[s] \in Possible(s) /\ (reads[s] > 0 => toMaster[s] = <<>>)
  BY <1>1, Before DEF Control
<1>3. Increment(s, stmt[s])
  BY <1>2, Kinds DEF Look, Put, Owned
<1>4. stmt[s].secure /\ reads[s] > 0
  BY <1>1, <1>3 DEF Increment
<1>5. s = source /\ mpc \in {"secure", "read"} /\ section = Position(IoVars, stmt[s].target.var)
  BY <1>4, Locked
<1>6. mpc = "secure"
  BY <1>1, <1>5, SourceWaits
<1>7. IoVars[section] = stmt[s].target.var
  BY <1>3, <1>5, PositionFacts, MemoryAssumption DEF Increment, Writable
<1> QED
  BY <1>2, <1>3, <1>4, <1>5, <1>6, <1>7 DEF Sent

LEMMA WriteInSection ==
  ASSUME Protocol, NEW s \in Slave, Write(s), s = source, mpc = "secure", toMaster[s] = <<>>
  PROVE  /\ IoVars[section] = stmt[s].target.var /\ stmt[s].target # Nowhere
<1>1. Home(stmt[s], Served(s)) /\ stmt[s] \in Possible(s)
  <2>1. Len(<<>>) = 0
    OBVIOUS
  <2> QED
    BY <2>1, Before DEF Write, Control, End, At
<1>2. ~Complete(Served(s)) /\ Served(s).of = IoVars[section]
  BY SecureSource DEF Datum
<1>3. stmt[s].secure
  BY <1>1, <1>2 DEF Home
<1> QED
  BY <1>1, <1>2, <1>3, NoTarget DEF Home, Is

LEMMA WriteElsewhere ==
  ASSUME Protocol, NEW s \in Slave, Write(s),
         ~(s = source /\ mpc = "secure" /\ toMaster[s] = <<>>)
  PROVE  Grows(s) /\ (~Sent => ~Sent')
<1>1. UNCHANGED masterVars /\ spc[s] = "reads"
  BY DEF Write
<1>2. Grows(s) /\ \A t \in Slave \ {s} : toMaster'[t] = toMaster[t]
  <2>1. CASE stmt[s].target = Nowhere
    BY <2>1 DEF Write, Grows
  <2>2. CASE stmt[s].target # Nowhere
    <3> DEFINE ms == Store(stmt[s].target, Result(s))
    <3>1. SendAll(s, ms)
      BY <2>2 DEF Write
    <3>2. ms \in Seq(Message)
      <4>1. stmt[s] \in Possible(s) /\ Home(stmt[s], End(Served(s), toMaster[s]))
        BY <1>1, Before DEF Control
      <4> QED
        BY <1>1, <2>2, <4>1, WhatIsWritten, StoreLine
    <3> HIDE DEF ms
    <3> QED
      BY <3>1, <3>2, Sending DEF Grows
  <2> QED
    BY <2>1, <2>2
<1>3. ASSUME ~Sent, Sent' PROVE FALSE
  <2>1. mpc = "secure" /\ section # 0 /\ mpc' = mpc /\ source' = source /\ section' = section
    BY <1>1, <1>3 DEF Sent, masterVars, serving
  <2>2. source = s
    <3>1. source \in Slave
      BY DEF Protocol, TypeOK
    <3>2. CASE source # s
      BY <1>2, <1>3, <2>1, <3>1, <3>2 DEF Sent
    <3> QED
      BY <3>2
  <2>3. toMaster[s] # <<>> /\ toMaster[s] \in Seq(Message)
    BY <2>1, <2>2, Before
  <2>4. toMaster'[s][1] = toMaster[s][1]
    BY <1>2, <2>3, ConcatFacts, TailFacts DEF Grows
  <2> QED
    BY <1>3, <2>1, <2>2, <2>3, <2>4 DEF Sent
<1> QED
  BY <1>2, <1>3

LEMMA UpdateSentNow ==
  ASSUME Protocol, NEW s \in Slave, Known(s), Write(s),
         NEW v \in Updated \ Scalar, NEW p \in Place, stmt[s].target = Ref(v, {p})
  PROVE  Storing(v, p)' /\ Value'[p] = mem[v][p] + 1
<1> DEFINE x == Result(s)
           ms == Store(stmt[s].target, x)
<1>0. /\ stmt[s].target.var = v /\ stmt[s].target.at = {p} /\ stmt[s].target.rows = FALSE
      /\ stmt[s].target # Nowhere
  BY DEF Ref, Nowhere
<1>1. /\ s = source /\ mpc = "secure" /\ toMaster[s] = <<>> /\ IoVars[section] = v
      /\ Increment(s, stmt[s]) /\ reads[s] > 0
  BY <1>0, UpdateWritten
<1>2. /\ UNCHANGED masterVars /\ spc[s] = "reads" /\ SendAll(s, ms)
  BY <1>0 DEF Write
<1>3. stmt[s].secure
  BY <1>1 DEF Increment
<1>4. /\ ms \in Seq(Message) /\ Len(ms) = 3
      /\ ms[1].tag = "WTAG" /\ ms[2].x = {p} /\ ms[3].x = x
  <2>1. stmt[s] \in Possible(s) /\ Home(stmt[s], End(Served(s), toMaster[s]))
    BY <1>2, Before DEF Control
  <2>2. /\ Writable(s, stmt[s].target)
        /\ x \in [stmt[s].target.at -> Nat]
        /\ stmt[s].target.var \in Owned => x[s] = s
        /\ stmt[s].secure => stmt[s].target.rows = FALSE
        /\ stmt[s].secure \/ stmt[s].target.var \in Owned
    BY <1>0, <1>2, WhatIsWritten
  <2> HIDE DEF x
  <2>3. /\ ms \in Seq(Message)
        /\ Len(ms) = 3
        /\ Is(ms[1], WriteTag(stmt[s].target), "index",
              stmt[s].target.var, Position(IoVars, stmt[s].target.var))
        /\ Is(ms[2], WriteTag(stmt[s].target), "coords",
              stmt[s].target.var, stmt[s].target.at)
        /\ Is(ms[Len(ms)], WriteTag(stmt[s].target), "value", stmt[s].target.var, x)
    BY <2>1, <2>2, StoreLine
  <2> HIDE DEF ms
  <2> QED
    BY <1>0, <2>3 DEF Is, WriteTag
<1>5. x[p] = mem[v][p] + 1
  <2>1. reg[s] = mem[v][p]
    BY <1>0, <1>1, <1>3 DEF Known
  <2> QED
    BY <1>0, <2>1 DEF Result
<1> HIDE DEF ms, x
<1>6. /\ toMaster'[s] # <<>> /\ Len(toMaster'[s]) = 3
      /\ toMaster'[s][1].tag = "WTAG" /\ toMaster'[s][2].x = {p} /\ toMaster'[s][3].x = x
  <2> DEFINE q == toMaster[s]
  <2>1. toMaster'[s] = q \o ms
    BY <1>2, <1>4, Sending
  <2>2. q \in Seq(Message) /\ Len(q) = 0 /\ Len(<<>>) = 0
    <3>1. Len(<<>>) = 0
      OBVIOUS
    <3> QED
      BY <1>1, <3>1, Before
  <2> HIDE DEF q
  <2>3. /\ Len(q \o ms) = Len(q) + Len(ms)
        /\ \A i \in 1 .. Len(ms) : (q \o ms)[Len(q) + i] = ms[i]
    BY <1>4, <2>2, ConcatFacts
  <2>4. 1 \in 1 .. 3 /\ 2 \in 1 .. 3 /\ 3 \in 1 .. 3 /\ 0 + 1 = 1 /\ 0 + 2 = 2 /\ 0 + 3 = 3
    OBVIOUS
  <2>5. Len(q \o ms) = 3 /\ (q \o ms)[1] = ms[1] /\ (q \o ms)[2] = ms[2] /\ (q \o ms)[3] = ms[3]
    <3>1. \A i \in 1 .. 3 : (q \o ms)[0 + i] = ms[i]
      BY <1>4, <2>2, <2>3
    <3> QED
      BY <1>4, <2>2, <2>3, <2>4, <3>1
  <2> QED
    BY <1>4, <2>1, <2>2, <2>5
<1>7. mpc' = "secure" /\ source' = s /\ section' = section /\ section # 0
  BY <1>1, <1>2, SecureSource DEF masterVars, serving, Protocol, MasterOK
<1>8. Sent' /\ Offset' = 3
  BY <1>6, <1>7 DEF Sent, Offset
<1>9. Meant' = {p} /\ Value' = x
  BY <1>6, <1>7, <1>8 DEF Meant, Value
<1>10. Storing(v, p)'
  BY <1>1, <1>6, <1>7, <1>8, <1>9 DEF Storing
<1> QED
  BY <1>5, <1>9, <1>10

(***************************************************************************)
(* A step leaves an update that was sent as it is, or there is none.       *)
(***************************************************************************)
Passes ==
  /\ Sent /\ Sent' /\ section' = section /\ mem' = mem
  /\ Len(toMaster[source]) >= Offset =>
       /\ Len(toMaster[source])' >= Offset'
       /\ Meant' = Meant /\ Value' = Value

Idle == ~(Sent /\ IoVars[section] \in Updated \ Scalar)

LEMMA PassedOn ==
  ASSUME UpdateSent, Passes
  PROVE  /\ UpdateSent'
         /\ \A v \in Updated \ Scalar, p \in Place : Storing(v, p)' <=> Storing(v, p)
<1>1. CASE IoVars[section] \notin Updated \ Scalar
  BY <1>1 DEF UpdateSent, Passes, Storing
<1>2. CASE IoVars[section] \in Updated \ Scalar
  <2>1. /\ Len(toMaster[source]) >= Offset /\ Len(toMaster[source])' >= Offset'
        /\ Meant' = Meant /\ Value' = Value
    BY <1>2 DEF UpdateSent, Passes, Storing
  <2>2. \A v \in Updated \ Scalar, p \in Place : Storing(v, p)' <=> Storing(v, p)
    BY <2>1 DEF Storing, Passes
  <2>3. PICK p \in Place : /\ Storing(IoVars[section], p)
                           /\ Value[p] = mem[IoVars[section]][p] + 1
    BY <1>2 DEF UpdateSent, Passes
  <2>4. Storing(IoVars[section], p)'
    BY <2>1, <2>3 DEF Storing, Passes
  <2>5. Value'[p] = mem'[IoVars[section']][p] + 1
    BY <2>1, <2>3 DEF Passes
  <2> QED
    BY <2>2, <2>4, <2>5 DEF UpdateSent
<1> QED
  BY <1>1, <1>2

LEMMA NoneSent ==
  ASSUME Idle, Idle'
  PROVE  /\ UpdateSent'
         /\ \A v \in Updated \ Scalar, p \in Place : Storing(v, p)' <=> Storing(v, p)
  BY DEF Idle, UpdateSent, Storing

LEMMA SlavePasses ==
  ASSUME Protocol, NEW s \in Slave, SlaveStep(s), Sent
  PROVE  Passes
<1>1. UNCHANGED masterVars
  BY DEF SlaveStep, Start, Tally, Ask, Got, Write, Answer, Leave
<1>2. source \in Slave /\ toMaster[source] \in Seq(Message)
  BY DEF Protocol, TypeOK
<1>3. Grows(source)
  <2>1. CASE s # source
    BY <1>2, <2>1 DEF Grows, SlaveStep, Start, Tally, Ask, Got, Write, Answer, Leave, SendAll,
      Protocol, TypeOK
  <2>2. CASE s = source
    <3>1. CASE Start(s) \/ Ask(s) \/ Answer(s)
      BY <2>2, <3>1, StartStep, AskStep, AnswerStep
    <3>2. CASE Tally(s) \/ Got(s) \/ Leave(s)
      BY <3>2 DEF Tally, Got, Leave, Grows
    <3>3. CASE Write(s)
      BY <2>2, <3>3, WriteElsewhere DEF Sent
    <3> QED
      BY <3>1, <3>2, <3>3 DEF SlaveStep
  <2> QED
    BY <2>1, <2>2
<1> QED
  BY <1>1, <1>2, <1>3, SentGrows DEF Passes, masterVars, serving

LEMMA SentAnew ==
  ASSUME Protocol, NEW s \in Slave, SlaveStep(s), ~Sent, Sent'
  PROVE  /\ Write(s) /\ section' = section
         /\ IoVars[section] = stmt[s].target.var /\ stmt[s].target # Nowhere
<1>1. Write(s)
  BY NothingSent
<1>2. s = source /\ mpc = "secure" /\ toMaster[s] = <<>>
  BY <1>1, WriteElsewhere
<1> QED
  BY <1>1, <1>2, WriteInSection DEF Write, masterVars, serving

(***************************************************************************)
(* A slave's step sends an update where it writes one, and leaves what was *)
(* sent alone otherwise.                                                   *)
(***************************************************************************)
LEMMA SlavesSend ==
  ASSUME Protocol, UpdateSent, NEW s \in Slave, Known(s), SlaveStep(s)
  PROVE  /\ UpdateSent'
         /\ \A v \in Updated \ Scalar, p \in Place :
              IF Write(s) /\ stmt[s].target = Ref(v, {p})
              THEN ~Storing(v, p) /\ Storing(v, p)'
              ELSE Storing(v, p)' <=> Storing(v, p)
<1>1. ASSUME NEW v \in Updated \ Scalar, NEW p \in Place,
             Write(s), stmt[s].target = Ref(v, {p})
      PROVE  ~Sent /\ Storing(v, p)' /\ Value'[p] = mem[v][p] + 1
  <2>1. stmt[s].target.var = v /\ stmt[s].target # Nowhere
    BY <1>1 DEF Ref, Nowhere
  <2> QED
    BY <1>1, <2>1, UpdateWritten, UpdateSentNow
<1>2. CASE Sent
  <2>1. Passes
    BY <1>2, SlavePasses
  <2> QED
    BY <1>1, <1>2, <2>1, PassedOn
<1>3. CASE ~Sent /\ ~Sent'
  BY <1>1, <1>3 DEF UpdateSent, Storing
<1>4. CASE ~Sent /\ Sent'
  <2>1. /\ Write(s) /\ section' = section
        /\ IoVars[section] = stmt[s].target.var /\ stmt[s].target # Nowhere
    BY <1>4, SentAnew
  <2>2. mem' = mem
    BY <2>1 DEF Write, masterVars
  <2>3. CASE stmt[s].target.var \notin Updated \ Scalar
    <3>1. \A v \in Updated \ Scalar, p \in Place :
            ~Storing(v, p) /\ ~Storing(v, p)' /\ stmt[s].target # Ref(v, {p})
      BY <1>4, <2>1, <2>3 DEF Storing, Ref
    <3> QED
      BY <1>4, <2>1, <2>3, <3>1 DEF UpdateSent
  <2>4. CASE stmt[s].target.var \in Updated \ Scalar
    <3>1. PICK u \in Place : stmt[s].target = Ref(stmt[s].target.var, {u})
      BY <2>1, <2>4, UpdateWritten DEF Increment
    <3>2. PICK w \in Updated \ Scalar : w = IoVars[section] /\ stmt[s].target = Ref(w, {u})
      BY <2>1, <2>4, <3>1
    <3>3. Storing(w, u)' /\ Value'[u] = mem[w][u] + 1
      BY <1>1, <2>1, <3>2
    <3>4. IoVars[section'] = w
      BY <2>1, <3>2
    <3>5. UpdateSent'
      <4>1. Storing(IoVars[section], u)'
        BY <3>3, <3>4 DEF Storing
      <4> QED
        BY <2>2, <3>3, <3>4, <4>1 DEF UpdateSent
    <3>6. ASSUME NEW v \in Updated \ Scalar, NEW p \in Place, stmt[s].target # Ref(v, {p})
          PROVE  ~Storing(v, p)'
      <4>1. v # w \/ p # u
        BY <3>2, <3>6
      <4> QED
        BY <3>3, <3>4, <4>1 DEF Storing
    <3> QED
      BY <1>1, <1>4, <2>1, <3>5, <3>6 DEF Storing
  <2> QED
    BY <2>3, <2>4
<1> QED
  BY <1>2, <1>3, <1>4

(***************************************************************************)
(* The master takes the messages of an update one by one.  When it begins  *)
(* to listen to a slave only, no update of it is on the way yet.           *)
(***************************************************************************)
LEMMA ReceiveIdle ==
  ASSUME Protocol, Receive
  PROVE  Idle /\ Idle'
<1>1. Idle
  BY DEF Receive, Idle, Sent
<1>2. PICK s \in Slave :
        /\ toMaster[s] # <<>>
        /\ source' = s
        /\ mpc' = AfterIndex(Head(toMaster[s]).tag, Head(toMaster[s]).x)
        /\ section' = IF mpc' = "secure" THEN Head(toMaster[s]).x ELSE 0
        /\ toMaster' = Drop(toMaster, s)
  BY DEF Receive
<1> DEFINE q == toMaster[s]
           m == q[1]
           n == q[2]
<1>3. /\ q \in Seq(Message) /\ toMaster'[s] = Tail(q) /\ Head(q) = m
      /\ Line(s, Served(s), q) /\ Follows(s, Served(s), m)
  BY <1>2, Before, Dropping
<1> SUFFICES ASSUME Sent' PROVE IoVars[section'] \in Owned
  BY <1>1 DEF Idle, Owned
<1>4. mpc' = "secure" /\ section' = m.x /\ Tail(q) # <<>> /\ Tail(q)[1].tag = "WTAG"
  BY <1>2, <1>3 DEF Sent
<1>5. Len(q) >= 2 /\ Tail(q)[1] = n
  <2>1. Len(q) # 1
    <3>1. Len(Tail(q)) = Len(q) - 1 /\ Tail(q) \in Seq(Message)
      BY <1>2, <1>3, TailFacts
    <3>2. Len(q) = 1 => Len(Tail(q)) = 0
      BY <3>1
    <3> QED
      BY <1>4, <3>1, <3>2, NoLength
  <2>2. Len(q) >= 2
    BY <1>2, <1>3, <2>1, TailFacts
  <2>3. 1 \in 1 .. Len(q) - 1 /\ 1 + 1 = 2
    BY <1>3, <2>2
  <2> QED
    BY <1>2, <1>3, <2>2, <2>3, TailFacts
<1>6. Follows(s, m, n) /\ (n.what = "index" /\ n.tag = "WTAG" => n.of \in Owned)
  <2>1. 2 \in 1 .. Len(q) /\ 2 \in 2 .. Len(q) /\ 2 - 1 = 1
    BY <1>3, <1>5
  <2>2. Follows(s, At(Served(s), q, 2 - 1), q[2])
    BY <1>3, <2>1 DEF Line
  <2>3. n.what = "index" /\ n.tag = "WTAG" => n.of \in Owned
    BY <1>3, <2>1 DEF Line
  <2>4. At(Served(s), q, 2 - 1) = m
    BY <2>1 DEF At
  <2> QED
    BY <2>2, <2>3, <2>4
<1>7. Index(m, {"SWTAG"}, IoVars)
  <2>1. Served(s) = Free
    BY DEF Served, Receive
  <2>2. Begins(Free, m)
    BY <1>3, <2>1 DEF Follows, Updates, Places, Gives, Results, Part, Free, Datum
  <2>3. mpc' = AfterIndex(m.tag, m.x)
    BY <1>2, <1>3
  <2> HIDE DEF m
  <2> QED
    BY <1>4, <2>2, <2>3 DEF Begins, Index, Is, AfterIndex
<1>8. n.tag = "WTAG"
  BY <1>4, <1>5
<1> HIDE DEF m, n
<1>9. Index(n, {"WTAG"}, IoVars) /\ n.x = m.x
  BY <1>6, <1>7, <1>8 DEF Follows, Begins, Updates, Places, Gives, Results, Complete, Part,
    Index, Is
<1> QED
  BY <1>4, <1>6, <1>8, <1>9 DEF Index

LEMMA SecurePasses ==
  ASSUME Protocol, Secure
  PROVE  Passes \/ (Idle /\ Idle')
<1> DEFINE s == source
           q == toMaster[s]
<1>1. /\ s \in Slave /\ mpc = "secure" /\ q # <<>> /\ q \in Seq(Message)
      /\ section \in DOMAIN IoVars /\ section # 0
  BY SecureSource, Before DEF Secure, Protocol, MasterOK
<1>2. /\ toMaster' = Drop(toMaster, s) /\ source' = s /\ section' = section /\ mem' = mem
  BY DEF Secure
<1>3. toMaster'[s] = Tail(q) /\ Head(q) = q[1] /\ Follows(s, Served(s), q[1])
  BY <1>1, <1>2, Dropping
<1>4. mpc' = CASE q[1].tag = "RTAG" -> "read"
               [] q[1].tag = "WTAG" -> IF IoVars[section] \in Scalar THEN "value" ELSE "write"
               [] OTHER -> "secure"
  BY <1>3 DEF Secure
<1>5. q[1].tag \in {"RTAG", "WTAG"}
  <2>1. Served(s) = Datum("SWTAG", "index", IoVars[section], section)
    BY <1>1, SecureSource
  <2>2. Updates(Served(s), q[1])
    BY <1>3, <2>1 DEF Follows, Begins, Complete, Places, Gives, Results, Part, Datum
  <2> QED
    BY <2>2 DEF Updates, Index
<1>6. CASE q[1].tag = "RTAG"
  BY <1>1, <1>4, <1>6 DEF Idle, Sent
<1>7. CASE q[1].tag = "WTAG" /\ IoVars[section] \in Scalar
  BY <1>2, <1>7 DEF Idle
<1>8. CASE q[1].tag = "WTAG" /\ IoVars[section] \notin Scalar
  <2>1. mpc' = "write" /\ Sent /\ Sent' /\ Offset = 3 /\ Offset' = 2
    BY <1>1, <1>2, <1>4, <1>8 DEF Sent, Offset
  <2>2. ASSUME Len(q) >= 3
        PROVE  Len(toMaster'[s]) >= 2 /\ toMaster'[s][1] = q[2] /\ toMaster'[s][2] = q[3]
    <3>1. 1 \in 1 .. Len(q) - 1 /\ 2 \in 1 .. Len(q) - 1 /\ 1 + 1 = 2 /\ 2 + 1 = 3
      BY <1>1, <2>2
    <3>2. Len(Tail(q)) = Len(q) - 1 /\ Len(q) \in Nat
      BY <1>1, TailFacts
    <3>3. Len(Tail(q)) >= 2
      BY <2>2, <3>2
    <3> QED
      BY <1>1, <1>3, <3>1, <3>3, TailFacts
  <2>3. 3 - 1 = 2 /\ 2 - 1 = 1
    OBVIOUS
  <2>4. Meant = q[2].x /\ Meant' = toMaster'[s][1].x
    BY <1>1, <1>2, <2>1, <2>3 DEF Meant
  <2>5. Value = q[3].x /\ Value' = toMaster'[s][2].x
    BY <1>2, <2>1 DEF Value
  <2> QED
    BY <1>2, <2>1, <2>2, <2>4, <2>5 DEF Passes
<1> QED
  BY <1>5, <1>6, <1>7, <1>8

LEMMA TakeCoordsPasses ==
  ASSUME Protocol, TakeCoords
  PROVE  Passes \/ (Idle /\ Idle')
<1> DEFINE s == source
           q == toMaster[s]
<1>1. s \in Slave /\ mpc = "write" /\ q # <<>> /\ q \in Seq(Message)
  BY Before DEF TakeCoords, Arrived, Protocol, TypeOK
<1>2. /\ toMaster' = Drop(toMaster, s) /\ source' = s /\ section' = section /\ mem' = mem
      /\ mpc' = "value"
  BY DEF TakeCoords
<1>3. toMaster'[s] = Tail(q) /\ Head(q) = q[1]
  BY <1>1, <1>2, Dropping
<1>4. coord' = q[1].x
  BY <1>3 DEF TakeCoords
<1>5. CASE section = 0
  BY <1>2, <1>5 DEF Idle, Sent
<1>6. CASE section # 0
  <2>1. Sent /\ Sent' /\ Offset = 2 /\ Offset' = 1
    BY <1>1, <1>2, <1>6 DEF Sent, Offset
  <2>2. ASSUME Len(q) >= 2
        PROVE  Len(toMaster'[s]) >= 1 /\ toMaster'[s][1] = q[2]
    <3>1. 1 \in 1 .. Len(q) - 1 /\ 1 + 1 = 2
      BY <1>1, <2>2
    <3>2. Len(Tail(q)) = Len(q) - 1 /\ Len(q) \in Nat
      BY <1>1, TailFacts
    <3>3. Len(Tail(q)) >= 1
      BY <2>2, <3>2
    <3> QED
      BY <1>1, <1>3, <3>1, <3>3, TailFacts
  <2>3. 2 - 1 = 1
    OBVIOUS
  <2>4. Meant = q[1].x /\ Meant' = coord'
    BY <1>1, <1>2, <2>1, <2>3 DEF Meant
  <2>5. Value = q[2].x /\ Value' = toMaster'[s][1].x
    BY <1>2, <2>1 DEF Value
  <2> QED
    BY <1>2, <1>4, <2>1, <2>2, <2>4, <2>5 DEF Passes
<1> QED
  BY <1>5, <1>6

LEMMA OthersIdle ==
  ASSUME Protocol, ServeRead \/ TakeScalar \/ Dismiss
  PROVE  Idle /\ Idle'
<1>1. CASE ServeRead
  <2>1. mpc' \in {"any", "secure"} /\ source' = source /\ toMaster'[source] = <<>>
    BY <1>1, ServeReadStep DEF ServeRead, Back
  <2> QED
    BY <1>1, <2>1 DEF ServeRead, Idle, Sent
<1>2. CASE TakeScalar \/ Dismiss
  <2>1. mpc = "result" /\ mpc' \in {"result", "any", "done"}
    BY <1>2 DEF TakeScalar, Dismiss
  <2> QED
    BY <2>1 DEF Idle, Sent
<1> QED
  BY <1>1, <1>2

LEMMA MasterPasses ==
  ASSUME Protocol, UpdateSent, Master, ~StoreValue
  PROVE  /\ UpdateSent'
         /\ \A v \in Updated \ Scalar, p \in Place : Storing(v, p)' <=> Storing(v, p)
<1>1. Passes \/ (Idle /\ Idle')
  BY ReceiveIdle, SecurePasses, TakeCoordsPasses, OthersIdle DEF Master
<1> QED
  BY <1>1, PassedOn, NoneSent

(***************************************************************************)
(* The store at the end of an update counts its element up; another store  *)
(* is of a variable that is not counted.                                   *)
(***************************************************************************)
LEMMA UpdateStored ==
  ASSUME Protocol, UpdateSent, StoreValue
  PROVE  /\ UpdateSent'
         /\ \A v \in Updated \ Scalar, p \in Place :
              /\ ~Storing(v, p)'
              /\ mem'[v][p] = mem[v][p] + (IF Storing(v, p) THEN 1 ELSE 0)
<1>1. /\ mpc = "value" /\ section' = 0 /\ source \in Slave /\ toMaster[source] # <<>>
      /\ mem \in [Var -> [Place -> Nat]] /\ toMaster[source] \in Seq(Message)
  BY Before DEF StoreValue, Arrived, Protocol, TypeOK
<1>2. ~Sent'
  BY <1>1 DEF Sent
<1> DEFINE m == toMaster[source][1]
<1>3. Overwrite(Target, coord, m.x)
  BY <1>1, TailFacts, ValueStored DEF StoreValue
<1>4. Sent => Target = IoVars[section] /\ Meant = coord /\ Value = m.x
  BY <1>1 DEF Sent, Target, Meant, Value, Offset
<1>5. ~Sent => Target \in Owned
  BY <1>1 DEF Sent, Protocol, MasterOK
<1> HIDE DEF m
<1>6. ASSUME NEW v \in Updated \ Scalar, NEW p \in Place
      PROVE  mem'[v][p] = mem[v][p] + (IF Storing(v, p) THEN 1 ELSE 0)
  <2>1. v \in Var /\ mem[v][p] \in Nat
    <3>1. v \in Var
      BY MemoryAssumption DEF Var
    <3> QED
      BY <1>1, <3>1
  <2>2. CASE v # Target
    <3>1. mem'[v] = mem[v]
      BY <1>1, <1>3, <2>1, <2>2 DEF Overwrite
    <3>2. ~Storing(v, p)
      BY <1>4, <2>2 DEF Storing
    <3> QED
      BY <2>1, <3>1, <3>2
  <2>3. CASE v = Target
    <3>1. Sent
      BY <1>5, <2>3 DEF Owned
    <3>2. PICK u \in Place : Storing(v, u) /\ Value[u] = mem[v][u] + 1
      BY <1>4, <2>3, <3>1 DEF UpdateSent
    <3>3. coord = {u} /\ m.x[u] = mem[v][u] + 1
      BY <1>4, <3>1, <3>2 DEF Storing
    <3>4. mem'[v] = [w \in Place |-> IF w \in {u} THEN m.x[w] ELSE mem[v][w]]
      BY <1>1, <1>3, <2>1, <2>3, <3>3 DEF Overwrite
    <3>5. CASE p = u
      BY <3>2, <3>3, <3>4, <3>5
    <3>6. CASE p # u
      <4>1. ~Storing(v, p)
        BY <1>4, <3>1, <3>3, <3>6 DEF Storing
      <4> QED
        BY <2>1, <3>4, <3>6, <4>1
    <3> QED
      BY <3>5, <3>6
  <2> QED
    BY <2>2, <2>3
<1> QED
  BY <1>2, <1>6 DEF UpdateSent, Storing

-------------------------------------------------------------------------------
(***************************************************************************)
(* The account of updates: each one begun is either in mem, or wished for  *)
(* by the statement of a slave, or sent.                                   *)
(***************************************************************************)
Wishing(v, p) == {s \in Slave : stmt[s].target = Ref(v, {p})}

Account ==
  \A v \in Updated \ Scalar, p \in Place :
    wanted[v][p] =
      mem[v][p] + Cardinality(Wishing(v, p)) + (IF Storing(v, p) THEN 1 ELSE 0)

LEMMA WishedFor ==
  ASSUME Protocol, NEW s \in Slave, Start(s), NEW v \in Var, NEW p \in Place
  PROVE  wanted'[v][p] =
           wanted[v][p] + (IF v \in Updated /\ stmt'[s].target = Ref(v, {p}) THEN 1 ELSE 0)
<1>1. PICK st \in Possible(s) :
        /\ stmt' = [stmt EXCEPT ![s] = st]
        /\ IF st.secure THEN wanted' = Wish(st.target) ELSE wanted' = wanted
  BY DEF Start
<1>2. stmt'[s] = st /\ wanted \in [Var -> [Place -> Nat]]
  BY <1>1 DEF Protocol, TypeOK
<1>3. wanted[v][p] \in Nat
  BY <1>2
<1>4. CASE Look(st) \/ Put(s, st)
  <2>1. ~(v \in Updated /\ st.target = Ref(v, {p}))
    <3>1. Nowhere.at = {} /\ Ref(v, {p}).at = {p} /\ Ref(v, {p}).var = v
      BY DEF Nowhere, Ref
    <3> QED
      BY <1>4, <3>1 DEF Look, Put, Owned
  <2>2. CASE st.secure
    <3>1. st.target.var \notin Updated
      BY <1>4, <2>2 DEF Look, Put, Owned
    <3>2. wanted' = Wish(st.target)
      BY <1>1, <2>2
    <3>3. wanted'[v][p] = wanted[v][p] + 0
      <4>1. CASE st.target.var = v
        BY <1>2, <3>1, <3>2, <4>1 DEF Wish
      <4>2. CASE st.target.var # v
        BY <1>2, <3>2, <4>2 DEF Wish
      <4> QED
        BY <4>1, <4>2
    <3> QED
      BY <1>2, <2>1, <3>3
  <2>3. CASE ~st.secure
    BY <1>1, <1>2, <1>3, <2>1, <2>3
  <2> QED
    BY <2>2, <2>3
<1>5. CASE Increment(s, st)
  <2>1. PICK u \in Place : st.target = Ref(st.target.var, {u})
    BY <1>5 DEF Increment
  <2>2. st.target.var \in Updated /\ st.target.at = {u} /\ wanted' = Wish(st.target)
    BY <1>1, <1>5, <2>1 DEF Increment, Ref
  <2>3. CASE st.target.var = v
    <3>1. wanted'[v][p] = wanted[v][p] + (IF p \in {u} THEN 1 ELSE 0)
      BY <1>2, <2>2, <2>3 DEF Wish
    <3>2. st.target = Ref(v, {p}) <=> p = u
      <4>1. st.target = Ref(v, {u})
        BY <2>1, <2>3
      <4>2. Ref(v, {p}).at = {p} /\ Ref(v, {u}).at = {u}
        BY DEF Ref
      <4> QED
        BY <4>1, <4>2
    <3> QED
      BY <1>2, <2>2, <2>3, <3>1, <3>2
  <2>4. CASE st.target.var # v
    <3>1. wanted'[v][p] = wanted[v][p]
      BY <1>2, <2>2, <2>4 DEF Wish
    <3>2. st.target # Ref(v, {p})
      BY <2>4 DEF Ref
    <3> QED
      BY <1>2, <1>3, <3>1, <3>2
  <2> QED
    BY <2>3, <2>4
<1> QED
  BY <1>4, <1>5, Kinds

LEMMA WishingFinite ==
  ASSUME NEW v, NEW p
  PROVE  IsFiniteSet(Wishing(v, p)) /\ Cardinality(Wishing(v, p)) \in Nat
<1>1. Wishing(v, p) \subseteq Slave
  BY DEF Wishing
<1> QED
  BY <1>1, SlaveFinite, FS_Subset, FS_CardinalityType

(***************************************************************************)
(* Only the start of its statement makes a slave wish for an update, and   *)
(* only the write at its end makes it stop.                                *)
(***************************************************************************)
LEMMA Wishes ==
  ASSUME Protocol, NEW s \in Slave, SlaveStep(s),
         NEW v \in Updated \ Scalar, NEW p \in Place
  PROVE  /\ Start(s) /\ stmt'[s].target = Ref(v, {p}) =>
              /\ Cardinality(Wishing(v, p)') = Cardinality(Wishing(v, p)) + 1
              /\ wanted'[v][p] = wanted[v][p] + 1
         /\ Write(s) /\ stmt[s].target = Ref(v, {p}) =>
              /\ Cardinality(Wishing(v, p)') = Cardinality(Wishing(v, p)) - 1
              /\ wanted'[v][p] = wanted[v][p]
         /\ ~(Start(s) /\ stmt'[s].target = Ref(v, {p}))
              /\ ~(Write(s) /\ stmt[s].target = Ref(v, {p})) =>
              /\ Wishing(v, p)' = Wishing(v, p)
              /\ wanted'[v][p] = wanted[v][p]
<1>1. v \in Var
  BY MemoryAssumption DEF Var
<1>2. \A t \in Slave \ {s} : stmt'[t] = stmt[t]
  BY DEF SlaveStep, Start, Tally, Ask, Got, Write, Answer, Leave, Protocol, TypeOK
<1>3. wanted[v][p] \in Nat
  BY <1>1 DEF Protocol, TypeOK
<1>4. Empty.target # Ref(v, {p})
  BY DEF Empty, Statement, Nowhere, Ref
<1>5. IsFiniteSet(Wishing(v, p))
  BY WishingFinite
<1>6. CASE Start(s)
  <2>1. stmt[s] = Empty
    BY <1>6, Before DEF Start, Control
  <2>2. s \notin Wishing(v, p) /\ ~Write(s)
    BY <1>4, <1>6, <2>1 DEF Wishing, Start, Write
  <2>3. CASE stmt'[s].target = Ref(v, {p})
    <3>1. Wishing(v, p)' = Wishing(v, p) \cup {s}
      BY <1>2, <2>3 DEF Wishing
    <3>2. Cardinality(Wishing(v, p)') = Cardinality(Wishing(v, p)) + 1
      BY <1>5, <2>2, <3>1, FS_AddElement
    <3>3. wanted'[v][p] = wanted[v][p] + 1
      BY <1>1, <1>6, <2>3, WishedFor
    <3>4. ~Write(s) /\ Start(s)
      BY <1>6, <2>2
    <3> QED
      BY <2>3, <3>2, <3>3, <3>4, Zenon
  <2>4. CASE stmt'[s].target # Ref(v, {p})
    <3>1. Wishing(v, p)' = Wishing(v, p)
      BY <1>2, <2>2, <2>4 DEF Wishing
    <3>2. wanted'[v][p] = wanted[v][p]
      BY <1>1, <1>3, <1>6, <2>4, WishedFor
    <3> QED
      BY <2>2, <2>4, <3>1, <3>2
  <2> QED
    BY <2>3, <2>4
<1>7. CASE Write(s)
  <2>1. stmt'[s] = Empty /\ wanted' = wanted /\ ~Start(s)
    BY <1>7 DEF Write, Start, Protocol, TypeOK
  <2>2. s \notin Wishing(v, p)'
    BY <1>4, <2>1 DEF Wishing
  <2>3. CASE stmt[s].target = Ref(v, {p})
    <3>1. s \in Wishing(v, p) /\ Wishing(v, p)' = Wishing(v, p) \ {s}
      BY <1>2, <2>2, <2>3 DEF Wishing
    <3>2. Cardinality(Wishing(v, p)') = Cardinality(Wishing(v, p)) - 1
      BY <1>5, <3>1, FS_RemoveElement
    <3>3. ~Start(s) /\ Write(s) /\ wanted'[v][p] = wanted[v][p]
      BY <1>7, <2>1
    <3> QED
      BY <2>3, <3>2, <3>3, Zenon
  <2>4. CASE stmt[s].target # Ref(v, {p})
    <3>1. Wishing(v, p)' = Wishing(v, p)
      BY <1>2, <2>2, <2>4 DEF Wishing
    <3> QED
      BY <2>1, <2>4, <3>1
  <2> QED
    BY <2>3, <2>4
<1>8. CASE ~Start(s) /\ ~Write(s)
  <2>1. stmt' = stmt /\ wanted'[v] = wanted[v]
    BY <1>8, TallyLeaves DEF SlaveStep, Ask, Got, Answer, Leave
  <2>2. Wishing(v, p)' = Wishing(v, p)
    BY <2>1 DEF Wishing
  <2> QED
    BY <1>8, <2>1, <2>2
<1> QED
  BY <1>6, <1>7, <1>8

LEMMA SlavesAccount ==
  ASSUME Protocol, UpdateSent, Account, NEW s \in Slave, Known(s), SlaveStep(s)
  PROVE  Account'
<1> SUFFICES ASSUME NEW v \in Updated \ Scalar, NEW p \in Place
             PROVE  wanted'[v][p] = mem'[v][p] + Cardinality(Wishing(v, p)')
                                      + (IF Storing(v, p)' THEN 1 ELSE 0)
  BY DEF Account
<1> DEFINE n == Cardinality(Wishing(v, p))
           now == Cardinality(Wishing(v, p)')
<1>1. /\ Start(s) /\ stmt'[s].target = Ref(v, {p}) =>
           now = n + 1 /\ wanted'[v][p] = wanted[v][p] + 1
      /\ Write(s) /\ stmt[s].target = Ref(v, {p}) =>
           now = n - 1 /\ wanted'[v][p] = wanted[v][p]
      /\ ~(Start(s) /\ stmt'[s].target = Ref(v, {p}))
           /\ ~(Write(s) /\ stmt[s].target = Ref(v, {p})) =>
           now = n /\ wanted'[v][p] = wanted[v][p]
  BY Wishes
<1>2. IF Write(s) /\ stmt[s].target = Ref(v, {p})
      THEN ~Storing(v, p) /\ Storing(v, p)'
      ELSE Storing(v, p)' <=> Storing(v, p)
  BY SlavesSend
<1>3. mem' = mem
  BY DEF SlaveStep, Start, Tally, Ask, Got, Write, Answer, Leave, masterVars
<1>4. wanted[v][p] = mem[v][p] + n + (IF Storing(v, p) THEN 1 ELSE 0)
  BY DEF Account
<1>5. n \in Nat /\ mem[v][p] \in Nat
  <2>1. v \in Var
    BY MemoryAssumption DEF Var
  <2> QED
    BY <2>1, WishingFinite DEF Protocol, TypeOK
<1>6. ~(Start(s) /\ Write(s))
  BY DEF Start, Write
<1> HIDE DEF n, now
<1>7. CASE Start(s) /\ stmt'[s].target = Ref(v, {p})
  <2>1. now = n + 1 /\ wanted'[v][p] = wanted[v][p] + 1 /\ (Storing(v, p)' <=> Storing(v, p))
    BY <1>1, <1>2, <1>6, <1>7
  <2> QED
    BY <1>3, <1>4, <1>5, <2>1 DEF now
<1>8. CASE Write(s) /\ stmt[s].target = Ref(v, {p})
  <2>1. now = n - 1 /\ wanted'[v][p] = wanted[v][p] /\ ~Storing(v, p) /\ Storing(v, p)'
    BY <1>1, <1>2, <1>8
  <2> QED
    BY <1>3, <1>4, <1>5, <2>1 DEF now
<1>9. CASE /\ ~(Start(s) /\ stmt'[s].target = Ref(v, {p}))
           /\ ~(Write(s) /\ stmt[s].target = Ref(v, {p}))
  <2>1. now = n /\ wanted'[v][p] = wanted[v][p] /\ (Storing(v, p)' <=> Storing(v, p))
    BY <1>1, <1>2, <1>9
  <2> QED
    BY <1>3, <1>4, <1>5, <2>1 DEF now
<1> QED
  BY <1>7, <1>8, <1>9

LEMMA MasterAccount ==
  ASSUME Protocol, UpdateSent, Account, Master
  PROVE  Account'
<1>1. stmt' = stmt /\ wanted' = wanted
  BY DEF Master, Receive, ServeRead, Secure, TakeCoords, StoreValue, TakeScalar, Dismiss,
         slaveVars
<1>2. mem \in [Var -> [Place -> Nat]]
  BY DEF Protocol, TypeOK
<1> SUFFICES ASSUME NEW v \in Updated \ Scalar, NEW p \in Place
             PROVE  wanted'[v][p] = mem'[v][p] + Cardinality(Wishing(v, p)')
                                      + (IF Storing(v, p)' THEN 1 ELSE 0)
  BY DEF Account
<1>3. v \in Var
  BY MemoryAssumption DEF Var
<1>4. /\ Wishing(v, p)' = Wishing(v, p) /\ Cardinality(Wishing(v, p)) \in Nat
      /\ mem[v][p] \in Nat
  BY <1>1, <1>2, <1>3, WishingFinite DEF Wishing
<1>5. wanted[v][p] = mem[v][p] + Cardinality(Wishing(v, p)) + (IF Storing(v, p) THEN 1 ELSE 0)
  BY DEF Account
<1>6. CASE StoreValue
  <2>1. ~Storing(v, p)' /\ mem'[v][p] = mem[v][p] + (IF Storing(v, p) THEN 1 ELSE 0)
    BY <1>6, UpdateStored
  <2> QED
    BY <1>1, <1>4, <1>5, <2>1
<1>7. CASE ~StoreValue
  <2>1. Storing(v, p)' <=> Storing(v, p)
    BY <1>7, MasterPasses
  <2>2. mem'[v] = mem[v]
    <3>1. CASE TakeScalar
      BY <1>3, <3>1, ArraysLeft
    <3>2. CASE ~TakeScalar
      BY <1>7, <3>2 DEF Master, Receive, ServeRead, Secure, TakeCoords, Dismiss
    <3> QED
      BY <3>1, <3>2
  <2> QED
    BY <1>1, <1>4, <1>5, <2>1, <2>2
<1> QED
  BY <1>6, <1>7

(***************************************************************************)
(* The invariant of the updates, and what it says of the end.              *)
(***************************************************************************)
Accounted ==
  /\ Protocol /\ DismissedAre /\ UpdateSent /\ Account
  /\ \A s \in Slave : Known(s)

Settled ==
  mpc = "done" => \A v \in Updated \ Scalar, p \in Place : mem[v][p] = wanted[v][p]

LEMMA InitAccounted == Init => Accounted
<1> SUFFICES ASSUME Init PROVE Accounted
  OBVIOUS
<1>1. \A s \in Slave : Known(s)
  BY DEF Init, Known
<1>2. ~Sent
  BY DEF Init, Sent
<1>3. ASSUME NEW v \in Updated \ Scalar, NEW p \in Place
      PROVE  wanted[v][p] =
               mem[v][p] + Cardinality(Wishing(v, p)) + (IF Storing(v, p) THEN 1 ELSE 0)
  <2>1. Empty.target # Ref(v, {p})
    BY DEF Empty, Statement, Nowhere, Ref
  <2>2. Wishing(v, p) = {}
    BY <2>1 DEF Init, Wishing
  <2>3. Cardinality(Wishing(v, p)) = 0
    BY <2>2, FS_EmptySet
  <2>4. v \in Var
    BY MemoryAssumption DEF Var
  <2>5. wanted[v][p] = 0 /\ mem[v][p] = 0
    BY <2>4 DEF Init
  <2> QED
    BY <1>2, <2>3, <2>5 DEF Storing
<1> QED
  BY <1>1, <1>2, <1>3, InitProtocol, InitDismissed DEF Accounted, UpdateSent, Account

LEMMA StutterAccounted ==
  ASSUME Accounted, UNCHANGED vars
  PROVE  Accounted'
<1>1. Protocol' /\ DismissedAre'
  BY StutterProtocol, SameDismissed
     DEF Accounted, Dismissed, vars, masterVars, slaveVars
<1>2. UpdateSent'
  BY DEF Accounted, UpdateSent, Storing, Sent, Offset, Meant, Value,
     vars, masterVars, slaveVars, serving
<1>3. \A v, p : Storing(v, p)' = Storing(v, p) /\ Wishing(v, p)' = Wishing(v, p)
  BY DEF Storing, Sent, Offset, Meant, Wishing, vars, masterVars, slaveVars, serving
<1>4. Account'
  BY <1>3 DEF Accounted, Account, vars, masterVars, slaveVars
<1>5. \A s \in Slave : Known(s)'
  BY DEF Accounted, Known, Operand, vars, masterVars, slaveVars
<1> QED
  BY <1>1, <1>2, <1>4, <1>5 DEF Accounted

LEMMA NextAccounted ==
  ASSUME ReadsSomething, Accounted, [Next]_vars
  PROVE  Accounted'
<1>1. Protocol'
  BY NextProtocol DEF Accounted
<1>2. CASE Master
  <2>1. UpdateSent'
    BY <1>2, MasterPasses, UpdateStored DEF Accounted
  <2>2. \A s \in Slave : Known(s)'
    BY <1>2, MasterKnows DEF Accounted
  <2> QED
    BY <1>1, <1>2, <2>1, <2>2, MasterDismissed, MasterAccount DEF Accounted
<1>3. CASE \E s \in Slave : SlaveStep(s)
  <2>1. PICK s \in Slave : SlaveStep(s)
    BY <1>3
  <2>2. \A t \in Slave : Known(t)'
    BY <2>1, SlavesKnow DEF Accounted
  <2> QED
    BY <1>1, <2>1, <2>2, SlavesDismissed, SlavesSend, SlavesAccount DEF Accounted
<1>4. CASE UNCHANGED vars
  BY <1>4, StutterAccounted
<1> QED
  BY <1>2, <1>3, <1>4 DEF Next, Finished

(***************************************************************************)
(* When the master goes on, no slave wishes for or has sent an update.     *)
(***************************************************************************)
LEMMA AccountSettled == Accounted => Settled
<1> SUFFICES ASSUME Accounted, mpc = "done", NEW v \in Updated \ Scalar, NEW p \in Place
             PROVE  mem[v][p] = wanted[v][p]
  BY DEF Settled
<1>1. Wishing(v, p) = {}
  <2>1. ASSUME NEW s \in Slave PROVE stmt[s] = Empty
    <3>1. spc[s] \in {"done", "sent"}
      BY AllDismissed DEF Accounted, Dismissed
    <3> QED
      BY <3>1, Before DEF Accounted, Control
  <2>2. Empty.target # Ref(v, {p})
    BY DEF Empty, Statement, Nowhere, Ref
  <2> QED
    BY <2>1, <2>2 DEF Wishing
<1>2. Cardinality(Wishing(v, p)) = 0
  BY <1>1, FS_EmptySet
<1>3. ~Storing(v, p)
  BY DEF Storing, Sent
<1>4. mem[v][p] \in Nat
  <2>1. v \in Var
    BY MemoryAssumption DEF Var
  <2> QED
    BY <2>1 DEF Accounted, Protocol, TypeOK
<1> QED
  BY <1>2, <1>3, <1>4 DEF Accounted, Account

-------------------------------------------------------------------------------
(***************************************************************************)
(* The accesses are those of a shared memory.                              *)
(***************************************************************************)
Values == [Var -> [Place -> Nat]]

LEMMA SameArrays ==
  ASSUME NEW f \in Values, NEW g \in Values,
         \A w \in Var \ Scalar, u \in Place : g[w][u] = f[w][u]
  PROVE  OfArrays(g) = OfArrays(f)
<1>1. ASSUME NEW w \in Var \ Scalar PROVE g[w] = f[w]
  <2>1. f[w] \in [Place -> Nat] /\ g[w] \in [Place -> Nat]
    BY DEF Values
  <2> QED
    BY <2>1
<1> QED
  BY <1>1 DEF OfArrays

LEMMA OneElement ==
  ASSUME NEW f \in Values, NEW g \in Values, NEW v \in Var \ Scalar, NEW p \in Place, NEW n,
         \A w \in Var \ Scalar, u \in Place :
           g[w][u] = IF w = v /\ u = p THEN n ELSE f[w][u]
  PROVE  OfArrays(g) = [OfArrays(f) EXCEPT ![v][p] = n]
<1> DEFINE h == [OfArrays(f) EXCEPT ![v][p] = n]
<1>1. OfArrays(f) \in [Var \ Scalar -> [Place -> Nat]]
  BY DEF OfArrays, Values
<1>2. ASSUME NEW w \in Var \ Scalar PROVE OfArrays(g)[w] = h[w]
  <2>1. OfArrays(g)[w] = g[w] /\ OfArrays(f)[w] = f[w]
        /\ f[w] \in [Place -> Nat] /\ g[w] \in [Place -> Nat]
    BY DEF OfArrays, Values
  <2>2. CASE w = v
    <3>1. h[w] = [f[w] EXCEPT ![p] = n]
      BY <1>1, <2>1, <2>2
    <3>2. \A u \in Place : g[w][u] = [f[w] EXCEPT ![p] = n][u]
      BY <2>1, <2>2
    <3> QED
      BY <2>1, <3>1, <3>2
  <2>3. CASE w # v
    <3>1. h[w] = f[w]
      BY <1>1, <2>1, <2>3
    <3>2. \A u \in Place : g[w][u] = f[w][u]
      BY <2>3
    <3> QED
      BY <2>1, <3>1, <3>2
  <2> QED
    BY <2>2, <2>3
<1>3. h = [w \in Var \ Scalar |-> h[w]]
  BY <1>1
<1> QED
  BY <1>2, <1>3 DEF OfArrays

LEMMA Types ==
  ASSUME Accounted
  PROVE  /\ mem \in Values /\ wanted \in Values /\ source \in Slave
         /\ Updated \subseteq Var
  BY MemoryAssumption DEF Accounted, Protocol, TypeOK, Values, Var

LEMMA SlavesRefine ==
  ASSUME Accounted, wanted' \in Values, NEW s \in Slave, SlaveStep(s)
  PROVE  [SharedArrays!SharedNext]_(SharedArrays!sharedVars)
<1>1. mem' = mem /\ mpc' = mpc
  BY DEF SlaveStep, Start, Tally, Ask, Got, Write, Answer, Leave, masterVars
<1>2. OfArrays(mem)' = OfArrays(mem) /\ (mpc = "done")' = (mpc = "done")
  BY <1>1 DEF OfArrays
<1>3. CASE ~Start(s)
  <2>1. ASSUME Tally(s) PROVE OfArrays(wanted') = OfArrays(wanted)
    <3>1. PICK v \in Updated \cap Scalar : wanted' = [wanted EXCEPT ![v][1] = @ + 1]
      BY <2>1 DEF Tally
    <3>2. \A w \in Var \ Scalar, u \in Place : wanted'[w][u] = wanted[w][u]
      BY <3>1, Types DEF Values
    <3> QED
      BY <3>2, Types, SameArrays
  <2>2. ~Tally(s) => wanted' = wanted
    BY <1>3 DEF SlaveStep, Ask, Got, Write, Answer, Leave
  <2>3. OfArrays(wanted') = OfArrays(wanted)
    BY <2>1, <2>2
  <2>4. OfArrays(wanted)' = OfArrays(wanted)
    BY <2>3 DEF OfArrays
  <2> QED
    BY <1>2, <2>4 DEF SharedArrays!sharedVars
<1>4. CASE Start(s)
  <2>1. \A w \in Var, u \in Place :
          wanted'[w][u] =
            wanted[w][u] + (IF w \in Updated /\ stmt'[s].target = Ref(w, {u}) THEN 1 ELSE 0)
    BY <1>4, WishedFor DEF Accounted
  <2>2. \A w \in Var, u \in Place : wanted[w][u] \in Nat
    BY Types DEF Values
  <2>3. mpc # "done"
    <3>1. ~Dismissed(s)
      BY <1>4 DEF Start, Dismissed
    <3> QED
      BY <3>1, AllDismissed DEF Accounted
  <2>4. CASE \E v \in Updated \ Scalar, p \in Place : stmt'[s].target = Ref(v, {p})
    <3>1. PICK v \in Updated \ Scalar, p \in Place : stmt'[s].target = Ref(v, {p})
      BY <2>4
    <3>2. v \in Var \ Scalar /\ v \in Var
      BY Types
    <3> DEFINE n == wanted[v][p] + 1
    <3>3. ASSUME NEW w \in Var \ Scalar, NEW u \in Place
          PROVE  wanted'[w][u] = IF w = v /\ u = p THEN n ELSE wanted[w][u]
      <4>1. wanted'[w][u] = wanted[w][u]
              + (IF w \in Updated /\ stmt'[s].target = Ref(w, {u}) THEN 1 ELSE 0)
        BY <2>1
      <4>2. CASE w = v /\ u = p
        BY <3>1, <4>1, <4>2
      <4>3. CASE ~(w = v /\ u = p)
        <5>1. stmt'[s].target # Ref(w, {u})
          <6>1. /\ Ref(v, {p}).var = v /\ Ref(v, {p}).at = {p}
                /\ Ref(w, {u}).var = w /\ Ref(w, {u}).at = {u}
            BY DEF Ref
          <6>2. Ref(v, {p}) # Ref(w, {u})
            BY <4>3, <6>1
          <6> QED
            BY <3>1, <6>2
        <5>2. wanted[w][u] \in Nat
          BY <2>2
        <5> QED
          BY <4>1, <4>3, <5>1, <5>2
      <4> QED
        BY <4>2, <4>3
    <3>4. wanted \in Values
      BY Types
    <3> HIDE DEF n
    <3>5. OfArrays(wanted') = [OfArrays(wanted) EXCEPT ![v][p] = n]
      BY <3>2, <3>3, <3>4, OneElement
    <3>6. OfArrays(wanted)[v] = wanted[v]
      BY <3>2 DEF OfArrays
    <3>7. OfArrays(wanted)' = [OfArrays(wanted) EXCEPT ![v][p] = @ + 1]
      BY <3>5, <3>6 DEF OfArrays, n
    <3>8. SharedArrays!Begin(v, p)
      BY <1>2, <2>3, <3>7 DEF SharedArrays!Begin
    <3> QED
      BY <3>1, <3>8 DEF SharedArrays!SharedNext
  <2>5. CASE ~\E v \in Updated \ Scalar, p \in Place : stmt'[s].target = Ref(v, {p})
    <3>1. ASSUME NEW w \in Var \ Scalar, NEW u \in Place
          PROVE  wanted'[w][u] = wanted[w][u]
      <4>1. ~(w \in Updated /\ stmt'[s].target = Ref(w, {u}))
        BY <2>5
      <4>2. wanted[w][u] \in Nat
        BY <2>2
      <4>3. wanted'[w][u] = wanted[w][u]
              + (IF w \in Updated /\ stmt'[s].target = Ref(w, {u}) THEN 1 ELSE 0)
        BY <2>1
      <4> QED
        BY <4>1, <4>2, <4>3
    <3>2. OfArrays(wanted') = OfArrays(wanted)
      BY <3>1, Types, SameArrays
    <3>3. OfArrays(wanted)' = OfArrays(wanted)
      BY <3>2 DEF OfArrays
    <3> QED
      BY <1>2, <3>3 DEF SharedArrays!sharedVars
  <2> QED
    BY <2>4, <2>5
<1> QED
  BY <1>3, <1>4

LEMMA StoreRefines ==
  ASSUME Accounted, mem' \in Values, StoreValue
  PROVE  [SharedArrays!SharedNext]_(SharedArrays!sharedVars)
<1>1. /\ wanted' = wanted /\ mpc = "value" /\ mpc' = "any"
      /\ source \in Slave /\ toMaster[source] # <<>> /\ toMaster[source] \in Seq(Message)
      /\ Protocol
  BY Before, Types DEF StoreValue, Arrived, slaveVars, Accounted
<1>2. /\ OfArrays(wanted)' = OfArrays(wanted)
      /\ (mpc = "done")' = (mpc = "done") /\ mpc # "done"
  BY <1>1 DEF OfArrays
<1> DEFINE v == Target
           m == toMaster[source][1]
           at == coord
<1>3. /\ v \in Var \ Scalar /\ m.x \in [at -> Nat]
      /\ v \in Owned => m.x[source] = source /\ coord = {source}
  BY <1>1, ValueStored DEF Protocol, MasterOK
<1>4. mem' = [mem EXCEPT ![v] = [p \in Place |-> IF p \in at THEN m.x[p] ELSE mem[v][p]]]
  BY <1>1, <1>3, TailFacts DEF StoreValue, Overwrite
<1>5. \A w \in Var : w # v => mem'[w] = mem[w]
  BY <1>4, Types DEF Values
<1>6. CASE v \in Owned \ Scalar
  <2>1. source \in Place
    BY <1>1 DEF Place
  <2>2. \A u \in Place : mem'[v][u] = IF u = source THEN source ELSE mem[v][u]
    BY <1>3, <1>4, <1>6, Types DEF Values
  <2>3. \A w \in Var \ Scalar, u \in Place :
          mem'[w][u] = IF w = v /\ u = source THEN source ELSE mem[w][u]
    BY <1>5, <2>2
  <2>4. OfArrays(mem') = [OfArrays(mem) EXCEPT ![v][source] = source]
    <3>1. v \in Var \ Scalar /\ mem \in Values
      BY <1>3, <1>6, Types
    <3> HIDE DEF v
    <3> QED
      BY <2>1, <2>3, <3>1, OneElement
  <2>5. OfArrays(mem)' = [OfArrays(mem) EXCEPT ![v][source] = source]
    BY <2>4 DEF OfArrays
  <2>6. SharedArrays!Put(v, source)
    BY <1>2, <2>5 DEF SharedArrays!Put
  <2> QED
    BY <1>6, <2>1, <2>6 DEF SharedArrays!SharedNext
<1>7. CASE v \in Updated \ Scalar
  <2>1. section # 0
    BY <1>1, <1>7 DEF Protocol, MasterOK, Owned
  <2>2. Sent /\ IoVars[section] = v
    BY <1>1, <2>1 DEF Sent, Target
  <2>3. PICK p \in Place : Storing(v, p)
    BY <1>7, <2>2 DEF Accounted, UpdateSent
  <2>4. \A u \in Place : Storing(v, u) <=> u = p
    BY <2>3 DEF Storing
  <2>5. \A u \in Place : mem'[v][u] = mem[v][u] + (IF Storing(v, u) THEN 1 ELSE 0)
    BY <1>7, UpdateStored DEF Accounted
  <2>6. \A u \in Place : mem[v][u] \in Nat
    BY <1>3, Types DEF Values
  <2>7. \A w \in Var \ Scalar, u \in Place :
          mem'[w][u] = IF w = v /\ u = p THEN mem[v][p] + 1 ELSE mem[w][u]
    BY <1>5, <2>4, <2>5, <2>6
  <2>8. OfArrays(mem') = [OfArrays(mem) EXCEPT ![v][p] = mem[v][p] + 1]
    <3> DEFINE n == mem[v][p] + 1
    <3>1. v \in Var \ Scalar /\ mem \in Values
      BY <1>3, <1>7, Types
    <3>2. \A w \in Var \ Scalar, u \in Place :
            mem'[w][u] = IF w = v /\ u = p THEN n ELSE mem[w][u]
      BY <2>7
    <3> HIDE DEF v, n
    <3>3. OfArrays(mem') = [OfArrays(mem) EXCEPT ![v][p] = n]
      BY <3>1, <3>2, OneElement
    <3> QED
      BY <3>3 DEF n
  <2>9. OfArrays(mem)[v] = mem[v] /\ OfArrays(wanted)[v] = wanted[v]
    BY <1>3, <1>7 DEF OfArrays
  <2>10. OfArrays(mem)' = [OfArrays(mem) EXCEPT ![v][p] = @ + 1]
    BY <2>8, <2>9 DEF OfArrays
  <2>11. mem[v][p] < wanted[v][p]
    <3>1. wanted[v][p] = mem[v][p] + Cardinality(Wishing(v, p)) + 1
      BY <1>7, <2>3 DEF Accounted, Account
    <3>2. Cardinality(Wishing(v, p)) \in Nat
      BY WishingFinite
    <3> QED
      BY <2>6, <3>1, <3>2
  <2>12. SharedArrays!Apply(v, p)
    BY <1>2, <2>9, <2>10, <2>11 DEF SharedArrays!Apply
  <2> QED
    BY <1>7, <2>12 DEF SharedArrays!SharedNext
<1> QED
  BY <1>3, <1>6, <1>7 DEF Owned

LEMMA MasterRefines ==
  ASSUME ReadsSomething, Accounted, mem' \in Values, Settled', Master
  PROVE  [SharedArrays!SharedNext]_(SharedArrays!sharedVars)
<1>1. wanted' = wanted
  BY DEF Master, Receive, ServeRead, Secure, TakeCoords, StoreValue, TakeScalar, Dismiss,
         slaveVars
<1>2. OfArrays(wanted)' = OfArrays(wanted)
  BY <1>1 DEF OfArrays
<1>3. CASE StoreValue
  BY <1>3, StoreRefines
<1>4. CASE Receive \/ ServeRead \/ Secure \/ TakeCoords
  <2>1. mem' = mem
    BY <1>4 DEF Receive, ServeRead, Secure, TakeCoords
  <2>2. mpc # "done" /\ mpc' # "done"
    <3>1. CASE Receive
      BY <3>1, ReceiveStep DEF Receive, Accounted
    <3>2. CASE ServeRead \/ Secure \/ TakeCoords
      BY <3>2 DEF ServeRead, Secure, TakeCoords, Back
    <3> QED
      BY <1>4, <3>1, <3>2
  <2>3. OfArrays(mem)' = OfArrays(mem) /\ (mpc = "done")' = (mpc = "done")
    BY <2>1, <2>2 DEF OfArrays
  <2> QED
    BY <1>2, <2>3 DEF SharedArrays!sharedVars
<1>5. CASE TakeScalar
  <2>1. mpc' = mpc
    BY <1>5 DEF TakeScalar
  <2>2. \A w \in Var \ Scalar, u \in Place : mem'[w][u] = mem[w][u]
    BY <1>5, ArraysLeft DEF Accounted
  <2>3. OfArrays(mem') = OfArrays(mem)
    BY <2>2, Types, SameArrays
  <2>4. OfArrays(mem)' = OfArrays(mem) /\ (mpc = "done")' = (mpc = "done")
    BY <2>1, <2>3 DEF OfArrays
  <2> QED
    BY <1>2, <2>4 DEF SharedArrays!sharedVars
<1>6. CASE Dismiss
  <2>1. mem' = mem /\ mpc = "result" /\ mpc' \in {"done", "any"}
    BY <1>6 DEF Dismiss
  <2>2. OfArrays(mem)' = OfArrays(mem)
    BY <2>1 DEF OfArrays
  <2>3. CASE mpc' # "done"
    BY <1>2, <2>1, <2>2, <2>3 DEF SharedArrays!sharedVars
  <2>4. CASE mpc' = "done"
    <3>1. ASSUME NEW v \in Updated \ Scalar PROVE OfArrays(mem)[v] = OfArrays(wanted)[v]
      <4>1. v \in Var \ Scalar
        BY Types
      <4>2. \A p \in Place : mem[v][p] = wanted[v][p]
        BY <1>1, <2>1, <2>4 DEF Settled
      <4>3. mem[v] \in [Place -> Nat] /\ wanted[v] \in [Place -> Nat]
        BY <4>1, Types DEF Values
      <4>4. mem[v] = wanted[v]
        BY <4>2, <4>3
      <4> QED
        BY <4>1, <4>4 DEF OfArrays
    <3>2. SharedArrays!Join
      BY <1>2, <2>1, <2>2, <2>4, <3>1 DEF SharedArrays!Join
    <3> QED
      BY <3>2 DEF SharedArrays!SharedNext
  <2> QED
    BY <2>3, <2>4
<1> QED
  BY <1>3, <1>4, <1>5, <1>6 DEF Master

LEMMA StepRefines ==
  ASSUME ReadsSomething, Accounted, Accounted', Settled', [Next]_vars
  PROVE  [SharedArrays!SharedNext]_(SharedArrays!sharedVars)
<1>1. mem' \in Values /\ wanted' \in Values
  BY DEF Accounted, Protocol, TypeOK, Values
<1>2. CASE UNCHANGED vars
  <2>1. mem' = mem /\ wanted' = wanted /\ mpc' = mpc
    BY <1>2 DEF vars, masterVars, slaveVars
  <2> QED
    BY <2>1 DEF SharedArrays!sharedVars, OfArrays
<1> QED
  BY <1>1, <1>2, SlavesRefine, MasterRefines DEF Next, Finished

(***************************************************************************)
(* No update of an array is lost or torn, each is made once, between the   *)
(* moment the slave begins it and the moment the master goes on, and a     *)
(* plain write stores what its slave wrote: the remote accesses of         *)
(* transformConstructAST and handleMemory implement a shared memory.       *)
(***************************************************************************)
THEOREM Refinement == ASSUME ReadsSomething PROVE Spec => ImplementsSharedArrays
<1>1. Init => SharedArrays!SharedInit
  <2> SUFFICES ASSUME Init PROVE SharedArrays!SharedInit
    OBVIOUS
  <2>1. (Updated \ Scalar) \cup (Owned \ Scalar) = Var \ Scalar
    BY MemoryAssumption DEF Owned, Var
  <2>2. OfArrays(mem) = SharedArrays!Zero /\ OfArrays(wanted) = SharedArrays!Zero
    BY <2>1 DEF Init, OfArrays, SharedArrays!Zero
  <2> QED
    BY <2>2 DEF Init, SharedArrays!SharedInit
<1>2. Init => Accounted
  BY InitAccounted
<1>3. Accounted /\ [Next]_vars => Accounted'
  BY NextAccounted
<1>4. Accounted => Settled
  BY AccountSettled
<1>5. Accounted /\ Accounted' /\ Settled' /\ [Next]_vars =>
      [SharedArrays!SharedNext]_(SharedArrays!sharedVars)
  BY StepRefines
<1> QED
  BY <1>1, <1>2, <1>3, <1>4, <1>5, PTL
     DEF Spec, ImplementsSharedArrays, SharedArrays!SharedSpec

===============================================================================
