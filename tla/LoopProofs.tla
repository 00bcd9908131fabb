------------------------------- MODULE LoopProofs -------------------------------
(***************************************************************************)
(* Machine-checked proofs about a loop on its way through the tools: first *)
(* its header (LoopHeader), for every set of ends and strides and every    *)
(* limit, up to the range of iterations that is read out of it; then the   *)
(* blocks that are printed for a range (MCBlocks), for every range and     *)
(* number of slaves.                                                       *)
(***************************************************************************)
EXTENDS LoopHeader, MCBlocks, TLAPS, FiniteSetTheorems, FunctionTheorems

(***************************************************************************)
(* Multiples of a step are ordered as their factors are.                   *)
(***************************************************************************)
LEMMA TimesOrder ==
  ASSUME NEW a \in Int, NEW b \in Int, NEW k \in Nat \ {0}
  PROVE  /\ a * k \in Int /\ b * k \in Int
         /\ a < b <=> a * k < b * k
         /\ a <= b <=> a * k <= b * k
<1>1. ASSUME NEW x \in Int, NEW y \in Int, x < y
      PROVE  x * k < y * k
  <2>1. PICK d \in Nat : y = x + d + 1
    <3>1. y - x - 1 \in Nat
      BY <1>1
    <3> QED
      BY <3>1
  <2>2. y * k = x * k + d * k + k /\ d * k \in Nat /\ x * k \in Int
    BY <2>1
  <2> QED
    BY <2>2
<1>2. a * k \in Int /\ b * k \in Int
  OBVIOUS
<1>3. CASE a < b
  BY <1>1, <1>2, <1>3
<1>4. CASE b < a
  BY <1>1, <1>2, <1>4
<1>5. CASE a = b
  BY <1>2, <1>5
<1> QED
  BY <1>2, <1>3, <1>4, <1>5

LEMMA MinusTimes ==
  ASSUME NEW n \in Int, NEW k \in Int
  PROVE  n * (-k) = -(n * k) /\ n * k \in Int
OBVIOUS

LEMMA MinusOne ==
  ASSUME NEW x \in Int, x = -1
  PROVE  /\ -x = 1
         /\ \A a \in Int : a - x = a + 1 /\ a * x = -a
<1>1. x + 1 = 0
  OBVIOUS
<1>2. ASSUME NEW y \in Int, y + 1 = 0
      PROVE  -y = 1 /\ \A a \in Int : a - y = a + 1 /\ a * y = -a
  <2>1. -y = 1 /\ \A a \in Int : a - y = a + 1
    BY <1>2
  <2>2. ASSUME NEW a \in Int PROVE a * y = -a
    <3>1. a * (y + 1) = a * y + a /\ a * y \in Int /\ a * (y + 1) = 0
      BY <1>2
    <3> QED
      BY <3>1
  <2> QED
    BY <2>1, <2>2
<1> QED
  BY <1>1, <1>2

LEMMA LoopType ==
  ASSUME NEW l \in Loop
  PROVE  /\ l.first \in Int /\ l.bound \in Int
         /\ l.op \in {"<", "<=", ">", ">=", "!="}
         /\ l.place \in {"header", "last", "first"}
         /\ l.step.by \in Int /\ l.step.by # 0
         /\ l.step.form \in {"unit", "compound", "assign"}
<1>1. l.step \in Step /\ l.first \in Int /\ l.bound \in Int
  BY HeaderAssumption DEF Loop
<1>2. /\ l.step.form \in {"unit", "compound", "assign"}
      /\ l.step.by \in {1, -1} \cup Strides \cup {-k : k \in Strides}
  BY <1>1 DEF Step
<1>3. l.step.by \in Int /\ l.step.by # 0
  <2>1. CASE l.step.by \in {1, -1}
    BY <2>1
  <2>2. CASE l.step.by \in Strides
    <3>1. \A k \in Strides : k \in Nat \ {0}
      BY HeaderAssumption
    <3>2. l.step.by \in Nat \ {0}
      BY <2>2, <3>1
    <3> QED
      BY <3>2
  <2>3. CASE l.step.by \in {-k : k \in Strides}
    <3>1. PICK k \in Strides : l.step.by = -k
      BY <2>3
    <3>2. k \in Nat \ {0}
      BY HeaderAssumption
    <3> QED
      BY <3>1, <3>2
  <2> QED
    BY <1>2, <2>1, <2>2, <2>3
<1> QED
  BY <1>1, <1>2, <1>3 DEF Loop

-------------------------------------------------------------------------------
(***************************************************************************)
(* What the normaliser makes of each comparison.                           *)
(***************************************************************************)
Prints(l, first, bound, by) ==
  /\ Normalise(l).first = first
  /\ Normalise(l).op = "<"
  /\ Normalise(l).bound = bound
  /\ Normalise(l).step.by = by
  /\ Normalise(l).place = "header"

LEMMA NormaliseLess ==
  ASSUME NEW l \in Loop, l.op = "<"
  PROVE  Normalise(l) = l
BY DEF Normalise

LEMMA NormaliseAtMost ==
  ASSUME NEW l \in Loop, l.op = "<="
  PROVE  Prints(l, l.first, l.bound + l.step.by, l.step.by)
BY DEF Prints, Normalise, NormalOf, Simplified, InverseFor

LEMMA NormaliseUnequal ==
  ASSUME NEW l \in Loop, l.op = "!=", l.step.by > 0
  PROVE  Prints(l, l.first, l.bound, l.step.by)
<1>1. l.step.by \in Int
  BY LoopType
<1>2. Simplified(l.step, 2) = l.step.by
  BY <1>1 DEF Simplified
<1>3. l.bound + 0 = l.bound
  BY LoopType
<1> QED
  BY <1>2, <1>3 DEF Prints, Normalise, NormalOf, InverseFor

LEMMA NormaliseAtLeast ==
  ASSUME NEW l \in Loop, l.op = ">=", l.step.form # "compound"
  PROVE  Prints(l, l.bound, l.first - l.step.by, -l.step.by)
<1>1. l.first + (-l.step.by) = l.first - l.step.by
  BY LoopType
<1>2. Simplified(l.step, 1) = -l.step.by
  BY DEF Simplified
<1> QED
  BY <1>1, <1>2 DEF Prints, Normalise, NormalOf, InverseFor

LEMMA NormaliseGreater ==
  ASSUME NEW l \in Loop, l.op = ">", l.step.form # "compound"
  PROVE  Prints(l, l.bound, l.first, -l.step.by)
<1>1. l.first + 0 = l.first
  BY LoopType
<1>2. Simplified(l.step, 1) = -l.step.by
  BY DEF Simplified
<1> QED
  BY <1>1, <1>2 DEF Prints, Normalise, NormalOf, InverseFor

LEMMA NormaliseOp ==
  ASSUME NEW l \in Loop
  PROVE  /\ Normalise(l).op = "<"
         /\ Normalise(l).first \in Int /\ Normalise(l).bound \in Int
         /\ Normalise(l).place \in {"header", "last", "first"}
<1> USE LoopType
<1>1. CASE l.op = "<"
  BY <1>1, NormaliseLess
<1>2. CASE l.op # "<"
  <2> DEFINE by == Simplified(l.step, InverseFor(l.op))
             upper == (IF l.op \in {">", ">="} THEN l.first ELSE l.bound)
                        + (IF l.op \in {"<=", ">="} THEN by ELSE 0)
  <2>1. by \in Int
    BY DEF Simplified
  <2> HIDE DEF by
  <2>2. upper \in Int
    BY <2>1
  <2>3. Normalise(l) = NormalOf(l, by, upper)
    BY <1>2 DEF Normalise, by
  <2> QED
    BY <2>2, <2>3 DEF NormalOf
<1> QED
  BY <1>1, <1>2

-------------------------------------------------------------------------------
(***************************************************************************)
(* Two loops whose conditions agree turn by turn have the same turns.      *)
(***************************************************************************)
SameTurns(l, k) ==
  \A m \in 0 .. Limit : Test(k.op, Turn(k, m), k.bound) <=> Test(l.op, Turn(l, m), l.bound)

LEMMA TurnsEqual ==
  ASSUME NEW l, NEW k, SameTurns(l, k)
  PROVE  Turns(k) = Turns(l)
<1>1. \A n \in 0 .. Limit : \A m \in 0 .. n : m \in 0 .. Limit
  BY HeaderAssumption
<1> QED
  BY <1>1 DEF Turns, SameTurns

(***************************************************************************)
(* The turns of a loop that meets its bound at turn n.                     *)
(***************************************************************************)
LEMMA AtMostTurns ==
  ASSUME NEW l \in Loop, l.op = "<=", l.step.by > 0, Meets(l)
  PROVE  SameTurns(l, Normalise(l))
<1> DEFINE k == l.step.by
<1>1. k \in Nat \ {0} /\ l.first \in Int /\ l.bound \in Int
  BY LoopType
<1>2. PICK n \in 0 .. Limit : l.first + n * k = l.bound
  BY DEF Meets, Turn
<1>3. Prints(l, l.first, l.bound + k, k)
  BY NormaliseAtMost
<1> HIDE DEF k
<1>4. ASSUME NEW m \in 0 .. Limit
      PROVE  l.first + m * k < l.bound + k <=> l.first + m * k <= l.bound
  <2>1. m \in Int /\ n \in Int
    OBVIOUS
  <2>2. m * k \in Int /\ n * k \in Int /\ (m <= n <=> m * k <= n * k)
    BY <1>1, <2>1, TimesOrder
  <2>3. (n + 1) * k = n * k + k /\ (m < n + 1 <=> m * k < (n + 1) * k)
    BY <1>1, <2>1, TimesOrder
  <2>4. m < n + 1 <=> m <= n
    BY <2>1
  <2> QED
    BY <1>1, <1>2, <2>2, <2>3, <2>4
<1> QED
  BY <1>3, <1>4 DEF SameTurns, Prints, Turn, Test, k

LEMMA UnequalTurns ==
  ASSUME NEW l \in Loop, l.op = "!=", l.step.by > 0, Meets(l)
  PROVE  Turns(Normalise(l)) = Turns(l)
<1> DEFINE k == l.step.by
           N == Normalise(l)
<1>1. k \in Nat \ {0} /\ l.first \in Int /\ l.bound \in Int
  BY LoopType
<1>2. PICK n \in 0 .. Limit : l.first + n * k = l.bound
  BY DEF Meets, Turn
<1>3. Prints(l, l.first, l.bound, k)
  BY NormaliseUnequal
<1>4. ASSUME NEW m \in 0 .. Limit
      PROVE  /\ Test(N.op, Turn(N, m), N.bound) <=> m < n
             /\ Test(l.op, Turn(l, m), l.bound) <=> m # n
  <2>1. m \in Int /\ n \in Int
    OBVIOUS
  <2>2. /\ m * k \in Int /\ n * k \in Int
        /\ m < n <=> m * k < n * k
        /\ n < m <=> n * k < m * k
    BY <1>1, <2>1, TimesOrder
  <2>3. /\ l.first + m * k < l.bound <=> m < n
        /\ l.first + m * k # l.bound <=> m # n
    BY <1>1, <1>2, <2>1, <2>2
  <2> QED
    BY <1>3, <2>3 DEF Prints, Turn, Test
<1> HIDE DEF N
<1>5. \A a \in 0 .. Limit : \A m \in 0 .. a : m \in 0 .. Limit
  BY HeaderAssumption
<1>6. ASSUME NEW a \in 0 .. Limit
      PROVE  (\A m \in 0 .. a : m < n) <=> (\A m \in 0 .. a : m # n)
  <2>1. a \in Nat /\ n \in Nat /\ a \in 0 .. a
    BY HeaderAssumption
  <2>2. (\A m \in 0 .. a : m < n) <=> a < n
    BY <2>1
  <2>3. (\A m \in 0 .. a : m # n) <=> a < n
    BY <2>1
  <2> QED
    BY <2>2, <2>3
<1> QED
  BY <1>4, <1>5, <1>6 DEF Turns, N
(***************************************************************************)
(* A loop with >= that meets its bound at turn n has turns 0 to n, and so  *)
(* has the normalised loop, which takes the values from the other end.     *)
(***************************************************************************)
LEMMA AtLeastIterations ==
  ASSUME NEW l \in Loop, l.op = ">=", l.step.by < 0, l.step.form # "compound",
         l.place # "first", Meets(l)
  PROVE  Iterations(Normalise(l)) = Iterations(l)
<1> DEFINE k == -l.step.by
           N == Normalise(l)
<1>1. /\ k \in Nat \ {0} /\ l.first \in Int /\ l.bound \in Int
      /\ l.step.by = -k /\ l.first - l.step.by = l.first + k
  BY LoopType
<1>2. Prints(l, l.bound, l.first + k, k)
  BY <1>1, NormaliseAtLeast
<1> HIDE DEF k
<1>3. \A m \in Int : m * k \in Int /\ Turn(l, m) = l.first - m * k
  <2> SUFFICES ASSUME NEW m \in Int PROVE m * k \in Int /\ Turn(l, m) = l.first - m * k
    OBVIOUS
  <2>1. m * (-k) = -(m * k) /\ m * k \in Int
    BY <1>1, MinusTimes
  <2> QED
    BY <1>1, <2>1 DEF Turn
<1>4. \A m \in Int : Turn(N, m) = l.bound + m * k
  BY <1>2 DEF Turn, Prints
<1>5. PICK n \in 0 .. Limit : l.first - n * k = l.bound
  BY <1>3 DEF Meets
<1>6. ASSUME NEW m \in 0 .. Limit
      PROVE  /\ Test(N.op, Turn(N, m), N.bound) <=> m <= n
             /\ Test(l.op, Turn(l, m), l.bound) <=> m <= n
  <2>1. m \in Int /\ n \in Int /\ n + 1 \in Int
    OBVIOUS
  <2>2. m * k \in Int /\ n * k \in Int /\ (m <= n <=> m * k <= n * k)
    BY <1>1, <2>1, TimesOrder
  <2>3. (n + 1) * k = n * k + k /\ (m < n + 1 <=> m * k < (n + 1) * k)
    BY <1>1, <2>1, TimesOrder
  <2>4. m < n + 1 <=> m <= n
    BY <2>1
  <2>5. l.bound + m * k < l.first + k <=> m <= n
    BY <1>1, <1>5, <2>2, <2>3, <2>4
  <2>6. l.first - m * k >= l.bound <=> m <= n
    BY <1>1, <1>5, <2>2
  <2>7. /\ Turn(N, m) = l.bound + m * k /\ N.op = "<" /\ N.bound = l.first + k
        /\ Turn(l, m) = l.first - m * k
    BY <1>2, <1>3, <1>4, <2>1 DEF Prints
  <2> QED
    BY <2>5, <2>6, <2>7 DEF Test
<1>7. Turns(l) = 0 .. n /\ Turns(N) = 0 .. n
  <2>1. \A a \in 0 .. Limit : \A m \in 0 .. a : m \in 0 .. Limit
    BY HeaderAssumption
  <2>2. Turns(l) = {a \in 0 .. Limit : \A m \in 0 .. a : m <= n}
    BY <1>6, <2>1 DEF Turns
  <2>3. Turns(N) = {a \in 0 .. Limit : \A m \in 0 .. a : m <= n}
    BY <1>6, <2>1 DEF Turns
  <2>4. ASSUME NEW a \in 0 .. Limit PROVE (\A m \in 0 .. a : m <= n) <=> a <= n
    <3>1. a \in Nat /\ n \in Nat /\ a \in 0 .. a
      BY HeaderAssumption
    <3> QED
      BY <3>1
  <2>5. {a \in 0 .. Limit : \A m \in 0 .. a : m <= n} = 0 .. n
    BY <2>4, HeaderAssumption
  <2> QED
    BY <2>2, <2>3, <2>5
<1>8. N.place # "first"
  BY <1>2 DEF Prints
<1>9. /\ Iterations(l) = {Turn(l, m) : m \in 0 .. n}
      /\ Iterations(N) = {Turn(N, m) : m \in 0 .. n}
  BY <1>7, <1>8 DEF Iterations
<1>10. ASSUME NEW m \in 0 .. n
       PROVE  n - m \in 0 .. n /\ m \in Int /\ Turn(N, m) = Turn(l, n - m)
  <2>1. n \in Int /\ m \in Int /\ n - m \in 0 .. n
    OBVIOUS
  <2>2. (n - m) * k = n * k - m * k /\ n * k \in Int /\ m * k \in Int
    BY <1>1, <2>1
  <2>3. l.first - (n * k - m * k) = l.bound + m * k
    BY <1>1, <1>5, <2>2
  <2> QED
    BY <1>3, <1>4, <2>1, <2>2, <2>3
<1>11. ASSUME NEW m \in 0 .. n
       PROVE  n - m \in 0 .. n /\ Turn(l, m) = Turn(N, n - m)
  <2>1. n - m \in 0 .. n /\ n - (n - m) = m
    OBVIOUS
  <2> QED
    BY <1>10, <2>1
<1> QED
  BY <1>9, <1>10, <1>11

(***************************************************************************)
(* The normaliser keeps the iterations of regular loops.                   *)
(***************************************************************************)
LEMMA SameIterations ==
  ASSUME NEW l, NEW k, Turns(k) = Turns(l), l.place # "first", k.place # "first",
         k.first = l.first, k.step.by = l.step.by
  PROVE  Iterations(k) = Iterations(l)
BY DEF Iterations, Turn

LEMMA NormaliseKeeps ==
  ASSUME NEW l \in Loop, Regular(l)
  PROVE  Iterations(Normalise(l)) = Iterations(l)
<1>1. Towards(l) /\ l.place # "first"
  BY DEF Regular
<1>2. CASE l.op = "<"
  BY <1>2, NormaliseLess
<1>3. CASE l.op = "<="
  <2>1. Meets(l) /\ l.step.by > 0
    BY <1>1, <1>3 DEF Regular, Towards
  <2>2. Turns(Normalise(l)) = Turns(l)
    BY <1>3, <2>1, AtMostTurns, TurnsEqual
  <2>3. Prints(l, l.first, l.bound + l.step.by, l.step.by)
    BY <1>3, NormaliseAtMost
  <2> QED
    BY <1>1, <2>2, <2>3, SameIterations DEF Prints
<1>4. CASE l.op = "!="
  <2>1. Meets(l) /\ l.step.by > 0
    BY <1>1, <1>4 DEF Regular, Towards
  <2>2. Turns(Normalise(l)) = Turns(l)
    BY <1>4, <2>1, UnequalTurns
  <2>3. Prints(l, l.first, l.bound, l.step.by)
    BY <1>4, <2>1, NormaliseUnequal
  <2> QED
    BY <1>1, <2>2, <2>3, SameIterations DEF Prints
<1>5. CASE l.op = ">="
  <2>1. Meets(l) /\ l.step.by < 0 /\ l.step.form # "compound"
    BY <1>1, <1>5 DEF Regular, Towards
  <2> QED
    BY <1>1, <1>5, <2>1, AtLeastIterations
<1> QED
  BY <1>2, <1>3, <1>4, <1>5 DEF Regular

-------------------------------------------------------------------------------
(***************************************************************************)
(* A loop that goes by one has as many iterations as turns.                *)
(***************************************************************************)
LEMMA IterationsCount ==
  ASSUME NEW l, l.first \in Int, l.step.by \in {1, -1}
  PROVE  Cardinality(Iterations(l)) = Cardinality(Turns(l))
<1> DEFINE later == IF l.place = "first" THEN 1 ELSE 0
           f == [n \in Turns(l) |-> l.first + (n + later) * l.step.by]
<1>1. Turns(l) \in SUBSET (0 .. Limit) /\ IsFiniteSet(Turns(l))
  <2>1. Turns(l) \in SUBSET (0 .. Limit)
    BY DEF Turns
  <2>2. IsFiniteSet(0 .. Limit)
    BY HeaderAssumption, FS_Interval
  <2> QED
    BY <2>1, <2>2, FS_Subset
<1>2. ASSUME NEW n \in Turns(l)
      PROVE  /\ n \in Int
             /\ Turn(l, IF l.place = "first" THEN n + 1 ELSE n) = f[n]
  BY <1>1 DEF Turn
<1>3. Iterations(l) = {f[n] : n \in Turns(l)}
  BY <1>2 DEF Iterations
<1>4. ASSUME NEW a \in Turns(l), NEW b \in Turns(l), f[a] = f[b] PROVE a = b
  <2>1. a \in Int /\ b \in Int /\ later \in Int
    BY <1>1
  <2> HIDE DEF later
  <2>2. l.first + (a + later) * l.step.by = l.first + (b + later) * l.step.by
    BY <1>4
  <2>3. CASE l.step.by = 1
    <3>1. \A x \in Int : x * l.step.by = x
      BY <2>3
    <3>2. /\ a + later \in Int /\ (a + later) * l.step.by = a + later
          /\ b + later \in Int /\ (b + later) * l.step.by = b + later
      BY <2>1, <3>1
    <3> QED
      BY <2>1, <2>2, <3>2
  <2>4. CASE l.step.by = -1
    <3>1. \A x \in Int : x * l.step.by = -x
      BY <2>4, MinusOne
    <3>2. /\ a + later \in Int /\ (a + later) * l.step.by = -(a + later)
          /\ b + later \in Int /\ (b + later) * l.step.by = -(b + later)
      BY <2>1, <3>1
    <3> QED
      BY <2>1, <2>2, <3>2
  <2> QED
    BY <2>3, <2>4
<1>5. f \in Bijection(Turns(l), Iterations(l))
  <2> HIDE DEF f
  <2>1. DOMAIN f = Turns(l) /\ f = [n \in Turns(l) |-> f[n]]
    BY DEF f
  <2>2. f \in [Turns(l) -> Iterations(l)]
    BY <1>3, <2>1
  <2>3. \A t \in Iterations(l) : \E n \in Turns(l) : f[n] = t
    BY <1>3
  <2> QED
    BY <1>4, <2>2, <2>3, Fun_IsBij
<1>6. ExistsBijection(Turns(l), Iterations(l))
  BY <1>5 DEF ExistsBijection
<1> QED
  BY <1>1, <1>6, FS_Bijection

(***************************************************************************)
(* The normaliser keeps the number of turns of loops that go by one        *)
(* towards their bound.                                                    *)
(***************************************************************************)
LEMMA UnitTurns ==
  ASSUME NEW l \in Loop, Towards(l), l.op # "!=", l.step.form # "compound",
         l.step.by \in {1, -1}
  PROVE  /\ Turns(Normalise(l)) = Turns(l)
         /\ Normalise(l).first \in Int /\ Normalise(l).step.by \in {1, -1}
<1> DEFINE N == Normalise(l)
<1>1. l.first \in Int /\ l.bound \in Int /\ l.op \in {"<", "<=", ">", ">=", "!="}
  BY LoopType
<1>2. CASE l.op = "<"
  BY <1>1, <1>2, NormaliseLess
<1>3. CASE l.op = "<="
  <2>1. l.step.by = 1
    BY <1>3 DEF Towards
  <2>2. Prints(l, l.first, l.bound + 1, 1)
    BY <1>3, <2>1, NormaliseAtMost
  <2>3. \A m \in 0 .. Limit : l.first + m * 1 < l.bound + 1 <=> l.first + m * 1 <= l.bound
    BY <1>1
  <2>4. SameTurns(l, N)
    BY <1>3, <2>1, <2>2, <2>3 DEF SameTurns, Prints, Turn, Test
  <2> QED
    BY <1>1, <2>2, <2>4, TurnsEqual DEF Prints
<1>4. CASE l.op = ">="
  <2>1. l.step.by = -1 /\ l.step.by \in Int
    BY <1>4 DEF Towards
  <2>2. Prints(l, l.bound, l.first + 1, 1)
    <3>1. -l.step.by = 1 /\ l.first - l.step.by = l.first + 1
      BY <1>1, <2>1, MinusOne
    <3> QED
      BY <1>4, <3>1, NormaliseAtLeast
  <2>3. \A m \in 0 .. Limit :
          l.bound + m * 1 < l.first + 1 <=> l.first + m * (-1) >= l.bound
    BY <1>1
  <2>4. SameTurns(l, N)
    BY <1>4, <2>1, <2>2, <2>3 DEF SameTurns, Prints, Turn, Test
  <2> QED
    BY <1>1, <2>2, <2>4, TurnsEqual DEF Prints
<1>5. CASE l.op = ">"
  <2>1. l.step.by = -1 /\ l.step.by \in Int
    BY <1>5 DEF Towards
  <2>2. Prints(l, l.bound, l.first, 1)
    <3>1. -l.step.by = 1
      BY <2>1, MinusOne
    <3> QED
      BY <1>5, <3>1, NormaliseGreater
  <2>3. \A m \in 0 .. Limit :
          l.bound + m * 1 < l.first <=> l.first + m * (-1) > l.bound
    BY <1>1
  <2>4. SameTurns(l, N)
    BY <1>5, <2>1, <2>2, <2>3 DEF SameTurns, Prints, Turn, Test
  <2> QED
    BY <1>1, <2>2, <2>4, TurnsEqual DEF Prints
<1> QED
  BY <1>1, <1>2, <1>3, <1>4, <1>5
-------------------------------------------------------------------------------
(***************************************************************************)
(* A block reads a loop right that goes up by one.                         *)
(***************************************************************************)
LEMMA BlockKeeps ==
  ASSUME NEW l, l.op = "<", l.step.by = 1,
         BlockOf(l).first = l.first, BlockOf(l).bound = l.bound,
         BlockOf(l).place = l.place, BlockOf(l).op = "<", BlockOf(l).step.by = 1
  PROVE  Iterations(BlockOf(l)) = Iterations(l)
<1>1. \A n : Turn(BlockOf(l), n) = Turn(l, n)
  BY DEF Turn
<1>2. Turns(BlockOf(l)) = Turns(l)
  BY <1>1 DEF Turns
<1> QED
  BY <1>1, <1>2 DEF Iterations

LEMMA BlockShape ==
  ASSUME NEW l \in Loop
  PROVE  /\ BlockOf(l).first = l.first /\ BlockOf(l).bound = l.bound
         /\ BlockOf(l).place = l.place /\ BlockOf(l).op = "<" /\ BlockOf(l).step.by = 1
BY DEF BlockOf, Loop

(***************************************************************************)
(* The normalised loop is a record of the same fields.                     *)
(***************************************************************************)
LEMMA NormaliseShape ==
  ASSUME NEW l \in Loop
  PROVE  /\ BlockOf(Normalise(l)).first = Normalise(l).first
         /\ BlockOf(Normalise(l)).bound = Normalise(l).bound
         /\ BlockOf(Normalise(l)).place = Normalise(l).place
         /\ BlockOf(Normalise(l)).op = "<"
         /\ BlockOf(Normalise(l)).step.by = 1
<1>1. CASE l.op = "<"
  BY <1>1, NormaliseLess, BlockShape
<1>2. CASE l.op # "<"
  BY <1>2 DEF Normalise, NormalOf, BlockOf
<1> QED
  BY <1>1, <1>2

(***************************************************************************)
(* A regular loop that goes by one is normalised to one that goes up by    *)
(* one.                                                                    *)
(***************************************************************************)
LEMMA UnitStep ==
  ASSUME NEW l \in Loop, Regular(l), l.step.by \in {1, -1}
  PROVE  Normalise(l).step.by = 1
<1>1. Towards(l)
  BY DEF Regular
<1>2. CASE l.op = "<"
  BY <1>1, <1>2, NormaliseLess DEF Towards
<1>3. CASE l.op = "<="
  BY <1>1, <1>3, NormaliseAtMost DEF Towards, Prints
<1>4. CASE l.op = "!="
  BY <1>1, <1>4, NormaliseUnequal DEF Towards, Prints
<1>5. CASE l.op = ">="
  <2>1. l.step.by = -1 /\ l.step.by \in Int
    BY <1>1, <1>5 DEF Towards
  <2>2. -l.step.by = 1
    BY <2>1, MinusOne
  <2> QED
    BY <1>5, <2>2, NormaliseAtLeast DEF Regular, Prints
<1> QED
  BY <1>2, <1>3, <1>4, <1>5 DEF Regular

-------------------------------------------------------------------------------
(***************************************************************************)
(* The inductive invariant: at each stage the loop is what the tools make  *)
(* of the loop that was written, and of nothing else.                      *)
(***************************************************************************)
Flow ==
  /\ source \in Loop
  /\ option \in BOOLEAN
  /\ \/ stage = "source" /\ loop = source
     \/ stage = "normalised" /\ option /\ loop = Normalise(source)
     \/ stage = "block" /\ option /\ loop = BlockOf(Normalise(source))
     \/ stage = "block" /\ ~option /\ loop = BlockOf(source)

(***************************************************************************)
(* A header is, at every stage, what the passes up to there make of the    *)
(* one that was written.                                                   *)
(***************************************************************************)
THEOREM FlowCorrect == Spec => []Flow
<1>1. Init => Flow
  BY DEF Init, Flow
<1>2. Flow /\ [Next]_vars => Flow'
  <2> SUFFICES ASSUME Flow, [Next]_vars PROVE Flow'
    OBVIOUS
  <2>1. CASE NormaliseFor
    BY <2>1 DEF NormaliseFor, Flow
  <2>2. CASE AnalyseFor
    BY <2>2 DEF AnalyseFor, Flow
  <2>3. CASE UNCHANGED vars
    BY <2>3 DEF vars, Flow
  <2> QED
    BY <2>1, <2>2, <2>3 DEF Next
<1> QED
  BY <1>1, <1>2, PTL DEF Spec

(***************************************************************************)
(* Behind the normaliser and in blocks every loop goes while i < bound.    *)
(***************************************************************************)
THEOREM TypeCorrect == Spec => []TypeOK
<1>1. ASSUME Flow PROVE TypeOK
  <2> USE DEF Flow, TypeOK
  <2>1. CASE stage = "source"
    BY <1>1, <2>1, LoopType
  <2>2. CASE stage = "normalised"
    BY <1>1, <2>2, NormaliseOp
  <2>3. CASE stage = "block" /\ option
    BY <1>1, <2>3, NormaliseOp, NormaliseShape
  <2>4. CASE stage = "block" /\ ~option
    <3>1. loop.op = "<" /\ loop.first = source.first /\ loop.bound = source.bound
          /\ loop.place = source.place
      BY <1>1, <2>4, BlockShape
    <3> QED
      BY <1>1, <2>4, <3>1, LoopType
  <2> QED
    BY <1>1, <2>1, <2>2, <2>3, <2>4
<1>2. Flow => TypeOK
  BY <1>1
<1> QED
  BY <1>2, FlowCorrect, PTL

(***************************************************************************)
(* The normalised loop does its work for the values of i of the loop that  *)
(* was written, for every regular loop.                                    *)
(***************************************************************************)
THEOREM IterationsKeptCorrect == Spec => []IterationsKept
<1>1. Flow => IterationsKept
  BY NormaliseKeeps DEF Flow, IterationsKept
<1> QED
  BY <1>1, FlowCorrect, PTL

(***************************************************************************)
(* A loop that goes by one towards its bound is run as often as before,    *)
(* also with >, and wherever its step is written.                          *)
(***************************************************************************)
THEOREM CountKeptCorrect == Spec => []CountKept
<1>1. Flow => CountKept
  <2> SUFFICES ASSUME Flow, stage = "normalised", Towards(source),
                      source.op # "!=", source.step.form # "compound",
                      source.step.by \in {1, -1}
               PROVE  Cardinality(Iterations(loop)) = Cardinality(Iterations(source))
    BY DEF CountKept
  <2>1. source \in Loop /\ loop = Normalise(source)
    BY DEF Flow
  <2>2. /\ Turns(loop) = Turns(source)
        /\ loop.first \in Int /\ loop.step.by \in {1, -1}
    BY <2>1, UnitTurns
  <2>3. Cardinality(Iterations(loop)) = Cardinality(Turns(loop))
    BY <2>2, IterationsCount
  <2>4. Cardinality(Iterations(source)) = Cardinality(Turns(source))
    BY <2>1, LoopType, IterationsCount
  <2> QED
    BY <2>2, <2>3, <2>4
<1> QED
  BY <1>1, FlowCorrect, PTL

(***************************************************************************)
(* A block runs the iterations of the loop it stands for, if that loop was *)
(* readable or the normaliser made it so.                                  *)
(***************************************************************************)
THEOREM BlockRunsLoopCorrect == Spec => []BlockRunsLoop
<1>1. Flow => BlockRunsLoop
  <2> SUFFICES ASSUME Flow, stage = "block",
                      Readable(source) \/ (option /\ Regular(source) /\ source.step.by \in {1, -1})
               PROVE  Iterations(loop) = Iterations(source)
    BY DEF BlockRunsLoop
  <2>1. CASE option /\ Regular(source) /\ source.step.by \in {1, -1}
    <3> DEFINE N == Normalise(source)
    <3>1. source \in Loop /\ loop = BlockOf(N)
      BY <2>1 DEF Flow
    <3>2. N.op = "<" /\ N.step.by = 1
      BY <2>1, <3>1, NormaliseOp, UnitStep
    <3>3. Iterations(BlockOf(N)) = Iterations(N)
      BY <3>1, <3>2, NormaliseShape, BlockKeeps
    <3> QED
      BY <2>1, <3>1, <3>3, NormaliseKeeps
  <2>2. CASE Readable(source)
    <3>1. source \in Loop /\ Normalise(source) = source
      BY <2>2, NormaliseLess DEF Flow, Readable
    <3>2. loop = BlockOf(source)
      BY <3>1 DEF Flow
    <3> QED
      BY <2>2, <3>1, <3>2, NormaliseShape, BlockKeeps DEF Readable
  <2> QED
    BY <2>1, <2>2
<1> QED
  BY <1>1, FlowCorrect, PTL

-------------------------------------------------------------------------------
(***************************************************************************)
(* The blocks of MCBlocks, on every loop: each is proved in the module of  *)
(* its kind, here for the constants that MCBlocks gives it.                *)
(***************************************************************************)
DynamicProofs == INSTANCE OldDynamicFarmProofs
FewProofs == INSTANCE DynamicFarmProofs WITH
  Fixed <- TRUE, Number <- Bound - 4, NumIn <- 1,
  Operation <- "+", value <- 0, partial <- 0, posted <- 0
StaticProofs == INSTANCE OldStaticFarmProofs WITH Inputs <- 1, Outputs <- 2, Reduced <- 0
WideProofs == INSTANCE OldStaticFarmProofs WITH Inputs <- 2, Outputs <- 1, Reduced <- 1

(***************************************************************************)
(* The two old blocks and the chunk size of the block with few chunks are  *)
(* as their modules suppose.                                               *)
(***************************************************************************)
LoopFits == DynamicProofs!SeedsFit /\ DynamicProofs!RestIsShorter /\ Bound > 4

LEMMA FewAssumption == ASSUME LoopFits PROVE Bound - 4 \in Nat \ {0} /\ TRUE \in BOOLEAN /\ 1 \in Nat
BY BlockAssumption DEF LoopFits

LEMMA Printed == ASSUME LoopFits PROVE StaticProofs!BlockIsPrinted /\ WideProofs!BlockIsPrinted
<1>1. Bound \in Int /\ Start \in Int /\ W \in Nat /\ DynamicProofs!InitPart \in Nat
  BY BlockAssumption, ChunksAssumption, DynamicProofs!PartNat
<1>2. W * DynamicProofs!InitPart \in Nat
  BY <1>1
<1>3. Start <= Bound
  BY <1>1, <1>2 DEF LoopFits, DynamicProofs!SeedsFit
<1> QED
  BY <1>3, ChunksAssumption DEF StaticProofs!BlockIsPrinted, WideProofs!BlockIsPrinted

LEMMA FewMaster == ASSUME Few!Master PROVE FewProofs!Master
BY DEF Few!Master, FewProofs!Master, Few!Seed, FewProofs!Seed, Few!EndSeed,
       FewProofs!EndSeed, Few!ServeChunk, FewProofs!ServeChunk, Few!ServeRead,
       FewProofs!ServeRead, Few!GrantRest, FewProofs!GrantRest, Few!NothingLeft,
       FewProofs!NothingLeft, Few!AnswerRead, FewProofs!AnswerRead, Few!Element,
       FewProofs!Element, Few!Send, FewProofs!Send, Few!Chunk, FewProofs!Chunk,
       Few!Stop, FewProofs!Stop, Few!HandOut, FewProofs!HandOut, Few!GrantFull,
       FewProofs!GrantFull, Few!Dismiss, FewProofs!Dismiss, Few!DismissIfPast,
       FewProofs!DismissIfPast, Few!AllKilled, FewProofs!AllKilled, Few!Slave,
       FewProofs!Slave, Few!slaveVars, FewProofs!slaveVars, Few!farmVars,
       FewProofs!farmVars, Few!Drop, FewProofs!Drop, Few!Bump, FewProofs!Bump,
       Few!Slice, FewProofs!Slice, Few!Arrived, FewProofs!Arrived

LEMMA FewSlave == ASSUME NEW s \in Slave, Few!SlaveStep(s) PROVE FewProofs!SlaveStep(s)
BY DEF Few!SlaveStep, FewProofs!SlaveStep, Few!TakeChunk, FewProofs!TakeChunk,
       Few!SlaveStart, FewProofs!SlaveStart, Few!SlaveIterate,
       FewProofs!SlaveIterate, Few!Answer, FewProofs!Answer, Few!SlaveReply,
       FewProofs!SlaveReply, Few!SlaveStop, FewProofs!SlaveStop, Few!SlaveRead,
       FewProofs!SlaveRead, Few!SlaveGot, FewProofs!SlaveGot, Few!InChunk,
       FewProofs!InChunk, Few!Result, FewProofs!Result, Few!Chunk, FewProofs!Chunk,
       Few!Send, FewProofs!Send, Few!Drop, FewProofs!Drop, Few!Bump, FewProofs!Bump,
       Few!Arrived, FewProofs!Arrived, Few!slaveVars, FewProofs!slaveVars,
       Few!farmVars, FewProofs!farmVars, Few!Element, FewProofs!Element

LEMMA DynamicMaster == ASSUME Dynamic!Master PROVE DynamicProofs!Master
BY DEF Dynamic!Master, DynamicProofs!Master, Dynamic!Seed, DynamicProofs!Seed,
       Dynamic!EndSeed, DynamicProofs!EndSeed, Dynamic!ServeChunk,
       DynamicProofs!ServeChunk, Dynamic!GrantRest, DynamicProofs!GrantRest,
       Dynamic!RestIsShort, DynamicProofs!RestIsShort, Dynamic!NoGrant,
       DynamicProofs!NoGrant, Dynamic!Send, DynamicProofs!Send, Dynamic!Chunk,
       DynamicProofs!Chunk, Dynamic!Stop, DynamicProofs!Stop, Dynamic!HandOut,
       DynamicProofs!HandOut, Dynamic!GrantFull, DynamicProofs!GrantFull,
       Dynamic!Dismiss, DynamicProofs!Dismiss, Dynamic!DismissIfPast,
       DynamicProofs!DismissIfPast, Dynamic!AllKilled, DynamicProofs!AllKilled,
       Dynamic!Slave, DynamicProofs!Slave, Dynamic!slaveVars,
       DynamicProofs!slaveVars, Dynamic!farmVars, DynamicProofs!farmVars,
       Dynamic!Drop, DynamicProofs!Drop, Dynamic!Bump, DynamicProofs!Bump,
       Dynamic!Slice, DynamicProofs!Slice, Dynamic!Arrived,
       DynamicProofs!Arrived

LEMMA DynamicSlave == ASSUME NEW s \in Slave, Dynamic!SlaveStep(s) PROVE DynamicProofs!SlaveStep(s)
BY DEF Dynamic!SlaveStep, DynamicProofs!SlaveStep, Dynamic!TakeChunk,
       DynamicProofs!TakeChunk, Dynamic!SlaveStart, DynamicProofs!SlaveStart,
       Dynamic!SlaveIterate, DynamicProofs!SlaveIterate, Dynamic!Answer,
       DynamicProofs!Answer, Dynamic!SlaveReply, DynamicProofs!SlaveReply,
       Dynamic!SlaveStop, DynamicProofs!SlaveStop, Dynamic!InChunk,
       DynamicProofs!InChunk, Dynamic!Result, DynamicProofs!Result,
       Dynamic!Chunk, DynamicProofs!Chunk, Dynamic!Send, DynamicProofs!Send,
       Dynamic!Drop, DynamicProofs!Drop, Dynamic!Bump, DynamicProofs!Bump,
       Dynamic!Arrived, DynamicProofs!Arrived, Dynamic!slaveVars,
       DynamicProofs!slaveVars, Dynamic!farmVars, DynamicProofs!farmVars

LEMMA StaticMaster == ASSUME Static!Master PROVE StaticProofs!Master
BY DEF Static!Master, StaticProofs!Master, Static!Seed, StaticProofs!Seed,
       Static!EndSeed, StaticProofs!EndSeed, Static!Collect, StaticProofs!Collect,
       Static!StopAll, StaticProofs!StopAll, Static!Parameters,
       StaticProofs!Parameters, Static!SentOffset, StaticProofs!SentOffset,
       Static!OwnSize, StaticProofs!OwnSize, Static!StaticSize,
       StaticProofs!StaticSize, Static!OldStaticOffset,
       StaticProofs!OldStaticOffset, Static!ChunkSize, StaticProofs!ChunkSize,
       Static!Quotient, StaticProofs!Quotient, Static!Remainder,
       StaticProofs!Remainder, Static!Total, StaticProofs!Total, Static!PerRound,
       StaticProofs!PerRound, Static!PerAnswer, StaticProofs!PerAnswer,
       Static!Stored, StaticProofs!Stored, Static!StoredOffset,
       StaticProofs!StoredOffset, Static!StoredSize, StaticProofs!StoredSize,
       Static!Stop, StaticProofs!Stop, Static!Chunk, StaticProofs!Chunk,
       Static!Bump, StaticProofs!Bump, Static!Slice, StaticProofs!Slice,
       Static!Slave, StaticProofs!Slave, Static!slaveVars, StaticProofs!slaveVars,
       Static!extraVars, StaticProofs!extraVars

LEMMA StaticSlave == ASSUME NEW s \in Slave, Static!SlaveStep(s) PROVE StaticProofs!SlaveStep(s)
BY DEF Static!SlaveStep, StaticProofs!SlaveStep, Static!Receive,
       StaticProofs!Receive, Static!TakeShare, StaticProofs!TakeShare, Static!Leave,
       StaticProofs!Leave, Static!LastOfRound, StaticProofs!LastOfRound,
       Static!Work, StaticProofs!Work, Static!Answers, StaticProofs!Answers,
       Static!PerRound, StaticProofs!PerRound, Static!PerAnswer,
       StaticProofs!PerAnswer, Static!OwnOffset, StaticProofs!OwnOffset,
       Static!OwnSize, StaticProofs!OwnSize, Static!StaticSize,
       StaticProofs!StaticSize, Static!OldStaticOffset,
       StaticProofs!OldStaticOffset, Static!Quotient, StaticProofs!Quotient,
       Static!Remainder, StaticProofs!Remainder, Static!Total, StaticProofs!Total,
       Static!SlaveStart, StaticProofs!SlaveStart, Static!SlaveIterate,
       StaticProofs!SlaveIterate, Static!SlaveReply, StaticProofs!SlaveReply,
       Static!SlaveStop, StaticProofs!SlaveStop, Static!InChunk,
       StaticProofs!InChunk, Static!Result, StaticProofs!Result, Static!Chunk,
       StaticProofs!Chunk, Static!Drop, StaticProofs!Drop, Static!Bump,
       StaticProofs!Bump, Static!Arrived, StaticProofs!Arrived, Static!slaveVars,
       StaticProofs!slaveVars, Static!extraVars, StaticProofs!extraVars

LEMMA WideMaster == ASSUME Wide!Master PROVE WideProofs!Master
BY DEF Wide!Master, WideProofs!Master, Wide!Seed, WideProofs!Seed, Wide!EndSeed,
       WideProofs!EndSeed, Wide!Collect, WideProofs!Collect, Wide!StopAll,
       WideProofs!StopAll, Wide!Parameters, WideProofs!Parameters, Wide!SentOffset,
       WideProofs!SentOffset, Wide!OwnSize, WideProofs!OwnSize, Wide!StaticSize,
       WideProofs!StaticSize, Wide!OldStaticOffset, WideProofs!OldStaticOffset,
       Wide!ChunkSize, WideProofs!ChunkSize, Wide!Quotient, WideProofs!Quotient,
       Wide!Remainder, WideProofs!Remainder, Wide!Total, WideProofs!Total,
       Wide!PerRound, WideProofs!PerRound, Wide!PerAnswer, WideProofs!PerAnswer,
       Wide!Stored, WideProofs!Stored, Wide!StoredOffset, WideProofs!StoredOffset,
       Wide!StoredSize, WideProofs!StoredSize, Wide!Stop, WideProofs!Stop,
       Wide!Chunk, WideProofs!Chunk, Wide!Bump, WideProofs!Bump, Wide!Slice,
       WideProofs!Slice, Wide!Slave, WideProofs!Slave, Wide!slaveVars,
       WideProofs!slaveVars, Wide!extraVars, WideProofs!extraVars

LEMMA WideSlave == ASSUME NEW s \in Slave, Wide!SlaveStep(s) PROVE WideProofs!SlaveStep(s)
BY DEF Wide!SlaveStep, WideProofs!SlaveStep, Wide!Receive, WideProofs!Receive,
       Wide!TakeShare, WideProofs!TakeShare, Wide!Leave, WideProofs!Leave,
       Wide!LastOfRound, WideProofs!LastOfRound, Wide!Work, WideProofs!Work,
       Wide!Answers, WideProofs!Answers, Wide!PerRound, WideProofs!PerRound,
       Wide!PerAnswer, WideProofs!PerAnswer, Wide!OwnOffset, WideProofs!OwnOffset,
       Wide!OwnSize, WideProofs!OwnSize, Wide!StaticSize, WideProofs!StaticSize,
       Wide!OldStaticOffset, WideProofs!OldStaticOffset, Wide!Quotient,
       WideProofs!Quotient, Wide!Remainder, WideProofs!Remainder, Wide!Total,
       WideProofs!Total, Wide!SlaveStart, WideProofs!SlaveStart, Wide!SlaveIterate,
       WideProofs!SlaveIterate, Wide!SlaveReply, WideProofs!SlaveReply,
       Wide!SlaveStop, WideProofs!SlaveStop, Wide!InChunk, WideProofs!InChunk,
       Wide!Result, WideProofs!Result, Wide!Chunk, WideProofs!Chunk, Wide!Drop,
       WideProofs!Drop, Wide!Bump, WideProofs!Bump, Wide!Arrived,
       WideProofs!Arrived, Wide!slaveVars, WideProofs!slaveVars, Wide!extraVars,
       WideProofs!extraVars

(***************************************************************************)
(* Every step is one of the chosen block.                                  *)
(***************************************************************************)
LEMMA BlockStep ==
  ASSUME [MCNext]_allVars
  PROVE  /\ which' = which
         /\ which = "few" => [FewProofs!Next]_(FewProofs!vars)
         /\ which = "dynamic" => [DynamicProofs!Next]_(DynamicProofs!vars)
         /\ which = "static" => [StaticProofs!Next]_(StaticProofs!vars)
         /\ which = "wide" => [WideProofs!Next]_(WideProofs!vars)
<1>1. CASE MCMaster
  BY <1>1, FewMaster, DynamicMaster, StaticMaster, WideMaster
     DEF MCMaster, FewProofs!Next, DynamicProofs!Next, StaticProofs!Next, WideProofs!Next
<1>2. ASSUME NEW s \in Slave, MCSlaveStep(s)
      PROVE  /\ which' = which
             /\ which = "few" => FewProofs!Next
             /\ which = "dynamic" => DynamicProofs!Next
             /\ which = "static" => StaticProofs!Next
             /\ which = "wide" => WideProofs!Next
  BY <1>2, FewSlave, DynamicSlave, StaticSlave, WideSlave
     DEF MCSlaveStep, FewProofs!Next, DynamicProofs!Next, StaticProofs!Next, WideProofs!Next,
         FewProofs!Slave, DynamicProofs!Slave, StaticProofs!Slave, WideProofs!Slave, Slave
<1>3. CASE UNCHANGED allVars
  BY <1>3 DEF allVars, blockVars, slaveVars, farmVars, staticVars,
              DynamicProofs!vars, DynamicProofs!blockVars, DynamicProofs!slaveVars,
              DynamicProofs!farmVars,
              FewProofs!vars, FewProofs!blockVars, FewProofs!slaveVars, FewProofs!farmVars,
              StaticProofs!vars, StaticProofs!blockVars, StaticProofs!slaveVars,
              StaticProofs!extraVars, WideProofs!vars, WideProofs!blockVars,
              WideProofs!slaveVars, WideProofs!extraVars
<1> QED
  BY <1>1, <1>2, <1>3 DEF MCNext, MCFinished

(***************************************************************************)
(* The invariant of the chosen block.  The shares of the static ones are   *)
(* those of the loop only if it begins with 0.                             *)
(***************************************************************************)
BlockCorrect ==
  /\ which \in {"few", "dynamic", "static", "wide"}
  /\ which = "few" => FewProofs!Inductive
  /\ which = "dynamic" => DynamicProofs!Mapped
  /\ which = "static" => StaticProofs!Stages /\ (Start = 0 => StaticProofs!Inductive)
  /\ which = "wide" => WideProofs!Stages /\ (Start = 0 => WideProofs!Inductive)

LEMMA InitBlock == ASSUME LoopFits PROVE MCInit => BlockCorrect
<1> SUFFICES ASSUME MCInit PROVE BlockCorrect
  OBVIOUS
<1>1. Static!Init => StaticProofs!Init /\ WideProofs!Init
  BY DEF Static!Init, StaticProofs!Init, WideProofs!Init, Static!BlockInit,
         StaticProofs!BlockInit, WideProofs!BlockInit, Static!Slave, StaticProofs!Slave,
         WideProofs!Slave, Static!Iteration, StaticProofs!Iteration, WideProofs!Iteration
<1>2. Few!Init => FewProofs!Init
  BY DEF Few!Init, FewProofs!Init, Few!BlockInit, FewProofs!BlockInit, Few!Slave,
         FewProofs!Slave, Few!Iteration, FewProofs!Iteration, Few!InitPart,
         FewProofs!InitPart, Few!ChunkSize, FewProofs!ChunkSize, Few!Quotient,
         FewProofs!Quotient, Few!Total, FewProofs!Total
<1>3. which = "few" => FewProofs!Inductive
  BY <1>2, FewAssumption, BlockAssumption, FewProofs!InitInductive DEF MCInit
<1>4. which = "dynamic" => DynamicProofs!Mapped
  <2>1. Dynamic!Init => DynamicProofs!Init
    BY DEF Dynamic!Init, DynamicProofs!Init, Dynamic!BlockInit, DynamicProofs!BlockInit,
           Dynamic!Slave, DynamicProofs!Slave, Dynamic!Iteration, DynamicProofs!Iteration,
           Dynamic!InitPart, DynamicProofs!InitPart, Dynamic!ChunkSize,
           DynamicProofs!ChunkSize, Dynamic!Quotient, DynamicProofs!Quotient,
           Dynamic!Total, DynamicProofs!Total
  <2> QED
    BY <2>1, BlockAssumption, ChunksAssumption, DynamicProofs!InitMapped DEF MCInit, LoopFits
<1>5. StaticProofs!Stages /\ WideProofs!Stages
  BY <1>1, Printed, BlockAssumption, StaticProofs!InitStages, WideProofs!InitStages DEF MCInit
<1>6. Start = 0 => StaticProofs!Inductive /\ WideProofs!Inductive
  BY <1>1, Printed, BlockAssumption, StaticProofs!InitInductive, WideProofs!InitInductive
     DEF MCInit, StaticProofs!FromZero, WideProofs!FromZero
<1> QED
  BY <1>3, <1>4, <1>5, <1>6 DEF MCInit, BlockCorrect

LEMMA NextBlock ==
  ASSUME LoopFits, BlockCorrect, [MCNext]_allVars PROVE BlockCorrect'
<1>1. which = "few" => FewProofs!Inductive'
  BY BlockStep, FewAssumption, BlockAssumption, FewProofs!NextInductive DEF BlockCorrect
<1>2. which = "dynamic" => DynamicProofs!Mapped'
  BY BlockStep, BlockAssumption, ChunksAssumption, DynamicProofs!NextMapped
     DEF BlockCorrect, LoopFits
<1>3. which = "static" => StaticProofs!Stages'
  BY BlockStep, Printed, BlockAssumption, StaticProofs!NextStages DEF BlockCorrect
<1>4. which = "wide" => WideProofs!Stages'
  BY BlockStep, Printed, BlockAssumption, WideProofs!NextStages DEF BlockCorrect
<1>5. which = "static" /\ Start = 0 => StaticProofs!Inductive'
  BY BlockStep, Printed, BlockAssumption, StaticProofs!NextInductive
     DEF BlockCorrect, StaticProofs!FromZero
<1>6. which = "wide" /\ Start = 0 => WideProofs!Inductive'
  BY BlockStep, Printed, BlockAssumption, WideProofs!NextInductive
     DEF BlockCorrect, WideProofs!FromZero
<1> QED
  BY <1>1, <1>2, <1>3, <1>4, <1>5, <1>6, BlockStep DEF BlockCorrect

(***************************************************************************)
(* The block that was chosen satisfies the invariant of its own module, on *)
(* the variables that all four share.                                      *)
(***************************************************************************)
THEOREM BlockCorrectAlways == ASSUME LoopFits PROVE MCSpec => []BlockCorrect
<1>1. MCInit => BlockCorrect
  BY InitBlock
<1>2. BlockCorrect /\ [MCNext]_allVars => BlockCorrect'
  BY NextBlock
<1> QED
  BY <1>1, <1>2, PTL DEF MCSpec

(***************************************************************************)
(* Both dynamic blocks give every iteration to exactly one slave or to the *)
(* master.                                                                 *)
(***************************************************************************)
THEOREM DynamicOneHolderCorrect == ASSUME LoopFits PROVE MCSpec => []DynamicOneHolder
<1>1. ASSUME FewProofs!Inductive PROVE Few!OneHolder
  <2>1. FewProofs!OneHolder
    BY <1>1, FewAssumption, BlockAssumption, FewProofs!InductiveOneHolder
  <2> QED
    BY <2>1 DEF FewProofs!OneHolder, Few!OneHolder, FewProofs!Holders, Few!Holders,
                FewProofs!Holds, Few!Holds, FewProofs!Granted, Few!Granted,
                FewProofs!Working, Few!Working, FewProofs!Returned, Few!Returned,
                FewProofs!Replied, Few!Replied, FewProofs!Asks, Few!Asks,
                FewProofs!Covers, Few!Covers, FewProofs!Slice, Few!Slice,
                FewProofs!Arrived, Few!Arrived, FewProofs!Slave, Few!Slave,
                FewProofs!Iteration, Few!Iteration, FewProofs!Cardinality, Few!Cardinality
<1>2. ASSUME LoopFits, DynamicProofs!Mapped PROVE Dynamic!OneHolder
  <2>1. DynamicProofs!OneHolder
    BY <1>2, BlockAssumption, ChunksAssumption, DynamicProofs!MappedOneHolder
  <2> QED
    BY <2>1 DEF DynamicProofs!OneHolder, Dynamic!OneHolder, DynamicProofs!Holders,
                Dynamic!Holders, DynamicProofs!Holds, Dynamic!Holds,
                DynamicProofs!Granted, Dynamic!Granted, DynamicProofs!Working,
                Dynamic!Working, DynamicProofs!Returned, Dynamic!Returned,
                DynamicProofs!Replied, Dynamic!Replied, DynamicProofs!Asks,
                Dynamic!Asks, DynamicProofs!Covers, Dynamic!Covers,
                DynamicProofs!Slice, Dynamic!Slice, DynamicProofs!Arrived,
                Dynamic!Arrived, DynamicProofs!Slave, Dynamic!Slave,
                DynamicProofs!Iteration, Dynamic!Iteration,
                DynamicProofs!Cardinality, Dynamic!Cardinality
<1>3. BlockCorrect => DynamicOneHolder
  BY <1>1, <1>2 DEF BlockCorrect, DynamicOneHolder
<1> QED
  BY <1>3, BlockCorrectAlways, PTL

(***************************************************************************)
(* In both static blocks what a slave runs lies where the master stores it.*)
(***************************************************************************)
THEOREM StaticSharesAgreeCorrect == ASSUME LoopFits PROVE MCSpec => []StaticSharesAgree
<1>1. ASSUME which = "static", StaticProofs!Stages PROVE Static!SharesAgree
  <2>1. StaticProofs!SharesAgree
    BY <1>1, Printed, BlockAssumption, StaticProofs!StagesSharesAgree
  <2> QED
    BY <2>1 DEF StaticProofs!SharesAgree, Static!SharesAgree, StaticProofs!Slave,
                Static!Slave, StaticProofs!Working, Static!Working, StaticProofs!Slice,
                Static!Slice, StaticProofs!Stored, Static!Stored,
                StaticProofs!StoredOffset, Static!StoredOffset, StaticProofs!StoredSize,
                Static!StoredSize, StaticProofs!OldStaticOffset, Static!OldStaticOffset,
                StaticProofs!StaticSize, Static!StaticSize, StaticProofs!Quotient,
                Static!Quotient, StaticProofs!Remainder, Static!Remainder,
                StaticProofs!Total, Static!Total
<1>2. ASSUME which = "wide", WideProofs!Stages PROVE Static!SharesAgree
  <2>1. WideProofs!SharesAgree
    BY <1>2, Printed, BlockAssumption, WideProofs!StagesSharesAgree
  <2> QED
    BY <2>1 DEF WideProofs!SharesAgree, Static!SharesAgree, WideProofs!Slave,
                Static!Slave, WideProofs!Working, Static!Working, WideProofs!Slice,
                Static!Slice, WideProofs!Stored, Static!Stored, WideProofs!StoredOffset,
                Static!StoredOffset, WideProofs!StoredSize, Static!StoredSize,
                WideProofs!OldStaticOffset, Static!OldStaticOffset,
                WideProofs!StaticSize, Static!StaticSize, WideProofs!Quotient,
                Static!Quotient, WideProofs!Remainder, Static!Remainder,
                WideProofs!Total, Static!Total
<1>3. BlockCorrect => StaticSharesAgree
  BY <1>1, <1>2 DEF BlockCorrect, StaticSharesAgree
<1> QED
  BY <1>3, BlockCorrectAlways, PTL

(***************************************************************************)
(* Every one of the blocks is a parallel loop at every step; the static    *)
(* ones if the loop begins with 0.                                         *)
(***************************************************************************)
LEMMA BlockStepRefines ==
  ASSUME LoopFits, Start = 0, BlockCorrect, BlockCorrect', [MCNext]_allVars
  PROVE  [For!ForNext]_(For!forVars)
<1>1. ASSUME which = "few" PROVE [For!ForNext]_(For!forVars)
  <2>1. [FewProofs!For!ForNext]_(FewProofs!For!forVars)
    BY <1>1, BlockStep, FewAssumption, BlockAssumption, FewProofs!StepRefines
       DEF BlockCorrect
  <2> QED
    BY <2>1
       DEF FewProofs!For!ForNext, For!ForNext, FewProofs!For!forVars,
           For!forVars, FewProofs!For!Execute, For!Execute,
           FewProofs!For!Publish, For!Publish, FewProofs!For!Join, For!Join,
           FewProofs!For!Ready, For!Ready, FewProofs!For!Shown, For!Shown,
           FewProofs!Iteration, Iteration
<1>2. ASSUME which = "dynamic" PROVE [For!ForNext]_(For!forVars)
  <2>1. [DynamicProofs!For!ForNext]_(DynamicProofs!For!forVars)
    BY <1>2, BlockStep, BlockAssumption, ChunksAssumption, DynamicProofs!StepRefines
       DEF BlockCorrect, LoopFits
  <2> QED
    BY <2>1
       DEF DynamicProofs!For!ForNext, For!ForNext, DynamicProofs!For!forVars,
           For!forVars, DynamicProofs!For!Execute, For!Execute,
           DynamicProofs!For!Publish, For!Publish, DynamicProofs!For!Join, For!Join,
           DynamicProofs!For!Ready, For!Ready, DynamicProofs!For!Shown, For!Shown,
           DynamicProofs!Iteration, Iteration
<1>3. ASSUME which = "static" PROVE [For!ForNext]_(For!forVars)
  <2>1. [StaticProofs!For!ForNext]_(StaticProofs!For!forVars)
    BY <1>3, BlockStep, Printed, BlockAssumption, StaticProofs!StepRefines
       DEF BlockCorrect, StaticProofs!FromZero
  <2> QED
    BY <2>1
       DEF StaticProofs!For!ForNext, For!ForNext, StaticProofs!For!forVars,
           For!forVars, StaticProofs!For!Execute, For!Execute,
           StaticProofs!For!Publish, For!Publish, StaticProofs!For!Join,
           For!Join, StaticProofs!For!Ready, For!Ready, StaticProofs!For!Shown,
           For!Shown, StaticProofs!Iteration, Iteration
<1>4. ASSUME which = "wide" PROVE [For!ForNext]_(For!forVars)
  <2>1. [WideProofs!For!ForNext]_(WideProofs!For!forVars)
    BY <1>4, BlockStep, Printed, BlockAssumption, WideProofs!StepRefines
       DEF BlockCorrect, WideProofs!FromZero
  <2> QED
    BY <2>1
       DEF WideProofs!For!ForNext, For!ForNext, WideProofs!For!forVars,
           For!forVars, WideProofs!For!Execute, For!Execute,
           WideProofs!For!Publish, For!Publish, WideProofs!For!Join, For!Join,
           WideProofs!For!Ready, For!Ready, WideProofs!For!Shown, For!Shown,
           WideProofs!Iteration, Iteration
<1> QED
  BY <1>1, <1>2, <1>3, <1>4 DEF BlockCorrect

(***************************************************************************)
(* Each of the four blocks is a parallel loop, as long as the loop begins  *)
(* with 0.                                                                 *)
(***************************************************************************)
THEOREM BlocksRefine ==
  ASSUME LoopFits, Start = 0 PROVE MCSpec => ImplementsParallelFor
<1>1. MCInit => For!ForInit
  BY DEF MCInit, Static!Init, Static!BlockInit, For!ForInit, Static!Iteration, Iteration
<1>2. BlockCorrect /\ BlockCorrect' /\ [MCNext]_allVars => [For!ForNext]_(For!forVars)
  BY BlockStepRefines
<1> QED
  BY <1>1, <1>2, BlockCorrectAlways, PTL DEF MCSpec, ImplementsParallelFor, For!ForSpec
===============================================================================
