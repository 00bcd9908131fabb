------------------------------- MODULE LoopHeader -------------------------------
(***************************************************************************)
(* The headers of for loops on their way through the tools: the loop       *)
(* normaliser (option -z) rewrites                                         *)
(*     for (i = first; i op bound; step) body                              *)
(* into a loop that goes up while i < bound, and OMP2MPI takes the first   *)
(* value and the bound of a parallel loop out of the texts of its header   *)
(* and cuts the range between them into chunks.  Both work on texts; here  *)
(* a text is what it stands for, a number, an operation or a step.         *)
(***************************************************************************)
EXTENDS Integers, FiniteSets

CONSTANTS
  Ends,      \* values of first and bound
  Strides,   \* what is added or taken away by one step
  Limit      \* a loop with more iterations does not end

ASSUME HeaderAssumption ==
  /\ Ends \subseteq Int
  /\ Strides \subseteq Nat \ {0}
  /\ Limit \in Nat

VARIABLES
  source,    \* the loop as it was written
  loop,      \* the loop now
  stage,     \* "source", "normalised" or "block"
  option     \* the program is run with -z

vars == <<source, loop, stage, option>>

(***************************************************************************)
(* i++, i += 2 and i = i + 2, or the same with -.  place says where the    *)
(* step is: in the header, or else the last or the first statement of the  *)
(* body of a loop without step.                                            *)
(***************************************************************************)
Step == [form : {"unit"}, by : {1, -1}]
          \cup [form : {"compound", "assign"}, by : Strides \cup {-k : k \in Strides}]

Loop == [first : Ends, op : {"<", "<=", ">", ">=", "!="}, bound : Ends,
         step : Step, place : {"header", "last", "first"}]

-------------------------------------------------------------------------------
(***************************************************************************)
(* What C makes of a header: the values of i the work in the body is done  *)
(* with.                                                                   *)
(***************************************************************************)
Test(op, i, bound) ==
  \/ op = "<"  /\ i < bound
  \/ op = "<=" /\ i <= bound
  \/ op = ">"  /\ i > bound
  \/ op = ">=" /\ i >= bound
  \/ op = "!=" /\ i # bound

Turn(l, n) == l.first + n * l.step.by

Turns(l) == {n \in 0 .. Limit : \A m \in 0 .. n : Test(l.op, Turn(l, m), l.bound)}

Iterations(l) == {Turn(l, IF l.place = "first" THEN n + 1 ELSE n) : n \in Turns(l)}

-------------------------------------------------------------------------------
(***************************************************************************)
(* The step that is printed: i++ and i-- are turned round for > and >=,    *)
(* and i-- also for !=; i = i + k is turned round by a minus in front for  *)
(* > and >=; i += k never is.                                              *)
(***************************************************************************)
InverseFor(op) == IF op \in {">", ">="} THEN 1 ELSE IF op = "!=" THEN 2 ELSE 0

SimplifiedAsIs(step, inverse) == step.by
Simplified(step, inverse) ==
  IF \/ step.form # "compound" /\ inverse = 1
     \/ step.form = "unit" /\ inverse = 2 /\ step.by < 0
  THEN -step.by ELSE step.by

(***************************************************************************)
(* The loop that is printed.  Only < is left alone.  For > and >= the ends *)
(* change places, <= and >= move the upper end by one step; a step in the  *)
(* body is taken out of it, wherever it is, and put into the header.       *)
(***************************************************************************)
NormalOf(l, by, upper) ==
  [first |-> IF l.op \in {">", ">="} THEN l.bound ELSE l.first,
   op    |-> "<",
   bound |-> upper,
   step  |-> [form |-> "assign", by |-> by],
   place |-> "header"]

NormaliseSameEnd(l) ==    \* the upper end is not moved
  LET by == Simplified(l.step, InverseFor(l.op))
  IN  IF l.op = "<" THEN l
      ELSE NormalOf(l, by, IF l.op \in {">", ">="} THEN l.first ELSE l.bound)

NormaliseUnlessUnequal(l) ==    \* != is left alone
  LET by == Simplified(l.step, InverseFor(l.op))
      upper == (IF l.op \in {">", ">="} THEN l.first ELSE l.bound)
                 + (IF l.op \in {"<=", ">="} THEN by ELSE 0)
  IN  IF l.op \in {"<", "!="} THEN l ELSE NormalOf(l, by, upper)

Normalise(l) ==
  LET by == Simplified(l.step, InverseFor(l.op))
      upper == (IF l.op \in {">", ">="} THEN l.first ELSE l.bound)
                 + (IF l.op \in {"<=", ">="} THEN by ELSE 0)
  IN  IF l.op = "<" THEN l ELSE NormalOf(l, by, upper)

(***************************************************************************)
(* The loop of a block: the slaves go up by one from the first value, as   *)
(* long as there are chunks below what stands behind the comparison.       *)
(***************************************************************************)
BlockOfLonger(l) ==
  [l EXCEPT !.op = "<=", !.step = [form |-> "unit", by |-> 1]]
BlockOf(l) ==
  [l EXCEPT !.op = "<", !.step = [form |-> "unit", by |-> 1]]

-------------------------------------------------------------------------------
Init ==
  /\ source \in Loop
  /\ loop = source
  /\ stage = "source"
  /\ option \in BOOLEAN

NormaliseFor ==
  /\ stage = "source"
  /\ option
  /\ loop' = Normalise(loop)
  /\ stage' = "normalised"
  /\ UNCHANGED <<source, option>>

(***************************************************************************)
(* Only loops with a step in the header can be under omp parallel for.     *)
(***************************************************************************)
AnalyseFor ==
  /\ stage = IF option THEN "normalised" ELSE "source"
  /\ source.place = "header"
  /\ loop' = BlockOf(loop)
  /\ stage' = "block"
  /\ UNCHANGED <<source, option>>

Next == NormaliseFor \/ AnalyseFor

Spec == Init /\ [][Next]_vars

-------------------------------------------------------------------------------
(***************************************************************************)
(* Types; behind the normaliser and in blocks every loop goes while i < .  *)
(***************************************************************************)
TypeOK ==
  /\ source \in Loop
  /\ option \in BOOLEAN
  /\ stage \in {"source", "normalised", "block"}
  /\ loop.op \in (IF stage = "source" THEN {"<", "<=", ">", ">=", "!="} ELSE {"<"})
  /\ {loop.first, loop.bound} \subseteq Int
  /\ loop.place \in {"header", "last", "first"}

(***************************************************************************)
(* Loops the normaliser is right for: they go towards their bound, the     *)
(* last step of <=, >= and != meets it, and > is not among them.           *)
(***************************************************************************)
Towards(l) ==
  IF l.op = "!=" THEN l.step.by > 0 /\ l.first <= l.bound
  ELSE IF l.op \in {"<", "<="} THEN l.step.by > 0
  ELSE l.step.by < 0

Meets(l) == \E n \in 0 .. Limit : Turn(l, n) = l.bound

Regular(l) ==
  /\ Towards(l)
  /\ l.place # "first"
  /\ \/ l.op = "<"
     \/ l.op \in {"<=", "!="} /\ Meets(l)
     \/ l.op = ">=" /\ Meets(l) /\ l.step.form # "compound"

(***************************************************************************)
(* The normalised loop does its work for the same values of i as the loop  *)
(* that was written, though perhaps from the last to the first.            *)
(***************************************************************************)
IterationsKept ==
  stage = "normalised" /\ Regular(source) => Iterations(loop) = Iterations(source)

(***************************************************************************)
(* What loopNormalizationExamples/forloops.c tests: a loop that goes by    *)
(* one towards its bound is run as often as before, also with >, for which *)
(* the values of i are others.                                             *)
(***************************************************************************)
CountKept ==
  (/\ stage = "normalised" /\ Towards(source)
   /\ source.op # "!=" /\ source.step.form # "compound" /\ source.step.by \in {1, -1})
  => Cardinality(Iterations(loop)) = Cardinality(Iterations(source))

(***************************************************************************)
(* A block runs the iterations of the parallel loop it stands for, if the  *)
(* normaliser brought the loop into the only form OMP2MPI reads right, or  *)
(* it had that form from the beginning.                                    *)
(***************************************************************************)
Readable(l) == l.op = "<" /\ l.step.by = 1

BlockRunsLoop ==
  (/\ stage = "block"
   /\ \/ Readable(source)
      \/ option /\ Regular(source) /\ source.step.by \in {1, -1})
  => Iterations(loop) = Iterations(source)

(***************************************************************************)
(* The same of a parallel loop up to and including its bound.              *)
(***************************************************************************)
BlockRunsClosedLoop ==
  stage = "block" /\ source.op = "<=" /\ source.step.by = 1
    => Iterations(loop) = Iterations(source)
================================================================================
