------------------------------- MODULE MCCodelet -------------------------------
(***************************************************************************)
(* Functions of two or three loops for the GPU with a statement of the CPU *)
(* between and after them.  The first loop writes x; the others write      *)
(* either array, read any of them, and may run over a part only.  Loops    *)
(* over a whole array name what they use in a shared clause, the others    *)
(* have no clause, so that reads are forgotten in some functions and kept  *)
(* in others; a loop of the CPU with a clause is among the statements.     *)
(***************************************************************************)
EXTENDS Codelet

CONSTANTS x, y

XY == {x, y}

Use(on, clause, reads, seen, writes, whole) ==
  [on |-> on, clause |-> clause, reads |-> reads, seen |-> seen,
   writes |-> writes, whole |-> whole]

Nothing   == Use("cpu", {}, {}, {}, {}, TRUE)
Set(a)    == Use("cpu", {}, {}, {}, {a}, TRUE)
SetFront(a)  == Use("cpu", {}, {}, {}, {a}, FALSE)
Read(a)   == Use("cpu", {}, {a}, {a}, {}, TRUE)
ReadShared(a) == Use("cpu", {a}, {a}, {a}, {}, TRUE)
AddTo(a)  == Use("cpu", {}, {a}, {}, {a}, TRUE)
Copy(a, b) == Use("cpu", {}, {a}, {a}, {b}, TRUE)
Loop(reads, a) == Use("gpu", reads \cup {a}, reads, reads, {a}, TRUE)
LoopOnFront(a) == Use("gpu", {}, {}, {}, {a}, FALSE)

Before  == {Nothing, Set(x), Set(y)}
First   == {Loop(reads, x) : reads \in SUBSET XY} \cup {LoopOnFront(x)}
Between == {Nothing, Set(x), SetFront(x), AddTo(x), Read(y), Copy(x, y)}
Second  == {Loop(reads, a) : reads \in SUBSET XY, a \in XY} \cup {LoopOnFront(a) : a \in XY}
Third   == {Loop(reads, y) : reads \in SUBSET XY} \cup {Loop({x}, x), LoopOnFront(x)}
After   == {Nothing, ReadShared(x), SetFront(y), Copy(y, x)}

TwoLoops ==
  {<<a, g, b, h, c>> : a \in Before, g \in First, b \in Between, h \in Second, c \in After}

ThreeLoops ==
  {<<g, b, h, k, c>> : g \in {Loop({}, x), Loop(XY, x)}, b \in {Nothing, ReadShared(x)}, h \in Second,
                       k \in Third, c \in {Nothing, Read(x), ReadShared(y)}}

SomeFunctions == TwoLoops \cup ThreeLoops
================================================================================
