-------------------------------- MODULE Codelet --------------------------------
(***************************************************************************)
(* OMP2HMPP: the loops of a function that are marked for the GPU become    *)
(* codelets, calls of functions with a memory of their own, and the phase  *)
(* decides from a table of first and last uses where arrays are sent       *)
(* (advancedload), fetched (delegatedstore) and waited for (synchronize).  *)
(* The phase runs once for every codelet, from the first to the last; then *)
(* the program it has made is run.                                         *)
(*                                                                         *)
(* The function is a straight line of statements that ends with a return;  *)
(* what a statement leaves in an array is the number of the statement.     *)
(* What the directives do is HMPP's: a codelet has a copy of each of its   *)
(* arrays; what no advancedload sends is sent by the call, and what no     *)
(* delegatedstore fetches is fetched when the codelet is waited for.       *)
(***************************************************************************)
EXTENDS Integers, Sequences, SequencesExt, FiniteSetsExt

CONSTANTS
  Arrays,
  Sources     \* functions to translate, without their return

(***************************************************************************)
(* A statement: on the CPU or a loop for the GPU; the arrays it reads and  *)
(* those of them the phase sees it read (x[i] += y[i] is an assignment to  *)
(* x that reads y); the arrays it writes, whole or only their front.  An   *)
(* OpenMP loop, also one that stays on the CPU, names arrays in its        *)
(* shared, private and reduction clauses.                                  *)
(***************************************************************************)
Statement == [on : {"cpu", "gpu"}, clause : SUBSET Arrays,
              reads : SUBSET Arrays, seen : SUBSET Arrays,
              writes : SUBSET Arrays, whole : BOOLEAN]

ASSUME CodeletAssumption ==
  \A s \in Sources : s \in Seq(Statement) /\ \A n \in DOMAIN s : s[n].seen \subseteq s[n].reads

VARIABLES
  source,     \* the function
  option,     \* the kinds of directives that are used
  program,    \* the function with its directives
  pc,         \* the item of program that is run next
  host,       \* the arrays of the CPU
  device,     \* the arrays of each codelet
  running,    \* codelets the GPU has been given
  done        \* codelets the GPU has run

vars == <<source, option, program, pc, host, device, running, done>>

Parts == {"front", "rest"}

(***************************************************************************)
(* An item of program: a statement with its number, or a directive of the  *)
(* codelet of that number.                                                 *)
(***************************************************************************)
Item(do, n, args) == [do |-> do, at |-> n, args |-> args]

Options ==    \* asynchronous calls only with both other kinds
  {o \in [adv : BOOLEAN, del : BOOLEAN, async : BOOLEAN] : o.async => o.adv /\ o.del}

ParametersRead(n) == source[n].reads    \* what is only written is not sent
Parameters(n) == source[n].reads \cup source[n].writes

-------------------------------------------------------------------------------
(***************************************************************************)
(* The table of uses for the loop in row k.  0 stands for no row.          *)
(***************************************************************************)
Writes(item) ==
  IF item.do \in {"cpu", "call", "sync"} THEN source[item.at].writes
  ELSE IF item.do = "store" THEN item.args ELSE {}

Reads(item) ==
  IF item.do \in {"cpu", "gpu", "sync"} THEN source[item.at].seen ELSE {}

LastStatement(k, x) ==    \* writes of codelets are not looked for
  Max({0} \cup {j \in 1 .. k - 1 : program[j].do = "cpu" /\ x \in Writes(program[j])})
LastWrite(k, x) == Max({0} \cup {j \in 1 .. k - 1 : x \in Writes(program[j])})

(***************************************************************************)
(* First reads are recorded for CPU and GPU apart.  An OpenMP loop makes   *)
(* the phase forget those of the arrays in its clauses, on its side; what  *)
(* the loop itself reads is recorded after that.                           *)
(***************************************************************************)
Side(item) == IF item.do \in {"gpu", "sync"} THEN "gpu" ELSE "cpu"

Forgets(item, x) == item.do \in {"cpu", "gpu"} /\ x \in source[item.at].clause

Forgotten(j, x) ==
  \E l \in j + 1 .. Len(program) :
    Side(program[l]) = Side(program[j]) /\ Forgets(program[l], x)

FirstRead(k, x) ==
  LET Rows == {j \in k + 1 .. Len(program) : x \in Reads(program[j]) /\ ~Forgotten(j, x)}
  IN  IF Rows = {} THEN 0 ELSE Min(Rows)

(***************************************************************************)
(* The directives of the codelet in row k: the row before which it is      *)
(* waited for, what is sent after row j, or before the call for no row,    *)
(* and what is fetched at row j.                                           *)
(***************************************************************************)
SyncAtAnyRead(k) ==    \* reads before the call count, too
  Min({Len(program)}
        \cup {j \in DOMAIN program \ {k} :
                Parameters(program[k].at) \cap Reads(program[j]) # {}})
SyncRow(k) ==
  LET Rows == {FirstRead(k, x) : x \in Parameters(program[k].at)} \ {0}
  IN  IF Rows = {} THEN Len(program) ELSE Min(Rows)

LoadAt(k, j) == {x \in source[program[k].at].seen : LastWrite(k, x) = j}

StoreAtReturn(k, j) ==    \* whatever the reads
  IF j = Len(program) THEN source[program[k].at].writes ELSE {}
StoreAt(k, j) == {x \in source[program[k].at].writes : FirstRead(k, x) = j}

Directive(do, k, args) ==
  IF args = {} THEN <<>> ELSE <<Item(do, program[k].at, args)>>

(***************************************************************************)
(* Row j with the directives of the codelet in row k.  A directive is put  *)
(* next to the statement; a delegatedstore goes before it, but behind any  *)
(* synchronize.                                                            *)
(***************************************************************************)
Around(k, j) ==
  LET waits == option.async /\ j = SyncRow(k)
      sync  == IF waits THEN <<Item("sync", program[k].at, {})>> ELSE <<>>
      store == IF option.del /\ j > k THEN Directive("store", k, StoreAt(k, j)) ELSE <<>>
      load  == IF option.adv /\ j < k THEN Directive("load", k, LoadAt(k, j)) ELSE <<>>
      first == IF option.adv THEN Directive("load", k, LoadAt(k, 0)) ELSE <<>>
  IN  IF j = k THEN first \o <<Item("call", program[k].at, {})>>
      ELSE IF program[j].do = "sync" /\ ~waits THEN <<program[j]>> \o load \o store
      ELSE sync \o store \o <<program[j]>> \o load

Loops == {k \in DOMAIN program : program[k].do = "gpu"}

Outline ==
  /\ Loops # {}
  /\ program' = FlattenSeq([j \in DOMAIN program |-> Around(Min(Loops), j)])
  /\ UNCHANGED <<source, option, pc, host, device, running, done>>

-------------------------------------------------------------------------------
(***************************************************************************)
(* HMPP: the program is run.                                               *)
(***************************************************************************)
Named(do, n) ==
  UNION {program[j].args : j \in {i \in DOMAIN program :
                                    program[i].do = do /\ program[i].at = n}}

Written(memory, n) ==
  [x \in Arrays |-> [part \in Parts |->
     IF x \in source[n].writes /\ (source[n].whole \/ part = "front") THEN n
     ELSE memory[x][part]]]

Copied(to, from, args) == [x \in Arrays |-> IF x \in args THEN from[x] ELSE to[x]]

At(do) == Loops = {} /\ program[pc].do = do

RunStatement ==
  /\ At("cpu")
  /\ host' = Written(host, program[pc].at)
  /\ pc' = pc + 1
  /\ UNCHANGED <<source, option, program, device, running, done>>

RunLoad ==
  /\ At("load")
  /\ device' = [device EXCEPT ![program[pc].at] = Copied(@, host, program[pc].args)]
  /\ pc' = pc + 1
  /\ UNCHANGED <<source, option, program, host, running, done>>

RunCall ==
  LET n == program[pc].at
  IN  /\ At("call")
      /\ n \notin running \cup done
      /\ device' = [device EXCEPT ![n] = Copied(@, host, Parameters(n) \ Named("load", n))]
      /\ running' = running \cup {n}
      /\ pc' = IF option.async THEN pc + 1 ELSE pc
      /\ UNCHANGED <<source, option, program, host, done>>

Compute(n) ==
  /\ n \in running
  /\ device' = [device EXCEPT ![n] = Written(@, n)]
  /\ running' = running \ {n}
  /\ done' = done \cup {n}
  /\ UNCHANGED <<source, option, program, pc, host>>

RunWait ==
  LET n == program[pc].at
  IN  /\ At("call") \/ At("sync")
      /\ n \in done
      /\ host' = Copied(host, device[n], source[n].writes \ Named("store", n))
      /\ pc' = pc + 1
      /\ UNCHANGED <<source, option, program, device, running, done>>

RunStore ==
  /\ At("store")
  /\ host' = Copied(host, device[program[pc].at], program[pc].args)
  /\ pc' = pc + 1
  /\ UNCHANGED <<source, option, program, device, running, done>>

-------------------------------------------------------------------------------
Unset == -1

Memory(value) == [x \in Arrays |-> [part \in Parts |-> value]]

Init ==
  /\ source \in Sources
  /\ option \in Options
  /\ program = [n \in DOMAIN source |-> Item(source[n].on, n, {})]
                 \o <<Item("return", 0, {})>>
  /\ pc = 1
  /\ host = Memory(0)
  /\ device = [n \in DOMAIN source |-> Memory(Unset)]
  /\ running = {}
  /\ done = {}

Next ==
  \/ Outline
  \/ RunStatement \/ RunLoad \/ RunCall \/ RunWait \/ RunStore
  \/ \E n \in running : Compute(n)

Spec == Init /\ [][Next]_vars /\ WF_vars(Next)

-------------------------------------------------------------------------------
(***************************************************************************)
(* Types; the CPU never gets back what a codelet was not given: a loop     *)
(* that writes a part of an array must not fetch the rest unset.           *)
(***************************************************************************)
TypeOK ==
  LET Values == {0} \cup DOMAIN source
  IN  /\ pc \in DOMAIN program
      /\ host \in [Arrays -> [Parts -> Values]]
      /\ device \in [DOMAIN source -> [Arrays -> [Parts -> Values \cup {Unset}]]]
      /\ running \cap done = {}
      /\ running \cup done \subseteq {n \in DOMAIN source : source[n].on = "gpu"}

(***************************************************************************)
(* What the function itself, run from the first to the last statement,     *)
(* has in an array before statement n.                                     *)
(***************************************************************************)
Right(n, x) ==
  [part \in Parts |->
     Max({0} \cup {m \in 1 .. n - 1 : /\ x \in source[m].writes
                                      /\ source[m].whole \/ part = "front"})]

(***************************************************************************)
(* Functions the table of uses is right for: of the statements that touch  *)
(* an array after a loop that wrote it, the next is one the phase sees     *)
(* read it, and the clauses of loops behind that one do not make it forget *)
(* the read.  Without delegatedstore every function is.                    *)
(***************************************************************************)
Remembered(m, x) ==
  \A l \in DOMAIN source :
    l > m /\ source[l].on = source[m].on => x \notin source[l].clause

Regular ==
  \A n \in DOMAIN source, x \in Arrays :
    source[n].on = "gpu" /\ x \in source[n].writes
      => LET Later == {m \in DOMAIN source : m > n /\ x \in Parameters(m)}
         IN  Later = {} \/ (x \in source[Min(Later)].seen /\ Remembered(Min(Later), x))

Covered == ~option.del \/ Regular

(***************************************************************************)
(* No statement and no codelet works on an array that is not what the      *)
(* function would have there, whenever the GPU gets to run a codelet.      *)
(***************************************************************************)
DeviceRight == \A n \in running : \A x \in source[n].reads : device[n][x] = Right(n, x)

HostRight ==
  At("cpu") => \A x \in source[program[pc].at].reads : host[x] = Right(program[pc].at, x)

NoStaleRead == (DeviceRight /\ HostRight) \/ ~Covered

(***************************************************************************)
(* When the function returns the arrays are what they should be.           *)
(***************************************************************************)
ResultsHome ==
  At("return") /\ Covered => \A x \in Arrays : host[x] = Right(Len(source) + 1, x)

(***************************************************************************)
(* The function returns: nothing is waited for that was not called.        *)
(***************************************************************************)
Returns == <>At("return")
================================================================================
