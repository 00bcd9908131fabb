---------------------------- MODULE RemoteMemory ----------------------------
(***************************************************************************)
(* The accesses of slaves to variables that were not sent with the chunk   *)
(* (second style of OMP2MPI).  A statement "target = expression" that uses *)
(* such variables is printed for the slave as                              *)
(*                                                                         *)
(*   secureWrite;  mpiReads;  (target = expression);  mpiWrites            *)
(*                                                                         *)
(* (transformConstructAST), and the code that serves these accesses is     *)
(* printed into the master's receive loop (handleMemory).  The two texts   *)
(* are printed by different functions and must agree on every message.     *)
(*                                                                         *)
(* Accesses are recognised by the bracket behind the name: a variable      *)
(* without dimensions is never accessed remotely, the slave works on its   *)
(* own copy, which came with the chunk and goes back with the answer.      *)
(*                                                                         *)
(* Each message is a step of the master here.  A slave's sends between two *)
(* of its receives are one step: they are buffered, and the channel keeps  *)
(* their order.  Scheduling is in DynamicFarm; every slave has one chunk,  *)
(* with a bounded number of statements, and is dismissed when it answers.  *)
(***************************************************************************)
EXTENDS Messages

CONSTANTS
  W,           \* number of slaves
  InVars,      \* _inVars: the variables that slaves read, a sequence
  IoVars,      \* _ioVars: the variables that slaves write, a sequence
  Scalar,      \* variables without dimensions
  IoScalars,   \* those of _ioVars, a sequence
  Updated,     \* variables the loop increments under atomic or critical
  Statements   \* number of statements of a chunk (a bound)

Slave == 1 .. W
Place == Slave
Var == {InVars[i] : i \in DOMAIN InVars} \cup {IoVars[i] : i \in DOMAIN IoVars}
Owned == Var \ Updated

(***************************************************************************)
(* An array that is written is one each slave has an element of; a scalar  *)
(* that is written is incremented under atomic or critical.                *)
(***************************************************************************)
ASSUME MemoryAssumption ==
  /\ W \in Nat \ {0}
  /\ InVars \in Seq(Var)
  /\ IoVars \in Seq(Var)
  /\ Statements \in Nat
  /\ Updated \subseteq {InVars[i] : i \in DOMAIN InVars}
  /\ Updated \subseteq {IoVars[i] : i \in DOMAIN IoVars}
  /\ Scalar \cap {IoVars[i] : i \in DOMAIN IoVars} \subseteq Updated
  /\ IoScalars \in Seq(Scalar)
  /\ {IoScalars[i] : i \in DOMAIN IoScalars} = Scalar \cap {IoVars[i] : i \in DOMAIN IoVars}

VARIABLES
  mpc,        \* master: "any", "read", "write", "value", "secure", "result", "done"
  source,     \* master: the slave it serves
  stat,       \* master: the tag of what it received first (_statVar.MPI_TAG)
  partSize,   \* master: the first integer it received, an index
  coord,      \* master: coordVector, the elements meant
  section,    \* master: index of the variable of a secure write, or 0
  taken,      \* master: number of scalars received of the answer
  killed,     \* master: number of slaves told to stop
  mem,        \* master: the variables
  toSlave, toMaster,
  spc,        \* slave: "next", "reads", "await", "sent" or "done"
  stmt,       \* slave: the statement it is at
  reads,      \* slave: number of operands read so far
  reg,        \* slave: the value read of the target
  left,       \* slave: statements left in the chunk
  copy,       \* slave: its copies of the variables without dimensions
  wanted,     \* history: increments begun, see SharedMemory
  wrote       \* history: wrote[s]: variables of which s wrote its element

serving == <<source, stat, partSize, coord, section, taken>>
masterVars == <<mpc, serving, killed, mem>>
slaveVars == <<spc, stmt, reads, reg, left, copy, wanted, wrote>>
vars == <<masterVars, slaveVars, toSlave, toMaster>>

-------------------------------------------------------------------------------
(***************************************************************************)
(* Messages: an index into _inVars or _ioVars (in the code one less), the  *)
(* coordinates of elements, or their values.  "what" and "of" are not in   *)
(* the messages of the code: they say what the sender meant and of which   *)
(* variable, and InStep below that the receiver takes it for that.         *)
(***************************************************************************)
Datum(tag, what, of, x) == [tag |-> tag, what |-> what, of |-> of, x |-> x]

Position(seq, v) == CHOOSE i \in DOMAIN seq : seq[i] = v

(***************************************************************************)
(* What a statement refers to: one element (RTAG, WTAG) or whole rows      *)
(* (FRTAG, FWTAG) of an array.                                             *)
(***************************************************************************)
Ref(v, at) == [var |-> v, at |-> at, rows |-> FALSE]
Rows(v, at) == [var |-> v, at |-> at, rows |-> TRUE]

ReadTag(r) == IF r.rows THEN "FRTAG" ELSE "RTAG"
WriteTag(r) == IF r.rows THEN "FWTAG" ELSE "WTAG"

Coords(tag, r) == Datum(tag, "coords", r.var, r.at)

AskFor(r) ==
  <<Datum(ReadTag(r), "index", r.var, Position(InVars, r.var)), Coords(ReadTag(r), r)>>

CoordsBeforeIndex(r, x) ==
  <<Coords(WriteTag(r), r),
    Datum(WriteTag(r), "index", r.var, Position(IoVars, r.var)),
    Datum(WriteTag(r), "value", r.var, x)>>

Store(r, x) ==
  <<Datum(WriteTag(r), "index", r.var, Position(IoVars, r.var)),
    Coords(WriteTag(r), r),
    Datum(WriteTag(r), "value", r.var, x)>>

Announce(r) == <<Datum("SWTAG", "index", r.var, Position(IoVars, r.var))>>

Nowhere == Ref("none", {})
Stop == Datum("FTAG", "index", "none", 0)

(***************************************************************************)
(* The statements with remote accesses of a loop without races: look at    *)
(* arrays (the first element, or all rows; the line itself then only uses  *)
(* the slave's own memory), write one's own element of an array, plainly   *)
(* or under critical, or add to any element (x[..] += 1) under atomic,     *)
(* with the target itself as an operand and possibly another one.          *)
(***************************************************************************)
Statement(secure, operands, target) ==
  [secure |-> secure, operands |-> operands, target |-> target]

Empty == Statement(FALSE, <<>>, Nowhere)

Seen == ({InVars[i] : i \in DOMAIN InVars} \cap Owned) \ Scalar

Looks ==
  {Statement(FALSE, <<Ref(v, {1})>>, Nowhere) : v \in Seen}
    \cup {Statement(FALSE, <<Rows(v, Place)>>, Nowhere) : v \in Seen}

Puts(s) ==
  LET own == {IoVars[i] : i \in DOMAIN IoVars} \cap Owned
  IN  {Statement(FALSE, <<>>, Ref(v, {s})) : v \in own}
      \cup {Statement(FALSE, <<>>, Rows(v, {s})) : v \in own}
      \cup {Statement(TRUE, <<>>, Ref(v, {s})) : v \in own}

Increments ==
  UNION {{Statement(TRUE, operands, Ref(v, {p})) :
            operands \in {<<Ref(v, {p})>>} \cup {<<Ref(v, {p}), Ref(w, {1})>> : w \in Seen}} :
         v \in Updated \ Scalar, p \in Place}

Possible(s) == Looks \cup Puts(s) \cup Increments

-------------------------------------------------------------------------------
Init ==
  /\ mpc = "any"
  /\ source = 1
  /\ stat = "ATAG"
  /\ partSize = 0
  /\ coord = {}
  /\ section = 0
  /\ taken = 0
  /\ killed = 0
  /\ mem = [v \in Var |-> [p \in Place |-> 0]]
  /\ toSlave = [s \in Slave |-> <<>>]
  /\ toMaster = [s \in Slave |-> <<>>]
  /\ spc = [s \in Slave |-> "next"]
  /\ stmt = [s \in Slave |-> Empty]
  /\ reads = [s \in Slave |-> 0]
  /\ reg = [s \in Slave |-> 0]
  /\ left = [s \in Slave |-> Statements]
  /\ copy = [s \in Slave |-> [v \in Scalar |-> 0]]
  /\ wanted = [v \in Var |-> [p \in Place |-> 0]]
  /\ wrote = [s \in Slave |-> {}]

(***************************************************************************)
(* The slave.  secureWrite: it announces an update (SWTAG).                *)
(***************************************************************************)
SendAll(s, ms) == toMaster' = [toMaster EXCEPT ![s] = @ \o ms]

Wish(r) ==
  [wanted EXCEPT ![r.var] =
     [p \in Place |-> @[p] + (IF r.var \in Updated /\ p \in r.at THEN 1 ELSE 0)]]

Start(s) ==
  /\ spc[s] = "next"
  /\ left[s] > 0
  /\ left' = [left EXCEPT ![s] = @ - 1]
  /\ spc' = [spc EXCEPT ![s] = "reads"]
  /\ \E st \in Possible(s) :
       /\ stmt' = [stmt EXCEPT ![s] = st]
       /\ IF st.secure
          THEN /\ SendAll(s, Announce(st.target))
               /\ wanted' = Wish(st.target)
          ELSE UNCHANGED <<toMaster, wanted>>
  /\ UNCHANGED <<masterVars, toSlave, reads, reg, copy, wrote>>

(***************************************************************************)
(* n += 1 under atomic or critical, where n has no dimensions: nothing of  *)
(* the above is printed, the line is the slave's own.                      *)
(***************************************************************************)
Tally(s) ==
  /\ spc[s] = "next"
  /\ left[s] > 0
  /\ left' = [left EXCEPT ![s] = @ - 1]
  /\ \E v \in Updated \cap Scalar :
       /\ copy' = [copy EXCEPT ![s][v] = @ + 1]
       /\ wanted' = [wanted EXCEPT ![v][1] = @ + 1]
  /\ UNCHANGED <<masterVars, toSlave, toMaster, spc, stmt, reads, reg, wrote>>

(***************************************************************************)
(* mpiReads, once for each operand: ask, and wait for the value.           *)
(***************************************************************************)
Operand(s) == stmt[s].operands[reads[s] + 1]
AllRead(s) == reads[s] = Len(stmt[s].operands)

Ask(s) ==
  /\ spc[s] = "reads"
  /\ ~AllRead(s)
  /\ SendAll(s, AskFor(Operand(s)))
  /\ spc' = [spc EXCEPT ![s] = "await"]
  /\ UNCHANGED <<masterVars, toSlave, stmt, reads, reg, left, copy, wanted, wrote>>

Got(s) ==
  /\ spc[s] = "await"
  /\ Arrived(toSlave, s, ReadTag(Operand(s)))
  /\ reads' = [reads EXCEPT ![s] = @ + 1]
  /\ reg' = IF Operand(s) = stmt[s].target
            THEN [reg EXCEPT ![s] = Head(toSlave[s]).x[CHOOSE p \in Operand(s).at : TRUE]]
            ELSE reg
  /\ toSlave' = Drop(toSlave, s)
  /\ spc' = [spc EXCEPT ![s] = "reads"]
  /\ UNCHANGED <<masterVars, toMaster, stmt, left, copy, wanted, wrote>>

(***************************************************************************)
(* The statement itself and mpiWrites; with that the temporaries of the    *)
(* statement are of no more use.                                           *)
(***************************************************************************)
Result(s) ==
  [p \in stmt[s].target.at |-> IF stmt[s].target.var \in Updated THEN reg[s] + 1 ELSE s]

Write(s) ==
  /\ spc[s] = "reads"
  /\ AllRead(s)
  /\ IF stmt[s].target = Nowhere
     THEN UNCHANGED <<toMaster, wrote>>
     ELSE /\ SendAll(s, Store(stmt[s].target, Result(s)))
          /\ wrote' = [wrote EXCEPT ![s] = @ \cup ({stmt[s].target.var} \ Updated)]
  /\ spc' = [spc EXCEPT ![s] = "next"]
  /\ stmt' = [stmt EXCEPT ![s] = Empty]
  /\ reads' = [reads EXCEPT ![s] = 0]
  /\ reg' = [reg EXCEPT ![s] = 0]
  /\ UNCHANGED <<masterVars, toSlave, left, copy, wanted>>

(***************************************************************************)
(* The answer at the end of the chunk carries the slave's own copy of      *)
(* every scalar in _ioVars.                                                *)
(***************************************************************************)
Answer(s) ==
  /\ spc[s] = "next"
  /\ left[s] = 0
  /\ SendAll(s, <<Datum("ATAG", "index", "none", 0)>>
                  \o [k \in DOMAIN IoScalars |->
                        Datum("ATAG", "value", "none", copy[s][IoScalars[k]])])
  /\ spc' = [spc EXCEPT ![s] = "sent"]
  /\ UNCHANGED <<masterVars, toSlave, stmt, reads, reg, left, copy, wanted, wrote>>

Leave(s) ==
  /\ spc[s] = "sent"
  /\ Arrived(toSlave, s, "FTAG")
  /\ toSlave' = Drop(toSlave, s)
  /\ spc' = [spc EXCEPT ![s] = "done"]
  /\ UNCHANGED <<masterVars, toMaster, stmt, reads, reg, left, copy, wanted, wrote>>

SlaveStep(s) ==
  Start(s) \/ Tally(s) \/ Ask(s) \/ Got(s) \/ Write(s) \/ Answer(s) \/ Leave(s)

-------------------------------------------------------------------------------
(***************************************************************************)
(* The master.  MPI_Recv(&partSize, ..., MPI_ANY_SOURCE, MPI_ANY_TAG) and  *)
(* the case distinction on the tag.  Without variables to read, a secure   *)
(* write is taken for a plain one.                                         *)
(***************************************************************************)
AfterIndex(tag, i) ==
  CASE tag \in {"RTAG", "FRTAG"} -> "read"
    [] tag \in {"WTAG", "FWTAG"} \/ (tag = "SWTAG" /\ InVars = <<>>) ->
         IF IoVars[i] \in Scalar THEN "value" ELSE "write"
    [] tag = "SWTAG" /\ InVars # <<>> -> "secure"
    [] tag = "ATAG" -> "result"

Receive ==
  /\ mpc = "any"
  /\ \E s \in Slave :
       /\ toMaster[s] # <<>>
       /\ LET m == Head(toMaster[s])
          IN  /\ source' = s
              /\ stat' = IF m.tag = "SWTAG" THEN "WTAG" ELSE m.tag
              /\ partSize' = m.x
              /\ mpc' = AfterIndex(m.tag, m.x)
              /\ section' = IF mpc' = "secure" THEN m.x ELSE 0
       /\ toMaster' = Drop(toMaster, s)
  /\ taken' = 0
  /\ UNCHANGED <<coord, killed, mem, slaveVars, toSlave>>

(***************************************************************************)
(* The coordinates of a read, and the value in return.                     *)
(***************************************************************************)
Back == IF section = 0 THEN "any" ELSE "secure"

ServeRead ==
  /\ mpc = "read"
  /\ LET v == InVars[partSize]
     IN  /\ IF v \in Scalar
            THEN coord' = {1} /\ UNCHANGED toMaster
            ELSE /\ Arrived(toMaster, source, stat)
                 /\ coord' = Head(toMaster[source]).x
                 /\ toMaster' = Drop(toMaster, source)
         /\ toSlave' = Send(toSlave, source,
                            Datum(stat, "value", v, [p \in coord' |-> mem[v][p]]))
  /\ mpc' = Back
  /\ UNCHANGED <<source, stat, partSize, section, taken, killed, mem, slaveVars>>

(***************************************************************************)
(* Inside a secure write: the master listens to the source only, serves    *)
(* its reads and waits for its write.                                      *)
(***************************************************************************)
OnlyOneRead ==          \* the section is left after its first message
  /\ mpc = "secure"
  /\ toMaster[source] # <<>>
  /\ LET m == Head(toMaster[source])
     IN  /\ stat' = m.tag
         /\ partSize' = m.x
         /\ mpc' = AfterIndex(m.tag, m.x)
  /\ section' = 0
  /\ toMaster' = Drop(toMaster, source)
  /\ UNCHANGED <<source, coord, taken, killed, mem, slaveVars, toSlave>>

Secure ==
  /\ mpc = "secure"
  /\ toMaster[source] # <<>>
  /\ LET m == Head(toMaster[source])
     IN  /\ stat' = m.tag
         /\ partSize' = m.x
         /\ mpc' = CASE m.tag = "RTAG" -> "read"
                     [] m.tag = "WTAG" -> IF IoVars[section] \in Scalar THEN "value" ELSE "write"
                     [] OTHER -> "secure"
  /\ toMaster' = Drop(toMaster, source)
  /\ UNCHANGED <<source, coord, section, taken, killed, mem, slaveVars, toSlave>>

(***************************************************************************)
(* The coordinates of a write, then its value.                             *)
(***************************************************************************)
TakeCoords ==
  /\ mpc = "write"
  /\ Arrived(toMaster, source, stat)
  /\ coord' = Head(toMaster[source]).x
  /\ toMaster' = Drop(toMaster, source)
  /\ mpc' = "value"
  /\ UNCHANGED <<source, stat, partSize, section, taken, killed, mem, slaveVars, toSlave>>

TargetInVars == InVars[IF section = 0 THEN partSize ELSE section]
Target == IoVars[IF section = 0 THEN partSize ELSE section]

Overwrite(v, at, x) ==
  mem' = [mem EXCEPT ![v] = [p \in Place |-> IF p \in at THEN x[p] ELSE @[p]]]

StoreValue ==
  /\ mpc = "value"
  /\ Arrived(toMaster, source, stat)
  /\ Overwrite(Target, IF Target \in Scalar THEN {1} ELSE coord, Head(toMaster[source]).x)
  /\ toMaster' = Drop(toMaster, source)
  /\ mpc' = "any"
  /\ section' = 0
  /\ UNCHANGED <<source, stat, partSize, coord, taken, killed, slaveVars, toSlave>>

(***************************************************************************)
(* ATAG: the scalars of the answer, then the order to stop.                *)
(***************************************************************************)
Due == taken < Len(IoScalars)

TakeScalar ==
  /\ mpc = "result"
  /\ Due
  /\ Arrived(toMaster, source, "ATAG")
  /\ Overwrite(IoScalars[taken + 1], {1}, <<Head(toMaster[source]).x>>)
  /\ taken' = taken + 1
  /\ toMaster' = Drop(toMaster, source)
  /\ UNCHANGED <<mpc, source, stat, partSize, coord, section, killed, slaveVars, toSlave>>

DismissUncounted ==
  /\ mpc = "result"
  /\ ~Due
  /\ toSlave' = Send(toSlave, source, Stop)
  /\ mpc' = IF killed = W THEN "done" ELSE "any"
  /\ UNCHANGED <<serving, killed, mem, slaveVars, toMaster>>

Dismiss ==
  /\ mpc = "result"
  /\ ~Due
  /\ toSlave' = Send(toSlave, source, Stop)
  /\ killed' = killed + 1
  /\ mpc' = IF killed' = W THEN "done" ELSE "any"
  /\ UNCHANGED <<serving, mem, slaveVars, toMaster>>

Master ==
  Receive \/ ServeRead \/ Secure \/ TakeCoords \/ StoreValue \/ TakeScalar \/ Dismiss

-------------------------------------------------------------------------------
Over == mpc = "done" /\ \A s \in Slave : spc[s] = "done"
Finished == Over /\ UNCHANGED vars

Next == Master \/ (\E s \in Slave : SlaveStep(s)) \/ Finished

Spec == Init /\ [][Next]_vars

FairSpec ==
  /\ Spec
  /\ WF_vars(Master)
  /\ \A s \in Slave : WF_vars(SlaveStep(s))

-------------------------------------------------------------------------------
(***************************************************************************)
(* The receiver takes every message for what the sender meant: where the   *)
(* master expects an index, coordinates or a value of a slave, with some   *)
(* tag, the next message of this slave is that, and is about the variable  *)
(* the master finds at the index, although the two sides are printed by    *)
(* different functions and number the variables in two lists, and only the *)
(* master expects accesses to variables without dimensions.                *)
(***************************************************************************)
Wanted ==
  CASE mpc \in {"read", "write"} -> "coords"
    [] mpc = "value" -> "value"
    [] mpc = "result" -> IF Due THEN "value" ELSE "index"
    [] OTHER -> "index"

About ==
  CASE mpc = "read" -> InVars[partSize]
    [] mpc \in {"write", "value"} -> Target
    [] mpc = "result" -> "none"

Indexed(tag, i) ==
  CASE tag \in {"RTAG", "FRTAG"} -> InVars[i]
    [] tag \in {"WTAG", "FWTAG", "SWTAG"} -> IoVars[i]
    [] tag = "ATAG" -> "none"

InStep ==
  \A s \in Slave : toMaster[s] # <<>> =>
    LET m == Head(toMaster[s])
    IN  /\ m.what = IF s = source THEN Wanted ELSE "index"
        /\ s = source /\ Wanted # "index" => m.tag = stat /\ m.of = About
        /\ m.what = "index" => m.of = Indexed(m.tag, m.x)

(***************************************************************************)
(* A slave that reads back its own element after writing it gets what it   *)
(* wrote, although it does not wait for its write to be stored.            *)
(***************************************************************************)
ReadsOwnWrites ==
  \A s \in Slave :
    spc[s] = "await" /\ toSlave[s] # <<>>
      /\ Operand(s).var \in wrote[s] /\ s \in Operand(s).at
    => Head(toSlave[s]).x[s] = s

(***************************************************************************)
(* No update is lost or torn, of a scalar neither: the accesses are those  *)
(* of a shared memory, and when the master goes on all updates have been   *)
(* made.                                                                   *)
(***************************************************************************)
Shared == INSTANCE SharedMemory WITH joined <- (mpc = "done")

ImplementsSharedMemory == Shared!SharedSpec

(***************************************************************************)
(* No update of an array is lost or torn, also when the loop updates       *)
(* scalars besides, whose values come with the answers.                    *)
(***************************************************************************)
OfArrays(f) == [v \in Var \ Scalar |-> f[v]]

SharedArrays ==
  INSTANCE SharedMemory
    WITH Updated <- Updated \ Scalar, Owned <- Owned \ Scalar,
         mem <- OfArrays(mem), wanted <- OfArrays(wanted), joined <- (mpc = "done")

ImplementsSharedArrays == SharedArrays!SharedSpec

(***************************************************************************)
(* Every slave finishes its chunk, although the master turns a deaf ear to *)
(* all but one while a secure write is going on.                           *)
(***************************************************************************)
Termination == <>Over
=============================================================================
