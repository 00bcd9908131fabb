# A verification development for OMP2MPI and OMP2HMPP

OMP2MPI (`src/omp_to_mpi`) is a source-to-source compiler. It takes a C program
with OpenMP `parallel for` loops and prints an MPI program in which rank 0 (the
*master*) shares the iterations of each loop among the other ranks (the
*slaves*), collects their results, and goes on. A loop that has been replaced in
this way is called a *block* below. The translator itself is sequential; what is
hard about it is what it prints: a protocol between processes, assembled from
strings in several thousand lines of C++, whose correctness nobody can see in
one place and whose tests are a handful of runs of whole programs.

The models here are models of the **printed program**. The source is read as a
template: a definition maps to the lines of `trans_phase.cpp` that print the
code the definition stands for, and the variables of a model are the variables
of the printed code (`followIN`, `partSize`, `killed`, `offset`, `to`, `from`,
...). Two of the translator's own algorithms are modelled as well, because what
they decide can only be judged by running the result: the normalisation and
analysis of loop headers, and OMP2HMPP's placement of transfers to and from the
GPU. There a model translates a program and then says, or runs, what it does.

Contents: [Inventory](#1-inventory) ·
[Modules](#2-modules-and-the-code-they-model) ·
[Runs](#3-what-the-runs-check) · [Findings](#4-where-the-code-disagrees-with-what-is-said-of-it) ·
[Proofs](#5-what-is-proved) · [Limits](#6-what-is-not-modelled) ·
[Plan](#7-plan)

Line numbers without a file are lines of `src/omp_to_mpi/trans/trans_phase.cpp`.

## 1. Inventory

### 1.1 The printed MPI program

| Part | State | Operations | Where |
|---|---|---|---|
| Dynamic block, current style | master: `followIN`, `partSize`, `killed`, `to`, `stat`; slave: `offset`, `partSize`, loop variable, its copies of the arrays | seed every slave; serve whoever answers (store its results, give it the next chunk, the rest, or the stop message); serve remote reads and writes; slave: receive, run, answer, stop | `pragma_postorder`, 1130-1890 |
| Static block, current style | master: `to`, `from`, `partSize`, `offset`; slave as above | send each slave its share; collect slave by slave in rank order, serving its remote accesses meanwhile; stop it | same, the `_staticC` branches |
| Blocks of the old style | as above, with one message per variable | the same two schedules without remote accesses and with another end protocol | `useOldStyle`, 5858-6260 |
| Remote memory | the master's copies of the arrays; the slave in the middle of an iteration | `RTAG` read, `WTAG` write, `SWTAG` read-modify-write (`atomic`, `critical`), `FRTAG`/`FWTAG` whole rows | `handleMemory` 5653-5840, `operandMPIReads`/`Writes`, `transformConstructAST` 2222-3319 |
| Sequence of blocks | which ranks run the code between blocks | `putBarrier`, `divideTask`, `assignMasterWork`, `finalize` | 182-490, 2145-2220, 4187-4290 |

The parts interact by MPI messages only. A slave that is dismissed from one
block may be in the next one while the master still serves others: all blocks
share the communicator, the tags and the ranks, so that a message a block leaves
behind is a message of the next block.

### 1.2 The translator

| Part | State | Operations | Where |
|---|---|---|---|
| Analysis of a loop and of its variables | `_inVars`, `_ioVars`, `_reducedVars`, `_smart_use_table`, flags | cut the loop header into first value, bound and step; decide which variables are sent, returned, read remotely | 560-1130, `fill_vars_info` 3645-3911, `fill_smart_use_table` |
| Driver `s2s.cpp` | temporary files, `div.data`, the list of versions | split the input, run the compiler passes, double the divisor `dV`, compile, execute, time | `src/omp_to_mpi/s2s/s2s.cpp` |
| Loop normalisation | the syntax tree | rewrite a loop to begin with 0 and step 1 | `src/normalizeLoops/forNormalization/forNormalization.cpp` |
| OMP2HMPP | where a variable is valid (host, GPU) | place uploads, downloads and synchronisations of GPU codelets; inline functions; drive versions | `src/omp_to_hmpp/{outline,inline,s2s}` |
| Trace insertion | - | print tracing calls around loops | `src/add_traces` |
| Examples, HARP | - | inputs and generated outputs of the tools | `src/omp2mpiExamples`, `src/HARP`, `src/allSystemExamples` |
| Mercurium, gnulib, build files | - | the vendored compiler the phases plug into | the rest of `src/` |

### 1.3 What is hard, and what makes each part correct

* **Dynamic blocks** - results come from any slave in any order; the size of the
  next chunk is the size the last answer happened to have, in a variable that a
  remote read also overwrites; the end of the loop is a case distinction on
  exact equality; the loop that waits for answers ends by a counter. Correct
  means: every iteration is with exactly one process, results are stored where
  they belong, the counter counts what it should, everybody leaves, no message
  is left.
* **Static blocks** - three texts, printed for sender, slave and receiver,
  compute the place of a share independently; the remainder goes to the last
  slave; the master waits for ranks in order while later ranks want remote
  elements. Correct means: the three agree, nothing is lost, nobody waits for
  ever.
* **Old style** - the same obligations with an unguarded seeding loop and a stop
  message that is received where data was expected.
* **Remote memory** - reads, writes and read-modify-write sections of several
  slaves interleave at the master, each a series of messages received with
  `MPI_ANY_TAG`. Correct means: a read is answered, a secure write is not lost
  and excludes the others, the series of one slave is never mixed with
  another's.
* **Sequence of blocks** - correct means: a message of a block is received in
  that block.
* **Analysis, normalisation** - both work on texts that are cut at the first
  `=`, `<` or `>`; which end of the loop moves by how much depends on the
  comparison, the sign and the form of the step together. Correct means: the
  translated header enumerates the iterations of the original.
* **OMP2HMPP** - the phase looks at each codelet alone, from the first to the
  last, over a table of first and last uses that also counts the directives it
  has placed for earlier codelets; codelets may run asynchronously. Correct
  means: no codelet and no statement works on an old copy, results come home,
  and nobody waits for a codelet that was not called.
* **Reductions** - a partial result per chunk, folded in the order of answers.
  Correct means: each iteration's term is in the result once.
* **Driver** - correct means: a version is built from the output of its own
  passes, and the divisor stays within the share.

The full list of hazards, each at its line and with the properties that watch
it, is in `PROJECT.json` under `hazards`.

## 2. Modules and the code they model

```
Partition     Messages
      \        /
        Block  ------ INSTANCE ------> ParallelFor   (abstract specification)
       /  |  \
TaskFarm  |   OldStaticFarm
  |   \   StaticFarm
  |    OldDynamicFarm
DynamicFarm ------> ReductionFarm

DynamicFarm, StaticFarm, OldDynamicFarm, OldStaticFarm
        \_____ two instances each in _____/
               BlockSequence ---- INSTANCE ------> ForSequence   (abstract)

LoopHeader            Codelet

BlockProofs ---> DynamicFarmProofs    (also about ReductionFarm)
      |\              \------ INSTANCE ------> OldDynamicFarmProofs
      | \-----> StaticFarmProofs
      \-------> OldStaticFarmProofs
LoopHeader, MCBlocks -> LoopProofs    (instances of three of the four above)
BlockSequence -> BlockSequenceProofs  (two instances of each of the four)
RemoteMemory -> RemoteMemoryProofs

Messages -> RemoteMemory -> MCRemoteMemory
                 \------ INSTANCE ------> SharedMemory   (abstract specification)
```

| Module | What it is |
|---|---|
| `ParallelFor` | The abstract specification: what an OpenMP `parallel for` promises. Every iteration runs once; results become visible after the iteration ran, in sets of any size, once; the code behind the loop runs when all are visible. |
| `Partition` | Pure operators: the C expressions for the initial chunk size, the size of a share and its offset, in both styles, with the truncating division of C. |
| `Messages` | MPI as the printed programs use it (external): FIFO channels between pairs, buffered sends. Also the counting functions the history variables use. |
| `Block` | What all blocks share: the channels, the slave's loop, the service of a remote read, and the properties. |
| `TaskFarm` | What both dynamic masters share: `followIN`, `partSize`, `killed`, granting and dismissing. |
| `DynamicFarm` | The current dynamic block: `Seed`, `EndSeed`, `ServeChunk`, `ServeRead` for the master, and the slave's actions. |
| `OldDynamicFarm` | `useOldStyle`, dynamic. |
| `StaticFarm` | The current static block: `Seed`, `EndSeed`, `Collect`, `ServeRead`; what a reduction clause adds to the answers. |
| `OldStaticFarm` | `useOldStyle`, static: one message per variable, the stop message that also goes to rank 0 itself. |
| `SharedMemory` | The second abstract specification: what OpenMP promises of shared variables. An increment under `atomic` takes effect once and as a whole, before the loop is over; a plain write stores what was written. |
| `RemoteMemory` | The remote accesses, message by message: the slave's `secureWrite; mpiReads; line; mpiWrites` (`Start`, `Ask`, `Got`, `Write`) and the master's `handleMemory` (`Receive`, `ServeRead`, `Secure`, `TakeCoords`, `StoreValue`), with the lists `_inVars` and `_ioVars`, whose positions are the indices in the messages. Accesses are printed for names with a bracket (2321); `Tally` is a line that updates a scalar, in the slave's own copy, which comes back with the answer (`TakeScalar`). |
| `MCRemoteMemory` | The lists of variables of two loops, for TLC. |
| `ReductionFarm` | `DynamicFarm` with a reduction clause. A value is the account of what was folded into it, so that the results hold for every type; each action of the block is joined with what it does to the values. |
| `ForSequence`, `BlockSequence` | Two blocks after one another over the same channels, each an instance of one of the four block modules. A process moves on when it has left the first; nothing separates them. `TakeOwnStop` is the receive by which the master takes a message of its own. `ForSequence` is the abstract specification: two parallel loops with a barrier. |
| `LoopHeader` | A loop header on its way through the normaliser (`NormaliseFor`) and the analysis of OMP2MPI (`AnalyseFor`), against what C makes of it (`Iterations`). |
| `Codelet` | OMP2HMPP: one `Outline` step for each marked loop, from the first to the last, with the table of uses (`LastWrite`, `FirstRead`, and which first reads the clauses of later loops make the phase forget, `Forgotten`), the row of the `synchronize` and the placement of directives; then the actions `RunStatement`, `RunLoad`, `RunCall`, `Compute`, `RunWait`, `RunStore` execute what was made, with HMPP's semantics (external). |
| `MCBlocks` | Four blocks side by side on one loop, each an instance of its module on the same variables (`Few`, `Dynamic`, `Static`, `Wide`), chosen by a variable (`which`) that never changes. |
| `MCBlockSequence`, `MCLoopHeader`, `MCCodelet` | Programs, header values and functions for TLC. |
| `BlockProofs`, `DynamicFarmProofs`, `OldDynamicFarmProofs`, `StaticFarmProofs`, `OldStaticFarmProofs`, `LoopProofs`, `BlockSequenceProofs`, `RemoteMemoryProofs` | Lemmas and theorems, see section 5. |

How state and actions correspond to the code:

* **Control.** `mpc` is the master's place (first loop, second loop, behind the
  block), `to`/`from` its loop variables. `spc` is the slave's place: waiting in
  its receive, in the loop over the chunk, waiting for an element, having just
  got it, behind the block.
* **Atomicity.** A step of a process goes from one receive to the next: what a
  process does between two receives is local or a buffered send, and its effect
  on others is the messages it leaves. The sends that follow each other without
  a receive between them (offset, size, slices of arrays) are one message of
  the model, received as one. `Lockstep` is the property that justifies this: a
  slave never has anything in its channel but the series it is waiting for.
* **Messages.** A message is a record of tag, offset and size. The size of an
  `RTAG` message is the index of the variable, because the code receives both
  into `partSize`; the model keeps this reuse, which is one of the hazards.
  `RemoteMemory` does the opposite: there each `MPI_Recv` of the master is a
  step, because the question is whether the series that `transformConstructAST`
  prints for the slave and the one that `handleMemory` prints for the master
  agree, and what may come between their parts. A slave's sends between two of
  its receives are still one step, since they are buffered and keep their order.
* **Data.** The contents of arrays are abstracted to two history variables:
  `runs[i]` counts executions of iteration `i`, `merged[i]` counts how often
  the master stored its result. They are functions whose domain grows when
  something outside the loop is run, so that `NothingOutside` can be violated.
* **Texts.** In `LoopHeader` a piece of text is the number, comparison or step it
  stands for; the operators do to it what cutting and gluing the text does, such
  as losing an `=`. In `Codelet` a line number is a row of the program.
* **Clauses.** In `Codelet` a statement that is an OpenMP loop names arrays in its
  `shared`, `private` and `reduction` clauses. The phase sets the first reads of
  these, on the side (CPU or GPU) the loop is on, back to row 0 before it looks at
  the loop's body (1683-1797 of `outline_phase.cpp`).
* **What an array holds** in `Codelet` is the number of the statement that wrote
  it last, in two parts (front and rest), so that a loop over a part of an array
  differs from a loop over all of it. `Right` says what the function itself
  would have there.
* **HMPP** (external): a codelet has a copy of each of its arrays. What no
  `advancedload` sends is sent by the call; what no `delegatedstore` fetches is
  fetched when the codelet is waited for: at the call, or at the `synchronize`
  of an asynchronous one. The GPU runs a codelet at any time in between.
* **Integers** are unbounded. `Overshoot` bounds how far past the end `followIN`
  can get, which is what the width of its C type must allow.

Some operators appear in variants (`InChunk`, `InChunkShort`, `InChunkLong`;
`AllKilled`, `AllKilledButOne`; `HandOut`, `HandOutShort`; ...). The first of
each family named in the actions is the code; the others are plausible mistakes
in the same place. `PROJECT.json` (`mutants`) pairs each property with a mistake
that breaks it.

## 3. What the runs check

| Run | Instance | Shows |
|---|---|---|
| `dynamic_safe` | 3 slaves, iterations 1..11, chunks of 2, reads | Types, `Lockstep`, `NothingOutside`, `OneHolder`, `KilledIsDismissed`, `Overshoot`, `CleanExit`, `ExactlyOnce`, the inductive invariant, and that every behaviour is one of `ParallelFor` |
| `dynamic_zero` | 2 slaves, 4 iterations, divisor 4 | Violation of `Termination`, see section 4 |
| `static_safe` | 3 slaves, iterations 2..9 | Three computations of a share agree, shares of 2, 2 and 4 cover the loop, reads are answered, the block refines `ParallelFor` and ends |
| `remote_safe` | 2 slaves, 2 statements each: looks, plain and secure writes, atomic increments, of 2 arrays, and increments of a scalar | The two texts of the protocol agree, no update of an array is lost or torn, a slave reads back what it wrote, all finish |
| `remote_scalar` | 2 slaves, one increment of a scalar each | Violation of `ImplementsSharedMemory` |
| `reduction_live` | 3 slaves, iterations 2..10, a product, chunks of 2, reads | The term of every iteration is in one place and folded in once, in any order of answers; the block ends for everybody; each remote read is answered |
| `blocks` | 3 slaves, 10 iterations: chunks of 3, 3, 3, 1; shares of 3, 3, 4; one variable sent, or several; chunks of 6 and 4 in the current style | The current dynamic block is right when its seeding loop already dismisses a slave. The blocks of the old style are parallel loops for loops from 0 with a short rest; only slaves with several variables never leave |
| `sequence_safe` | 3 slaves, two loops of 7 iterations, all 8 pairs of kinds of one style | No message reaches the wrong block; the second loop starts after the first is complete; both end, unless the master is trapped by its own message |
| `sequence_reduction` | 2 slaves, a static block with a reduction, then any block | Violation of `RightBlock` |
| `header_safe` | all headers with ends in -2..3, steps up to 3 in each direction and form | Normaliser and blocks keep the iterations of regular loops |
| `header_closed` | the same | Violation of `BlockRunsClosedLoop` |
| `codelet_safe` | 4320 functions of 2 or 3 GPU loops and 2 or 3 statements over 2 arrays, with and without clauses, 5 choices of directives | Transfers and waits are right where the table of uses can be |

The properties, in words:

* `Lockstep` - for each slave exactly one thing exists at any time: a message to
  it, control inside its chunk, or a message from it.
* `OneHolder` - an iteration below `followIN` is with one slave or merged, never
  both, never lost; one at or above `followIN` is nowhere.
* `KilledIsDismissed` - `killed` is the number of slaves told to stop.
* `Overshoot` - `followIN` exceeds the bound by at most one chunk per dismissal.
* `SharesAgree` - what is sent, run and stored are the same iterations.
* `CleanExit` - when the master leaves no message to it is left and all slaves
  are dismissed.
* `ExactlyOnce`, `ImplementsParallelFor` - the loop is a parallel loop, at the
  end and at every step on the way.
* `InStep` - wherever the master expects an index, coordinates or a value with
  some tag, the next message of that slave is that, and the master takes it to
  be about the variable the slave meant.
* `ReadsOwnWrites` - a slave that reads an element it has written gets what it
  wrote, although it does not wait for the write.
* `ImplementsSharedMemory` - the variables are those of a shared memory; in
  particular increments under `atomic` are never lost.
* `ImplementsSharedArrays` - the same of the arrays alone, in a loop that also
  updates a scalar.
* `FoldedOnce`, `AccountOK` - at every step the master's reduction variable is its
  value before the loop with the terms of the merged iterations, each once; what
  a slave has run of its present chunk, and nothing else, is in its copy or
  behind its answer.
* `DynamicOneHolder`, `StaticSharesAgree` - `OneHolder` and `SharesAgree` for the
  instances of `blocks`.
* `RightBlock` - every message is received in the block it was sent in.
* `ImplementsForSequence` - two blocks are two parallel loops with a barrier
  between them, although the program has none.
* `IterationsKept`, `CountKept`, `BlockRunsLoop` - the normaliser keeps the values
  of the loop variable (for `>` with steps by one, their number); a block runs
  the iterations of its loop. `Regular` names the loops: towards their bound,
  meeting it with the last step, and not with `>` or `i -= k`.
* `BlockRunsClosedLoop` - a block runs the iterations of a loop with `<=` and step 1.
* `NoStaleRead`, `ResultsHome` - every codelet and statement works on what the
  function would have there, and all arrays are right at the return. With
  `delegatedstore` this is about functions in which the next access to an array
  a codelet wrote is a read the phase sees and does not forget for the clause of a
  loop behind it (`Regular`); without, about all.
* `TypeOK` of `Codelet` also says that the CPU never gets back an element that
  was not sent.
* `Termination`, `ReadAnswered`, `EndsUnlessTrapped`, `EndsUnlessWide`, `Returns` -
  liveness. The two "unless" name the only processes that may stay behind.

**Bounds.** The number of slaves is 2 or 3: with two, one slave can overtake
another; with three, the slave whose answer sets the next chunk size need be
neither the first nor the last. The iteration counts are the smallest that give
full chunks, a short rest, and slaves that return when nothing is left
(`dynamic_safe`: 2+2+2, then 2, 2, then 1); or fewer iterations than slaves; or
a share with a remainder. Channels need no bound: `Lockstep` keeps them at
length one in the current style. A slave makes at most one remote read in each
iteration (`got` lets it go on only by finishing the iteration); this bound
is what makes termination meaningful, since a body that read for ever would
never end, and one read per iteration already interleaves with everything else.
In `RemoteMemory` a chunk has two statements: enough for a write that is read
back, and for two slaves to be inside their secure updates of the same element,
each before or after another access. The indices of the variables in the two
lists are chosen to differ, so that a confusion of the lists shows.

For reductions a value is an account, so that no set of numbers bounds it; `*` is
the operation whose start value is not 0, and `+` is covered by the theorems. Two blocks are enough for a
sequence: a process can only be in neighbouring blocks of those that are still
open, because the master leaves a block when all slaves have been dismissed.
Header ends from -2 to 3 with steps up to 3 give empty loops, loops that meet
their bound and loops that step over it, in both directions; a loop with more
than 12 iterations is one that does not end. Two codelets over two arrays give
each order of accesses to an array between a write and the next read, and the
directives of the second meet those of the first at the same statement. With a
third a clause can make the phase forget a read, both harmlessly (the array is read
again where it counts, or was not written) and not (what `Regular` leaves out).

**Deadlock** is checked in the runs of single blocks of the current style and of
remote memory, where the state in which all processes have left the block
stutters explicitly (`Finished`). It is not checked where processes really stop:
`blocks` (slaves that wait for more after the stop message), the two runs of
`BlockSequence` (a trapped master; messages nobody takes), `LoopHeader` and
`Codelet` (a translation or a function is over).

**Fairness** (`FairSpec`): weak fairness of the master and of each slave. The
processes are operating-system processes that run on their own, and each has
one thing to do next; a receive returns when a message is there, so an enabled
step is eventually taken. Nothing is assumed about which slave a receive from
`MPI_ANY_SOURCE` picks: the fairness is that of the master as a whole, not of
its answers to a particular slave. That reads are answered all the same is a
result: other slaves run out of work. `Codelet` has weak fairness of its next-state
relation: the CPU goes on, and the GPU finishes what it was given.

## 4. Where the code disagrees with what is said of it

| Run | What happens |
|---|---|
| `dynamic_zero` | The even share is divided by the number in `div.data` and rounded down (1160). A divisor above the share gives chunks of 0: `followIN + 0` stays below the bound, an empty chunk is granted again and again, and nobody is ever dismissed. The driver offers the divisor to the user without a limit (`src/omp_to_mpi/s2s/s2s.cpp:960`) and doubles it from version to version. |
| `remote_scalar` | `n += 1` under `atomic` or `critical` has no bracket in its target, so that no remote access is printed for it (2321): it is done in the slave's own copy. Each slave's answer carries its copy (1799), and the master stores it over that of the answer before (1411): increments are lost. |
| `sequence_reduction` | In the current static block the slaves send partial results of a reduction (1839) which the master never receives: the reduction is lost, and the next block takes the messages for answers of its own. |
| `header_closed` | The condition of a loop is cut behind its first `=` (899) and chunks are handed out with `<`, so that `i <= n` loses its last iteration unless the loop was normalised before (option `-z`). |

More disagreements are in the models, though no run is kept for them:

* if exactly one chunk is left, "shorter than a chunk" (6069) is false and the
  last chunk of the old dynamic block is given to nobody; the slave is neither
  given work nor dismissed. The other style has the corrected condition, with
  the old one beside it in a comment (1443). (`OldDynamicFarm` with `W = 2`,
  `Start = 0`, `Bound = 8`, `Fixed = FALSE`, `Number = 2` violates `OneHolder`);
* the shares of the old static block are counted from 0 (6124) although the loop
  begins elsewhere (`OldStaticFarm` with `Start = 1` violates `NothingOutside`);
* the old seeding loop (5962) gives every slave a chunk without looking at the
  bound, so that with fewer iterations than slaves iterations past the end run
  (`OldDynamicFarm` with `W = 3`, `Start = 0`, `Bound = 2` violates
  `NothingOutside`);
* with no variable to send, the old static block sends the offset
  `(to - 1) * partSize` with `partSize` already divided by `div.data` (5858),
  while shares are run and stored undivided: `BlockIsPrinted` excludes it;
* in the old static block the stop message is one message, but the slave expects
  as many as there are variables (6136) and stays: `EndsUnlessWide` says so;
* the old static master sends the stop message to itself as well (5957): if a
  dynamic block follows, its serving loop may take it and waits for ever
  (`EndsUnlessTrapped` fails without `trapped`);
* a reduction with `-` comes back with the wrong sign, those with `&`, `|` and `^`
  start from a value that is not neutral (`FoldedOnce` fails for them);
* the normaliser shifts the values of a loop with `>` by a step (289), does not
  turn `i -= k` round (74), adds an iteration to a loop with `<=` that steps over
  its bound (313), and moves a step from the beginning of a body to its end
  (213): these are the cases `Regular` leaves out of `IterationsKept`;
* with `delegatedstore`, a statement of the CPU that writes a part of an array
  between a codelet that wrote it and its first read, or `x[i] += ...`, is
  overwritten by what is fetched at the first read (`fill_where_put_dS`): the
  functions `Regular` leaves out of `NoStaleRead`;
* a later OpenMP loop with a clause that names an array makes the phase forget the
  first read of it that was recorded (`outline_phase.cpp:1692`): with three GPU loops
  that share `x` the result of the first is fetched and waited for at the third, and
  the second works on an old copy. These functions, too, are left out by `Regular`
  (without `Remembered` in it `codelet_safe` fails);
* the analysis treats every comparison as `<` and every step as 1 (`BlockRunsLoop`
  leaves the loops out for which that is wrong);
* for `x[k]++`, `k` not being the loop variable, the line `(coordVector[n] = k(;` is
  printed (3178), which does not compile; for a scalar `n++` the text to replace is
  empty (3220) and `replaceAll` (3636) does not end. `RemoteMemory` has updates as
  the other path prints them, `x[k] += 1`;
* `SWTAG` is served as a plain write when the block has no variables to read
  (5689), although the slave sends the index once more;
* `a[i]++` under `atomic`, with `i` the loop variable, sends `SWTAG` and no write
  (3277): the master stays in the loop of the secure write. The statements of
  `RemoteMemory` leave this case out.

The old style is what the constructor of the phase selects
(`_oldMPIStyle` is 1); the current style is what the generated programs in
`src/allSystemExamples/mpi` look like.

## 5. What is proved

The two blocks of the current style are proved correct for **every** number of
slaves, every first value and bound, positive or negative (the dynamic one also
when the loop runs backwards, that is, not at all), every chunk size and every number
of remotely read variables; the static block of the
old style for every number of slaves and of variables, and every loop from 0; the
dynamic one of the old style wherever its two defects do not show; two of these
blocks one after the other, in all pairs of kinds of one style;
remote memory for every
pair of lists of variables and every number and choice of statements; the
treatment of loop headers for every set of ends and steps. The assumptions are
those on the constants:

* `BlockAssumption` - at least one slave (the printed code divides by
  `size - 1`), integer bounds;
* `FarmAssumption` - `div.data` holds a positive number;
* `NumInAssumption` - `NumIn` is a natural number;
* `StaticAssumption` - the same, and that the loop of a static block does not begin
  behind its bound (its shares would have negative sizes);
* `ChunksAssumption` - the same of `div.data` for the blocks side by side;
* `SequenceAssumption` - all of these for a sequence, whose loops begin with 0, and
  that its blocks are of one style;
* `MemoryAssumption` - at least one slave, two lists of variables; what is updated under
  `atomic` is in both, and scalars that are written are updated in no other way;
* `HeaderAssumption` - ends are integers, steps positive (their direction is
  told by the form of the step).

Some groups of theorems have a hypothesis beyond these:

* `Sums`, for the results about reductions: the operation is `+` or `*`, the two
  whose partial results start from a neutral value and keep their sign;
* `NoReduction`, for `Lockstep` and `CleanExit` of the static block: with a
  reduction clause both fail, since the partial results are not received.
  `LeftoversCorrect` says what stays behind then, without the hypothesis;
* `BlockIsPrinted`, for the static block of the old style: the loop does not run
  backwards, the numbers of variables are natural and some variable comes back
  (otherwise the printed program is not one that returns results), and, in a
  block that sends no variable, `div.data` leaves the share as it is (section 4);
* `FromZero`, for those of its results that speak of the iterations of the loop:
  the loop begins with 0. `SharesAgree` and the protocol need no such thing;
* `SeedsFit` and `RestIsShorter`, for the dynamic block of the old style: the first
  chunks of all slaves lie in the loop, and a number of whole chunks never ends
  exactly at its bound. These are the two cases of section 4 in which the block is
  wrong (5962, 6069). `SeedsFitEach` proves the first from what a user can see: at
  least one iteration for each slave, and a chunk size that `div.data` divides and
  does not fix;
* `LoopFits`, for the four blocks of `MCBlocks` on one loop: `SeedsFit` and
  `RestIsShorter`, which the old dynamic block needs, and more than four iterations'
  worth of bound, from which the chunk size of the block with few chunks is taken.
  `BlocksRefine` also supposes that the loop begins with 0, for the old static blocks;
* `FirstFits`, for sequences: a static block of the current style that comes first has
  no reduction clause (the run `sequence_reduction` shows what happens with one); one
  of the old style that comes first is as `BlockIsPrinted` says and sends one message
  to each slave (with several its slaves never leave it, `WideTraps`, and take the
  messages of the next block); the loop of a dynamic block of the old style that comes
  first is as `SeedsFit` and `RestIsShorter` say. Of the second block nothing is
  supposed for `RightBlock`;
* `SecondFits`, for the refinement of a sequence: the same of the loop of a second
  block of the old style, but any number of messages and of reductions. The constants
  of `sequence_safe` satisfy `FirstFits` and `SecondFits`, those of `blocks` `LoopFits`;
* `ReadsSomething`, for all results about remote memory: the loop reads some
  shared variable. Without any, the master takes the announcement of an update
  for a plain write (5689), one of the disagreements of section 4.

| Theorem | Statement |
|---|---|
| `TypeCorrect` (`DynamicFarmProofs`) | `Spec => []TypeOK` |
| `InductiveCorrect` | `Spec => []Inductive` |
| `LockstepCorrect`, `NothingOutsideCorrect`, `OneHolderCorrect`, `KilledIsDismissedCorrect`, `OvershootCorrect`, `CleanExitCorrect`, `ExactlyOnceCorrect` | the safety properties of `dynamic_safe`, each from `Inductive` |
| `Refinement` | `Spec => ImplementsParallelFor`: the block implements the abstract loop |
| `ReductionIsFarm` (`DynamicFarmProofs`) | `ReductionSpec => Spec`: with a reduction clause the block is still the block, so that all of the above holds of it |
| `AccountCorrect`, `FoldedOnceCorrect`, `ReducedCorrect` | for `+` and `*`: at every step each slave's copy, each posted partial result and the master's variable hold the terms they should, each once; after the block the variable has the value of the sequential loop |
| `InductiveCorrect`, `TypeCorrect`, `SharesAgreeCorrect`, `ExactlyOnceCorrect` (`StaticFarmProofs`) | the static block: each slave runs its share, the master stores it at the place the slave worked on, and together the shares are the loop |
| `LockstepCorrect`, `CleanExitCorrect` | the static block without reduction variables leaves nothing behind |
| `LeftoversCorrect` | with them, it leaves one message for each variable and slave |
| `Refinement` | the static block implements the abstract loop, with or without reduction variables |
| `OldIsFarm` (`OldDynamicFarmProofs`) | `Spec => Farm!Spec`: the old dynamic block implements the current one, with its answers retagged |
| `TypeCorrect`, `OneHolderCorrect`, `KilledIsDismissedCorrect`, `NothingOutsideCorrect`, `CleanExitCorrect`, `ExactlyOnceCorrect`, `Refinement` | the results about the current dynamic block, for the old one |
| `StagesCorrect`, `TypeCorrect`, `SharesAgreeCorrect`, `LeftoversCorrect` (`OldStaticFarmProofs`) | the static block of the old style, wherever the loop begins: the rounds of messages are kept apart, the master stores where the slave worked, and only its own stop message stays behind |
| `CleanExitCorrect`, `WideTraps` | with one variable to each slave all leave; with several none ever does |
| `InductiveCorrect`, `ExactlyOnceCorrect`, `NothingOutsideCorrect`, `Refinement` | for loops from 0, it implements the abstract loop |
| `TypeCorrect`, `IterationsKeptCorrect`, `CountKeptCorrect`, `BlockRunsLoopCorrect` (`LoopProofs`) | the properties of `header_safe`, for all loops `Regular` and `Counted` name |
| `BlockCorrectAlways`, `DynamicOneHolderCorrect`, `StaticSharesAgreeCorrect`, `BlocksRefine` (`LoopProofs`) | the safety properties of `blocks`: whichever block was chosen has the invariant of its own module, and is the abstract loop |
| `SequenceCorrect` (`BlockSequenceProofs`) | `Spec => []SequenceOK`: what is in the channels while two blocks overlap |
| `RightBlockCorrect` | `Spec => RightBlock`: every message is received in the block that sent it |
| `SequenceRefines` | `Spec => ImplementsForSequence`: two blocks are two parallel loops with a barrier between them |
| `ProtocolCorrect`, `TypeCorrect`, `InStepCorrect` (`RemoteMemoryProofs`) | what a slave sends and what the master expects are the same, and about the same variable |
| `ReadsOwnWritesCorrect` | a slave reads back what it wrote |
| `Refinement` | `Spec => ImplementsSharedArrays`: no increment of an array element is lost or torn, and all are made when the loop is over |

**Dynamic block.** None of the properties is inductive alone. `Inductive` (end of `DynamicFarm`,
checked by TLC as an invariant of `dynamic_safe`) consists of

* `TypeOK` and `Lockstep`: that the message the master takes is the only thing
  that exists for this slave, so that taking one step for a slave cannot disturb
  what is known of its other states;
* `SlaveChunkOK`: a chunk that is about lies in the loop, is no longer than the
  first chunk, and is empty only if all are. Without the last part a slave could
  return size 0, the master would grant 0 for ever, and nothing could be said
  of `followIN`;
* `MasterOK`: what `followIN` and `killed` say at each place of the master. That
  a dismissal implies `Bound <= followIN` is the heart of it: the serving loop
  dismisses only *if* the next chunk would end past the bound, so that it could
  in principle leave a slave without an answer (`DismissIfPast`);
* `OnePlace` and `RanOnce` for each iteration: `OneHolder` without cardinalities,
  and that `runs` is what the places say it is;
* `KilledIsDismissed` and `Overshoot`.

The proof has a lemma for each action. `Frame` and `Quiet` state once what
follows for all slaves an action does not touch; `HandOutInductive`,
`DismissInductive` and `ScheduleInductive` treat the scheduling text that is
printed for both the seeding and the serving loop, and both masters' lemmas use
them. `ExactlyOnce` follows because in the end all slaves are dismissed, nobody
holds anything, and `followIN` is at or behind the bound.

`FoldedOnce` is not inductive either: the master folds in what a slave posted, so
that what is posted must be known to be exactly the chunk that is merged with it,
and what is posted is the copy of a slave that was reset when it took the chunk.
`AccountOK` says this of all three places, in terms of `Ran`, and `Inductive`
supplies that an iteration that runs has not run before and that a slave has one
chunk at a time. The lemmas that show the steps of the block to be quiet are
used again.

**Dynamic block of the old style.** It is not proved again but shown to be a dynamic
block of the current style (`Farm`, an instance of `DynamicFarmProofs` without remote
reads, in which an answer with tag 0 stands for one with `ATAG`). The two texts
differ in three places: the seeding loop does not look at the bound, the rest is
granted under a stricter condition, and no tag is looked at. That they nevertheless
do the same needs an invariant of its own (`Mapped`): while anything is left,
`followIN` is a whole number of chunks after the first iteration, and every size that
a slave holds or returns is that of a whole chunk (`WholeChunks`), so that what is left
is never exactly the size that came back; and in the seeding loop `followIN` is
`(to - 1)` chunks after it (`Seeding`). Each action then is an action of `Farm`, whose
invariant carries over with it, and `SamePlaces` translates the properties back.

**Static block.** Here the master is ahead of nobody: it sends all shares, then
collects them by rank. `Inductive` names for each slave the stage it is in -
waiting, with a share on its way, at work, having answered, collected - with all
that the stage says of its channels and variables (`StageOK`), and says which
stages there are at each place of the master (`MasterOK`). `ShareHistory` says of
the iterations of a share how often they ran and were stored. What makes the
shares a partition of the loop is arithmetic, stated apart from the steps: a share
lies inside the loop (`ShareInside`), two shares have no iteration in common
(`SharesApart`), and every iteration is in one (`SharesCover`), although the size of
a share is rounded down and the last share takes the remainder. The results of
`BlockProofs` about the slave's loop are shared with the dynamic block, and the
arithmetic is there too, since the old style has the same shares.

**Static block of the old style.** A share and an answer are rounds of several
messages here, one for each variable (`PerRound`, `PerAnswer`), of which each
repeats offset and size. `Stages` says of a slave in which stage it is and how much
of a round has been received and how much is still in the channel; it is inductive
by itself, for every first value of the loop, and gives `SharesAgree`. The stop
message is one message whatever the length of a round: with `PerRound = 1` the
last stage (`Told`) ends with a slave that has left (`CleanExitCorrect`), with more
it cannot (`WideTraps`), which proves what `EndsUnlessWide` allows for. The
iterations come in a second layer, `Histories`, which is `ShareHistory` over the
stages of this style; only here the loop has to begin with 0.

**Blocks side by side.** The invariant (`BlockCorrect`) is that of the module of the
block that `which` names. A step of the instance in `MCBlocks` is shown to be one of the
instance of the proof module, whose lemmas then apply; for `Few` the variables of
`ReductionFarm`, which the block does not have, are constants.

**Sequences.** The question is what of the first block is left in the channels when a
process is in the second. `SequenceOK` answers it in two parts:

* while the master is in the first block (`InFirst`), the second has not begun
  anywhere (`Unbegun`): its master has sent nothing, and a slave that is through with
  the first block waits. Therefore every step is one of the first block alone, and
  the invariant of that block holds (`FirstOK`), whichever of the four it is. All
  messages are marked with block 1 (`MarkedFirst`);
* when the master leaves, the invariant of each block says what is still about
  (`Separate` of `BlockProofs`): nothing in the channels to the master,
  and for each slave that has not left one stop message. From then on (`InSecond`)
  such a slave can do nothing but take it (`LeavesFirst`), and in every channel what
  is marked with 2 stands behind it. For this part nothing needs to be known of the
  second block but that its master only appends to the channels to the slaves and a
  slave only takes the head of its own (`MasterSends`, `SlaveTakes`).

`RightBlock` follows, since what is taken is always the head. `SequenceOK` speaks of
the marks, which are histories: that they are as many as the messages (`Marks`) and how
they change (`TrackedMarks`) is proved once for all channels.

For the refinement the second block must be a block alone as well. Its channels are
what is behind the stop message (`toSlave2`, and `toSelf2` for rank 0): on these each
step of the second block is a step of its module (`DynamicBehindMaster` and the seven
lemmas like it), a slave that takes its stop message changes nothing of them, and nor
does the master that takes a stop message of its own (`SecondMoves`). When the master
leaves the first block they are empty (`NothingIsSent`), so that the second block begins
in its initial state, and its own invariant (`SecondOK`) and refinement carry over.
A step is thus one of the first parallel loop before the master has left it, and one of
the second afterwards (`NextLoops`), which is the barrier the program does not have.

**Loop headers.** `Flow` says what the header is after each pass, as a function of
the loop it began as, and the properties follow from facts about arithmetic
progressions: which values a loop takes before and after it is normalised.
That the number of values is kept is shown with a bijection between them.

**Remote memory.** What makes the protocol right is that a slave may be many
messages ahead of the master, in the middle of anything. `Protocol` states it
without a script of the messages to come:

* `Line` - any two neighbours among the message the master is at and the
  messages on their way are such that the second may follow the first
  (`Follows`). This is inductive because sending looks only at the last message
  and receiving removes only the first;
* `Control` - the place of the slave in its statement says what the last of its
  messages is, and what it may still send; `Answers` that a slave has an answer
  only while it waits;
* `MasterOK`, `Served` - the place of the master says which message of the slave
  it serves it has taken last, and that in a secure section it has taken from
  nobody else.

Each action of a slave appends a piece of the line that follows its end; each
action of the master takes the head, whose successor `Line` restricts. `InStep`
is then the meaning of `Follows` at the head.

`ReadsOwnWrites` needs to look through the channel: `OwnWrites` says that an element a
slave wrote either still has a write of it on the way from that slave, or holds
what was written (`Remembered`), and that an answer was taken from the memory
behind these (`Told`). It rests on the channels being first-in first-out, and on
nobody else writing the element.

The refinement needs accounting: `Accounted` adds to `Protocol` that what the slaves
intend (`wanted` of `SharedMemory`) is what the memory holds, and one for each
slave that is on its way to store an increment (`Account`), that between the read
of an update and its write the element does not change (`Known`, `UpdateSent`), and
that the master has left only when all slaves were dismissed (`DismissedAre`). When
it leaves, no slave has an increment under way (`Settled`).
Plain writes and increments are by `Owned` and `Updated` about different variables.
A line that updates a scalar changes no array, nor does a scalar of an answer
(`TakeScalar`), so that both are steps in which the shared arrays stutter.

Only model-checked:

* all liveness properties (`Termination`, `ReadAnswered`, `EndsUnlessTrapped`,
  `EndsUnlessWide`, `Returns`), which are out of the prover's reach;
* `Codelet` (`TypeOK`, `NoStaleRead`, `ResultsHome`): a function there is a sequence of
  statements to which each `Outline` step inserts directives by flattening, so that
  what it makes of a function is
  known only by induction over it.

## 6. What is not modelled

* Which rows a transfer of rows covers (`FRTAG`, `FWTAG`; `RemoteMemory` has the
  protocol of these transfers, not the arithmetic); slices of arrays that are
  returned with the answer while others update them remotely; the lengths of
  messages; reductions of static blocks, whose partial results are not received.
* Statements with races: `RemoteMemory` enumerates the statements of a race-free
  loop. What an unprotected update does is undefined in OpenMP as well.
* The code between two blocks: which statements are left to the master, and what
  slaves that run the others see of what the master computed.
* In `LoopHeader`: steps with `*` and `/`, several steps in one loop (the
  normaliser gives up), nested loops. A loop in which C would go on for ever is
  one with more than `Limit` iterations.
* In `Codelet`: loops and branches around codelets, groups with their allocation,
  `noupdate` and release, reductions, calls of functions.
* The rest of the translator: classification of variables, fresh names, clauses,
  the drivers (which start programs and read files and clocks), inlining,
  tracing. They rewrite texts, and keep no state a property could relate.
* A lost or failing process: MPI programs abort as a whole, and the code handles
  no errors.
* One process only (`size - 1 = 0`): the program divides by zero before the
  block.
* A static block of the current style with no variable to send: the printed text
  is unbalanced and does not compile, so there is no program to model.
* Third-party code (Mercurium, gnulib), examples and build files.

## 7. Plan

Done: `Partition`, `Messages`, `ParallelFor`, `Block`, the four blocks, `ReductionFarm`,
`SharedMemory`, `RemoteMemory`, `ForSequence`, `BlockSequence`, `LoopHeader` and `Codelet`;
the safety proofs of both blocks of the current style, of both of the old style, of
reductions, of sequences of blocks, of loop headers and of remote memory. What could
follow:

1. `RowRanges`: which rows the transfers before and after a chunk cover, as
   operators over first row, last row, start and end of the chunk, against the set
   of rows the loop uses. The printed first row of a write before the chunk is a
   truth value (2575), so that reads and writes are expected to differ.
2. Slices in the answers of `RemoteMemory`, elements that are indexed by the loop
   variable.
3. `Codelet` with a loop around a codelet, and with groups.

A theorem worth proving: what an `Outline` step of `Codelet` keeps of the table of uses.
