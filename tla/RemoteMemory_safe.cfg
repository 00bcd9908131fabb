\* Two slaves with two statements each on two arrays and a counter.
CONSTANTS
  W = 2
  InVars <- MixedRead
  IoVars <- MixedWritten
  Scalar = {"n"}
  IoScalars <- CountersSent
  Updated = {"x", "n"}
  Statements = 2
SPECIFICATION FairSpec
INVARIANTS
  InStep
  ReadsOwnWrites
PROPERTIES
  ImplementsSharedArrays
  Termination
