\* Two slaves add to a counter that is not an array.
CONSTANTS
  W = 2
  InVars <- CounterRead
  IoVars <- CounterWritten
  Scalar = {"n"}
  IoScalars <- CountersSent
  Updated = {"n"}
  Statements = 1
SPECIFICATION Spec
PROPERTIES
  ImplementsSharedMemory
