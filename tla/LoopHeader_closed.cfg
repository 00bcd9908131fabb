CONSTANTS
  Ends <- SomeEnds
  Strides <- SomeStrides
  Limit = 12
SPECIFICATION Spec
INVARIANTS
  BlockRunsClosedLoop
\* The tools stop when they have printed the loop.
CHECK_DEADLOCK FALSE
