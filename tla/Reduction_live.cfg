\* Three slaves, nine iterations from 2, chunks of 2: full chunks, a rest of 1.
CONSTANTS
  W = 3
  Start = 2
  Bound = 11
  Fixed = TRUE
  Number = 2
  NumIn = 1
  Operation = "*"
SPECIFICATION ReductionFairSpec
INVARIANTS
  FoldedOnce
  AccountOK
PROPERTIES
  Termination
  ReadAnswered
