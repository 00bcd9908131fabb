\* Three slaves, seven iterations in each loop, chunks of 2 and a rest of 1; no
\* reductions.  A trapped master has stopped for good.
CONSTANTS
  Programs <- AllPairs
  W = 3
  Bound1 = 7
  Bound2 = 7
  Fixed = FALSE
  Number = 1
  NumIn = 1
  Inputs = 1
  Outputs = 1
  Reduced = 0
SPECIFICATION FairSpec
PROPERTIES
  RightBlock
  ImplementsForSequence
  EndsUnlessTrapped
CHECK_DEADLOCK FALSE
