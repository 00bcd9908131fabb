\* Two slaves, four iterations: a share of 2, divided by 4, is a chunk size of 0.
CONSTANTS
  W = 2
  Start = 0
  Bound = 4
  Fixed = FALSE
  Number = 4
  NumIn = 0
SPECIFICATION FairSpec
PROPERTIES
  Termination
