\* Three slaves, eight iterations from 2: shares of 2, 2 and 4.
CONSTANTS
  W = 3
  Start = 2
  Bound = 10
  NumIn = 1
  Reduced = 0
SPECIFICATION FairSpec
INVARIANTS
  TypeOK
  Lockstep
  SharesAgree
  CleanExit
PROPERTIES
  ImplementsParallelFor
  Termination
  ReadAnswered
