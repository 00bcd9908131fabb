\* Three slaves, eleven iterations from 1, chunks of 2: full chunks, a rest of 1.
CONSTANTS
  W = 3
  Start = 1
  Bound = 12
  Fixed = TRUE
  Number = 2
  NumIn = 1
SPECIFICATION Spec
INVARIANTS
  TypeOK
  NothingOutside
  Lockstep
  OneHolder
  KilledIsDismissed
  Overshoot
  CleanExit
  ExactlyOnce
  Inductive
PROPERTIES
  ImplementsParallelFor
