\* Three slaves, ten iterations from 0: chunks of 3, 3, 3 and 1, shares of
\* 3, 3 and 4; and chunks of 6 and 4.  The slaves of the wide block stop.
CONSTANTS
  W = 3
  Start = 0
  Bound = 10
  Fixed = FALSE
  Number = 1
SPECIFICATION MCFairSpec
INVARIANTS
  DynamicOneHolder
  StaticSharesAgree
PROPERTIES
  ImplementsParallelFor
  EndsUnlessWide
CHECK_DEADLOCK FALSE
