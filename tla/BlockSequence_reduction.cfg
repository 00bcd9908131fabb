\* A static block with a reduction clause and any block after it.
CONSTANTS
  Programs <- StaticFirst
  W = 2
  Bound1 = 5
  Bound2 = 5
  Fixed = FALSE
  Number = 1
  NumIn = 1
  Inputs = 1
  Outputs = 1
  Reduced = 1
SPECIFICATION Spec
PROPERTIES
  RightBlock
CHECK_DEADLOCK FALSE
