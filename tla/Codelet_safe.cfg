CONSTANTS
  x = x
  y = y
  Arrays <- XY
  Sources <- SomeFunctions
SPECIFICATION Spec
INVARIANTS
  TypeOK
  NoStaleRead
  ResultsHome
PROPERTIES
  Returns
\* The program stops at the return.
CHECK_DEADLOCK FALSE
