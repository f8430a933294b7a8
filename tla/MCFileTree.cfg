SPECIFICATION FairSpec
CONSTANTS
  a = a
  b = b
  x = x
  y = y
  Names = {a, b}
  Contents = {x, y}
  MaxDepth = 4
  Trees <- SomeTrees
  Arguments <- Short
  Threads = {t1, t2}
  MaxCalls = 2
INVARIANT
  CallsExact
PROPERTIES
  OnlyThere
  EveryCallReturns
\* The threads come to rest when they have made their calls.
CHECK_DEADLOCK FALSE
