SPECIFICATION Spec
CONSTANTS
  None = None
  x = x
  y = y
  m = 5
  k = 2
  Widths = {2, 4, 8}
  Elements = {x, y}
  Lists <- SomeLists
  Rand <- Drawn
  BitXor <- XorBits
  Objects = {f1, f2}
  Amounts <- SomeAmounts
SYMMETRY Names
INVARIANTS
  TypeOK
  ReferencesSound
  CountersExact
  CountsKept
