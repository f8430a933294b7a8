SPECIFICATION Spec
CONSTANTS
  None = None
  x = x
  y = y
  m = 10
  k = 2
  Elements = {x, y}
  HashFunctions <- OneHash
  Lists <- SomeLists
  Seeds <- OneSeed
  DefaultSeed = 0
  Rand <- Drawn
  BitXor <- XorBits
  Objects = {f1, f2}
SYMMETRY Names
INVARIANTS
  IInv
  NoFalseNegatives
  Exact
