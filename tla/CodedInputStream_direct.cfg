CONSTANTS
  Size = 5
  BlockSize = 2
  MaxInt = 3
  MaxVarint = 2
  Ends = {0, 3}
  FlatSize = 2
  MaxDepth = 2
SPECIFICATION Spec
INVARIANT DirectNotEmpty

