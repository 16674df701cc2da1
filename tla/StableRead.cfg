CONSTANTS
  i1 = i1
  i2 = i2
  x = x
  y = y
  Inodes = {i1, i2}
  Chunks = {x, y}
  MaxSize = 2
  NoFollow = FALSE
  MaxClock = 3
  Missing = Missing
  Link = Link
SPECIFICATION Spec
INVARIANTS StableInv
PROPERTIES ReturnsTheFileAsItWas
SYMMETRY Symmetry
