CONSTANTS
  a = a
  b = b
  g = g
  x = x
  y = y
  p = p
  q = q
  Global = g
  Names = {a, b}
  DimNames = {x, y}
  Dims = {1}
  Shapes <- MCShapes
  Abouts = {1}
  AttrNames = {p, q}
  Values = {1}
  MaxAttributes = 2
SPECIFICATION Spec
SYMMETRY Interchangeable
INVARIANTS CacheFresh AttributesOwned
PROPERTIES CheckedCallsKeepShapes RenameMovesAll
