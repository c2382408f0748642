SPECIFICATION Spec
CONSTANTS
  SizeMod = 8
  Shapes <- SmallShapes
  Lengths = {0, 2}
  Args <- SmallArgs
  Strangers = {"station"}
  Axes <- SmallAxes
  NoAxis = NoAxis
INVARIANTS SelectionInside TimeSliceFollows
