SPECIFICATION Spec
CONSTANTS
  SizeMod = 64
  Dims <- MCDims
  OrgLength <- MCOrgLength
  Unlimited = "time"
  Vars <- MCVars
  Shape <- MCShape
  InMemory <- MCInMemory
  Depends <- MCDepends
  AxisValues <- MCAxisValues
  Boxes <- MCBoxes
  XDim = "x"
  YDim = "y"
  MaxElements = 8
  Picks <- MCPicks
  Starts = {0, 1}
  Counts = {0, 2}
  Ends <- MCEnds
  AxisBounds <- MCAxisBounds
  Selections <- MCSelections
INVARIANTS JoinsInLogicalOrder
