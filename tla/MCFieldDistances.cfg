CONSTANTS
  Parts = {"fields"}
  Q = 4
  Circle = 16
  XAxes <- MCXAxes
  YAxes <- MCYAxes
  PointsX <- MCPointsX
  PointsY <- MCPointsY
  InSize <- MCInSize
  OutSize <- MCOutSize
  Positions <- MCPositions
  Slices <- MCSlices
  Nan = 99
  Readers = {1}
  VSystems <- MCVSystems
  VTemplates = {"w", "t", "salt"}
  VTimes = 2
  VUnlimited = TRUE
  Field <- MCField
  ValidRange <- MCValidRange
  VTypes = {"pressure", "height", "altitude", "depth"}
  VMethods <- MCVMethods
  VLevels <- MCVLevels
  VAxes = {"plev", "alt", "time"}
  MaxVerticalCalls = 1
  MaxVerticalReads = 1
  InnerAxis <- MCInnerAxis
  OuterAxis <- MCOuterAxis
  UndefinedInner <- MCUndefinedInner
  UndefinedOuter <- MCUndefinedOuter
  Smoothings <- MCSmoothings
  InnerVars <- MCInnerVars
  OuterVars <- MCOuterVars
  MaxCalls = 4
  Systems <- MCSystems
  Alone <- MCAlone
  Vectors <- MCVectors
  Grids <- MCGrids
  MaxChanges = 3
  OldValues <- MCOldValues
  TimeSpecs <- MCTimeSpecs
  TimePresent <- MCTimePresent
  MaxTimeChanges = 1
  PInput <- MCPInput
  PSystems <- MCPSystems
  POperations <- MCPOperations
  MaxPOps = 3
  QData <- MCQData
  Lower <- MCLower
  Present <- MCPresent
  VectorPairs <- MCVectorPairs
  OneDirection = TRUE
  LastPos = 2
  MaxSetUp = 2
  MaxReads = 3
  QLengths <- MCQLengths
  QValid <- MCQValid
  Configs <- MCConfigs
  NaN = 91
  Fill = 92
SPECIFICATION StreamsSpec
CHECK_DEADLOCK FALSE
INVARIANT DistancesOfNeighbours
