CONSTANTS
  Parts = {"log", "units", "plugins", "program", "fill", "grib", "gribindex", "felt", "gribwrite", "projection", "coords", "ncml", "ncdefine"}
  Loggers = {"A", "B"}
  LogThreads = {"t", "u"}
  MaxClasses = 3
  MaxImpls = 3
  ClassFirst = TRUE
  SetWhileLogging = FALSE
  UnitThreads = {"p", "q"}
  UnitNames = {"m", "wrong"}
  MaxSystems = 2
  Openers = {1}
  GribFiles <- MCFiles
  CommandLines <- MCLines
  InnerOptions <- MCInnerOptions
  MaxNested = 2
  FeltFiles <- MCFeltFiles
  Inputs <- MCInputs
  Output <- MCOutput
  Translations <- MCTranslations
  MaxFills = 2
  ReuseWriter = FALSE
  Parameters <- MCParameters
  VerticalAxes <- MCVerticalAxes
  Delta = 0
  FeltThreads = {"p", "q"}
  Unlocked = "nobody"
  MaxFeltReads = 1
  Unset = Unset
SPECIFICATION ProcessSpec
INVARIANTS ClassesOutliveCalls  WrittenAsAsked FeltServesTheFile WrittenFieldsAreTold SameAgain SystemsFitTheFile ModelAsDescribed FileAsConfigured
PROPERTIES FillsByCoordinate IndexedAsStored CellsByKey
CHECK_DEADLOCK FALSE
