-------------------------- MODULE GribApiCDMWriter --------------------------
(* A stream written as GRIB messages.  One handle is made from a template   *)
(* and filled anew for every field: the grid once for a coordinate system,  *)
(* the time for a variable, level, parameter and values for a field.  What  *)
(* is not set again stays in the handle and goes into the next message.     *)
EXTENDS Integers, Sequences, FiniteSets, SequencesExt, FiniteSetsExt, TLC

CONSTANTS
  GribSources,    \* what may be written: [systems, variables]
  GribConfigs,    \* the configurations: [append, omitEmpty, template, global, axes, parameters]
  GribVersions,   \* a subset of {1, 2}
  UnitScales,     \* <<unit, unit of GRIB>> -> [slope, offset]
  BeyondArray,    \* what may be read behind the coefficients of a hybrid axis
  MaxGribWriters  \* bound on the writers, one after the other

VARIABLES gribFile,  \* the messages in the file
          gribOut    \* the writer
gribWriterVars == <<gribFile, gribOut>>

NoTime == -1
NoAxis == [name |-> "none"]
Scaled(value, slope, offset) == slope * value + offset

-----------------------------------------------------------------------------
(* The axes of a grid.  A projection is set key by key: a stage that fails  *)
(* leaves what the ones before it have set.                                 *)
Stage(fails, sets) == [fails |-> fails, sets |-> IF fails THEN << >> ELSE sets]
Parameter(projection, name, otherwise) ==
  IF name \in DOMAIN projection.parameters THEN projection.parameters[name] ELSE otherwise
Increment(axis) == axis[2] - axis[1]
Size(value) == IF value < 0 THEN -value ELSE value
TooSmall(s) == Len(s.x) < 2 \/ Len(s.y) < 2
\* Longitudes in degrees; GRIB 1 only raises negative ones.
Clamped(lon, version) ==
  IF lon < 0 THEN lon % 360 ELSE IF version = 2 /\ lon > 360 THEN ((lon - 1) % 360) + 1 ELSE lon

Scan(s) == [jScansPositively |-> Increment(s.y) >= 0, iScansNegatively |-> Increment(s.x) < 0]

(* The second writer misspells the name of the polar projection and looks   *)
(* for the parameters of the general one.                                   *)
StereographicStages(s, version) ==
  LET polar == version = 1 /\ s.projection.name = "polar_stereographic"
      trueScale == IF polar THEN 60
                   ELSE Parameter(s.projection, "scale_factor_at_projection_origin", IF version = 1 THEN 60 ELSE 90)
      lon0 == Parameter(s.projection, IF polar THEN "straight_vertical_longitude_from_pole"
                                      ELSE "longitude_of_projection_origin", 0)
      origin == Parameter(s.projection, "latitude_of_projection_origin", 90)
  IN  << Stage(~polar /\ Size(origin) < 90, [typeOfGrid |-> "polar_stereographic"]),
         Stage(TooSmall(s), [n |-> <<Len(s.x), Len(s.y)>>, increments |-> <<Increment(s.x), Increment(s.y)>>]),
         Stage(s.first = << >>,
               [first |-> <<s.first[1], IF version = 2 THEN Clamped(s.first[2], 2) ELSE s.first[2]>>,
                orientation |-> IF version = 2 THEN Clamped(lon0, 2) ELSE lon0]),
         Stage(version = 1 /\ trueScale # 60, IF version = 2 THEN [trueScale |-> trueScale] ELSE << >>) >>

LatLonKeys(s, version) ==
  [n |-> <<Len(s.x), Len(s.y)>>, increments |-> <<Size(Increment(s.x)), Size(Increment(s.y))>>,
   first |-> <<Head(s.y), Clamped(Head(s.x), version)>>, last |-> <<Last(s.y), Clamped(Last(s.x), version)>>] @@ Scan(s)

LatLonStages(s, version) ==
  << Stage(version = 2 /\ s.first = << >>, << >>),
     Stage(TooSmall(s), [typeOfGrid |-> "regular_ll"] @@ LatLonKeys(s, version)) >>

HasPole(projection) ==
  {"grid_north_pole_latitude", "grid_north_pole_longitude"} \subseteq DOMAIN projection.parameters
RotatedStages(s, version) ==
  << Stage(TooSmall(s), << >>),
     Stage(~HasPole(s.projection),
           [typeOfGrid |-> "rotated_ll",
            southPole |-> <<-s.projection.parameters["grid_north_pole_latitude"],
                            Clamped(s.projection.parameters["grid_north_pole_longitude"] - 180, version)>>]
           @@ LatLonKeys(s, version)) >>

LambertStages(s, version) ==
  LET parallels == Parameter(s.projection, "standard_parallel", << >>)
      lonV == Parameter(s.projection, "longitude_of_central_meridian", 0)
  IN  << Stage(parallels = << >> \/ TooSmall(s),
               [typeOfGrid |-> "lambert", n |-> <<Len(s.x), Len(s.y)>>,
                increments |-> <<Size(Increment(s.x)), Size(Increment(s.y))>>,
                parallels |-> <<parallels[1], Last(parallels)>>,
                orientation |-> IF version = 2 THEN Clamped(lonV, 2) ELSE lonV]),
         Stage(s.first = << >>, [first |-> <<s.first[1], Clamped(s.first[2], version)>>] @@ Scan(s)) >>

GridStages(s, version) ==
  LET name == s.projection.name
  IN  CASE name \in {"stereographic", "polar_stereographic"} -> StereographicStages(s, version)
        [] name = "latitude_longitude" -> LatLonStages(s, version)
        [] name = "rotated_latitude_longitude" -> RotatedStages(s, version)
        [] name = "lambert_conformal_conic" -> LambertStages(s, version)
        [] OTHER -> <<Stage(TRUE, << >>)>>

SetProjection(handle, s, version) ==
  FoldLeft(LAMBDA done, stage :
             IF done.failed \/ stage.fails THEN [done EXCEPT !.failed = TRUE]
             ELSE [done EXCEPT !.handle = stage.sets @@ done.handle],
           [failed |-> FALSE, handle |-> handle], GridStages(s, version))

-----------------------------------------------------------------------------
(* Times.  The unit of the steps is the largest one the first two times are *)
(* apart a whole number of; a difference below zero is a huge one.          *)
Day == 24 * 3600
StepUnits == {1, 60, 3600, 3 * 3600, 6 * 3600, 12 * 3600, Day, 30 * Day, 365 * Day, 3650 * Day, 10950 * Day}
StepUnit(times) ==
  IF Len(times) < 2 \/ times[2] < times[1] THEN 1
  ELSE Max({unit \in StepUnits : (times[2] - times[1]) % unit = 0})
NoStepUnit(times) == Len(times) > 1 /\ times[1] = times[2]
HugeStep == 2000000000

(* A slip: the steps are told after the valid time.                         *)
MutTimeKeys(reference, time, unit) ==
  IF time = NoTime THEN [base |-> NoTime, unit |-> unit, step |-> 0]
  ELSE [base |-> (time \div 60) * 60, unit |-> unit,
        step |-> IF time < reference THEN HugeStep ELSE (time - reference) \div unit]
TimeKeys(reference, time, unit) ==
  IF reference = NoTime
  THEN [base |-> IF time = NoTime THEN NoTime ELSE (time \div 60) * 60, unit |-> unit, step |-> 0]
  ELSE [base |-> (reference \div 60) * 60, unit |-> unit,
        step |-> IF time < reference THEN HugeStep ELSE (time - reference) \div unit]

(* The reference times and the valid times.  With several reference times   *)
(* the slice holds the first time when they are read again, and stays at    *)
(* the first reference time.                                                *)
ReferenceTimes(s) == IF s.times = << >> \/ s.references = << >> THEN <<s.unique>> ELSE s.references
TimesFor(s) ==
  CASE s.times = << >> -> <<s.unique>>
    [] Len(ReferenceTimes(s)) > 1 -> <<s.times[1]>>
    [] OTHER -> s.times

-----------------------------------------------------------------------------
(* Levels: the configuration is searched by the name or the unit of the     *)
(* axis.                                                                    *)
AxisKey(axis) ==
  CASE axis = NoAxis -> <<"standard_name", "">>
    [] axis # NoAxis /\ axis.standard_name # "" -> <<"standard_name", axis.standard_name>>
    [] axis # NoAxis /\ axis.standard_name = "" -> <<"unitCompatibleTo", axis.unit>>
KeyIsKnown(axis) == axis = NoAxis \/ axis.standard_name # "" \/ axis.unit \in {"m", "Pa"}
AxisNodes(axis, config, version) ==
  {node \in config.axes : node.version = version /\ node.by = AxisKey(axis)}

LevelsFail(axis, nodes) ==
  \/ ~KeyIsKnown(axis) \/ Cardinality(nodes) > 1
  \/ axis = NoAxis /\ \E node \in nodes : node.value = << >>
GribLevel(axis, node, value) ==
  LET unit == IF node.units = "" \/ axis = NoAxis THEN [slope |-> 1, offset |-> 0]
              ELSE UnitScales[<<axis.unit, node.units>>]
  IN  (Scaled(value, unit.slope, unit.offset) - node.offset) \div node.scale
Levels(axis, nodes) ==
  LET values == IF axis = NoAxis THEN << >>
                ELSE [i \in DOMAIN axis.values |-> Scaled(axis.values[i], axis.slope, axis.offset)]
  IN  IF nodes = {} THEN values
      ELSE LET node == CHOOSE n \in nodes : TRUE
               all == IF values = << >> THEN node.value ELSE values
           IN  [i \in DOMAIN all |-> GribLevel(axis, node, all[i])]

(* The borders of hybrid levels: from the last one, where the middles grow; *)
(* from the first one each is computed of the middle after it, the last one *)
(* of what lies behind the array.                                           *)
Borders(middles, grow, beyond) ==
  LET n == Len(middles)
      Middle(i) == IF i < n THEN middles[i + 1] ELSE beyond
      down[j \in 0 .. n] == IF j = 0 THEN 0 ELSE 2 * Middle(n - j) - down[j - 1]
      up[i \in 0 .. n] == IF i = 0 THEN 0 ELSE 2 * Middle(i) - up[i - 1]
  IN  [i \in 1 .. n + 1 |-> IF grow THEN down[n - i + 1] ELSE up[i - 1]]

IsHybrid(node, version) == version = 2 /\ node.id = 105
HybridFails(axis) == axis.ap # << >> /\ Len(axis.ap) # Len(axis.b)
HybridKeys(axis, beyond) ==
  IF axis.ap = << >> THEN << >>
  ELSE LET grow == Head(axis.b) < Last(axis.b)
       IN  [pv |-> Borders(axis.ap, grow, beyond) \o Borders(axis.b, grow, beyond)]

LevelKeys(axis, node, version, level, position, beyond) ==
  [levelType |-> node.id, level |-> IF IsHybrid(node, version) THEN position ELSE level]
  @@ (IF IsHybrid(node, version) THEN HybridKeys(axis, beyond) ELSE << >>)

-----------------------------------------------------------------------------
(* The parameter: by the name of the variable, else by its standard name;   *)
(* a level of the configuration is met up to a part of the value, which no  *)
(* value below or at zero meets.                                            *)
ParameterNodes(config, by, name, version) ==
  {node \in config.parameters : node.version = version /\ node.by = <<by, name>>}
NodesOf(config, name, variable, version) ==
  LET named == ParameterNodes(config, "name", name, version)
  IN  IF named # {} THEN named
      ELSE IF variable.standard_name = "" THEN {}
      ELSE ParameterNodes(config, "standard_name", variable.standard_name, version)
MatchesLevel(node, level) == node.level = << >> \/ (Head(node.level) = level /\ level > 0)
ParameterFails(nodes, level, version) ==
  \/ Cardinality(nodes) # 1
  \/ \E node \in nodes : ~MatchesLevel(node, level) \/ (version = 2 /\ ~node.complete)
ParameterKeys(node) == [parameter |-> node.number] @@ node.attributes

Converted(value, variable, node) ==
  LET unit == IF variable.unit = "" \/ node.units = "" THEN [slope |-> 1, offset |-> 0]
              ELSE UnitScales[<<variable.unit, node.units>>]
  IN  IF value = variable.fill THEN value
      ELSE Scaled(value, variable.slope * unit.slope, variable.offset * unit.slope + unit.offset)
IsEmptyField(values, variable) == \A i \in DOMAIN values : values[i] = variable.fill

-----------------------------------------------------------------------------
OpenGrib(source, config, version) ==
  /\ gribOut.phase \in {"new", "done", "failed"} /\ gribOut.n < MaxGribWriters
  /\ gribFile' = IF config.template = "missing" \/ config.append THEN gribFile ELSE << >>
  /\ gribOut' = [phase |-> IF config.template = "missing" THEN "failed" ELSE "open",
                 source |-> source, config |-> config, version |-> version,
                 handle |-> config.global, system |-> 0, todo |-> << >>,
                 levels |-> << >>, unit |-> 1, kept |-> Len(gribFile'), n |-> gribOut.n + 1]

CSVars(s) ==
  SelectSeq(s.variables, LAMBDA name :
    NodesOf(gribOut.config, name, gribOut.source.variables[name], gribOut.version) # {})

(* The fields of a system in the order they are written.                    *)
Fields(s, vars, levels) ==
  LET references == ReferenceTimes(s)
      times == TimesFor(s)
      perTime == Len(vars) * Len(levels)
  IN  [k \in 1 .. Len(references) * Len(times) * perTime |->
         LET j == (k - 1) % (Len(times) * perTime)
         IN  [reference |-> references[(k - 1) \div (Len(times) * perTime) + 1],
              time |-> j \div perTime + 1,
              name |-> vars[(j % perTime) \div Len(levels) + 1],
              level |-> (j % Len(levels)) + 1]]

StartSystem ==
  LET s == gribOut.source.systems[gribOut.system + 1]
      vars == CSVars(s)
      set == SetProjection(gribOut.handle, s, gribOut.version)
      nodes == AxisNodes(s.z, gribOut.config, gribOut.version)
      next == [gribOut EXCEPT !.system = @ + 1]
  IN  /\ gribOut.phase = "open" /\ gribOut.todo = << >>
      /\ gribOut.system < Len(gribOut.source.systems)
      /\ gribOut' =
           IF ~s.simple \/ vars = << >> THEN next
           ELSE IF set.failed THEN [next EXCEPT !.handle = set.handle]
           ELSE IF NoStepUnit(s.times) \/ LevelsFail(s.z, nodes)
           THEN [next EXCEPT !.handle = set.handle, !.phase = "failed"]
           ELSE [next EXCEPT !.handle = set.handle, !.levels = Levels(s.z, nodes),
                             !.unit = StepUnit(s.times),
                             !.todo = Fields(s, vars, Levels(s.z, nodes))]
      /\ UNCHANGED gribFile

FieldValues(s, field) ==
  gribOut.source.variables[field.name].data[field.time][IF s.z = NoAxis THEN 1 ELSE field.level]

(* A field that fails or has no values is passed over, with what was set in *)
(* the handle for it.                                                       *)
WriteField(beyond) ==
  LET s == gribOut.source.systems[gribOut.system]
      field == Head(gribOut.todo)
      variable == gribOut.source.variables[field.name]
      level == gribOut.levels[field.level]
      axisNodes == AxisNodes(s.z, gribOut.config, gribOut.version)
      axisNode == CHOOSE node \in axisNodes : TRUE
      nodes == NodesOf(gribOut.config, field.name, variable, gribOut.version)
      node == CHOOSE n \in nodes : TRUE
      timed == IF field.level = 1
               THEN TimeKeys(field.reference, TimesFor(s)[field.time], gribOut.unit) @@ gribOut.handle
               ELSE gribOut.handle
      noLevel == axisNodes = {} \/ (IsHybrid(axisNode, gribOut.version) /\ HybridFails(s.z))
      leveled == IF axisNodes = {} THEN timed
                 ELSE IF noLevel THEN [levelType |-> axisNode.id] @@ timed
                 ELSE LevelKeys(s.z, axisNode, gribOut.version, level, field.level, beyond) @@ timed
      fails == noLevel \/ ParameterFails(nodes, level, gribOut.version)
      handle == IF fails THEN leveled ELSE ParameterKeys(node) @@ leveled
      values == FieldValues(s, field)
      dropped == fails \/ values = << >> \/ (gribOut.config.omitEmpty /\ IsEmptyField(values, variable))
      message == [field |-> field, system |-> gribOut.system, keys |-> handle,
                  values |-> [i \in DOMAIN values |-> Converted(values[i], variable, node)]]
  IN  /\ gribOut.phase = "open" /\ gribOut.todo # << >>
      /\ gribOut' = [gribOut EXCEPT !.todo = Tail(@), !.handle = handle]
      /\ gribFile' = IF dropped THEN gribFile ELSE Append(gribFile, message)

CloseGrib ==
  /\ gribOut.phase = "open" /\ gribOut.todo = << >>
  /\ gribOut.system = Len(gribOut.source.systems)
  /\ gribOut' = [gribOut EXCEPT !.phase = "done"]
  /\ UNCHANGED gribFile

GribWriterInit ==
  /\ gribFile = << >>
  /\ gribOut = [phase |-> "new", n |-> 0, kept |-> 0, todo |-> << >>]

GribWriterNext ==
  \/ \E source \in GribSources, config \in GribConfigs, version \in GribVersions :
       OpenGrib(source, config, version)
  \/ StartSystem
  \/ \E beyond \in BeyondArray : WriteField(beyond)
  \/ CloseGrib

GribWriterSpec == GribWriterInit /\ [][GribWriterNext]_gribWriterVars

-----------------------------------------------------------------------------
ToldTime(keys) == IF keys.base = NoTime THEN NoTime ELSE keys.base + keys.step * keys.unit
ToldY(keys, j) == keys.first[1] + (j - 1) * (IF keys.jScansPositively THEN 1 ELSE -1) * keys.increments[2]
ToldX(keys, i) == keys.first[2] + (i - 1) * (IF keys.iScansNegatively THEN -1 ELSE 1) * keys.increments[1]
GridIsTold(keys, s) ==
  /\ keys.n = <<Len(s.x), Len(s.y)>>
  /\ keys.typeOfGrid \in {"regular_ll", "rotated_ll"} =>
       /\ \A j \in DOMAIN s.y : ToldY(keys, j) = s.y[j]
       /\ \A i \in DOMAIN s.x : (ToldX(keys, i) - s.x[i]) % 360 = 0

AllTimes(s) == IF s.times = << >> THEN <<s.unique>> ELSE s.times
\* What the steps can tell: one reference time, and times whole steps after it.
TimesCanBeTold(s) ==
  /\ Len(ReferenceTimes(s)) = 1
  /\ LET reference == Head(ReferenceTimes(s))
     IN  \A t \in DOMAIN AllTimes(s) :
           IF reference = NoTime THEN AllTimes(s)[t] = NoTime \/ AllTimes(s)[t] % 60 = 0
           ELSE /\ reference % 60 = 0 /\ AllTimes(s)[t] >= reference
                /\ (AllTimes(s)[t] - reference) % StepUnit(s.times) = 0

NodeOf(name) ==
  CHOOSE node \in NodesOf(gribOut.config, name, gribOut.source.variables[name], gribOut.version) : TRUE
AxisNodeOf(s) == CHOOSE node \in AxisNodes(s.z, gribOut.config, gribOut.version) : TRUE

(* A message that is read by its keys: the place of the source with the     *)
(* valid time, the level and the parameter that are told has these values.  *)
TellsItsField(m, s) ==
  \E t \in DOMAIN AllTimes(s), l \in DOMAIN Levels(s.z, {AxisNodeOf(s)}), name \in Range(s.variables) :
    LET variable == gribOut.source.variables[name]
        stored == variable.data[t][l]
    IN  /\ ToldTime(m.keys) = AllTimes(s)[t]
        /\ m.keys.levelType = AxisNodeOf(s).id
        /\ m.keys.level = IF IsHybrid(AxisNodeOf(s), gribOut.version) THEN l ELSE Levels(s.z, {AxisNodeOf(s)})[l]
        /\ NodesOf(gribOut.config, name, variable, gribOut.version) # {}
        /\ m.keys.parameter = NodeOf(name).number
        /\ m.values = [i \in DOMAIN stored |-> Converted(stored[i], variable, NodeOf(name))]

\* The borders told for hybrid levels that grow towards the last one have the levels in their middles.
BordersAreTold(m, s) ==
  IsHybrid(AxisNodeOf(s), gribOut.version) /\ s.z.ap # << >> /\ Head(s.z.b) < Last(s.z.b) =>
    LET n == Len(s.z.ap)
    IN  \A i \in 1 .. n : /\ m.keys.pv[i] + m.keys.pv[i + 1] = 2 * s.z.ap[i]
                          /\ m.keys.pv[n + 1 + i] + m.keys.pv[n + 2 + i] = 2 * s.z.b[i]

WrittenBy(system) == {i \in gribOut.kept + 1 .. Len(gribFile) : gribFile[i].system = system}

(* Every message of a writer tells the time, level, parameter and grid of   *)
(* the values in it, and no two of a system tell the same: where the times  *)
(* are whole steps after one reference time (run, setTime, setLevel,        *)
(* setParameter, setProjection).                                            *)
WrittenFieldsAreTold ==
  \A system \in 1 .. (IF gribOut.phase = "new" THEN 0 ELSE gribOut.system) :
    LET s == gribOut.source.systems[system]
    IN  TimesCanBeTold(s) =>
          \A i \in WrittenBy(system) :
            /\ TellsItsField(gribFile[i], s) /\ GridIsTold(gribFile[i].keys, s)
            /\ BordersAreTold(gribFile[i], s)
            /\ \A j \in WrittenBy(system) \ {i} :
                 \E key \in {"parameter", "level", "base", "step"} :
                   gribFile[i].keys[key] # gribFile[j].keys[key]

(* Optional keys of a message are those of its parameter, or of the         *)
(* template: not those of the parameter before it.                          *)
OptionalKeysAreOwn ==
  \A i \in gribOut.kept + 1 .. Len(gribFile) :
    \A key \in UNION {DOMAIN node.attributes : node \in gribOut.config.parameters} :
      key \in DOMAIN gribFile[i].keys => key \in DOMAIN NodeOf(gribFile[i].field.name).attributes
=============================================================================
