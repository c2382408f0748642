---------------------------- MODULE GribCDMReader ----------------------------
(* Serving a GRIB index as data of named variables.  The constructor turns  *)
(* the list of messages into axes: the times of all messages, the levels of *)
(* every variable, the members; a box keeps the message of every variable,  *)
(* time, level and member, the later one where two have the same.  A read   *)
(* follows the axes and reads each message from its file.                   *)
EXTENDS GribFileIndex

CONSTANTS
  ParameterNodes,  \* sequence of [edition, param, levelTypes, stepTypes, extra, name,
                   \* constantTime]; no levelTypes, no stepTypes: any
  LevelModes,    \* type of level -> [mode, additional]: how the values of the axis and of
                   \* its additional variables (name -> mode) are made
  GridAxes,     \* type of grid -> the names of its axes [x, y], where configured
  MaxGribReads     \* bound on the number of reads

VARIABLES
  grib,            \* [phase, entries, keys, times, members, grids, levels]
  gribRead         \* the latest read: [name, cells, outcome, n]
gribVars == <<indexVars, grib, gribRead>>

Missing == "missing"
NoTime == -1       \* the position of a variable without time
UnsetTime == -2    \* a valid time that is not in the axis

-----------------------------------------------------------------------------
(* The parameter of the configuration a message belongs to: the first.      *)
Matches(node, e) ==
  /\ node.edition = e.edition
  /\ node.param = e.param
  /\ node.levelTypes = {} \/ e.levelType \in node.levelTypes
  /\ node.stepTypes = {} \/ e.stepType \in node.stepTypes
  /\ \A key \in DOMAIN e.others \intersect DOMAIN node.extra : node.extra[key] = e.others[key]

NodesOf(e) == SelectSeq(ParameterNodes, LAMBDA node : Matches(node, e))
IsDefined(e) == NodesOf(e) # << >>
NameOf(e) == IF IsDefined(e) THEN <<NodesOf(e)[1].name>> ELSE <<"ga", e.param, e.levelType>>
IsConstant(e) == IsDefined(e) /\ NodesOf(e)[1].constantTime

Selected(entries, select) ==
  IF select = "definedOnly" THEN SelectSeq(entries, IsDefined) ELSE entries

-----------------------------------------------------------------------------
(* The time of every message as one pass over them sees it.                 *)
TimesSeen(entries) ==
  {seen \in [DOMAIN entries -> UNION {ValidTimes(entries[i]) : i \in DOMAIN entries}] :
     \A i \in DOMAIN entries : seen[i] \in ValidTimes(entries[i])}

TimeAxis(entries, seen) ==
  SetToSortSeq({seen[i] : i \in {j \in DOMAIN entries : ~IsConstant(entries[j])}}, <)

PositionIn(axis, value) ==
  IF \E i \in DOMAIN axis : axis[i] = value
  THEN (CHOOSE i \in DOMAIN axis : axis[i] = value) - 1 ELSE UnsetTime

HasEnsemble(e) == e.total > 1

Key(e, axis, time) ==
  [name |-> NameOf(e), level |-> e.level,
   time |-> IF IsConstant(e) THEN NoTime ELSE PositionIn(axis, time),
   member |-> IF HasEnsemble(e) THEN e.number ELSE 0]

(* initCreateGFIBoxes: the number of members grows with the totals and with *)
(* the numbers in use.                                                      *)
MembersOf(entries) ==
  LET ensembles == {entries[i] : i \in {j \in DOMAIN entries : HasEnsemble(entries[j])}}
  IN  Max({0} \union {e.total : e \in ensembles} \union {e.number + 1 : e \in ensembles})

(* A variable may not change its type of level nor whether it has members.  *)
Consistent(entries) ==
  \A i, j \in DOMAIN entries :
    NameOf(entries[i]) = NameOf(entries[j]) =>
      /\ HasEnsemble(entries[i]) = HasEnsemble(entries[j])
      /\ <<entries[i].edition, entries[i].levelType>> = <<entries[j].edition, entries[j].levelType>>

UnitsKnown(entries) ==
  \A i \in DOMAIN entries : IsConstant(entries[i]) \/ ~UnknownUnit(entries[i])

OfVariable(name) == {i \in DOMAIN grib.entries : grib.keys[i].name = name}
LevelAxis(name) == SetToSortSeq({grib.keys[i].level : i \in OfVariable(name)}, <)

(* The first message of a variable decides its grid and its dimensions.     *)
First(name) == grib.entries[Min(OfVariable(name))]
AnnouncedGrid(name) == First(name).grid
AxisOf(name, dimension) ==
  CASE dimension = "time" /\ IsConstant(First(name)) -> <<NoTime>>
    [] dimension = "time" /\ ~IsConstant(First(name)) -> [i \in DOMAIN grib.times |-> i - 1]
    [] dimension = "member" /\ ~HasEnsemble(First(name)) -> <<0>>
    [] dimension = "member" /\ HasEnsemble(First(name)) -> [i \in 1..grib.members |-> i - 1]

-----------------------------------------------------------------------------
(* The axes of a type of level: one for every set of levels that some of    *)
(* its variables have, in the order of their names.                         *)
LevelTypeOf(e) == <<e.edition, e.levelType>>

LevelsIn(entries, name) ==
  SetToSortSeq({entries[i].level : i \in {j \in DOMAIN entries : NameOf(entries[j]) = name}}, <)

VariablesWith(entries, type) ==
  {NameOf(entries[i]) : i \in {j \in DOMAIN entries : LevelTypeOf(entries[j]) = type}}

LevelAxes(entries, type) == SetToSeq({LevelsIn(entries, name) : name \in VariablesWith(entries, type)})

(* The coefficients that come with a message (its pv, or that of the header *)
(* at the start of the file), read from a message of the lowest level of a  *)
(* variable with the levels: the first in the index.                        *)
ExampleFor(entries, type, levels) ==
  LET having == {i \in DOMAIN entries :
                   LevelTypeOf(entries[i]) = type /\ LevelsIn(entries, NameOf(entries[i])) = levels}
  IN  entries[Min({i \in having : entries[i].level = levels[1]})]

OwnPv(e) == RawAt(gribDisk[e.file], e).pv
HeaderPv(e) == gribDisk[e.file][1][1].pv

(* Nothing where the list is too short: the variable is left out.           *)
NoValues == << >>
Taken(levels, Position(_), Value(_), pv) ==
  IF \A i \in DOMAIN levels : Position(i) \in 0..(Len(pv) - 1)
  THEN [i \in DOMAIN levels |-> Value(Position(i))] ELSE NoValues

ExtraLevel(levels, pv, second) ==
  Taken(levels, LAMBDA i : (IF second THEN Len(pv) \div 2 ELSE 0) + levels[i],
        LAMBDA pos : IF pos = 0 THEN pv[1] ELSE pv[pos], pv)

HalfLevel(levels, pv, second) ==
  Taken(levels, LAMBDA i : (IF second THEN Len(pv) \div 2 ELSE 0) + levels[i] - 1,
        LAMBDA pos : IF pos + 1 < Len(pv) THEN (pv[pos + 1] + pv[pos + 2]) \div 2 ELSE Last(pv), pv)

HeaderLevel(levels, pv, second) ==
  Taken(levels, LAMBDA i : (IF second THEN 1 ELSE 0) + 2 * (i - 1),
        LAMBDA pos : IF pos < 2 THEN pv[pos + 1] ELSE (pv[pos + 1] + pv[pos - 1]) \div 2, pv)

ValuesFor(mode, levels, e) ==
  CASE mode.from = "level" -> ExtraLevel(levels, OwnPv(e), mode.second)
    [] mode.from = "halfLevel" /\ Len(OwnPv(e)) \div 2 >= Len(levels) ->
         HalfLevel(levels, OwnPv(e), mode.second)
    [] mode.from = "halfLevel" /\ Len(OwnPv(e)) \div 2 < Len(levels) ->
         HeaderLevel(levels, HeaderPv(e), mode.second)
    [] OTHER -> levels

Sum(a, b) == IF a = NoValues \/ b = NoValues THEN NoValues ELSE [i \in DOMAIN a |-> a[i] + b[i]]

LevelAxisOf(entries, type, levels) ==
  LET e == ExampleFor(entries, type, levels)
      axis == LevelModes[type[2]]
      additional == [name \in DOMAIN axis.additional |-> ValuesFor(axis.additional[name], levels, e)]
      sum == Sum(additional.ap, additional.b)
  IN  IF type[2] \notin DOMAIN LevelModes
      THEN [levels |-> levels, additional |-> << >>, values |-> levels]
      ELSE [levels |-> levels, additional |-> additional,
            values |-> IF axis.sums /\ sum # NoValues THEN sum ELSE levels]

AllLevels(entries) ==
  [type \in {LevelTypeOf(entries[i]) : i \in DOMAIN entries} |->
    LET axes == LevelAxes(entries, type)
    IN  [i \in DOMAIN axes |-> LevelAxisOf(entries, type, axes[i])]]

(* The attributes of an additional variable that was left out are refused.  *)
LevelsDescribed(levels) ==
  \A type \in DOMAIN levels : \A i \in DOMAIN levels[type] :
    \A name \in DOMAIN levels[type][i].additional : levels[type][i].additional[name] # NoValues

-----------------------------------------------------------------------------
(* The grids of the messages, each once: GridDefinition's operator <, which *)
(* takes first points within the coarser precision as the same.             *)
TextOrder(entries) ==
  SetToSeq({<<entries[i].grid.projection, entries[i].grid.figure>> : i \in DOMAIN entries})

GridLess(g, h, texts) ==
  LET text(grid) == SelectInSeq(texts, LAMBDA t : t = <<grid.projection, grid.figure>>)
      resolution == Max({g.resolution, h.resolution})
  IN  \/ text(g) < text(h)
      \/ text(g) = text(h) /\ g.n < h.n
      \/ text(g) = text(h) /\ g.n = h.n /\ g.increment < h.increment
      \/ text(g) = text(h) /\ g.n = h.n /\ g.increment = h.increment
           /\ g.lonStart + resolution < h.lonStart

(* The place of a grid in the map: after those that are less.               *)
PlaceOf(grids, g, texts) == Cardinality({i \in DOMAIN grids : GridLess(grids[i].grid, g, texts)}) + 1

IsHeld(grids, g, texts) ==
  LET place == PlaceOf(grids, g, texts)
  IN  place <= Len(grids) /\ ~GridLess(g, grids[place].grid, texts)

AllGrids(entries) ==
  LET texts == TextOrder(entries)
      WithGrid(grids, e) ==
        IF IsHeld(grids, e.grid, texts) THEN grids
        ELSE InsertAt(grids, PlaceOf(grids, e.grid, texts), [grid |-> e.grid, type |-> e.typeOfGrid])
  IN  FoldLeft(WithGrid, << >>, entries)

(* The axes of a grid carry its number, but for the first; coordinates of   *)
(* longitude and latitude are added where the axes are not those.           *)
Normalized(longitude) == IF longitude > 180000 THEN longitude - 360000 ELSE longitude

ProjectionInfo(g, type, i) ==
  LET names == GridAxes[type]
  IN  [xDim |-> <<names.x, i - 1>>, size |-> g.n, start |-> Normalized(g.start),
       increment |-> g.increment,
       coordinates |-> names.x # "longitude" /\ names.y # "latitude"]

GridsConfigured(grids) == \A i \in DOMAIN grids : grids[i].type \in DOMAIN GridAxes

OpenReader(entries, select) ==
  LET chosen == Selected(entries, select)
      levels == AllLevels(chosen)
      grids == AllGrids(chosen)
  IN  /\ grib.phase = "closed"
      /\ gribRead' = gribRead
      /\ UNCHANGED indexVars
      /\ IF ~UnitsKnown(chosen) \/ ~Consistent(chosen) \/ ~LevelsDescribed(levels) \/ ~GridsConfigured(grids)
         THEN grib' = [grib EXCEPT !.phase = "failed"]
         ELSE \E seen, again \in TimesSeen(chosen) :
                LET axis == TimeAxis(chosen, seen)
                IN  grib' = [phase |-> "open", entries |-> chosen, times |-> axis,
                             members |-> MembersOf(chosen), levels |-> levels, grids |-> grids,
                             keys |-> [i \in DOMAIN chosen |-> Key(chosen[i], axis, again[i])]]

(* initAddVariables: a variable has the axes of the grid that the map finds *)
(* for its first message.                                                   *)
ProjectionFor(name) ==
  LET place == PlaceOf(grib.grids, AnnouncedGrid(name), TextOrder(grib.entries))
  IN  ProjectionInfo(grib.grids[place].grid, grib.grids[place].type, place)

-----------------------------------------------------------------------------
(* A slip: the first message of a key is kept.                              *)
MutInBox(key) == Min({i \in DOMAIN grib.entries : grib.keys[i] = key})
InBox(key) == Max({i \in DOMAIN grib.entries : grib.keys[i] = key})
IsInBox(key) == \E i \in DOMAIN grib.entries : grib.keys[i] = key

(* GribFileMessage::readData on a place of the file: the field, as many     *)
(* values as the message has, or an exception.                              *)
IsThere(e) ==
  e.at \in DOMAIN gribDisk[e.file] /\ e.part + 1 \in DOMAIN gribDisk[e.file][e.at]

ReadFails(e, grid) == ~IsThere(e) \/ RawAt(gribDisk[e.file], e).grid.n > grid.n

FieldOf(e, grid) ==
  LET raw == RawAt(gribDisk[e.file], e)
  IN  IF raw.grid.n = grid.n THEN raw.field ELSE Missing

(* The cells a slice asks for, in the order the slices are stored.          *)
Cells(name, times, levels, members) ==
  FlattenSeq([t \in DOMAIN times |->
    FlattenSeq([l \in DOMAIN levels |->
      [m \in DOMAIN members |->
        [name |-> name, level |-> levels[l], time |-> times[t], member |-> members[m]]]])])

Ranges(axis) == {SubSeq(axis, a, b) : a, b \in DOMAIN axis}

ReadGrib(name, times, levels, members) ==
  LET keys == Cells(name, times, levels, members)
      grid == AnnouncedGrid(name)
      wanted == {i \in DOMAIN keys : IsInBox(keys[i])}
  IN  /\ grib.phase = "open"
      /\ gribRead.n < MaxGribReads
      /\ gribRead' =
           IF \E i \in wanted : ReadFails(grib.entries[InBox(keys[i])], grid)
           THEN [name |-> name, keys |-> keys, cells |-> << >>, outcome |-> "failed",
                 n |-> gribRead.n + 1]
           ELSE [name |-> name, keys |-> keys, outcome |-> "read", n |-> gribRead.n + 1,
                 cells |-> [i \in DOMAIN keys |->
                             IF i \in wanted THEN FieldOf(grib.entries[InBox(keys[i])], grid)
                             ELSE Missing]]
      /\ UNCHANGED <<indexVars, grib>>

(* getDataSlice(varName, unLimDimPos): one time, everything else whole.     *)
ReadTime(name, position) ==
  /\ ~IsConstant(First(name)) /\ position <= Len(grib.times)
  /\ IF position < Len(grib.times)
     THEN ReadGrib(name, <<position>>, LevelAxis(name), AxisOf(name, "member"))
     ELSE /\ gribRead.n < MaxGribReads
          /\ gribRead' = [name |-> name, keys |-> << >>, cells |-> << >>,
                          outcome |-> "failed", n |-> gribRead.n + 1]
          /\ UNCHANGED <<indexVars, grib>>

GribInit ==
  /\ IndexInit
  /\ grib = [phase |-> "closed", entries |-> << >>, keys |-> << >>, times |-> << >>, members |-> 0,
             grids |-> << >>, levels |-> << >>]
  /\ gribRead = [name |-> << >>, keys |-> << >>, cells |-> << >>, outcome |-> "none", n |-> 0]

Variables == {grib.keys[i].name : i \in DOMAIN grib.keys}

ReaderNext ==
  \/ /\ grib.phase = "closed"
     /\ \E select \in {"all", "definedOnly"} :
          \/ grbml.end = "ended" /\ OpenReader(EntriesOf(grbml.messages), select)
          \/ \E files \in IndexInputs, options \in IndexOptions :
               (\A i \in DOMAIN files : ~FailsAt(files[i], options)) /\ OpenReader(Entries(files, options), select)
  \/ /\ grib.phase = "open"
     /\ \E name \in Variables :
          \/ \E times \in Ranges(AxisOf(name, "time")), levels \in Ranges(LevelAxis(name)),
               members \in Ranges(AxisOf(name, "member")) :
               ReadGrib(name, times, levels, members)
          \/ \E position \in 0..Len(grib.times) : ReadTime(name, position)

GribNext == (IndexNext /\ UNCHANGED <<grib, gribRead>>) \/ ReaderNext

GribSpec == GribInit /\ [][GribNext]_gribVars

-----------------------------------------------------------------------------
\* The messages a cell may come from: those with its keys.
Candidates(key) ==
  {i \in DOMAIN grib.entries :
     LET e == grib.entries[i]
     IN  /\ NameOf(e) = key.name /\ e.level = key.level
         /\ e.total > 1 => e.number = key.member
         /\ IsConstant(e) \/ e.reference + UnitSeconds[e.unit] * e.step = grib.times[key.time + 1]}

AsIndexed == \A i \in DOMAIN grib.entries : IsThere(grib.entries[i]) /\ FindsItsMessage(grib.entries[i])
ShortUnits == \A i \in DOMAIN grib.entries : grib.entries[i].unit \in DOMAIN UnitSeconds

\* The half levels a file gives with its messages, and what they are at a level.
OfHalfLevels(mode, levels, pv) ==
  LET half == Len(pv) \div 2
      list == SubSeq(pv, IF mode.second THEN half + 1 ELSE 1, IF mode.second THEN 2 * half ELSE half)
  IN  [i \in DOMAIN levels |-> (list[levels[i]] + list[levels[i] + 1]) \div 2]

(* The axes of a variable are those of its messages: the place and spacing  *)
(* of its first grid, to the precision the editions have, and at each level *)
(* the mean of the half levels around it.                                   *)
OnOwnAxes(name) ==
  LET first == First(name)
      axes == ProjectionFor(name)
      type == LevelTypeOf(first)
      levels == LevelsIn(grib.entries, name)
      pv == OwnPv(first)
      described == SelectSeq(grib.levels[type], LAMBDA axis : axis.levels = levels)
  IN  /\ ~Apart(Turned(axes.start), first.grid.lonStart)
      /\ axes.size = first.grid.n /\ axes.increment = first.grid.increment
      /\ Len(described) = 1
      /\ \A coefficient \in DOMAIN described[1].additional :
           LET mode == LevelModes[type[2]].additional[coefficient]
           IN  mode.from = "halfLevel" /\ (\A i \in DOMAIN levels : levels[i] \in 1..(Len(pv) \div 2 - 1)) =>
                 described[1].additional[coefficient] = OfHalfLevels(mode, levels, pv)

(* A cell of a read holds the field of the message that is valid at the     *)
(* announced time, at the level and for the member of the cell, the last    *)
(* one of the index where several are, and is missing only when there is    *)
(* none on the announced grid; and it stands on axes that are those of the  *)
(* messages: while the files are as they were indexed and the units of the  *)
(* steps are hours or shorter (initCreateGFIBoxes, initLevels,              *)
(* initAddProjection, getDataSlice).                                        *)
CellsByKey ==
  [][ gribRead'.n > gribRead.n /\ gribRead'.outcome = "read" /\ AsIndexed /\ ShortUnits =>
        /\ OnOwnAxes(gribRead'.name)
        /\ \A c \in DOMAIN gribRead'.keys :
             LET found == Candidates(gribRead'.keys[c])
                 last == grib.entries[Max(found)]
             IN  IF found # {} /\ RawAt(gribDisk[last.file], last).grid.n = AnnouncedGrid(gribRead'.name).n
                 THEN gribRead'.cells[c] = RawAt(gribDisk[last.file], last).field
                 ELSE gribRead'.cells[c] = Missing ]_gribVars
=============================================================================
