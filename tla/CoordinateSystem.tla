-------------------------- MODULE CoordinateSystem --------------------------
(***************************************************************************)
(* The coordinate systems of a file, found by a builder for each           *)
(* convention: CF from attributes, and WRF from the names of dimensions,   *)
(* which adds the axis variables that such files lack to the model.  The   *)
(* interpolators choose the horizontal systems from the list, and vectors  *)
(* are paired by their standard names.                                     *)
(* A file is a record of its dimensions with their lengths, its variables  *)
(* in order, the names of its global attributes, its conventions, and the  *)
(* vectors known so far.  Units are the kinds that are told apart.         *)
(***************************************************************************)
EXTENDS Integers, Sequences, FiniteSets, SequencesExt, Functions, TLC

CONSTANTS
  CsFiles,       \* files
  Alphabet,      \* all names, sorted
  VectorNames,   \* pairs of standard names with their directions
  Longer,        \* pairs of standard names, the second longer by an ending
  Supported,     \* names of projections that can be made
  LonNames,      \* names for new longitudes: "lon", "lon0", and so on
  LatNames,      \* names for new latitudes
  MaxCsCalls     \* bound: calls on one file

VARIABLES
  csFile,        \* the file
  csAnswer,      \* the answer of the last call
  csCalls

csVars == <<csFile, csAnswer, csCalls>>

Attr(v, a) == IF a \in DOMAIN v.attrs THEN v.attrs[a] ELSE ""
Variable(name, shape, attrs) == [name |-> name, shape |-> shape, attrs |-> attrs]
VarNames(f) == {v.name : v \in Range(f.vars)}
Var(f, n) == CHOOSE v \in Range(f.vars) : v.name = n

\* Names come sorted from sets, systems from maps keyed by their names.
At(n) == CHOOSE i \in DOMAIN Alphabet : Alphabet[i] = n
Sorted(S) == SelectSeq(Alphabet, LAMBDA n : n \in S)
Before(s, t) ==
  \E k \in DOMAIN t :
    /\ \A i \in 1 .. k - 1 : i \in DOMAIN s /\ s[i] = t[i]
    /\ k \in DOMAIN s => At(s[k]) < At(t[k])
SortedKeys(keys) ==
  [i \in 1 .. Cardinality(keys) |-> CHOOSE k \in keys : Cardinality({j \in keys : Before(j, k)}) = i - 1]

----------------------------------------------------------------------------
\* A system, and the search for an axis: true axes come before auxiliary ones.
NoAxis == [name |-> "", type |-> "Undefined", explicit |-> FALSE, shape |-> << >>]
FindAxis(s, types) ==
  LET found == FlattenSeq([i \in DOMAIN types |-> SelectSeq(s.axes, LAMBDA a : a.type = types[i])])
  IN IF found = << >> THEN NoAxis ELSE found[1]
HasAxisType(s, type) == FindAxis(s, <<type>>) # NoAxis
GeoXAxis(s) == FindAxis(s, <<"GeoX", "Lon">>)
GeoYAxis(s) == FindAxis(s, <<"GeoY", "Lat">>)
GeoZAxis(s) == FindAxis(s, <<"GeoZ", "Height", "Depth", "Pressure">>)
HorizontalId(s) == SelectSeq(<<GeoXAxis(s).name, GeoYAxis(s).name>>, LAMBDA n : n # "")
Names(axes) == {a.name : a \in Range(axes)}
SameType(a, b) == a.type # "Undefined" /\ a.type = b.type

----------------------------------------------------------------------------
\* CF: the coordinates of a variable are its dimensions and what its attribute says.
StandardTypes ==
  [longitude |-> "Lon", latitude |-> "Lat", forecast_reference_time |-> "ReferenceTime", realization |-> "Realization",
   projection_x_coordinate |-> "GeoX", grid_longitude |-> "GeoX",
   projection_y_coordinate |-> "GeoY", grid_latitude |-> "GeoY"]
  @@ [n \in {"atmosphere_sigma_coordinate", "atmosphere_hybrid_sigma_pressure_coordinate",
             "atmosphere_hybrid_height_coordinate", "ocean_s_coordinate_g1", "ocean_s_coordinate_g2"} |-> "GeoZ"]
UnitTypes == [east |-> "Lon", north |-> "Lat", time |-> "Time", pressure |-> "Pressure", level |-> "GeoZ"]
AxisTypes == [x |-> "GeoX", y |-> "GeoY", z |-> "GeoZ", t |-> "Time"]
AxisType(v) ==
  LET unit == Attr(v, "units")
  IN CASE Attr(v, "standard_name") \in DOMAIN StandardTypes -> StandardTypes[Attr(v, "standard_name")]
       [] OTHER ->
     CASE unit \in DOMAIN UnitTypes -> UnitTypes[unit]
       [] OTHER ->
     CASE Attr(v, "positive") # "" /\ unit = "length" -> IF Attr(v, "positive") = "up" THEN "Height" ELSE "Depth"
       [] Attr(v, "positive") # "" /\ unit # "length" -> "GeoZ"
       [] Attr(v, "positive") = "" /\ Attr(v, "axis") = "z" /\ unit = "length" -> "Height"
       [] OTHER -> IF Attr(v, "axis") \in DOMAIN AxisTypes THEN AxisTypes[Attr(v, "axis")] ELSE "Undefined"

Coordinates(v) == IF "coordinates" \in DOMAIN v.attrs THEN v.attrs.coordinates ELSE {}
\* A slip: the coordinates that an attribute names are forgotten.
MutVarAxes(v) == Range(v.shape)
VarAxes(v) == Range(v.shape) \union Coordinates(v)
AxisNames(f) == DOMAIN f.dims \union UNION {Coordinates(v) : v \in Range(f.vars)}
Axis(f, n) ==
  IF n \in VarNames(f)
  THEN [name |-> n, type |-> AxisType(Var(f, n)), explicit |-> n \in DOMAIN f.dims, shape |-> Var(f, n).shape]
  ELSE [NoAxis EXCEPT !.name = n, !.explicit = n \in DOMAIN f.dims, !.shape = <<n>>]
AxesOf(f, names) == LET s == Sorted(names) IN [i \in DOMAIN s |-> Axis(f, s[i])]

TrueAxes(f, v) == AxesOf(f, Range(v.shape) \ Coordinates(v))
\* A coordinate is left out when a true axis with an earlier name has its type.
AuxiliaryAxes(f, v) ==
  SelectSeq(AxesOf(f, Coordinates(v)),
            LAMBDA a : ~ \E b \in Range(TrueAxes(f, v)) : SameType(a, b) /\ At(b.name) < At(a.name))
TypeTwice(axes) == \E i, j \in DOMAIN axes : i # j /\ SameType(axes[i], axes[j])

\* The variables a system is made for: those that are no axes.
Heads(f) == SelectSeq(f.vars, LAMBDA v : v.name \notin AxisNames(f) /\ VarAxes(v) # {})
CFAxes(f, v) == TrueAxes(f, v) \o AuxiliaryAxes(f, v)
CFKey(f, v) == Sorted(Names(CFAxes(f, v)))
HeadOf(f, key) == SelectSeq(Heads(f), LAMBDA v : CFKey(f, v) = key)[1]

\* The mapping of the first variable that has one, or longitudes and latitudes as axes.
IsSimple(axis) == axis.explicit /\ Len(axis.shape) = 1
LatLonAxes(s) ==
  /\ s.simple /\ HasAxisType(s, "Lon") /\ HasAxisType(s, "Lat")
  /\ GeoXAxis(s) = FindAxis(s, <<"Lon">>) /\ GeoYAxis(s) = FindAxis(s, <<"Lat">>)
ProjectionBy(f, s, v) ==
  IF Attr(v, "grid_mapping") # "" THEN {Attr(v, "grid_mapping")} \intersect VarNames(f)
  ELSE IF LatLonAxes(s) THEN {"latitude_longitude"} ELSE {}
ProjectionOf(f, s) ==
  LET giving == SelectSeq(f.vars, LAMBDA v : v.name \in s.for \intersect s.complete /\ ProjectionBy(f, s, v) # {})
  IN IF giving = << >> THEN "none" ELSE CHOOSE p \in ProjectionBy(f, s, giving[1]) : TRUE
CannotBeMade(f, projection) ==
  projection \in VarNames(f)
  /\ "grid_mapping_name" \in DOMAIN Var(f, projection).attrs /\ Var(f, projection).attrs.grid_mapping_name \notin Supported

\* A term is of the system when its axes are, those of one value aside.
TermFits(f, s, term) ==
  \A n \in VarAxes(Var(f, term)) : n \in DOMAIN f.dims /\ f.dims[n] # 1 => n \in Names(s.axes)
Needed ==
  [atmosphere_hybrid_sigma_pressure_coordinate |-> {"p", "ps", "p0"}, atmosphere_ln_pressure_coordinate |-> {"lev", "p0"},
   atmosphere_sigma_coordinate |-> {"sigma", "ptop", "ps"},
   ocean_s_coordinate_g1 |-> {"s", "C", "depth", "depth_c", "eta"}, ocean_s_coordinate_g2 |-> {"s", "C", "depth", "depth_c", "eta"}]
Terms(f, s) ==
  LET z == GeoZAxis(s)
      said == IF z.name \in VarNames(f) /\ "formula_terms" \in DOMAIN Var(f, z.name).attrs
              THEN Var(f, z.name).attrs.formula_terms ELSE << >>
  IN IF z.type # "GeoZ" THEN << >> ELSE Restrict(said, {t \in DOMAIN said : said[t] \in VarNames(f)})
VerticalOf(f, s) ==
  LET z == GeoZAxis(s)
      name == IF z.name \in VarNames(f) THEN Attr(Var(f, z.name), "standard_name") ELSE ""
      terms == Terms(f, s)
      tested == Needed[name] \union
                (IF name # "atmosphere_hybrid_sigma_pressure_coordinate" THEN {} ELSE IF "ap" \in DOMAIN terms THEN {"ap"} ELSE {"a"})
  IN IF z.name \notin VarNames(f) THEN "none"
     ELSE IF z.type # "GeoZ" THEN z.type
     ELSE IF name \notin DOMAIN Needed THEN "none"
     ELSE IF \A t \in tested \intersect DOMAIN terms : TermFits(f, s, terms[t]) THEN name ELSE "none"

Bounds(f, s) == {Attr(Var(f, n), "bounds") : n \in Names(s.axes) \intersect VarNames(f)} \intersect VarNames(f)
Found(f, key, axes) ==
  [convention |-> "CF", axes |-> axes, projection |-> "none", vertical |-> "none",
   for |-> {v.name : v \in {w \in Range(f.vars) : VarAxes(w) \subseteq Range(key)}},
   complete |-> {v.name : v \in {w \in Range(f.vars) : Range(key) \subseteq VarAxes(w)}},
   depends |-> {}, simple |-> FALSE]
MarkSimple(s) == [s EXCEPT !.simple = IsSimple(GeoXAxis(s)) /\ IsSimple(GeoYAxis(s))]
SetTransformations(f, s) == [s EXCEPT !.projection = ProjectionOf(f, s), !.vertical = VerticalOf(f, s)]
SetDependencies(f, s) ==
  [s EXCEPT !.depends = ({s.projection} \intersect VarNames(f)) \union Range(Terms(f, s)) \union Bounds(f, s)]
CFSystem(f, key) ==
  SetDependencies(f, SetTransformations(f, MarkSimple(Found(f, key, CFAxes(f, HeadOf(f, key))))))

Listing(f, systems) == [file |-> f, thrown |-> FALSE, systems |-> systems]
Thrown(f) == [file |-> f, thrown |-> TRUE, systems |-> << >>]

CFListing(f, systems) ==
  IF (\E v \in Range(Heads(f)) : TypeTwice(TrueAxes(f, v))) \/ (\E s \in Range(systems) : CannotBeMade(f, s.projection))
  THEN Thrown(f) ELSE Listing(f, systems)
CFSystems(f, keys) == [i \in DOMAIN keys |-> CFSystem(f, keys[i])]
ListCF(f) == CFListing(f, CFSystems(f, SortedKeys({CFKey(f, v) : v \in Range(Heads(f))})))

----------------------------------------------------------------------------
\* WRF: axes are added where they lack, one after the other, until an attribute is missing.
CFIsMine(f) == "CF" \in f.conventions
WRFIsMine(f) == "south_north" \in DOMAIN f.dims /\ "MAP_PROJ" \in f.globals
RotatedMap == 6
KnownMaps == {1, 2, 3, RotatedMap}

Spatial(f, dim, needed, onMap, onSphere) ==
  [name |-> dim, shape |-> <<dim>>, needed |-> {needed}, dim |-> dim,
   attrs |-> IF f.map = RotatedMap THEN [units |-> "degree", standard_name |-> onSphere]
             ELSE [units |-> "length", standard_name |-> onMap]]
Level(dim) == [name |-> dim, shape |-> <<dim>>, needed |-> {}, dim |-> dim, attrs |-> [units |-> "1"]]
Additions(f) ==
  <<Spatial(f, "west_east", "DX", "projection_x_axis", "grid_longitude"),
    Spatial(f, "west_east_stag", "DX", "projection_x_axis", "grid_longitude"),
    Spatial(f, "south_north", "DY", "projection_y_axis", "grid_latitude"),
    Spatial(f, "south_north_stag", "DY", "projection_y_axis", "grid_latitude"),
    Level("bottom_top"), Level("bottom_top_stag"),
    [name |-> "Time", shape |-> <<"Time">>, needed |-> {"START_DATE"}, dim |-> "Time", attrs |-> [units |-> "time"]]>>
AddMissing(listing, a) ==
  IF listing.thrown \/ a.dim \notin DOMAIN listing.file.dims \/ a.name \in VarNames(listing.file) THEN listing
  ELSE IF ~(a.needed \subseteq listing.file.globals) THEN Thrown(listing.file)
  ELSE Listing([listing.file EXCEPT !.vars = Append(@, Variable(a.name, a.shape, a.attrs))], << >>)
\* The reference time goes with a new time axis; the variable stays when its attribute is missing.
ReferenceTime == "forecast_reference_time"
AddReferenceTime(before, listing) ==
  LET f == listing.file
      with(attrs) == [f EXCEPT !.vars = Append(@, Variable(ReferenceTime, << >>, attrs))]
  IN IF listing.thrown \/ "Time" \notin DOMAIN f.dims \/ "Time" \in VarNames(before) \/ ReferenceTime \in VarNames(f) THEN listing
     ELSE IF "SIMULATION_START_DATE" \in f.globals
       THEN Listing(with([units |-> "time", standard_name |-> ReferenceTime]), << >>)
     ELSE Thrown(with(<< >>))
TimeRequired(listing) == IF "Time" \in VarNames(listing.file) THEN listing ELSE Thrown(listing.file)
Completed(f) == TimeRequired(AddReferenceTime(f, FoldLeft(AddMissing, Listing(f, << >>), Additions(f))))

WRFTypes ==
  [west_east |-> "GeoX", west_east_stag |-> "GeoX", south_north |-> "GeoY", south_north_stag |-> "GeoY",
   bottom_top |-> "GeoZ", bottom_top_stag |-> "GeoZ", Time |-> "Time"]
WRFAxes(shape) ==
  [i \in DOMAIN shape |->
     [name |-> shape[i], explicit |-> TRUE, shape |-> <<shape[i]>>,
      type |-> IF shape[i] \in DOMAIN WRFTypes THEN WRFTypes[shape[i]] ELSE "Undefined"]]
Gridded(v) ==
  /\ Range(v.shape) \intersect {"west_east", "west_east_stag"} # {}
  /\ Range(v.shape) \intersect {"south_north", "south_north_stag"} # {}
WRFSystem(f, shape) ==
  LET its == {v.name : v \in {w \in Range(f.vars) : w.shape = shape}}
  IN [convention |-> "WRF", axes |-> WRFAxes(shape), projection |-> "wrf", vertical |-> "none", for |-> its,
      complete |-> its, depends |-> IF "Time" \in Range(shape) THEN {"Times"} ELSE {}, simple |-> TRUE]
\* Dimensions of other names get variables as well, up to a second axis of one type.
AddVirtual(listing, v) ==
  LET axes == WRFAxes(v.shape)
      twice == {i \in DOMAIN axes : \E j \in 1 .. i - 1 : SameType(axes[i], axes[j])}
      seen == {i \in DOMAIN axes : \A j \in twice : i < j}
      names == SelectSeq(SubSeq(v.shape, 1, Cardinality(seen)), LAMBDA n : n \notin DOMAIN WRFTypes \union VarNames(listing.file))
      f == [listing.file EXCEPT !.vars = @ \o [i \in DOMAIN names |-> Variable(names[i], <<names[i]>>, << >>)]]
  IN IF listing.thrown THEN listing ELSE IF twice # {} THEN Thrown(f) ELSE Listing(f, << >>)

WRFSystems(f, shapes) == [i \in DOMAIN shapes |-> WRFSystem(f, shapes[i])]
WRFListing(listing, gridded) ==
  IF listing.thrown THEN listing
  ELSE Listing(listing.file, WRFSystems(listing.file, SortedKeys({v.shape : v \in Range(gridded)})))
ListGridded(completed, gridded) == WRFListing(FoldLeft(AddVirtual, completed, gridded), gridded)
ListCompleted(completed) == ListGridded(completed, SelectSeq(completed.file.vars, Gridded))
ListWRF(f) == IF f.map \in KnownMaps THEN ListCompleted(Completed(f)) ELSE Listing(f, << >>)

----------------------------------------------------------------------------
\* listCoordinateSystems: each builder in turn; the first when nothing was found.
Then(listing, mine, list(_)) ==
  IF listing.thrown \/ ~mine THEN listing
  ELSE LET more == list(listing.file) IN [more EXCEPT !.systems = listing.systems \o @]
OrCF(found) == Then(found, found.systems = << >>, ListCF)
Systems(f, wrf(_)) == OrCF(Then(Then(Listing(f, << >>), CFIsMine(f), ListCF), WRFIsMine(f), wrf))
SystemsOfReader(f) == Systems(f, ListWRF)
\* Without a reader the WRF builder finds nothing.
SystemsOfModel(f) == Systems(f, LAMBDA g : Listing(g, << >>))

CompleteFor(systems, n) == SelectSeq(systems, LAMBDA s : n \in s.for \intersect s.complete)

----------------------------------------------------------------------------
\* findVariables: the variables with all the attributes, of a value asked for, and all the dimensions.
AnyValue == {}
Fits(v, a, values) == a \in DOMAIN v.attrs /\ (values = AnyValue \/ v.attrs[a] \in values)
FindVariables(f, wanted, dims) ==
  SelectSeq(f.vars, LAMBDA v : dims \subseteq Range(v.shape) /\ \A a \in DOMAIN wanted : Fits(v, a, wanted[a]))
WithStandardName(f, name) == FindVariables(f, [standard_name |-> {name}], {})

\* What a model tells of the axes of one variable; an axis of time or of levels is its own.
AxisQuestions == [x |-> <<"GeoX", "Lon">>, y |-> <<"GeoY", "Lat">>, z |-> <<"GeoZ", "Height", "Depth", "Pressure">>, t |-> <<"Time">>]
IsOwnAxis(systems, n, q) == q \in {"z", "t"} /\ \E s \in Range(systems) : FindAxis(s, AxisQuestions[q]).name = n
AxisOf(systems, n, q) ==
  IF IsOwnAxis(systems, n, q) THEN n
  ELSE IF CompleteFor(systems, n) = << >> THEN ""
  ELSE FindAxis(CompleteFor(systems, n)[1], AxisQuestions[q]).name
LatitudeLongitude(systems, n) ==
  LET its == CompleteFor(systems, n)
  IN IF its # << >> /\ HasAxisType(its[1], "Lat") /\ HasAxisType(its[1], "Lon")
     THEN <<FindAxis(its[1], <<"Lat">>).name, FindAxis(its[1], <<"Lon">>).name>> ELSE << >>
AxesTold(systems, n) ==
  [of |-> n, axes |-> [q \in DOMAIN AxisQuestions |-> AxisOf(systems, n, q)],
   latLon |-> LatitudeLongitude(systems, n),
   projection |-> IF CompleteFor(systems, n) = << >> THEN "none" ELSE CompleteFor(systems, n)[1].projection]

\* getProjectionAndAxesUnits: the first mapping, and the first axes of its kind in the whole file.
NoMapping == "latitude_longitude"
OfUnit(f, unit) == SelectSeq(Sorted(DOMAIN f.dims), LAMBDA d : d \in VarNames(f) /\ Attr(Var(f, d), "units") = unit)
AxesNamed(f, name) == LET found == WithStandardName(f, name) IN [i \in DOMAIN found |-> found[i].name]
MappingOf(mappings) ==
  IF mappings = << >> THEN [name |-> NoMapping, kind |-> NoMapping]
  ELSE [name |-> mappings[1].name, kind |-> mappings[1].attrs.grid_mapping_name]
AxesUnder(f, mapping, unit, onSphere, onMap) ==
  IF mapping.name = NoMapping THEN OfUnit(f, unit)
  ELSE AxesNamed(f, IF mapping.kind = "rotated_latitude_longitude" THEN onSphere ELSE onMap)
Told(mapping, xs, ys) == [thrown |-> xs = << >> \/ ys = << >>, projection |-> mapping.name, xs |-> xs, ys |-> ys]
TellMapping(f, mapping) ==
  Told(mapping, AxesUnder(f, mapping, "east", "grid_longitude", "projection_x_coordinate"),
       AxesUnder(f, mapping, "north", "grid_latitude", "projection_y_coordinate"))
Mappings(f) == FindVariables(f, [grid_mapping_name |-> AnyValue], {})
ProjectionAndAxes(f) == TellMapping(f, MappingOf(Mappings(f)))

----------------------------------------------------------------------------
\* generateProjectionCoordinates: longitudes and latitudes for every grid on a map that lacks them,
\* computed by the projection of the last system on its axes.
Unused(f, names) == SelectSeq(names, LAMBDA n : n \notin VarNames(f) \union DOMAIN f.dims)[1]
Lacking(systems) ==
  SelectSeq(systems, LAMBDA s : s.simple /\ s.projection # "none" /\ ~(HasAxisType(s, "Lat") /\ HasAxisType(s, "Lon")))
OnAxes(systems, id) == SelectSeq(systems, LAMBDA s : HorizontalId(s) = id)
Computed(name, shape, unit, standard, projection) ==
  Variable(name, shape, [units |-> unit, standard_name |-> standard, computed_by |-> projection])
PointedTo(f, its, coordinates) ==
  [f EXCEPT !.vars = [i \in DOMAIN @ |-> IF @[i].name \notin its THEN @[i]
                                          ELSE [@[i] EXCEPT !.attrs = ("coordinates" :> coordinates) @@ @]]]
AddCoordinates(f, systems) ==
  LET lon == Unused(f, LonNames)
      lat == Unused(f, LatNames)
      xy == HorizontalId(systems[1])
      projection == systems[Len(systems)].projection
      added == [f EXCEPT !.vars = @ \o <<Computed(lon, xy, "east", "longitude", projection),
                                         Computed(lat, xy, "north", "latitude", projection)>>]
  IN PointedTo(added, UNION {s.for \intersect s.complete : s \in Range(systems)}, {lon, lat})
Generated(f, systems) ==
  LET lacking == Lacking(systems)
  IN FoldLeft(LAMBDA g, id : AddCoordinates(g, OnAxes(lacking, id)), f, SortedKeys({HorizontalId(s) : s \in Range(lacking)}))

----------------------------------------------------------------------------
\* findBestHorizontalCoordinateSystems.
Chosen(systems, withProjection) ==
  SelectSeq(systems, LAMBDA s : IF withProjection THEN s.simple /\ s.projection # "none"
                                ELSE HasAxisType(s, "Lat") /\ HasAxisType(s, "Lon"))
Minimal(s, its) ==
  [x |-> GeoXAxis(s).name, y |-> GeoYAxis(s).name, lon |-> FindAxis(s, <<"Lon">>).name,
   lat |-> FindAxis(s, <<"Lat">>).name, projection |-> s.projection, for |-> its]
Best(f, systems, withProjection) ==
  LET chosen == Chosen(systems, withProjection)
      ids == {HorizontalId(s) : s \in Range(chosen)}
      last(id) == SelectSeq(chosen, LAMBDA s : HorizontalId(s) = id)[Len(SelectSeq(chosen, LAMBDA s : HorizontalId(s) = id))]
      served == {n \in VarNames(f) : CompleteFor(systems, n) # << >> /\ HorizontalId(CompleteFor(systems, n)[1]) \in ids}
      idOf == [n \in served |-> HorizontalId(CompleteFor(systems, n)[1])]
      geo(s) == Range(Var(f, GeoXAxis(s).name).shape) \union Range(Var(f, GeoYAxis(s).name).shape)
  IN [variables |-> idOf,
      systems |-> [id \in ids |-> Minimal(last(id), {n \in served : idOf[n] = id})],
      incompatible |->
        {n \in VarNames(f) \ served : \E id \in ids :
           n \notin Names(last(id).axes) /\ Range(Var(f, n).shape) \intersect geo(last(id)) # {}}]

----------------------------------------------------------------------------
\* enhanceVectorProperties: pairs of one shape, by the beginnings of their standard names.
StartsWith(f, name) ==
  SelectSeq(f.vars, LAMBDA v : Attr(v, "standard_name") = name \/ <<name, Attr(v, "standard_name")>> \in Longer)
Paired(f, x, y, xDirection, yDirection) ==
  [f EXCEPT !.vectors = (x :> [with |-> y, direction |-> xDirection]) @@ (y :> [with |-> x, direction |-> yDirection]) @@ @]
PairWith(f, x, names) ==
  LET free == SelectSeq(StartsWith(f, names.y), LAMBDA y : y.name \notin DOMAIN f.vectors /\ y.shape = x.shape)
  IN IF x.name \in DOMAIN f.vectors \/ free = << >> THEN f
     ELSE Paired(f, x.name, free[1].name, names.directions[1], names.directions[2])
EnhanceCF(f) ==
  FoldLeft(LAMBDA g, names : FoldLeft(LAMBDA h, x : PairWith(h, x, names), g, StartsWith(g, names.x)), f, VectorNames)
EnhanceWRF(f) ==
  FoldLeft(LAMBDA g, pair :
             IF Range(pair) \subseteq VarNames(g) /\ Range(pair) \intersect DOMAIN g.vectors = {}
             THEN Paired(g, pair[1], pair[2], "x", "y") ELSE g,
           f, <<<<"U", "V">>, <<"UAH", "VAH">>>>)
Enhanced(f) ==
  LET cf == IF CFIsMine(f) \/ ~WRFIsMine(f) THEN EnhanceCF(f) ELSE f
  IN IF WRFIsMine(f) THEN EnhanceWRF(cf) ELSE cf

----------------------------------------------------------------------------
CsInit == csFile \in CsFiles /\ csAnswer = [call |-> "none", after |-> [call |-> "none"]] /\ csCalls = 0

Answers(call, f, answer) ==
  /\ csCalls < MaxCsCalls /\ csCalls' = csCalls + 1
  /\ csFile' = f
  /\ csAnswer' = [call |-> call, answer |-> answer, after |-> csAnswer]
AnswersIf(listing, call, f, answer) ==
  IF listing.thrown THEN Answers("thrown", listing.file, call) ELSE Answers(call, f, answer)

\* What is asked of a list of systems, made from the reader or from its model alone.
TellList(call, listing) == AnswersIf(listing, call, listing.file, listing.systems)
TellBest(listing, withProjection) == AnswersIf(listing, "best", listing.file, Best(listing.file, listing.systems, withProjection))
TellGenerated(listing) == AnswersIf(listing, "generated", Generated(listing.file, listing.systems), listing.systems)
TellAxes(listing, n) == AnswersIf(listing, "axes", listing.file, AxesTold(listing.systems, n))
AskReader(listing) ==
  \/ TellList("list", listing)
  \/ TellGenerated(listing)
  \/ \E withProjection \in BOOLEAN : TellBest(listing, withProjection)
AskModel(listing) ==
  \/ TellList("listOfModel", listing)
  \/ \E n \in VarNames(csFile) : TellAxes(listing, n)
EnhanceVectorProperties == Answers("vectors", Enhanced(csFile), << >>)
TellProjection(told) == IF told.thrown THEN Answers("thrown", csFile, "projection") ELSE Answers("projection", csFile, told)
AskProjection == TellProjection(ProjectionAndAxes(csFile))

CsNext ==
  \/ AskReader(SystemsOfReader(csFile)) \/ AskModel(SystemsOfModel(csFile))
  \/ EnhanceVectorProperties \/ AskProjection

----------------------------------------------------------------------------
Both(f) == CFIsMine(f) /\ WRFIsMine(f)
Agree(vs) == \A v, w \in vs : Attr(v, "grid_mapping") = Attr(w, "grid_mapping")
OwnMapping(f, v) == Attr(v, "grid_mapping") \in VarNames(f)

Threw(calls) == csAnswer.call = "thrown" /\ csAnswer.answer \in calls

(* A variable the axes of which have distinct types has exactly one complete   *)
(* system, and in it the mapping it names, when the variables on the same      *)
(* axes name the same; every axis of a WRF system has a variable (isComplete,  *)
(* isCSFor, setAxis, setAuxiliaryAxis, setProjection).                         *)
VariablesHaveTheirSystem ==
  csAnswer.call \in {"list", "listOfModel"} =>
    LET systems == csAnswer.answer
        cf == SelectSeq(systems, LAMBDA s : s.convention = "CF")
        wrf == SelectSeq(systems, LAMBDA s : s.convention = "WRF")
        sameAxes(v) == {w \in Range(csFile.vars) : VarAxes(w) = VarAxes(v)}
    IN /\ cf # << >> /\ ~Both(csFile) => \A v \in Range(Heads(csFile)) :
            ~TypeTwice(AxesOf(csFile, VarAxes(v))) =>
              /\ Len(CompleteFor(cf, v.name)) = 1
              /\ Names(CompleteFor(cf, v.name)[1].axes) = VarAxes(v)
              /\ OwnMapping(csFile, v) /\ Agree(sameAxes(v)) =>
                   CompleteFor(cf, v.name)[1].projection = Attr(v, "grid_mapping")
       /\ wrf # << >> => \A v \in Range(csFile.vars) : Gridded(v) =>
            /\ Len(CompleteFor(wrf, v.name)) = 1
            /\ Names(CompleteFor(wrf, v.name)[1].axes) = Range(v.shape)
            /\ Range(v.shape) \subseteq VarNames(csFile)
       /\ \A s \in Range(cf) : s.depends \subseteq VarNames(csFile)

(* A variable served by a horizontal system has the mapping it names there,    *)
(* when all variables of this system name the same, and no variable is both    *)
(* served and incompatible (findBestHorizontalCoordinateSystems).              *)
ServedByItsMapping ==
  csAnswer.call = "best" =>
    LET best == csAnswer.answer
    IN /\ DOMAIN best.variables \intersect best.incompatible = {}
       /\ \A id \in DOMAIN best.systems :
            LET its == {Var(csFile, n) : n \in best.systems[id].for}
            IN Agree(its) /\ ~Both(csFile) => \A v \in its :
                 OwnMapping(csFile, v) => best.systems[id].projection = Attr(v, "grid_mapping")

(* The components of a vector name each other, in two directions, however      *)
(* often vectors are looked for (enhanceVectors).                              *)
VectorsMutual ==
  \A x \in DOMAIN csFile.vectors :
    LET y == csFile.vectors[x].with
    IN y # x /\ y \in DOMAIN csFile.vectors /\ csFile.vectors[y].with = x
       /\ csFile.vectors[y].direction # csFile.vectors[x].direction

(* The list found once is found again, though finding it changes the model     *)
(* (wrfListCoordinateSystems adds variables to it).                            *)
ListedTheSame ==
  csAnswer.after.call = "list" /\ ~Both(csFile) =>
    /\ ~Threw({"list"})
    /\ csAnswer.call = "list" => csAnswer.answer = csAnswer.after.answer

SoleAxes(sole, told, its) ==
  Len(sole.xs) = 1 /\ Len(sole.ys) = 1 /\ {sole.xs[1], sole.ys[1]} \subseteq its =>
    sole.projection = told.projection /\ told.axes.x = sole.xs[1] /\ told.axes.y = sole.ys[1]

(* The axes told for a variable are its own and of the type asked for, its     *)
(* projection is the one that it names, and when there is one mapping with one *)
(* pair of axes, these are the ones told (getHorizontalXAxis, getTimeAxis,     *)
(* getVerticalAxis, getLatitudeLongitude, getProjectionOf).                    *)
AxesToldAreOwn ==
  csAnswer.call = "axes" =>
    LET told == csAnswer.answer
        v == Var(csFile, told.of)
        typeOf(n) == Axis(csFile, n).type
    IN /\ \A q \in {a \in DOMAIN told.axes : told.axes[a] # ""} :
            told.axes[q] \in VarAxes(v) \union {v.name} /\ typeOf(told.axes[q]) \in Range(AxisQuestions[q])
       /\ told.latLon # << >> => typeOf(told.latLon[1]) = "Lat" /\ typeOf(told.latLon[2]) = "Lon" /\ Range(told.latLon) \subseteq VarAxes(v)
       /\ told.projection # "none" /\ OwnMapping(csFile, v) /\ Agree({w \in Range(csFile.vars) : VarAxes(w) = VarAxes(v)}) =>
            /\ told.projection = Attr(v, "grid_mapping")
            /\ Len(Mappings(csFile)) = 1 => SoleAxes(ProjectionAndAxes(csFile), told, VarAxes(v))

(* Once coordinates are generated every grid on a map has longitudes and       *)
(* latitudes on its own axes, computed by its own projection where the         *)
(* variables on these axes agree, and nothing is left to generate              *)
(* (generateProjectionCoordinates, of a file without WRF's dimensions).        *)
MapsHaveCoordinates ==
  csAnswer.after.call = "generated" /\ ~WRFIsMine(csFile) =>
    /\ ~Threw({"list", "generated", "best", "listOfModel", "axes"})
    /\ csAnswer.call = "list" =>
         LET before == csAnswer.after.answer
             axis(s, type) == Var(csFile, FindAxis(s, <<type>>).name)
             sharing(s) == OnAxes(before, HorizontalId(s))
         IN /\ Lacking(csAnswer.answer) = << >>
            /\ \A s \in Range(Lacking(before)) : \A n \in s.for \intersect s.complete :
                 \E its \in Range(CompleteFor(csAnswer.answer, n)) :
                   /\ HorizontalId(its) = HorizontalId(s)
                   /\ \A type \in {"Lat", "Lon"} :
                        /\ axis(its, type).shape = HorizontalId(s)
                        /\ (\A r \in Range(sharing(s)) : r.projection = s.projection) => Attr(axis(its, type), "computed_by") = s.projection

(* What the systems of a file promise to those that use them.                  *)
SystemsFitTheFile ==
  /\ VariablesHaveTheirSystem /\ ServedByItsMapping /\ VectorsMutual /\ ListedTheSame
  /\ AxesToldAreOwn /\ MapsHaveCoordinates
=============================================================================
