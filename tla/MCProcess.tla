----------------------------- MODULE MCProcess -----------------------------
(***************************************************************************)
(* What a process of fimex is made of besides streams: the log, the units, *)
(* the plug-ins, the command line, the file that is filled, the index of   *)
(* GRIB messages, the readers of GRIB and felt, the writer of GRIB, a      *)
(* projection, coordinate systems, NcML.  part says which one a behaviour  *)
(* is of.                                                                  *)
(***************************************************************************)
EXTENDS Logger, Units, FeltCDMReader2, FillWriter, FimexProgram, TLC

CONSTANTS Parts,        \* the parts to check
          Openers, GribFiles,
          Unset         \* an attribute an element of NcML does not have

VARIABLES part,
  haveScanned, factories, opening,
  gribDisk, grbml, indexed, grib, gribRead,
  gribFile, gribOut,
  projection, proj4, back,
  csFile, csAnswer, csCalls,
  ncVariables, ncDimensions, ncAttributes, coordsInitialized, coordSystems, touched, ncResult,
  doc, ncPhase, at, variableNameChanges, variableTypeChanges, dimensionNameChanges,
  config, cdmReader, cdm, varNames, dimNames, variableCompression, nc, ncStep

----------------------------------------------------------------------------
\* Logger: a class was set before two threads log, as fimex does. Units: two threads, one name
\* that udunits does not know, one reading of the system after an unloading. Both are extended, as are
\* FeltCDMReader2 and FimexProgram.

----------------------------------------------------------------------------
\* CDMFileReaderFactory: a plug-in that does not load, one found twice, files whose type, ending
\* and contents disagree.
PluginFile(name, loads, types, magics, urls) ==
  [name |-> name, loads |-> loads, types |-> types, magics |-> magics, endings |-> types, urls |-> urls]
PluginFiles ==
  <<PluginFile("netcdf", TRUE, {"nc"}, {"CDF"}, {"http"}), PluginFile("felt", FALSE, {"felt"}, {}, {}),
    PluginFile("grib-api", TRUE, {"grib", "grbml"}, {"GRIB"}, {}), PluginFile("netcdf", TRUE, {"nc"}, {"CDF"}, {})>>
FactoryOrder == <<"felt", "grib-api", "netcdf">>
Request(type, ending, magic, url, write) ==
  [type |-> type, ending |-> ending, magic |-> magic, url |-> url, write |-> write]
OpenRequests ==
  {Request("", "nc", "CDF", "", FALSE), Request("", "nc", "GRIB", "", TRUE), Request("grbml", "", "", "", FALSE),
   Request("felt", "", "", "", FALSE), Request("", "grib", "CDF", "http", FALSE)}
MaxOpens == 2
Plugins == INSTANCE CDMFileReaderFactory

----------------------------------------------------------------------------
\* FimexProgram: all stages at once and each alone, complete and incomplete, with and without a
\* configuration of the inner stream of a merge.
MCInnerOptions == {{}, {"extract.selectVariables", "merge.inner.file", "merge.inner.cfg", "merge.method",
                      "extract.reduceVerticalAxis.unit", "extract.reduceVerticalAxis.start",
                      "extract.reduceVerticalAxis.end"}}
Io == {"input.file", "output.file", "output.fillFile"}
Axes == {"interpolate.xAxisUnit", "interpolate.yAxisUnit", "interpolate.xAxisValues", "interpolate.yAxisValues"}
Sides == {"extract.reduceToBoundingBox.south", "extract.reduceToBoundingBox.north",
          "extract.reduceToBoundingBox.west", "extract.reduceToBoundingBox.east"}
AllStages == {"process.rotateVector.direction", "process.rotateVector.all", "process.accumulateVariable",
  "extract.reduceTime.start", "extract.reduceTime.end", "extract.selectVariables",
  "extract.removeVariable", "interpolate.projString", "verticalInterpolate.type",
  "verticalInterpolate.method", "verticalInterpolate.level1", "merge.inner.file", "merge.inner.cfg",
  "merge.method", "ncml.config"} \union Axes
OtherWay == {"process.addVerticalVelocity", "process.rotateVector.direction", "process.rotateVector.x",
  "process.rotateVector.y", "extract.selectVariables", "interpolate.template",
  "verticalInterpolate.dataConversion", "merge.method", "merge.inner.file"} \union Sides
MCLines ==
  {{"help"}, {"output.file"},
   {"input.file", "timeInterpolate.timeSpec", "qualityExtract.config", "verticalInterpolate.type",
    "verticalInterpolate.method", "verticalInterpolate.toAxis", "output.file"}} \union
  {Io \union asked : asked \in
    {AllStages, OtherWay, {"process.rotateVector.direction", "extract.reduceTime.start"},
     {"extract.reduceToBoundingBox.south"}, {"interpolate.vcrossNames", "interpolate.latitudeValues"},
     {"interpolate.projString"}, {"interpolate.latitudeValues"}, {"merge.smoothing"},
     {"verticalInterpolate.type", "verticalInterpolate.method"}}}
----------------------------------------------------------------------------
\* FillWriter: a file with an unlimited time and an ensemble; inputs that continue it, with turned
\* or fewer coordinates, outside of it, without coordinates, and of other shapes.
Earlier(x) == [from |-> "first", at |-> <<x, 0>>]

MCOutput ==
    [len |-> [time |-> 1, x |-> 2, ens |-> 2], unlimited |-> {"time"},
     shape |-> [time |-> <<"time">>, x |-> <<"x">>, t |-> <<"x", "time">>, e |-> <<"x", "ens", "time">>,
                s |-> <<"x", "time">>],
     cells |-> [time |-> (<<0>> :> 10), x |-> (<<0>> :> 1) @@ (<<1>> :> 2),
                t |-> (<<0, 0>> :> Earlier(0)) @@ (<<1, 0>> :> Earlier(1)), e |-> <<>>, s |-> <<>>]]

Input(name, lens, coords, shapes) == [name |-> name, len |-> lens, coord |-> coords, shape |-> shapes]
Coordinates(times, xs) == [time |-> times, x |-> xs]
InputShapes == [time |-> <<"time">>, x |-> <<"x">>, t |-> <<"x", "time">>, e |-> <<"x", "time">>]

MCInputs ==
    { Input("later", [time |-> 2, x |-> 2], Coordinates(<<10, 20>>, <<1, 2>>), InputShapes),
      Input("turned", [time |-> 2, x |-> 2], Coordinates(<<30, 20>>, <<2, 1>>), InputShapes),
      Input("part", [time |-> 1, x |-> 1], Coordinates(<<30>>, <<2>>), InputShapes),
      Input("outside", [time |-> 1, x |-> 2], Coordinates(<<20>>, <<2, 3>>), InputShapes),
      Input("unnamed", [time |-> 1, x |-> 2], [x |-> <<1, 2>>], [x |-> <<"x">>, t |-> <<"x", "time">>]),
      Input("shapes", [time |-> 1, x |-> 2, ens |-> 1], Coordinates(<<20>>, <<1, 2>>),
         [time |-> <<"time">>, x |-> <<"x">>, s |-> <<"x">>]),
      Input("longer", [x |-> 2, time |-> 1, lev |-> 1], [x |-> <<1, 2>>],
         [x |-> <<"x">>, t |-> <<"x", "time", "lev">>]) }

ToEnsemble(slice) == <<[inputDim |-> "", outputDim |-> "ens", inSlices |-> <<>>, outSlices |-> <<slice>>]>>
MCTranslations == {<<>>, ToEnsemble(1)}

----------------------------------------------------------------------------
\* GRIB: two files, each in two versions, with messages of several parameters, levels, times and
\* members, multi-messages, grids that are not known or differ, and one that is cut off.
G(type, n, increment) == [type |-> type, shape |-> 0, major |-> 1, majorFactor |-> 0,
  minor |-> 1, minorFactor |-> 0, n |-> n, first |-> 0, last |-> 4000, increment |-> increment, backward |-> FALSE]
Msg(field, param, level, step) == [edition |-> 2, complete |-> TRUE, asimof |-> FALSE,
  param |-> param, name |-> "unknown", keys |-> << >>, levelType |-> 100, level |-> level,
  reference |-> 0, unit |-> 1, stepType |-> "instant", step |-> step, pv |-> << >>, total |-> -1, number |-> -1, clusters |-> -1, cluster |-> -1,
  grid |-> G("regular_ll", 3, 2000), field |-> field]
Of(m, number, total) == [m EXCEPT !.number = number, !.total = total]
FileA == << <<Msg("a1", "t", 500, 0), [Msg("a2", "t", 850, 0) EXCEPT !.grid.type = "sh"], Msg("a3", "t", 850, 0)>>,
            <<Msg("a4", "t", 500, 6), Msg("a5", "q", 500, 0)>> >>
FileB == << <<Of(Msg("b1", "u", 500, 0), 0, 2), Of(Msg("b2", "u", 500, 6), 2, 2)>>,
            <<Msg("b3", "t", 500, 0)>> , <<[Msg("b4", "t", 850, 6) EXCEPT !.grid.n = 2]>>, <<Msg("b5", "z", 1, 0)>> >>
FileC == << <<[Msg("c1", "t", 500, 0) EXCEPT !.complete = FALSE]>> >>
WithPv(m) == [m EXCEPT !.levelType = 105, !.pv = <<0, 2, 4, 10, 12, 14>>]
FileD == << <<WithPv(Msg("d1", "t", 1, 0)), WithPv(Msg("d3", "t", 1, 0)), WithPv(Msg("d4", "v", 2, 0))>>,
            <<WithPv([Msg("d2", "t", 1, 6) EXCEPT !.grid.n = 4])>>, <<WithPv(Msg("d5", "q", 2, 0))>> >>
FileE == << <<[Msg("e1", "t", 500, 0) EXCEPT !.keys = [kind |-> 7], !.stepType = "accum"],
              [Msg("e2", "u", 500, 0) EXCEPT !.keys = [kind |-> 8], !.unit = 11, !.step = 1]>>,
            <<[Msg("e4", "w", 1, 0) EXCEPT !.levelType = 30, !.grid.first = 1, !.grid.last = 4001, !.edition = 1],
              [Msg("e5", "w", 1, 0) EXCEPT !.levelType = 20, !.grid.type = "rotated_ll"]>> >>
FileF == << <<Msg("f1", "t", 500, 0)>>, <<[Msg("f2", "q", 500, 0) EXCEPT !.unit = 254]>>, <<Msg("f3", "t", 500, 6)>> >>
MCFiles == [a |-> {FileA, FileD}, b |-> {FileB, FileC, FileE, FileF}]
Node(param, types, name, constant) == [edition |-> 2, param |-> param, levelTypes |-> types,
  stepTypes |-> IF name = "air_temperature" THEN {"instant"} ELSE {},
  extra |-> IF param = "u" THEN [kind |-> 7] ELSE << >>, name |-> name, constantTime |-> constant]
ParameterNodes == <<Node("t", {100}, "air_temperature", FALSE), Node("t", {}, "other", FALSE), Node("z", {}, "altitude", TRUE), Node("u", {}, "x_wind", FALSE)>>
Members == <<"b", "c">>
Mode(second) == [from |-> "halfLevel", second |-> second]
LevelModes == 105 :> [sums |-> TRUE, additional |-> [ap |-> Mode(FALSE), b |-> Mode(TRUE)]]
GridAxes == [regular_ll |-> [x |-> "longitude", y |-> "latitude"], lambert |-> [x |-> "x", y |-> "y"],
                rotated_ll |-> [x |-> "rlon", y |-> "rlat"]]
IndexInputs == {<<"a">>, <<"b", "a">>}
IndexOptions == {[figure |-> "", keys |-> {}], [figure |-> "wgs84", keys |-> {"kind"}]}
Flushed == {0, 2}
MaxIndexed == 2
MaxGribReads == 1
Grib == INSTANCE GribCDMReader
\* The index holds the messages of the file it was made from (GribFileIndex::initByGrib).
IndexedAsStored == Grib!IndexedAsStored
\* A cell that is read holds the field of the message with its keys (GribCDMReader::getDataSlice).
CellsByKey == Grib!CellsByKey

----------------------------------------------------------------------------
\* Felt: a file of levels and surfaces in both directions of a grid, one with members, one of
\* changing grids, one with a field twice, one that is being written.
Up == [type |-> 2, start |-> 50, increment |-> 2, sound |-> TRUE]
Down == [Up EXCEPT !.type = 2012, !.start = 52, !.increment = -2]
Felt(id, param, vcoord, level1, level2, dtype, offset, grid) ==
  [id |-> id, param |-> param, vcoord |-> vcoord, level1 |-> level1, level2 |-> level2, dtype |-> dtype,
   reference |-> 0, offset |-> offset, grid |-> grid, rows |-> 2, scale |-> -1, misc |-> 7]
Whole(entries) == [complete |-> TRUE, count |-> Cardinality({i \in DOMAIN entries : entries[i].rows # 0}), entries |-> entries]
Levels(grid) ==
  Whole(<<Felt("t1", 18, 10, 1, 500, 1, 0, grid), Felt("t2", 18, 10, 2, 300, 1, 0, grid),
    Felt("t3", 18, 10, 1, 500, 1, 6, grid), Felt("p1", 58, 2, 1000, 0, 1, 6, grid),
    [Felt("none", 18, 10, 3, 0, 1, 0, grid) EXCEPT !.rows = 0], Felt("p2", 58, 2, 1000, 0, 3, 6, grid),
    Felt("o", 101, 2, 1000, 0, 4, 0, grid), Felt("unknown", 77, 2, 1000, 0, 4, 0, grid)>>)
Ensemble ==
  Whole(<<Felt("e0", 2060, 10, 1, 0, 1, 0, Up), Felt("e1", 2060, 10, 1, 1, 1, 0, Up),
    Felt("e2", 2060, 10, 2, 1, 1, 0, Up), Felt("e3", 2061, 10, 1, 1, 1, 0, Up), Felt("e4", 2060, 10, 2, 0, 1, 6, Up),
    [Felt("e5", 2060, 10, 1, 1, 1, 6, Up) EXCEPT !.scale = -2]>>)
MCFeltFiles ==
  {Levels(Up), Levels(Down), Ensemble,
   Whole(<<Felt("x", 18, 10, 1, 0, 1, 0, Up), Felt("y", 18, 10, 1, 0, 1, 6, [Up EXCEPT !.type = 5])>>),
   Whole(<<Felt("x", 18, 10, 1, 0, 1, 0, Up), Felt("y", 18, 10, 1, 0, 1, 0, Up)>>),
   [Levels(Up) EXCEPT !.complete = FALSE]}
Parameter(id, asks, datatype) == [id |-> id, asks |-> asks, entries |-> 1, datatype |-> datatype]
MCParameters ==
  <<Parameter("cloud", [param |-> 2060], "short"), Parameter("lone", [param |-> 2061], "float"),
    Parameter("oro", [param |-> 101], "float"), Parameter("pressure", [param |-> 58, vcoord |-> 2], "float"),
    Parameter("temp", [param |-> 18], "short")>>
MCVerticalAxes == (10 :> "hybridLevels") @@ (2 :> "level1")

----------------------------------------------------------------------------
\* GRIB writer: levels scaled, with empty fields and a parameter of one level; hybrid
\* levels of both directions; grids of each projection, in both directions, and such that fail.
System(mapping, x, y, z, times, variables) ==
  [simple |-> TRUE, projection |-> mapping, x |-> x, y |-> y, first |-> <<60, -10>>, z |-> z, times |-> times,
   references |-> << >>, unique |-> 0, variables |-> variables]
Projected(name, parameters) == [name |-> name, parameters |-> parameters]
LatLon == Projected("latitude_longitude", << >>)
Rotated == Projected("rotated_latitude_longitude", [grid_north_pole_latitude |-> 30, grid_north_pole_longitude |-> 10])
Lambert == Projected("lambert_conformal_conic", [standard_parallel |-> <<63>>])
Polar == Projected("polar_stereographic", [straight_vertical_longitude_from_pole |-> 20])
Skewed == Projected("stereographic", [latitude_of_projection_origin |-> 45])
NoZ == [name |-> "none"]
Pressure == [name |-> "p", standard_name |-> "", unit |-> "Pa", values |-> <<500, 850>>, slope |-> 100, offset |-> 0, ap |-> << >>]
Hybrid(b) == [name |-> "k", standard_name |-> "hybrid", unit |-> "", values |-> <<1, 2>>, slope |-> 1, offset |-> 0, ap |-> <<4, 4>>, b |-> b]
Field(standard, data) ==
  [standard_name |-> standard, unit |-> "K", fill |-> -99, slope |-> 1, offset |-> 0, data |-> data]
Hours == <<3600, 7200, 18000>>
Cube == [t \in 1 .. 3 |-> [l \in 1 .. 2 |-> IF t = 2 /\ l = 2 THEN <<-99, -99>> ELSE <<100 * t + 10 * l, -99>>]]
Flat == << << <<5, 6>> >> >>
GribVariables == [t |-> Field("air_temperature", Cube), q |-> Field("", [t \in 1 .. 3 |-> << <<t, t>>, << >> >>]),
                  u |-> Field("", Cube), s |-> Field("air_temperature", Flat)]
Sources ==
  {[variables |-> GribVariables, systems |-> all] : all \in
    {<<System(LatLon, <<350, 355>>, <<60, 58>>, Pressure, Hours, <<"t", "q", "u">>), System(Rotated, <<-2, -3>>, <<1, 2>>, NoZ, << >>, <<"s">>)>>,
     <<System(Polar, <<1, 2>>, <<1, 2>>, Hybrid(<<1, 0>>), Hours, <<"t">>),
       [System(Lambert, <<1, 3>>, <<2, 1>>, NoZ, << >>, <<"s">>) EXCEPT !.unique = -1]>>,
     <<System(Skewed, <<1, 2>>, <<1, 2>>, NoZ, << >>, <<"s">>), [System(LatLon, <<1, 2>>, <<1>>, NoZ, << >>, <<"s">>) EXCEPT !.simple = FALSE],
       System(LatLon, <<1, 2>>, <<1>>, NoZ, << >>, <<"s">>), System(Lambert, <<1, 3>>, <<1, 2>>, Hybrid(<<0, 1>>), Hours, <<"t">>)>>,
     <<[System(LatLon, <<1, 2>>, <<1, 2>>, Pressure, Hours, <<"t">>) EXCEPT !.references = <<0, 1800>>]>>,
     <<[System(Rotated, <<1, 2>>, <<1, 2>>, [Pressure EXCEPT !.unit = "K"], Hours, <<"t">>) EXCEPT !.references = <<0>>]>>}}
LevelNode(by, id, units, value) ==
  [version |-> 2, by |-> by, id |-> id, units |-> units, value |-> value, scale |-> 1, offset |-> 0]
ParameterNode(by, level, number, attributes) ==
  [version |-> 2, by |-> by, level |-> level, number |-> number, attributes |-> attributes, units |-> "C", complete |-> TRUE]
InBoth(nodes) == nodes \union {[node EXCEPT !.version = 1] : node \in nodes}
GribConfig ==
  [append |-> FALSE, omitEmpty |-> TRUE, template |-> "samples", global |-> [centre |-> 88],
   axes |-> InBoth({[LevelNode(<<"unitCompatibleTo", "Pa">>, 100, "Pa", << >>) EXCEPT !.scale = 100], LevelNode(<<"standard_name", "hybrid">>, 105, "", << >>),
                    LevelNode(<<"standard_name", "">>, 1, "", <<0>>)}),
   parameters |-> InBoth({ParameterNode(<<"standard_name", "air_temperature">>, << >>, 11, << >>),
                          ParameterNode(<<"name", "q">>, <<500>>, 51, [packing |-> "special"])})]
WriterConfigs == {GribConfig, [GribConfig EXCEPT !.append = TRUE, !.omitEmpty = FALSE], [GribConfig EXCEPT !.template = "missing"]}
Degrees == (<<"Pa", "Pa">> :> [slope |-> 1, offset |-> 0]) @@ (<<"K", "C">> :> [slope |-> 1, offset |-> -273])
GribWriter == INSTANCE GribApiCDMWriter WITH GribSources <- Sources, GribConfigs <- WriterConfigs,
  GribVersions <- {1, 2}, UnitScales <- Degrees, BeyondArray <- {0, 3}, MaxGribWriters <- 2
\* A message tells the time, level, parameter and grid of its values (GribApiCDMWriter_ImplAbstract::run).
WrittenFieldsAreTold == part = "gribwrite" => GribWriter!WrittenFieldsAreTold

----------------------------------------------------------------------------
\* Projections: every class with the parameters it knows, on figures of the earth given in each
\* way, and texts of users.
Mapping(name, f) == <<<<"grid_mapping_name", name>>>> \o SetToSeq({<<k, f[k]>> : k \in DOMAIN f})
EarthFigures ==
  {<< >>, <<<<"earth_radius", 6371>>>>, <<<<"semi_major_axis", 6378>>, <<"semi_minor_axis", 6356>>>>,
   <<<<"semi_major_axis", 6377>>, <<"inverse_flattening", 299>>>>, <<<<"semi_major_axis", 6377>>>>,
   <<<<"semi_minor_axis", 6356>>, <<"earth_radius", 6371>>>>,
   <<<<"false_easting", 5>>, <<"semi_minor_axis", 6356>>, <<"semi_major_axis", 6378>>, <<"towgs84", <<1, 2, 3>>>>>>}
Centred(extra) == [longitude_of_projection_origin |-> 10, latitude_of_projection_origin |-> 50] @@ extra
Meridian10(extra) == [longitude_of_central_meridian |-> 10] @@ extra
RotatedPole(extra) == [grid_north_pole_longitude |-> 220, grid_north_pole_latitude |-> 22] @@ extra
GivenGrids ==
  {Mapping("latitude_longitude", << >>), Mapping("azimuthal_equidistant", Centred(<< >>)), Mapping("lambert_azimuthal_equal_area", Centred(<< >>)),
   Mapping("orthographic", Centred(<< >>)), Mapping("sinusoidal", [longitude_of_projection_origin |-> 10]), Mapping("vertical_perspective", Centred([perspective_point_height |-> 35])),
   Mapping("geostationary", Centred([perspective_point_height |-> 35])), Mapping("geostationary", Centred([sweep_angle_axis |-> "x"])),
   Mapping("albers_conical_equal_area", Meridian10([standard_parallel |-> <<40>>])), Mapping("lambert_conformal_conic", Meridian10([standard_parallel |-> <<40, 60>>])),
   Mapping("lambert_conformal_conic", Meridian10([latitude_of_projection_origin |-> 63, standard_parallel |-> <<63, 63>>])), Mapping("albers_conical_equal_area", << >>),
   Mapping("lambert_cylindrical_equal_area", Meridian10([standard_parallel |-> <<40>>])), Mapping("lambert_cylindrical_equal_area", Meridian10([scale_factor_at_projection_origin |-> 9996])),
   Mapping("mercator", [longitude_of_projection_origin |-> 10, standard_parallel |-> <<40>>]), Mapping("mercator", [scale_factor_at_projection_origin |-> 9996]),
   Mapping("oblique_mercator", Centred([azimuth_of_central_line |-> 30, gamma |-> 5, no_rotation |-> ""])), 
   Mapping("transverse_mercator", Meridian10([latitude_of_projection_origin |-> 2])), Mapping("transverse_mercator", Meridian10([scale_factor_at_central_meridian |-> 9996])),
   Mapping("polar_stereographic", [latitude_of_projection_origin |-> 90, straight_vertical_longitude_from_pole |-> 70, standard_parallel |-> <<60>>]),
   Mapping("polar_stereographic", [latitude_of_projection_origin |-> -90, longitude_of_projection_origin |-> 0, scale_factor_at_projection_origin |-> 9330]),
   Mapping("stereographic", Centred([scale_factor_at_projection_origin |-> 9330])), Mapping("stereographic", [latitude_of_projection_origin |-> 90, longitude_of_projection_origin |-> 7]),
   Mapping("rotated_latitude_longitude", RotatedPole(<< >>)), Mapping("rotated_latitude_longitude", RotatedPole([north_pole_grid_longitude |-> 10])),
   Mapping("rotated_latitude_longitude", RotatedPole([north_pole_grid_longitude |-> -10])), Mapping("swiss", << >>)}
GivenMappings == {g \o f : g \in GivenGrids, f \in EarthFigures} \union {<< >>}
GivenTexts ==
  {[proj |-> "lcc", lat_0 |-> 77, lon_0 |-> 335, lat_1 |-> 77, lat_2 |-> 77, R |-> 6371],
   [proj |-> "stere", ellps |-> "WGS84", lat_0 |-> 90, lat_ts |-> <<60>>, x_0 |-> 31, y_0 |-> 17, lon_0 |-> 70],
   [proj |-> "stere", lat_0 |-> 90, k |-> 9330], [proj |-> "stere", lon_0 |-> 90, k |-> 9330, lat_ts |-> <<60>>],
   [proj |-> "ob_tran", o_proj |-> "longlat", lon_0 |-> -40, o_lat_p |-> 22, R |-> 6371],
   [proj |-> "ob_tran", o_proj |-> "moll", lon_0 |-> -40, o_lat_p |-> 22, R |-> 6371],
   [proj |-> "utm", zone |-> 33, datum |-> "WGS84"], [proj |-> "utm", zone |-> 0, south |-> "", x_0 |-> 7], [proj |-> "utm", lon_0 |-> 15],
   [proj |-> "utm", lon_0 |-> -15, ellps |-> "bessel"], [proj |-> "tmerc", lon_0 |-> -15, e |-> 5, a |-> 6378], [proj |-> "longlat", a |-> 6367, e |-> 0],
   [proj |-> "robin", lon_0 |-> 5, ellps |-> "clrk66"], [o_proj |-> "longlat"], [proj |-> "merc", k |-> 9996, a |-> 6378, b |-> 6356]}
Project == INSTANCE Projection WITH Mappings <- GivenMappings, Proj4Texts <- GivenTexts, DefaultRadius <- 6371000
\* What is asked for again is found again: the text of a projection makes the same projection
\* (ProjectionImpl, parametersFromProj4), and a file is opened by the same factory whatever was
\* opened before (findFactory).
SameAgain ==
  /\ part = "projection" => Project!SameProjectionBack
  /\ part = "plugins" => Plugins!SameFactoryAlways

----------------------------------------------------------------------------
\* Coordinate systems: a grid with levels and winds, longitudes and latitudes, two mappings, axes of
\* one type, a swath, and WRF files of which some lack attributes.
CsVar(name, shape, attrs) == [name |-> name, shape |-> shape, attrs |-> attrs]
CFAxes ==
  <<CsVar("x", <<"x">>, [standard_name |-> "projection_x_coordinate", units |-> "length", bounds |-> "xbnds"]),
    CsVar("y", <<"y">>, [axis |-> "y", bounds |-> "unknown"]), CsVar("time", <<"time">>, [units |-> "time"]),
    CsVar("lon", <<"x", "y">>, [units |-> "east"]), CsVar("lat", <<"x", "y">>, [standard_name |-> "latitude"]),
    CsVar("xbnds", <<"two", "x">>, << >>), CsVar("proj", << >>, [grid_mapping_name |-> "stereographic"])>>
OnGrid(name, shape, more) == CsVar(name, shape, more @@ [grid_mapping |-> "proj", coordinates |-> {"lon", "lat"}])
CFLevels ==
  <<CsVar("lev", <<"lev">>, [standard_name |-> "atmosphere_hybrid_sigma_pressure_coordinate",
                         formula_terms |-> [ap |-> "ap", b |-> "b", ps |-> "ps", p0 |-> "missing"]]),
    CsVar("ap", <<"lev">>, << >>), CsVar("b", <<"lev">>, << >>),
    OnGrid("ps", <<"x", "y", "sfc", "time">>, << >>), OnGrid("t", <<"x", "y", "lev", "time">>, << >>),
    OnGrid("p", <<"x", "y", "p1", "time">>, << >>), CsVar("p1", <<"p1">>, [units |-> "pressure"]),
    CsVar("z1", <<"z1">>, [units |-> "length", positive |-> "down"]), OnGrid("d", <<"x", "y", "z1">>, << >>)>>
CFWinds ==
  <<OnGrid("u1", <<"x", "y", "time">>, [standard_name |-> "eastward_wind"]), OnGrid("u2", <<"x", "y">>, [standard_name |-> "eastward_wind_shear"]),
    OnGrid("v1", <<"x", "y", "time">>, [standard_name |-> "northward_wind"]), OnGrid("v2", <<"x", "y">>, [standard_name |-> "northward_wind_shear"])>>
CFDims == [x |-> 2, y |-> 2, time |-> 2, lev |-> 2, sfc |-> 1, p1 |-> 1, z1 |-> 1, two |-> 2]
CsFile(conventions, globals, map, dims, variables) ==
  [conventions |-> conventions, globals |-> globals, map |-> map, dims |-> dims, vars |-> variables, vectors |-> << >>]
CFFile(variables) == CsFile({"CF"}, {}, 0, CFDims, variables)
MapAxes ==
  <<CsVar("x", <<"x">>, [standard_name |-> "projection_x_coordinate", units |-> "length"]), CsVar("time", <<"time">>, [units |-> "time"]),
    CsVar("y", <<"y">>, [standard_name |-> "projection_y_coordinate", units |-> "length"]),
    CsVar("proj", << >>, [grid_mapping_name |-> "stereographic"])>>
LonLatVars ==
  <<CsVar("lon", <<"lon">>, [units |-> "east"]), CsVar("lat", <<"lat">>, [units |-> "north"]),
    CsVar("s", <<"lon", "lat">>, << >>), CsVar("n", <<"lon">>, << >>)>>
WRFDims == [west_east |-> 3, west_east_stag |-> 4, south_north |-> 2, south_north_stag |-> 3, bottom_top |-> 2, Time |-> 2, soil |-> 2]
WRFVars ==
  <<CsVar("Times", <<"Time">>, << >>), CsVar("T", <<"west_east", "south_north", "bottom_top", "Time">>, [coordinates |-> {"XLONG"}]),
    CsVar("U", <<"west_east_stag", "south_north", "bottom_top", "Time">>, << >>), CsVar("V", <<"west_east", "south_north_stag", "bottom_top", "Time">>, << >>),
    CsVar("SOIL", <<"west_east", "south_north", "soil">>, << >>), CsVar("Q", <<"west_east", "south_north", "bottom_top", "Time">>, << >>)>>
WRFGlobals == {"MAP_PROJ", "DX", "DY", "START_DATE", "SIMULATION_START_DATE"}
WRFFile(map, conventions, lacking, more) == CsFile(conventions, WRFGlobals \ lacking, map, WRFDims, WRFVars \o more)
GivenFiles ==
  {CFFile(CFAxes \o CFLevels \o CFWinds), CsFile({}, {}, 0, [lon |-> 4, lat |-> 3], LonLatVars),
   CFFile(CFAxes \o <<OnGrid("t", <<"x", "y", "xx">>, << >>), CsVar("xx", <<"xx">>, [axis |-> "x"])>>),
   CFFile(CFAxes \o <<CsVar("proj2", << >>, [grid_mapping_name |-> "swiss"]), OnGrid("t", <<"x", "y">>, [grid_mapping |-> "proj2"])>>),
   CFFile(CFAxes \o <<CsVar("proj2", << >>, [grid_mapping_name |-> "mercator"]), OnGrid("t", <<"x", "y">>, << >>),
                    OnGrid("q", <<"x", "y", "time">>, [grid_mapping |-> "proj2"]), OnGrid("r", <<"x", "y">>, [grid_mapping |-> "proj2"]),
                    CsVar("alt", <<"x", "y">>, [units |-> "length", positive |-> "up"]), OnGrid("s", <<"x", "y", "z1">>, [coordinates |-> {"alt", "z1"}])>>),
   CFFile(<<CsVar("lon", <<"x", "y">>, [units |-> "east"]), CsVar("lat", <<"x", "y">>, [units |-> "north"]),
        CsVar("swath", <<"x", "y">>, [coordinates |-> {"lon", "lat"}]), CsVar("other", <<"x">>, << >>)>>),
   CFFile(MapAxes \o <<CsVar("f", <<"x", "y", "time">>, [grid_mapping |-> "proj"]), CsVar("lon", <<"x">>, << >>),
                     CsVar("h", <<"x", "y">>, [grid_mapping |-> "proj", coordinates |-> {"alt"}]), CsVar("alt", <<"x", "y">>, [units |-> "length", positive |-> "up"])>>),
   CsFile({"CF"}, {}, 0, CFDims @@ [x2 |-> 3, y2 |-> 2],
     MapAxes \o <<CsVar("f", <<"x", "y", "time">>, [grid_mapping |-> "proj"]), CsVar("h", <<"x2", "y2">>, [grid_mapping |-> "proj2"]),
        CsVar("x2", <<"x2">>, [standard_name |-> "grid_longitude"]), CsVar("y2", <<"y2">>, [standard_name |-> "grid_latitude"]),
        CsVar("proj2", << >>, [grid_mapping_name |-> "mercator"])>>),
   CFFile(MapAxes \o <<CsVar("f", <<"x", "y", "time">>, [grid_mapping |-> "proj"]), CsVar("h", <<"x", "y">>, [grid_mapping |-> "proj2"]),
        CsVar("proj2", << >>, [grid_mapping_name |-> "mercator"])>>),
   WRFFile(1, {}, {}, << >>), WRFFile(6, {"CF"}, {}, << >>), WRFFile(2, {}, {"DX"}, << >>), WRFFile(3, {}, {"START_DATE"}, << >>),
   WRFFile(3, {}, {"SIMULATION_START_DATE"}, << >>), WRFFile(0, {}, {}, << >>),
   WRFFile(1, {}, {}, <<CsVar("bad", <<"soil", "west_east", "west_east_stag", "south_north", "x">>, << >>)>>)}
GivenNames ==
  <<"Time", "XLONG", "alt", "ap", "b", "bottom_top", "d", "forecast_reference_time", "lat", "lat0", "lat1", "lat2", "lat3", "lat4", "lev",
    "lon", "lon0", "lon1", "lon2", "lon3", "lon4", "n", "p", "p1", "proj", "ps", "s", "sfc", "soil", "south_north",
    "south_north_stag", "t", "time", "two", "west_east", "west_east_stag", "x", "x2", "xx", "y", "y2", "z1">>
GivenVectors ==
  <<[x |-> "eastward_wind", y |-> "northward_wind", directions |-> <<"lon", "lat">>],
    [x |-> "eastward_wind_shear", y |-> "northward_wind_shear", directions |-> <<"lon", "lat">>]>>
GivenLonger == {<<"eastward_wind", "eastward_wind_shear">>, <<"northward_wind", "northward_wind_shear">>}
Coords == INSTANCE CoordinateSystem WITH CsFiles <- GivenFiles, Alphabet <- GivenNames, VectorNames <- GivenVectors,
  Longer <- GivenLonger, Supported <- {"stereographic", "mercator"}, MaxCsCalls <- 2,
  LonNames <- <<"lon", "lon0", "lon1", "lon2", "lon3", "lon4", "lon5">>, LatNames <- <<"lat", "lat0", "lat1", "lat2", "lat3", "lat4", "lat5">>
\* Every variable has its system with its mapping, and what was found once is found again (CoordinateSystem.cc).
SystemsFitTheFile == part = "coords" => Coords!SystemsFitTheFile

----------------------------------------------------------------------------
\* NcML: a source with three variables, one with data in memory, and documents of a removal, or up
\* to two elements for the variables, for the dimensions (with a change of shape), or for the
\* attributes (with a rename).
NamedOfType(name, type, memory) == [of |-> name, type |-> type, memory |-> memory]
NcSource ==
  [variables |-> [a |-> [about |-> NamedOfType("a", "T1", FALSE), shape |-> <<"x">>],
                  b |-> [about |-> NamedOfType("b", "T2", TRUE), shape |-> <<"y">>],
                  w |-> [about |-> NamedOfType("w", "T2", FALSE), shape |-> <<"x", "y">>]],
   dimensions |-> [x |-> 2, y |-> 1],
   attributes |-> [a |-> <<[name |-> "p", value |-> 1], [name |-> "q", value |-> 2], [name |-> "s", value |-> 3]>>,
                   b |-> <<[name |-> "q", value |-> 1]>>]]
UpTo(n, S) == UNION {[1 .. k -> S] : k \in 0 .. n}
NcDocs(removes, dims, variables, atts) == [removes: removes, dims: dims, vars: variables, atts: atts]
NcRemove(type, names) == [type: {type}, name: names, owner: {"a", "g"}]
VarElements ==
  [name: {"a", "b", "c"}, orgName: {Unset, "a", "b", "c"}, shape: {Unset}, type: {Unset, "T1", "T2"}, values: {FALSE}]
DimElements ==
  [name: {"x", "y", "z"}, orgName: {Unset, "x", "y", "z"}, overwrite: {FALSE}, length: {Unset, 2}] \union
  [name: {"x", "y", "z"}, orgName: {"x", "y"}, overwrite: {TRUE}, length: {Unset}]
ShapeElements == [name: {"w"}, orgName: {Unset, "a"}, shape: {Unset, <<"x", "z">>}, type: {Unset}, values: BOOLEAN]
AttElements ==
  [owner: {"a"}, name: {"p", "q", "s"}, orgName: {Unset, "p", "q", "s"}, value: {Unset, 2}] \union
  [owner: {"c", "g"}, name: {"p"}, orgName: {Unset, "q"}, value: {Unset, 2}]
Renames == [name: {"a", "c"}, orgName: {"a", "b"}, shape: {Unset}, type: {Unset}, values: {FALSE}]
Nothing == {<<>>}
Documents ==
  NcDocs(UpTo(1, NcRemove("variable", {"a", "b"})), Nothing, UpTo(2, VarElements), Nothing) \union
  NcDocs(Nothing, UpTo(2, DimElements), UpTo(1, ShapeElements), Nothing) \union
  NcDocs(UpTo(1, NcRemove("dimension", {"x"}) \union NcRemove("variable", {"w"})), UpTo(1, DimElements), UpTo(1, ShapeElements), Nothing) \union
  NcDocs(Nothing, Nothing, UpTo(1, Renames), UpTo(2, AttElements)) \union
  NcDocs(UpTo(1, NcRemove("attribute", {"p", "q"})), Nothing, UpTo(1, Renames), UpTo(1, AttElements))
Ncml == INSTANCE NcmlCDMReader WITH
  Names <- {"a", "b", "c", "w"}, Global <- "g", DimNames <- {"x", "y", "z"}, AttrNames <- {"p", "q", "s"}, Values <- 1 .. 3,
  Types <- {"T1", "T2"}, None <- Unset, Source <- NcSource, variables <- ncVariables, dimensions <- ncDimensions,
  attributes <- ncAttributes, result <- ncResult, phase <- ncPhase
\* What is described is what is read, after any document (the constructor of NcmlCDMReader, getDataSlice).
ModelAsDescribed == part = "ncml" => Ncml!ModelAsDescribed

----------------------------------------------------------------------------
\* Definition of a NetCDF file: models with a scalar without a type, a dimension of length 0 and
\* one nothing uses, one with two unlimited dimensions; documents that remove, rename, retype and
\* compress, alone and together, some of them wrong.
OutDim(name, length, unlimited) == [name |-> name, length |-> length, unlimited |-> unlimited]
OutVar(name, type, shape, empty) == [name |-> name, type |-> type, shape |-> shape, empty |-> empty]
OutAtt(name, type, value) == [name |-> name, type |-> type, value |-> value]
OutModel ==
  [dims |-> <<OutDim("x", 2000, FALSE), OutDim("lev", 1500, FALSE), OutDim("time", 2, TRUE), OutDim("zero", 0, FALSE), OutDim("unused", 3, FALSE)>>,
   vars |-> <<OutVar("x", "double", <<"x">>, FALSE), OutVar("time", "int", <<"time">>, FALSE), OutVar("t", "short", <<"x", "lev", "time">>, FALSE),
              OutVar("e", "short", <<"x">>, TRUE), OutVar("s", "int", <<"zero", "x">>, TRUE), OutVar("proj", "NAT", << >>, FALSE)>>,
   atts |-> [t |-> <<OutAtt("units", "string", "K"), OutAtt("scale_factor", "double", "0.1"), OutAtt("_FillValue", "short", "-1")>>,
             e |-> <<OutAtt("missing_value", "short", "-9")>>, x |-> <<OutAtt("units", "string", "m")>>]]
TwoUnlimited == [OutModel EXCEPT !.dims[2].unlimited = TRUE, !.atts = ("/" :> <<OutAtt("history", "strings", "h")>>) @@ @]
InCelsius == [OutModel EXCEPT !.atts["t"] = <<OutAtt("units", "string", "C"), OutAtt("add_offset", "double", "5")>>]
PlainDocument ==
  [version |-> 3, filetype |-> "", ncml |-> << >>, removes |-> << >>, autoRemove |-> TRUE, renames |-> << >>, types |-> << >>,
   compression |-> 13, compressions |-> << >>, chunks |-> << >>, dimRenames |-> << >>, attributes |-> << >>]
OutRemove(type, owner, name) == [type |-> type, owner |-> owner, name |-> name]
OutRename(name, newname) == [name |-> name, newname |-> newname]
OutType(name, type) == [name |-> name, type |-> type]
NewAtt(owner, name, type, value, newname) == [owner |-> owner, name |-> name, type |-> type, value |-> value, newname |-> newname]
NamingDocuments ==
  {[PlainDocument EXCEPT !.filetype = f, !.removes = r, !.autoRemove = a, !.renames = n, !.dimRenames = d] :
     f \in {"", "netcdf4"}, a \in BOOLEAN,
     r \in {<< >>, <<OutRemove("variable", "/", "x"), OutRemove("dimension", "/", "unused")>>,
           <<OutRemove("dimension", "/", "x"), OutRemove("attribute", "t", "scale_factor"), OutRemove("variable", "/", "s")>>},
     n \in {<< >>, <<OutRename("x", "t")>>, <<OutRename("x", "y"), OutRename("t", "x")>>, <<OutRename("time", "a"), OutRename("time", "b")>>},
     d \in {<< >>, <<OutRename("x", "xc")>>, <<OutRename("x", "lev"), OutRename("lev", "x")>>, <<OutRename("unused", "u")>>,
           <<OutRename("time", "c"), OutRename("time", "d")>>, <<OutRename("x", "time")>>}}
ContentDocuments ==
  {[PlainDocument EXCEPT !.filetype = f, !.types = t, !.attributes = a, !.ncml = m] :
     f \in {"", "netcdf4", "netcdf4classic", "hdf"},
     t \in {<< >>, <<OutType("x", "uint")>>, <<OutType("t", "double")>>, <<OutType("e", "int")>>, <<OutType("proj", "NAT")>>, <<OutType("x", "NAT")>>},
     a \in {<< >>, <<NewAtt("x", "units", "string", "km", "")>>, <<NewAtt("t", "units", "", "C", "unit"), NewAtt("t", "scale_factor", "double", "2", "")>>,
           <<NewAtt("t", "_FillValue", "double", "9", ""), NewAtt("t", "units", "string", "Pa", ""), NewAtt("t", "scale_factor", "double", "2", "")>>,
           <<NewAtt("t", "units", "", "", "scale_factor")>>, <<NewAtt("x", "gone", "", "", "")>>, <<NewAtt("dimension", "a", "string", "b", "")>>,
           <<NewAtt("t", "units", "string", "C", "")>>, <<NewAtt("/", "history", "strings", "n", "")>>},
     m \in {<< >>, <<InCelsius>>, <<InCelsius, OutModel>>}}
ChunkDocuments ==
  {[PlainDocument EXCEPT !.version = v, !.filetype = f, !.compression = l, !.compressions = c, !.chunks = k] :
     v \in {3, 4, 5}, f \in {"", "netcdf4", "netcdf3_64bit"}, l \in {0, 3, 10, 13, 20}, c \in {<< >>, <<[name |-> "t", level |-> 19]>>},
     k \in {<< >>} \union {<<[name |-> d, size |-> n]>> : d \in {"x", "lev", "zero"}, n \in {0, 7, 3000}}}
WriterDocuments == NamingDocuments \union ContentDocuments \union ChunkDocuments
OutModels == {OutModel, TwoUnlimited}
OutUnits == {{"K", "C"}, {"m", "km"}}
Definition == INSTANCE NetCDFDefinition WITH
  Models <- OutModels, Configs <- WriterDocuments, UnitClasses <- OutUnits,
  variableNameChanges <- varNames, dimensionNameChanges <- dimNames, step <- ncStep
\* A file holds what its document asks for, and what its attributes say (NetCDF_CDMWriter).
FileAsConfigured == part = "ncdefine" => Definition!FileAsConfigured

----------------------------------------------------------------------------
\* A behaviour is one of its part; the others stay as they start, and start in one way.
openVars == <<haveScanned, factories, opening>>
messageVars == <<gribDisk, grbml, indexed, grib, gribRead>>
gribWritingVars == <<gribFile, gribOut>>
projectionVars == <<projection, proj4, back>>
csVars == <<csFile, csAnswer, csCalls>>
ncVars == <<ncVariables, ncDimensions, ncAttributes, coordsInitialized, coordSystems, touched, ncResult,
            doc, ncPhase, at, variableNameChanges, variableTypeChanges, dimensionNameChanges>>
definingVars == <<config, cdmReader, cdm, varNames, dimNames, variableCompression, nc, ncStep>>

OnlyThisPart ==
  /\ UNCHANGED part
  /\ IF part = "log" THEN TRUE ELSE UNCHANGED logVars
  /\ IF part = "units" THEN TRUE ELSE UNCHANGED unitVars
  /\ IF part = "plugins" THEN TRUE ELSE UNCHANGED openVars
  /\ IF part = "program" THEN TRUE ELSE UNCHANGED programVars
  /\ IF part = "fill" THEN TRUE ELSE UNCHANGED fwVars
  /\ IF part \in {"grib", "gribindex"} THEN TRUE ELSE UNCHANGED messageVars
  /\ IF part = "felt" THEN TRUE ELSE UNCHANGED feltVars
  /\ IF part = "gribwrite" THEN TRUE ELSE UNCHANGED gribWritingVars
  /\ IF part = "projection" THEN TRUE ELSE UNCHANGED projectionVars
  /\ IF part = "coords" THEN TRUE ELSE UNCHANGED csVars
  /\ IF part = "ncml" THEN TRUE ELSE UNCHANGED ncVars
  /\ IF part = "ncdefine" THEN TRUE ELSE UNCHANGED definingVars

ProcessInit ==
  /\ part \in Parts
  /\ IF part = "program" THEN TRUE ELSE streams = <<Stream(CHOOSE options \in CommandLines : TRUE)>>
  /\ IF part = "fill" THEN TRUE ELSE in = CHOOSE i \in Inputs : TRUE
  /\ IF part = "projection" THEN TRUE ELSE projection = Project!Failed
  /\ IF part = "coords" THEN TRUE ELSE csFile = CHOOSE f \in GivenFiles : TRUE
  /\ IF part \in {"grib", "gribindex"} THEN TRUE ELSE gribDisk = [f \in DOMAIN GribFiles |-> CHOOSE contents \in GribFiles[f] : TRUE]
  /\ IF part = "ncdefine" THEN TRUE ELSE config = PlainDocument /\ cdmReader = OutModel
  /\ IF part = "ncml" THEN TRUE ELSE doc = CHOOSE d \in Documents : d.vars = << >>
  /\ LogInit /\ UnitsInit /\ Plugins!FactoryInit /\ ProgramInit /\ FillInit /\ Grib!GribInit
  /\ FeltInit /\ GribWriter!GribWriterInit /\ Project!ProjectionInit /\ Coords!CsInit /\ Ncml!Init
  /\ Definition!DefinitionInit

ProcessNext ==
  \/ part = "log" /\ LogNext /\ OnlyThisPart
  \/ part = "units" /\ UnitsNext /\ OnlyThisPart
  \/ part = "plugins" /\ Plugins!FactoryNext /\ OnlyThisPart
  \/ part = "program" /\ ProgramNext /\ OnlyThisPart
  \/ part = "fill" /\ FillNext /\ OnlyThisPart
  \/ part = "gribindex" /\ Grib!IndexNext /\ UNCHANGED <<grib, gribRead>> /\ OnlyThisPart
  \/ part = "grib" /\ grib.phase = "closed" /\ indexed.n = 0 /\ Grib!IndexNext /\ gribDisk' = gribDisk
       /\ indexed'.outcome # "cut" /\ UNCHANGED <<grib, gribRead>> /\ OnlyThisPart
  \/ part = "grib" /\ Grib!ReaderNext /\ OnlyThisPart
  \/ part = "grib" /\ gribRead.n = 0 /\ grib.phase = "open" /\ OnlyThisPart
       /\ (\E file \in DOMAIN GribFiles : Grib!ReplaceGrib(file)) /\ UNCHANGED <<grib, gribRead>>
  \/ part = "felt" /\ FeltNext /\ OnlyThisPart
  \/ part = "gribwrite" /\ GribWriter!GribWriterNext /\ OnlyThisPart
  \/ part = "projection" /\ Project!ProjectionNext /\ OnlyThisPart
  \/ part = "coords" /\ Coords!CsNext /\ OnlyThisPart
  \/ part = "ncml" /\ Ncml!Next /\ OnlyThisPart
  \/ part = "ncdefine" /\ Definition!DefinitionNext /\ OnlyThisPart

ProcessSpec ==
  ProcessInit
  /\ [][ProcessNext]_<<part, logVars, unitVars, openVars, programVars, fwVars, messageVars, feltVars, gribWritingVars,
          projectionVars, csVars, ncVars, definingVars>>
=============================================================================
