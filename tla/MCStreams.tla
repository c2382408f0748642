----------------------------- MODULE MCStreams -----------------------------
(***************************************************************************)
(* The readers that are put on top of each other to a stream, each on its  *)
(* own above a small reader: part says which one a behaviour is about.     *)
(* Those that are proved about are extended, the others are instances.     *)
(***************************************************************************)
EXTENDS CachedInterpolation, CachedForwardInterpolation, CDMMerger, CDMInterpolator,
        CDMPressureConversions, CDMTimeInterpolator, CDMQualityExtractor, CDMProcessor, CDMVerticalInterpolator, TLC

CONSTANT Parts       \* the parts to check

VARIABLES part, worked

----------------------------------------------------------------------------
\* CDMProcessor: vectors on two grids, a direction, sums, and what two conversions need.
PVar(std, cs, dir, pair, vertical, shape) ==
  [std |-> std, unlim |-> std # "geopotential", cs |-> cs, dir |-> dir,
   pair |-> pair, vertical |-> vertical, shape |-> shape, made |-> ""]
MCLower ==
  [u |-> PVar("x_wind", "grid", "X", "v", "hybrid", "3d"),
   v |-> PVar("y_wind", "grid", "Y", "u", "hybrid", "3d"),
   t |-> PVar("air_temperature", "grid", "none", "", "hybrid", "3d"),
   z |-> PVar("geopotential", "", "none", "", "none", "2d"),
   d |-> PVar("wind_from_direction", "grid2", "none", "", "none", "2d")]
MCPresent == [u |-> 0 .. 2, v |-> 0 .. 2, t |-> {0, 2}, d |-> {0}, z |-> 0 .. 2,
            geopotential_height |-> {0, 2}, upward_air_velocity_ml |-> 0 .. 2]
MCVectorPairs == {<<"u", "v">>, <<"u", "t">>, <<"u", "d">>, <<"u", "z">>}
ASSUME MCSides == VectorsHaveSides

----------------------------------------------------------------------------
\* CDMMerger: an inner axis that steps as the outer one does not, with undefined cells in each.
MCInnerAxis == <<20, 22, 24, 26, 28>>
MCOuterAxis == <<33, 25, 17>>
MCUndefinedInner == {<<0, 0>>, <<2, 2>>, <<1, 3>>}
MCUndefinedOuter == {<<0, 0>>, <<1, 1>>, <<2, 3>>}
MCSmoothings == {[transition |-> 2, border |-> 0], [transition |-> 1, border |-> 1],
               [transition |-> 2, border |-> 2]}
OnAxes(axes, auxiliary) == [axes |-> axes, auxiliary |-> auxiliary]
MCInnerVars == [t |-> OnAxes(<<1, 3>>, {"lat"}), s |-> OnAxes(<<5, 3>>, {}), w |-> OnAxes(<<0, 3>>, {}),
              i |-> OnAxes(<<0, 3>>, {}), lat |-> OnAxes(<<1, 4>>, {})]
MCOuterVars == [t |-> OnAxes(<<1, 3>>, {"lat"}), s |-> OnAxes(<<1, 3>>, {}), w |-> OnAxes(<<1, 3>>, {}),
              o |-> OnAxes(<<0, 3>>, {}), lat |-> OnAxes(<<0, 3>>, {})]

----------------------------------------------------------------------------
\* CDMTimeInterpolator: axes relative to the old one and in another unit, within it and beyond.
MCOldValues == <<4, 6, 9, 15>>
MCTimePresent == {1, 2, 4}
NumberToken(n) == [n |-> n, x |-> FALSE, sign |-> ""]
XToken(sign, n) == [n |-> n, x |-> TRUE, sign |-> sign]
DotsToken == [n |-> 0, x |-> TRUE, sign |-> "..."]
Axis(tokens, relative, since) == [tokens |-> tokens, relative |-> relative, epoch |-> since]
MCTimeSpecs ==
  {Axis(<<NumberToken(0), NumberToken(3), DotsToken, XToken("", 0)>>, TRUE, 0),
   Axis(<<NumberToken(-3), NumberToken(0), DotsToken, XToken("+", 3)>>, TRUE, 2),
   Axis(<<NumberToken(6), NumberToken(8), DotsToken, NumberToken(13)>>, FALSE, 6),
   Axis([i \in 1 .. 5 |-> NumberToken(<<5, 6, 9, 15, 16>>[i])], FALSE, -4)}

----------------------------------------------------------------------------
\* CDMQualityExtractor: a status of the slice's size, one of another size, a variable that is its
\* own status, chains, a cycle and a status of another reader.
MCQData == [a |-> 0 :> <<11, 12, 13, 14>> @@ 1 :> <<15, 16, 17, 18>> @@ 2 :> <<>>,
          f |-> 0 :> <<1, 2>> @@ 1 :> <<3, 1>> @@ 2 :> <<>>,
          g |-> 0 :> <<0, 5>> @@ 1 :> <<5, 0>> @@ 2 :> <<5, 5>>,
          w |-> 0 :> <<1, 2, 3, 4>> @@ 1 :> <<>> @@ 2 :> <<4, 4, 2, 1>>]
MCQLengths == [a |-> 4, f |-> 2, g |-> 2, w |-> 4]
MCQValid == [f |-> [min |-> 1, max |-> 4, fill |-> 4], g |-> [min |-> 0, max |-> 9, fill |-> -2],
           w |-> [min |-> 2, max |-> 4, fill |-> -2]]
Entry(var, status, other, use, values, bound) ==
  [var |-> var, status |-> status, other |-> other, use |-> use, values |-> values, bound |-> bound]
MCConfigs == {Entry("a", "f", FALSE, "", {1, 2}, 0), Entry("a", "f", FALSE, "max", {}, 2),
            Entry("f", "g", FALSE, "min", {}, 3), Entry("w", "w", FALSE, "max", {}, 3),
            Entry("a", "w", TRUE, "all", {}, 0), Entry("f", "a", FALSE, "all", {}, 0),
            Entry("g", "f", FALSE, "highest", {}, 0), Entry("w", "g", FALSE, "", {}, 0),
            Entry("g", "f", FALSE, "", {3, 1}, 0)}

----------------------------------------------------------------------------
\* CachedInterpolation: axes of longitudes and of a projection, rising and falling, points inside
\* of them, at their ends and outside; no point half-way between the first and the last longitude.
Steps(first, step, n) == [i \in 0 .. n - 1 |-> first + step * i]
On(axis, longitude) == [axis |-> axis, longitude |-> longitude]
MCXAxes == {On(Steps(0, 4, 4), TRUE), On(Steps(-8, 4, 4), TRUE), On(Steps(4, -4, 4), TRUE),
            On(Steps(-6, 2, 7), FALSE)}
MCYAxes == {On(Steps(0, 2, 6), FALSE), On(Steps(9, -1, 2), FALSE)}
MCPointsX == {-5, 0, 3, 7, 13, 15}
MCPointsY == {-2, 1, 5, 8, 9, 11}

----------------------------------------------------------------------------
\* CDMInterpolator: a system on rotated longitudes that carries a vector, and one on a projection.
MCSystems == <<[id |-> "rlon,rlat", x |-> "rlon", y |-> "rlat", projection |-> TRUE, lonLat |-> TRUE,
              vars |-> {"u", "v"}, matches |-> {"coordinates", "forward"}],
             [id |-> "xc,yc", x |-> "xc", y |-> "yc", projection |-> TRUE, lonLat |-> TRUE,
              vars |-> {"t"}, matches |-> {"forward"}]>>
MCAlone == {"w"}
MCVectors == {<<"u", "v">>}
MCGrids == <<"utm", "stere", "empty">>

----------------------------------------------------------------------------
\* CachedForwardInterpolation: six by six cells, most of which lie outside of the output.
MCInSize == <<6, 6>>
MCOutSize == <<2, 1>>
MCPositions ==
  {[c \in 0 .. 35 |-> CASE c \in {20, 21, 26} -> <<0, 0>> [] c = 22 -> <<1, 0>> [] OTHER -> <<-9, 0>>],
   [c \in 0 .. 35 |-> IF c \in {0, 35} THEN <<1, 0>> ELSE <<-9, 3>>]}
With(a, b, c, d) ==
  [i \in 0 .. 35 |-> CASE i = 20 -> a [] i = 21 -> b [] i = 26 -> c [] i = 22 -> d [] OTHER -> 1]
MCSlices == {With(3, 99, 5, 99), With(4, 2, 6, 7)}

----------------------------------------------------------------------------
\* CDMVerticalInterpolator: levels of sigma that fall and that rise in pressure, of pressure and
\* height themselves, and of an ocean whose surface rises; hybrid levels for the run on them.
Levels3(a, b, c) == [k \in 0 .. 2 |-> <<a, b, c>>[k + 1]]
Zero3 == Levels3(0, 0, 0)
Terms(axis, a, b, ps, eta) ==
  [axis |-> axis, a |-> a, b |-> b, ps |-> ps, p0 |-> 800, ptop |-> 0, topography |-> 20,
   temperature |-> Levels3(1, 2, 3), depth |-> 100, eta |-> eta,
   variable |-> [air_pressure |-> Zero3, geopotential_height |-> Zero3]]
LevelSystem(z, v, kind, helpers, t1, t2) ==
  [z |-> z, vars |-> {v}, grid |-> TRUE, explicit |-> TRUE, transformation |-> kind,
   helpers |-> helpers, terms |-> <<t1, t2>>]
Same(t) == <<t, t>>
Air == {"air_temperature", "surface_air_pressure", "surface_geopotential"}
Sigma == LevelSystem("sigma", "t", "sigma", Air \cup {"topography"},
  Terms(Levels3(1, 2, 4), Zero3, Levels3(1, 2, 4), 800, 0), Terms(Levels3(1, 2, 4), Zero3, Levels3(1, 2, 4), 1000, 0))
SigmaUp == LevelSystem("up", "u", "sigma", Air,
  Terms(Levels3(1, 2, 4), Zero3, Levels3(4, 2, 1), 800, 0), Terms(Levels3(1, 2, 4), Zero3, Levels3(3, 2, 1), 1000, 0))
Hybrid == LevelSystem("hybrid", "q", "hybrid2", {},
  Terms(Levels3(1, 2, 3), Levels3(1, 1, 0), Levels3(0, 2, 4), 1000, 0),
  Terms(Levels3(1, 2, 3), Levels3(1, 1, 0), Levels3(0, 2, 4), 1200, 0))
Ocean == LevelSystem("s_rho", "salt", "ocean", {"eta"},
  Terms(Levels3(4, 2, 1), Zero3, Levels3(4, 2, 0), 0, 0), Terms(Levels3(4, 2, 1), Zero3, Levels3(4, 2, 0), 0, 4))
AtPressures == LET t == Terms(Levels3(900, 500, 300), Zero3, Zero3, 0, 0)
               IN  LevelSystem("plev", "w", "pressure", {}, t, t)
AtHeights == LET t == Terms(Levels3(100, 500, 900), Zero3, Zero3, 0, 0)
             IN  LevelSystem("alt", "r", "altitude", {"topography"}, t, t)
MCVSystems == <<Sigma, SigmaUp, AtPressures, Ocean, AtHeights>>
MCVSystemsHybrid == <<Hybrid, AtPressures>>
MCField(v, t, x) == 3 * x + 10000 * t
MCValidRange == [v \in {"t", "q", "salt", "w", "r", "u"} |->
  IF v = "w" THEN [min |-> 11000, max |-> 21600] ELSE [min |-> -100000, max |-> 100000]]
MCVMethods == {"linear", "linear_weak_extra", "linear_no_extra", "linear_const_extra",
             "nearestneighbor", "log"}
MCVLevels == {<<2, 50, 400, 850>>, <<700, 950>>}

----------------------------------------------------------------------------
\* CDMPressureConversions: a system with all it needs, one without humidity, one without levels.
AirVar(name, standard, system) == [name |-> name, standard |-> standard, system |-> system]
MCPInput == <<AirVar("theta", "air_potential_temperature", 1), AirVar("theta2", "air_potential_temperature", 2),
            AirVar("q", "specific_humidity", 1), AirVar("t", "air_temperature", 1), AirVar("om", "omega", 1)>>
PSystem(names, levels, pressure) ==
  [vars |-> names, complete |-> TRUE, levels |-> levels, pressure |-> pressure]
MCPSystems == <<PSystem({"theta", "q", "t", "om"}, 3, "yes"), PSystem({"theta2"}, 3, "yes"), PSystem({}, 5, "none")>>
NoOptions == [conversion |-> "other", theta |-> "", temperature |-> "", humidity |-> "",
              relative |-> "", omega |-> "", wind |-> "", pressure |-> ""]
MCPOperations ==
  LET of(conversion, options) == options @@ [NoOptions EXCEPT !.conversion = conversion]
  IN  {of("theta2T", <<>>), of("theta2T", [theta |-> "theta2", temperature |-> "t2"]),
       of("theta2T", [temperature |-> "t"]),
       of("specific2relative", <<>>), of("specific2relative", [temperature |-> "theta2", relative |-> "rh2"]),
       of("omega2vwind", <<>>), of("omega2vwind", [omega |-> "om", wind |-> "w"]),
       of("add4Dpressure", <<>>), of("add4Dpressure", [pressure |-> "p4"]), NoOptions}

----------------------------------------------------------------------------
\* Whole fields: every set of gaps; grids over the seam of longitudes, with undefined cells and with
\* two cells in one place; sections of one, two and more points, over whole cells and less.
GridOf(latitudes, longitudes) ==
  [c \in 0 .. Len(latitudes) * Len(longitudes) - 1 |->
     <<latitudes[1 + c \div Len(longitudes)], longitudes[1 + (c % Len(longitudes))]>>]
SomeCells ==
  {GridOf(<<0, 4, 8>>, <<-4, 0, 4>>), [GridOf(<<6, 2>>, <<170, 176, 182>>) EXCEPT ![1] = << >>],
   (0 :> <<0, 0>>) @@ (1 :> << >>) @@ (2 :> << >>), (0 :> <<3, 5>>) @@ (1 :> <<3, 5>>) @@ (2 :> <<9, 5>>)}
SomePoints == {<<4, 0>>, <<3, -2>>, <<8, 9>>, <<-5, 4>>, <<4, -176>>, <<0, 0>>, <<6, 5>>, <<6, 178>>}
SomeDistances ==
  {[given |-> g, xs |-> <<1, 3, 4>>, ys |-> <<9, 7>>, degrees |-> degrees] : g \in {-1, 3}, degrees \in BOOLEAN}
Line3 == <<<<0, 0>>, <<7, 2>>, <<7, 3>>>>
SomeSections ==
  {<<Line3>>, <<<<<<1, 1>>>>, Line3>>, <<<< >>, Line3, <<<<4, 4>>, <<4, -8>>>>>>, <<Line3, << >>, <<<<5, 5>>>>>>}
SomeGaps ==
  {g \in SUBSET (0 .. 8) : 4 \in g} \union {g \union h : g \in SUBSET {5, 6}, h \in {{}, {0}, {1, 4}, {2, 7, 10}, {0, 1, 2, 3, 4, 8}}}
Fields == INSTANCE FieldInterpolation WITH
  FieldSizes <- {<<2, 3>>, <<3, 3>>, <<4, 3>>, <<3, 2>>}, Repeats <- {1, 2}, MaxLoops <- {2, 6}, GapSets <- SomeGaps,
  GridCells <- SomeCells,
  GridPoints <- SomePoints, Distances <- SomeDistances, Sections <- SomeSections, Spacing <- <<2, -1>>,
  Longitudes <- 360, Metres <- 2, EarthRadius <- 100, AllSampled <- 8, Samples <- 3
\* The properties of fields, in the behaviours of that part.
FieldsKept == part = "fields" => Fields!FieldsKept
DistancesOfNeighbours == part = "fields" => Fields!DistancesOfNeighbours

----------------------------------------------------------------------------
\* A behaviour is one of its part; the others stay as they start, and start in one way.
OnlyThisPart ==
  /\ UNCHANGED part
  /\ IF part = "processor" THEN TRUE ELSE UNCHANGED procVars
  /\ IF part = "merger" THEN TRUE ELSE UNCHANGED mergerVars
  /\ IF part = "time" THEN TRUE ELSE UNCHANGED timeVars
  /\ IF part = "quality" THEN TRUE ELSE UNCHANGED qualityVars
  /\ IF part = "cached" THEN TRUE ELSE UNCHANGED ciVars
  /\ IF part = "horizontal" THEN TRUE ELSE UNCHANGED ipVars
  /\ IF part = "forward" THEN TRUE ELSE UNCHANGED fwdVars
  /\ IF part = "vertical" THEN TRUE ELSE UNCHANGED verticalVars
  /\ IF part = "pressure" THEN TRUE ELSE UNCHANGED pressureVars
  /\ IF part = "fields" THEN TRUE ELSE UNCHANGED worked

StreamsInit ==
  /\ part \in Parts
  /\ ProcInit /\ MergerInit /\ TimeInit /\ QualityInit
  /\ CachedInit /\ InterpolatorInit /\ ForwardInit /\ VerticalInit
  /\ PressureInit /\ Fields!FieldInit
  /\ part = "forward" \/ fwd = Built("sum", FALSE, CHOOSE p \in Positions : TRUE)
  /\ part = "vertical" \/ <<vint.type, vint.method>> = <<"pressure", "linear">>

StreamsNext ==
  \/ part = "processor" /\ ProcNext /\ OnlyThisPart
  \/ part = "merger" /\ MergerNext /\ OnlyThisPart
  \/ part = "time" /\ TimeNext /\ OnlyThisPart
  \/ part = "quality" /\ QualityNext /\ OnlyThisPart
  \/ part = "cached" /\ CachedNext /\ OnlyThisPart
  \/ part = "horizontal" /\ InterpolatorNext /\ OnlyThisPart
  \/ part = "forward" /\ ForwardNext /\ OnlyThisPart
  \/ part = "vertical" /\ VerticalNext /\ OnlyThisPart
  \/ part = "pressure" /\ PressureNext /\ OnlyThisPart
  \/ part = "fields" /\ Fields!FieldNext /\ OnlyThisPart

StreamsSpec ==
  StreamsInit /\ [][StreamsNext]_<<part, procVars, mergerVars, timeVars, qualityVars, ciVars,
                                   ipVars, fwdVars, verticalVars, pressureVars, worked>>
=============================================================================
