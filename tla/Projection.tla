----------------------------- MODULE Projection -----------------------------
(***************************************************************************)
(* Projections as fimex keeps them: a name and parameters made of the      *)
(* attributes of a grid mapping, a proj4 text made of those, and           *)
(* parameters made of such a text.  Every other part asks for the text of  *)
(* a projection, and files are written from the parameters.                *)
(* A text is a function from keys to values; numbers are whole (degrees,   *)
(* metres, scale factors in ten-thousandths); a standard parallel is a     *)
(* sequence of one or two latitudes.                                       *)
(***************************************************************************)
EXTENDS Integers, Sequences, SequencesExt, Functions, TLC

CONSTANTS
  Mappings,     \* attributes of grid mappings, as sequences of pairs of name and value
  Proj4Texts,   \* texts that users give
  DefaultRadius \* MIFI_EARTH_RADIUS_M

VARIABLES
  projection,   \* the projection made first
  proj4,        \* its text
  back          \* the projection made of this text

NoAnswer == [name |-> "none"]
Failed == [name |-> "thrown"]

Has(f, k) == k \in DOMAIN f
Without(f, ks) == Restrict(f, DOMAIN f \ ks)

LonOrigin == "longitude_of_projection_origin"
LatOrigin == "latitude_of_projection_origin"
Meridian == "longitude_of_central_meridian"
ScaleOrigin == "scale_factor_at_projection_origin"
Parallel == "standard_parallel"
FromPole == "straight_vertical_longitude_from_pole"

----------------------------------------------------------------------------
\* ProjectionImpl: parameters.
SemiSet == {"semi_major_axis", "semi_minor_axis", "inverse_flattening"}

AddParameter(params, attribute) ==
  LET gone == CASE attribute[1] = "earth_radius" -> SemiSet
                [] attribute[1] \in SemiSet -> {"earth_radius"}
                [] OTHER -> {}
  IN (attribute[1] :> attribute[2]) @@ Without(params, gone)

AddParameters(params, attributes) == FoldLeft(AddParameter, params, attributes)

NameIn(attributes) ==
  IF \E i \in DOMAIN attributes : attributes[i][1] = "grid_mapping_name"
  THEN attributes[CHOOSE i \in DOMAIN attributes : attributes[i][1] = "grid_mapping_name"][2]
  ELSE "latitude_longitude"

----------------------------------------------------------------------------
\* The class of each projection: its name in proj4, the parameters it writes as keys, and the keys
\* it reads, with a default that stands for a missing key.
Class(name, written, read) == [proj |-> name, keys |-> written, read |-> read]
Key(key, name) == [key |-> key, name |-> name, default |-> << >>]
Zero(key, name) == [key |-> key, name |-> name, default |-> <<0>>]
LonLatOrigin == {<<LonOrigin, "lon_0">>, <<LatOrigin, "lat_0">>}
ZeroOrigin == {Zero("lon_0", LonOrigin), Zero("lat_0", LatOrigin)}
Conic == {<<Meridian, "lon_0">>, <<LatOrigin, "lat_0">>}
ZeroConic == {Zero("lon_0", Meridian), Zero("lat_0", LatOrigin)}

AlbersConicalEqualArea == Class("aea", Conic, ZeroConic)
AzimuthalEquidistant == Class("aeqd", LonLatOrigin, ZeroOrigin)
Geostationary ==
  Class("geos", LonLatOrigin \union {<<"perspective_point_height", "h">>, <<"sweep_angle_axis", "sweep">>},
        ZeroOrigin \union {Zero("h", "perspective_point_height"), [Key("sweep", "sweep_axis") EXCEPT !.default = <<"y">>]})
LambertAzimuthalEqualArea == Class("laea", LonLatOrigin, ZeroOrigin)
LambertConformalConic == Class("lcc", Conic, ZeroConic)
LambertCylindricalEqualArea ==
  Class("cea", {<<Meridian, "lon_0">>, <<Parallel, "lat_ts">>, <<ScaleOrigin, "k">>},
        {Zero("lon_0", Meridian), Key("lat_ts", Parallel), Key("k", ScaleOrigin)})
LatitudeLongitude == Class("latlong", {}, {})
Mercator ==
  Class("merc", {<<LonOrigin, "lon_0">>, <<Parallel, "lat_ts">>, <<ScaleOrigin, "k_0">>},
        {Zero("lon_0", LonOrigin), Key("lat_ts", Parallel), Key("k", ScaleOrigin)})
ObliqueMercator ==
  Class("omerc",
        {<<LonOrigin, "lonc">>, <<LatOrigin, "lat_0">>, <<"azimuth_of_central_line", "alpha">>,
         <<"gamma", "gamma">>, <<ScaleOrigin, "k_0">>, <<"no_rotation", "no_rot">>},
        {Zero("lonc", LonOrigin), Key("lat_0", LatOrigin), Zero("alpha", "azimuth_of_central_line"),
         Zero("gamma", "gamma"), Key("k", ScaleOrigin), Key("no_rot", "no_rotation")})
Orthographic == Class("ortho", LonLatOrigin, ZeroOrigin)
Stereographic ==
  Class("stere", LonLatOrigin \union {<<FromPole, "lon_0">>, <<ScaleOrigin, "k">>, <<Parallel, "lat_ts">>},
        {Key("lon_0", LonOrigin), Key("lat_0", LatOrigin), Key("lat_ts", Parallel), Key("k", ScaleOrigin)})
\* Its longitude is read under a name of its own.
PolarStereographic ==
  [Stereographic EXCEPT !.read = {[k EXCEPT !.name = IF @ = LonOrigin THEN FromPole ELSE @] : k \in @}]
RotatedLatitudeLongitude ==
  Class("ob_tran", {<<"grid_north_pole_latitude", "o_lat_p">>, <<"north_pole_grid_longitude", "o_lon_p">>},
        {[Key("o_lat_p", "grid_north_pole_latitude") EXCEPT !.default = <<90>>]})
Sinusoidal == Class("sinu", {<<LonOrigin, "lon_0">>}, {Zero("lon_0", LonOrigin)})
TransverseMercator ==
  Class("etmerc", Conic \union {<<"scale_factor_at_central_meridian", "k_0">>},
        {Zero("lon_0", Meridian), Key("lat_0", LatOrigin), Key("k", "scale_factor_at_central_meridian")})
VerticalPerspective ==
  Class("nsper", LonLatOrigin \union {<<"perspective_point_height", "h">>},
        ZeroOrigin \union {Zero("h", "perspective_point_height")})

Classes ==
  [albers_conical_equal_area |-> AlbersConicalEqualArea, azimuthal_equidistant |-> AzimuthalEquidistant,
   geostationary |-> Geostationary, lambert_azimuthal_equal_area |-> LambertAzimuthalEqualArea,
   lambert_conformal_conic |-> LambertConformalConic, lambert_cylindrical_equal_area |-> LambertCylindricalEqualArea,
   latitude_longitude |-> LatitudeLongitude, mercator |-> Mercator, oblique_mercator |-> ObliqueMercator,
   orthographic |-> Orthographic, polar_stereographic |-> PolarStereographic,
   rotated_latitude_longitude |-> RotatedLatitudeLongitude, sinusoidal |-> Sinusoidal, stereographic |-> Stereographic,
   transverse_mercator |-> TransverseMercator, vertical_perspective |-> VerticalPerspective]
Names == DOMAIN Classes \union {"unknown_to_fgdc"}

\* Projection::create.
Create(attributes) ==
  LET name == NameIn(attributes)
  IN IF name \notin Names THEN Failed
     ELSE [name |-> name, params |-> AddParameters([earth_radius |-> DefaultRadius], attributes)]

----------------------------------------------------------------------------
\* The text of a projection.
WrittenKeys(p) ==
  LET class == Classes[p.name]
      used == {pair \in class.keys : Has(p.params, pair[1])}
  IN [key \in {pair[2] : pair \in used} |-> p.params[(CHOOSE pair \in used : pair[2] = key)[1]]]
\* Two parallels of a conic: the second is taken of a third value only.
Parallels(p) ==
  IF p.name \notin {"albers_conical_equal_area", "lambert_conformal_conic"} THEN << >>
  ELSE IF ~Has(p.params, Parallel) THEN [lat_1 |-> 0, lat_2 |-> 0]
  ELSE LET values == p.params[Parallel]
       IN [lat_1 |-> values[1], lat_2 |-> IF Len(values) > 2 THEN values[2] ELSE values[1]]
\* A slip: the longitude of the pole stands for that of the grid's meridian.
MutPole(p) ==
  IF p.name # "rotated_latitude_longitude" THEN << >>
  ELSE IF ~Has(p.params, "grid_north_pole_longitude") THEN [o_proj |-> "longlat"]
  ELSE [o_proj |-> "longlat", lon_0 |-> p.params.grid_north_pole_longitude]
Pole(p) ==
  IF p.name # "rotated_latitude_longitude" THEN << >>
  ELSE IF ~Has(p.params, "grid_north_pole_longitude") THEN [o_proj |-> "longlat"]
  ELSE [o_proj |-> "longlat", lon_0 |-> p.params.grid_north_pole_longitude - 180]
Offsets(params) ==
  (IF Has(params, "false_easting") THEN [x_0 |-> params.false_easting] ELSE << >>)
  @@ (IF Has(params, "false_northing") THEN [y_0 |-> params.false_northing] ELSE << >>)
Earth(params) ==
  LET sphere(radius) == [a |-> radius, e |-> 0]
      flattened == Has(params, "inverse_flattening") /\ params.inverse_flattening > 0
  IN (IF Has(params, "earth_radius") THEN sphere(params.earth_radius)
      ELSE IF ~Has(params, "semi_major_axis") THEN sphere(DefaultRadius)
      ELSE IF ~flattened /\ ~Has(params, "semi_minor_axis") THEN sphere(params.semi_major_axis)
      ELSE [a |-> params.semi_major_axis]
           @@ (IF Has(params, "semi_minor_axis") THEN [b |-> params.semi_minor_axis] ELSE << >>)
           @@ (IF flattened THEN [rf |-> params.inverse_flattening] ELSE << >>))
     @@ (IF Has(params, "towgs84") THEN [towgs84 |-> params.towgs84] ELSE << >>)

Proj4String(p) ==
  IF p.name = "unknown_to_fgdc" THEN p.params.proj4
  ELSE [proj |-> Classes[p.name].proj] @@ WrittenKeys(p) @@ Parallels(p) @@ Pole(p)
       @@ Offsets(p.params) @@ Earth(p.params)

----------------------------------------------------------------------------
\* The parameters in a text.
ReadKeys(name, text) ==
  {<<row.name, IF Has(text, row.key) THEN text[row.key] ELSE row.default[1]>> :
     row \in {r \in Classes[name].read : Has(text, r.key) \/ r.default # << >>}}

\* createByProj4: the first class that accepts the text.
TransverseNames == {"tmerc", "utm", "gstmerc", "etmerc"}
AcceptedBy(text) ==
  IF text.proj \in TransverseNames THEN "transverse_mercator"
  ELSE IF text.proj \in {"latlong", "longlat"} THEN "latitude_longitude"
  ELSE IF text.proj = "ob_tran"
    THEN IF Has(text, "o_proj") /\ text.o_proj \in {"latlong", "longlat"} THEN "rotated_latitude_longitude" ELSE "unknown_to_fgdc"
  ELSE IF text.proj = "stere"
    THEN IF Has(text, "lat_0") /\ text.lat_0 \in {90, -90} THEN "polar_stereographic" ELSE "stereographic"
  ELSE IF \E name \in DOMAIN Classes : Classes[name].proj = text.proj
    THEN CHOOSE name \in DOMAIN Classes : Classes[name].proj = text.proj
  ELSE "unknown_to_fgdc"

\* Greater than -180 and not greater than 180.
Normalized(lon) == LET m == lon % 360 IN IF m > 180 THEN m - 360 ELSE m

\* The keys of a zone, of a longitude that is not negative, and of the southern half.
Utm(text) ==
  LET zone == IF text.zone <= 0 THEN 1 ELSE IF text.zone > 60 THEN 60 ELSE text.zone
  IN <<<<"scale_factor_at_central_meridian", 9996>>, <<LatOrigin, 0>>, <<"false_easting", 500000>>>>
     \o (IF Has(text, "zone") THEN <<<<Meridian, (zone - 1) * 6 - 177>>>> ELSE << >>)
     \o (IF Has(text, "lon_0") /\ text.lon_0 >= 0 THEN <<<<Meridian, text.lon_0>>>> ELSE << >>)
     \o (IF Has(text, "south") THEN <<<<"false_northing", 10000000>>>> ELSE << >>)

\* Stereographic texts are read with a true latitude or else a scale, the others key by key.
ClassAttributes(name, text) ==
  CASE name = "unknown_to_fgdc" -> << >>
    [] name = "transverse_mercator" /\ text.proj = "utm" -> Utm(text)
    [] name \in {"albers_conical_equal_area", "lambert_conformal_conic"} /\ Has(text, "lat_1") ->
         <<<<Parallel, IF Has(text, "lat_2") THEN <<text.lat_1, text.lat_2>> ELSE <<text.lat_1>>>>>>
         \o SetToSeq(ReadKeys(name, text))
    [] name = "rotated_latitude_longitude" ->
         <<<<"grid_north_pole_longitude", Normalized(180 + (IF Has(text, "lon_0") THEN text.lon_0 ELSE 0))>>>>
         \o (IF Has(text, "o_lon_p") /\ text.o_lon_p > 0 THEN <<<<"north_pole_grid_longitude", text.o_lon_p>>>> ELSE << >>)
         \o SetToSeq(ReadKeys(name, text))
    [] name \in {"stereographic", "polar_stereographic"} ->
         SetToSeq(ReadKeys(name, Without(text, IF Has(text, "lat_ts") THEN {"k"} ELSE {})))
    [] OTHER -> SetToSeq(ReadKeys(name, text))

\* The minor axis of an eccentricity: what matters is that only 0 gives the major one.
MinorAxis(major, eccentricity) == major - eccentricity
Ellipsoids ==
  [WGS84 |-> <<<<"semi_major_axis", 6378137>>, <<"semi_minor_axis", 6356752>>>>,
   bessel |-> <<<<"semi_major_axis", 6377397>>, <<"inverse_flattening", 299>>>>]
EllipsoidOf(text) ==
  IF Has(text, "ellps") THEN text.ellps ELSE IF Has(text, "datum") THEN text.datum ELSE "none"
\* proj4GetEarthAttributes.
EarthAttributes(text) ==
  LET at(key, name) == IF Has(text, key) THEN <<<<name, text[key]>>>> ELSE << >>
      axes(major) ==
        <<<<"semi_major_axis", major>>>>
        \o (IF Has(text, "e") /\ text.e # 0 THEN <<<<"semi_minor_axis", MinorAxis(major, text.e)>>>>
            ELSE IF Has(text, "b") THEN <<<<"semi_minor_axis", text.b>>>>
            ELSE <<<<"earth_radius", major>>>>)
      figure == EllipsoidOf(text)
  IN at("x_0", "false_easting") \o at("y_0", "false_northing")
     \o (IF Has(text, "a") THEN axes(text.a) ELSE IF Has(text, "R") THEN axes(text.R) ELSE << >>)
     \o (IF Has(Ellipsoids, figure) THEN Ellipsoids[figure] ELSE << >>)
     \o (IF Has(text, "towgs84") THEN at("towgs84", "towgs84")
         ELSE IF Has(text, "datum") THEN <<<<"towgs84", <<0, 0, 0>>>>>> ELSE << >>)

\* A class for every other text keeps all of it.
WholeText(name, text) == IF name = "unknown_to_fgdc" THEN <<<<"proj4", text>>>> ELSE << >>

CreateByProj4(text) ==
  IF ~Has(text, "proj") THEN Failed
  ELSE LET name == AcceptedBy(text)
       IN IF name = "polar_stereographic" /\ ~Has(text, "lon_0") THEN Failed
          ELSE Create(<<<<"grid_mapping_name", name>>>> \o ClassAttributes(name, text) \o EarthAttributes(text)
                      \o WholeText(name, text))

----------------------------------------------------------------------------
ProjectionInit ==
  /\ \/ \E attributes \in Mappings : projection = Create(attributes)
     \/ \E text \in Proj4Texts : projection = CreateByProj4(text)
  /\ proj4 = << >> /\ back = NoAnswer

GiveText ==
  /\ projection # Failed /\ proj4 = << >>
  /\ proj4' = Proj4String(projection)
  /\ UNCHANGED <<projection, back>>

ReadText ==
  /\ proj4 # << >> /\ back = NoAnswer
  /\ back' = CreateByProj4(proj4)
  /\ UNCHANGED <<projection, proj4>>

ProjectionNext == GiveText \/ ReadText

----------------------------------------------------------------------------
\* What parameters mean, apart from the figure of the earth: defaults dropped, one name for the
\* longitude of a stereographic projection, two parallels of a conic.
Figures == SemiSet \union {"earth_radius", "towgs84"}
Numbers ==
  {LonOrigin, FromPole, LatOrigin, Meridian, "perspective_point_height", "azimuth_of_central_line", "gamma",
   "north_pole_grid_longitude"}
Meaning(p) ==
  LET value(n) ==
        CASE n = Parallel /\ p.name \in {"albers_conical_equal_area", "lambert_conformal_conic"} /\ Len(p.params[n]) = 1 ->
               p.params[n] \o p.params[n]
          [] n = "grid_north_pole_longitude" -> Normalized(p.params[n])
          [] OTHER -> p.params[n]
      written == DOMAIN p.params \ (Figures \union {"grid_mapping_name", "sweep_axis"})
  IN {<<IF n = FromPole THEN LonOrigin ELSE n, value(n)>> :
        n \in {m \in written : m \notin Numbers \/ value(m) # 0}} \ {<<Parallel, <<0, 0>>>>}
Family(p) == IF p.name = "polar_stereographic" THEN "stereographic" ELSE p.name

\* What is lost on the way to a text and back: the second parallel of a conic, which is not
\* written; scale factors written as k_0 and looked for as k; the axis of a sweep, read under a
\* name that is not written; the flattening, written as rf and not read; a scale beside a true
\* latitude; a western longitude of the rotated grid.
Lost(p) ==
  \/ /\ p.name \in {"albers_conical_equal_area", "lambert_conformal_conic"}
     /\ Has(p.params, Parallel) /\ Len(p.params[Parallel]) = 2 /\ p.params[Parallel][1] # p.params[Parallel][2]
  \/ p.name \in {"mercator", "oblique_mercator"} /\ Has(p.params, ScaleOrigin)
  \/ p.name = "transverse_mercator" /\ Has(p.params, "scale_factor_at_central_meridian")
  \/ Has(p.params, "sweep_angle_axis")
  \/ Has(p.params, "inverse_flattening")
  \/ Family(p) = "stereographic" /\ Has(p.params, ScaleOrigin) /\ Has(p.params, Parallel)
  \/ Has(p.params, "north_pole_grid_longitude") /\ p.params.north_pole_grid_longitude < 0

(* A projection made of the text of another one is the same on the same      *)
(* figure of the earth, for what its class writes and reads: 17 classes, one *)
(* table for each direction, and a figure kept in two ways that exclude      *)
(* each other (ProjectionImpl::addParameter, getProj4String, parametersFromProj4). *)
SameProjectionBack ==
  (back # NoAnswer /\ ~Lost(projection)) =>
    /\ back # Failed
    /\ Family(back) = Family(projection)
    /\ Meaning(back) = Meaning(projection)
    /\ Earth(back.params) = Earth(projection.params)
=============================================================================
