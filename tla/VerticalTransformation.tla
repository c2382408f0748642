----------------------- MODULE VerticalTransformation -----------------------
(***************************************************************************)
(* coordSys/verticalTransform: which converter turns the levels of a       *)
(* coordinate system into pressures, altitudes, heights or depths, and     *)
(* what it makes of one column.  A system is a record; its "terms" are the *)
(* numbers of the formula at one time, levels are counted from 0.  Numbers *)
(* are integers.  Logarithms are left to a stand-in that keeps what        *)
(* matters, the order: the thickness of a layer is the difference of its   *)
(* pressures times the temperature, and the standard atmosphere's altitude *)
(* is StandardTop - pressure.                                              *)
(***************************************************************************)
EXTENDS Integers, Sequences, FiniteSets, FiniteSetsExt

StandardTop == 2000

\* A converter: what it reads, and the converter it builds upon.
Conv(kind, of) == [kind |-> kind, of |-> of]
NoConv == Conv("none", "")
Refused == Conv("error", "")
Found(c) == c.kind \notin {"none", "error"}

\* findPressureConverter: a variable of pressures, else the transformation's own converter.
PressureConverter(s) ==
    IF "air_pressure" \in s.helpers THEN Conv("identity", "air_pressure")
    ELSE IF s.transformation = "pressure" THEN Conv("identity", "axis")
    ELSE IF s.transformation = "ocean" THEN Refused
    ELSE IF s.transformation \in {"height", "altitude", "depth"} THEN NoConv
    ELSE Conv(s.transformation, "")

\* AltitudeHeightConverter::createConverter: only with a topography on the same grid.
WithTopography(s, c, kind) ==
    IF ~Found(c) THEN c
    ELSE IF "topography" \in s.helpers THEN Conv(kind, IF c.kind = "identity" THEN c.of ELSE c.kind)
    ELSE NoConv

Hypsometric == {"air_temperature", "surface_air_pressure", "surface_geopotential"}
AltitudeConverter(s) ==
    LET pressure == PressureConverter(s)
    IN CASE s.transformation = "ocean" -> Refused
         [] s.transformation = "depth" -> NoConv
         [] s.transformation = "altitude" -> Conv("identity", "axis")
         [] s.transformation = "height" -> WithTopography(s, Conv("identity", "axis"), "plus_topography")
         [] OTHER -> IF "geopotential_height" \in s.helpers THEN Conv("identity", "geopotential_height")
                     ELSE IF ~Found(pressure) THEN pressure
                     ELSE IF Hypsometric \subseteq s.helpers THEN Conv("integration", pressure.kind)
                     ELSE Conv("standard", pressure.kind)

HeightConverter(s) ==
    IF s.transformation = "height" THEN Conv("identity", "axis")
    ELSE WithTopography(s, AltitudeConverter(s), "minus_topography")

DepthConverter(s) ==
    IF s.transformation = "depth" THEN Conv("identity", "axis")
    ELSE IF s.transformation = "ocean" THEN Conv("ocean", "") ELSE NoConv

\* VerticalTransformation::getConverter and verticalConverter, which refuses what has none.
ConverterFor(s, type) ==
    LET c == CASE type = "pressure" -> PressureConverter(s)
               [] type = "altitude" -> AltitudeConverter(s)
               [] type = "height" -> HeightConverter(s)
               [] type = "depth" -> DepthConverter(s)
    IN IF s.transformation = "none" \/ ~Found(c) THEN Refused ELSE c

-----------------------------------------------------------------------------
LevelsOf(terms) == DOMAIN terms.axis

\* Dimensionless terms are given in quarters.
OfQuarters(quarters, x) == (quarters * x) \div 4

\* What the documentation of HybridSigmaPressure2 gives as its formula.
DocumentedHybrid(terms) ==
    [k \in LevelsOf(terms) |-> OfQuarters(terms.a[k], terms.p0) + OfQuarters(terms.b[k], terms.ps)]

\* getPressureConverter of HybridSigmaPressure2 hands p0 and ps over in the other order.
HybridSigmaPressure2(terms) ==
    [k \in LevelsOf(terms) |-> OfQuarters(terms.a[k], terms.ps) + OfQuarters(terms.b[k], terms.p0)]

Pressures(s, terms) ==
    LET c == PressureConverter(s)
    IN [k \in LevelsOf(terms) |->
        CASE c.kind = "identity" -> IF c.of = "axis" THEN terms.axis[k] ELSE terms.variable[c.of][k]
          [] c.kind = "lnpressure" -> terms.p0 - terms.axis[k]
          [] c.kind = "sigma" -> terms.ptop + OfQuarters(terms.b[k], terms.ps - terms.ptop)
          [] c.kind = "hybrid1" -> terms.a[k] + OfQuarters(terms.b[k], terms.ps)
          [] c.kind = "hybrid2" -> HybridSigmaPressure2(terms)[k]]

Thickness(low, high, temperature) == (low - high) * temperature

\* A slip: what is above the part asked for is left out, whichever end is the ground.
MutIntegrated(pressure, terms, start, size) ==
    LET n == Cardinality(DOMAIN pressure)
        up == pressure[0] > pressure[n - 1]
        level(i) == IF up THEN i ELSE start + size - 1 - i
        count == IF up THEN start + size ELSE size
        sum[i \in -1 .. count] ==
            IF i = -1 THEN terms.topography
            ELSE sum[i - 1] + Thickness(IF i = 0 THEN terms.ps ELSE pressure[level(i - 1)],
                                        pressure[level(i)], terms.temperature[level(i)])
    IN [k \in start .. start + size - 1 |-> sum[IF up THEN k ELSE start + size - 1 - k]]

\* PressureIntegrationToAltitudeConverter::getDataSlice: from the ground through the layers up
\* to the end of what is asked for; the levels may run either way.
Integrated(pressure, terms, start, size) ==
    LET n == Cardinality(DOMAIN pressure)
        up == pressure[0] > pressure[n - 1]
        begin == IF up THEN 0 ELSE start
        count == IF up THEN start + size ELSE n - start
        level(i) == IF up THEN i ELSE n - 1 - i
        sum[i \in -1 .. count - 1] ==
            IF i = -1 THEN terms.topography
            ELSE sum[i - 1] + Thickness(IF i = 0 THEN terms.ps ELSE pressure[level(i - 1)],
                                        pressure[level(i)], terms.temperature[level(i)])
        out(k) == IF up THEN k ELSE begin + count - 1 - k
    IN [k \in start .. start + size - 1 |-> sum[out(k)]]

\* The values a converter gives a column: getDataSlice of the converters.
Converted(s, c, terms) ==
    LET levels == LevelsOf(terms)
        altitude(kind) ==       \* what AltitudeHeightConverter builds upon, too
            IF kind = "axis" THEN terms.axis
            ELSE IF kind = "integration"
            THEN Integrated(Pressures(s, terms), terms, 0, Cardinality(levels))
            ELSE IF kind = "standard" THEN [k \in levels |-> StandardTop - Pressures(s, terms)[k]]
            ELSE terms.variable[kind]
    IN CASE c.kind = "identity" -> altitude(c.of)
         [] c.kind = "plus_topography" -> [k \in levels |-> altitude(c.of)[k] + terms.topography]
         [] c.kind = "minus_topography" -> [k \in levels |-> altitude(c.of)[k] - terms.topography]
         [] c.kind \in {"integration", "standard"} -> altitude(c.kind)
         [] c.kind = "ocean" -> [k \in levels |-> OfQuarters(terms.b[k], terms.depth + terms.eta) - terms.eta]
         [] OTHER -> Pressures(s, terms)

\* getValidityMin: only the ocean's converter has one, the height of the surface as it is
\* stored; getValidityMax of the same class asks for the basic minimum, which is none.
HasValidityMin(c, s) == c.kind = "ocean" /\ "eta" \in s.helpers
ValidityMin(terms) == terms.eta
=============================================================================
