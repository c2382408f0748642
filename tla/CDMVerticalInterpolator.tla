----------------------- MODULE CDMVerticalInterpolator -----------------------
(***************************************************************************)
(* CDMVerticalInterpolator serves variables on levels of another vertical  *)
(* coordinate: fixed levels, those of an axis of the file, or those of a   *)
(* template variable.  The model follows one column: what the reader holds *)
(* of a variable at a time and level is DataAt, the terms of a coordinate  *)
(* system at a time are s.terms.                                           *)
(*                                                                         *)
(* A value delivered is a record: [how, v], where how is "value",          *)
(* "undefined", "mixed" for a logarithmic mean that has no integer value,  *)
(* "unset" for memory nobody wrote and "beyond" for a level read past the  *)
(* end of level1.                                                          *)
(***************************************************************************)
EXTENDS VerticalTransformation, Interpolation

CONSTANTS VSystems,           \* the coordinate systems of the reader, in their order
          VTimes, VUnlimited, \* positions of time, and whether it is unlimited
          Field(_, _, _),     \* the value of a variable at a time and vertical coordinate
          ValidRange,         \* valid_min and valid_max of the variables
          VTypes, VMethods, VLevels, VAxes, VTemplates,     \* arguments of the calls
          MaxVerticalCalls, MaxVerticalReads                \* bounds

VARIABLES vint,     \* the interpolator: its arguments, and the systems it changes
          vcdm,     \* its data model: level dimension of the variables, lengths, axes
          vgot,     \* what the last read returned
          vdone     \* calls and reads made

verticalVars == <<vint, vcdm, vgot, vdone>>

Idx == DOMAIN VSystems

\* getDataSlice of PressureIntegrationToAltitudeConverter finds out "if pressure is highest at start
\* or end of vertical axis" from these two alone: in between it has to go one way.
Monotonic(p) ==
    \/ \A j, k \in DOMAIN p : j < k => p[j] > p[k]
    \/ \A j, k \in DOMAIN p : j < k => p[j] < p[k]
ColumnFits(p, terms, n) ==
    /\ p \in [0 .. n - 1 -> Int] /\ Monotonic(p)
    /\ terms.temperature \in [0 .. n - 1 -> Int]
    /\ terms.ps \in Int /\ terms.topography \in Int
NLevels(i) == Cardinality(LevelsOf(VSystems[i].terms[1]))
ASSUME ColumnsAssumption ==
    \A i \in Idx : AltitudeConverter(VSystems[i]).kind = "integration" =>
        /\ NLevels(i) \in Nat \ {0} /\ LevelsOf(VSystems[i].terms[1]) = 0 .. NLevels(i) - 1
        /\ \A t \in 1 .. VTimes :
            ColumnFits(Pressures(VSystems[i], VSystems[i].terms[t]), VSystems[i].terms[t], NLevels(i))

VNames == UNION {VSystems[i].vars : i \in Idx}
VDims == {VSystems[i].z : i \in Idx} \cup {"pressure", "height", "height_above_msl", "depth"} \cup VAxes
SystemOf(v) == CHOOSE i \in Idx : v \in VSystems[i].vars
DataOf(v) == [how |-> "value", v |-> v]
Unserved(how) == [how |-> how, v |-> 0]
NothingServed == [var |-> "", status |-> "none", values |-> <<>>, times |-> <<>>]

VerticalInit ==
    /\ \E type \in VTypes, method \in VMethods :
        vint = [type |-> type, method |-> method, level1 |-> <<>>, vAxis |-> "", toAxis |-> FALSE,
                template |-> 0, changed |-> <<>>, ignoreMin |-> FALSE]
    /\ vcdm = [level |-> [v \in VNames |-> VSystems[SystemOf(v)].z],
               len |-> [d \in VDims |-> IF \E i \in Idx : VSystems[i].z = d
                                        THEN NLevels(CHOOSE i \in Idx : VSystems[i].z = d) ELSE 0],
               axes |-> {VSystems[i].z : i \in Idx}, announced |-> <<>>]
    /\ vgot = NothingServed /\ vdone = [calls |-> 0, reads |-> 0]

-----------------------------------------------------------------------------
(* The calls.                                                               *)

\* isSimpleZAxis: with a horizontal grid, a dimension of its own and more than one level.
Simple(i) == VSystems[i].z # "" /\ VSystems[i].grid /\ VSystems[i].explicit /\ vcdm.len[VSystems[i].z] > 1

\* replaceZaxis for each variable of the systems, in their order: it throws for the first
\* variable that no longer has the axis, when its system is already noted.
Changed(which, to) ==
    LET lost == {i \in which : \E v \in VSystems[i].vars : vcdm.level[v] # VSystems[i].z}
        reached == {i \in which : \A j \in lost : i <= j}
    IN [noted |-> SetToSortSeq(reached, <),
        level |-> [v \in VNames |-> IF SystemOf(v) \in reached \ lost THEN to ELSE vcdm.level[v]],
        complete |-> lost = {}]

\* interpolateToFixed: the name is unique in the reader, so a second call meets the first
\* call's axis and throws, when the levels are already replaced.
AxisName == CASE vint.type = "pressure" -> "pressure" [] vint.type = "height" -> "height"
              [] vint.type = "altitude" -> "height_above_msl" [] vint.type = "depth" -> "depth"
InterpolateToFixed(levels) ==
    LET which == {i \in Idx : Simple(i)}
        change == Changed(which, AxisName)
        added == vcdm.len[AxisName] = 0
    IN /\ vint' = [vint EXCEPT !.level1 = levels, !.vAxis = AxisName,
                               !.changed = IF added THEN @ \o change.noted ELSE @]
       /\ vcdm' = IF ~added THEN vcdm
                  ELSE [level |-> change.level, len |-> [vcdm.len EXCEPT ![AxisName] = Len(levels)],
                        axes |-> (vcdm.axes \cup {AxisName})
                                 \ (IF change.complete THEN {VSystems[i].z : i \in which} ELSE {}),
                        announced |-> levels]

\* interpolateToAxis: the systems on another axis; the old axes go at the end.
InterpolateToAxis(axis) ==
    LET which == {i \in Idx : VSystems[i].z # axis /\ Simple(i)}
        change == Changed(which, axis)
    IN /\ vint' = [vint EXCEPT !.toAxis = TRUE, !.vAxis = axis, !.changed = @ \o change.noted]
       /\ vcdm' = [vcdm EXCEPT !.level = change.level,
                               !.axes = IF change.complete THEN @ \ {VSystems[i].z : i \in which} ELSE @]

\* interpolateByTemplateVariable: refused without a system that has levels and a
\* transformation, which is noted all the same.
InterpolateByTemplate(tv) ==
    LET t == SystemOf(tv)
        which == {i \in Idx : VSystems[i].z # VSystems[t].z /\ Simple(i)}
        change == Changed(which, VSystems[t].z)
        good == Simple(t) /\ VSystems[t].transformation # "none"
    IN /\ vint' = [vint EXCEPT !.template = t, !.changed = IF good THEN @ \o change.noted ELSE @]
       /\ vcdm' = IF good THEN [vcdm EXCEPT !.level = change.level] ELSE vcdm

IgnoreValidityMin == vint' = [vint EXCEPT !.ignoreMin = ~@] /\ UNCHANGED vcdm

-----------------------------------------------------------------------------
(* Reading.                                                                 *)

Distance(a, b) == IF a > b THEN a - b ELSE b - a

\* find_closest_distinct_elements: one pass, with what it keeps from element to element.
ClosestDistinct(levels, x) ==
    LET n == Cardinality(DOMAIN levels)
        pass[i \in -1 .. n - 1] ==
            IF i = -1 THEN [p1 |-> 0, p2 |-> 0, d2 |-> Distance(x, levels[0])]
            ELSE LET s == pass[i - 1]
                     d == Distance(x, levels[i])
                     d1 == Distance(x, levels[s.p1])
                 IN IF d > s.d2 THEN s
                    ELSE IF d < d1 THEN [p1 |-> i, p2 |-> s.p1, d2 |-> d1]
                    ELSE IF levels[i] # levels[s.p1] THEN [s EXCEPT !.p2 = i, !.d2 = d] ELSE s
    IN <<pass[n - 1].p1, pass[n - 1].p2>>

\* find_closest_neighbor_distinct_elements: the nearest at or below and the nearest above. The
\* first level, when x equals it, is taken for both.
ClosestNeighbours(levels, x) ==
    LET below == {k \in DOMAIN levels : levels[k] <= x}
        above == {k \in DOMAIN levels : levels[k] > x} \cup {k \in {0} : levels[k] = x}
        nearest(ks) == CHOOSE k \in ks : \A j \in ks :
            Distance(x, levels[k]) < Distance(x, levels[j])
            \/ (Distance(x, levels[k]) = Distance(x, levels[j]) /\ k <= j)
    IN IF below = {} \/ above = {} THEN ClosestDistinct(levels, x)
       ELSE <<nearest(below), nearest(above)>>

\* The methods: what is made of the data d1 and d2 at the levels a and b for the level x.
Recipe(method, a, b, x) ==
    CASE method = "linear" -> IF LinearCase(a, b, x) \in {"A", "B"} THEN LinearCase(a, b, x) ELSE "mixed"
      [] method = "linear_weak_extra" -> LinearWithin(1, 1, a, b, x)
      [] method = "linear_no_extra" -> LinearWithin(0, 0, a, b, x)
      [] method = "linear_const_extra" -> ConstantBeyond(a, b, x)
      [] method = "nearestneighbor" -> "A"
      [] method \in {"log", "loglog"} -> Logarithmic(a, b, x)
Weighted(method, d1, d2, a, b, x) ==
    LET r == Recipe(method, a, b, x)
    IN CASE r = "A" -> DataOf(d1) [] r = "B" -> DataOf(d2)
         [] r = "undefined" -> Unserved("undefined") [] r = "error" -> Unserved("unset")
         [] r = "mixed" -> IF method \in {"log", "loglog"} THEN Unserved("mixed")
                           ELSE DataOf(d1 + ((d2 - d1) * (x - a)) \div (b - a))

\* A slip: the data of the two levels change places.
MutInterpolated(levels, data, x) ==
    LET p == ClosestNeighbours(levels, x)
    IN IF p[1] = p[2] THEN Unserved("undefined")
       ELSE Weighted(vint.method, data[p[2]], data[p[1]], levels[p[1]], levels[p[2]], x)

Interpolated(levels, data, x) ==
    LET p == ClosestNeighbours(levels, x)
    IN IF p[1] = p[2] THEN Unserved("undefined")
       ELSE Weighted(vint.method, data[p[1]], data[p[2]], levels[p[1]], levels[p[2]], x)

\* "correct data going out of bounds": what is undefined stays so.
Clamped(v, r) ==
    IF r.how # "value" THEN r
    ELSE [r EXCEPT !.v = IF @ < ValidRange[v].min THEN ValidRange[v].min
                         ELSE IF @ > ValidRange[v].max THEN ValidRange[v].max ELSE @]

\* What the levels are by the documentation, and with that what the reader holds.
TrueLevels(i, t) ==
    LET s == VSystems[i]
        c == ConverterFor(s, vint.type)
    IN IF s.transformation = "hybrid2" /\ c.kind = "hybrid2" THEN DocumentedHybrid(s.terms[t])
       ELSE Converted(s, c, s.terms[t])
DataAt(v, t) == [k \in LevelsOf(VSystems[SystemOf(v)].terms[t]) |-> Field(v, t, TrueLevels(SystemOf(v), t)[k])]

\* The system that gives the levels to interpolate to; 0 for fixed levels.
OutSystem ==
    IF vint.toAxis
    THEN IF \E i \in Idx : VSystems[i].z = vint.vAxis THEN CHOOSE i \in Idx : VSystems[i].z = vint.vAxis ELSE -1
    ELSE vint.template

ColumnAt(v, t, i, o) ==
    LET s == VSystems[i]
        ic == ConverterFor(s, vint.type)
        levels == Converted(s, ic, s.terms[t])
        oc == IF o = 0 THEN NoConv ELSE ConverterFor(VSystems[o], vint.type)
        outDim == IF vint.template # 0 THEN VSystems[vint.template].z ELSE vint.vAxis
        out(k) == LET at == IF outDim = vcdm.level[v] THEN k ELSE 0
                  IN IF o # 0 THEN Converted(VSystems[o], oc, VSystems[o].terms[t])[at] ELSE vint.level1[at + 1]
        \* the bounds are read with the whole of an unlimited time, and its first value used
        checked == {b \in {<<oc, o>>, <<ic, i>>} :
                        b[2] # 0 /\ ~vint.ignoreMin /\ HasValidityMin(b[1], VSystems[b[2]])}
        bounds == IF \E b \in checked : b[2] = o THEN {b \in checked : b[2] = o} ELSE checked
        validAt == IF VUnlimited THEN 1 ELSE t
    IN [k \in 0 .. vcdm.len[vcdm.level[v]] - 1 |->
            IF o = 0 /\ k >= Len(vint.level1) THEN Unserved("beyond")
            ELSE IF \E b \in bounds : out(k) < ValidityMin(VSystems[b[2]].terms[validAt])
            THEN Unserved("undefined")
            ELSE Clamped(v, Interpolated(levels, DataAt(v, t), out(k)))]

\* getDataSlice and getLevelDataSlice.
GetLevelSlice(v, pos) ==
    LET known == {n \in DOMAIN vint.changed : vint.changed[n] = SystemOf(v)}
        i == SystemOf(v)
        o == OutSystem
        times == IF VUnlimited THEN <<pos>> ELSE [t \in 1 .. VTimes |-> t]
        status == IF known = {} THEN "forwarded"
                  ELSE IF VSystems[i].transformation = "none" \/ ~Found(ConverterFor(VSystems[i], vint.type)) THEN "throws"
                  ELSE IF o = -1 THEN "null system"
                  ELSE IF o # 0 /\ ~Found(ConverterFor(VSystems[o], vint.type)) THEN "throws"
                  ELSE "interpolated"
    IN vgot' = [var |-> v, status |-> status, times |-> times,
                values |-> IF status # "interpolated" THEN <<>>
                           ELSE [n \in DOMAIN times |-> ColumnAt(v, times[n], i, o)]]

\* A converter's slice of a part of the levels, as callers of VerticalConverter may ask for it.
GetAltitudePart(i, t, start, size) ==
    /\ ConverterFor(VSystems[i], "altitude").kind = "integration" /\ start + size <= NLevels(i)
    /\ vgot' = [NothingServed EXCEPT !.status = "altitude", !.times = <<t, i>>,
                    !.values = <<Integrated(Pressures(VSystems[i], VSystems[i].terms[t]),
                                            VSystems[i].terms[t], start, size)>>]

VerticalCall ==
    /\ vdone.calls < MaxVerticalCalls
    /\ \/ \E levels \in VLevels : InterpolateToFixed(levels)
       \/ \E axis \in VAxes : InterpolateToAxis(axis)
       \/ \E tv \in VTemplates : InterpolateByTemplate(tv)
    /\ vdone' = [vdone EXCEPT !.calls = @ + 1] /\ vgot' = NothingServed
VerticalRead ==
    /\ vdone.reads < MaxVerticalReads
    /\ \/ \E v \in VNames, pos \in 1 .. VTimes : GetLevelSlice(v, pos) /\ UNCHANGED <<vint, vcdm>>
       \/ \E i \in Idx, t \in 1 .. VTimes :
            \E start \in LevelsOf(VSystems[i].terms[1]), size \in 1 .. NLevels(i) :
                GetAltitudePart(i, t, start, size) /\ UNCHANGED <<vint, vcdm>>
       \/ IgnoreValidityMin /\ vgot' = NothingServed
    /\ vdone' = [vdone EXCEPT !.reads = @ + 1]
VerticalNext == VerticalCall \/ VerticalRead
VerticalSpec == VerticalInit /\ [][VerticalNext]_verticalVars

-----------------------------------------------------------------------------
\* The level that the data model announces at k, at a time.
AnnouncedLevel(d, t, k) ==
    IF \E i \in Idx : VSystems[i].z = d THEN TrueLevels(CHOOSE i \in Idx : VSystems[i].z = d, t)[k]
    ELSE vcdm.announced[k + 1]

(* A slice has a value for each announced level of its time, and a linear method makes of a   *)
(* field that is linear in the vertical coordinate that same field: every value is the        *)
(* field's at the announced level and at its own time, or it is undefined.                    *)
LinearFieldReproduced ==
    vgot.status = "interpolated" =>
        \A n \in DOMAIN vgot.values :
            LET v == vgot.var
                t == vgot.times[n]
            IN /\ DOMAIN vgot.values[n] = 0 .. vcdm.len[vcdm.level[v]] - 1
               /\ vint.method \in {"linear", "linear_weak_extra", "linear_no_extra"} =>
                    \A k \in DOMAIN vgot.values[n] :
                        LET r == vgot.values[n][k]
                        IN \/ r.how = "undefined"
                           \/ r = Clamped(v, DataOf(Field(v, t, AnnouncedLevel(vcdm.level[v], t, k))))

(* The altitude of a level is the ground's and the thickness of every layer below it, however *)
(* the levels run and whatever part of them was asked for.                                    *)
Underneath(p, k) == {j \in DOMAIN p : p[j] > p[k]}
LowerEdge(p, terms, j) == IF Underneath(p, j) = {} THEN terms.ps ELSE Min({p[h] : h \in Underneath(p, j)})
Layers(p, terms) == [j \in DOMAIN p |-> Thickness(LowerEdge(p, terms, j), p[j], terms.temperature[j])]
AltitudeAbove(p, terms, k) ==
    LET layers == Layers(p, terms)
    IN terms.topography + MapThenSumSet(LAMBDA j : layers[j], Underneath(p, k) \cup {k})
AltitudeFromTheGround ==
    vgot.status = "altitude" =>
        LET s == VSystems[vgot.times[2]]
            terms == s.terms[vgot.times[1]]
        IN \A k \in DOMAIN vgot.values[1] : vgot.values[1][k] = AltitudeAbove(Pressures(s, terms), terms, k)

(* "The maximum valid value, e.g. surface pressure": a level is left out where it is beyond   *)
(* the bound of its own place and time, and only there.                                       *)
ValidAtItsTime ==
    vgot.status = "interpolated" /\ vint.method = "linear" /\ ~vint.ignoreMin =>
        \A n \in DOMAIN vgot.values, i \in {SystemOf(vgot.var)} :
            VSystems[i].transformation = "ocean" /\ "eta" \in VSystems[i].helpers =>
                \A k \in DOMAIN vgot.values[n] :
                    AnnouncedLevel(vcdm.level[vgot.var], vgot.times[n], k) < VSystems[i].terms[vgot.times[n]].eta
                        => vgot.values[n][k].how = "undefined"

(* "Except for the case where all elements are equal, it is always ensured that the neighbors *)
(* are distinct": a linear method leaves no level of a varying column undefined.              *)
NeighboursDistinct ==
    vgot.status = "interpolated" /\ vint.method = "linear" /\ vint.ignoreMin =>
        \A n \in DOMAIN vgot.values : \A k \in DOMAIN vgot.values[n] : vgot.values[n][k].how # "undefined"
=============================================================================
