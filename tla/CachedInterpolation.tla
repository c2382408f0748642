------------------------ MODULE CachedInterpolation ------------------------
(***************************************************************************)
(* The interpolation of fields kept per coordinate system: for each cell   *)
(* of the output the point of the input it lies at (CachedInterpolation),  *)
(* or the cell (CachedNNInterpolation).  Where the points are in a part of *)
(* the input only, the domain is reduced: the cached object then asks its  *)
(* reader for that part and the points are positions in it.                *)
(***************************************************************************)
EXTENDS Interpolation

CONSTANTS XAxes,     \* axes of the input, [axis, longitude]
          YAxes,
          PointsX,   \* values on the x-axis, of cells of the output
          PointsY    \* values on the y-axis

\* Axes have two values or more, and every point a position on them.
ASSUME CachedAssumption ==
    /\ \A a \in XAxes \union YAxes : Cardinality(DOMAIN a.axis) \in Nat \ {0, 1}
    /\ \A a \in XAxes, v \in PointsX : Points2Position(v, a.axis, a.longitude) \in Int
    /\ \A a \in YAxes, v \in PointsY : Points2Position(v, a.axis, a.longitude) \in Int

VARIABLES cached,    \* the cached interpolation of a coordinate system
          grid       \* the axes and values it was made from

ciVars == <<cached, grid>>

Extend == 2
Clamp(low, v, high) == IF v < low THEN low ELSE IF v > high THEN high ELSE v
Ceil(p) == -((-p) \div Q)
Index(s, i) == {s[k][i] : k \in DOMAIN s}

Unreduced(kind, size, points) ==
    [kind |-> kind, full |-> size, in |-> size, min |-> <<0, 0>>, points |-> points, reduced |-> FALSE]

\* createReducedDomain of CachedInterpolation: two more cells on each side.
DomainBegin(v, n) == Clamp(0, Floor(v) - Extend, n - 1)
DomainEnd(v, n) == Clamp(0, Ceil(v) + Extend, n - 1)

CreateReducedDomain(ci) ==
    LET begin(i) == DomainBegin(Min(Index(ci.points, i)), ci.in[i])
        end(i) == DomainEnd(Max(Index(ci.points, i)), ci.in[i])
    IN IF \E i \in 1 .. 2 : end(i) - begin(i) < 1 THEN ci
       ELSE [ci EXCEPT !.points = [k \in DOMAIN @ |-> <<@[k][1] - Q * begin(1), @[k][2] - Q * begin(2)>>],
                       !.min = <<begin(1), begin(2)>>,
                       !.in = <<end(1) - begin(1) + 1, end(2) - begin(2) + 1>>,
                       !.reduced = TRUE]

\* RoundAndClamp of a coordinate; a negative one is cast to a huge size.
Rounded(p, n) == IF Lround(p) \in 0 .. n - 1 THEN {Lround(p)} ELSE {}

\* CachedNNInterpolation: the points are cells, <<>> where there is none.
CachedNN(size, points) ==
    LET cell(p) == IF Rounded(p[1], size[1]) = {} \/ Rounded(p[2], size[2]) = {} THEN <<>>
                   ELSE <<Lround(p[1]), Lround(p[2])>>
        cells == [k \in DOMAIN points |-> cell(points[k])]
        used(i) == {cells[k][i] : k \in {n \in DOMAIN cells : cells[n] # <<>>}}
        least(i) == IF used(i) = {} THEN size[i] ELSE Min(used(i))
        most(i) == IF used(i) = {} THEN 0 ELSE Max(used(i))
        begin(i) == IF least(i) > Extend THEN least(i) - Extend ELSE 0
        end(i) == Min({size[i] - 1, most(i) + Extend})
        all == Unreduced("nearest", size, cells)
    IN IF /\ \E i \in 1 .. 2 : begin(i) > 0 \/ end(i) < size[i] - 1
          /\ \A i \in 1 .. 2 : begin(i) + 2 * Extend <= end(i)
       THEN [all EXCEPT
               !.points = [k \in DOMAIN @ |-> IF @[k] = <<>> THEN <<>>
                                              ELSE <<@[k][1] - begin(1), @[k][2] - begin(2)>>],
               !.min = <<begin(1), begin(2)>>,
               !.in = <<end(1) - begin(1) + 1, end(2) - begin(2) + 1>>,
               !.reduced = TRUE]
       ELSE all

\* createCachedInterpolation, the constructors included.
Created(kind, size, points) ==
    IF kind = "nearest" THEN CachedNN(size, points)
    ELSE CreateReducedDomain(Unreduced(kind, size, points))

\* interpolateValues: the recipe of each cell of the output, in cells of what is read.
InterpolatedCell(ci, k) ==
    LET p == ci.points[k]
    IN CASE ci.kind = "bilinear" -> Bilinear(p[1], p[2], ci.in[1], ci.in[2])
         [] ci.kind = "bicubic" -> Bicubic(p[1], p[2], ci.in[1], ci.in[2])
         [] OTHER -> IF p = <<>> THEN {} ELSE {<<p[1] + ci.in[1] * p[2], Q * Q>>}

\* getInputDataSlice asks for the reduced domain: where a cell of it is in the whole field.
InputCell(ci, c) == (c % ci.in[1]) + ci.min[1] + ci.full[1] * ((c \div ci.in[1]) + ci.min[2])

-----------------------------------------------------------------------------
CachedInit ==
    /\ cached = Unreduced("none", <<1, 1>>, <<>>)
    /\ grid = [x |-> {}, y |-> {}, values |-> <<>>]

\* The way of the methods of CDMInterpolator: positions on the axes, then the object.
CreateCached(kind, x, y, values) ==
    LET position(v) == <<Points2Position(v[1], x.axis, x.longitude),
                         Points2Position(v[2], y.axis, y.longitude)>>
        size == <<Cardinality(DOMAIN x.axis), Cardinality(DOMAIN y.axis)>>
    IN /\ cached.kind = "none"
       /\ cached' = Created(kind, size, [k \in DOMAIN values |-> position(values[k])])
       /\ grid' = [x |-> x, y |-> y, values |-> values]

\* For two cells of the output.
CachedNext ==
    \E kind \in {"nearest", "bilinear", "bicubic"}, x \in XAxes, y \in YAxes,
       xs \in PointsX \X PointsX, ys \in PointsY \X PointsY :
        CreateCached(kind, x, y, <<<<xs[1], ys[1]>>, <<xs[2], ys[2]>>>>)

CachedSpec == CachedInit /\ [][CachedNext]_ciVars

-----------------------------------------------------------------------------
\* Undo the reduction: the points where they were given.
Restored(ci) ==
    LET shift(i) == IF ci.kind = "nearest" THEN ci.min[i] ELSE Q * ci.min[i]
    IN [ci EXCEPT !.points = [k \in DOMAIN @ |-> IF @[k] = <<>> THEN <<>>
                                                 ELSE <<@[k][1] + shift(1), @[k][2] + shift(2)>>],
                  !.in = ci.full, !.min = <<0, 0>>]

\* The nearest row that is one below the last: the bilinear method takes it where the column is
\* the nearest one, too, although the field does not have it (mifi_get_values_bilinear_f).
RowBelow(ci, k) ==
    /\ ci.kind = "bilinear" /\ ~HasBoth(ci.points[k][1], ci.in[1])
    /\ Lround(ci.points[k][2]) = ci.in[2]

\* What is interpolated in a reduced domain is made of the same cells with the same weights as
\* in the whole field, so that reading less never changes a value, and all these cells belong to
\* what is read, but for the row below the last (createReducedDomain, CachedNNInterpolation).
ReducedAsWhole ==
    \A k \in DOMAIN cached.points :
        LET recipe == InterpolatedCell(cached, k)
        IN /\ {<<InputCell(cached, w[1]), w[2]>> : w \in recipe} = InterpolatedCell(Restored(cached), k)
           /\ ~RowBelow(cached, k) => \A w \in recipe : w[1] \in 0 .. cached.in[1] * cached.in[2] - 1

\* The weights of a value that is not undefined are those of a mean (mifi_get_values_bilinear_f
\* and _bicubic_f).
WeightsOfAMean ==
    \A k \in DOMAIN cached.points :
        LET recipe == InterpolatedCell(cached, k)
            unit == IF cached.kind = "bicubic" THEN 4 * Q * Q * Q * Q * Q * Q ELSE Q * Q
        IN recipe # {} => MapThenSumSet(LAMBDA w : w[2], recipe) = unit

\* On an axis round the whole circle every longitude finds the nearest meridian, on whichever
\* side of the axis' ends it is given (mifi_points2position, CachedNNInterpolation).
NearestOnCircle ==
    \A k \in DOMAIN cached.points :
        LET axis == grid.x.axis
            num == Cardinality(DOMAIN axis)
            step == IF axis[1] > axis[0] THEN axis[1] - axis[0] ELSE axis[0] - axis[1]
            column(w) == (w[1] % cached.in[1]) + cached.min[1]
            apart(a, b) == Min({(a - b) % Circle, (b - a) % Circle})
        IN (/\ cached.kind = "nearest" /\ grid.x.longitude /\ CircularAxis(axis, num)
            /\ \E j \in DOMAIN grid.y.axis : grid.y.axis[j] = grid.values[k][2])
           => /\ InterpolatedCell(cached, k) # {}
              /\ \A w \in InterpolatedCell(cached, k) :
                    2 * apart(axis[column(w)], grid.values[k][1]) <= step

\* Every cell of the output is made of the cells around its place, in the whole field and on the
\* whole circle (createReducedDomain, mifi_points2position).
CellsOfThePlaces == ReducedAsWhole /\ WeightsOfAMean /\ NearestOnCircle
=============================================================================
