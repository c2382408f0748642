-------------------------- MODULE FieldInterpolation --------------------------
(***************************************************************************)
(* What is done with a whole field before and after its values are taken   *)
(* at points: gaps are filled, distances to the neighbouring cells and the *)
(* cell closest to a point are found, points are put along cross sections  *)
(* (interpolation.c, CDMInterpolator.cc).                                  *)
(*                                                                         *)
(* A cell is a number, row by row.  A value is not a number but what it is *)
(* made of, the set of the cells that had it first, {} being undefined; a  *)
(* distance is the pair of cells it is between.  The earth is a cylinder:  *)
(* as on the sphere, two cells are never closer than their latitudes.      *)
(***************************************************************************)
EXTENDS Integers, FiniteSets, Sequences, FiniteSetsExt, SequencesExt

CONSTANTS FieldSizes,    \* <<columns, rows>>, two or more of each
          GapSets,       \* cells that may be undefined together
          Repeats,       \* times a gap is smoothed when the field creeps into it
          MaxLoops,      \* rounds of the relaxation
          GridCells,     \* <<latitude, longitude>> of each cell, << >> where undefined
          GridPoints,    \* places that look for their cell
          Distances,     \* [given, xs, ys, degrees]: distance of interest and output axes
          Sections,      \* lists of cross sections, each a list of points in the plane
          Spacing,       \* <<dx, dy>>, of the first two elements of the axes
          Longitudes,    \* of a full circle
          Metres,        \* of one degree
          EarthRadius,
          AllSampled,    \* cells up to which each one is a sample of the grid's distance
          Samples        \* samples of a grid with more cells

VARIABLE worked    \* the last thing done, what with and what came out

Mean == -1         \* the mean of the defined values, or the default
CellsOf(size) == 0 .. size[1] * size[2] - 1
Col(c, size) == c % size[1]
RowOf(c, size) == c \div size[1]
IsInner(c, size) == Col(c, size) \in 1 .. size[1] - 2 /\ RowOf(c, size) \in 1 .. size[2] - 2
\* In the order the loops go through them.
InnerCells(size) == SelectSeq([i \in 1 .. size[1] * size[2] |-> i - 1], LAMBDA c : IsInner(c, size))
Around(c, size) == {c - 1, c + 1, c - size[1], c + size[1]}
\* The cells of the border, each with the one it takes its value from: sides, then rows.
BorderCells(size) ==
  LET nx == size[1]  ny == size[2]
      sides == [y \in 1 .. ny - 2 |-> << <<y * nx, y * nx + 1>>, <<y * nx + nx - 1, y * nx + nx - 2>> >>]
      rows == [i \in 1 .. nx |-> << <<i - 1, nx + i - 1>>, <<(ny - 1) * nx + i - 1, (ny - 2) * nx + i - 1>> >>]
  IN FlattenSeq(sides) \o FlattenSeq(rows)
Guessed(size, gaps) == [c \in CellsOf(size) |-> IF c \in gaps THEN {Mean} ELSE {c}]
NothingToDo(size, gaps) == gaps = {} \/ gaps = CellsOf(size)
AsGiven(size, gaps) == [c \in CellsOf(size) |-> IF c \in gaps THEN {} ELSE {c}]

-----------------------------------------------------------------------------
\* A slip: only the neighbours that were defined at first count.
MutCreepInto(state, c, gaps, repeat, size) ==
  LET near == Around(c, size) \ gaps
  IN IF c \notin gaps \/ state.times[c] >= repeat \/ near = {} THEN state
     ELSE [state EXCEPT !.value[c] = @ \union UNION {state.value[n] : n \in near}, !.known = @ \union {c},
                        !.times[c] = @ + 1, !.changed = @ + 1]
\* mifi_creepfillval2dImpl_f: a gap takes from the neighbours that are defined or were changed.
CreepInto(state, c, gaps, repeat, size) ==
  LET near == Around(c, size) \intersect state.known
  IN IF c \notin gaps \/ state.times[c] >= repeat \/ near = {} THEN state
     ELSE [state EXCEPT !.value[c] = @ \union UNION {state.value[n] : n \in near}, !.known = @ \union {c},
                        !.times[c] = @ + 1, !.changed = @ + 1]
\* The rounds end when one has changed nothing, and after as many as there are defined values.
CreepInside(size, gaps, repeat) ==
  LET first == [value |-> Guessed(size, gaps), known |-> CellsOf(size) \ gaps,
                times |-> [c \in CellsOf(size) |-> 0], changed |-> 1]
      inner == InnerCells(size)
      round(state) ==
        IF state.changed = 0 THEN state
        ELSE FoldLeft(LAMBDA s, c : CreepInto(s, c, gaps, repeat, size), [state EXCEPT !.changed = 0], inner)
  IN FoldLeft(LAMBDA s, l : round(s), first, [l \in 1 .. Cardinality(CellsOf(size) \ gaps) |-> l])
CreepToBorder(state, pair, gaps) ==
  IF pair[1] \notin gaps THEN state
  ELSE [state EXCEPT !.value[pair[1]] = @ \union (IF pair[2] \in state.known THEN state.value[pair[2]] ELSE {}),
                     !.known = @ \union {pair[1]}]
CreepFill(size, gaps, repeat) ==
  LET borders == FlattenSeq([l \in 1 .. repeat |-> BorderCells(size)])
  IN IF NothingToDo(size, gaps) THEN AsGiven(size, gaps)
     ELSE FoldLeft(LAMBDA s, pair : CreepToBorder(s, pair, gaps), CreepInside(size, gaps, repeat), borders).value

\* mifi_fill2d_f: inside a gap relaxes to its four neighbours, on the border it takes its
\* neighbour's value. Whether the test finds convergence is open where a gap is inside; without
\* one it always does, before the border was worked on.
Relaxed(value, size, gaps) ==
  FoldLeft(LAMBDA f, c : IF c \in gaps THEN [f EXCEPT ![c] = @ \union UNION {f[n] : n \in Around(c, size)}] ELSE f,
           value, InnerCells(size))
OnBorder(value, size, gaps) ==
  FoldLeft(LAMBDA f, pair : IF pair[1] \in gaps THEN [f EXCEPT ![pair[1]] = f[pair[2]]] ELSE f, value, BorderCells(size))
\* maxLoop - 5 is huge when there are fewer rounds.
Tested(n, maxLoop) == n % 10 = 0 /\ (maxLoop < 5 \/ n < maxLoop - 5)
Fill2d(size, gaps, maxLoop, converges) ==
  LET inside == \E c \in gaps : IsInner(c, size)
      round(state, n) ==
        LET f == Relaxed(state.value, size, gaps)
            done == Tested(n - 1, maxLoop) /\ (~inside \/ n - 1 = converges)
        IN IF state.done THEN state ELSE [done |-> done, value |-> IF done THEN f ELSE OnBorder(f, size, gaps)]
  IN IF NothingToDo(size, gaps) THEN AsGiven(size, gaps)
     ELSE FoldLeft(round, [done |-> FALSE, value |-> Guessed(size, gaps)], [n \in 1 .. maxLoop |-> n]).value

FillGaps ==
  \E size \in FieldSizes : \E gaps \in {g \in GapSets : g \subseteq CellsOf(size)} :
    \/ \E repeat \in Repeats :
         worked' = [op |-> "creepfill", size |-> size, gaps |-> gaps, value |-> CreepFill(size, gaps, repeat)]
    \/ \E maxLoop \in MaxLoops : \E converges \in {n \in 0 .. maxLoop : Tested(n, maxLoop)} \union {maxLoop} :
         worked' = [op |-> "fill", size |-> size, gaps |-> gaps, value |-> Fill2d(size, gaps, maxLoop, converges)]

-----------------------------------------------------------------------------
\* mifi_griddistance, the distance to the next cell and to the one of the next row. What
\* the last row gets is found as many cells before as there are rows, not columns.
GridDistance(size, step) ==
  LET nx == size[1]  ny == size[2]
      inside == [c \in CellsOf(size) |-> <<c, c + step>>]
      sides == [c \in CellsOf(size) |-> IF Col(c, size) = nx - 1 THEN inside[c - 1] ELSE inside[c]]
  IN FoldLeft(LAMBDA d, c : [d EXCEPT ![c] = d[c - ny]], sides, [i \in 1 .. nx |-> (ny - 1) * nx + i - 1])
MeasureGrid ==
  \E size \in FieldSizes :
    worked' = [op |-> "distance", size |-> size, x |-> GridDistance(size, 1), y |-> GridDistance(size, size[1])]

-----------------------------------------------------------------------------
Abs(n) == IF n < 0 THEN -n ELSE n
Apart(p, q) == Abs(p[1] - q[1]) + Min({(p[2] - q[2]) % Longitudes, (q[2] - p[2]) % Longitudes})
Known(cells) == {c \in DOMAIN cells : cells[c] # << >>}

\* getGridDistance, in thousandths: 1.414 times the longest of the samples' distances to the
\* cell closest to them, at most half a circle; without a second cell not a number.
GridReach(cells) ==
  LET many == Cardinality(DOMAIN cells) > AllSampled
      step == IF many THEN Cardinality(DOMAIN cells) \div Samples ELSE 1
      samples == {c \in Known(cells) : c % step = 0 /\ (~many \/ c \div step < Samples)}
      closest(c) == Min({Apart(cells[c], cells[d]) : d \in Known(cells) \ {c}})
  IN IF Cardinality(Known(cells)) = 1 THEN 0
     ELSE Min({1414 * Max({closest(c) : c \in samples}), 500 * Longitudes})

\* From the first cell that is not of a lower latitude up, then from there down.
FromThere(first, cells) == << first[2], Reverse(first[1]) >>
Closer(found, c, cells, p) ==
  IF found.stop \/ 1000 * Abs(cells[c][1] - p[1]) > found.reach THEN [found EXCEPT !.stop = TRUE]
  ELSE IF 1000 * Apart(cells[c], p) < found.reach THEN [stop |-> FALSE, reach |-> 1000 * Apart(cells[c], p), cell |-> {c}]
  ELSE found
\* fastTranslatePointsToClosestInputCell, with the cells of one latitude in either order.
FastClosest(cells, p, rising) ==
  LET before(c, d) == cells[c][1] < cells[d][1] \/ (cells[c][1] = cells[d][1] /\ (c < d) = rising /\ c # d)
      known == SelectSeq([i \in 1 .. Cardinality(DOMAIN cells) |-> i - 1], LAMBDA c : cells[c] # << >>)
      sorted == SortSeq(known, before)
      lower == SelectSeq(sorted, LAMBDA c : cells[c][1] < p[1])
      ways == FromThere(<<lower, SubSeq(sorted, Len(lower) + 1, Len(sorted))>>, cells)
      look(found, way) == FoldLeft(LAMBDA f, c : Closer(f, c, cells, p), [found EXCEPT !.stop = FALSE], way)
  IN look(look([stop |-> FALSE, reach |-> GridReach(cells), cell |-> {}], ways[1]), ways[2]).cell

\* getMaxDistanceOfInterest, and changeProjectionByCoordinates, in thousandths of a degree: on a
\* grid in degrees also a distance that was given is multiplied by the radius of the earth.
Steps(axis) == {Abs(axis[i + 1] - axis[i]) : i \in 1 .. Len(axis) - 1}
MaxDistance(d) == IF d.given > 0 THEN d.given ELSE Max(Steps(d.xs) \union Steps(d.ys) \union {0})
SearchReach(d) == (1000 * MaxDistance(d) * (IF d.degrees THEN EarthRadius ELSE 1)) \div Metres
\* flannTranslatePointsToClosestInputCell: the first of what the tree finds within the radius.
TreeClosest(cells, p, reach) ==
  LET within == {c \in Known(cells) : 1000 * Apart(cells[c], p) < reach}
  IN {c \in within : \A d \in within : Apart(cells[c], p) <= Apart(cells[d], p)}

FindClosest ==
  \E cells \in GridCells, p \in GridPoints :
    \/ \E rising \in BOOLEAN :
         worked' = [op |-> "closest", cells |-> cells, p |-> p, reach |-> GridReach(cells), found |-> FastClosest(cells, p, rising)]
    \/ \E d \in Distances : LET all == TreeClosest(cells, p, SearchReach(d)) IN
         \E found \in {{c} : c \in all} \union (IF all = {} THEN {{}} ELSE {}) :
           worked' = [op |-> "closest", cells |-> cells, p |-> p, reach |-> SearchReach(d), found |-> found]

-----------------------------------------------------------------------------
\* changeProjectionToCrossSections: between two points as many steps as they are whole cells
\* apart; a point is given as the step-th of num steps after a given one.
StepsBetween(from, to) ==
  Max({Abs(to[1] - from[1]) \div Abs(Spacing[1]), Abs(to[2] - from[2]) \div Abs(Spacing[2])})
PointsBetween(line, i) ==
  LET num == StepsBetween(line[i], line[i + 1])
      first == IF i = 1 THEN << <<line[1], 0, 1>> >> ELSE << >>
  IN first \o [j \in 1 .. num - 1 |-> <<line[i], j, num>>] \o << <<line[i + 1], 0, 1>> >>
PointsAlong(line) ==
  IF Len(line) = 1 THEN << <<line[1], 0, 1>> >>
  ELSE FlattenSeq([i \in 1 .. Len(line) - 1 |-> PointsBetween(line, i)])
\* vcross_bnds: positions in the points of all sections together, those without points left out.
Bounds(lens, all, k) ==
  LET start == FoldLeft(LAMBDA a, b : a + b, 0, SubSeq(lens, 1, k - 1))
  IN <<start, IF k = Len(lens) THEN all - 1 ELSE start + lens[k] - 1>>
MakeSections ==
  \E sections \in Sections :
    LET given == SelectSeq(sections, LAMBDA line : line # << >>)
        lens == [k \in DOMAIN given |-> Len(PointsAlong(given[k]))]
        points == FlattenSeq([k \in DOMAIN given |-> PointsAlong(given[k])])
    IN worked' = [op |-> "sections", sections |-> given, points |-> points,
                  bounds |-> [k \in DOMAIN given |-> Bounds(lens, Len(points), k)]]

-----------------------------------------------------------------------------
FieldInit == worked = [op |-> "none"]
FieldNext == worked.op = "none" /\ (FillGaps \/ MeasureGrid \/ FindClosest \/ MakeSections)
FieldSpec == FieldInit /\ [][FieldNext]_worked

-----------------------------------------------------------------------------
Inward(c, size) ==
  IF Col(c, size) = 0 THEN c + 1 ELSE IF Col(c, size) = size[1] - 1 THEN c - 1
  ELSE IF RowOf(c, size) = 0 THEN c + size[1] ELSE c - size[1]
\* Filling leaves every defined value alone and gives every gap one that is made of defined ones.
\* A creeping field reaches each gap inside that has a defined neighbour or one that was reached
\* in an earlier place of the sweep, and the border takes from the cells next to it (mifi_fill2d_f,
\* mifi_creepfill2d_f).
OnlyGapsFilled ==
  worked.op \in {"fill", "creepfill"} /\ worked.gaps # CellsOf(worked.size) =>
    LET size == worked.size  value == worked.value  defined == CellsOf(size) \ worked.gaps
    IN /\ \A c \in defined : value[c] = {c}
       /\ \A c \in worked.gaps : value[c] # {} /\ value[c] \subseteq defined \union {Mean}
       /\ worked.op = "creepfill" =>
            /\ \A c \in worked.gaps : IsInner(c, size) =>
                 /\ Around(c, size) \ worked.gaps \subseteq value[c]
                 /\ IsInner(c - 1, size) /\ value[c - 1] # {Mean} => value[c] # {Mean}
            /\ \A c \in worked.gaps : ~IsInner(c, size) /\ IsInner(Inward(c, size), size)
                 => value[c] \ {Mean} = value[Inward(c, size)] \ {Mean}

\* The cell that is found is the closest of all that are defined, however they are sorted and
\* whatever is cut off by the latitude, and one is found if there is one within the distance
\* (fastTranslatePointsToClosestInputCell, flannTranslatePointsToClosestInputCell).
ClosestFound ==
  worked.op = "closest" =>
    LET near == {c \in Known(worked.cells) : 1000 * Apart(worked.cells[c], worked.p) < worked.reach}
    IN /\ worked.found = {} <=> near = {}
       /\ \A c \in worked.found, d \in Known(worked.cells) :
            c \in near /\ Apart(worked.cells[c], worked.p) <= Apart(worked.cells[d], worked.p)

\* The bounds part the points into the sections, in their order; each begins and ends with its own
\* points, and the given points stand in it in their order (changeProjectionToCrossSections).
SectionsParted ==
  worked.op = "sections" =>
    LET at(i) == worked.points[i + 1]
    IN /\ \A k \in DOMAIN worked.sections :
            LET line == worked.sections[k]  b == worked.bounds[k]
            IN /\ b[1] = (IF k = 1 THEN 0 ELSE worked.bounds[k - 1][2] + 1) /\ b[1] <= b[2]
               /\ at(b[1])[1] = line[1] /\ at(b[2])[1] = Last(line)
               /\ SelectSeq(SubSeq(worked.points, b[1] + 1, b[2] + 1), LAMBDA p : p[2] = 0) = [i \in DOMAIN line |-> <<line[i], 0, 1>>]
       /\ Last(worked.bounds)[2] = Len(worked.points) - 1

\* Nothing is lost or made up on the way from a field to its values.
FieldsKept == OnlyGapsFilled /\ ClosestFound /\ SectionsParted

\* The distances of a cell are those between it, or a cell next to it, and the neighbour of that
\* one (mifi_griddistance).
DistancesOfNeighbours ==
  worked.op = "distance" =>
    LET size == worked.size
        near(c, d) == Abs(Col(c, size) - Col(d, size)) <= 1 /\ Abs(RowOf(c, size) - RowOf(d, size)) <= 1
    IN \A c \in CellsOf(size) : near(c, worked.x[c][1]) /\ near(c, worked.y[c][1])
=============================================================================
