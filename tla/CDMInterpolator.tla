--------------------------- MODULE CDMInterpolator ---------------------------
(***************************************************************************)
(* CDMInterpolator puts the variables of a reader on another horizontal    *)
(* grid.  Which variables, and on which grid each of them is, it keeps by  *)
(* coordinate system (projectionVariables); per coordinate system it keeps *)
(* an interpolation and, for vectors, the matrix that turns them.  The     *)
(* variables and dimensions it announces are those of cdm_, a changed copy *)
(* of the reader's.                                                        *)
(*                                                                         *)
(* A grid is a name, the interpolation and the matrix the name of the grid *)
(* they were made for.  What is asked of one variable is the whole of it   *)
(* or a part of its x-axis.                                                *)
(***************************************************************************)
EXTENDS Integers, FiniteSets, Sequences, SequencesExt, Functions

CONSTANTS Systems,      \* of each coordinate system, in the order of their ids:
                        \* [id, x, y, projection, lonLat, vars, matches], matches being the ways
                        \* its longitude and latitude can be used: "coordinates", "forward"
          Alone,        \* variables of none of them, on their dimensions
          Vectors,      \* pairs of variables that are x- and y-direction of a vector
          Grids,        \* grids to interpolate to; the last one of them is empty
          MaxChanges    \* bound: changes of the projection

VARIABLES projectionVariables,       \* id of the coordinate system by variable
          cachedInterpolation,       \* [grid, x, y] by id: made for that grid, from those dimensions
          cachedVectorReprojection,  \* grid by id
          announced,                 \* [grid, x, y, removed, sections]: the horizontal dimensions in cdm_, and
                                     \* whether it has those of cross sections
          ended,                     \* how the last change ended
          delivered,                 \* what the last read gave
          changes

ipVars == <<projectionVariables, cachedInterpolation, cachedVectorReprojection, announced,
            ended, delivered, changes>>

Parameters == {"nearestneighbor", "bilinear", "bicubic"}
Coordinates == {"coord_nearestneighbor", "coord_kdtree"}
Forward == {"forward_sum"}
Methods == Parameters \cup Coordinates \cup Forward
Empty == [v \in {} |-> ""]
\* The copy of the reader's CDM.
AsRead == [grid |-> "none", x |-> "", y |-> "", removed |-> {}, sections |-> FALSE]

NotRead == [var |-> "none", how |-> "none", grid |-> "none", turned |-> "none"]

\* findBestHorizontalCoordinateSystems: those with a projection, or with longitude and latitude.
Best(withProjection) ==
    SelectSeq(Systems, LAMBDA s : IF withProjection THEN s.projection ELSE s.lonLat)
Members(systems) == {systems[i] : i \in DOMAIN systems}
VariablesOf(systems) ==
    [v \in UNION {s.vars : s \in Members(systems)} |-> (CHOOSE s \in Members(systems) : v \in s.vars).id]
\* Variables of no system on the dimensions of one are removed.
Incompatible(systems) == IF systems = <<>> THEN {} ELSE Alone

\* changeCDM: all are announced on the dimensions of the first system; the template's are x and y.
NewDimensions(systems, grid) ==
    [grid |-> grid, x |-> systems[1].x, y |-> systems[1].y, removed |-> Incompatible(systems),
     sections |-> FALSE]
TemplateDimensions(systems, grid, sections) ==
    [grid |-> grid, x |-> "x", y |-> "y", removed |-> Incompatible(systems), sections |-> sections]

HasXYSpatialVectors(vars) == \E p \in Vectors : p[1] \in DOMAIN vars \/ p[2] \in DOMAIN vars

Assigned(old, systems, value(_)) ==
    [i \in DOMAIN old \cup {s.id : s \in Members(systems)} |->
        IF \E s \in Members(systems) : s.id = i
        THEN value(CHOOSE s \in Members(systems) : s.id = i) ELSE old[i]]
\* A slip: what is cached under the id of a system is kept.
MutInterpolations(old, systems, grid) ==
    Assigned(old, systems, LAMBDA s : IF s.id \in DOMAIN old THEN old[s.id] ELSE [grid |-> grid, x |-> s.x, y |-> s.y])
Interpolations(old, systems, grid) ==
    Assigned(old, systems, LAMBDA s : [grid |-> grid, x |-> s.x, y |-> s.y])
Matrices(old, systems, grid, vars) ==
    IF HasXYSpatialVectors(vars) THEN Assigned(old, systems, LAMBDA s : grid) ELSE old

-----------------------------------------------------------------------------
InterpolatorInit ==
    /\ projectionVariables = Empty
    /\ cachedInterpolation = Empty
    /\ cachedVectorReprojection = Empty
    /\ announced = AsRead
    /\ ended = "no"
    /\ delivered = NotRead
    /\ changes = 0

Changing ==
    /\ changes < MaxChanges
    /\ changes' = changes + 1
    /\ delivered' = NotRead

\* The test before anything is changed, and findBestCoordinateSystemsAndProjectionVars when
\* there is no system.
RefuseEmpty(grid) ==
    /\ grid = Last(Grids)
    /\ UNCHANGED <<projectionVariables, cachedInterpolation, cachedVectorReprojection, announced, ended>>
NoSystem(systems) ==
    /\ systems = <<>>
    /\ projectionVariables' = Empty
    /\ announced' = AsRead
    /\ ended' = "failed"
    /\ UNCHANGED <<cachedInterpolation, cachedVectorReprojection>>

\* changeProjectionByProjectionParameters
ByProjectionParameters(systems, grid) ==
    LET vars == VariablesOf(systems)
    IN /\ cachedInterpolation' = Interpolations(cachedInterpolation, systems, grid)
       /\ cachedVectorReprojection' = Matrices(cachedVectorReprojection, systems, grid, vars)
       /\ ended' = "changed"

\* The systems before the first one whose latitude and longitude cannot be used the way.
Usable(systems, way) ==
    LET bad == {i \in DOMAIN systems : way \notin systems[i].matches}
    IN IF bad = {} THEN systems ELSE SubSeq(systems, 1, (CHOOSE i \in bad : \A j \in bad : i <= j) - 1)
InterpolatedWhile(good, systems, grid) ==
    /\ cachedInterpolation' = Interpolations(cachedInterpolation, good, grid)
    /\ ended' = IF good = systems THEN "changed" ELSE "failed"
    /\ UNCHANGED cachedVectorReprojection

\* changeProjectionByCoordinates takes the dimensions of a latitude that is the y-axis itself,
\* and throws when there are not two, the systems before that one having got their
\* interpolation; vectors are only warned about.
ByCoordinates(systems, grid) == InterpolatedWhile(Usable(systems, "coordinates"), systems, grid)
\* changeProjectionByForwardInterpolation guesses dimensions only where there are no axes.
ByForwardInterpolation(systems, grid) == InterpolatedWhile(Usable(systems, "forward"), systems, grid)

\* changeProjectionByProjectionParametersToLatLonTemplate, with what is cached before.
ToLatLonTemplate(systems, grid, sections, interpolations, matrices) ==
    LET vars == VariablesOf(systems)
    IN /\ projectionVariables' = vars
       /\ announced' = TemplateDimensions(systems, grid, sections)
       /\ cachedInterpolation' = Interpolations(interpolations, systems, grid)
       /\ cachedVectorReprojection' = Matrices(matrices, systems, grid, vars)
       /\ ended' = "changed"

\* changeProjection by method; an unknown one is refused after the reset.
ChangeProjection(method, grid) ==
    LET systems == IF method \in Methods THEN Best(method \in Parameters) ELSE <<>>
    IN /\ Changing
       /\ \/ RefuseEmpty(grid)
          \/ grid # Last(Grids) /\ NoSystem(systems)
          \/ /\ grid # Last(Grids) /\ systems # <<>>
             /\ projectionVariables' = VariablesOf(systems)
             /\ announced' = NewDimensions(systems, grid)
             /\ IF method \in Parameters THEN ByProjectionParameters(systems, grid)
                ELSE IF method \in Coordinates THEN ByCoordinates(systems, grid)
                ELSE ByForwardInterpolation(systems, grid)

\* changeProjection to lists of longitudes and latitudes: the CDM is not reset. A list that is
\* longer than the other one is only logged.
ChangeToLonLat(method, grid, sameSize) ==
    LET systems == Best(TRUE)
    IN /\ Changing
       /\ IF ~sameSize \/ method \notin Parameters
          THEN UNCHANGED <<projectionVariables, cachedInterpolation, cachedVectorReprojection, announced, ended>>
          ELSE IF systems = <<>>
          THEN /\ projectionVariables' = Empty
               /\ ended' = "failed"
               /\ UNCHANGED <<cachedInterpolation, cachedVectorReprojection, announced>>
          ELSE ToLatLonTemplate(systems, grid, announced.sections, cachedInterpolation, cachedVectorReprojection)

\* changeProjectionToCrossSections: the dimensions of the sections cannot be added twice. Then
\* the change to the points along them, which refuses the methods it does not know; sections
\* that cannot be made, from axes of one element, are as if there were no system.
ChangeToCrossSections(method, grid) ==
    LET systems == Best(TRUE)
    IN /\ Changing
       /\ IF systems = <<>> \/ announced.sections \/ method \notin Parameters
          THEN /\ ended' = "failed"
               /\ projectionVariables' = VariablesOf(systems)
               /\ announced' = IF systems = <<>> THEN announced
                               ELSE [announced EXCEPT !.sections = TRUE, !.removed = @ \cup Incompatible(systems)]
               /\ UNCHANGED <<cachedInterpolation, cachedVectorReprojection>>
          ELSE ToLatLonTemplate(systems, grid, TRUE, cachedInterpolation, cachedVectorReprojection)

\* changeProjection to a template: everything is reset first.
ChangeToTemplate(method, grid) ==
    LET systems == Best(TRUE)
        template == method \in Parameters /\ systems # <<>>
    IN /\ Changing
       /\ IF template THEN ToLatLonTemplate(systems, grid, FALSE, Empty, Empty)
          ELSE /\ projectionVariables' = Empty
               /\ announced' = AsRead
               /\ cachedInterpolation' = Empty
               /\ cachedVectorReprojection' = Empty
               /\ ended' = "failed"

\* A vector is turned when the other direction is on the same grid and there is a matrix.
TurnedBy(v) ==
    LET id == projectionVariables[v]
        together == \E p \in Vectors : v \in {p[1], p[2]}
                       /\ {p[1], p[2]} \subseteq DOMAIN projectionVariables
                       /\ projectionVariables[p[1]] = projectionVariables[p[2]]
    IN IF together /\ id \in DOMAIN cachedVectorReprojection THEN cachedVectorReprojection[id] ELSE "none"

\* getDataSlice. The part of the x-axis is cut out of the interpolated data when the dimension
\* has the name the interpolation knows; the sizes do not match otherwise.
GetSlice(v, part) ==
    /\ v \notin announced.removed
    /\ delivered' =
         IF v \notin DOMAIN projectionVariables
         THEN [NotRead EXCEPT !.var = v, !.how = "forwarded"]
         ELSE LET id == projectionVariables[v] IN
              IF id \notin DOMAIN cachedInterpolation
              THEN [NotRead EXCEPT !.var = v, !.how = "failed"]
              ELSE LET ci == cachedInterpolation[id]
                   IN [var |-> v, grid |-> ci.grid, turned |-> TurnedBy(v),
                       how |-> IF part /\ ci.x # announced.x THEN "failed" ELSE "interpolated"]
    /\ UNCHANGED <<projectionVariables, cachedInterpolation, cachedVectorReprojection, announced, ended, changes>>

InterpolatorNext ==
    \/ \E m \in Methods \cup {"unknown"}, i \in DOMAIN Grids : ChangeProjection(m, Grids[i])
    \/ \E m \in Methods, i \in 1 .. Len(Grids) - 1, same \in BOOLEAN : ChangeToLonLat(m, Grids[i], same)
    \/ \E m \in Methods, i \in 1 .. Len(Grids) - 1 : ChangeToCrossSections(m, Grids[i])
    \/ \E m \in Methods, i \in 1 .. Len(Grids) - 1 : ChangeToTemplate(m, Grids[i])
    \/ \E v \in UNION {s.vars : s \in Members(Systems)} \cup Alone, part \in BOOLEAN : GetSlice(v, part)

InterpolatorSpec == InterpolatorInit /\ [][InterpolatorNext]_ipVars

-----------------------------------------------------------------------------
\* After a change that succeeded, a variable is read on the grid cdm_ announces, through
\* whichever changes, refused or failed ones included, the interpolator has gone before
\* (changeProjection and its variants, getDataSlice).
ServedOnAnnouncedGrid ==
    delivered.how = "interpolated" /\ ended = "changed" => delivered.grid = announced.grid

\* A vector is only turned by the matrix of the grid it is interpolated to: what a change of
\* the projection leaves of the one before it must not be used.
TurnedForThisGrid ==
    delivered.turned # "none" /\ ended = "changed" => delivered.turned = announced.grid
=============================================================================
