---------------------------- MODULE CDMProcessor ----------------------------
(***************************************************************************)
(* CDMProcessor reads another reader and changes what it reads: it sums    *)
(* slices along the unlimited dimension or takes their differences,        *)
(* rotates vectors and directions, and adds two computed variables.        *)
(*                                                                         *)
(* Data are sums of slices: a map of positions to how often the slice at   *)
(* that position is contained; the empty map is an array without elements. *)
(* "sum" tells whether addition made the array (of doubles): asDouble()    *)
(* of such an array is the array itself, of any other a copy.              *)
(***************************************************************************)
EXTENDS Integers, Sequences, FiniteSets

CONSTANTS Lower,      \* variables of the reader below: name -> record, see MCStreams
          Present,    \* name -> positions at which a slice is not empty
          VectorPairs,     \* pairs of names a user may ask to rotate
          OneDirection,    \* whether all rotations go one way, as those of fimex do
          LastPos,         \* bound: the last position read
          MaxSetUp, MaxReads \* bounds: calls of the set-up, slices read

\* Names in use; a variable has a name, and one that counts up is free.
HeightNames == {"geopotential_height", "geopotential_height_0"}
PVariable == [std : STRING, unlim : BOOLEAN, cs : STRING, dir : {"none", "X", "Y", "LON", "LAT"},
              pair : STRING, vertical : STRING, shape : STRING, made : STRING]
ASSUME ProcessorAssumption ==
    /\ LastPos \in Nat /\ MaxReads \in Nat /\ "" \notin DOMAIN Lower
    /\ \A v \in DOMAIN Lower : v \in STRING /\ Lower[v] \in PVariable
    /\ HeightNames \ DOMAIN Lower # {}

VARIABLES pVars,               \* variables of cdm_
          accumulateVars, deaccumulateVars,
          rotateX, rotateY,    \* name -> <<counterpart, coordinate system>>
          rotateDirection,     \* name -> coordinate system
          reprojection,        \* coordinate system -> direction of its matrix
          sliceCache,          \* name, position and data of the last sum
          vvComp,              \* what the vertical velocity is computed from, or none
          geopotential,        \* the variable geopotential height replaces and its converter
          pResult,             \* how the last call of the set-up ended
          setUp,               \* calls of the set-up
          read                 \* the last slice delivered, and how many were

procVars == <<pVars, accumulateVars, deaccumulateVars, rotateX, rotateY, rotateDirection,
              reprojection, sliceCache, vvComp, geopotential, pResult, setUp, read>>
computed == <<vvComp, geopotential>>
sums == <<accumulateVars, deaccumulateVars>>
rotations == <<rotateX, rotateY, rotateDirection, reprojection>>

SlicePositions == 0 .. LastPos
NoData == [p \in {} |-> 0]
Array(v, p) == [terms |-> IF p \in Present[v] THEN [q \in {p} |-> 1] ELSE NoData,
                sum |-> FALSE, rotated |-> <<>>]
Nothing == [terms |-> NoData, sum |-> FALSE, rotated |-> <<>>]
IsEmpty(data) == data.terms = NoData
Combined(f, g, sign) ==
    LET At(h, p) == IF p \in DOMAIN h THEN h[p] ELSE 0
    IN [p \in DOMAIN f \cup DOMAIN g |-> At(f, p) + sign * At(g, p)]

ProcInit ==
    /\ pVars = Lower
    /\ accumulateVars = {} /\ deaccumulateVars = {}
    /\ rotateX = <<>> /\ rotateY = <<>> /\ rotateDirection = <<>> /\ reprojection = <<>>
    /\ sliceCache = [var |-> "", pos |-> 0, data |-> Nothing]
    /\ vvComp = [xWind |-> "", yWind |-> "", temp |-> "", geopot |-> ""]
    /\ geopotential = [var |-> "", temp |-> ""]
    /\ pResult = "ok" /\ setUp = 0
    /\ read = [n |-> 0, var |-> "", pos |-> 0, data |-> Nothing]

\* The user sets the processes up, then reads; a call that threw ends it.
SettingUp == read.n = 0 /\ setUp < MaxSetUp /\ pResult = "ok" /\ setUp' = setUp + 1
Put(f, x, y) == [z \in DOMAIN f \cup {x} |-> IF z = x THEN y ELSE f[z]]
WithStd(names) == {v \in DOMAIN pVars : pVars[v].std \in names}

-----------------------------------------------------------------------------
\* accumulate and deAccumulate: getVariable throws for a variable that is not there,
\* one without unlimited dimension is ignored.
Accumulate(v) ==
    /\ SettingUp
    /\ pResult' = IF v \in DOMAIN pVars THEN "ok" ELSE "CDMException"
    /\ accumulateVars' = accumulateVars \cup {w \in {v} \cap DOMAIN pVars : pVars[w].unlim}
    /\ UNCHANGED <<pVars, deaccumulateVars, rotations, sliceCache, computed, read>>

DeAccumulate(v) ==
    /\ SettingUp
    /\ pResult' = IF v \in DOMAIN pVars THEN "ok" ELSE "CDMException"
    /\ deaccumulateVars' = deaccumulateVars \cup {w \in {v} \cap DOMAIN pVars : pVars[w].unlim}
    /\ UNCHANGED <<pVars, accumulateVars, rotations, sliceCache, computed, read>>

\* addGeopotentialHeight: the first temperature on model levels gives the variable, whose
\* name is made from its own ("made") or counted up until it is free.
AddGeopotentialHeight ==
    LET useful == {t \in WithStd({"air_temperature"}) : Lower[t].vertical # "none"}
        name(t) == IF Lower[t].made # "" THEN Lower[t].made
                   ELSE CHOOSE n \in HeightNames : n \notin DOMAIN pVars
    IN /\ SettingUp /\ WithStd({"geopotential_height"}) = {} /\ useful # {}
       /\ \E t \in useful :
            /\ geopotential' = [var |-> name(t), temp |-> t]
            /\ IF name(t) \in DOMAIN pVars
               THEN pResult' = "CDMException" /\ UNCHANGED pVars
               ELSE /\ pResult' = "ok"
                    /\ pVars' = Put(pVars, name(t),
                                    [Lower[t] EXCEPT !.std = "geopotential_height", !.made = ""])
       /\ UNCHANGED <<sums, rotations, sliceCache, vvComp, read>>

\* addVerticalVelocity: a wind on hybrid levels whose counterpart is known, a temperature
\* of the same shape (the last one), a height on the same grid that can be read.
VelocityInput(x, t, g) ==
    /\ Lower[x].std = "x_wind" /\ Lower[x].vertical = "hybrid" /\ Lower[x].pair # ""
    /\ Lower[t].std = "air_temperature" /\ Lower[t].shape = Lower[x].shape
    /\ Lower[g].std = "geopotential" /\ Lower[g].cs = Lower[x].cs

AddVerticalVelocity ==
    /\ SettingUp /\ "upward_air_velocity_ml" \notin DOMAIN pVars
    /\ \E x, t, g \in DOMAIN Lower :
         /\ VelocityInput(x, t, g)
         /\ vvComp' = [xWind |-> x, yWind |-> Lower[x].pair, temp |-> t, geopot |-> g]
         /\ pVars' = Put(pVars, "upward_air_velocity_ml",
                         [Lower[x] EXCEPT !.std = "upward_air_velocity", !.pair = "", !.dir = "none"])
    /\ pResult' = "ok"
    /\ UNCHANGED <<sums, rotations, sliceCache, geopotential, read>>

-----------------------------------------------------------------------------
\* A model of the wind: no variable is the first component of one vector and the second of another.
FirstOnes ==
    {pair[1] : pair \in VectorPairs} \cup {v \in DOMAIN Lower : Lower[v].dir \in {"X", "LON"}}
SecondOnes ==
    {pair[2] : pair \in VectorPairs}
        \cup {Lower[v].pair : v \in {w \in DOMAIN Lower : Lower[w].dir \in {"X", "LON"}}}
VectorsHaveSides == FirstOnes \cap SecondOnes = {}

OneWay(toLatLon) == OneDirection => \A cs \in DOMAIN reprojection : reprojection[cs] = toLatLon
HasProjection(v) == v \in DOMAIN Lower /\ Lower[v].cs # ""

\* makeCachedVectorReprojection once for each coordinate system, whatever was asked later.
WithMatrix(cs, toLatLon) ==
    IF cs \in DOMAIN reprojection THEN reprojection ELSE Put(reprojection, cs, toLatLon)

\* What the two components announce.
AsVector(x, y, toLatLon) ==
    [pVars EXCEPT ![x].dir = IF toLatLon THEN "LON" ELSE "X", ![x].pair = y,
                  ![y].dir = IF toLatLon THEN "LAT" ELSE "Y", ![y].pair = x]

\* A slip: the counterpart is not turned with it.
MutRotateVector(x, y, toLatLon) ==
    /\ SettingUp /\ OneWay(toLatLon)
    /\ HasProjection(x) /\ HasProjection(y) /\ Lower[x].cs = Lower[y].cs
    /\ pVars' = AsVector(x, y, toLatLon)
    /\ reprojection' = WithMatrix(Lower[x].cs, toLatLon)
    /\ rotateX' = Put(rotateX, x, <<y, Lower[x].cs>>)
    /\ pResult' = "ok"
    /\ UNCHANGED <<sums, sliceCache, computed, read, rotateDirection, rotateY>>

\* rotateVectorToLatLon for one pair: what the variables announce is changed before the
\* test that both have one coordinate system.
RotateVector(x, y, toLatLon) ==
    /\ SettingUp /\ OneWay(toLatLon)
    /\ IF ~HasProjection(x) \/ ~HasProjection(y)
       THEN pResult' = "CDMException" /\ UNCHANGED <<pVars, rotations>>
       ELSE /\ pVars' = AsVector(x, y, toLatLon)
            /\ UNCHANGED rotateDirection
            /\ IF Lower[x].cs # Lower[y].cs
               THEN pResult' = "CDMException" /\ UNCHANGED <<rotateX, rotateY, reprojection>>
               ELSE /\ reprojection' = WithMatrix(Lower[x].cs, toLatLon)
                    /\ rotateX' = Put(rotateX, x, <<y, Lower[x].cs>>)
                    /\ rotateY' = Put(rotateY, y, <<x, Lower[x].cs>>)
                    /\ pResult' = "ok"
    /\ UNCHANGED <<sums, sliceCache, computed, read>>

\* rotateAllVectorsToLatLon: every vector that stands in the other system.
ToRotate(toLatLon) ==
    {v \in DOMAIN pVars : pVars[v].pair # "" /\ pVars[v].dir = IF toLatLon THEN "X" ELSE "LON"}
RotateAllVectors(toLatLon) ==
    \E v \in ToRotate(toLatLon) : RotateVector(v, pVars[v].pair, toLatLon)

RotateDirection(v, toLatLon) ==
    /\ SettingUp /\ OneWay(toLatLon)
    /\ IF HasProjection(v)
       THEN /\ rotateDirection' = Put(rotateDirection, v, Lower[v].cs)
            /\ reprojection' = WithMatrix(Lower[v].cs, toLatLon)
            /\ pResult' = "ok"
       ELSE pResult' = "CDMException" /\ UNCHANGED <<rotateDirection, reprojection>>
    /\ UNCHANGED <<pVars, sums, rotateX, rotateY, sliceCache, computed, read>>

-----------------------------------------------------------------------------
\* What getDataSlice begins with.
FirstData(v, p) ==
    IF v = "upward_air_velocity_ml" /\ vvComp.xWind # "" THEN Array(vvComp.xWind, p)
    ELSE IF v = geopotential.var THEN Array(geopotential.temp, p)
    ELSE Array(v, p)

\* addDataP2Data: an empty array counts as nothing.
AddedData(data, more) ==
    IF IsEmpty(more) THEN data
    ELSE IF IsEmpty(data) THEN more
    ELSE [data EXCEPT !.terms = Combined(@, more.terms, 1), !.sum = TRUE]

\* The sum up to p: the slice itself, the sum in the cache when it is that of an earlier
\* (or of this) position of the same variable, and the slices in between.
Accumulated(v, p, data) ==
    LET cached == sliceCache.var = v /\ sliceCache.pos <= p
        begun == IF ~cached THEN data
                 ELSE IF sliceCache.pos = p THEN sliceCache.data ELSE AddedData(data, sliceCache.data)
        start == IF cached THEN sliceCache.pos + 1 ELSE 0
        upto[i \in 0 .. p] ==
            IF i <= start THEN begun ELSE AddedData(upto[i - 1], Array(v, i - 1))
    IN upto[p]

\* The difference to the slice before; nothing to do when either is empty.
Deaccumulated(v, p, data) ==
    LET before == Array(v, p - 1)
    IN IF IsEmpty(data) \/ IsEmpty(before) THEN data
       ELSE [data EXCEPT !.terms = Combined(@, before.terms, -1), !.sum = TRUE]

\* Vectors take the counterpart as it is in the reader below.
Rotated(v, p, data) ==
    LET other == IF v \in DOMAIN rotateX THEN rotateX[v][1] ELSE rotateY[v][1]
        cs == IF v \in DOMAIN rotateX THEN rotateX[v][2] ELSE rotateY[v][2]
    IN IF v \in DOMAIN rotateX \cup DOMAIN rotateY
       THEN [data EXCEPT !.rotated = Append(@, [with |-> other, terms |-> Array(other, p).terms,
                                                 toLatLon |-> reprojection[cs]]), !.sum = FALSE]
       ELSE data
TurnedDirection(v, data) ==
    IF v \in DOMAIN rotateDirection
    THEN [data EXCEPT !.rotated = Append(@, [with |-> "", terms |-> NoData,
                                             toLatLon |-> reprojection[rotateDirection[v]]]), !.sum = FALSE]
    ELSE data

\* getDataSlice.  What deaccumulation subtracts from an array of doubles it subtracts in
\* place: also from the copy the cache has of it.
ReadSlice(v, p) ==
    LET acc == v \in accumulateVars /\ p > 0
        deacc == v \in deaccumulateVars /\ p # 0
        summed == IF acc THEN Accumulated(v, p, FirstData(v, p)) ELSE FirstData(v, p)
        differ == IF deacc THEN Deaccumulated(v, p, summed) ELSE summed
        result == TurnedDirection(v, Rotated(v, p, differ))
    IN /\ read.n < MaxReads
       /\ v \in DOMAIN pVars
       /\ sliceCache' = IF acc THEN [var |-> v, pos |-> p, data |-> IF summed.sum THEN differ ELSE summed]
                        ELSE sliceCache
       /\ read' = [n |-> read.n + 1, var |-> v, pos |-> p, data |-> result]
       /\ UNCHANGED <<pVars, sums, rotations, computed, pResult, setUp>>

ProcNext ==
    \/ \E v \in DOMAIN Lower : Accumulate(v) \/ DeAccumulate(v)
    \/ AddGeopotentialHeight \/ AddVerticalVelocity
    \/ \E pair \in VectorPairs, toLatLon \in BOOLEAN : RotateVector(pair[1], pair[2], toLatLon)
    \/ \E toLatLon \in BOOLEAN : RotateAllVectors(toLatLon)
    \/ \E v \in DOMAIN Lower, toLatLon \in BOOLEAN : RotateDirection(v, toLatLon)
    \/ \E v \in DOMAIN pVars, p \in SlicePositions : ReadSlice(v, p)

ProcSpec == ProcInit /\ [][ProcNext]_procVars

-----------------------------------------------------------------------------
(* Whatever slices were asked before, of whatever variables: the accumulated    *)
(* slice holds every slice up to it once (unless differences are taken as well, *)
(* or a failed call made the variable that of geopotential height).             *)
AccumulatedOnce ==
    read.var \in accumulateVars \ deaccumulateVars /\ read.pos > 0 /\ read.var # geopotential.var =>
        /\ DOMAIN read.data.terms = Present[read.var] \cap 0 .. read.pos
        /\ \A p \in DOMAIN read.data.terms : read.data.terms[p] = 1

(* A variable that is announced as the component of another vector than below is *)
(* turned so, with the one announced as its counterpart, at the same position:   *)
(* a model stays consistent unless a call failed.                                *)
Announced(variable) == <<variable.dir, variable.pair>>
PairsTurned ==
    pResult = "ok" /\ read.n > 0 /\ read.var \in DOMAIN Lower
    /\ Announced(pVars[read.var]) # Announced(Lower[read.var]) =>
        \E k \in DOMAIN read.data.rotated :
            /\ read.data.rotated[k].with = pVars[read.var].pair
            /\ DOMAIN read.data.rotated[k].terms = Present[pVars[read.var].pair] \cap {read.pos}
            /\ read.data.rotated[k].toLatLon = (pVars[read.var].dir \in {"LON", "LAT"})

(* What is asked of in several calls is done once to every slice that is read    *)
(* (CDMProcessor::getDataSlice): sums, differences and turns in one chain.       *)
ProcessedAsAsked == AccumulatedOnce /\ PairsTurned
=============================================================================
