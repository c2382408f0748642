---------------------------- MODULE CDMExtractor ----------------------------
(***************************************************************************)
(* CDMExtractor: a reader that shows a part of the variables and of the    *)
(* positions of another reader.                                            *)
(*                                                                         *)
(* The reader below is never changed by the extractor and delivers every   *)
(* hyperslab inside its own dimensions; positions are those of its arrays. *)
(* The extractor keeps its own copy of the data model (length, vars, mem)  *)
(* and the positions it picked (dimSlices).  Reading changes no state:     *)
(* the read methods are functions of the state.                            *)
(***************************************************************************)
EXTENDS SliceOps, Hyperslab, Integers, FiniteSets

CONSTANTS
  Dims,         \* names of the dimensions of the reader below
  OrgLength,    \* [Dims -> Nat]: their lengths there
  Unlimited,    \* the unlimited dimension, or a value outside Dims
  Vars,         \* names of its variables
  Shape,        \* [Vars -> Seq(Dims)], the unlimited dimension last
  InMemory,     \* the variables that carry their data in the data model
  Depends,      \* [Vars -> SUBSET Vars]: dependency variables of their coordinate systems
  AxisValues,   \* values of the one-dimensional axes, per dimension that has such an axis
  Boxes,        \* sets of points <<x, y>> a bounding box may keep
  XDim, YDim,   \* the horizontal dimensions, named as their axes
  MaxElements,  \* the elements a std::set can hold before memory is exhausted
  \* what callers pass:
  Picks,        \* sets of positions to reduceDimension
  Starts, Counts, Ends,   \* numbers to the other reductions of a dimension
  AxisBounds,   \* values to reduceAxes
  Selections    \* sets of names to selectVariables and removeVariable

VARIABLES
  length,       \* length of every dimension in the extractor's CDM
  dimSlices,    \* dimSlices_: the picked positions, for the reduced dimensions
  vars,         \* the variables in the extractor's CDM
  mem,          \* those of Vars that carry their data
  result        \* how the last call returned

extractor == <<length, dimSlices, vars, mem, result>>

ASSUME ExtractorAssumption ==
  /\ OrgLength \in [Dims -> SizeT] /\ Shape \in [Vars -> Seq(Dims)]
  /\ \A v \in Vars : \A i \in DOMAIN Shape[v] : Shape[v][i] = Unlimited => i = Len(Shape[v])
  /\ InMemory \subseteq Vars
  /\ MaxElements \in SizeT
  /\ IsFiniteSet(Vars) /\ Depends \in [Vars -> SUBSET Vars]
  /\ \A d \in DOMAIN AxisValues :
        d \in Dims /\ AxisValues[d] \in Seq(Int) /\ Len(AxisValues[d]) = OrgLength[d]
  /\ XDim \in Dims /\ YDim \in Dims /\ XDim # YDim
  /\ \A box \in Boxes : IsFiniteSet(box) /\ box \subseteq SizeT \X SizeT
  /\ \A S \in Picks : S \subseteq SizeT
  /\ Starts \subseteq SizeT /\ Counts \subseteq SizeT /\ Ends \subseteq Int
  /\ AxisBounds \subseteq Int

DimsOf(v) == {Shape[v][i] : i \in DOMAIN Shape[v]}
OrgSizes(v) == [i \in DOMAIN Shape[v] |-> OrgLength[Shape[v][i]]]
Sizes(v) == [i \in DOMAIN Shape[v] |-> length[Shape[v][i]]]
HasUnlimited(v) == Unlimited \in DimsOf(v)

\* The elements of a set of numbers, the smallest first.
Sorted(S) ==
  [i \in 1 .. Cardinality(S) |-> CHOOSE x \in S : Cardinality({y \in S : y < x}) = i - 1]

-----------------------------------------------------------------------------
(* Reading *)

(* A builder of the reader below; "bad" stands for the exception its        *)
(* setStartAndSize throws.                                                  *)
NoLimits(v) == [i \in DOMAIN Shape[v] |-> FALSE]
OrgBuilder(v) == NewBuilder(Shape[v], OrgSizes(v), NoLimits(v))

(* A slip: the last position of a run is not counted. *)
MutChunks(p, first, last) ==
  LET starts == {i \in first .. last : i = first \/ p[i] # p[i - 1] + 1}
      ends == {i \in first .. last : i + 1 \in starts \/ i = last}
      s == Sorted(starts)
      e == Sorted(ends)
  IN  [k \in DOMAIN s |-> <<p[s[k]], p[e[k]] - p[s[k]]>>]

(* The runs of neighbouring positions among p[first .. last]: <<start, size>>. *)
Chunks(p, first, last) ==
  LET starts == {i \in first .. last : i = first \/ p[i] # p[i - 1] + 1}
      ends == {i \in first .. last : i + 1 \in starts \/ i = last}
      s == Sorted(starts)
      e == Sorted(ends)
  IN  [k \in DOMAIN s |-> <<p[s[k]], p[e[k]] - p[s[k]] + 1>>]

(* What one dimension of the request turns into: the pieces <<start, size>>  *)
(* to read of it.  A request of no elements reads its first position.        *)
Pieces(d, s, n, oneByOne) ==
  CASE d \notin DOMAIN dimSlices -> <<<<s, n>>>>
    [] d \in DOMAIN dimSlices /\ dimSlices[d] = <<>> -> <<<<s, 0>>>>
    [] d \in DOMAIN dimSlices /\ dimSlices[d] # <<>> /\ oneByOne ->
         [k \in 1 .. n |-> <<dimSlices[d][s + k], 1>>]
    [] OTHER -> Chunks(dimSlices[d], s + 1, IF n = 0 THEN s + 1 ELSE s + n)

(* A slip: the two inner loops swapped, the later dimension innermost. *)
MutSplit(builders, d, s, n) ==
  LET pieces == Pieces(d, s, n, Len(builders) > 1)
  IN  FlattenSeq([j \in DOMAIN builders |->
        [k \in DOMAIN pieces |-> AfterSet(builders[j], d, pieces[k][1], pieces[k][2])]])

(* The loop over the dimensions: every builder so far is copied for every    *)
(* piece, the later dimension outermost.                                     *)
Split(builders, d, s, n) ==
  LET pieces == Pieces(d, s, n, Len(builders) > 1)
  IN  FlattenSeq([k \in DOMAIN pieces |->
        [j \in DOMAIN builders |-> AfterSet(builders[j], d, pieces[k][1], pieces[k][2])]])
SplitRejected(builders, d, s, n) ==
  LET pieces == Pieces(d, s, n, Len(builders) > 1)
  IN  \E k \in DOMAIN pieces, j \in DOMAIN builders :
         SetResult(builders[j], d, pieces[k][1], pieces[k][2]) # "ok"
NoSuchPosition(d, s) ==     \* positions.at(sbStart)
  d \in DOMAIN dimSlices /\ dimSlices[d] # <<>> /\ s >= Len(dimSlices[d])

SplitAll(v, start, size) ==
  LET split[i \in 0 .. Len(Shape[v])] ==
        IF i = 0 THEN [builders |-> <<OrgBuilder(v)>>, bad |-> FALSE]
        ELSE LET d == Shape[v][i]
                 before == split[i - 1]
             IN  IF before.bad \/ NoSuchPosition(d, start[i])
                    \/ SplitRejected(before.builders, d, start[i], size[i])
                 THEN [before EXCEPT !.bad = TRUE]
                 ELSE [before EXCEPT !.builders = Split(@, d, start[i], size[i])]
  IN  split[Len(Shape[v])]

(* joinSlices: the pieces one after the other.  The reader below is right,  *)
(* so each has the size its builder says.                                   *)
Read(b) == Slab(b.start, b.size)
JoinSlices(builders) == FlattenSeq([k \in DOMAIN builders |-> Read(builders[k])])

Answer(status, data) == [status |-> status, data |-> data]
Fails(status) == Answer(status, <<>>)

(* getDataSlice_(varName, sb) *)
ReadPieces(v, start, size) ==
  LET all == SplitAll(v, start, size)
  IN  IF all.bad THEN Fails("out_of_range") ELSE Answer("ok", JoinSlices(all.builders))

(* The data in memory are the whole original array: DataImpl::slice checks  *)
(* that the current sizes fit them, createDataSlice does not.                *)
FromMemory(v, start, size) ==
  IF Product(OrgSizes(v)) = 0 THEN Answer("ok", <<>>)
  ELSE IF Product(Sizes(v)) # Product(OrgSizes(v)) THEN Fails("CDMException")
  ELSE Answer("ok", Slab(start, size))
FromMemoryAt(v, pos) ==
  LET all == Whole(OrgSizes(v))
      n == Product([i \in 1 .. Len(Shape[v]) - 1 |-> length[Shape[v][i]]])
  IN  Answer("ok", IF HasUnlimited(v) THEN SubSeq(all, pos * n + 1, pos * n + n) ELSE all)

(* getDataSlice(varName, sb), for a builder made from the extractor's CDM. *)
GetDataSlice(v, start, size) ==
  CASE v \notin vars -> Fails("CDMException")
    [] v \in vars /\ v \in mem -> FromMemory(v, start, size)
    [] v \in vars /\ v \notin mem /\ DOMAIN dimSlices = {} -> Answer("ok", Slab(start, size))
    [] OTHER -> ReadPieces(v, start, size)

(* getDataSlice(varName, unLimDimPos): all of the variable, or, along its    *)
(* unlimited dimension, one position of it.                                  *)
AtStart(v, pos) == [i \in DOMAIN Shape[v] |-> IF Shape[v][i] = Unlimited THEN pos ELSE 0]
AtSize(v) == [i \in DOMAIN Shape[v] |-> IF Shape[v][i] = Unlimited THEN 1 ELSE length[Shape[v][i]]]
GetDataSliceAt(v, pos) ==
  CASE v \notin vars -> Fails("CDMException")
    [] v \in vars /\ v \in mem -> FromMemoryAt(v, pos)
    [] v \in vars /\ v \notin mem /\ DOMAIN dimSlices = {} ->
         Answer("ok", Slab(AtStart(v, pos), AtSize(v)))
    [] OTHER -> IF HasUnlimited(v) /\ pos >= length[Unlimited] THEN Fails("out_of_range")
                ELSE ReadPieces(v, AtStart(v, pos), AtSize(v))

(* CDMReader::getData, inherited. *)
GetData(v) ==
  CASE v \notin vars -> Fails("CDMException")
    [] v \in vars /\ v \in mem -> Answer("ok", Whole(OrgSizes(v)))
    [] v \in vars /\ v \notin mem /\ ~HasUnlimited(v) -> GetDataSliceAt(v, 0)
    [] OTHER ->
         LET parts == [i \in 1 .. length[Unlimited] |-> GetDataSliceAt(v, i - 1)]
         IN  IF \E i \in DOMAIN parts : parts[i].status # "ok" THEN Fails("out_of_range")
             ELSE Answer("ok", FlattenSeq([i \in DOMAIN parts |-> parts[i].data]))

-----------------------------------------------------------------------------
(* Choosing what to show *)

Init ==
  /\ length = OrgLength
  /\ dimSlices = [d \in {} |-> <<>>]
  /\ vars = Vars
  /\ mem = InMemory
  /\ result = "ok"

\* The new positions of dimensions, those of the others as before.
Picked(positions) ==
  dimSlices' = [d \in DOMAIN positions \cup DOMAIN dimSlices |->
                  IF d \in DOMAIN positions THEN positions[d] ELSE dimSlices[d]]

(* reduceDimension(dimName, slices).  The positions are checked against the  *)
(* length the extractor shows, one beyond it is let through.                 *)
OutOfBounds(d, S) == \E s \in S : s > length[d]
Reduce(d, S) ==
  /\ length' = [length EXCEPT ![d] = Cardinality(S)]
  /\ Picked([e \in {d} |-> Sorted(S)])
  /\ mem' = mem \ {v \in vars : d \in DimsOf(v)}
  /\ UNCHANGED vars

ReduceDimension(d, S) ==
  IF d \notin Dims \/ OutOfBounds(d, S)
  THEN result' = "CDMException" /\ UNCHANGED <<length, dimSlices, vars, mem>>
  ELSE result' = "ok" /\ Reduce(d, S)

(* reduceDimension(dimName, start, length): the positions are collected       *)
(* before anything is checked.                                               *)
ReduceRange(d, start, n) ==
  IF n > MaxElements
  THEN result' = "bad_alloc" /\ UNCHANGED <<length, dimSlices, vars, mem>>
  ELSE ReduceDimension(d, {(start + i) % SizeMod : i \in 0 .. n - 1})

(* reduceDimensionStartEnd: size_t arithmetic; end > 0 is the last position,  *)
(* otherwise it counts from the end of the dimension.                        *)
StartEndLength(d, start, end) ==
  IF end > 0 THEN (end - start + 1) % SizeMod ELSE (length[d] - start + end) % SizeMod
ReduceDimensionStartEnd(d, start, end) ==
  IF d \notin Dims /\ end <= 0
  THEN result' = "CDMException" /\ UNCHANGED <<length, dimSlices, vars, mem>>
  ELSE ReduceRange(d, start, StartEndLength(d, start, end))

(* reduceAxes: lower_bound and upper_bound on the growing values; a falling  *)
(* axis is reversed for the search and the result mirrored.                  *)
Falling(vals) == Len(vals) > 1 /\ vals[1] > vals[2]
\* "vArray assumed to be monotonic growing": so are the values, or falling.
ASSUME AxesAssumption ==
  \A d \in DOMAIN AxisValues : \A i, j \in DOMAIN AxisValues[d] : i < j =>
    IF Falling(AxisValues[d]) THEN AxisValues[d][i] >= AxisValues[d][j]
    ELSE AxisValues[d][i] <= AxisValues[d][j]
LowerBound(vals, lo) == Cardinality({i \in DOMAIN vals : vals[i] < lo})
UpperBound(vals, hi) == Cardinality({i \in DOMAIN vals : vals[i] <= hi})
MutAxisStart(vals, lo, hi) ==       \* a slip: the result is not mirrored
  LowerBound(IF Falling(vals) THEN Reverse(vals) ELSE vals, lo)
AxisStart(vals, lo, hi) ==
  LET up == IF Falling(vals) THEN Reverse(vals) ELSE vals
      first == LowerBound(up, lo)
      n == UpperBound(up, hi) - first
  IN  IF Falling(vals) THEN Len(vals) - (IF n > 0 THEN n ELSE 0) - first ELSE first
AxisPositions(vals, lo, hi) ==
  LET up == IF Falling(vals) THEN Reverse(vals) ELSE vals
      n == UpperBound(up, hi) - LowerBound(up, lo)
  IN  {AxisStart(vals, lo, hi) + i : i \in 0 .. n - 1}

(* A dimension that is already reduced is left alone. *)
AxisDims == {d \in DOMAIN AxisValues : Len(AxisValues[d]) > 0 /\ d \notin DOMAIN dimSlices}
ReduceAxes(lo, hi) ==
  LET picked(d) == AxisPositions(AxisValues[d], lo, hi)
  IN  /\ length' = [d \in Dims |-> IF d \in AxisDims THEN Cardinality(picked(d)) ELSE length[d]]
      /\ Picked([d \in AxisDims |-> Sorted(picked(d))])
      /\ mem' = mem \ {v \in vars : DimsOf(v) \cap AxisDims # {}}
      /\ result' = "ok"
      /\ UNCHANGED vars

(* reduceLatLonBoundingBox: the columns and rows of the grid points inside.  *)
(* x is reduced before y is checked.                                         *)
ReduceLatLonBoundingBox(box) ==
  LET xs == {p[1] : p \in box}
      ys == {p[2] : p \in box}
  IN  CASE OutOfBounds(XDim, xs) ->
             result' = "CDMException" /\ UNCHANGED <<length, dimSlices, vars, mem>>
        [] ~OutOfBounds(XDim, xs) /\ OutOfBounds(YDim, ys) ->
             result' = "CDMException" /\ Reduce(XDim, xs)
        [] OTHER ->
             /\ length' = [length EXCEPT ![XDim] = Cardinality(xs), ![YDim] = Cardinality(ys)]
             /\ Picked([d \in {XDim, YDim} |-> Sorted(IF d = XDim THEN xs ELSE ys)])
             /\ mem' = mem \ {v \in vars : DimsOf(v) \cap {XDim, YDim} # {}}
             /\ result' = "ok"
             /\ UNCHANGED vars

RemoveVariable(v) ==
  /\ vars' = vars \ {v}
  /\ mem' = mem \ {v}
  /\ result' = "ok"
  /\ UNCHANGED <<length, dimSlices>>

(* addAuxiliary: dimension variables and what the coordinate systems of the  *)
(* selected variables depend on, until nothing is added.                     *)
WithAuxiliary(S) ==
  LET dimVars == UNION {DimsOf(v) \cap vars : v \in S \cap vars}
      all == S \cup dimVars
  IN  all \cup UNION {Depends[v] : v \in all \cap Vars}
MutAuxiliary(S) == WithAuxiliary(S)  \* a slip: one round only
Auxiliary(S) ==
  LET grown[n \in Nat] == IF n = 0 THEN S ELSE WithAuxiliary(grown[n - 1])
  IN  grown[Cardinality(Vars)]

SelectVariables(S, addAuxiliary) ==
  /\ vars' = vars \cap (IF addAuxiliary THEN Auxiliary(S) ELSE S)
  /\ mem' = mem \cap vars'
  /\ result' = "ok"
  /\ UNCHANGED <<length, dimSlices>>

Next ==
  \/ \E d \in Dims : \E S \in Picks : ReduceDimension(d, S)
  \/ \E d \in Dims : \E start \in Starts, n \in Counts : ReduceRange(d, start, n)
  \/ \E d \in Dims : \E start \in Starts, end \in Ends : ReduceDimensionStartEnd(d, start, end)
  \/ \E lo, hi \in AxisBounds : ReduceAxes(lo, hi)
  \/ \E box \in Boxes : ReduceLatLonBoundingBox(box)
  \/ \E S \in Selections : \E v \in S : RemoveVariable(v)
  \/ \E S \in Selections, aux \in BOOLEAN : SelectVariables(S, aux)

Spec == Init /\ [][Next]_extractor

-----------------------------------------------------------------------------

(* Where a position the extractor shows is found in the reader below. *)
OrgPosition(d, p) == IF d \in DOMAIN dimSlices THEN dimSlices[d][p + 1] ELSE p

(* What a read promises: the picked elements, in memory order. *)
Restriction(v, start, size) ==
  LET shown == Slab(start, size)
  IN  [k \in DOMAIN shown |-> [i \in DOMAIN Shape[v] |-> OrgPosition(Shape[v][i], shown[k][i])]]

(* The requests a builder made from the extractor's CDM accepts, those of    *)
(* some elements and those of none.                                          *)
Parts(n) == {p \in (0 .. n) \X (0 .. n) : p[1] + p[2] <= n}
Requests(v) ==
  LET P == UNION {Parts(length[d]) : d \in DimsOf(v)}
      I == DOMAIN Shape[v]
  IN  {<<[i \in I |-> q[i][1]], [i \in I |-> q[i][2]]>> :
         q \in {q \in [I -> P] : \A i \in I : q[i] \in Parts(length[Shape[v][i]])}}
Nonempty(r) == \A i \in DOMAIN r[2] : r[2][i] > 0

PicksInside == \A d \in DOMAIN dimSlices : \A p \in ToSet(dimSlices[d]) : p < OrgLength[d]

(* The dimension is read in several pieces.                                  *)
Gappy(d, s, n) == d \in DOMAIN dimSlices /\ n > 0 /\ Len(Chunks(dimSlices[d], s + 1, s + n)) > 1
(* Every dimension slower than one with gaps is itself reduced, or read one  *)
(* position at a time.                                                       *)
PiecesStayInOrder(v, r) ==
  \A i, j \in DOMAIN Shape[v] :
     i < j /\ Gappy(Shape[v][i], r[1][i], r[2][i])
       => Shape[v][j] \in DOMAIN dimSlices \/ r[2][j] = 1

(* Whatever was reduced in whatever order, a read brings back exactly the    *)
(* picked elements: none twice, none missing, none of another position.      *)
ReadsPickedElements ==
  PicksInside => \A v \in vars : \A r \in Requests(v) : Nonempty(r) =>
    LET answer == GetDataSlice(v, r[1], r[2])
    IN  /\ answer.status = "ok"
        /\ Len(answer.data) = Product(r[2])
        /\ ToSet(answer.data) = ToSet(Restriction(v, r[1], r[2]))

(* ... and in memory order, when the slower dimensions allow joining pieces; *)
(* getData, which reads the unlimited dimension position by position, shows  *)
(* the same array as one request for the whole variable promises.            *)
ReadsInOrder ==
  PicksInside => \A v \in vars :
    /\ \A r \in Requests(v) :
         Nonempty(r) /\ PiecesStayInOrder(v, r)
           => GetDataSlice(v, r[1], r[2]).data = Restriction(v, r[1], r[2])
    /\ LET whole == <<Origin(Sizes(v)), AtSize(v)>>
       IN  Nonempty(<<whole[1], Sizes(v)>>) /\ PiecesStayInOrder(v, whole)
             => GetData(v) = Answer("ok", Restriction(v, whole[1], Sizes(v)))

(* reduceAxes keeps exactly the positions with values between its bounds,    *)
(* for rising and falling axes, and leaves reduced dimensions alone.         *)
AxisRangeExact ==
  [][\A lo, hi \in AxisBounds : ReduceAxes(lo, hi) =>
       \A d \in DOMAIN AxisValues :
         IF d \in DOMAIN dimSlices THEN dimSlices'[d] = dimSlices[d]
         ELSE AxisValues[d] # <<>> => ToSet(dimSlices'[d]) =
                {p \in 0 .. OrgLength[d] - 1 : lo <= AxisValues[d][p + 1] /\ AxisValues[d][p + 1] <= hi}
    ]_extractor

(* With addAuxiliary, no kept variable loses a dimension variable or a       *)
(* variable its coordinate system depends on, directly or through others.    *)
AuxiliaryKept ==
  [][\A S \in Selections : SelectVariables(S, TRUE) =>
       \A v \in vars' : (DimsOf(v) \cup Depends[v]) \cap vars \subseteq vars']_extractor

-----------------------------------------------------------------------------
(* CDMExtractor.cc:65 "join SliceBuilder request and build a big dataPtr /   *)
(* the slices need to come in a logical order of the data".                  *)
JoinsInLogicalOrder ==
  PicksInside => \A v \in vars : \A r \in Requests(v) :
    Nonempty(r) => GetDataSlice(v, r[1], r[2]).data = Restriction(v, r[1], r[2])
=============================================================================
