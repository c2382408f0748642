---------------------------- MODULE SliceBuilder ----------------------------
(***************************************************************************)
(* The life of one SliceBuilder, or CoordinateSystemSliceBuilder, in the   *)
(* hands of a caller that catches what its calls throw and goes on using   *)
(* the object.                                                             *)
(***************************************************************************)
EXTENDS SliceOps

CONSTANTS
  Shapes,       \* the shapes a variable may have: sequences of dimension names
  Lengths,      \* the lengths a dimension may have
  Args,         \* the start positions and sizes callers pass
  Strangers,    \* dimension names that belong to no shape
  Axes,         \* axes of the coordinate system, in the order of getAxes()
  NoAxis        \* the null CoordinateAxis_cp

VARIABLES
  sb,           \* the builder
  coords,       \* TRUE: it is a CoordinateSystemSliceBuilder for Axes
  result        \* how the last call returned: "ok" or the exception's class

vars == <<sb, coords, result>>

ASSUME ShapesAssumption ==
  /\ \A shape \in Shapes :
        /\ shape \in Seq({shape[i] : i \in DOMAIN shape})
        /\ \A i, j \in DOMAIN shape : shape[i] = shape[j] => i = j
  /\ Args \subseteq SizeT
  /\ Lengths \subseteq SizeT

ASSUME AxesAssumption ==
  /\ DOMAIN Axes \subseteq Nat
  /\ \A k \in DOMAIN Axes :
        /\ Axes[k].explicit \in BOOLEAN
        /\ DOMAIN Axes[k].shape \subseteq Nat
        /\ \A p, q \in DOMAIN Axes[k].shape : Axes[k].shape[p] = Axes[k].shape[q] => p = q

AllNames == UNION {{shape[i] : i \in DOMAIN shape} : shape \in Shapes} \cup Strangers

(* The axes of a coordinate system that is complete for a variable.        *)
AxesOfType(t) == {k \in DOMAIN Axes : Axes[k].type = t}
FirstAxis(t) == Axes[CHOOSE k \in AxesOfType(t) : \A j \in AxesOfType(t) : k <= j]
FitsAxes(shape) ==
  \A k \in DOMAIN Axes :
     LET inShape(d) == \E i \in DOMAIN shape : shape[i] = d
     IN  /\ Axes[k].explicit => inShape(Axes[k].name)
         /\ Axes[k].type = "Time" => \A p \in DOMAIN Axes[k].shape : inShape(Axes[k].shape[p])

-----------------------------------------------------------------------------
(* setStartAndSize(axis, ...): a null axis is ignored, an implicit throws. *)
AxisResult(b, a, s, n) ==
  CASE a = NoAxis -> "ok"
    [] a # NoAxis /\ ~a.explicit -> "CDMException"
    [] OTHER -> SetResult(b, a.name, s, n)
AfterAxis(b, a, s, n) ==
  IF a = NoAxis \/ AxisResult(b, a, s, n) # "ok" THEN b ELSE AfterSet(b, a.name, s, n)

(* setReferenceTimePos: one reference time; an implicit axis is ignored. *)
HasExplicitRefTime == AxesOfType("ReferenceTime") # {} /\ FirstAxis("ReferenceTime").explicit
RefTimeResult(b, p) ==
  IF HasExplicitRefTime THEN AxisResult(b, FirstAxis("ReferenceTime"), p, 1) ELSE "ok"
AfterRefTime(b, p) ==
  IF HasExplicitRefTime THEN AfterAxis(b, FirstAxis("ReferenceTime"), p, 1) ELSE b

(* setTimeStartAndSize: the dimension that stands for time, if there is one. *)
TimeShape == IF AxesOfType("Time") = {} THEN <<>> ELSE FirstAxis("Time").shape
ImplicitTimeDims ==
  {TimeShape[p] : p \in DOMAIN TimeShape}
     \ (IF AxesOfType("ReferenceTime") = {} THEN {} ELSE {FirstAxis("ReferenceTime").name})
TimeDims == IF FirstAxis("Time").explicit THEN {FirstAxis("Time").name} ELSE ImplicitTimeDims
OneTimeDim == \E d \in TimeDims : TimeDims = {d}
TimeDim == CHOOSE d \in TimeDims : TRUE
TimeResult(b, s, n) ==
  CASE AxesOfType("Time") = {} -> "ok"
    [] AxesOfType("Time") # {} /\ ~OneTimeDim -> "CDMException"
    [] OTHER -> SetResult(b, TimeDim, s, n)
AfterTime(b, s, n) ==
  IF AxesOfType("Time") = {} \/ TimeResult(b, s, n) # "ok" THEN b ELSE AfterSet(b, TimeDim, s, n)

(* setAxisStartAndSize of another type: every explicit axis of the type is  *)
(* set in turn, up to the first that throws; those before it stay set.      *)
Rejected(b, t, s, n) ==
  {k \in AxesOfType(t) : Axes[k].explicit /\ SetResult(b, Axes[k].name, s, n) # "ok"}
TypeResult(b, t, s, n) ==
  IF Rejected(b, t, s, n) = {} THEN "ok"
  ELSE SetResult(b, Axes[CHOOSE k \in Rejected(b, t, s, n) :
                            \A j \in Rejected(b, t, s, n) : k <= j].name, s, n)
ReachedNames(b, t, s, n) ==
  {Axes[k].name : k \in {k \in AxesOfType(t) :
       Axes[k].explicit /\ \A j \in Rejected(b, t, s, n) : k < j}}
AfterType(b, t, s, n) ==
  LET hit(i) == b.names[i] \in ReachedNames(b, t, s, n)
  IN  [b EXCEPT !.start = [i \in DOMAIN b.names |-> IF hit(i) THEN s ELSE @[i]],
                !.size  = [i \in DOMAIN b.names |-> IF hit(i) THEN n ELSE @[i]],
                !.set   = @ \cup ReachedNames(b, t, s, n)]

(* getTimeVariableSliceBuilder: the same selection for the time variable.   *)
MutTimeBuilderStart == NewBuilder(TimeShape,    \* a slip: the current sizes as lengths
     [p \in DOMAIN TimeShape |-> sb.size[DimPos(sb, TimeShape[p])]],
     [p \in DOMAIN TimeShape |-> FALSE])
TimeBuilderStart == NewBuilder(TimeShape,
     [p \in DOMAIN TimeShape |-> sb.max[DimPos(sb, TimeShape[p])]],
     [p \in DOMAIN TimeShape |-> FALSE])
TimeBuilderAccepts(p) ==
  LET i == DimPos(sb, TimeShape[p])
  IN  SetResult(TimeBuilderStart, TimeShape[p], sb.start[i], sb.size[i]) = "ok"

-----------------------------------------------------------------------------
Init ==
  \E shape \in Shapes, isCoords \in BOOLEAN :
    \E lengths \in [DOMAIN shape -> Lengths], unlimited \in [DOMAIN shape -> BOOLEAN] :
      LET b == NewBuilder(shape, lengths, unlimited)
      IN  /\ isCoords =>        \* its constructor sets the reference time, or throws
               /\ FitsAxes(shape)
               /\ \A i \in DOMAIN shape : ~unlimited[i]
               /\ RefTimeResult(b, 0) = "ok"
          /\ sb = IF isCoords THEN AfterRefTime(b, 0) ELSE b
          /\ coords = isCoords
          /\ result = "ok"

SetStartAndSize(d, s, n) ==
  /\ sb' = AfterSet(sb, d, s, n)
  /\ result' = SetResult(sb, d, s, n)
  /\ UNCHANGED coords

SetAxisStart(a, s, n) ==
  /\ sb' = AfterAxis(sb, a, s, n)
  /\ result' = AxisResult(sb, a, s, n)
  /\ UNCHANGED coords

SetAll(d) ==
  /\ sb' = AfterSet(sb, d, 0, AllSize(sb, d))
  /\ result' = SetResult(sb, d, 0, AllSize(sb, d))
  /\ UNCHANGED coords

SetAllAxis(a) ==
  LET n == IF a = NoAxis THEN 0 ELSE AllSize(sb, a.name)
  IN  /\ sb' = AfterAxis(sb, a, 0, n)
      /\ result' = AxisResult(sb, a, 0, n)
          /\ UNCHANGED coords

SetReferenceTimePos(p) ==
  /\ coords
  /\ sb' = AfterRefTime(sb, p)
  /\ result' = RefTimeResult(sb, p)
  /\ UNCHANGED coords

SetTimeStartAndSize(s, n) ==
  /\ coords
  /\ sb' = AfterTime(sb, s, n)
  /\ result' = TimeResult(sb, s, n)
  /\ UNCHANGED coords

(* The switch of setAxisStartAndSize sends the two time types elsewhere. *)
SetAxisStartAndSize(t, s, n) ==
  /\ coords
  /\ sb' = CASE t = "ReferenceTime" -> AfterRefTime(sb, s)
             [] t = "Time" -> AfterTime(sb, s, n)
             [] OTHER -> AfterType(sb, t, s, n)
  /\ result' = CASE t = "ReferenceTime" -> RefTimeResult(sb, s)
                 [] t = "Time" -> TimeResult(sb, s, n)
                 [] OTHER -> TypeResult(sb, t, s, n)
  /\ UNCHANGED coords

AxisArgs == {Axes[k] : k \in DOMAIN Axes} \cup {NoAxis}

Next ==
  \/ \E d \in AllNames : SetAll(d)
  \/ \E a \in AxisArgs : SetAllAxis(a)
  \/ \E p \in Args : SetReferenceTimePos(p)
  \/ \E s, n \in Args :
       \/ \E d \in AllNames : SetStartAndSize(d, s, n)
       \/ \E a \in AxisArgs : SetAxisStart(a, s, n)
       \/ SetTimeStartAndSize(s, n)
       \/ \E t \in {Axes[k].type : k \in DOMAIN Axes} : SetAxisStartAndSize(t, s, n)

Spec == Init /\ [][Next]_vars

-----------------------------------------------------------------------------
WellFormed(b) ==
  /\ b = [names |-> b.names, start |-> b.start, size |-> b.size, max |-> b.max,
          unlimited |-> b.unlimited, set |-> b.set]
  /\ b.names \in Shapes
  /\ b.start \in [DOMAIN b.names -> SizeT]
  /\ b.size \in [DOMAIN b.names -> SizeT]
  /\ b.max \in [DOMAIN b.names -> Lengths]
  /\ b.unlimited \in [DOMAIN b.names -> BOOLEAN]
  /\ b.set \subseteq NamesOf(b)

(* The members keep their sizes and types whatever calls succeed or throw. *)
TypeOK ==
  /\ WellFormed(sb)
  /\ coords \in BOOLEAN
  /\ result \in {"ok", "CDMException", "out_of_range"}

(* Arguments whose sum does not wrap in a size_t. *)
NoWrap == \A s, n \in Args : s + n < SizeMod

(* What a reader relies on when it hands start and size to a file library: *)
(* the selection never leaves a dimension that cannot grow, whatever the   *)
(* sequence of calls, those that throw half-way through several axes too.  *)
SelectionInside == Inside(sb)

(* getUnsetDimensionNames() names exactly dimensions still selected in     *)
(* full: fiXYcontents loops over them as the ones left to choose.          *)
UnsetFull(b) ==
  \A i \in DOMAIN b.names :
     b.names[i] \in UnsetNames(b) => b.start[i] = 0 /\ b.size[i] = b.max[i]
UnsetIsFull == UnsetFull(sb)

(* getTimeVariableSliceBuilder() never throws and selects, in the shape of *)
(* the time variable, the positions selected for the data.                 *)
TimeSliceFollows ==
  coords => \A p \in DOMAIN TimeShape : TimeBuilderAccepts(p)

-----------------------------------------------------------------------------
(* A small instance, for model checking: a variable on x, a reference time *)
(* and an offset from it, the time axis being two-dimensional and implicit.*)
SmallShapes == {<<"x", "offset", "refTime">>}
SmallAxes == <<[name |-> "x", type |-> "GeoX", explicit |-> TRUE, shape |-> <<"x">>],
               [name |-> "offset", type |-> "GeoX", explicit |-> TRUE, shape |-> <<"offset">>],
               [name |-> "longitude", type |-> "Lon", explicit |-> FALSE, shape |-> <<"x">>],
               [name |-> "time", type |-> "Time", explicit |-> FALSE, shape |-> <<"offset", "refTime">>],
               [name |-> "refTime", type |-> "ReferenceTime", explicit |-> TRUE, shape |-> <<"refTime">>]>>
SmallArgs == 0 .. 2
=============================================================================
