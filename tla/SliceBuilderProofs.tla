------------------------- MODULE SliceBuilderProofs -------------------------
(***************************************************************************)
(* For every shape, length and width of size_t: the builder stays well     *)
(* formed, its selection stays inside the dimensions as long as start+size *)
(* does not wrap, the unset dimensions are selected in full, and the slice *)
(* of the time variable can always be taken along with that of the data.   *)
(***************************************************************************)
EXTENDS SliceBuilder, WellFoundedInduction, TLAPS

(* The position a name maps to is one that carries the name. *)
LEMMA DimPosCarries ==
  ASSUME NEW b, WellFormed(b), NEW d \in NamesOf(b)
  PROVE  /\ DimPos(b, d) \in DOMAIN b.names
         /\ b.names[DimPos(b, d)] = d
<1>1. PICK i \in DOMAIN b.names : b.names[i] = d
  BY DEF NamesOf
<1>2. \A j \in DOMAIN b.names : b.names[j] = d => j <= i
  <2>1. \A j \in DOMAIN b.names : b.names[j] = d => j = i
    BY <1>1, ShapesAssumption DEF WellFormed
  <2>2. i \in Nat
    <3>1. b.names \in Seq({b.names[k] : k \in DOMAIN b.names})
      BY ShapesAssumption DEF WellFormed
    <3> QED
      BY <1>1, <3>1
  <2> QED
    BY <2>1, <2>2
<1> QED
  BY <1>1, <1>2 DEF DimPos

(* No two positions carry the same name. *)
LEMMA DimPosUnique ==
  ASSUME NEW b, WellFormed(b), NEW i \in DOMAIN b.names
  PROVE  DimPos(b, b.names[i]) = i
<1>1. b.names[i] \in NamesOf(b)
  BY DEF NamesOf
<1>2. /\ DimPos(b, b.names[i]) \in DOMAIN b.names
      /\ b.names[DimPos(b, b.names[i])] = b.names[i]
  BY <1>1, DimPosCarries
<1>3. \A k, j \in DOMAIN b.names : b.names[k] = b.names[j] => k = j
  BY ShapesAssumption DEF WellFormed
<1> QED
  BY <1>2, <1>3

(* setStartAndSize keeps the builder well formed and its unset dimensions full. *)
LEMMA AfterSetKeeps ==
  ASSUME NEW b, WellFormed(b), NEW d, NEW s \in SizeT, NEW n \in SizeT
  PROVE  /\ WellFormed(AfterSet(b, d, s, n))
         /\ UnsetFull(b) => UnsetFull(AfterSet(b, d, s, n))
         /\ SetResult(b, d, s, n) \in {"ok", "CDMException", "out_of_range"}
<1>1. SetResult(b, d, s, n) \in {"ok", "CDMException", "out_of_range"}
  BY DEF SetResult
<1>2. CASE SetResult(b, d, s, n) # "ok"
  BY <1>1, <1>2 DEF AfterSet
<1>3. CASE SetResult(b, d, s, n) = "ok"
  <2> DEFINE p == DimPos(b, d)
             c == AfterSet(b, d, s, n)
  <2>1. d \in NamesOf(b)
    BY <1>3 DEF SetResult
  <2>2. p \in DOMAIN b.names /\ b.names[p] = d
    BY <2>1, DimPosCarries
  <2>3. c = [b EXCEPT !.start = [@ EXCEPT ![p] = s],
                      !.size = [@ EXCEPT ![p] = n],
                      !.set = @ \cup {d}]
    BY <1>3 DEF AfterSet
  <2>4. c = [names |-> b.names, start |-> [b.start EXCEPT ![p] = s],
             size |-> [b.size EXCEPT ![p] = n], max |-> b.max,
             unlimited |-> b.unlimited, set |-> b.set \cup {d}]
    BY <2>3 DEF WellFormed
  <2> HIDE DEF c, p
  <2>5. NamesOf(c) = NamesOf(b)
    BY <2>4 DEF NamesOf
  <2>6. WellFormed(c)
    BY <2>1, <2>2, <2>4, <2>5 DEF WellFormed
  <2>7. ASSUME UnsetFull(b), NEW i \in DOMAIN c.names, c.names[i] \in UnsetNames(c)
        PROVE  c.start[i] = 0 /\ c.size[i] = c.max[i]
    <3>1. i \in DOMAIN b.names /\ i # p /\ b.names[i] \in UnsetNames(b)
      BY <2>2, <2>4, <2>5, <2>7 DEF UnsetNames
    <3> QED
      BY <2>4, <2>7, <3>1 DEF UnsetFull, WellFormed
  <2>8. UnsetFull(b) => UnsetFull(c)
    BY <2>7 DEF UnsetFull
  <2> QED
    BY <1>1, <2>6, <2>8 DEF c
<1> QED
  BY <1>2, <1>3

(* A call that is accepted selects inside the dimension, if the sum of its  *)
(* arguments is what the code computes.                                     *)
LEMMA AfterSetInside ==
  ASSUME NEW b, WellFormed(b), Inside(b), NEW d,
         NEW s \in SizeT, NEW n \in SizeT, s + n < SizeMod
  PROVE  Inside(AfterSet(b, d, s, n))
<1>1. CASE SetResult(b, d, s, n) # "ok"
  BY <1>1 DEF AfterSet
<1>2. CASE SetResult(b, d, s, n) = "ok"
  <2> DEFINE p == DimPos(b, d)
             c == AfterSet(b, d, s, n)
  <2>1. d \in NamesOf(b)
    BY <1>2 DEF SetResult
  <2>2. p \in DOMAIN b.names /\ b.names[p] = d
    BY <2>1, DimPosCarries
  <2>3. ~b.unlimited[p] => ~(b.max[p] < (s + n) % SizeMod)
    BY <1>2, <2>1 DEF SetResult
  <2>4. (s + n) % SizeMod = s + n
    BY SizeModAssumption DEF SizeT
  <2>5. b.max[p] \in Nat
    BY <2>2, ShapesAssumption DEF WellFormed, SizeT
  <2>6. ~b.unlimited[p] => s + n <= b.max[p]
    BY <2>3, <2>4, <2>5, SizeModAssumption DEF SizeT
  <2>7. c = [b EXCEPT !.start = [@ EXCEPT ![p] = s],
                      !.size = [@ EXCEPT ![p] = n],
                      !.set = @ \cup {d}]
    BY <1>2 DEF AfterSet
  <2>8. c = [names |-> b.names, start |-> [b.start EXCEPT ![p] = s],
             size |-> [b.size EXCEPT ![p] = n], max |-> b.max,
             unlimited |-> b.unlimited, set |-> b.set \cup {d}]
    BY <2>7 DEF WellFormed
  <2> HIDE DEF c, p
  <2>9. ASSUME NEW i \in DOMAIN c.names, ~c.unlimited[i]
        PROVE  c.start[i] + c.size[i] <= c.max[i]
    <3>1. CASE i = p
      BY <2>2, <2>6, <2>8, <2>9, <3>1 DEF WellFormed
    <3>2. CASE i # p
      BY <2>2, <2>8, <2>9, <3>2 DEF WellFormed, Inside
    <3> QED
      BY <3>1, <3>2
  <2> QED
    BY <2>9 DEF c, Inside
<1> QED
  BY <1>1, <1>2

(* The names setAxisStartAndSize reaches are dimensions it is accepted for. *)
LEMMA ReachedAccepted ==
  ASSUME NEW b, NEW t, NEW s \in SizeT, NEW n \in SizeT, NEW d \in ReachedNames(b, t, s, n)
  PROVE  /\ SetResult(b, d, s, n) = "ok"
         /\ d \in NamesOf(b)
<1>1. PICK k \in AxesOfType(t) :
         /\ Axes[k].name = d
         /\ Axes[k].explicit
         /\ \A j \in Rejected(b, t, s, n) : k < j
  BY DEF ReachedNames
<1>2. k \notin Rejected(b, t, s, n)
  BY <1>1, AxesAssumption DEF AxesOfType
<1>3. SetResult(b, d, s, n) = "ok"
  BY <1>1, <1>2 DEF Rejected
<1> QED
  BY <1>3 DEF SetResult

(* Setting the axes of a type one after the other keeps the builder in      *)
(* order, also when one of them throws.                                     *)
LEMMA AfterTypeKeeps ==
  ASSUME NEW b, WellFormed(b), NEW t, NEW s \in SizeT, NEW n \in SizeT
  PROVE  /\ WellFormed(AfterType(b, t, s, n))
         /\ UnsetFull(b) => UnsetFull(AfterType(b, t, s, n))
         /\ Inside(b) /\ s + n < SizeMod => Inside(AfterType(b, t, s, n))
<1> DEFINE R == ReachedNames(b, t, s, n)
           c == AfterType(b, t, s, n)
<1>1. c = [names |-> b.names,
           start |-> [i \in DOMAIN b.names |-> IF b.names[i] \in R THEN s ELSE b.start[i]],
           size |-> [i \in DOMAIN b.names |-> IF b.names[i] \in R THEN n ELSE b.size[i]],
           max |-> b.max, unlimited |-> b.unlimited, set |-> b.set \cup R]
  <2> DEFINE S == [i \in DOMAIN b.names |-> IF b.names[i] \in R THEN s ELSE b.start[i]]
             N == [i \in DOMAIN b.names |-> IF b.names[i] \in R THEN n ELSE b.size[i]]
  <2>1. c = [b EXCEPT !.start = S, !.size = N, !.set = b.set \cup R]
    BY DEF AfterType, WellFormed
  <2> HIDE DEF c, R, S, N
  <2>2. c = [names |-> b.names, start |-> S, size |-> N,
             max |-> b.max, unlimited |-> b.unlimited, set |-> b.set \cup R]
    BY <2>1 DEF WellFormed
  <2> QED
    BY <2>2 DEF S, N
<1>2. \A d \in R : SetResult(b, d, s, n) = "ok" /\ d \in NamesOf(b)
  BY ReachedAccepted
<1> HIDE DEF c, R
<1>3. NamesOf(c) = NamesOf(b)
  BY <1>1 DEF NamesOf
<1>4. WellFormed(c)
  BY <1>1, <1>2, <1>3 DEF WellFormed
<1>5. ASSUME UnsetFull(b) PROVE UnsetFull(c)
  <2>1. ASSUME NEW i \in DOMAIN c.names, c.names[i] \in UnsetNames(c)
        PROVE  c.start[i] = 0 /\ c.size[i] = c.max[i]
    <3>1. i \in DOMAIN b.names /\ b.names[i] \notin R /\ b.names[i] \in UnsetNames(b)
      BY <1>1, <1>3, <2>1 DEF UnsetNames
    <3> QED
      BY <1>1, <1>5, <3>1 DEF UnsetFull
  <2> QED
    BY <2>1 DEF UnsetFull
<1>6. ASSUME Inside(b), s + n < SizeMod PROVE Inside(c)
  <2>1. ASSUME NEW i \in DOMAIN c.names, ~c.unlimited[i]
        PROVE  c.start[i] + c.size[i] <= c.max[i]
    <3>1. CASE b.names[i] \in R
      <4>1. DimPos(b, b.names[i]) = i
        BY <1>1, <2>1, DimPosUnique
      <4>2. ~(b.max[i] < (s + n) % SizeMod)
        BY <1>1, <1>2, <2>1, <3>1, <4>1 DEF SetResult
      <4>3. (s + n) % SizeMod = s + n
        BY <1>6, SizeModAssumption DEF SizeT
      <4>4. b.max[i] \in Nat
        BY <1>1, <2>1, ShapesAssumption DEF WellFormed, SizeT
      <4>5. s + n <= b.max[i]
        BY <4>2, <4>3, <4>4 DEF SizeT
      <4> QED
        BY <1>1, <2>1, <3>1, <4>5
    <3>2. CASE b.names[i] \notin R
      BY <1>1, <1>6, <2>1, <3>2 DEF Inside
    <3> QED
      BY <3>1, <3>2
  <2> QED
    BY <2>1 DEF Inside
<1> QED
  BY <1>4, <1>5, <1>6 DEF c

-----------------------------------------------------------------------------
(* What setStartAndSize has checked of a selection, in arithmetic that      *)
(* wraps: the time builder checks it once more.                             *)
Fitted(b) ==
  \A i \in DOMAIN b.names :
     ~b.unlimited[i] => ~(b.max[i] < (b.start[i] + b.size[i]) % SizeMod)
SameDims(b, c) == c.names = b.names /\ c.unlimited = b.unlimited /\ c.max = b.max

LEMMA AfterSetFits ==
  ASSUME NEW b, WellFormed(b), NEW d, NEW s \in SizeT, NEW n \in SizeT
  PROVE  /\ SameDims(b, AfterSet(b, d, s, n))
         /\ Fitted(b) => Fitted(AfterSet(b, d, s, n))
<1>1. CASE SetResult(b, d, s, n) # "ok"
  BY <1>1 DEF AfterSet, SameDims
<1>2. CASE SetResult(b, d, s, n) = "ok"
  <2> DEFINE p == DimPos(b, d)
             c == AfterSet(b, d, s, n)
  <2>1. d \in NamesOf(b)
    BY <1>2 DEF SetResult
  <2>2. p \in DOMAIN b.names /\ b.names[p] = d
    BY <2>1, DimPosCarries
  <2>3. ~b.unlimited[p] => ~(b.max[p] < (s + n) % SizeMod)
    BY <1>2, <2>1 DEF SetResult
  <2>4. c = [names |-> b.names, start |-> [b.start EXCEPT ![p] = s],
             size |-> [b.size EXCEPT ![p] = n], max |-> b.max,
             unlimited |-> b.unlimited, set |-> b.set \cup {d}]
    BY <1>2 DEF AfterSet, WellFormed
  <2> HIDE DEF c, p
  <2>5. SameDims(b, c)
    BY <2>4 DEF SameDims
  <2>6. ASSUME Fitted(b), NEW i \in DOMAIN c.names, ~c.unlimited[i]
        PROVE  ~(c.max[i] < (c.start[i] + c.size[i]) % SizeMod)
    <3>1. CASE i = p
      <4>1. c.start[i] = s /\ c.size[i] = n /\ c.max[i] = b.max[p]
        BY <2>2, <2>4, <3>1 DEF WellFormed
      <4> QED
        BY <2>3, <2>4, <2>6, <3>1, <4>1
    <3>2. CASE i # p
      <4>1. c.start[i] = b.start[i] /\ c.size[i] = b.size[i] /\ c.max[i] = b.max[i]
        BY <2>4, <2>6, <3>2 DEF WellFormed
      <4> QED
        BY <2>4, <2>6, <4>1 DEF Fitted
    <3> QED
      BY <3>1, <3>2
  <2> QED
    BY <2>5, <2>6 DEF c, Fitted
<1> QED
  BY <1>1, <1>2

LEMMA AfterTypeFits ==
  ASSUME NEW b, WellFormed(b), NEW t, NEW s \in SizeT, NEW n \in SizeT
  PROVE  /\ SameDims(b, AfterType(b, t, s, n))
         /\ Fitted(b) => Fitted(AfterType(b, t, s, n))
<1> DEFINE R == ReachedNames(b, t, s, n)
           c == AfterType(b, t, s, n)
<1>1. c = AfterType(b, t, s, n) /\ DOMAIN b.names = DOMAIN b.start /\ DOMAIN b.names = DOMAIN b.size
  BY DEF WellFormed
<1>2. /\ c.names = b.names /\ c.max = b.max /\ c.unlimited = b.unlimited
      /\ c.start = [i \in DOMAIN b.names |-> IF b.names[i] \in R THEN s ELSE b.start[i]]
      /\ c.size = [i \in DOMAIN b.names |-> IF b.names[i] \in R THEN n ELSE b.size[i]]
  BY DEF AfterType, WellFormed
<1>3. \A d \in R : SetResult(b, d, s, n) = "ok" /\ d \in NamesOf(b)
  BY ReachedAccepted
<1> HIDE DEF c, R
<1>4. SameDims(b, c)
  BY <1>2 DEF SameDims
<1>5. ASSUME Fitted(b), NEW i \in DOMAIN c.names, ~c.unlimited[i]
      PROVE  ~(c.max[i] < (c.start[i] + c.size[i]) % SizeMod)
  <2>1. CASE b.names[i] \in R
    <3>1. DimPos(b, b.names[i]) = i
      BY <1>2, <1>5, DimPosUnique
    <3>2. ~(b.max[i] < (s + n) % SizeMod)
      BY <1>2, <1>3, <1>5, <2>1, <3>1 DEF SetResult
    <3>3. c.start[i] = s /\ c.size[i] = n /\ c.max[i] = b.max[i]
      BY <1>2, <1>5, <2>1
    <3> QED
      BY <3>2, <3>3
  <2>2. CASE b.names[i] \notin R
    <3>1. c.start[i] = b.start[i] /\ c.size[i] = b.size[i] /\ c.max[i] = b.max[i]
      BY <1>2, <1>5, <2>2
    <3> QED
      BY <1>2, <1>5, <3>1 DEF Fitted
  <2> QED
    BY <2>1, <2>2
<1> QED
  BY <1>4, <1>5 DEF c, Fitted

-----------------------------------------------------------------------------
(* What every call does to the builder, put together. *)
Reached(b, c) ==
  /\ WellFormed(c)
  /\ UnsetFull(b) => UnsetFull(c)
  /\ NoWrap /\ Inside(b) => Inside(c)
  /\ SameDims(b, c)
  /\ Fitted(b) => Fitted(c)

LEMMA ReachesItself ==
  ASSUME NEW b, WellFormed(b) PROVE Reached(b, b)
  BY DEF Reached, SameDims

Results == {"ok", "CDMException", "out_of_range"}

LEMMA SetReaches ==
  ASSUME NEW b, WellFormed(b), NEW d, NEW s \in Args, NEW n \in Args
  PROVE  Reached(b, AfterSet(b, d, s, n)) /\ SetResult(b, d, s, n) \in Results
<1>1. s \in SizeT /\ n \in SizeT
  BY ShapesAssumption
<1>2. NoWrap => s + n < SizeMod
  BY DEF NoWrap
<1> QED
  BY <1>1, <1>2, AfterSetKeeps, AfterSetInside, AfterSetFits DEF Reached, Results

LEMMA SetAllReaches ==
  ASSUME NEW b, WellFormed(b), NEW d
  PROVE  /\ Reached(b, AfterSet(b, d, 0, AllSize(b, d)))
         /\ SetResult(b, d, 0, AllSize(b, d)) \in Results
<1> DEFINE n == AllSize(b, d)
<1>1. n \in SizeT
  <2>1. CASE d \in NamesOf(b)
    <3>1. n = b.max[DimPos(b, d)]
      BY <2>1 DEF AllSize
    <3>2. DimPos(b, d) \in DOMAIN b.names
      BY <2>1, DimPosCarries
    <3> QED
      BY <3>1, <3>2, ShapesAssumption DEF WellFormed
  <2>2. CASE d \notin NamesOf(b)
    BY <2>2, SizeModAssumption DEF AllSize, SizeT
  <2> QED
    BY <2>1, <2>2
<1>2. 0 \in SizeT /\ 0 + n < SizeMod
  BY <1>1, SizeModAssumption DEF SizeT
<1> HIDE DEF n
<1>3. Reached(b, AfterSet(b, d, 0, n)) /\ SetResult(b, d, 0, n) \in Results
  BY <1>1, <1>2, AfterSetKeeps, AfterSetInside, AfterSetFits DEF Reached, Results
<1> QED
  BY <1>3 DEF n

LEMMA AxisReaches ==
  ASSUME NEW b, WellFormed(b), NEW a, NEW s, NEW n,
         \A d : Reached(b, AfterSet(b, d, s, n)) /\ SetResult(b, d, s, n) \in Results
  PROVE  Reached(b, AfterAxis(b, a, s, n)) /\ AxisResult(b, a, s, n) \in Results
<1>1. Reached(b, b)
  BY ReachesItself
<1>2. AxisResult(b, a, s, n) \in Results
  BY DEF AxisResult, Results
<1> QED
  BY <1>1, <1>2 DEF AfterAxis

LEMMA RefTimeReaches ==
  ASSUME NEW b, WellFormed(b), NEW p \in Args \cup {0}
  PROVE  Reached(b, AfterRefTime(b, p)) /\ RefTimeResult(b, p) \in Results
<1>1. p \in SizeT /\ 1 \in SizeT
  BY ShapesAssumption, SizeModAssumption DEF SizeT
<1>2. NoWrap => p + 1 < SizeMod
  <2>1. CASE p = 0
    BY <2>1, SizeModAssumption
  <2>2. CASE p \in Args
    BY <1>1, <2>2, SizeModAssumption DEF NoWrap, SizeT
  <2> QED
    BY <2>1, <2>2
<1>3. \A d : Reached(b, AfterSet(b, d, p, 1)) /\ SetResult(b, d, p, 1) \in Results
  BY <1>1, <1>2, AfterSetKeeps, AfterSetInside, AfterSetFits DEF Reached, Results
<1>4. Reached(b, b)
  BY ReachesItself
<1> DEFINE a == FirstAxis("ReferenceTime")
<1> HIDE DEF a
<1>5. Reached(b, AfterAxis(b, a, p, 1)) /\ AxisResult(b, a, p, 1) \in Results
  BY <1>3, AxisReaches
<1> QED
  BY <1>4, <1>5 DEF AfterRefTime, RefTimeResult, Results, a

LEMMA TimeReaches ==
  ASSUME NEW b, WellFormed(b), NEW s \in Args, NEW n \in Args
  PROVE  Reached(b, AfterTime(b, s, n)) /\ TimeResult(b, s, n) \in Results
<1>1. Reached(b, AfterSet(b, TimeDim, s, n)) /\ SetResult(b, TimeDim, s, n) \in Results
  BY SetReaches
<1>2. Reached(b, b)
  BY ReachesItself
<1>3. TimeResult(b, s, n) \in Results
  BY <1>1 DEF TimeResult, Results
<1> QED
  BY <1>1, <1>2, <1>3 DEF AfterTime

LEMMA TypeReaches ==
  ASSUME NEW b, WellFormed(b), NEW t, NEW s \in Args, NEW n \in Args
  PROVE  Reached(b, AfterType(b, t, s, n)) /\ TypeResult(b, t, s, n) \in Results
<1>1. s \in SizeT /\ n \in SizeT
  BY ShapesAssumption
<1>2. NoWrap => s + n < SizeMod
  BY DEF NoWrap
<1>3. Reached(b, AfterType(b, t, s, n))
  BY <1>1, <1>2, AfterTypeKeeps, AfterTypeFits DEF Reached
<1>4. \A d : SetResult(b, d, s, n) \in Results
  BY SetReaches
<1> QED
  BY <1>3, <1>4 DEF TypeResult, Results

-----------------------------------------------------------------------------
(* A new builder selects everything. *)
LEMMA NewBuilderKeeps ==
  ASSUME NEW shape \in Shapes, NEW lengths \in [DOMAIN shape -> Lengths],
         NEW unlimited \in [DOMAIN shape -> BOOLEAN]
  PROVE  LET b == NewBuilder(shape, lengths, unlimited)
         IN  WellFormed(b) /\ UnsetFull(b) /\ Inside(b) /\ Fitted(b)
             /\ b.names = shape /\ b.unlimited = unlimited
<1> DEFINE b == NewBuilder(shape, lengths, unlimited)
           zero == [i \in DOMAIN shape |-> 0]
<1>0. b = [names |-> shape, start |-> zero, size |-> lengths,
           max |-> lengths, unlimited |-> unlimited, set |-> {}]
  BY DEF NewBuilder
<1>1. zero \in [DOMAIN shape -> SizeT] /\ lengths \in [DOMAIN shape -> SizeT]
  <2>1. 0 \in SizeT
    BY SizeModAssumption DEF SizeT
  <2>2. zero \in [DOMAIN shape -> SizeT]
    BY <2>1
  <2>3. Lengths \subseteq SizeT
    BY ShapesAssumption
  <2>4. lengths \in [DOMAIN shape -> SizeT]
    BY <2>3
  <2> QED
    BY <2>2, <2>4
<1>2. \A i \in DOMAIN shape : zero[i] = 0
  OBVIOUS
<1> HIDE DEF b, zero
<1>3. WellFormed(b)
  BY <1>0, <1>1 DEF WellFormed
<1>4. UnsetFull(b)
  BY <1>0, <1>2 DEF UnsetFull
<1>5. Inside(b)
  BY <1>0, <1>1, <1>2 DEF Inside, SizeT
<1>6. \A i \in DOMAIN shape : (zero[i] + lengths[i]) % SizeMod = lengths[i]
  BY <1>1, <1>2, SizeModAssumption DEF SizeT
<1>7. Fitted(b)
  BY <1>0, <1>1, <1>6 DEF Fitted, SizeT
<1> QED
  BY <1>0, <1>3, <1>4, <1>5, <1>7 DEF b

(* The builder of a coordinate system is made for a variable the system is  *)
(* complete for, and none of its dimensions can grow.                       *)
ForItsSystem(b) == FitsAxes(b.names) /\ \A i \in DOMAIN b.names : ~b.unlimited[i]

IInv ==
  /\ TypeOK /\ UnsetIsFull /\ (NoWrap => SelectionInside)
  /\ Fitted(sb)
  /\ coords => ForItsSystem(sb)

LEMMA InitIInv == Init => IInv
<1> SUFFICES ASSUME NEW shape \in Shapes, NEW isCoords \in BOOLEAN,
                    NEW lengths \in [DOMAIN shape -> Lengths],
                    NEW unlimited \in [DOMAIN shape -> BOOLEAN],
                    LET b == NewBuilder(shape, lengths, unlimited)
                    IN  sb = IF isCoords THEN AfterRefTime(b, 0) ELSE b,
                    isCoords => FitsAxes(shape) /\ \A i \in DOMAIN shape : ~unlimited[i],
                    coords = isCoords, result = "ok"
             PROVE  IInv
  BY DEF Init
<1> DEFINE b == NewBuilder(shape, lengths, unlimited)
<1>1. /\ WellFormed(b) /\ UnsetFull(b) /\ Inside(b) /\ Fitted(b)
      /\ b.names = shape /\ b.unlimited = unlimited
  BY NewBuilderKeeps
<1> HIDE DEF b
<1>2. Reached(b, AfterRefTime(b, 0))
  BY <1>1, RefTimeReaches
<1>3. sb = b \/ sb = AfterRefTime(b, 0)
  BY DEF b
<1>4. /\ WellFormed(sb) /\ UnsetFull(sb) /\ (NoWrap => Inside(sb)) /\ Fitted(sb)
      /\ sb.names = shape /\ sb.unlimited = unlimited
  BY <1>1, <1>2, <1>3 DEF Reached, SameDims
<1> QED
  BY <1>4 DEF ForItsSystem, IInv, TypeOK, UnsetIsFull, SelectionInside

(* A step that replaces the builder by one it reaches keeps the invariant. *)
LEMMA ReachedKeepsIInv ==
  ASSUME IInv, Reached(sb, sb'), result' \in Results, coords' = coords
  PROVE  IInv'
<1>1. TypeOK' /\ UnsetIsFull' /\ (NoWrap => SelectionInside)' /\ Fitted(sb')
  BY DEF IInv, TypeOK, UnsetIsFull, SelectionInside, Reached, Results, NoWrap
<1>2. coords' => ForItsSystem(sb')
  BY DEF IInv, ForItsSystem, Reached, SameDims
<1>3. Fitted(sb)' /\ (coords => ForItsSystem(sb))'
  BY <1>1, <1>2 DEF Fitted, ForItsSystem, FitsAxes
<1> QED
  BY <1>1, <1>3 DEF IInv

LEMMA NextIInv == IInv /\ [Next]_vars => IInv'
<1> SUFFICES ASSUME IInv, [Next]_vars PROVE IInv'
  OBVIOUS
<1>0. WellFormed(sb)
  BY DEF IInv, TypeOK
<1>1. ASSUME NEW d, SetAll(d) PROVE IInv'
  BY <1>0, <1>1, SetAllReaches, ReachedKeepsIInv DEF SetAll
<1>2. ASSUME NEW a, SetAllAxis(a) PROVE IInv'
  <2>1. CASE a = NoAxis
    <3>1. sb' = sb /\ coords' = coords /\ result' \in Results
      BY <1>2, <2>1 DEF SetAllAxis, AfterAxis, AxisResult, Results
    <3> QED
      BY <1>0, <3>1, ReachesItself, ReachedKeepsIInv
  <2>2. CASE a # NoAxis
    <3> DEFINE n == AllSize(sb, a.name)
    <3>1. /\ Reached(sb, AfterSet(sb, a.name, 0, n))
          /\ SetResult(sb, a.name, 0, n) \in Results
      BY <1>0, SetAllReaches
    <3>2. Reached(sb, AfterAxis(sb, a, 0, n)) /\ AxisResult(sb, a, 0, n) \in Results
      BY <1>0, <2>2, <3>1, ReachesItself DEF AfterAxis, AxisResult, Results
    <3>3. sb' = AfterAxis(sb, a, 0, n) /\ result' = AxisResult(sb, a, 0, n) /\ coords' = coords
      BY <1>2, <2>2 DEF SetAllAxis
    <3> QED
      BY <3>2, <3>3, ReachedKeepsIInv
  <2> QED
    BY <2>1, <2>2
<1>3. ASSUME NEW p \in Args, SetReferenceTimePos(p) PROVE IInv'
  BY <1>0, <1>3, RefTimeReaches, ReachedKeepsIInv DEF SetReferenceTimePos
<1>4. ASSUME NEW s \in Args, NEW n \in Args, NEW d, SetStartAndSize(d, s, n) PROVE IInv'
  BY <1>0, <1>4, SetReaches, ReachedKeepsIInv DEF SetStartAndSize
<1>5. ASSUME NEW s \in Args, NEW n \in Args, NEW a, SetAxisStart(a, s, n) PROVE IInv'
  <2>1. Reached(sb, AfterAxis(sb, a, s, n)) /\ AxisResult(sb, a, s, n) \in Results
    BY <1>0, SetReaches, AxisReaches
  <2> QED
    BY <1>5, <2>1, ReachedKeepsIInv DEF SetAxisStart
<1>6. ASSUME NEW s \in Args, NEW n \in Args, SetTimeStartAndSize(s, n) PROVE IInv'
  BY <1>0, <1>6, TimeReaches, ReachedKeepsIInv DEF SetTimeStartAndSize
<1>7. ASSUME NEW s \in Args, NEW n \in Args, NEW t, SetAxisStartAndSize(t, s, n) PROVE IInv'
  <2>1. Reached(sb, AfterRefTime(sb, s)) /\ RefTimeResult(sb, s) \in Results
    BY <1>0, RefTimeReaches
  <2>2. Reached(sb, AfterTime(sb, s, n)) /\ TimeResult(sb, s, n) \in Results
    BY <1>0, TimeReaches
  <2>3. Reached(sb, AfterType(sb, t, s, n)) /\ TypeResult(sb, t, s, n) \in Results
    BY <1>0, TypeReaches
  <2>4. Reached(sb, sb') /\ result' \in Results /\ coords' = coords
    BY <1>7, <2>1, <2>2, <2>3 DEF SetAxisStartAndSize
  <2> QED
    BY <2>4, ReachedKeepsIInv
<1>8. CASE UNCHANGED vars
  <2>1. sb' = sb /\ coords' = coords /\ result' \in Results
    BY <1>8 DEF vars, IInv, TypeOK, Results
  <2> QED
    BY <1>0, <2>1, ReachesItself, ReachedKeepsIInv
<1> QED
  BY <1>1, <1>2, <1>3, <1>4, <1>5, <1>6, <1>7, <1>8 DEF Next

(* Type correctness of the builder, whatever its callers do. *)
THEOREM TypeCorrect == Spec => []TypeOK
<1>1. IInv => TypeOK
  BY DEF IInv
<1> QED
  BY <1>1, InitIInv, NextIInv, PTL DEF Spec

(* The dimensions getUnsetDimensionNames() returns are selected in full. *)
THEOREM UnsetStaysFull == Spec => []UnsetIsFull
<1>1. IInv => UnsetIsFull
  BY DEF IInv
<1> QED
  BY <1>1, InitIInv, NextIInv, PTL DEF Spec

(* The selection stays inside the dimensions, for every width of size_t and *)
(* all arguments whose sums do not wrap.                                    *)
THEOREM SelectionStaysInside == ASSUME NoWrap PROVE Spec => []SelectionInside
<1>1. IInv => SelectionInside
  BY DEF IInv
<1> QED
  BY <1>1, InitIInv, NextIInv, PTL DEF Spec

-----------------------------------------------------------------------------
LEMMA LeastNatural ==
  ASSUME NEW S, S \subseteq Nat, S # {}
  PROVE  \E m \in S : \A n \in S : m <= n
<1>1. IsWellFoundedOn(OpToRel(<, Nat), Nat)
  BY NatLessThanWellFounded
<1>2. PICK m \in S : \A n \in S : ~ (<<n, m>> \in OpToRel(<, Nat))
  BY <1>1, WFMin
<1>3. \A n \in S : ~ (n < m)
  BY <1>2 DEF OpToRel
<1> QED
  BY <1>3

\* The first axis of a type, in the order of getAxes().
LEMMA FirstAxisIsOne ==
  ASSUME NEW type, AxesOfType(type) # {}
  PROVE  \E k \in DOMAIN Axes : FirstAxis(type) = Axes[k] /\ Axes[k].type = type
<1> DEFINE S == AxesOfType(type)
<1>1. S \subseteq Nat
  BY AxesAssumption DEF AxesOfType
<1>2. PICK m \in S : \A n \in S : m <= n
  BY <1>1, LeastNatural
<1>3. (CHOOSE k \in S : \A j \in S : k <= j) \in S
  BY <1>2
<1> QED
  BY <1>3 DEF FirstAxis, AxesOfType

\* The builder of the time variable accepts what was accepted for the data.
LEMMA TimeSliceAccepted ==
  ASSUME WellFormed(sb), Fitted(sb), ForItsSystem(sb), NEW p \in DOMAIN TimeShape
  PROVE  TimeBuilderAccepts(p)
<1> DEFINE d == TimeShape[p]
           i == DimPos(sb, d)
           b == TimeBuilderStart
           q == DimPos(b, d)
<1>1. AxesOfType("Time") # {} /\ TimeShape = FirstAxis("Time").shape
  BY DEF TimeShape
<1>2. PICK k \in DOMAIN Axes : FirstAxis("Time") = Axes[k] /\ Axes[k].type = "Time"
  BY <1>1, FirstAxisIsOne
<1>3. TimeShape = Axes[k].shape
  BY <1>1, <1>2
<1>4. d \in NamesOf(sb)
  BY <1>2, <1>3 DEF ForItsSystem, FitsAxes, NamesOf
<1>5. i \in DOMAIN sb.names /\ sb.names[i] = d
  BY <1>4, DimPosCarries
<1>6. ~(sb.max[i] < (sb.start[i] + sb.size[i]) % SizeMod)
  BY <1>5 DEF Fitted, ForItsSystem
<1>7. /\ b.names = TimeShape
      /\ b.max = [r \in DOMAIN TimeShape |-> sb.max[DimPos(sb, TimeShape[r])]]
      /\ b.unlimited = [r \in DOMAIN TimeShape |-> FALSE]
  BY DEF TimeBuilderStart, NewBuilder
<1>8. \A r \in DOMAIN TimeShape : TimeShape[r] = d => r <= p
  BY <1>2, <1>3, AxesAssumption
<1>9. q \in DOMAIN TimeShape /\ TimeShape[q] = d
  BY <1>7, <1>8 DEF DimPos
<1>10. b.max[q] = sb.max[i]
  BY <1>7, <1>9
<1>11. d \in NamesOf(b)
  BY <1>7 DEF NamesOf
<1> HIDE DEF d, i, b, q
<1>12. SetResult(b, d, sb.start[i], sb.size[i]) = "ok"
  BY <1>6, <1>10, <1>11 DEF SetResult, q
<1> QED
  BY <1>12 DEF TimeBuilderAccepts, d, i, b

(* getTimeVariableSliceBuilder() never throws, whatever calls were made,     *)
(* whichever threw, and whatever wrapped: the time variable can be read for  *)
(* the same selection as the data.                                           *)
THEOREM TimeSliceAlwaysFollows == Spec => []TimeSliceFollows
<1>1. IInv => TimeSliceFollows
  BY TimeSliceAccepted DEF IInv, TypeOK, TimeSliceFollows
<1> QED
  BY <1>1, InitIInv, NextIInv, PTL DEF Spec
=============================================================================
