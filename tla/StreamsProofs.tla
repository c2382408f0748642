---------------------------- MODULE StreamsProofs ----------------------------
(***************************************************************************)
(* Nine of the readers around readers, for all inputs and every order of  *)
(* their calls: the merger serves each cell as it is set (MergerInv), the  *)
(* interpolator serves on the grid it announces (InterpolatorInv), a       *)
(* variable announced by the pressure conversions can be computed          *)
(* (PressureInv), a slice at a new time is made of those around it         *)
(* (TimeInv), a cell aggregates the values in it (ForwardInv), what the    *)
(* quality extractor delivers was allowed (QualityInv), the processor does *)
(* once what was asked of it (ProcInv), a level converter's altitudes are  *)
(* those above the ground, and a field that is read in part is             *)
(* interpolated as the whole (CachedInv).  Each has a part of its own.     *)
(***************************************************************************)
EXTENDS CDMMerger, CDMInterpolator, CDMPressureConversions, CDMTimeInterpolator,
        CachedInterpolation, CachedForwardInterpolation, CDMQualityExtractor, CDMProcessor,
        CDMVerticalInterpolator, FiniteSetTheorems, SequenceTheorems, WellFoundedInduction, TLAPS

-----------------------------------------------------------------------------
(* CDMMerger.  A read of a merged variable trusts the smoothing reader that setTargetGrid    *)
(* made, which keeps settings of its own; so the invariant says that, once it is there, it   *)
(* was told what is set (the calls after setTargetGrid pass on what they set, or throw), and *)
(* that the axes were found to be extendable.                                                *)
Told == [smoothing |-> settings.smoothing, useOuter |-> settings.useOuter]
CellsServed ==
    [c \in CellsOf(TargetSize) |-> Overlaid(OnTarget(c, readerSmooth), OuterValue(c))]
MergerInv ==
    /\ settings \in [smoothing : [transition : Nat, border : Nat], useOuter : BOOLEAN, keepOuter : BOOLEAN]
    /\ readerOverlay = "made" => readerSmooth = Told /\ Extendable(InnerAxis, OuterAxis)
    /\ readerOverlay # "made" => readerOverlay = "none" /\ readerSmooth = NoReader
    /\ Merged => readerOverlay = "made" /\ mResult.cells = CellsServed

(* extendInnerAxis: the target grid is the inner one with whole cells added on each side.    *)
LEMMA OffsetNat ==
  ASSUME Extendable(InnerAxis, OuterAxis)
  PROVE  Offset \in Nat /\ TargetSize \in Nat /\ InnerSize \in Nat
<1>1. /\ InnerAxis \in Seq(Int) /\ OuterAxis \in Seq(Int)
      /\ Len(InnerAxis) \in Nat /\ Len(InnerAxis) >= 2 /\ Len(OuterAxis) \in Nat /\ Len(OuterAxis) >= 2
      /\ \A i \in 1 .. Len(InnerAxis) : InnerAxis[i] \in Int
      /\ \A i \in 1 .. Len(OuterAxis) : OuterAxis[i] \in Int
  BY MergerAssumption DEF Extendable
<1>2. Span(OuterAxis) \in Int
  <2> DEFINE L == OuterAxis[1]
             R == OuterAxis[Len(OuterAxis)]
             lo == CHOOSE x \in EndsOf(OuterAxis) : \A y \in EndsOf(OuterAxis) : x <= y
  <2>1. L \in Int /\ R \in Int /\ EndsOf(OuterAxis) = {L, R}
    BY <1>1 DEF EndsOf
  <2>2. \E x \in {L, R} : \A y \in {L, R} : x <= y
    BY <2>1, SMT
  <2>3. lo \in {L, R}
    BY <2>1, <2>2
  <2>4. lo \in Int
    BY <2>1, <2>3
  <2>5. Span(OuterAxis) = L + R - 2 * lo
    BY DEF Span
  <2> HIDE DEF L, R, lo
  <2> QED
    BY <2>1, <2>4, <2>5
<1>3. ASSUME NEW start, NEW step
      PROVE  StepsBeyond(start, step, OuterAxis) \in Nat
  <2>1. IsFiniteSet(1 .. Span(OuterAxis))
    BY <1>2, FS_Interval
  <2>2. IsFiniteSet({k \in 1 .. Span(OuterAxis) : InReach(start + k * step, OuterAxis)})
    BY <2>1, FS_Subset
  <2> QED
    BY <2>2, FS_CardinalityType DEF StepsBeyond
<1>4. Offset \in Nat
  BY <1>3 DEF Offset
<1>5. TargetSize \in Nat
  <2> DEFINE step == InnerAxis[2] - InnerAxis[1]
             before == StepsBeyond(InnerAxis[1], -step, OuterAxis)
             after == StepsBeyond(InnerAxis[Len(InnerAxis)], step, OuterAxis)
             ext == [i \in 1 .. before + Len(InnerAxis) + after |-> InnerAxis[1] + (i - 1 - before) * step]
  <2>1. before \in Nat /\ after \in Nat
    BY <1>3
  <2>2. step \in Int /\ InnerAxis[1] \in Int
    BY <1>1
  <2> HIDE DEF before, after, step
  <2>3. before + Len(InnerAxis) + after \in Nat
    BY <1>1, <2>1
  <2>4. ext \in Seq(Int) /\ Len(ext) \in Nat
    <3>1. \A i \in 1 .. before + Len(InnerAxis) + after : InnerAxis[1] + (i - 1 - before) * step \in Int
      BY <2>1, <2>2, <2>3, <1>1
    <3> DEFINE n == before + Len(InnerAxis) + after
               g(i) == InnerAxis[1] + (i - 1 - before) * step
    <3> HIDE DEF n, g
    <3>2. [i \in 1 .. n |-> g(i)] \in Seq(Int)
      BY <2>3, <3>1 DEF n, g
    <3>3. \A s \in Seq(Int) : Len(s) \in Nat
      OBVIOUS
    <3> QED
      BY <3>2, <3>3 DEF n, g
  <2> QED
    BY <2>4 DEF TargetSize, ExtendedAxis, before, after, step, ext
<1> QED
  BY <1>1, <1>4, <1>5 DEF InnerSize

(* A cell of the target grid, smoothed by a reader that has the smoothing that is set, then  *)
(* overlaid: the defined one of two values; else the outer one on the border and outside,    *)
(* the inner one away from the border by more than the transition                            *)
(* (CDMBorderSmoothing::getDataSlice, CDMOverlay::getDataSlice).                             *)
LEMMA ServedAsSet ==
  ASSUME NEW w \in [smoothing : [transition : Nat, border : Nat], useOuter : BOOLEAN],
         w.smoothing = settings.smoothing,
         Extendable(InnerAxis, OuterAxis),
         NEW c \in CellsOf(TargetSize)
  PROVE  LET inner == InnerValue(<<c[1] - Offset, c[2] - Offset>>)
             outer == OuterValue(c)
             cell == Overlaid(OnTarget(c, w), outer)
         IN IF inner = "undef" \/ outer = "undef"
            THEN cell = IF inner = "undef" THEN outer ELSE inner
            ELSE /\ BorderOrOutside(c[1]) \/ BorderOrOutside(c[2]) => cell = "O"
                 /\ Interior(c[1]) /\ Interior(c[2]) => cell = "I"
<1> DEFINE p == <<c[1] - Offset, c[2] - Offset>>
           inner == InnerValue(p)
           outer == OuterValue(c)
<1>1. Offset \in Nat /\ TargetSize \in Nat /\ InnerSize \in Nat
  BY OffsetNat
<1>2. c[1] \in Int /\ c[2] \in Int /\ c = <<c[1], c[2]>>
  BY <1>1 DEF CellsOf
<1>3. p[1] = c[1] - Offset /\ p[2] = c[2] - Offset /\ p[1] \in Int /\ p[2] \in Int
      /\ <<p[1] + Offset, p[2] + Offset>> = c
  BY <1>1, <1>2
<1> HIDE DEF p
<1>4. inner \in {"I", "undef"} /\ outer \in {"O", "undef"}
  BY DEF InnerValue, OuterValue
<1>5. CASE p \notin CellsOf(InnerSize)
  <2>1. inner = "undef" /\ OnTarget(c, w) = "undef"
    BY <1>5, Zenon DEF InnerValue, OnTarget, p
  <2> QED
    BY <2>1 DEF Overlaid, p
<1>6. CASE p \in CellsOf(InnerSize)
  <2>1. OnTarget(c, w) = SmoothCell(p, w)
    BY <1>6, Zenon DEF OnTarget, p
  <2>2. SmoothCell(p, w) = IF inner = "undef" THEN IF w.useOuter THEN outer ELSE "undef"
                           ELSE IF outer = "undef" THEN inner
                           ELSE Smoothed(p, w.smoothing, inner, outer)
    BY <1>3 DEF SmoothCell
  <2>3. CASE inner = "undef" \/ outer = "undef"
    BY <2>1, <2>2, <2>3, <1>4 DEF Overlaid, p
  <2>4. CASE inner # "undef" /\ outer # "undef"
    <3> DEFINE s == settings.smoothing
               cell == Smoothed(p, s, "I", "O")
    <3>1. s.transition \in Nat /\ s.border \in Nat
      OBVIOUS
    <3>2. cell \in {"I", "O", "mix"}
      BY DEF Smoothed
    <3>3. Overlaid(OnTarget(c, w), outer) = cell
      BY <2>1, <2>2, <2>4, <1>4, <3>2 DEF Overlaid
    <3>4. 0 <= p[1] /\ p[1] < InnerSize /\ 0 <= p[2] /\ p[2] < InnerSize
      BY <1>6, <1>1, <1>3 DEF CellsOf
    <3>5. BorderOrOutside(c[1]) \/ BorderOrOutside(c[2]) => cell = "O"
      BY <1>1, <1>2, <1>3, <3>1, <3>4 DEF BorderOrOutside, InBorder, Smoothed
    <3>6. ASSUME Interior(c[1]), Interior(c[2])
          PROVE  cell = "I"
      <4>1. ~InBorder(p[1], s) /\ ~InBorder(p[2], s) /\ Away(p[1], s) = 0 /\ Away(p[2], s) = 0
        BY <1>1, <1>2, <1>3, <3>1, <3>6 DEF Interior, InBorder, Away
      <4> QED
        BY <4>1 DEF Smoothed
    <3> HIDE DEF cell
    <3> QED
      BY <2>4, <3>3, <3>5, <3>6 DEF p
  <2> QED
    BY <2>3, <2>4
<1> QED
  BY <1>5, <1>6

(* The constructor: nothing is made and nothing is read. *)
LEMMA MergerInitially == MergerInit => MergerInv
BY DEF MergerInit, MergerInv, Merged, Result, NoReader

(* No call of CDMMerger, set-up or read, disturbs the invariant. *)
LEMMA MergerStep ==
  ASSUME MergerInv, [MergerNext]_mergerVars
  PROVE  MergerInv'
<1> USE DEF MergerInv, Merged, Told, NoReader
<1>1. ASSUME NEW s \in Smoothings, SetSmoothing(s)
      PROVE  MergerInv'
  <2>1. s \in [transition : Nat, border : Nat]
    BY MergerAssumption
  <2>2. settings.smoothing # <<>>
    <3>1. DOMAIN settings.smoothing = {"transition", "border"} /\ DOMAIN <<>> = {}
      OBVIOUS
    <3> QED
      BY <3>1
  <2>3. CASE readerOverlay = "made"
    <3>1. readerSmooth # NoReader
      BY <2>2, <2>3
    <3>2. readerSmooth' = [readerSmooth EXCEPT !.smoothing = s]
      BY <1>1, <3>1, Zenon DEF SetSmoothing
    <3>3. settings' = [settings EXCEPT !.smoothing = s]
      BY <1>1 DEF SetSmoothing
    <3>4. readerSmooth' = [smoothing |-> s, useOuter |-> settings.useOuter]
      BY <2>3, <3>2
    <3>5. readerSmooth' = Told' /\ settings' \in [smoothing : [transition : Nat, border : Nat], useOuter : BOOLEAN, keepOuter : BOOLEAN]
      BY <2>1, <3>3, <3>4
    <3>6. mResult'.kind # "merged" /\ readerOverlay' = readerOverlay
      BY <1>1 DEF SetSmoothing, Result
    <3> QED
      BY <2>3, <3>5, <3>6
  <2>4. CASE readerOverlay # "made"
    BY <1>1, <2>1, <2>4 DEF SetSmoothing, Result
  <2> QED
    BY <2>3, <2>4
<1>2. ASSUME NEW b \in BOOLEAN, SetUseOuter(b)
      PROVE  MergerInv'
  BY <1>2 DEF SetUseOuter, Result
<1>3. ASSUME NEW b \in BOOLEAN, SetKeepOuter(b)
      PROVE  MergerInv'
  BY <1>3 DEF SetKeepOuter, Result
<1>4. CASE SetTargetGrid
  BY <1>4 DEF SetTargetGrid, Result
<1>5. ASSUME NEW v, GetMergedSlice(v)
      PROVE  MergerInv'
  BY <1>5 DEF GetMergedSlice, Result, CellsServed
<1>6. CASE UNCHANGED mergerVars
  BY <1>6 DEF mergerVars, CellsServed
<1> QED
  BY <1>1, <1>2, <1>3, <1>4, <1>5, <1>6 DEF MergerNext

(* For all axes, undefined cells and smoothings: whatever was set, in whatever order, before  *)
(* and after the target grid was made, the next slice merges as the settings say.            *)
THEOREM MergesAsSet == MergerSpec => []MergedAsSet
<1>1. MergerInv => MergedAsSet
  <2> SUFFICES ASSUME MergerInv, Merged
               PROVE  MergedAsSet
    BY DEF MergedAsSet
  <2>1. /\ readerSmooth \in [smoothing : [transition : Nat, border : Nat], useOuter : BOOLEAN]
        /\ readerSmooth.smoothing = settings.smoothing
        /\ Extendable(InnerAxis, OuterAxis)
        /\ mResult.cells = CellsServed
    BY DEF MergerInv, Told
  <2>2. DOMAIN mResult.cells = CellsOf(TargetSize)
    BY <2>1 DEF CellsServed
  <2>3. \A c \in CellsOf(TargetSize) : mResult.cells[c] = Overlaid(OnTarget(c, readerSmooth), OuterValue(c))
    BY <2>1 DEF CellsServed
  <2> QED
    BY <2>1, <2>2, <2>3, ServedAsSet DEF MergedAsSet
<1> QED
  BY <1>1, MergerInitially, MergerStep, PTL DEF MergerSpec

-----------------------------------------------------------------------------
(* CDMInterpolator.  After a change of the grid that did not throw, the interpolations that  *)
(* variables are led to are all for the grid announced, not for one of an earlier change:    *)
(* cachedInterpolation_ and projectionVariables_ are replaced in different calls.            *)
OnOneGrid ==
    ended = "changed" =>
        \A v \in DOMAIN projectionVariables :
            projectionVariables[v] \in DOMAIN cachedInterpolation =>
                cachedInterpolation[projectionVariables[v]].grid = announced.grid
InterpolatorInv == OnOneGrid /\ ServedOnAnnouncedGrid

(* The system a projected variable is led to has an interpolation, for the grid of this change. *)
LEMMA InterpolatedToGrid ==
  ASSUME NEW old, NEW systems, NEW g, NEW v \in DOMAIN VariablesOf(systems)
  PROVE  Interpolations(old, systems, g)[VariablesOf(systems)[v]].grid = g
<1> DEFINE s == CHOOSE s \in Members(systems) : v \in s.vars
           i == s.id
           t == CHOOSE t \in Members(systems) : t.id = i
<1>1. VariablesOf(systems)[v] = i /\ s \in Members(systems)
  BY DEF VariablesOf
<1> HIDE DEF s
<1>2. Interpolations(old, systems, g)[i] = [grid |-> g, x |-> t.x, y |-> t.y]
  BY <1>1 DEF Interpolations, Assigned
<1> QED
  BY <1>1, <1>2

(* Made for the systems whose variables are projected, the interpolations are all for one grid. *)
LEMMA ChangedToGrid ==
  ASSUME NEW systems, NEW old, NEW g,
         projectionVariables' = VariablesOf(systems),
         cachedInterpolation' = Interpolations(old, systems, g),
         announced'.grid = g, delivered' = NotRead
  PROVE  InterpolatorInv'
BY InterpolatedToGrid DEF InterpolatorInv, OnOneGrid, ServedOnAnnouncedGrid, NotRead

(* A change that throws leaves a reader that is not used. *)
LEMMA NotChanged ==
  ASSUME ended' # "changed"
  PROVE  InterpolatorInv'
BY DEF InterpolatorInv, OnOneGrid, ServedOnAnnouncedGrid

(* Calls that leave the grid and its interpolations alone. *)
LEMMA SameAsBefore ==
  ASSUME InterpolatorInv, delivered' = NotRead,
         UNCHANGED <<projectionVariables, cachedInterpolation, announced, ended>>
  PROVE  InterpolatorInv'
BY DEF InterpolatorInv, OnOneGrid, ServedOnAnnouncedGrid, NotRead

(* changeCDMToLatLonTemplate, used by template, cross sections and lists of points. *)
LEMMA TemplateStep ==
  ASSUME NEW systems, NEW g, NEW sections, NEW interpolations, NEW matrices,
         ToLatLonTemplate(systems, g, sections, interpolations, matrices), Changing
  PROVE  InterpolatorInv'
<1>1. announced'.grid = g
  BY DEF ToLatLonTemplate, TemplateDimensions
<1> QED
  BY <1>1, ChangedToGrid DEF ToLatLonTemplate, Changing

(* A loop over the systems that throws at the first that is incompatible. *)
LEMMA WhileStep ==
  ASSUME NEW systems, NEW good, NEW g,
         InterpolatedWhile(good, systems, g), Changing,
         projectionVariables' = VariablesOf(systems), announced'.grid = g
  PROVE  InterpolatorInv'
<1>1. CASE good = systems
  BY <1>1, ChangedToGrid DEF InterpolatedWhile, Changing
<1>2. CASE good # systems
  BY <1>2, NotChanged DEF InterpolatedWhile
<1> QED
  BY <1>1, <1>2

(* The constructor: no grid is announced. *)
LEMMA InterpolatorInitially == InterpolatorInit => InterpolatorInv
BY DEF InterpolatorInit, InterpolatorInv, OnOneGrid, ServedOnAnnouncedGrid

(* Each way to change the grid, one after the other and repeated, and each read. *)
LEMMA InterpolatorStep ==
  ASSUME InterpolatorInv, [InterpolatorNext]_ipVars
  PROVE  InterpolatorInv'
<1>1. ASSUME NEW m, NEW g, ChangeProjection(m, g)
      PROVE  InterpolatorInv'
  <2> DEFINE systems == IF m \in Methods THEN Best(m \in Parameters) ELSE <<>>
  <2>1. delivered' = NotRead /\ Changing
    BY <1>1 DEF ChangeProjection, Changing
  <2>2. CASE RefuseEmpty(g)
    BY <2>1, <2>2, SameAsBefore DEF RefuseEmpty
  <2>3. CASE NoSystem(systems)
    BY <2>3, NotChanged DEF NoSystem
  <2>4. ASSUME projectionVariables' = VariablesOf(systems), announced' = NewDimensions(systems, g),
               IF m \in Parameters THEN ByProjectionParameters(systems, g)
               ELSE IF m \in Coordinates THEN ByCoordinates(systems, g)
               ELSE ByForwardInterpolation(systems, g)
        PROVE  InterpolatorInv'
    <3> HIDE DEF systems
    <3>1. announced'.grid = g
      BY <2>4 DEF NewDimensions
    <3>2. CASE ByProjectionParameters(systems, g)
      BY <2>1, <2>4, <3>1, <3>2, ChangedToGrid DEF ByProjectionParameters
    <3>3. CASE ByCoordinates(systems, g)
      BY <2>1, <2>4, <3>1, <3>3, WhileStep DEF ByCoordinates
    <3>4. CASE ByForwardInterpolation(systems, g)
      BY <2>1, <2>4, <3>1, <3>4, WhileStep DEF ByForwardInterpolation
    <3> QED
      BY <2>4, <3>2, <3>3, <3>4
  <2> QED
    BY <1>1, <2>2, <2>3, <2>4 DEF ChangeProjection
<1>2. ASSUME NEW m, NEW g, NEW same, ChangeToLonLat(m, g, same)
      PROVE  InterpolatorInv'
  <2>1. delivered' = NotRead /\ Changing
    BY <1>2 DEF ChangeToLonLat, Changing
  <2>2. CASE ~same \/ m \notin Parameters
    BY <1>2, <2>1, <2>2, SameAsBefore DEF ChangeToLonLat
  <2>3. CASE ~(~same \/ m \notin Parameters) /\ Best(TRUE) = <<>>
    BY <1>2, <2>3, NotChanged DEF ChangeToLonLat
  <2>4. CASE ~(~same \/ m \notin Parameters) /\ Best(TRUE) # <<>>
    BY <1>2, <2>1, <2>4, TemplateStep DEF ChangeToLonLat
  <2> QED
    BY <2>2, <2>3, <2>4
<1>3. ASSUME NEW m, NEW g, ChangeToCrossSections(m, g)
      PROVE  InterpolatorInv'
  BY <1>3, NotChanged, TemplateStep DEF ChangeToCrossSections
<1>4. ASSUME NEW m, NEW g, ChangeToTemplate(m, g)
      PROVE  InterpolatorInv'
  BY <1>4, NotChanged, TemplateStep DEF ChangeToTemplate
<1>5. ASSUME NEW v, NEW part, GetSlice(v, part)
      PROVE  InterpolatorInv'
  <2>1. UNCHANGED <<projectionVariables, cachedInterpolation, announced, ended>>
    BY <1>5 DEF GetSlice
  <2>2. delivered'.how = "interpolated" =>
           /\ v \in DOMAIN projectionVariables /\ projectionVariables[v] \in DOMAIN cachedInterpolation
           /\ delivered'.grid = cachedInterpolation[projectionVariables[v]].grid
    BY <1>5 DEF GetSlice, NotRead
  <2> QED
    BY <2>1, <2>2 DEF InterpolatorInv, OnOneGrid, ServedOnAnnouncedGrid
<1>6. CASE UNCHANGED ipVars
  BY <1>6 DEF ipVars, InterpolatorInv, OnOneGrid, ServedOnAnnouncedGrid
<1> QED
  BY <1>1, <1>2, <1>3, <1>4, <1>5, <1>6 DEF InterpolatorNext

(* For all systems, methods and grids, and any number of changes of the grid: a variable      *)
(* interpolated by getDataSlice comes on the grid that the data model announces.             *)
THEOREM ServesTheAnnouncedGrid == InterpolatorSpec => []ServedOnAnnouncedGrid
<1>1. InterpolatorInv => ServedOnAnnouncedGrid
  BY DEF InterpolatorInv
<1> QED
  BY <1>1, InterpolatorInitially, InterpolatorStep, PTL DEF InterpolatorSpec

-----------------------------------------------------------------------------
(* CDMPressureConversions.  NewNames are the names operations give to variables they add,    *)
(* Replaced the reader's variables they may take away.                                       *)
Asking(conversion) == {o \in POperations : o.conversion = conversion}
NewNames ==
    {DerivedName(o.temperature, "air_temperature") : o \in Asking("theta2T")}
    \cup {DerivedName(o.relative, "relative_humidity") : o \in Asking("specific2relative")}
    \cup {DerivedName(o.wind, "upward_air_velocity") : o \in Asking("omega2vwind")}
    \cup {IF o.pressure # "" THEN o.pressure ELSE "air_pressure4D" : o \in Asking("add4Dpressure")}
Replaced ==
    {PInput[i].name : i \in UNION {FoundVariables(o.theta, "air_potential_temperature") : o \in Asking("theta2T")}}
    \cup {PInput[i].name : i \in UNION {FoundVariables(o.omega, "omega") : o \in Asking("omega2vwind")}}
(* No operation gives its result the name of a variable that one takes away.  The code only   *)
(* asks whether the name is announced now: after removeVariable it is free again, and the    *)
(* reader's variable would get another meaning under its own name.                           *)
NamesAreNew == NewNames \cap Replaced = {}

(* A variable added has a converter with sources of one system of the reader; what is not    *)
(* announced of the reader's variables was replaced.                                         *)
SourcesOf(c) == {c.from, c.temperature} \ {""}
OwnOnOneSystem(c) ==
    /\ c.name \in pcdm \ InputNames
    /\ SourcesOf(c) \subseteq InputNames \cap PSystems[c.system].vars
PressureInv ==
    /\ pcdm \subseteq InputNames \cup {c.name : c \in converters}
    /\ InputNames \ pcdm \subseteq Replaced
    /\ \A c \in converters : OwnOnOneSystem(c)

(* Min is defined by CHOOSE: it is one of the numbers, as there is a least. *)
LEMMA LeastOf ==
  ASSUME NEW S, S \subseteq Nat, S # {}
  PROVE  Min(S) \in S
<1>1. IsWellFoundedOn(OpToRel(<, Nat), Nat)
  BY NatLessThanWellFounded
<1>2. PICK m \in S : \A n \in S : ~ (<<n, m>> \in OpToRel(<, Nat))
  BY <1>1, WFMin
<1>3. \A n \in S : ~ (n < m)
  BY <1>2 DEF OpToRel
<1>4. \A n \in S : m <= n
  BY <1>3
<1> QED
  BY <1>4 DEF Min

(* The first variable that findVariables returns is one of the reader's. *)
LEMMA FirstIsOne ==
  ASSUME NEW found, found \subseteq DOMAIN PInput, found # {}
  PROVE  \E i \in found : First(found) = PInput[i].name
BY LeastOf, PressureAssumption DEF First

(* The system of findCompleteCoordinateSystemFor has the variable. *)
LEMMA CompleteHasIt ==
  ASSUME NEW v, CompleteFor(v) # 0
  PROVE  v \in PSystems[CompleteFor(v)].vars
<1> DEFINE is == {i \in DOMAIN PSystems : v \in PSystems[i].vars}
<1>1. is # {} /\ CompleteFor(v) = Min(is)
  BY DEF CompleteFor
<1>2. Min(is) \in is
  BY <1>1, LeastOf, PressureAssumption
<1> QED
  BY <1>1, <1>2

(* One variable added with its converter, others taken away: the invariant stays. *)
LEMMA Adding ==
  ASSUME NamesAreNew, PressureInv, NEW c, c.name \in NewNames, c.name \notin pcdm,
         SourcesOf(c) \subseteq InputNames \cap PSystems[c.system].vars,
         NEW removed, removed \subseteq Replaced \cap InputNames,
         Added({c.name}, {c}, removed)
  PROVE  PressureInv'
<1>1. c.name \notin InputNames
  BY DEF PressureInv, NamesAreNew
<1>2. converters' = converters \cup {c}
  <2>1. \A d \in converters : d.name # c.name
    BY DEF PressureInv, OwnOnOneSystem
  <2>2. {x \in {c} : \A d \in converters : d.name # x.name} = {c}
    BY <2>1
  <2> QED
    BY <2>2 DEF Added
<1>3. pcdm' = (pcdm \cup {c.name}) \ removed
  BY DEF Added
<1>4. removed \cap NewNames = {} /\ c.name \notin removed
  BY DEF NamesAreNew
<1>5. ASSUME NEW d \in converters'
      PROVE  OwnOnOneSystem(d)'
  <2>1. CASE d = c
    BY <1>1, <1>3, <1>4, <2>1 DEF OwnOnOneSystem, SourcesOf
  <2>2. CASE d # c
    BY <1>2, <1>3, <2>2 DEF PressureInv, OwnOnOneSystem, SourcesOf
  <2> QED
    BY <2>1, <2>2
<1>6. pcdm' \subseteq InputNames \cup {d.name : d \in converters'}
  BY <1>2, <1>3 DEF PressureInv
<1>7. InputNames \ pcdm' \subseteq Replaced
  BY <1>3 DEF PressureInv
<1> QED
  BY <1>5, <1>6, <1>7 DEF PressureInv

(* The same where nothing is taken away. *)
LEMMA AddingOnly ==
  ASSUME NamesAreNew, PressureInv, NEW c, c.name \in NewNames, c.name \notin pcdm,
         SourcesOf(c) \subseteq InputNames \cap PSystems[c.system].vars,
         Added({c.name}, {c}, {})
  PROVE  PressureInv'
<1>1. PICK removed : removed = {}
  OBVIOUS
<1>2. removed \subseteq Replaced \cap InputNames /\ Added({c.name}, {c}, removed)
  BY <1>1
<1> QED
  BY <1>2, Adding

(* An operation that finds nothing, or throws. *)
LEMMA NothingAdded ==
  ASSUME PressureInv, Added({}, {}, {}) \/ \E how : Ends(how)
  PROVE  PressureInv'
<1>1. UNCHANGED <<pcdm, converters>>
  BY DEF Added, Ends
<1> QED
  BY <1>1 DEF PressureInv, OwnOnOneSystem, SourcesOf

(* findVariables returns variables of the reader. *)
LEMMA FoundOnes ==
  ASSUME NEW option, NEW standard
  PROVE  FoundVariables(option, standard) \subseteq DOMAIN PInput
BY DEF FoundVariables

(* The four operations of createConverter, and a name that is none of them. *)
LEMMA OperateKeeps ==
  ASSUME NamesAreNew, PressureInv, Operate
  PROVE  PressureInv'
<1>0. PICK o \in POperations :
        CASE o.conversion = "theta2T" -> ThetaTemperature(o)
          [] o.conversion = "specific2relative" -> Humidity(o)
          [] o.conversion = "omega2vwind" -> OmegaVertical(o)
          [] o.conversion = "add4Dpressure" -> AddPressure4D(o)
          [] OTHER -> Ends("throws")
  BY DEF Operate
<1>1. CASE o.conversion = "theta2T"
  <2> DEFINE found == FoundVariables(o.theta, "air_potential_temperature")
             good == WithSystem(found)
             temperature == DerivedName(o.temperature, "air_temperature")
             theta == First(good)
  <2>1. ThetaTemperature(o)
    BY <1>0, <1>1
  <2>2. CASE good = {} \/ temperature \in pcdm
    BY <2>1, <2>2, NothingAdded DEF ThetaTemperature
  <2>3. CASE ~(good = {} \/ temperature \in pcdm)
    <3>1. Added({temperature}, {Converter(temperature, "theta", theta, "", CompleteFor(theta))}, {theta})
      BY <2>1, <2>3 DEF ThetaTemperature
    <3>2. good \subseteq found /\ found \subseteq DOMAIN PInput
      BY FoundOnes DEF WithSystem
    <3>3. PICK i \in good : theta = PInput[i].name
      BY <2>3, <3>2, FirstIsOne
    <3>4. theta \in InputNames /\ CompleteFor(theta) # 0
      BY <3>2, <3>3 DEF WithSystem, InputNames
    <3>5. theta \in Replaced /\ temperature \in NewNames
      BY <1>1, <3>2, <3>3 DEF Replaced, NewNames, Asking
    <3> HIDE DEF theta, temperature, good
    <3>6. theta \in PSystems[CompleteFor(theta)].vars
      BY <3>4, CompleteHasIt
    <3>7. {theta, ""} \ {""} \subseteq InputNames \cap PSystems[CompleteFor(theta)].vars
      BY <3>4, <3>6
    <3>8. {theta} \subseteq Replaced \cap InputNames /\ temperature \notin pcdm
      BY <2>3, <3>4, <3>5
    <3>9. PICK c : c = Converter(temperature, "theta", theta, "", CompleteFor(theta))
      OBVIOUS
    <3>10. c.name = temperature /\ c.system = CompleteFor(theta) /\ SourcesOf(c) = {theta, ""} \ {""}
      BY <3>9 DEF Converter, SourcesOf
    <3>11. Added({c.name}, {c}, {theta})
      BY <3>1, <3>9, <3>10
    <3> QED
      BY <3>5, <3>7, <3>8, <3>10, <3>11, Adding
  <2> QED
    BY <2>2, <2>3
<1>2. CASE o.conversion = "specific2relative"
  <2> DEFINE found == FoundVariables(o.humidity, "specific_humidity")
             good == WithSystem(found)
             temperatures == FoundVariables(o.temperature, "air_temperature")
             temperature == First(temperatures)
             same(v) == temperature \in PSystems[CompleteFor(v)].vars
             name == DerivedName(o.relative, "relative_humidity")
             humidity == First(good)
             adds == Added({name}, {Converter(name, "humidity", humidity, temperature, CompleteFor(humidity))}, {})
  <2>1. \/ Added({}, {}, {}) \/ Ends("undefined") \/ Ends("throws")
        \/ good # {} /\ temperatures # {} /\ (\A i \in good : same(PInput[i].name)) /\ name \notin pcdm /\ adds
    BY <1>0, <1>2 DEF Humidity
  <2>2. ASSUME good # {}, temperatures # {}, \A i \in good : same(PInput[i].name), name \notin pcdm, adds
        PROVE  PressureInv'
    <3>1. good \subseteq found /\ found \subseteq DOMAIN PInput /\ temperatures \subseteq DOMAIN PInput
      BY FoundOnes DEF WithSystem
    <3>2. PICK i \in good : humidity = PInput[i].name
      BY <2>2, <3>1, FirstIsOne
    <3>3. PICK t \in temperatures : temperature = PInput[t].name
      BY <2>2, <3>1, FirstIsOne
    <3>4. {humidity, temperature} \subseteq InputNames /\ CompleteFor(humidity) # 0
      BY <3>1, <3>2, <3>3 DEF WithSystem, InputNames
    <3>5. same(humidity) /\ humidity \in PSystems[CompleteFor(humidity)].vars
      BY <2>2, <3>2, <3>4, CompleteHasIt
    <3>6. name \in NewNames
      BY <1>2 DEF NewNames, Asking
    <3>7. adds /\ name \notin pcdm /\ {humidity, temperature} \subseteq InputNames \cap PSystems[CompleteFor(humidity)].vars
      BY <2>2, <3>4, <3>5
    <3>8. PICK system : system = CompleteFor(humidity)
      OBVIOUS
    <3> HIDE DEF humidity, temperature, name, good, temperatures, found
    <3>9. {humidity, temperature} \ {""} \subseteq InputNames \cap PSystems[system].vars
      BY <3>7, <3>8
    <3>10. PICK c : c = Converter(name, "humidity", humidity, temperature, system)
      OBVIOUS
    <3>11. c.name = name /\ c.system = system /\ SourcesOf(c) = {humidity, temperature} \ {""}
      BY <3>10 DEF Converter, SourcesOf
    <3>12. Added({c.name}, {c}, {}) /\ name \notin pcdm
      BY <3>7, <3>8, <3>10, <3>11
    <3> QED
      BY <3>6, <3>9, <3>11, <3>12, AddingOnly
  <2> QED
    BY <2>1, <2>2, NothingAdded
<1>3. CASE o.conversion = "omega2vwind"
  <2> DEFINE omegas == FoundVariables(o.omega, "omega")
             temperatures == FoundVariables(o.temperature, "air_temperature")
             wind == DerivedName(o.wind, "upward_air_velocity")
             omega == First(omegas)
             temperature == First(temperatures)
             system == CompleteFor(omega)
             adds == Added({wind}, {Converter(wind, "omega", omega, temperature, system)}, {omega})
  <2>1. \/ Added({}, {}, {})
        \/ /\ Cardinality(omegas) = 1 /\ Cardinality(temperatures) = 1 /\ system # 0
           /\ temperature \in PSystems[system].vars /\ wind \notin pcdm /\ adds
    BY <1>0, <1>3 DEF OmegaVertical
  <2>2. ASSUME Cardinality(omegas) = 1, Cardinality(temperatures) = 1, system # 0,
               temperature \in PSystems[system].vars, wind \notin pcdm, adds
        PROVE  PressureInv'
    <3>1. omegas # {} /\ temperatures # {}
      BY <2>2, FS_EmptySet
    <3>2. PICK i \in omegas : omega = PInput[i].name
      BY <3>1, FirstIsOne, FoundOnes
    <3>3. PICK t \in temperatures : temperature = PInput[t].name
      BY <3>1, FirstIsOne, FoundOnes
    <3>4. {omega, temperature} \subseteq InputNames
      BY <3>2, <3>3, FoundOnes DEF InputNames
    <3>5. omega \in Replaced /\ wind \in NewNames
      BY <1>3, <3>2 DEF Replaced, NewNames, Asking
    <3>6. omega \in PSystems[system].vars
      BY <2>2, CompleteHasIt
    <3> HIDE DEF omega, temperature, wind, system, omegas, temperatures
    <3>7. {omega, temperature} \ {""} \subseteq InputNames \cap PSystems[system].vars
      BY <2>2, <3>4, <3>6
    <3>8. {omega} \subseteq Replaced \cap InputNames
      BY <3>4, <3>5
    <3>9. PICK c : c = Converter(wind, "omega", omega, temperature, system)
      OBVIOUS
    <3>10. c.name = wind /\ c.system = system /\ SourcesOf(c) = {omega, temperature} \ {""}
      BY <3>9 DEF Converter, SourcesOf
    <3>11. Added({c.name}, {c}, {omega}) /\ wind \notin pcdm
      BY <2>2, <3>9, <3>10
    <3>12. c.name \in NewNames /\ c.name \notin pcdm
      BY <3>5, <3>10, <3>11
    <3>13. SourcesOf(c) \subseteq InputNames \cap PSystems[c.system].vars
      BY <3>7, <3>10
    <3> QED
      BY <3>8, <3>11, <3>12, <3>13, Adding
  <2> HIDE DEF omegas, temperatures, wind, omega, temperature, system, adds
  <2> QED
    BY <2>1, <2>2, NothingAdded
<1>4. CASE o.conversion = "add4Dpressure"
  <2> DEFINE name == IF o.pressure # "" THEN o.pressure ELSE "air_pressure4D"
  <2>1. \/ Added({}, {}, {}) \/ (\E how : Ends(how))
        \/ name \notin pcdm /\ \E system : Added({name}, {Converter(name, "pressure", "", "", system)}, {})
    BY <1>0, <1>4 DEF AddPressure4D
  <2>2. ASSUME NEW system, name \notin pcdm, Added({name}, {Converter(name, "pressure", "", "", system)}, {})
        PROVE  PressureInv'
    <3>1. name \in NewNames
      BY <1>4 DEF NewNames, Asking
    <3> HIDE DEF name
    <3>2. PICK c : c = Converter(name, "pressure", "", "", system)
      OBVIOUS
    <3>3. c.name = name /\ SourcesOf(c) = {}
      BY <3>2 DEF Converter, SourcesOf
    <3>4. Added({c.name}, {c}, {})
      BY <2>2, <3>2, <3>3
    <3> QED
      BY <2>2, <3>1, <3>3, <3>4, AddingOnly
  <2> QED
    BY <2>1, <2>2, NothingAdded
<1>5. CASE o.conversion \notin {"theta2T", "specific2relative", "omega2vwind", "add4Dpressure"}
  BY <1>0, <1>5, NothingAdded
<1> QED
  BY <1>1, <1>2, <1>3, <1>4, <1>5

(* For all variables, systems and operations, in any order and number: the announced          *)
(* variables are the reader's own, or have a converter with sources that the reader has, on  *)
(* one system.                                                                               *)
THEOREM SourcesAreThere ==
  ASSUME NamesAreNew
  PROVE  PressureSpec => []EveryVariableHasASource
<1>1. PressureInit => PressureInv
  BY DEF PressureInit, PressureInv
<1>2. PressureInv /\ [PressureNext]_pressureVars => PressureInv'
  <2>1. ASSUME PressureInv, UNCHANGED <<pcdm, converters>>
        PROVE  PressureInv'
    BY <2>1 DEF PressureInv, OwnOnOneSystem, SourcesOf
  <2> QED
    BY <2>1, OperateKeeps DEF PressureNext, Constructed, ReadConverted, pressureVars
<1>3. PressureInv => EveryVariableHasASource
  BY DEF PressureInv, OwnOnOneSystem, SourcesOf, EveryVariableHasASource
<1> QED
  BY <1>1, <1>2, <1>3, PTL DEF PressureSpec

-----------------------------------------------------------------------------
(* CDMTimeInterpolator.  Both loops of changeTimeAxis are recursive functions over the       *)
(* positions of a list.  Such a function exists when each step stays in the sets that are    *)
(* given for the positions (Recursion), and then has its values there (Induction), so that   *)
(* the sets say what is known of a loop after each turn.                                     *)
LEMMA Induction ==
  ASSUME NEW n \in Nat, NEW A, NEW f, f[0] \in A[0],
         \A i \in 1 .. n : f[i - 1] \in A[i - 1] => f[i] \in A[i]
  PROVE  \A i \in 0 .. n : f[i] \in A[i]
<1> DEFINE Bad == {i \in 0 .. n : f[i] \notin A[i]}
<1> SUFFICES ASSUME Bad # {} PROVE FALSE
  OBVIOUS
<1>0. Bad \subseteq Nat
  OBVIOUS
<1>1. IsWellFoundedOn(OpToRel(<, Nat), Nat)
  BY NatLessThanWellFounded
<1>2. PICK m \in Bad : \A i \in Bad : ~ (<<i, m>> \in OpToRel(<, Nat))
  BY <1>0, <1>1, WFMin
<1>3. \A i \in Bad : ~ (i < m)
  BY <1>0, <1>2 DEF OpToRel
<1>4. m \in 0 .. n /\ f[m] \notin A[m]
  OBVIOUS
<1>5. m # 0
  BY <1>4, Zenon
<1>6. m \in 1 .. n /\ m - 1 \in 0 .. n /\ m - 1 < m
  BY <1>4, <1>5
<1>7. f[m - 1] \in A[m - 1]
  BY <1>3, <1>6
<1> QED
  BY <1>4, <1>6, <1>7

Turns(f, n, a, step) ==
    /\ DOMAIN f = 0 .. n /\ f = [i \in DOMAIN f |-> f[i]]
    /\ f[0] = a /\ \A i \in 1 .. n : f[i] = step[i][f[i - 1]]
LEMMA Recursion ==
  ASSUME NEW n \in Nat, NEW a, NEW step
  PROVE  \E f : Turns(f, n, a, step)
<1> DEFINE Exists == [m \in 0 .. n |-> IF \E f : Turns(f, m, a, step) THEN 1 ELSE 0]
           Ones == [m \in 0 .. n |-> {1}]
<1>1. \E f : Turns(f, 0, a, step)
  <2>1. Turns([i \in 0 .. 0 |-> a], 0, a, step)
    BY DEF Turns
  <2> QED
    BY <2>1
<1>2. ASSUME NEW m \in 1 .. n, NEW f, Turns(f, m - 1, a, step)
      PROVE  \E g : Turns(g, m, a, step)
  <2> DEFINE g == [i \in 0 .. m |-> IF i = m THEN step[m][f[m - 1]] ELSE f[i]]
  <2>1. \A i \in 0 .. m - 1 : g[i] = f[i]
    OBVIOUS
  <2>2. ASSUME NEW i \in 1 .. m PROVE g[i] = step[i][g[i - 1]]
    <3>1. CASE i = m
      <4>1. g[i] = step[m][f[m - 1]] /\ g[m - 1] = f[m - 1]
        BY <2>1, <3>1
      <4> QED
        BY <3>1, <4>1
    <3>2. CASE i # m
      <4>1. i \in 1 .. m - 1 /\ i \in 0 .. m - 1 /\ i - 1 \in 0 .. m - 1
        BY <3>2
      <4>2. f[i] = step[i][f[i - 1]]
        BY <1>2, <4>1 DEF Turns
      <4> QED
        BY <2>1, <4>1, <4>2
    <3> QED
      BY <3>1, <3>2
  <2>3. g[0] = a
    BY <1>2, <2>1 DEF Turns
  <2>4. DOMAIN g = 0 .. m /\ g = [i \in DOMAIN g |-> g[i]]
    OBVIOUS
  <2> HIDE DEF g
  <2>5. Turns(g, m, a, step)
    BY <2>2, <2>3, <2>4 DEF Turns
  <2> QED
    BY <2>5
<1>3. \A m \in 1 .. n : Exists[m - 1] \in Ones[m - 1] => Exists[m] \in Ones[m]
  <2> SUFFICES ASSUME NEW m \in 1 .. n, Exists[m - 1] \in Ones[m - 1] PROVE Exists[m] \in Ones[m]
    OBVIOUS
  <2>1. m - 1 \in 0 .. n /\ m \in 0 .. n
    OBVIOUS
  <2>2. \E f : Turns(f, m - 1, a, step)
    BY <2>1
  <2>3. \E g : Turns(g, m, a, step)
    BY <1>2, <2>2
  <2> QED
    BY <2>1, <2>3
<1>4. Exists[0] \in Ones[0]
  BY <1>1
<1>5. \A m \in 0 .. n : Exists[m] \in Ones[m]
  <2> HIDE DEF Exists, Ones
  <2> QED
    BY <1>3, <1>4, Induction
<1> QED
  BY <1>5

-----------------------------------------------------------------------------
\* The old times are numbers and ascend, and so do their positions.
LEMMA OldTimes ==
  /\ N \in Nat /\ N >= 1 /\ DOMAIN OldValues = 1 .. N
  /\ \A i \in 1 .. N : OldValues[i] \in Int
  /\ \A i, j \in 1 .. N : i < j => OldValues[i] < OldValues[j]
  /\ [i \in 1 .. N |-> OldValues[i]] = OldValues
  BY TimeAssumption DEF N

(* std::lower_bound: the first of the times that is not before t; after all of them the last *)
(* (changeTimeAxis moves it inside).                                                         *)
LEMMA LowerBoundIsFirst ==
  ASSUME NEW from \in 1 .. N, NEW t \in Int
  PROVE  LET p == LowerBound(OldValues, from, t)
         IN /\ p \in from .. N
            /\ \A i \in from .. N : i < p => OldValues[i] < t
            /\ t <= OldValues[p] \/ (p = N /\ OldValues[N] < t)
<1> DEFINE found == {i \in from .. N : t <= OldValues[i]}
<1>0. LowerBound(OldValues, from, t) = IF found = {} THEN N ELSE CHOOSE i \in found : \A j \in found : i <= j
  BY DEF LowerBound
<1>1. CASE found = {}
  <2>1. \A i \in from .. N : OldValues[i] < t
    <3>1. \A i \in from .. N : ~ (t <= OldValues[i])
      BY <1>1
    <3> QED
      BY <3>1, OldTimes
  <2>2. N \in from .. N
    BY OldTimes
  <2> QED
    BY <1>0, <1>1, <2>1, <2>2
<1>2. CASE found # {}
  <2>1. \E i \in found : \A j \in found : i <= j
    <3>1. found \subseteq Nat
      BY OldTimes
    <3> HIDE DEF found
    <3>2. IsWellFoundedOn(OpToRel(<, Nat), Nat)
      BY NatLessThanWellFounded
    <3>3. PICK i \in found : \A j \in found : ~ (<<j, i>> \in OpToRel(<, Nat))
      BY <1>2, <3>1, <3>2, WFMin
    <3>4. \A j \in found : ~ (j < i)
      BY <3>1, <3>3 DEF OpToRel
    <3> QED
      BY <3>1, <3>4
  <2>2. PICK p : p = CHOOSE i \in found : \A j \in found : i <= j
    OBVIOUS
  <2>3. p \in found /\ \A j \in found : p <= j
    BY <2>1, <2>2
  <2>4. p = LowerBound(OldValues, from, t)
    BY <1>0, <1>2, <2>2
  <2>5. p \in from .. N /\ t <= OldValues[p]
    BY <2>3
  <2>6. ASSUME NEW i \in from .. N, i < p PROVE OldValues[i] < t
    <3>1. i \notin found
      BY <2>3, <2>5, <2>6, OldTimes
    <3>2. ~ (t <= OldValues[i])
      BY <3>1
    <3> QED
      BY <3>2, OldTimes
  <2> QED
    BY <2>4, <2>5, <2>6
<1> QED
  BY <1>1, <1>2

(* The search goes on from the position found for the new time before: no later time is      *)
(* found before it, so that it is as a search from the first position.                       *)
LEMMA SearchGoesOn ==
  ASSUME NEW earlier \in Int, NEW t \in Int, earlier < t
  PROVE  LowerBound(OldValues, LowerBound(OldValues, 1, earlier), t) = LowerBound(OldValues, 1, t)
<1> DEFINE from == LowerBound(OldValues, 1, earlier)
           p == LowerBound(OldValues, from, t)
           q == LowerBound(OldValues, 1, t)
<1>0. 1 \in 1 .. N
  BY OldTimes
<1>1. from \in 1 .. N /\ \A i \in 1 .. N : i < from => OldValues[i] < earlier
  BY <1>0, LowerBoundIsFirst
<1>2. /\ p \in from .. N /\ \A i \in from .. N : i < p => OldValues[i] < t
      /\ t <= OldValues[p] \/ (p = N /\ OldValues[N] < t)
  BY <1>1, LowerBoundIsFirst
<1>3. /\ q \in 1 .. N /\ \A i \in 1 .. N : i < q => OldValues[i] < t
      /\ t <= OldValues[q] \/ (q = N /\ OldValues[N] < t)
  BY <1>0, LowerBoundIsFirst
<1> HIDE DEF from, p, q
<1>4. \A i \in 1 .. N : i < p => OldValues[i] < t
  BY <1>1, <1>2, OldTimes
<1>5. ~ (q < p)
  BY <1>3, <1>4, <1>2, OldTimes
<1>6. ~ (p < q)
  BY <1>3, <1>2, <1>1, OldTimes
<1>7. p = q
  BY <1>1, <1>2, <1>3, <1>5, <1>6, OldTimes
<1> QED
  BY <1>7 DEF p, from, q

(* The mapping of an ascending list of new times: for each the positions for the first old   *)
(* time that is not before it.                                                               *)
Ascends(s) == \A i, j \in DOMAIN s : i < j => s[i] < s[j]
LEMMA MappedByLowerBound ==
  ASSUME NEW new \in Seq(Int), Ascends(new)
  PROVE  TimeMapping(OldValues, new) = [i \in DOMAIN new |-> OldPositions(LowerBound(OldValues, 1, new[i]))]
<1> DEFINE n == Len(new)
           first(i) == IF i = 0 THEN 1 ELSE LowerBound(OldValues, 1, new[i])
           A == [i \in 0 .. n |-> {first(i)}]
           step == [i \in 1 .. n |-> [s \in A[i - 1] |-> LowerBound(OldValues, s, new[i])]]
           loop(f) == [i \in 0 .. n |-> IF i = 0 THEN 1 ELSE LowerBound(OldValues, f[i - 1], new[i])]
           lastPos == CHOOSE f : f = loop(f)
<1>1. n \in Nat /\ DOMAIN new = 1 .. n /\ \A i \in 1 .. n : new[i] \in Int
  OBVIOUS
<1>2. ASSUME NEW i \in 1 .. n PROVE LowerBound(OldValues, first(i - 1), new[i]) = first(i)
  <2>1. CASE i = 1
    BY <2>1
  <2>2. CASE i # 1
    <3>1. i - 1 \in 1 .. n /\ i - 1 < i /\ i - 1 # 0 /\ i # 0
      BY <1>1, <2>2
    <3>2. new[i - 1] \in Int /\ new[i] \in Int /\ new[i - 1] < new[i]
      BY <1>1, <3>1 DEF Ascends
    <3> QED
      BY <3>1, <3>2, SearchGoesOn
  <2> QED
    BY <2>1, <2>2
<1>3. ASSUME NEW i \in 1 .. n, NEW s \in A[i - 1]
      PROVE  /\ step[i][s] = LowerBound(OldValues, s, new[i])
             /\ LowerBound(OldValues, s, new[i]) \in A[i]
  <2>1. i - 1 \in 0 .. n /\ i \in 0 .. n
    BY <1>1
  <2>2. s = first(i - 1)
    BY <2>1
  <2>3. step[i] = [r \in A[i - 1] |-> LowerBound(OldValues, r, new[i])]
    OBVIOUS
  <2>4. step[i][s] = LowerBound(OldValues, s, new[i])
    <3> HIDE DEF A, step
    <3> QED
      BY <2>3
  <2> HIDE DEF first, step
  <2> QED
    BY <1>2, <2>1, <2>2, <2>4
<1>4. A[0] = {1}
  BY <1>1
<1> HIDE DEF A, step
<1>5. PICK f : Turns(f, n, 1, step)
  BY <1>1, Recursion
<1>6. \A i \in 0 .. n : f[i] \in A[i]
  <2>1. f[0] \in A[0]
    BY <1>4, <1>5 DEF Turns
  <2>2. \A i \in 1 .. n : f[i - 1] \in A[i - 1] => f[i] \in A[i]
    BY <1>3, <1>5 DEF Turns
  <2> QED
    BY <1>1, <2>1, <2>2, Induction
<1>7. f = loop(f)
  <2>1. ASSUME NEW i \in 0 .. n
        PROVE  f[i] = IF i = 0 THEN 1 ELSE LowerBound(OldValues, f[i - 1], new[i])
    <3>1. CASE i = 0
      BY <1>5, <3>1 DEF Turns
    <3>2. CASE i # 0
      <4>1. i \in 1 .. n /\ i - 1 \in 0 .. n
        BY <1>1, <3>2
      <4>2. f[i] = step[i][f[i - 1]]
        BY <1>5, <4>1 DEF Turns
      <4> QED
        BY <1>3, <1>6, <3>2, <4>1, <4>2
    <3> QED
      BY <3>1, <3>2
  <2>2. f = [i \in 0 .. n |-> f[i]]
    BY <1>5 DEF Turns
  <2> QED
    BY <2>1, <2>2
<1>8. lastPos = loop(lastPos)
  <2> HIDE DEF loop
  <2> QED
    BY <1>7
<1> HIDE DEF lastPos
<1>9. \A i \in 0 .. n : lastPos[i] \in A[i]
  <2>1. lastPos[0] \in A[0]
    BY <1>1, <1>4, <1>8
  <2>2. \A i \in 1 .. n : lastPos[i - 1] \in A[i - 1] => lastPos[i] \in A[i]
    <3> SUFFICES ASSUME NEW i \in 1 .. n, lastPos[i - 1] \in A[i - 1] PROVE lastPos[i] \in A[i]
      OBVIOUS
    <3>1. i \in 0 .. n /\ i # 0
      BY <1>1
    <3>2. lastPos[i] = LowerBound(OldValues, lastPos[i - 1], new[i])
      BY <1>8, <3>1
    <3> QED
      BY <1>3, <3>2
  <2> QED
    BY <1>1, <2>1, <2>2, Induction
<1>10. \A i \in 1 .. n : lastPos[i] = LowerBound(OldValues, 1, new[i])
  <2> SUFFICES ASSUME NEW i \in 1 .. n PROVE lastPos[i] = LowerBound(OldValues, 1, new[i])
    OBVIOUS
  <2>1. i # 0 /\ i \in 0 .. n
    BY <1>1
  <2>2. lastPos[i] \in A[i]
    BY <1>9, <2>1
  <2> QED
    BY <2>1, <2>2 DEF A
<1>11. TimeMapping(OldValues, new) = [i \in DOMAIN new |-> OldPositions(lastPos[i])]
  BY DEF TimeMapping, lastPos
<1> QED
  BY <1>1, <1>10, <1>11

-----------------------------------------------------------------------------
(* The dots of a list stand for the steps that stay before the value that follows: those are *)
(* the first ones, so that as many steps as there are such stay before it.                   *)
LEMMA StepsStayBefore ==
  ASSUME NEW v \in Int, NEW dist \in Int, dist > 0, NEW M \in Int, NEW after \in Int,
         NEW k \in Nat, k >= 1,
         k <= Cardinality({j \in 1 .. M : v + j * dist < after})
  PROVE  v + k * dist < after
<1> DEFINE S == {j \in 1 .. M : v + j * dist < after}
<1> SUFFICES ASSUME ~ (v + k * dist < after) PROVE FALSE
  OBVIOUS
<1>1. ASSUME NEW j \in S PROVE j \in 1 .. k - 1
  <2>1. j \in Int /\ j >= 1 /\ v + j * dist < after
    OBVIOUS
  <2>2. ~ (j >= k)
    <3> SUFFICES ASSUME j >= k PROVE FALSE
      OBVIOUS
    <3>1. (j - k) * dist >= 0
      BY <2>1, SMT
    <3>2. j * dist = (j - k) * dist + k * dist
      BY <2>1, SMT
    <3>3. j * dist \in Int /\ k * dist \in Int /\ (j - k) * dist \in Int
      BY <2>1
    <3> QED
      BY <2>1, <3>1, <3>2, <3>3
  <2> QED
    BY <2>1, <2>2
<1>2. IsFiniteSet(1 .. k - 1) /\ Cardinality(1 .. k - 1) = k - 1
  BY FS_Interval
<1>3. Cardinality(S) <= k - 1
  <2>1. S \subseteq 1 .. k - 1
    BY <1>1
  <2> HIDE DEF S
  <2> QED
    BY <1>2, <2>1, FS_Subset
<1>4. Cardinality(S) \in Nat
  <2>1. IsFiniteSet(S)
    <3>1. S \subseteq 1 .. k - 1
      BY <1>1
    <3> HIDE DEF S
    <3> QED
      BY <1>2, <3>1, FS_Subset
  <2> HIDE DEF S
  <2> QED
    BY <2>1, FS_CardinalityType
<1> QED
  BY <1>3, <1>4

\* A number after the others keeps them in order.
LEMMA AppendAscends ==
  ASSUME NEW s \in Seq(Int), Ascends(s), NEW v \in Int, \A i \in DOMAIN s : s[i] < v
  PROVE  /\ Append(s, v) \in Seq(Int) /\ Ascends(Append(s, v))
         /\ \A w \in Int : v < w => \A i \in DOMAIN Append(s, v) : Append(s, v)[i] < w
<1> DEFINE r == Append(s, v)
           n == Len(s)
<1>1. /\ n \in Nat /\ DOMAIN s = 1 .. n /\ \A i \in 1 .. n : s[i] \in Int
      /\ r \in Seq(Int) /\ DOMAIN r = 1 .. n + 1
      /\ r[n + 1] = v /\ \A i \in 1 .. n : r[i] = s[i]
  OBVIOUS
<1> HIDE DEF r, n
<1>2. \A i, j \in 1 .. n + 1 : i < j => r[i] < r[j]
  <2> SUFFICES ASSUME NEW i \in 1 .. n + 1, NEW j \in 1 .. n + 1, i < j PROVE r[i] < r[j]
    OBVIOUS
  <2>1. i \in 1 .. n
    BY <1>1
  <2>2. CASE j \in 1 .. n
    <3>1. s[i] < s[j]
      BY <1>1, <2>1, <2>2 DEF Ascends
    <3> QED
      BY <1>1, <2>1, <2>2, <3>1
  <2>3. CASE j = n + 1
    BY <1>1, <2>1, <2>3
  <2>4. j \in 1 .. n \/ j = n + 1
    BY <1>1
  <2> QED
    BY <2>2, <2>3, <2>4
<1>3. ASSUME NEW w \in Int, v < w, NEW i \in 1 .. n + 1 PROVE r[i] < w
  <2>1. CASE i \in 1 .. n
    BY <1>1, <1>3, <2>1
  <2>2. CASE i = n + 1
    BY <1>1, <1>3, <2>2
  <2> QED
    BY <1>1, <2>1, <2>2
<1> QED
  BY <1>1, <1>2, <1>3 DEF r, Ascends

\* And so do the dots with the number after them.
LEMMA DottedAscends ==
  ASSUME NEW s \in Seq(Int), Ascends(s), Len(s) >= 2, NEW v \in Int, \A i \in DOMAIN s : s[i] < v
  PROVE  /\ Dotted(s, v) \in Seq(Int) /\ Ascends(Dotted(s, v)) /\ Len(Dotted(s, v)) >= 2
         /\ \A w \in Int : v < w => \A i \in DOMAIN Dotted(s, v) : Dotted(s, v)[i] < w
<1> DEFINE n == Len(s)
           last == s[n]
           dist == s[n] - s[n - 1]
           between(k) == IF dist > 0 THEN last + k * dist < v ELSE last + k * dist > v
           steps == Cardinality({k \in 1 .. Magnitude(v - last) : between(k)})
           mid == [k \in 1 .. steps |-> last + k * dist]
           r == s \o mid
<1>1. n \in Nat /\ n >= 2 /\ DOMAIN s = 1 .. n /\ \A i \in 1 .. n : s[i] \in Int
  OBVIOUS
<1>2. last \in Int /\ dist \in Int /\ dist > 0 /\ \A i \in 1 .. n : s[i] <= last
  <2>1. n \in 1 .. n /\ n - 1 \in 1 .. n /\ n - 1 < n
    BY <1>1
  <2>2. s[n] \in Int /\ s[n - 1] \in Int /\ s[n - 1] < s[n]
    BY <1>1, <2>1 DEF Ascends
  <2>3. ASSUME NEW i \in 1 .. n PROVE s[i] <= s[n]
    <3>1. CASE i = n
      BY <2>2, <3>1
    <3>2. CASE i # n
      <4>1. i < n
        <5> HIDE DEF n
        <5> QED
          BY <1>1, <3>2
      <4>2. s[i] < s[n]
        BY <1>1, <2>1, <4>1 DEF Ascends
      <4> QED
        BY <1>1, <2>2, <4>2
    <3> QED
      BY <3>1, <3>2
  <2> QED
    BY <2>2, <2>3
<1>3. Magnitude(v - last) \in Int
  BY <1>2 DEF Magnitude
<1>4. steps = Cardinality({k \in 1 .. Magnitude(v - last) : last + k * dist < v})
  BY <1>2
<1> HIDE DEF n, last, dist
<1>5. steps \in Nat /\ \A k \in 1 .. steps : last + k * dist < v
  <2> DEFINE S == {k \in 1 .. Magnitude(v - last) : last + k * dist < v}
  <2>1. IsFiniteSet(1 .. Magnitude(v - last))
    BY <1>3, FS_Interval
  <2>2. Cardinality(S) \in Nat
    <3>1. S \subseteq 1 .. Magnitude(v - last)
      OBVIOUS
    <3> HIDE DEF S
    <3> QED
      BY <2>1, <3>1, FS_Subset, FS_CardinalityType
  <2>3. steps = Cardinality(S)
    BY <1>4
  <2> HIDE DEF steps
  <2>4. ASSUME NEW k \in 1 .. steps PROVE last + k * dist < v
    <3>1. k \in Nat /\ k >= 1 /\ k <= Cardinality(S)
      BY <2>2, <2>3
    <3> QED
      BY <1>2, <1>3, <3>1, StepsStayBefore
  <2> QED
    BY <2>2, <2>3, <2>4
<1> HIDE DEF steps
<1>6. /\ mid \in Seq(Int) /\ Len(mid) = steps
      /\ \A k \in 1 .. steps : mid[k] = last + k * dist /\ mid[k] \in Int
  <2>1. \A k \in 1 .. steps : last + k * dist \in Int
    BY <1>2, <1>5
  <2> QED
    BY <1>5, <2>1
<1> HIDE DEF mid
<1>7. /\ r \in Seq(Int) /\ DOMAIN r = 1 .. n + steps
      /\ \A i \in 1 .. n : r[i] = s[i]
      /\ \A i \in n + 1 .. n + steps : r[i] = mid[i - n]
  <2>1. r \in Seq(Int) /\ Len(r) = Len(s) + Len(mid)
    <3>1. mid \in Seq(Int)
      BY <1>6
    <3> QED
      BY <3>1, ConcatProperties
  <2>2. \A i \in 1 .. Len(s) : r[i] = s[i]
    BY <1>6
  <2>3. ASSUME NEW i \in Len(s) + 1 .. Len(s) + Len(mid) PROVE r[i] = mid[i - Len(s)]
    <3>1. i \in Int /\ i > Len(s) /\ i <= Len(s) + Len(mid) /\ i >= 1 /\ ~ (i <= Len(s))
      BY <1>1, <1>5, <1>6 DEF n
    <3> QED
      BY <1>6, <3>1
  <2> HIDE DEF r
  <2>4. n = Len(s) /\ DOMAIN r = 1 .. Len(r)
    BY <2>1 DEF n
  <2> QED
    BY <1>6, <2>1, <2>2, <2>3, <2>4
<1> HIDE DEF r
<1>8. \A i \in n + 1 .. n + steps : r[i] = last + (i - n) * dist /\ i - n \in 1 .. steps
  BY <1>1, <1>5, <1>6, <1>7
<1>9. \A i, j \in 1 .. n + steps : i < j => r[i] < r[j]
  <2> SUFFICES ASSUME NEW i \in 1 .. n + steps, NEW j \in 1 .. n + steps, i < j PROVE r[i] < r[j]
    OBVIOUS
  <2>1. CASE j \in 1 .. n
    <3>1. i \in 1 .. n
      BY <1>1, <1>5, <2>1
    <3>2. s[i] < s[j]
      BY <1>1, <2>1, <3>1 DEF Ascends
    <3> QED
      BY <1>7, <2>1, <3>1, <3>2
  <2>2. CASE j \in n + 1 .. n + steps /\ i \in 1 .. n
    <3>1. r[i] \in Int /\ r[i] <= last
      BY <1>1, <1>2, <1>7, <2>2
    <3>2. r[j] = last + (j - n) * dist /\ j - n \in Int /\ j - n >= 1
      BY <1>1, <1>5, <1>8, <2>2
    <3>3. (j - n) * dist \in Int /\ (j - n) * dist > 0
      BY <1>2, <3>2, SMT
    <3>4. PICK t \in Int : t = (j - n) * dist
      BY <3>3
    <3>5. r[j] = last + t /\ t > 0
      BY <3>2, <3>3, <3>4
    <3> QED
      BY <1>2, <3>1, <3>5
  <2>3. CASE j \in n + 1 .. n + steps /\ i \in n + 1 .. n + steps
    <3>1. r[j] = last + (j - n) * dist /\ r[i] = last + (i - n) * dist /\ i \in Int /\ j \in Int /\ n \in Int
      BY <1>1, <1>5, <1>8, <2>3
    <3>2. (j - i) * dist > 0
      BY <1>2, <3>1, SMT
    <3>3. (j - n) * dist = (i - n) * dist + (j - i) * dist
      BY <1>2, <3>1, SMT
    <3>4. (j - n) * dist \in Int /\ (i - n) * dist \in Int /\ (j - i) * dist \in Int
      BY <1>2, <3>1
    <3> QED
      BY <1>2, <3>1, <3>2, <3>3, <3>4
  <2> QED
    BY <1>1, <1>5, <2>1, <2>2, <2>3
<1>10. \A i \in 1 .. n + steps : r[i] < v
  <2> SUFFICES ASSUME NEW i \in 1 .. n + steps PROVE r[i] < v
    OBVIOUS
  <2>1. CASE i \in 1 .. n
    BY <1>1, <1>7, <2>1
  <2>2. CASE i \in n + 1 .. n + steps
    BY <1>5, <1>8, <2>2
  <2> QED
    BY <1>1, <1>5, <2>1, <2>2
<1>11. Dotted(s, v) = Append(r, v)
  <2>1. Dotted(s, v) = r \o <<v>>
    BY DEF Dotted, r, mid, steps, n, last, dist
  <2> QED
    BY <1>7, <2>1
<1>12. Ascends(r) /\ \A i \in DOMAIN r : r[i] < v
  BY <1>7, <1>9, <1>10 DEF Ascends
<1>13. Len(Append(r, v)) >= 2
  BY <1>1, <1>5, <1>7
<1> QED
  BY <1>7, <1>11, <1>12, <1>13, AppendAscends

(* tokenizeDotted: a list of numbers that ascend, with dots from the third place on, stands  *)
(* for values that ascend.  What is read so far stays before the numbers to come.            *)
NumbersOf(tokens) == {i \in DOMAIN tokens : tokens[i] # Dots}
LEMMA TokenizedAscends ==
  ASSUME NEW T, NEW tokens \in Seq(T), NEW value, \A i \in DOMAIN tokens : value[i] \in Int,
         DOMAIN tokens \cap {1, 2} \subseteq NumbersOf(tokens),
         \A i, j \in NumbersOf(tokens) : i < j => value[i] < value[j]
  PROVE  Tokenized(tokens, value) \in Seq(Int) /\ Ascends(Tokenized(tokens, value))
<1> DEFINE n == Len(tokens)
           Before(s, i) == \A j \in NumbersOf(tokens) : i < j => \A k \in DOMAIN s : s[k] < value[j]
           Good(s, i) == Ascends(s) /\ Before(s, i) /\ (i >= 2 => Len(s) >= 2) /\ (i = 1 => Len(s) >= 1)
           A == [i \in 0 .. n |-> {s \in Seq(Int) : Good(s, i)}]
           turn(s, i) == IF tokens[i] = Dots THEN s
                         ELSE IF i > 1 /\ tokens[i - 1] = Dots THEN Dotted(s, value[i])
                         ELSE Append(s, value[i])
           step == [i \in 1 .. n |-> [s \in A[i - 1] |-> turn(s, i)]]
           loop(f) == [i \in 0 .. n |->
               IF i = 0 THEN <<>>
               ELSE IF tokens[i] = Dots THEN f[i - 1]
               ELSE IF i > 1 /\ tokens[i - 1] = Dots THEN Dotted(f[i - 1], value[i])
               ELSE Append(f[i - 1], value[i])]
           parsed == CHOOSE f : f = loop(f)
<1>1. n \in Nat /\ DOMAIN tokens = 1 .. n
  OBVIOUS
<1> HIDE DEF n
<1>2. NumbersOf(tokens) \subseteq 1 .. n /\ \A i \in 1 .. n : i \in NumbersOf(tokens) <=> tokens[i] # Dots
  BY <1>1 DEF NumbersOf
<1>3. ASSUME NEW i \in 1 .. n, NEW s \in Seq(Int), Good(s, i - 1)
      PROVE  turn(s, i) \in Seq(Int) /\ Good(turn(s, i), i)
  <2>1. CASE tokens[i] = Dots
    <3>1. i > 2
      <4>1. i # 1 /\ i # 2
        BY <1>1, <1>2, <2>1
      <4> QED
        BY <1>1, <4>1
    <3>2. i - 1 >= 2 /\ i # 1
      BY <1>1, <3>1
    <3>3. ASSUME NEW j \in NumbersOf(tokens), i < j PROVE i - 1 < j
      BY <1>1, <1>2, <3>3
    <3>4. Before(s, i)
      BY <1>3, <3>3
    <3> QED
      BY <1>3, <2>1, <3>2, <3>4
  <2>2. CASE tokens[i] # Dots
    <3>1. i \in NumbersOf(tokens) /\ value[i] \in Int
      BY <1>1, <1>2, <2>2
    <3>2. i - 1 < i
      BY <1>1
    <3>3. \A k \in DOMAIN s : s[k] < value[i]
      BY <1>3, <3>1, <3>2
    <3>4. \A j \in NumbersOf(tokens) : i < j => value[i] < value[j] /\ value[j] \in Int
      BY <1>1, <1>2, <3>1
    <3>5. CASE i > 1 /\ tokens[i - 1] = Dots
      <4> DEFINE r == Dotted(s, value[i])
      <4>1. i - 1 \in 1 .. n /\ i - 1 \notin NumbersOf(tokens)
        BY <1>1, <1>2, <3>5
      <4>2. i - 1 >= 2
        <5>1. i - 1 # 1
          BY <1>1, <4>1
        <5> QED
          BY <4>1, <5>1, <1>1
      <4>3. Len(s) >= 2 /\ Ascends(s)
        BY <1>3, <4>2
      <4>4. /\ r \in Seq(Int) /\ Ascends(r) /\ Len(r) >= 2
            /\ \A w \in Int : value[i] < w => \A k \in DOMAIN r : r[k] < w
        BY <3>1, <3>3, <4>3, DottedAscends
      <4>5. turn(s, i) = r
        BY <2>2, <3>5
      <4> HIDE DEF r
      <4>6. Before(r, i)
        BY <3>4, <4>4
      <4>7. Len(r) >= 1
        <5>1. Len(r) \in Nat
          BY <4>4
        <5> QED
          BY <4>4, <5>1
      <4> QED
        BY <4>4, <4>5, <4>6, <4>7
    <3>6. CASE ~ (i > 1 /\ tokens[i - 1] = Dots)
      <4> DEFINE r == Append(s, value[i])
      <4>1. Ascends(s)
        BY <1>3
      <4>2. /\ r \in Seq(Int) /\ Ascends(r)
            /\ \A w \in Int : value[i] < w => \A k \in DOMAIN r : r[k] < w
        BY <3>1, <3>3, <4>1, AppendAscends
      <4>3. Len(r) = Len(s) + 1 /\ Len(s) \in Nat
        BY <3>1
      <4>4. turn(s, i) = r
        BY <2>2, <3>6
      <4> HIDE DEF r
      <4>5. Before(r, i)
        BY <3>4, <4>2
      <4>6. i >= 2 => Len(s) >= 1
        <5>1. i >= 2 => i - 1 = 1 \/ i - 1 >= 2
          BY <1>1
        <5>2. i >= 2 => Len(s) >= 1 \/ Len(s) >= 2
          BY <1>3, <5>1
        <5> QED
          BY <4>3, <5>2
      <4>7. (i >= 2 => Len(r) >= 2) /\ Len(r) >= 1
        BY <4>3, <4>6
      <4> QED
        BY <4>2, <4>4, <4>5, <4>7
    <3> QED
      BY <3>5, <3>6
  <2> QED
    BY <2>1, <2>2
<1>4. Good(<<>>, 0) /\ <<>> \in Seq(Int)
  <2>1. Ascends(<<>>) /\ Before(<<>>, 0)
    BY DEF Ascends
  <2> QED
    BY <2>1
<1>5. \A i \in 0 .. n : A[i] = {s \in Seq(Int) : Good(s, i)}
  OBVIOUS
<1>6. \A i \in 1 .. n : \A s \in A[i - 1] : step[i][s] = turn(s, i)
  <2> SUFFICES ASSUME NEW i \in 1 .. n, NEW s \in A[i - 1] PROVE step[i][s] = turn(s, i)
    OBVIOUS
  <2> HIDE DEF A, turn
  <2>1. step[i] = [r \in A[i - 1] |-> turn(r, i)]
    OBVIOUS
  <2> HIDE DEF step
  <2> QED
    BY <2>1
<1> HIDE DEF A, step, Good
<1>7. \A i \in 1 .. n : \A s \in A[i - 1] : turn(s, i) \in A[i]
  <2> SUFFICES ASSUME NEW i \in 1 .. n, NEW s \in A[i - 1] PROVE turn(s, i) \in A[i]
    OBVIOUS
  <2>1. i - 1 \in 0 .. n /\ i \in 0 .. n
    BY <1>1
  <2>2. s \in Seq(Int) /\ Good(s, i - 1)
    BY <1>5, <2>1
  <2> HIDE DEF turn
  <2> QED
    BY <1>3, <1>5, <2>1, <2>2
<1>8. <<>> \in A[0]
  <2>1. 0 \in 0 .. n
    BY <1>1
  <2>2. A[0] = {s \in Seq(Int) : Good(s, 0)}
    BY <1>5, <2>1
  <2> QED
    BY <1>4, <2>2
<1>9. PICK f : Turns(f, n, <<>>, step)
  BY <1>1, Recursion
<1>10. \A i \in 0 .. n : f[i] \in A[i]
  <2> HIDE DEF turn
  <2>1. f[0] \in A[0]
    BY <1>8, <1>9 DEF Turns
  <2>2. \A i \in 1 .. n : f[i - 1] \in A[i - 1] => f[i] \in A[i]
    BY <1>6, <1>7, <1>9 DEF Turns
  <2> QED
    BY <1>1, <2>1, <2>2, Induction
<1>11. f = loop(f)
  <2>1. ASSUME NEW i \in 0 .. n
        PROVE  f[i] = IF i = 0 THEN <<>> ELSE turn(f[i - 1], i)
    <3> HIDE DEF turn
    <3>1. CASE i = 0
      BY <1>9, <3>1 DEF Turns
    <3>2. CASE i # 0
      <4>1. i \in 1 .. n /\ i - 1 \in 0 .. n
        BY <1>1, <3>2
      <4>2. f[i] = step[i][f[i - 1]]
        BY <1>9, <4>1 DEF Turns
      <4> QED
        BY <1>6, <1>10, <3>2, <4>1, <4>2
    <3> QED
      BY <3>1, <3>2
  <2>2. f = [i \in 0 .. n |-> f[i]]
    BY <1>9 DEF Turns
  <2> QED
    BY <2>1, <2>2
<1>12. parsed = loop(parsed)
  <2> HIDE DEF loop
  <2> QED
    BY <1>11
<1> HIDE DEF parsed
<1>13. \A i \in 0 .. n : parsed[i] \in A[i]
  <2>1. parsed[0] \in A[0]
    BY <1>1, <1>8, <1>12
  <2>2. \A i \in 1 .. n : parsed[i - 1] \in A[i - 1] => parsed[i] \in A[i]
    <3> SUFFICES ASSUME NEW i \in 1 .. n, parsed[i - 1] \in A[i - 1] PROVE parsed[i] \in A[i]
      OBVIOUS
    <3>1. i \in 0 .. n /\ i # 0
      BY <1>1
    <3>2. parsed[i] = turn(parsed[i - 1], i)
      BY <1>12, <3>1
    <3> HIDE DEF turn
    <3> QED
      BY <1>7, <3>2
  <2> QED
    BY <1>1, <2>1, <2>2, Induction
<1>14. Tokenized(tokens, value) = parsed[n]
  BY DEF Tokenized, parsed, n
<1>15. parsed[n] \in Seq(Int) /\ Good(parsed[n], n)
  BY <1>1, <1>5, <1>13
<1> QED
  BY <1>14, <1>15 DEF Good

-----------------------------------------------------------------------------
(* The times that are asked for ascend, which the code does not test: numbers that ascend in *)
(* every list, and dots only after two of them.                                              *)
TimesAscend ==
    \A spec \in TimeSpecs :
        LET value == TimeValues(spec, OldValues[1], OldValues[N])
            numbers == NumbersOf(spec.tokens)
        IN /\ \A i \in DOMAIN spec.tokens : value[i] \in Int
           /\ DOMAIN spec.tokens \cap {1, 2} \subseteq numbers
           /\ \A i, j \in numbers : i < j => value[i] < value[j]

(* Another change takes the unit of the new values for that of the old ones: it comes only   *)
(* after changes that keep the unit.                                                         *)
UnitIsKept == MaxTimeChanges = 1 \/ \A spec \in TimeSpecs : spec.epoch = 0

(* What the mapping and the times of the old positions are once the axis was changed; and a  *)
(* slice that was read is the one that they give.                                            *)
TimesChanged ==
    /\ newValues \in Seq(Int) /\ Ascends(newValues)
    /\ timeChangeMap = [i \in DOMAIN newValues |-> OldPositions(LowerBound(OldValues, 1, NewTime(i)))]
    /\ dataReaderTimesInNewUnits = [i \in 1 .. N |-> OldValues[i] - epoch]
SliceAt(pos) ==
    LET pair == timeChangeMap[pos]
        a == OldValues[pair[1]]
        b == OldValues[pair[2]]
        ta == dataReaderTimesInNewUnits[pair[1]]
        tb == dataReaderTimesInNewUnits[pair[2]]
    IN IF {pair[1], pair[2]} \cap TimePresent = {} THEN NoSlice
       ELSE IF pair[1] \notin TimePresent THEN [pos |-> pos, num |-> b, den |-> 1]
       ELSE IF pair[2] \notin TimePresent \/ ta = tb THEN [pos |-> pos, num |-> a, den |-> 1]
       ELSE [pos |-> pos, num |-> a * (tb - ta) + (newValues[pos] - ta) * (b - a), den |-> tb - ta]
TimeInv ==
    /\ timeChanges \in Nat /\ epoch \in Int
    /\ timeChanges < MaxTimeChanges => epoch = 0
    /\ timeChanges > 0 => TimesChanged
    /\ slice # NoSlice => timeChanges > 0 /\ slice.pos \in DOMAIN newValues /\ slice = SliceAt(slice.pos)

\* The three parts of the induction: the constructor, changeTimeAxis, and a read.
LEMMA TimeInitially ==
  ASSUME TimeInit
  PROVE  TimeInv
  BY DEF TimeInit, TimeInv

LEMMA TimeChangeKeeps ==
  ASSUME TimesAscend, UnitIsKept, TimeInv, NEW spec \in TimeSpecs, ChangeTimeAxis(spec)
  PROVE  TimeInv'
<1> DEFINE oldTimes == [i \in 1 .. N |-> OldValues[i] + epoch]
           new == TimeSteps(spec, oldTimes[1], oldTimes[N])
<1>1. epoch = 0 /\ timeChanges \in Nat
  BY DEF TimeInv, ChangeTimeAxis
<1>2. oldTimes = OldValues
  <2>1. \A i \in 1 .. N : OldValues[i] + epoch = OldValues[i]
    BY <1>1, OldTimes
  <2>2. oldTimes = [i \in 1 .. N |-> OldValues[i]]
    BY <2>1
  <2> QED
    BY <2>2, OldTimes
<1>3. new = TimeSteps(spec, OldValues[1], OldValues[N])
  BY <1>2
<1>4. /\ timeChanges' = timeChanges + 1 /\ epoch' = spec.epoch /\ slice' = NoSlice
      /\ timeChangeMap' = TimeMapping(OldValues, new)
      /\ newValues' = [i \in DOMAIN new |-> new[i] - spec.epoch]
      /\ dataReaderTimesInNewUnits' = [i \in 1 .. N |-> OldValues[i] - spec.epoch]
  <2>1. dataReaderTimesInNewUnits' = [i \in 1 .. N |-> oldTimes[i] - spec.epoch]
    BY DEF ChangeTimeAxis
  <2>2. timeChangeMap' = TimeMapping(oldTimes, new)
    BY DEF ChangeTimeAxis
  <2> QED
    BY <1>2, <2>1, <2>2 DEF ChangeTimeAxis
<1> HIDE DEF oldTimes, new
<1>5. spec.epoch \in Int /\ spec.tokens \in Seq([n : Int, x : BOOLEAN, sign : STRING])
  BY TimeAssumption
<1>6. new \in Seq(Int) /\ Ascends(new)
  <2> DEFINE value == TimeValues(spec, OldValues[1], OldValues[N])
  <2>1. /\ \A i \in DOMAIN spec.tokens : value[i] \in Int
        /\ DOMAIN spec.tokens \cap {1, 2} \subseteq NumbersOf(spec.tokens)
        /\ \A i, j \in NumbersOf(spec.tokens) : i < j => value[i] < value[j]
    BY DEF TimesAscend
  <2>2. new = Tokenized(spec.tokens, value)
    BY <1>3 DEF TimeSteps
  <2> HIDE DEF value
  <2> QED
    BY <1>5, <2>1, <2>2, TokenizedAscends
<1>7. DOMAIN newValues' = DOMAIN new /\ \A i \in DOMAIN new : newValues'[i] = new[i] - spec.epoch /\ new[i] \in Int
  BY <1>4, <1>6
<1>8. newValues' \in Seq(Int)
  <2>1. \A i \in 1 .. Len(new) : new[i] - spec.epoch \in Int
    BY <1>5, <1>6
  <2>2. newValues' = [i \in 1 .. Len(new) |-> new[i] - spec.epoch] /\ Len(new) \in Nat
    BY <1>4, <1>6
  <2> QED
    BY <2>1, <2>2
<1>9. Ascends(newValues)'
  BY <1>5, <1>6, <1>7 DEF Ascends
<1>10. timeChangeMap' = [i \in DOMAIN newValues' |-> OldPositions(LowerBound(OldValues, 1, NewTime(i)'))]
  <2>1. timeChangeMap' = [i \in DOMAIN new |-> OldPositions(LowerBound(OldValues, 1, new[i]))]
    BY <1>4, <1>6, MappedByLowerBound
  <2>2. \A i \in DOMAIN new : NewTime(i)' = new[i]
    BY <1>4, <1>5, <1>7 DEF NewTime
  <2> QED
    BY <1>7, <2>1, <2>2
<1>11. TimesChanged'
  BY <1>4, <1>8, <1>9, <1>10 DEF TimesChanged
<1>12. timeChanges' < MaxTimeChanges => epoch' = 0
  BY <1>1, <1>4 DEF UnitIsKept
<1> QED
  BY <1>1, <1>4, <1>5, <1>11, <1>12 DEF TimeInv

LEMMA TimeSliceKeeps ==
  ASSUME TimeInv, NEW pos \in DOMAIN newValues, GetTimeSlice(pos)
  PROVE  TimeInv'
<1>1. /\ timeChanges > 0 /\ slice' = SliceAt(pos)
      /\ UNCHANGED <<epoch, newValues, timeChangeMap, dataReaderTimesInNewUnits, timeChanges>>
  BY DEF GetTimeSlice, SliceAt
<1>2. slice' = NoSlice \/ slice'.pos = pos
  BY <1>1 DEF SliceAt
<1>3. TimesChanged' = TimesChanged
  BY <1>1 DEF TimesChanged, NewTime
<1>4. ASSUME slice' # NoSlice PROVE (slice = SliceAt(slice.pos))'
  <2>1. slice'.pos = pos /\ slice' = SliceAt(pos)
    BY <1>1, <1>2, <1>4
  <2>2. (SliceAt(slice.pos))' = SliceAt(slice'.pos)
    BY <1>1 DEF SliceAt
  <2> QED
    BY <2>1, <2>2
<1>5. (slice # NoSlice => timeChanges > 0 /\ slice.pos \in DOMAIN newValues /\ slice = SliceAt(slice.pos))'
  <2> SUFFICES ASSUME slice' # NoSlice
               PROVE  (timeChanges > 0 /\ slice.pos \in DOMAIN newValues /\ slice = SliceAt(slice.pos))'
    BY DEF NoSlice
  <2> QED
    BY <1>1, <1>2, <1>4
<1>6. (timeChanges \in Nat /\ epoch \in Int /\ (timeChanges < MaxTimeChanges => epoch = 0)
       /\ (timeChanges > 0 => TimesChanged))'
  BY <1>1, <1>3 DEF TimeInv
<1> QED
  BY <1>5, <1>6 DEF TimeInv

(* A new time with two neighbours is between two old times next to each other, and those are *)
(* what its position is mapped to.                                                           *)
LEMMA MappedToNeighbours ==
  ASSUME NEW pos, NewTime(pos) \in Int, Cardinality(Neighbours(pos)) = 2
  PROVE  \E k \in 2 .. N : /\ OldPositions(LowerBound(OldValues, 1, NewTime(pos))) = <<k - 1, k>>
                           /\ Neighbours(pos) = {k - 1, k} /\ k - 1 \in 1 .. N
<1> DEFINE t == NewTime(pos)
           p == LowerBound(OldValues, 1, t)
           Within(i) == OldValues[i] <= t /\ \A j \in 1 .. N : OldValues[j] <= t => j <= i
           Beyond(i) == OldValues[i] >= t /\ \A j \in 1 .. N : OldValues[j] >= t => i <= j
<1>1. /\ p \in 1 .. N
      /\ \A i \in 1 .. N : i < p => OldValues[i] < t
      /\ t <= OldValues[p] \/ (p = N /\ OldValues[N] < t)
  BY OldTimes, LowerBoundIsFirst
<1>2. Neighbours(pos) = {i \in 1 .. N : Within(i) \/ Beyond(i)}
  BY DEF Neighbours
<1>3. ASSUME NEW i, Neighbours(pos) \subseteq {i} PROVE FALSE
  <2>1. Neighbours(pos) = {} \/ Neighbours(pos) = {i}
    BY <1>3
  <2>2. Cardinality({}) = 0 /\ Cardinality({i}) = 1
    BY FS_EmptySet, FS_Singleton
  <2> QED
    BY <2>1, <2>2
<1> HIDE DEF p, t
<1>4. t \in Int
  BY DEF t
<1>5. \A i \in 1 .. N : p <= i => OldValues[p] <= OldValues[i]
  BY <1>1, OldTimes
<1>6. OldValues[p] > t
  <2> SUFFICES ASSUME OldValues[p] <= t PROVE FALSE
    BY <1>1, <1>4, OldTimes
  <2>1. \A i \in Neighbours(pos) : i = p
    <3> SUFFICES ASSUME NEW i \in 1 .. N, Within(i) \/ Beyond(i) PROVE i = p
      BY <1>2
    <3>1. CASE Within(i)
      <4>1. p <= i /\ OldValues[i] <= t
        BY <1>1, <3>1
      <4>2. ~ (p < i)
        BY <1>1, <1>4, <4>1, OldTimes
      <4> QED
        BY <1>1, <4>1, <4>2
    <3>2. CASE Beyond(i)
      <4>1. OldValues[i] >= t /\ OldValues[p] \in Int /\ OldValues[i] \in Int
        BY <1>1, <3>2, OldTimes
      <4>2. ~ (i < p)
        BY <1>1, <1>4, <4>1
      <4>3. p < i => OldValues[p] < t
        <5>1. ~ (OldValues[p] >= t) \/ i <= p
          BY <1>1, <3>2
        <5> QED
          BY <1>1, <1>4, <4>1, <5>1
      <4>4. ~ (p < i)
        <5>1. p < i => p = N
          BY <1>1, <1>4, <4>1, <4>3
        <5> QED
          BY <1>1, <5>1, OldTimes
      <4> QED
        BY <1>1, <4>2, <4>4
    <3> QED
      BY <3>1, <3>2
  <2> QED
    BY <1>3, <2>1
<1>7. \A i \in 1 .. N : Beyond(i) => i = p
  <2> SUFFICES ASSUME NEW i \in 1 .. N, Beyond(i) PROVE i = p
    OBVIOUS
  <2>1. i <= p /\ OldValues[i] >= t
    BY <1>1, <1>4, <1>6, OldTimes
  <2>2. ~ (i < p)
    BY <1>1, <1>4, <2>1, OldTimes
  <2> QED
    BY <1>1, <2>1, <2>2
<1>8. \A i \in 1 .. N : Within(i) => i = p - 1 /\ p - 1 >= 1
  <2> SUFFICES ASSUME NEW i \in 1 .. N, Within(i) PROVE i = p - 1 /\ p - 1 >= 1
    OBVIOUS
  <2>1. OldValues[i] <= t
    OBVIOUS
  <2>2. i < p
    BY <1>1, <1>4, <1>5, <1>6, <2>1, OldTimes
  <2>3. p - 1 \in 1 .. N /\ p - 1 < p
    BY <1>1, <2>2, OldTimes
  <2>4. OldValues[p - 1] < t /\ OldValues[p - 1] \in Int
    BY <1>1, <2>3, OldTimes
  <2>5. p - 1 <= i
    BY <1>4, <2>3, <2>4
  <2> QED
    BY <1>1, <2>2, <2>3, <2>5
<1>9. p - 1 \in 1 .. N /\ Neighbours(pos) = {p - 1, p}
  <2>1. \A i \in Neighbours(pos) : i = p \/ (i = p - 1 /\ p - 1 >= 1)
    BY <1>2, <1>7, <1>8
  <2> HIDE DEF Within, Beyond
  <2>2. PICK i \in Neighbours(pos) : i # p
    BY <1>3
  <2>3. p - 1 \in Neighbours(pos) /\ p - 1 >= 1
    BY <2>1, <2>2
  <2>4. PICK j \in Neighbours(pos) : j # p - 1
    BY <1>3
  <2>5. p \in Neighbours(pos)
    BY <2>1, <2>4
  <2>6. p - 1 \in 1 .. N
    BY <1>1, <2>3, OldTimes
  <2> QED
    BY <2>1, <2>3, <2>5, <2>6
<1>10. OldPositions(p) = <<p - 1, p>>
  BY <1>1, <1>9 DEF OldPositions
<1> QED
  BY <1>1, <1>9, <1>10 DEF p, t

\* The mean of two times, weighted by the distances, is the time itself; e is the new epoch.
LEMMA MeanIsTheTime ==
  ASSUME NEW a \in Int, NEW b \in Int, NEW v \in Int, NEW e \in Int
  PROVE  a * ((b - e) - (a - e)) + (v - (a - e)) * (b - a) = (v + e) * ((b - e) - (a - e))
<1>1. (b - e) - (a - e) = b - a
  OBVIOUS
<1>2. PICK d \in Int : d = b - a
  OBVIOUS
<1>3. a * d + (v - (a - e)) * d = (v + e) * d
  BY SMT
<1> QED
  BY <1>1, <1>2, <1>3

\* The property from the invariant.
LEMMA SlicesOfNewTimes ==
  ASSUME TimeInv
  PROVE  SliceOfNewTime
<1>1. timeChanges > 0 => \A pos \in 1 .. Len(newValues) - 1 : newValues[pos] < newValues[pos + 1]
  <2> SUFFICES ASSUME timeChanges > 0, NEW pos \in 1 .. Len(newValues) - 1
               PROVE  newValues[pos] < newValues[pos + 1]
    OBVIOUS
  <2>1. newValues \in Seq(Int) /\ Ascends(newValues)
    BY DEF TimeInv, TimesChanged
  <2>2. pos \in DOMAIN newValues /\ pos + 1 \in DOMAIN newValues /\ pos < pos + 1
    BY <2>1
  <2> QED
    BY <2>1, <2>2 DEF Ascends
<1>2. ASSUME slice # NoSlice, Cardinality(Neighbours(slice.pos)) = 2
      PROVE  IF Neighbours(slice.pos) \subseteq TimePresent
             THEN slice.num = NewTime(slice.pos) * slice.den
             ELSE \E i \in Neighbours(slice.pos) \cap TimePresent : slice.num = OldValues[i] * slice.den
  <2> DEFINE pos == slice.pos
  <2>1. TimesChanged /\ epoch \in Int /\ pos \in DOMAIN newValues /\ slice = SliceAt(pos)
    BY <1>2 DEF TimeInv
  <2> HIDE DEF pos
  <2>2. newValues[pos] \in Int /\ NewTime(pos) = newValues[pos] + epoch /\ NewTime(pos) \in Int
    BY <2>1 DEF TimesChanged, NewTime
  <2>3. PICK k \in 2 .. N : /\ OldPositions(LowerBound(OldValues, 1, NewTime(pos))) = <<k - 1, k>>
                            /\ Neighbours(pos) = {k - 1, k} /\ k - 1 \in 1 .. N
    BY <1>2, <2>2, MappedToNeighbours DEF pos
  <2>4. timeChangeMap[pos] = <<k - 1, k>>
    BY <2>1, <2>3 DEF TimesChanged
  <2>5. k \in 1 .. N /\ k - 1 < k
    BY <2>3
  <2> DEFINE a == OldValues[k - 1]
             b == OldValues[k]
             ta == a - epoch
             tb == b - epoch
  <2>6. a \in Int /\ b \in Int /\ a < b
    BY <2>3, <2>5, OldTimes
  <2>7. dataReaderTimesInNewUnits[k - 1] = ta /\ dataReaderTimesInNewUnits[k] = tb
    BY <2>1, <2>3, <2>5 DEF TimesChanged
  <2> HIDE DEF a, b
  <2>8. ta # tb
    BY <2>1, <2>6
  <2>9. slice =
          IF {k - 1, k} \cap TimePresent = {} THEN NoSlice
          ELSE IF k - 1 \notin TimePresent THEN [pos |-> pos, num |-> b, den |-> 1]
          ELSE IF k \notin TimePresent THEN [pos |-> pos, num |-> a, den |-> 1]
          ELSE [pos |-> pos, num |-> a * (tb - ta) + (newValues[pos] - ta) * (b - a), den |-> tb - ta]
    BY <2>1, <2>4, <2>7, <2>8 DEF SliceAt, a, b
  <2>10. CASE k - 1 \in TimePresent /\ k \in TimePresent
    <3>1. slice.num = a * (tb - ta) + (newValues[pos] - ta) * (b - a) /\ slice.den = tb - ta
      BY <2>9, <2>10
    <3>2. slice.num = (newValues[pos] + epoch) * slice.den
      BY <2>1, <2>2, <2>6, <3>1, MeanIsTheTime
    <3>3. Neighbours(pos) \subseteq TimePresent
      BY <2>3, <2>10
    <3> QED
      BY <2>2, <3>2, <3>3 DEF pos
  <2>11. CASE k - 1 \in TimePresent /\ k \notin TimePresent
    <3>1. slice.num = a /\ slice.den = 1
      BY <2>9, <2>11
    <3>2. slice.num = a * slice.den
      BY <2>6, <3>1
    <3> QED
      BY <2>3, <2>11, <3>2 DEF pos, a
  <2>12. CASE k - 1 \notin TimePresent
    <3>1. k \in TimePresent
      BY <1>2, <2>9, <2>12
    <3>2. slice.num = b /\ slice.den = 1
      BY <2>9, <2>12, <3>1
    <3>3. slice.num = b * slice.den
      BY <2>6, <3>2
    <3> QED
      BY <2>3, <2>12, <3>1, <3>3 DEF pos, b
  <2> QED
    BY <2>10, <2>11, <2>12
<1> QED
  BY <1>1, <1>2 DEF SliceOfNewTime

(* For every axis, list of times and variable with data at any of the old times: a slice at  *)
(* a new time between two old ones is made of these two, weighted as the time is between     *)
(* them, or is the one that has data; and the new axis ascends.                              *)
THEOREM NewTimesAreInterpolated ==
  ASSUME TimesAscend, UnitIsKept
  PROVE  TimeIpSpec => []SliceOfNewTime
<1>1. TimeInit => TimeInv
  BY TimeInitially
<1>2. TimeInv /\ [TimeNext]_timeVars => TimeInv'
  <2>1. ASSUME TimeInv, UNCHANGED timeVars PROVE TimeInv'
    BY <2>1 DEF TimeInv, TimesChanged, NewTime, SliceAt, timeVars
  <2> QED
    BY <2>1, TimeChangeKeeps, TimeSliceKeeps DEF TimeNext
<1>3. TimeInv => SliceOfNewTime
  BY SlicesOfNewTimes
<1> QED
  BY <1>1, <1>2, <1>3, PTL DEF TimeIpSpec

-----------------------------------------------------------------------------
(* CachedForwardInterpolation.  The lists of the constructor hold the cells of the input, each  *)
(* once (InOrderHasAll), and find them in what is read of it (FindsItsValue).  What one thread  *)
(* has pushed for a cell of the output are the defined values of the cells it has visited       *)
(* (Gathered), so that the aggregator's sum is the one over a set, in whatever order            *)
(* (SumOverMore), and its extremes are those of all values.                                     *)

\* InOrder gives a finite set of numbers, each once, the smaller first.
LEMMA InOrderHasAll ==
  ASSUME NEW S, S \subseteq Int, IsFiniteSet(S)
  PROVE  /\ InOrder(S) \in [1 .. Cardinality(S) -> S] /\ Range(InOrder(S)) = S
         /\ \A i, j \in 1 .. Cardinality(S) : i < j => InOrder(S)[i] < InOrder(S)[j]
<1> DEFINE size == Cardinality(S)
           below(x) == {y \in S : y < x}
           rank == [x \in S |-> Cardinality(below(x)) + 1]
           at(i) == CHOOSE x \in S : Cardinality(below(x)) = i - 1
<1>0. \A x \in S : x \in Int
  OBVIOUS
<1>1. size \in Nat
  BY FS_CardinalityType
<1>2. \A x \in S : IsFiniteSet(below(x)) /\ Cardinality(below(x)) \in 0 .. size - 1
  <2> SUFFICES ASSUME NEW x \in S PROVE IsFiniteSet(below(x)) /\ Cardinality(below(x)) \in 0 .. size - 1
    OBVIOUS
  <2>1. below(x) \in SUBSET S /\ x \notin below(x)
    OBVIOUS
  <2>2. IsFiniteSet(below(x)) /\ Cardinality(below(x)) <= size /\ Cardinality(below(x)) # size
    BY <2>1, FS_Subset
  <2>3. Cardinality(below(x)) \in Nat
    BY <2>2, FS_CardinalityType
  <2> HIDE DEF below, size
  <2> QED
    BY <1>1, <2>2, <2>3
<1>3. ASSUME NEW x \in S, NEW y \in S, x < y PROVE Cardinality(below(x)) < Cardinality(below(y))
  <2>1. below(x) \cup {x} \subseteq below(y) /\ x \notin below(x)
    <3>1. ASSUME NEW z \in S, z < x PROVE z < y
      <4>1. z \in Int /\ x \in Int /\ y \in Int
        BY <1>0
      <4> QED
        BY <1>3, <3>1, <4>1
    <3>2. \A z \in below(x) : z \in below(y)
      BY <3>1
    <3>3. x \in below(y)
      BY <1>3
    <3>4. x \notin below(x)
      BY <1>0
    <3> HIDE DEF below
    <3> QED
      BY <3>2, <3>3, <3>4
  <2>2. Cardinality(below(x) \cup {x}) = Cardinality(below(x)) + 1
    BY <1>2, <2>1, FS_AddElement
  <2>3. Cardinality(below(x) \cup {x}) <= Cardinality(below(y))
    <3>1. IsFiniteSet(below(y)) /\ below(x) \cup {x} \in SUBSET below(y)
      BY <1>2, <2>1
    <3> HIDE DEF below
    <3> QED
      BY <3>1, FS_Subset
  <2> HIDE DEF below, size
  <2> QED
    BY <1>1, <1>2, <2>2, <2>3
<1> HIDE DEF below, size
<1>12. \A x, y \in S : x < y => Cardinality(below(x)) < Cardinality(below(y))
  BY <1>3
<1>13. \A x \in S : Cardinality(below(x)) \in Int
  BY <1>1, <1>2
<1>4. rank \in Injection(S, 1 .. size)
  <2>1. rank \in [S -> 1 .. size]
    BY <1>1, <1>2
  <2>2. ASSUME NEW x \in S, NEW y \in S, rank[x] = rank[y] PROVE x = y
    <3>1. Cardinality(below(x)) = Cardinality(below(y))
      BY <1>13, <2>2
    <3>2. ~ (x < y) /\ ~ (y < x)
      BY <1>12, <1>13, <3>1
    <3> QED
      BY <3>2
  <2> HIDE DEF rank
  <2> QED
    BY <2>1, <2>2 DEF Injection, IsInjective
<1>5. rank \in Surjection(S, 1 .. size)
  <2>1. IsFiniteSet(1 .. size) /\ Cardinality(1 .. size) = size
    BY <1>1, FS_Interval
  <2> HIDE DEF rank
  <2> QED
    BY <1>4, <2>1, FS_Injection DEF size
<1>6. \A i \in 1 .. size : at(i) \in S /\ Cardinality(below(at(i))) = i - 1
  <2> SUFFICES ASSUME NEW i \in 1 .. size PROVE \E x \in S : Cardinality(below(x)) = i - 1
    OBVIOUS
  <2>1. PICK x \in S : rank[x] = i
    <3> HIDE DEF rank
    <3> QED
      BY <1>5 DEF Surjection
  <2>2. rank[x] = Cardinality(below(x)) + 1 /\ Cardinality(below(x)) \in Int
    BY <1>13
  <2>3. Cardinality(below(x)) = i - 1
    BY <2>1, <2>2
  <2> QED
    BY <2>3
<1>7. InOrder(S) = [i \in 1 .. size |-> at(i)]
  BY DEF InOrder, below, size
<1> HIDE DEF at, rank
<1>8. \A x \in S : \E i \in 1 .. size : at(i) = x
  <2> SUFFICES ASSUME NEW x \in S PROVE \E i \in 1 .. size : at(i) = x
    OBVIOUS
  <2> DEFINE k == Cardinality(below(x)) + 1
  <2>1. k \in 1 .. size /\ Cardinality(below(x)) = k - 1
    BY <1>1, <1>2, <1>13
  <2> HIDE DEF k
  <2>2. at(k) \in S /\ Cardinality(below(at(k))) = Cardinality(below(x))
    BY <1>6, <2>1
  <2>3. ~ (x < at(k)) /\ ~ (at(k) < x)
    <3>1. Cardinality(below(x)) \in Int /\ at(k) \in S
      BY <1>13, <2>2
    <3>2. x < at(k) => Cardinality(below(x)) < Cardinality(below(at(k)))
      BY <1>12, <3>1
    <3>3. at(k) < x => Cardinality(below(at(k))) < Cardinality(below(x))
      BY <1>12, <3>1
    <3> QED
      BY <2>2, <3>1, <3>2, <3>3
  <2>5. at(k) \in Int /\ x \in Int
    BY <1>0, <2>2
  <2>4. at(k) = x
    BY <2>3, <2>5
  <2> QED
    BY <2>1, <2>4
<1>9. \A i, j \in 1 .. size : i < j => at(i) < at(j)
  <2> SUFFICES ASSUME NEW i \in 1 .. size, NEW j \in 1 .. size, i < j PROVE at(i) < at(j)
    OBVIOUS
  <2>1. at(i) \in S /\ at(j) \in S /\ Cardinality(below(at(i))) = i - 1 /\ Cardinality(below(at(j))) = j - 1
    BY <1>6
  <2>2. at(i) # at(j) /\ ~ (at(j) < at(i))
    <3>1. Cardinality(below(at(i))) < Cardinality(below(at(j)))
      BY <1>1, <2>1
    <3>2. Cardinality(below(at(i))) \in Int /\ Cardinality(below(at(j))) \in Int
      BY <1>13, <2>1
    <3>3. at(j) < at(i) => Cardinality(below(at(j))) < Cardinality(below(at(i)))
      BY <1>12, <2>1
    <3>4. at(i) = at(j) => Cardinality(below(at(i))) = Cardinality(below(at(j)))
      OBVIOUS
    <3> QED
      BY <3>1, <3>2, <3>3, <3>4
  <2>3. at(i) \in Int /\ at(j) \in Int
    BY <1>0, <2>1
  <2> QED
    BY <2>2, <2>3
<1>10. \A i \in 1 .. size : InOrder(S)[i] = at(i)
  BY <1>7
<1>11. InOrder(S) \in [1 .. size -> S] /\ DOMAIN InOrder(S) = 1 .. size
  BY <1>6, <1>7
<1> QED
  BY <1>8, <1>9, <1>10, <1>11, <1>6 DEF Range, size

\* A set of numbers up to n has a least and a greatest one.
LEMMA EndsAreIn ==
  ASSUME NEW n \in Nat, NEW S, S \subseteq 0 .. n, S # {}
  PROVE  /\ Min(S) \in S /\ Max(S) \in S
         /\ \A x \in S : Min(S) <= x /\ x <= Max(S)
<1> DEFINE T == {n - x : x \in S}
<1>0. S \subseteq Nat /\ \A x \in S : x \in Int /\ n - x \in Nat
  OBVIOUS
<1>1. \E m \in S : \A x \in S : m <= x
  <2>1. IsWellFoundedOn(OpToRel(<, Nat), Nat)
    BY NatLessThanWellFounded
  <2>2. PICK m \in S : \A x \in S : ~ (<<x, m>> \in OpToRel(<, Nat))
    BY <1>0, <2>1, WFMin
  <2>3. \A x \in S : ~ (x < m)
    BY <1>0, <2>2 DEF OpToRel
  <2> QED
    BY <1>0, <2>3
<1>2. \E m \in S : \A x \in S : x <= m
  <2>1. IsWellFoundedOn(OpToRel(<, Nat), Nat)
    BY NatLessThanWellFounded
  <2>2. T \subseteq Nat /\ T # {}
    <3>1. \A t \in T : t \in Nat
      BY <1>0
    <3>2. PICK x \in S : TRUE
      OBVIOUS
    <3>3. n - x \in T
      OBVIOUS
    <3> QED
      BY <3>1, <3>3
  <2>3. PICK t \in T : \A y \in T : ~ (<<y, t>> \in OpToRel(<, Nat))
    BY <2>1, <2>2, WFMin
  <2>4. \A y \in T : ~ (y < t)
    BY <2>2, <2>3 DEF OpToRel
  <2>5. PICK m \in S : t = n - m
    BY <2>3
  <2>6. ASSUME NEW x \in S PROVE x <= m
    <3>1. n - x \in T
      OBVIOUS
    <3>2. ~ (n - x < n - m)
      BY <2>4, <2>5, <3>1
    <3> QED
      BY <3>2
  <2> QED
    BY <2>6
<1>3. Min(S) \in S /\ \A x \in S : Min(S) <= x
  BY <1>1 DEF Min
<1>4. Max(S) \in S /\ \A x \in S : x <= Max(S)
  BY <1>2 DEF Max
<1> QED
  BY <1>3, <1>4

\* The columns, or the rows, that are read hold all that are used.
LEMMA PartHasAll ==
  ASSUME NEW n \in Nat \ {0}, NEW used, used \subseteq 0 .. n - 1
  PROVE  LET p == Part(used, n)
         IN /\ p[1] \in Nat /\ p[2] \in Nat /\ p[2] <= n - 1
            /\ \A x \in used : p[1] <= x /\ x <= p[2]
<1> DEFINE low == IF used = {} THEN 0 ELSE Min(used)
           high == IF used = {} THEN 0 ELSE Max(used)
<1>1. /\ low \in 0 .. n - 1 /\ high \in 0 .. n - 1
      /\ \A x \in used : low <= x /\ x <= high
  <2>1. CASE used = {}
    BY <2>1
  <2>2. CASE used # {}
    <3>1. low = Min(used) /\ high = Max(used)
      BY <2>2
    <3>2. Min(used) \in used /\ Max(used) \in used /\ \A x \in used : Min(used) <= x /\ x <= Max(used)
      <4>1. n - 1 \in Nat
        OBVIOUS
      <4> QED
        BY <2>2, <4>1, EndsAreIn
    <3> QED
      BY <3>1, <3>2
  <2> QED
    BY <2>1, <2>2
<1> HIDE DEF low, high
<1>2. Min({n - 1, high + Reach}) = IF n - 1 <= high + Reach THEN n - 1 ELSE high + Reach
  <2>1. {n - 1, high + Reach} \subseteq 0 .. n + 1 /\ {n - 1, high + Reach} # {}
    BY <1>1 DEF Reach
  <2>2. Min({n - 1, high + Reach}) \in {n - 1, high + Reach}
        /\ \A x \in {n - 1, high + Reach} : Min({n - 1, high + Reach}) <= x
    BY <2>1, EndsAreIn
  <2> QED
    BY <2>2, <1>1 DEF Reach
<1>3. Part(used, n) = <<IF low > Reach THEN low - Reach ELSE 0, Min({n - 1, high + Reach})>>
  BY DEF Part, low, high
<1>4. /\ Part(used, n)[1] = IF low > Reach THEN low - Reach ELSE 0
      /\ Part(used, n)[2] = IF n - 1 <= high + Reach THEN n - 1 ELSE high + Reach
  BY <1>2, <1>3
<1>5. \A x \in used : x \in Int
  OBVIOUS
<1> QED
  BY <1>1, <1>4, <1>5 DEF Reach

\* A number that is put together of a row and a column gives both back.
LEMMA DivMod ==
  ASSUME NEW a \in Int, NEW b \in Int, NEW m \in Nat \ {0}, 0 <= b, b < m
  PROVE  (a * m + b) \div m = a /\ (a * m + b) % m = b
OBVIOUS

\* And every number is put together so.
LEMMA Divided ==
  ASSUME NEW a \in Int, NEW m \in Nat \ {0}
  PROVE  a = (a \div m) * m + (a % m) /\ a \div m \in Int /\ a % m \in 0 .. m - 1
OBVIOUS

\* A cell is the one in its column and row.
LEMMA ColumnAndRow ==
  ASSUME NEW c \in Cells(InSize)
  PROVE  /\ Column(c, InSize) \in 0 .. InSize[1] - 1 /\ Row(c, InSize) \in 0 .. InSize[2] - 1
         /\ c = Row(c, InSize) * InSize[1] + Column(c, InSize)
<1>1. InSize[1] \in Nat \ {0} /\ InSize[2] \in Nat \ {0}
  BY ForwardAssumption
<1>2. c \in 0 .. InSize[1] * InSize[2] - 1 /\ c \in Int
  BY <1>1 DEF Cells
<1> DEFINE m == InSize[1]
           n == InSize[2]
           q == c \div m
           r == c % m
<1> HIDE DEF m, n, q, r
<1>3. c = q * m + r /\ q \in Int /\ r \in 0 .. m - 1
  BY <1>1, <1>2, Divided DEF m, n, q, r
<1>4. q \in 0 .. n - 1
  <2>1. c \in 0 .. m * n - 1 /\ m \in Nat \ {0} /\ n \in Nat \ {0}
    BY <1>1, <1>2 DEF m, n
  <2>2. q >= 0
    BY <1>3, <2>1
  <2>3. q < n
    BY <1>3, <2>1
  <2> QED
    BY <1>3, <2>1, <2>2, <2>3
<1> QED
  BY <1>3, <1>4 DEF Column, Row, m, n, q, r

\* The cells of the input are numbers, finitely many.
LEMMA InsideFinite ==
  ASSUME NEW pos, NEW o
  PROVE  IsFiniteSet(Inside(pos, o)) /\ Inside(pos, o) \subseteq Cells(InSize) /\ Cells(InSize) \subseteq Int
<1>1. InSize[1] * InSize[2] - 1 \in Int
  BY ForwardAssumption
<1>2. IsFiniteSet(Cells(InSize)) /\ Cells(InSize) \subseteq Int
  BY <1>1, FS_Interval DEF Cells
<1> QED
  BY <1>2, FS_Subset DEF Inside

\* The list of a cell of the output holds the cells of the input in it.
LEMMA PointsAreInside ==
  ASSUME NEW pos, NEW o \in Cells(OutSize)
  PROVE  /\ DOMAIN PointsInIn(pos)[o] = 1 .. Cardinality(Inside(pos, o))
         /\ Cardinality(Inside(pos, o)) \in Nat
         /\ Range(PointsInIn(pos)[o]) = Inside(pos, o)
         /\ \A k \in DOMAIN PointsInIn(pos)[o] : PointsInIn(pos)[o][k] \in Inside(pos, o)
         /\ \A i, j \in DOMAIN PointsInIn(pos)[o] : i < j => PointsInIn(pos)[o][i] < PointsInIn(pos)[o][j]
<1>1. PointsInIn(pos)[o] = InOrder(Inside(pos, o))
  BY DEF PointsInIn
<1>2. IsFiniteSet(Inside(pos, o)) /\ Inside(pos, o) \subseteq Int
  BY InsideFinite
<1> QED
  BY <1>1, <1>2, InOrderHasAll, FS_CardinalityType

\* The lists are as long in what is read.
LEMMA SamePlaces ==
  ASSUME fwd = Built(fwd.method, fwd.undef, fwd.pos), NEW o \in Cells(OutSize)
  PROVE  DOMAIN fwd.points[o] = DOMAIN PointsInIn(fwd.pos)[o]
<1> DEFINE p == PointsInIn(fwd.pos)
           domain == Reduced(fwd.pos)
           b == Built(fwd.method, fwd.undef, fwd.pos)
<1>1. b.points = [u \in Cells(OutSize) |-> [k \in DOMAIN p[u] |-> Moved(p[u][k], domain)]]
  BY DEF Built
<1> HIDE DEF p, b, domain
<1>2. fwd.points[o] = [k \in DOMAIN p[o] |-> Moved(p[o][k], domain)]
  BY <1>1 DEF b
<1> QED
  BY <1>2 DEF p

\* Where a cell of the input is in what is read, it finds its own value.
LEMMA FindsItsValue ==
  ASSUME NEW method, NEW undef, NEW pos, fwd = Built(method, undef, pos),
         NEW field, NEW o \in Cells(OutSize), NEW k \in DOMAIN PointsInIn(pos)[o]
  PROVE  /\ DOMAIN fwd.points[o] = DOMAIN PointsInIn(pos)[o]
         /\ Value(field, fwd.points[o][k]) = field[PointsInIn(pos)[o][k]]
<1> DEFINE x == Part({Column(d, InSize) : d \in UsedCells(pos)}, InSize[1])
           y == Part({Row(d, InSize) : d \in UsedCells(pos)}, InSize[2])
           reduce == /\ x[1] > 0 \/ y[1] > 0 \/ x[2] < InSize[1] - 1 \/ y[2] < InSize[2] - 1
                     /\ x[1] + 2 * Reach <= x[2] /\ y[1] + 2 * Reach <= y[2]
           size == IF reduce THEN <<x[2] - x[1] + 1, y[2] - y[1] + 1>> ELSE InSize
           min == IF reduce THEN <<x[1], y[1]>> ELSE <<0, 0>>
           c == PointsInIn(pos)[o][k]
           m == Moved(c, Reduced(pos))
<1>1. /\ fwd.in = size /\ fwd.min = min
      /\ DOMAIN fwd.points[o] = DOMAIN PointsInIn(pos)[o]
      /\ fwd.points[o][k] = m
      /\ Reduced(pos).in = size /\ Reduced(pos).min = min
  <2>1. Reduced(pos).in = size /\ Reduced(pos).min = min
    BY DEF Reduced
  <2> HIDE DEF size, min
  <2> QED
    BY <2>1 DEF Built
<1>2. c \in UsedCells(pos) /\ c \in Cells(InSize) /\ UsedCells(pos) \subseteq Cells(InSize)
  BY PointsAreInside, InsideFinite DEF UsedCells
<1>3. InSize[1] \in Nat \ {0} /\ InSize[2] \in Nat \ {0}
  BY ForwardAssumption
<1> DEFINE col == Column(c, InSize)
           row == Row(c, InSize)
<1>4. col \in 0 .. InSize[1] - 1 /\ row \in 0 .. InSize[2] - 1 /\ c = row * InSize[1] + col
  BY <1>2, ColumnAndRow
<1>5. /\ x[1] \in Nat /\ x[2] \in Nat /\ x[2] <= InSize[1] - 1 /\ x[1] <= col /\ col <= x[2]
  <2>1. {Column(d, InSize) : d \in UsedCells(pos)} \subseteq 0 .. InSize[1] - 1
    BY <1>2, ColumnAndRow
  <2>2. col \in {Column(d, InSize) : d \in UsedCells(pos)}
    BY <1>2
  <2> QED
    BY <1>3, <2>1, <2>2, PartHasAll
<1>6. /\ y[1] \in Nat /\ y[2] \in Nat /\ y[2] <= InSize[2] - 1 /\ y[1] <= row /\ row <= y[2]
  <2>1. {Row(d, InSize) : d \in UsedCells(pos)} \subseteq 0 .. InSize[2] - 1
    BY <1>2, ColumnAndRow
  <2>2. row \in {Row(d, InSize) : d \in UsedCells(pos)}
    BY <1>2
  <2> QED
    BY <1>3, <2>1, <2>2, PartHasAll
<1> HIDE DEF x, y, col, row
<1>7. /\ size[1] \in Nat \ {0} /\ min[1] \in Int /\ min[2] \in Int
      /\ 0 <= col - min[1] /\ col - min[1] < size[1] /\ col \in Int /\ row \in Int
  BY <1>3, <1>4, <1>5, <1>6
<1>8. m = (row - min[2]) * size[1] + (col - min[1])
  <2>1. m = (row - min[2]) * size[1] + col - min[1]
    BY <1>1 DEF row, col, Moved
  <2> DEFINE s == size[1]
             u == min[1]
             v == min[2]
  <2>2. s \in Int /\ u \in Int /\ v \in Int
    BY <1>7
  <2> HIDE DEF s, u, v, m
  <2>3. m = (row - v) * s + col - u
    BY <2>1 DEF s, u, v
  <2> QED
    BY <1>7, <2>2, <2>3 DEF s, u, v
<1> HIDE DEF m, size, min
<1>9. Row(m, size) = row - min[2] /\ Column(m, size) = col - min[1]
  <2>1. row - min[2] \in Int /\ col - min[1] \in Int
    BY <1>7
  <2> QED
    BY <1>7, <1>8, <2>1, DivMod DEF Row, Column
<1>10. (Row(m, size) + min[2]) * InSize[1] + Column(m, size) + min[1] = c
  <2>1. Row(m, size) + min[2] = row /\ Column(m, size) + min[1] = col
    BY <1>7, <1>9
  <2>2. (Row(m, size) + min[2]) * InSize[1] + Column(m, size) + min[1] = row * InSize[1] + (Column(m, size) + min[1])
    BY <1>3, <1>7, <1>9, <2>1
  <2> QED
    BY <1>4, <2>1, <2>2
<1>11. Value(field, m) = field[c]
  BY <1>1, <1>10 DEF Value
<1> QED
  BY <1>1, <1>11

\* A loop that stays among V.
Looped(f, n, a, step) == f = [k \in 0 .. n |-> IF k = 0 THEN a ELSE step[k][f[k - 1]]]
LEMMA Looping ==
  ASSUME NEW n \in Nat, NEW V, NEW a \in V, NEW step \in [1 .. n -> [V -> V]]
  PROVE  \E f \in [0 .. n -> V] : Looped(f, n, a, step)
<1>1. PICK f : Turns(f, n, a, step)
  BY Recursion
<1> DEFINE A == [i \in 0 .. n |-> V]
<1>2. \A i \in 0 .. n : f[i] \in A[i]
  <2>1. f[0] \in A[0]
    BY <1>1 DEF Turns
  <2>2. \A i \in 1 .. n : f[i - 1] \in A[i - 1] => f[i] \in A[i]
    BY <1>1 DEF Turns
  <2> HIDE DEF A
  <2> QED
    BY <2>1, <2>2, Induction
<1>3. f \in [0 .. n -> V]
  BY <1>1, <1>2 DEF Turns
<1>4. \A k \in 0 .. n : f[k] = IF k = 0 THEN a ELSE step[k][f[k - 1]]
  BY <1>1 DEF Turns
<1>5. Looped(f, n, a, step)
  BY <1>3, <1>4 DEF Looped
<1> QED
  BY <1>3, <1>5

Alike(upto, step, m) == \A i \in 1 .. m : upto[i] = step[i]
SameLoops(f, n, step, g, m, upto, a) ==
    /\ n \in Nat /\ m \in 0 .. n /\ Looped(f, n, a, step) /\ Looped(g, m, a, upto) /\ Alike(upto, step, m)
EndAlike(f, g, m) == f[m] = g[m]
\* Two loops with the same turns have the same values.
LEMMA LoopedOnce ==
  ASSUME NEW n, NEW m, NEW a, NEW step, NEW upto, NEW f, NEW g, SameLoops(f, n, step, g, m, upto, a)
  PROVE  EndAlike(f, g, m)
<1> USE DEF SameLoops
<1> DEFINE A == [i \in 0 .. m |-> {g[i]}]
<1>0. /\ f[0] = a /\ g[0] = a /\ m \in Nat
      /\ \A i \in 1 .. m : f[i] = step[i][f[i - 1]] /\ g[i] = step[i][g[i - 1]]
  <2>1. f = [k \in 0 .. n |-> IF k = 0 THEN a ELSE step[k][f[k - 1]]]
        /\ g = [k \in 0 .. m |-> IF k = 0 THEN a ELSE upto[k][g[k - 1]]]
    BY DEF Looped
  <2>2. f[0] = a /\ g[0] = a /\ m \in Nat
    BY <2>1
  <2>3. ASSUME NEW i \in 1 .. m PROVE f[i] = step[i][f[i - 1]] /\ g[i] = step[i][g[i - 1]]
    <3>1. i \in 0 .. n /\ i \in 0 .. m /\ i # 0
      OBVIOUS
    <3>2. upto[i] = step[i]
      BY DEF Alike
    <3>3. f[i] = step[i][f[i - 1]]
      BY <2>1, <3>1
    <3>4. g[i] = upto[i][g[i - 1]]
      BY <2>1, <3>1
    <3> QED
      BY <3>2, <3>3, <3>4
  <2> QED
    BY <2>2, <2>3
<1>1. f[0] \in A[0]
  BY <1>0
<1>2. \A i \in 1 .. m : f[i - 1] \in A[i - 1] => f[i] \in A[i]
  BY <1>0
<1>3. \A i \in 0 .. m : f[i] \in A[i]
  <2> HIDE DEF A
  <2> QED
    BY <1>0, <1>1, <1>2, Induction
<1> QED
  BY <1>3 DEF EndAlike

\* Total as such a loop.
Adds(s) == [k \in 1 .. Len(s) |-> [v \in Int |-> v + s[k]]]
LEMMA TotalLoops ==
  ASSUME NEW s \in Seq(Int)
  PROVE  \E f \in [0 .. Len(s) -> Int] : Looped(f, Len(s), 0, Adds(s)) /\ Total(s) = f[Len(s)]
<1> DEFINE Val(f) == f = [k \in 0 .. Len(s) |-> IF k = 0 THEN 0 ELSE f[k - 1] + s[k]]
           g == CHOOSE f : Val(f)
<1>1. Len(s) \in Nat /\ \A k \in 1 .. Len(s) : s[k] \in Int
  OBVIOUS
<1>2. PICK f \in [0 .. Len(s) -> Int] : Looped(f, Len(s), 0, Adds(s))
  <2>1. Adds(s) \in [1 .. Len(s) -> [Int -> Int]]
    BY <1>1 DEF Adds
  <2>2. 0 \in Int
    OBVIOUS
  <2> DEFINE n == Len(s)
             step == Adds(s)
  <2> HIDE DEF n, step
  <2>3. \E f \in [0 .. n -> Int] : Looped(f, n, 0, step)
    BY <1>1, <2>1, <2>2, Looping DEF n, step
  <2> QED
    BY <2>3 DEF n, step
<1>3. Val(f)
  <2>1. ASSUME NEW k \in 0 .. Len(s) PROVE f[k] = IF k = 0 THEN 0 ELSE f[k - 1] + s[k]
    <3>1. f[k] = IF k = 0 THEN 0 ELSE Adds(s)[k][f[k - 1]]
      BY <1>2 DEF Looped
    <3>2. k # 0 => k \in 1 .. Len(s) /\ f[k - 1] \in Int
      BY <1>1, <1>2
    <3> QED
      BY <3>1, <3>2 DEF Adds
  <2> QED
    BY <1>2, <2>1
<1>4. Val(g)
  <2> HIDE DEF Val
  <2> QED
    BY <1>3
<1>5. \A i \in 0 .. Len(s) : g[i] = f[i]
  <2> DEFINE A == [i \in 0 .. Len(s) |-> {f[i]}]
  <2>1. g[0] = f[0] /\ \A i \in 1 .. Len(s) : g[i] = g[i - 1] + s[i] /\ f[i] = f[i - 1] + s[i]
    <3> HIDE DEF g
    <3>1. \A h : Val(h) => h[0] = 0 /\ \A i \in 1 .. Len(s) : h[i] = h[i - 1] + s[i]
      <4> SUFFICES ASSUME NEW h, Val(h), NEW i \in 1 .. Len(s) PROVE h[0] = 0 /\ h[i] = h[i - 1] + s[i]
        BY <1>1
      <4>1. 0 \in 0 .. Len(s) /\ i \in 0 .. Len(s) /\ i # 0
        BY <1>1
      <4> QED
        BY <4>1
    <3> HIDE DEF Val
    <3> QED
      BY <1>3, <1>4, <3>1
  <2> HIDE DEF g
  <2>2. g[0] \in A[0]
    BY <1>1, <2>1
  <2>3. \A i \in 1 .. Len(s) : g[i - 1] \in A[i - 1] => g[i] \in A[i]
    BY <1>1, <2>1
  <2>4. \A i \in 0 .. Len(s) : g[i] \in A[i]
    <3> HIDE DEF A
    <3> QED
      BY <1>1, <2>2, <2>3, Induction
  <2> QED
    BY <2>4
<1>6. Total(s) = g[Len(s)]
  BY DEF Total
<1> HIDE DEF g, Val
<1>7. Total(s) = f[Len(s)]
  BY <1>1, <1>5, <1>6
<1> QED
  BY <1>2, <1>7

\* One more value adds to the total.
LEMMA TotalAppended ==
  ASSUME NEW s \in Seq(Int), NEW v \in Int
  PROVE  Total(s) \in Int /\ Total(Append(s, v)) = Total(s) + v /\ Total(<<>>) = 0
<1> DEFINE t == Append(s, v)
           n == Len(s)
<1>1. n \in Nat /\ t \in Seq(Int) /\ Len(t) = n + 1 /\ t[n + 1] = v /\ \A i \in 1 .. n : t[i] = s[i]
  OBVIOUS
<1> HIDE DEF t
<1>2. PICK f \in [0 .. n -> Int] : Looped(f, n, 0, Adds(s)) /\ Total(s) = f[n]
  BY TotalLoops
<1>3. PICK g \in [0 .. n + 1 -> Int] : Looped(g, n + 1, 0, Adds(t)) /\ Total(t) = g[n + 1]
  BY <1>1, TotalLoops
<1>4. \A i \in 1 .. n : Adds(s)[i] = Adds(t)[i]
  <2> SUFFICES ASSUME NEW i \in 1 .. n PROVE Adds(s)[i] = Adds(t)[i]
    OBVIOUS
  <2>1. i \in 1 .. Len(s) /\ i \in 1 .. Len(t) /\ s[i] = t[i]
    BY <1>1
  <2> QED
    BY <2>1 DEF Adds
<1> HIDE DEF n
<1>5. g[n] = f[n]
  <2>1. n + 1 \in Nat /\ n \in 0 .. n + 1 /\ n \in 0 .. n
    BY <1>1
  <2> DEFINE m == n + 1
             a == Adds(s)
             b == Adds(t)
  <2> HIDE DEF m, a, b
  <2>2. Looped(f, n, 0, a) /\ Looped(g, m, 0, b) /\ Alike(a, b, n) /\ m \in Nat /\ n \in 0 .. m
    <3>1. Alike(a, b, n)
      BY <1>4 DEF Alike, a, b
    <3>2. Looped(f, n, 0, a) /\ Looped(g, m, 0, b)
      BY <1>2, <1>3 DEF m, a, b
    <3> QED
      BY <2>1, <3>1, <3>2 DEF m
  <2>4. SameLoops(g, m, b, f, n, a, 0)
    BY <2>2 DEF SameLoops
  <2>5. EndAlike(g, f, n)
    BY <2>4, LoopedOnce
  <2>3. g[n] = f[n]
    BY <2>5 DEF EndAlike
  <2> QED
    BY <2>1, <2>3
<1>6. g[n + 1] = g[n] + v
  <2>1. g[n + 1] = Adds(t)[n + 1][g[n]]
    BY <1>1, <1>3 DEF Looped
  <2> QED
    BY <1>1, <1>3, <2>1 DEF Adds
<1>7. Total(<<>>) = 0
  <2>1. <<>> \in Seq(Int) /\ Len(<<>>) = 0
    OBVIOUS
  <2>2. PICK h \in [0 .. 0 -> Int] : Looped(h, 0, 0, Adds(<<>>)) /\ Total(<<>>) = h[0]
    BY <2>1, TotalLoops
  <2> QED
    BY <2>2 DEF Looped
<1> QED
  BY <1>1, <1>2, <1>3, <1>5, <1>6, <1>7 DEF t

\* The least of what was pushed is one of it, and so is the most.
LEMMA LeastIsLeast ==
  ASSUME NEW s \in Seq(Int), s # <<>>
  PROVE  Least(s) \in Range(s) /\ (Nan \notin Range(s) => \A v \in Range(s) : Least(s) <= v)
<1> DEFINE n == Len(s)
           V == Range(s)
           Val(f) == f = [k \in 0 .. n |->
             IF k = 0 THEN s[1] ELSE IF Nan \notin {s[k], f[k - 1]} /\ s[k] < f[k - 1] THEN s[k] ELSE f[k - 1]]
           Turn(f) == /\ f[0] = s[1]
                      /\ \A k \in 1 .. n : f[k] =
                           IF Nan \notin {s[k], f[k - 1]} /\ s[k] < f[k - 1] THEN s[k] ELSE f[k - 1]
           step == [k \in 1 .. n |-> [v \in V |-> IF Nan \notin {s[k], v} /\ s[k] < v THEN s[k] ELSE v]]
           g == CHOOSE f : Val(f)
<1>1. /\ n \in Nat /\ n >= 1 /\ \A k \in 1 .. n : s[k] \in V
      /\ V \subseteq Int /\ \A v \in V : \E k \in 1 .. n : s[k] = v
  BY DEF Range
<1>2. Least(s) = g[n]
  BY DEF Least
<1> HIDE DEF n, V
<1>3. PICK f \in [0 .. n -> V] : Looped(f, n, s[1], step)
  <2>1. step \in [1 .. n -> [V -> V]] /\ s[1] \in V
    BY <1>1
  <2> HIDE DEF step
  <2> QED
    BY <1>1, <2>1, Looping
<1>4. Val(f)
  <2>1. ASSUME NEW k \in 0 .. n
        PROVE  f[k] = IF k = 0 THEN s[1] ELSE IF Nan \notin {s[k], f[k - 1]} /\ s[k] < f[k - 1] THEN s[k] ELSE f[k - 1]
    <3>1. f[k] = IF k = 0 THEN s[1] ELSE step[k][f[k - 1]]
      <4> HIDE DEF step
      <4> QED
        BY <1>3 DEF Looped
    <3>2. k # 0 => k \in 1 .. n /\ f[k - 1] \in V
      BY <1>1, <1>3
    <3> QED
      BY <3>1, <3>2
  <2> QED
    BY <1>3, <2>1
<1>5. Turn(g)
  <2>1. Val(g)
    <3> HIDE DEF Val
    <3> QED
      BY <1>4
  <2> HIDE DEF g
  <2>2. g[0] = s[1]
    BY <1>1, <2>1
  <2>3. ASSUME NEW k \in 1 .. n
        PROVE  g[k] = IF Nan \notin {s[k], g[k - 1]} /\ s[k] < g[k - 1] THEN s[k] ELSE g[k - 1]
    <3>1. k \in 0 .. n /\ k # 0
      BY <1>1
    <3> QED
      BY <2>1, <3>1
  <2> QED
    BY <2>2, <2>3
<1> HIDE DEF g, Val, step
<1> DEFINE A == [i \in 0 .. n |-> {v \in V : Nan \notin V => \A j \in 1 .. i : v <= s[j]}]
<1>6. g[0] \in A[0]
  BY <1>1, <1>5
<1>7. ASSUME NEW i \in 1 .. n, g[i - 1] \in A[i - 1] PROVE g[i] \in A[i]
  <2> DEFINE u == g[i - 1]
             w == g[i]
  <2>1. u \in V /\ u \in Int /\ s[i] \in V /\ s[i] \in Int
        /\ \A j \in 1 .. i - 1 : s[j] \in Int /\ (Nan \notin V => u <= s[j])
    <3>1. i - 1 \in 0 .. n /\ \A j \in 1 .. i - 1 : j \in 1 .. n
      BY <1>1
    <3>2. A[i - 1] = {v \in V : Nan \notin V => \A j \in 1 .. i - 1 : v <= s[j]}
      BY <3>1
    <3>3. u \in V /\ (Nan \notin V => \A j \in 1 .. i - 1 : u <= s[j])
      BY <1>7, <3>2
    <3> HIDE DEF A, u
    <3> QED
      BY <1>1, <3>1, <3>3
  <2>2. w \in {s[i], u} /\ (Nan \notin V => w = IF s[i] < u THEN s[i] ELSE u)
    BY <1>5, <2>1
  <2> HIDE DEF u, w
  <2>3. ASSUME Nan \notin V, NEW j \in 1 .. i PROVE w <= s[j]
    <3>1. j = i \/ j \in 1 .. i - 1
      OBVIOUS
    <3> QED
      BY <2>1, <2>2, <2>3, <3>1
  <2>4. w \in V
    BY <2>1, <2>2
  <2>5. w \in A[i]
    BY <2>3, <2>4
  <2> QED
    BY <2>5 DEF w
<1>8. \A i \in 0 .. n : g[i] \in A[i]
  <2> HIDE DEF A, Turn
  <2> QED
    BY <1>1, <1>6, <1>7, Induction
<1>9. g[n] \in V /\ (Nan \notin V => \A j \in 1 .. n : g[n] <= s[j])
  BY <1>1, <1>8
<1> QED
  BY <1>1, <1>2, <1>9 DEF V

LEMMA MostIsMost ==
  ASSUME NEW s \in Seq(Int), s # <<>>
  PROVE  Most(s) \in Range(s) /\ (Nan \notin Range(s) => \A v \in Range(s) : Most(s) >= v)
<1> DEFINE n == Len(s)
           V == Range(s)
           Val(f) == f = [k \in 0 .. n |->
             IF k = 0 THEN s[1] ELSE IF Nan \notin {s[k], f[k - 1]} /\ s[k] > f[k - 1] THEN s[k] ELSE f[k - 1]]
           Turn(f) == /\ f[0] = s[1]
                      /\ \A k \in 1 .. n : f[k] =
                           IF Nan \notin {s[k], f[k - 1]} /\ s[k] > f[k - 1] THEN s[k] ELSE f[k - 1]
           step == [k \in 1 .. n |-> [v \in V |-> IF Nan \notin {s[k], v} /\ s[k] > v THEN s[k] ELSE v]]
           g == CHOOSE f : Val(f)
<1>1. /\ n \in Nat /\ n >= 1 /\ \A k \in 1 .. n : s[k] \in V
      /\ V \subseteq Int /\ \A v \in V : \E k \in 1 .. n : s[k] = v
  BY DEF Range
<1>2. Most(s) = g[n]
  BY DEF Most
<1> HIDE DEF n, V
<1>3. PICK f \in [0 .. n -> V] : Looped(f, n, s[1], step)
  <2>1. step \in [1 .. n -> [V -> V]] /\ s[1] \in V
    BY <1>1
  <2> HIDE DEF step
  <2> QED
    BY <1>1, <2>1, Looping
<1>4. Val(f)
  <2>1. ASSUME NEW k \in 0 .. n
        PROVE  f[k] = IF k = 0 THEN s[1] ELSE IF Nan \notin {s[k], f[k - 1]} /\ s[k] > f[k - 1] THEN s[k] ELSE f[k - 1]
    <3>1. f[k] = IF k = 0 THEN s[1] ELSE step[k][f[k - 1]]
      <4> HIDE DEF step
      <4> QED
        BY <1>3 DEF Looped
    <3>2. k # 0 => k \in 1 .. n /\ f[k - 1] \in V
      BY <1>1, <1>3
    <3> QED
      BY <3>1, <3>2
  <2> QED
    BY <1>3, <2>1
<1>5. Turn(g)
  <2>1. Val(g)
    <3> HIDE DEF Val
    <3> QED
      BY <1>4
  <2> HIDE DEF g
  <2>2. g[0] = s[1]
    BY <1>1, <2>1
  <2>3. ASSUME NEW k \in 1 .. n
        PROVE  g[k] = IF Nan \notin {s[k], g[k - 1]} /\ s[k] > g[k - 1] THEN s[k] ELSE g[k - 1]
    <3>1. k \in 0 .. n /\ k # 0
      BY <1>1
    <3> QED
      BY <2>1, <3>1
  <2> QED
    BY <2>2, <2>3
<1> HIDE DEF g, Val, step
<1> DEFINE A == [i \in 0 .. n |-> {v \in V : Nan \notin V => \A j \in 1 .. i : v >= s[j]}]
<1>6. g[0] \in A[0]
  BY <1>1, <1>5
<1>7. ASSUME NEW i \in 1 .. n, g[i - 1] \in A[i - 1] PROVE g[i] \in A[i]
  <2> DEFINE u == g[i - 1]
             w == g[i]
  <2>1. u \in V /\ u \in Int /\ s[i] \in V /\ s[i] \in Int
        /\ \A j \in 1 .. i - 1 : s[j] \in Int /\ (Nan \notin V => u >= s[j])
    <3>1. i - 1 \in 0 .. n /\ \A j \in 1 .. i - 1 : j \in 1 .. n
      BY <1>1
    <3>2. A[i - 1] = {v \in V : Nan \notin V => \A j \in 1 .. i - 1 : v >= s[j]}
      BY <3>1
    <3>3. u \in V /\ (Nan \notin V => \A j \in 1 .. i - 1 : u >= s[j])
      BY <1>7, <3>2
    <3> HIDE DEF A, u
    <3> QED
      BY <1>1, <3>1, <3>3
  <2>2. w \in {s[i], u} /\ (Nan \notin V => w = IF s[i] > u THEN s[i] ELSE u)
    BY <1>5, <2>1
  <2> HIDE DEF u, w
  <2>3. ASSUME Nan \notin V, NEW j \in 1 .. i PROVE w >= s[j]
    <3>1. j = i \/ j \in 1 .. i - 1
      OBVIOUS
    <3> QED
      BY <2>1, <2>2, <2>3, <3>1
  <2>4. w \in V
    BY <2>1, <2>2
  <2>5. w \in A[i]
    BY <2>3, <2>4
  <2> QED
    BY <2>5 DEF w
<1>8. \A i \in 0 .. n : g[i] \in A[i]
  <2> HIDE DEF A, Turn
  <2> QED
    BY <1>1, <1>6, <1>7, Induction
<1>9. g[n] \in V /\ (Nan \notin V => \A j \in 1 .. n : g[n] >= s[j])
  BY <1>1, <1>8
<1> QED
  BY <1>1, <1>2, <1>9 DEF V

\* The sum over a set, as MapThenSumSet takes it: whichever element is taken first, a set has one
\* sum, so that one more element adds its value.
Sums(f, S, s) ==
    f = [r \in SUBSET S |-> IF r = {} THEN 0 ELSE s[CHOOSE y \in r : TRUE] + f[r \ {CHOOSE y \in r : TRUE}]]
\* There is such a function.
LEMMA SumsExist ==
  ASSUME NEW S, IsFiniteSet(S), NEW s, \A x \in S : s[x] \in Int
  PROVE  \E f \in [SUBSET S -> Int] : Sums(f, S, s)
<1> DEFINE n == Cardinality(S)
           V == [SUBSET S -> Int]
           first(r) == CHOOSE y \in r : TRUE
           step == [k \in 1 .. n |-> [g \in V |-> [r \in SUBSET S |->
                      IF r = {} THEN 0 ELSE s[first(r)] + g[r \ {first(r)}]]]]
           zero == [r \in SUBSET S |-> 0]
<1>1. n \in Nat
  BY FS_CardinalityType
<1>2. \A r \in SUBSET S : r # {} => first(r) \in r /\ r \ {first(r)} \in SUBSET S
  OBVIOUS
<1> HIDE DEF first
<1>3. step \in [1 .. n -> [V -> V]] /\ zero \in V
  BY <1>2
<1>4. PICK G \in [0 .. n -> V] : Looped(G, n, zero, step)
  <2> HIDE DEF step, zero, V, n
  <2> QED
    BY <1>1, <1>3, Looping
<1> DEFINE f == [r \in SUBSET S |-> G[Cardinality(r)][r]]
<1>5. \A r \in SUBSET S : IsFiniteSet(r) /\ Cardinality(r) \in 0 .. n
  <2> SUFFICES ASSUME NEW r \in SUBSET S PROVE IsFiniteSet(r) /\ Cardinality(r) \in 0 .. n
    OBVIOUS
  <2>1. IsFiniteSet(r) /\ Cardinality(r) <= n
    BY FS_Subset
  <2>2. Cardinality(r) \in Nat
    BY <2>1, FS_CardinalityType
  <2> HIDE DEF n
  <2> QED
    BY <1>1, <2>1, <2>2
<1> HIDE DEF n
<1>6. f \in V
  BY <1>4, <1>5
<1>7. ASSUME NEW r \in SUBSET S, r # {} PROVE f[r] = s[first(r)] + f[r \ {first(r)}]
  <2> DEFINE q == r \ {first(r)}
             k == Cardinality(r)
  <2>1. first(r) \in r /\ q \in SUBSET S
    BY <1>2, <1>7
  <2>2. k \in 0 .. n /\ k # 0 /\ Cardinality(q) = k - 1
    <3>1. IsFiniteSet(r) /\ k \in 0 .. n
      BY <1>5
    <3>2. Cardinality(q) = k - 1
      BY <2>1, <3>1, FS_RemoveElement
    <3>3. k # 0
      BY <1>7, <3>1, FS_EmptySet
    <3> QED
      BY <3>1, <3>2, <3>3
  <2>3. G[k] = step[k][G[k - 1]]
    <3> HIDE DEF step, zero, k
    <3> QED
      BY <1>1, <1>4, <2>2 DEF Looped
  <2>4. k \in 1 .. n /\ G[k - 1] \in V
    <3>1. k \in 1 .. n /\ k - 1 \in 0 .. n
      <4> HIDE DEF k
      <4> QED
        BY <1>1, <2>2
    <3> HIDE DEF k, V
    <3> QED
      BY <1>4, <3>1
  <2> HIDE DEF k, q
  <2>5. G[k] = [t \in SUBSET S |-> IF t = {} THEN 0 ELSE s[first(t)] + G[k - 1][t \ {first(t)}]]
    BY <2>3, <2>4
  <2>6. G[k][r] = s[first(r)] + G[k - 1][q]
    BY <1>7, <2>5 DEF q
  <2>7. f[r] = G[k][r] /\ f[q] = G[k - 1][q]
    BY <2>1, <2>2 DEF k
  <2> QED
    BY <2>6, <2>7 DEF q
<1>8. f[{}] = 0
  <2>1. Cardinality({}) = 0 /\ {} \in SUBSET S
    BY FS_EmptySet
  <2>2. G[0] = zero
    <3> HIDE DEF step, zero
    <3> QED
      BY <1>1, <1>4 DEF Looped
  <2> QED
    BY <2>1, <2>2
<1> HIDE DEF f
<1>9. Sums(f, S, s)
  <2>1. \A r \in SUBSET S : f[r] = IF r = {} THEN 0 ELSE s[first(r)] + f[r \ {first(r)}]
    BY <1>7, <1>8
  <2> QED
    BY <1>6, <2>1 DEF Sums, first
<1> QED
  BY <1>6, <1>9

\* There is one only, for a set and for the sets around it.
LEMMA SumsAgree ==
  ASSUME NEW T, IsFiniteSet(T), NEW S \in SUBSET T, NEW s, NEW f, NEW g, Sums(f, S, s), Sums(g, T, s)
  PROVE  \A r \in SUBSET S : f[r] = g[r]
<1> DEFINE n == Cardinality(S)
           first(r) == CHOOSE y \in r : TRUE
           Same(i) == \A r \in SUBSET S : Cardinality(r) = i => f[r] = g[r]
           h == [i \in 0 .. n |-> IF Same(i) THEN 1 ELSE 0]
           A == [i \in 0 .. n |-> {1}]
<1>1. IsFiniteSet(S) /\ n \in Nat
  BY FS_Subset, FS_CardinalityType
<1>2. \A r \in SUBSET S : /\ f[r] = IF r = {} THEN 0 ELSE s[first(r)] + f[r \ {first(r)}]
                          /\ g[r] = IF r = {} THEN 0 ELSE s[first(r)] + g[r \ {first(r)}]
  <2>1. ASSUME NEW U, NEW e, Sums(e, U, s), NEW r \in SUBSET U
        PROVE  e[r] = IF r = {} THEN 0 ELSE s[first(r)] + e[r \ {first(r)}]
    BY <2>1 DEF Sums
  <2>2. \A r \in SUBSET S : r \in SUBSET T
    OBVIOUS
  <2> HIDE DEF first
  <2> QED
    BY <2>1, <2>2
<1>3. \A r \in SUBSET S : r # {} => first(r) \in r /\ r \ {first(r)} \in SUBSET S
  OBVIOUS
<1>4. \A r \in SUBSET S : IsFiniteSet(r) /\ Cardinality(r) \in 0 .. n
  <2> SUFFICES ASSUME NEW r \in SUBSET S PROVE IsFiniteSet(r) /\ Cardinality(r) \in 0 .. n
    OBVIOUS
  <2>1. IsFiniteSet(r) /\ Cardinality(r) <= n
    BY <1>1, FS_Subset
  <2>2. Cardinality(r) \in Nat
    BY <2>1, FS_CardinalityType
  <2> HIDE DEF n
  <2> QED
    BY <1>1, <2>1, <2>2
<1> HIDE DEF n, first
<1>5. Same(0)
  <2> SUFFICES ASSUME NEW r \in SUBSET S, Cardinality(r) = 0 PROVE f[r] = g[r]
    OBVIOUS
  <2>1. r = {}
    BY <1>4, FS_EmptySet
  <2> QED
    BY <1>2, <2>1
<1>6. ASSUME NEW i \in 1 .. n, Same(i - 1) PROVE Same(i)
  <2> SUFFICES ASSUME NEW r \in SUBSET S, Cardinality(r) = i PROVE f[r] = g[r]
    OBVIOUS
  <2>1. r # {}
    BY FS_EmptySet
  <2>2. first(r) \in r /\ r \ {first(r)} \in SUBSET S
    BY <1>3, <2>1
  <2>3. Cardinality(r \ {first(r)}) = i - 1
    BY <1>4, <2>2, FS_RemoveElement
  <2>4. f[r \ {first(r)}] = g[r \ {first(r)}]
    BY <1>6, <2>2, <2>3
  <2> QED
    BY <1>2, <2>1, <2>4
<1> HIDE DEF Same
<1>7. \A i \in 0 .. n : h[i] \in A[i]
  <2>1. h[0] \in A[0]
    BY <1>1, <1>5
  <2>2. \A i \in 1 .. n : h[i - 1] \in A[i - 1] => h[i] \in A[i]
    <3> SUFFICES ASSUME NEW i \in 1 .. n, h[i - 1] \in A[i - 1] PROVE h[i] \in A[i]
      OBVIOUS
    <3>1. i - 1 \in 0 .. n /\ i \in 0 .. n
      BY <1>1
    <3>2. Same(i - 1)
      BY <3>1
    <3>3. Same(i)
      BY <1>6, <3>2
    <3> QED
      BY <3>1, <3>3
  <2> HIDE DEF h, A
  <2> QED
    BY <1>1, <2>1, <2>2, Induction
<1>8. \A i \in 0 .. n : Same(i)
  BY <1>7
<1> QED
  BY <1>4, <1>8 DEF Same

\* Any element may be taken first.
FirstTaken(f, S, x, s) == f[S] = f[S \ {x}] + s[x]
Numbers(s, S) == \A x \in S : s[x] \in Int
LEMMA AnyFirst ==
  ASSUME NEW S, IsFiniteSet(S), NEW s, Numbers(s, S), NEW f \in [SUBSET S -> Int], Sums(f, S, s),
         NEW x \in S
  PROVE  FirstTaken(f, S, x, s)
<1> DEFINE n == Cardinality(S)
           first(r) == CHOOSE y \in r : TRUE
           Free(i) == \A r \in SUBSET S : Cardinality(r) = i => \A z \in r : f[r] = f[r \ {z}] + s[z]
           h == [i \in 0 .. n |-> IF Free(i) THEN 1 ELSE 0]
           A == [i \in 0 .. n |-> {1}]
<1>0. \A z \in S : s[z] \in Int
  BY DEF Numbers
<1>1. n \in Nat
  BY FS_CardinalityType
<1>2. \A r \in SUBSET S : r # {} => f[r] = s[first(r)] + f[r \ {first(r)}]
  BY DEF Sums
<1>3. \A r \in SUBSET S : r # {} => first(r) \in r
  OBVIOUS
<1>4. \A r \in SUBSET S : IsFiniteSet(r) /\ Cardinality(r) \in 0 .. n
  <2> SUFFICES ASSUME NEW r \in SUBSET S PROVE IsFiniteSet(r) /\ Cardinality(r) \in 0 .. n
    OBVIOUS
  <2>1. IsFiniteSet(r) /\ Cardinality(r) <= n
    BY FS_Subset
  <2>2. Cardinality(r) \in Nat
    BY <2>1, FS_CardinalityType
  <2> HIDE DEF n
  <2> QED
    BY <1>1, <2>1, <2>2
<1> HIDE DEF n, first
<1>5. Free(0)
  <2> SUFFICES ASSUME NEW r \in SUBSET S, Cardinality(r) = 0, NEW z \in r PROVE FALSE
    OBVIOUS
  <2> QED
    BY <1>4, FS_EmptySet
<1>6. ASSUME NEW i \in 1 .. n, Free(i - 1) PROVE Free(i)
  <2> SUFFICES ASSUME NEW r \in SUBSET S, Cardinality(r) = i, NEW z \in r PROVE f[r] = f[r \ {z}] + s[z]
    OBVIOUS
  <2> DEFINE y == first(r)
             q == r \ {z}
             p == r \ {y}
  <2>1. y \in r /\ f[r] = s[y] + f[p]
    BY <1>2, <1>3
  <2>2. q \in SUBSET S /\ p \in SUBSET S /\ q \ {y} \in SUBSET S /\ IsFiniteSet(q) /\ IsFiniteSet(p)
    BY <1>4
  <2>3. Cardinality(q) = i - 1 /\ Cardinality(p) = i - 1
    BY <1>4, <2>1, FS_RemoveElement
  <2>4. CASE z = y
    <3>1. s[y] \in Int /\ f[p] \in Int
      BY <1>0, <2>1, <2>2
    <3> QED
      BY <2>1, <2>4, <3>1
  <2>5. CASE z # y
    <3>1. f[p] = f[p \ {z}] + s[z]
      BY <1>6, <2>2, <2>3, <2>5
    <3>2. f[q] = f[q \ {y}] + s[y]
      BY <1>6, <2>1, <2>2, <2>3, <2>5
    <3>3. p \ {z} = q \ {y}
      OBVIOUS
    <3>4. s[z] \in Int /\ s[y] \in Int /\ f[q \ {y}] \in Int
      BY <1>0, <2>1, <2>2
    <3>5. f[r] = s[y] + (f[q \ {y}] + s[z]) /\ f[q] = f[q \ {y}] + s[y]
      BY <2>1, <3>1, <3>2, <3>3
    <3> DEFINE u == f[q \ {y}]
    <3>6. u \in Int /\ f[r] = s[y] + (u + s[z]) /\ f[q] = u + s[y]
      BY <3>4, <3>5
    <3> HIDE DEF y, q, p, u
    <3>7. f[r] = f[q] + s[z]
      BY <3>4, <3>6
    <3> QED
      BY <3>7 DEF q
  <2> QED
    BY <2>4, <2>5
<1> HIDE DEF Free
<1>7. \A i \in 0 .. n : h[i] \in A[i]
  <2>1. h[0] \in A[0]
    BY <1>1, <1>5
  <2>2. \A i \in 1 .. n : h[i - 1] \in A[i - 1] => h[i] \in A[i]
    <3> SUFFICES ASSUME NEW i \in 1 .. n, h[i - 1] \in A[i - 1] PROVE h[i] \in A[i]
      OBVIOUS
    <3>1. i - 1 \in 0 .. n /\ i \in 0 .. n
      BY <1>1
    <3>2. Free(i - 1)
      BY <3>1
    <3>3. Free(i)
      BY <1>6, <3>2
    <3> QED
      BY <3>1, <3>3
  <2> HIDE DEF h, A
  <2> QED
    BY <1>1, <2>1, <2>2, Induction
<1>8. \A i \in 0 .. n : Free(i)
  BY <1>7
<1>9. Free(n) /\ S \in SUBSET S /\ Cardinality(S) = n
  BY <1>1, <1>8 DEF n
<1> QED
  BY <1>9 DEF Free, FirstTaken

\* MapThenSumSet is the value of such a function.
LEMMA SumOverIs ==
  ASSUME NEW S, IsFiniteSet(S), NEW s, \A x \in S : s[x] \in Int
  PROVE  \E f \in [SUBSET S -> Int] : Sums(f, S, s) /\ SumOver(s, S) = f[S]
<1> DEFINE g == CHOOSE f : Sums(f, S, s)
<1>1. PICK f \in [SUBSET S -> Int] : Sums(f, S, s)
  BY SumsExist
<1>2. Sums(g, S, s)
  BY <1>1
<1>3. SumOver(s, S) = g[S]
  BY DEF SumOver, MapThenSumSet, MapThenFoldSet, Sums
<1> HIDE DEF g
<1>4. S \in SUBSET S
  OBVIOUS
<1>5. \A r \in SUBSET S : g[r] = f[r]
  BY <1>1, <1>2, <1>4, SumsAgree
<1> QED
  BY <1>1, <1>3, <1>4, <1>5

\* The sum with one more element.
LEMMA SumOverMore ==
  ASSUME NEW S, IsFiniteSet(S), NEW s, \A y \in S : s[y] \in Int, NEW x, x \notin S, s[x] \in Int
  PROVE  SumOver(s, S) \in Int /\ SumOver(s, S \cup {x}) = SumOver(s, S) + s[x]
<1> DEFINE T == S \cup {x}
<1>1. IsFiniteSet(T) /\ (\A y \in T : s[y] \in Int) /\ S \in SUBSET T /\ T \in SUBSET T /\ x \in T /\ T \ {x} = S
  BY FS_AddElement
<1> HIDE DEF T
<1>2. PICK f \in [SUBSET S -> Int] : Sums(f, S, s) /\ SumOver(s, S) = f[S]
  BY SumOverIs
<1>3. PICK g \in [SUBSET T -> Int] : Sums(g, T, s) /\ SumOver(s, T) = g[T]
  BY <1>1, SumOverIs
<1>4. g[T] = g[S] + s[x]
  <2>1. \A y \in T : g[T] = g[T \ {y}] + s[y]
    <3>1. IsFiniteSet(T) /\ Numbers(s, T) /\ g \in [SUBSET T -> Int] /\ Sums(g, T, s)
      BY <1>1, <1>3 DEF Numbers
    <3>2. ASSUME NEW y \in T PROVE FirstTaken(g, T, y, s)
      BY <3>1, AnyFirst
    <3> QED
      BY <3>2 DEF FirstTaken
  <2>2. g[T] = g[T \ {x}] + s[x]
    BY <1>1, <2>1
  <2> QED
    BY <1>1, <2>2
<1>5. \A r \in SUBSET S : f[r] = g[r]
  BY <1>1, <1>2, <1>3, SumsAgree
<1>6. f[S] = g[S] /\ f[S] \in Int
  BY <1>2, <1>5
<1> QED
  BY <1>2, <1>3, <1>4, <1>6 DEF T

\* The sum over nothing.
LEMMA SumOverNone ==
  ASSUME NEW s
  PROVE  SumOver(s, {}) = 0
<1>1. IsFiniteSet({}) /\ \A x \in {} : s[x] \in Int
  BY FS_EmptySet
<1>2. PICK f \in [SUBSET {} -> Int] : Sums(f, {}, s) /\ SumOver(s, {}) = f[{}]
  BY <1>1, SumOverIs
<1> QED
  BY <1>2 DEF Sums

\* What the aggregator has gathered of the cells D.
Gathered(s, field, D) ==
    /\ s \in Seq(Int) /\ IsFiniteSet(D) /\ Len(s) = Cardinality(D)
    /\ \A c \in D : field[c] \in Int
    /\ Range(s) = {field[c] : c \in D} /\ Total(s) = SumOver(field, D)

\* At first nothing is gathered.
LEMMA GatheredNone ==
  ASSUME NEW field
  PROVE  Gathered(<<>>, field, {})
<1>1. Total(<<>>) = 0
  <2>1. <<>> \in Seq(Int) /\ 0 \in Int
    OBVIOUS
  <2> QED
    BY <2>1, TotalAppended
<1>2. IsFiniteSet({}) /\ Cardinality({}) = 0
  BY FS_EmptySet
<1>3. Range(<<>>) = {}
  BY DEF Range
<1> QED
  BY <1>1, <1>2, <1>3, SumOverNone DEF Gathered

\* A value that is pushed is gathered.
LEMMA GatheredMore ==
  ASSUME NEW s, NEW field, NEW D, Gathered(s, field, D), NEW c, c \notin D, field[c] \in Int
  PROVE  Gathered(Append(s, field[c]), field, D \cup {c})
<1> DEFINE t == Append(s, field[c])
           E == D \cup {c}
<1>1. /\ s \in Seq(Int) /\ IsFiniteSet(D) /\ Len(s) = Cardinality(D)
      /\ \A d \in D : field[d] \in Int
      /\ Range(s) = {field[d] : d \in D} /\ Total(s) = SumOver(field, D)
  BY DEF Gathered
<1>2. IsFiniteSet(E) /\ Cardinality(E) = Cardinality(D) + 1 /\ \A d \in E : field[d] \in Int
  BY <1>1, FS_AddElement
<1>3. t \in Seq(Int) /\ Len(t) = Len(s) + 1 /\ Total(t) = Total(s) + field[c]
  <2> DEFINE v == field[c]
  <2>1. v \in Int /\ s \in Seq(Int)
    BY <1>1
  <2> HIDE DEF v
  <2>2. Append(s, v) \in Seq(Int) /\ Len(Append(s, v)) = Len(s) + 1
    BY <2>1
  <2>3. Total(Append(s, v)) = Total(s) + v
    BY <2>1, TotalAppended
  <2> QED
    BY <2>2, <2>3 DEF v
<1>4. SumOver(field, E) = SumOver(field, D) + field[c]
  BY <1>1, SumOverMore
<1>5. Range(t) = Range(s) \cup {field[c]}
  <2>1. DOMAIN t = DOMAIN s \cup {Len(s) + 1} /\ t[Len(s) + 1] = field[c] /\ \A i \in DOMAIN s : t[i] = s[i]
    BY <1>1
  <2> HIDE DEF t
  <2> QED
    BY <2>1 DEF Range
<1>6. {field[d] : d \in E} = {field[d] : d \in D} \cup {field[c]}
  OBVIOUS
<1> HIDE DEF t, E
<1> QED
  BY <1>1, <1>2, <1>3, <1>4, <1>5, <1>6 DEF Gathered, t, E

\* A result is a number, and of what is gathered it is what the methods promise.
LEMMA AggregatesAreNumbers ==
  ASSUME NEW m, NEW s \in Seq(Int), NEW v \in AggregateOf(m, s)
  PROVE  v \in Int
<1>1. Nan \in Int /\ Range(s) \subseteq Int /\ Total(s) \in Int /\ Len(s) \in Nat
  <2>1. 0 \in Int /\ Nan \in Int
    BY ForwardAssumption
  <2>2. Total(s) \in Int
    BY <2>1, TotalAppended
  <2>3. Range(s) \subseteq Int
    BY DEF Range
  <2> QED
    BY <2>1, <2>2, <2>3
<1>2. CASE s = <<>>
  BY <1>1, <1>2 DEF AggregateOf
<1>3. CASE s # <<>>
  <2>1. Len(s) >= 1
    BY <1>3
  <2>2. Total(s) \div Len(s) \in Int
    BY <1>1, <2>1, Divided
  <2>3. Least(s) \in Int /\ Most(s) \in Int
    BY <1>1, <1>3, LeastIsLeast, MostIsMost
  <2>4. Nth(s, Len(s) \div 2) \subseteq Int
    BY <1>1 DEF Nth
  <2> QED
    BY <1>1, <1>3, <2>2, <2>3, <2>4 DEF AggregateOf
<1> QED
  BY <1>2, <1>3

\* Of the defined values every method gives what it promises.
LEMMA AggregatesAsPromised ==
  ASSUME NEW m, NEW s, NEW field, NEW D, Gathered(s, field, D), \A c \in D : field[c] # Nan,
         NEW v \in AggregateOf(m, s)
  PROVE  IsAggregate(v, m, field, D)
<1> DEFINE R == Range(s)
<1>1. /\ s \in Seq(Int) /\ IsFiniteSet(D) /\ Len(s) = Cardinality(D)
      /\ R = {field[d] : d \in D} /\ Total(s) = SumOver(field, D)
  BY DEF Gathered
<1>2. Nan \notin R
  BY <1>1
<1>3. CASE D = {}
  <2>1. s = <<>>
    BY <1>1, <1>3, FS_EmptySet
  <2> QED
    BY <1>3, <2>1 DEF AggregateOf, IsAggregate
<1>4. CASE D # {}
  <2>1. s # <<>>
    <3>1. Cardinality(D) # 0
      BY <1>1, <1>4, FS_EmptySet
    <3> QED
      BY <1>1, <3>1
  <2>2. R \subseteq Int
    BY <1>1 DEF Range
  <2>3. Least(s) \in R /\ \A u \in R : Least(s) <= u
    BY <1>1, <1>2, <2>1, LeastIsLeast
  <2>4. Most(s) \in R /\ \A u \in R : Most(s) >= u
    BY <1>1, <1>2, <2>1, MostIsMost
  <2> HIDE DEF R
  <2>5. Least(s) = Min(R)
    <3> DEFINE x == Least(s)
    <3>1. x \in R /\ x \in Int /\ \A u \in R : x <= u /\ u \in Int
      BY <2>2, <2>3
    <3> HIDE DEF x
    <3>2. \A u \in R : u >= x
      BY <3>1
    <3>3. ASSUME NEW y \in R, \A u \in R : y <= u PROVE y = x
      BY <3>1, <3>3
    <3>4. \A y \in R : (\A u \in R : y <= u) <=> y = x
      BY <3>1, <3>3
    <3> QED
      BY <3>1, <3>2, <3>4 DEF Min, x
  <2>6. Most(s) = Max(R)
    <3> DEFINE x == Most(s)
    <3>1. x \in R /\ x \in Int /\ \A u \in R : x >= u /\ u \in Int
      BY <2>2, <2>4
    <3> HIDE DEF x
    <3>2. \A u \in R : u <= x
      BY <3>1
    <3>3. ASSUME NEW y \in R, \A u \in R : y >= u PROVE y = x
      BY <3>1, <3>3
    <3>4. \A y \in R : (\A u \in R : y >= u) <=> y = x
      BY <3>1, <3>3
    <3> QED
      BY <3>1, <3>2, <3>4 DEF Max, x
  <2>7. CASE m = "sum"
    BY <1>1, <1>2, <1>4, <2>1, <2>7 DEF AggregateOf, IsAggregate, R
  <2>8. CASE m = "mean"
    BY <1>1, <1>2, <1>4, <2>1, <2>8 DEF AggregateOf, IsAggregate, R
  <2>9. CASE m = "min"
    BY <1>1, <1>2, <1>4, <2>1, <2>5, <2>9 DEF AggregateOf, IsAggregate
  <2>10. CASE m = "max"
    BY <1>1, <1>2, <1>4, <2>1, <2>6, <2>10 DEF AggregateOf, IsAggregate
  <2>11. CASE m \notin {"sum", "mean", "min", "max"}
    <3>1. v \in Nth(s, Len(s) \div 2)
      BY <1>2, <2>1, <2>11 DEF AggregateOf, R
    <3>2. v \in R
      BY <3>1 DEF Nth, R
    <3>3. \E c \in D : v = field[c]
      BY <1>1, <3>2
    <3> QED
      BY <1>4, <2>11, <3>3 DEF IsAggregate
  <2> QED
    BY <2>7, <2>8, <2>9, <2>10, <2>11
<1> QED
  BY <1>3, <1>4

\* The cells of the input that have been pushed or passed over for the cell of the output at hand.
Visited(r) == {PointsInIn(fwd.pos)[r.out][k] : k \in 1 .. r.next - 1}
ReadingOf(r) ==
    /\ r \in [slice : Slices \cup {<<>>}, out : Nat, next : Nat \ {0}, result : Seq(Int)]
    /\ Len(r.result) = r.out
    /\ r.slice = <<>> => r = Idle
    /\ r.out \in Cells(OutSize) => r.next - 1 <= Cardinality(Inside(fwd.pos, r.out))
GatheredFor(r) ==
    IF r.out \in Cells(OutSize) THEN ~fwd.undef => Gathered(agg, r.slice, Defined(r.slice, Visited(r)))
    ELSE agg = <<>>
Delivered(r) ==
    \A k \in DOMAIN r.result :
        ~fwd.undef => IsAggregate(r.result[k], fwd.method, r.slice, Defined(r.slice, Inside(fwd.pos, k - 1)))
ForwardInv ==
    /\ fwd = Built(fwd.method, fwd.undef, fwd.pos) /\ fwd.pos \in Positions
    /\ agg \in Seq(Int)
    /\ reading = [t \in Readers |-> reading[t]]
    /\ \A t \in Readers : ReadingOf(reading[t]) /\ GatheredFor(reading[t]) /\ Delivered(reading[t])
OneReader == \A t, u \in Readers : t = u

\* A cell of the output begins with nothing.
LEMMA NothingVisited ==
  ASSUME NEW r, r.next = 1, NEW field
  PROVE  Defined(field, Visited(r)) = {}
BY DEF Visited, Defined

\* The next cell of the list was not visited before.
LEMMA OneMoreVisited ==
  ASSUME NEW r, NEW q, r.out \in Cells(OutSize), r.next \in Nat \ {0}, r.next <= Cardinality(Inside(fwd.pos, r.out)),
         q.out = r.out, q.next = r.next + 1
  PROVE  /\ PointsInIn(fwd.pos)[r.out][r.next] \in Inside(fwd.pos, r.out)
         /\ PointsInIn(fwd.pos)[r.out][r.next] \notin Visited(r)
         /\ Visited(q) = Visited(r) \cup {PointsInIn(fwd.pos)[r.out][r.next]}
<1> DEFINE p == PointsInIn(fwd.pos)[r.out]
           n == r.next
           S == Inside(fwd.pos, r.out)
<1>1. /\ DOMAIN p = 1 .. Cardinality(S) /\ Cardinality(S) \in Nat /\ \A k \in DOMAIN p : p[k] \in S
      /\ \A i, j \in DOMAIN p : i < j => p[i] < p[j]
  BY PointsAreInside
<1>2. S \subseteq Int
  BY InsideFinite
<1> HIDE DEF p, S
<1>3. n \in DOMAIN p /\ \A k \in 1 .. n - 1 : k \in DOMAIN p /\ k < n
  BY <1>1 DEF S
<1>4. p[n] \in S /\ p[n] \notin {p[k] : k \in 1 .. n - 1}
  <2>1. p[n] \in S /\ p[n] \in Int
    BY <1>1, <1>2, <1>3
  <2>2. ASSUME NEW k \in 1 .. n - 1 PROVE p[k] # p[n]
    <3>1. p[k] < p[n] /\ p[k] \in Int
      BY <1>1, <1>2, <1>3
    <3> QED
      BY <2>1, <3>1
  <2> QED
    BY <2>1, <2>2
<1>5. 1 .. q.next - 1 = (1 .. n - 1) \cup {n}
  OBVIOUS
<1>6. {p[k] : k \in 1 .. q.next - 1} = {p[k] : k \in 1 .. n - 1} \cup {p[n]}
  BY <1>5
<1> QED
  BY <1>4, <1>6 DEF Visited, p, S

\* At the end of the list all have been.
LEMMA AllVisited ==
  ASSUME NEW r, r.out \in Cells(OutSize), r.next \in Nat \ {0}, r.next - 1 = Cardinality(Inside(fwd.pos, r.out))
  PROVE  Visited(r) = Inside(fwd.pos, r.out)
<1> DEFINE p == PointsInIn(fwd.pos)[r.out]
           S == Inside(fwd.pos, r.out)
<1>1. DOMAIN p = 1 .. Cardinality(S) /\ Range(p) = S
  BY PointsAreInside
<1> HIDE DEF p
<1>2. {p[k] : k \in DOMAIN p} = S
  BY <1>1 DEF Range
<1> QED
  BY <1>1, <1>2 DEF Visited, p

\* Nothing is read and nothing pushed.
LEMMA ForwardInitially == ForwardInit => ForwardInv
<1> SUFFICES ASSUME ForwardInit PROVE ForwardInv
  OBVIOUS
<1>1. PICK m \in {"sum", "mean", "min", "max", "median"}, undef \in BOOLEAN, pos \in Positions : fwd = Built(m, undef, pos)
  BY DEF ForwardInit
<1>2. fwd = Built(fwd.method, fwd.undef, fwd.pos) /\ fwd.pos \in Positions
  <2>1. fwd.method = m /\ fwd.undef = undef /\ fwd.pos = pos
    BY <1>1 DEF Built
  <2> QED
    BY <1>1, <2>1
<1>3. agg = <<>> /\ reading = [t \in Readers |-> Idle]
  BY DEF ForwardInit
<1>4. ReadingOf(Idle)
  <2>1. Idle.slice = <<>> /\ Idle.out = 0 /\ Idle.next = 1 /\ Idle.result = <<>>
    BY DEF Idle
  <2>2. \A o \in Cells(OutSize) : Cardinality(Inside(fwd.pos, o)) \in Nat
    BY PointsAreInside
  <2> QED
    BY <2>1, <2>2 DEF ReadingOf, Idle
<1>5. GatheredFor(Idle)
  <2>1. Defined(Idle.slice, Visited(Idle)) = {}
    BY NothingVisited DEF Idle
  <2>2. Gathered(agg, Idle.slice, {})
    BY <1>3, GatheredNone
  <2> QED
    BY <1>3, <2>1, <2>2 DEF GatheredFor
<1>6. Delivered(Idle)
  BY DEF Delivered, Idle
<1> QED
  BY <1>2, <1>3, <1>4, <1>5, <1>6 DEF ForwardInv

\* The cells a slice gives a value to.
LEMMA SliceOnCells ==
  ASSUME ForwardInv, NEW t \in Readers, reading[t].slice # <<>>
  PROVE  \A c \in Cells(InSize) : reading[t].slice[c] \in Int
<1>1. reading[t].slice \in Slices
  BY DEF ForwardInv, ReadingOf
<1> QED
  BY <1>1, ForwardAssumption

\* What follows for the threads when one of one goes on.
LEMMA OneGoesOn ==
  ASSUME OneReader, ForwardInv, NEW t \in Readers, NEW r,
         reading' = [reading EXCEPT ![t] = r], UNCHANGED fwd, agg' \in Seq(Int),
         ReadingOf(r), GatheredFor(r)', Delivered(r)
  PROVE  ForwardInv'
<1>1. Readers = {t}
  BY DEF OneReader
<1>2. reading' = [u \in Readers |-> reading'[u]] /\ \A u \in Readers : reading'[u] = r
  BY <1>1 DEF ForwardInv
<1>3. ReadingOf(reading[t])'
  BY <1>2 DEF ReadingOf
<1>4. GatheredFor(reading[t])'
  BY <1>2 DEF GatheredFor, Visited
<1>5. Delivered(reading[t])'
  BY <1>2 DEF Delivered
<1> QED
  BY <1>1, <1>2, <1>3, <1>4, <1>5 DEF ForwardInv

\* A thread begins to read.
LEMMA StartKeeps ==
  ASSUME OneReader, ForwardInv, NEW t \in Readers, NEW field \in Slices, StartReading(t, field)
  PROVE  ForwardInv'
<1>0. PICK r : r = [reading[t] EXCEPT !.slice = field]
  OBVIOUS
<1>1. reading[t] = Idle /\ reading' = [reading EXCEPT ![t].slice = field] /\ fwd' = fwd /\ agg' = agg
  BY DEF StartReading
<1>2. r.slice = field /\ r.out = 0 /\ r.next = 1 /\ r.result = <<>>
      /\ r \in [slice : Slices \cup {<<>>}, out : Nat, next : Nat \ {0}, result : Seq(Int)]
  <2>1. r = [Idle EXCEPT !.slice = field]
    BY <1>0, <1>1
  <2>2. r = [slice |-> field, out |-> 0, next |-> 1, result |-> <<>>]
    BY <2>1 DEF Idle
  <2> QED
    BY <2>2
<1>3. reading' = [reading EXCEPT ![t] = r]
  BY <1>0, <1>1
<1>4. ReadingOf(r)
  <2>1. \A o \in Cells(OutSize) : Cardinality(Inside(fwd.pos, o)) \in Nat
    BY PointsAreInside
  <2>2. r.slice = <<>> => r = Idle
    BY <1>2 DEF Idle
  <2> QED
    BY <1>2, <2>1, <2>2 DEF ReadingOf
<1>5. ASSUME 0 \in Cells(OutSize), ~fwd.undef PROVE agg = <<>>
  <2>1. Gathered(agg, reading[t].slice, Defined(reading[t].slice, Visited(reading[t])))
    BY <1>1, <1>5 DEF ForwardInv, GatheredFor, Idle
  <2>2. Defined(reading[t].slice, Visited(reading[t])) = {}
    BY <1>1, NothingVisited DEF Idle
  <2>3. agg \in Seq(Int) /\ Len(agg) = 0
    BY <2>1, <2>2, FS_EmptySet DEF Gathered
  <2> QED
    BY <2>3
<1>6. GatheredFor(r)'
  <2>1. CASE 0 \in Cells(OutSize)
    <3>1. Defined(r.slice, Visited(r)) = {}
      BY <1>2, NothingVisited
    <3>2. Gathered(<<>>, r.slice, {})
      BY GatheredNone
    <3>3. ~fwd.undef => Gathered(agg, r.slice, Defined(r.slice, Visited(r)))
      BY <1>5, <2>1, <3>1, <3>2
    <3> QED
      BY <1>1, <1>2, <2>1, <3>3 DEF GatheredFor, Visited
  <2>2. CASE 0 \notin Cells(OutSize)
    <3>1. agg = <<>>
      BY <1>1, <2>2 DEF ForwardInv, GatheredFor, Idle
    <3> QED
      BY <1>1, <1>2, <2>2, <3>1 DEF GatheredFor
  <2> QED
    BY <2>1, <2>2
<1>7. Delivered(r)
  BY <1>2 DEF Delivered
<1>8. agg' \in Seq(Int)
  BY <1>1 DEF ForwardInv
<1> QED
  BY <1>1, <1>3, <1>4, <1>6, <1>7, <1>8, OneGoesOn

\* A value is pushed or passed over.
LEMMA PushKeeps ==
  ASSUME OneReader, ForwardInv, NEW t \in Readers, PushValue(t)
  PROVE  ForwardInv'
<1>0. PICK r, q : r = reading[t] /\ q = [r EXCEPT !.next = @ + 1]
  OBVIOUS
<1> DEFINE c == PointsInIn(fwd.pos)[r.out][r.next]
           v == Value(r.slice, fwd.points[r.out][r.next])
           S == Inside(fwd.pos, r.out)
<1>1. /\ r.slice # <<>> /\ r.out \in Cells(OutSize) /\ r.next <= Len(fwd.points[r.out])
      /\ agg' = IF Pushed(v) THEN Append(agg, v) ELSE agg
      /\ reading' = [reading EXCEPT ![t].next = @ + 1] /\ fwd' = fwd
  BY <1>0 DEF PushValue, Running
<1>2. /\ ReadingOf(r) /\ GatheredFor(r) /\ Delivered(r)
      /\ fwd = Built(fwd.method, fwd.undef, fwd.pos) /\ agg \in Seq(Int)
      /\ r \in [slice : Slices \cup {<<>>}, out : Nat, next : Nat \ {0}, result : Seq(Int)]
  BY <1>0 DEF ForwardInv, ReadingOf
<1>3. /\ q.slice = r.slice /\ q.out = r.out /\ q.next = r.next + 1 /\ q.result = r.result
      /\ q \in [slice : Slices \cup {<<>>}, out : Nat, next : Nat \ {0}, result : Seq(Int)]
  <2>1. r.next + 1 \in Nat \ {0}
    BY <1>2
  <2> QED
    BY <1>0, <1>2, <2>1
<1>4. DOMAIN fwd.points[r.out] = DOMAIN PointsInIn(fwd.pos)[r.out]
      /\ DOMAIN PointsInIn(fwd.pos)[r.out] = 1 .. Cardinality(S) /\ Cardinality(S) \in Nat
  <2>1. DOMAIN fwd.points[r.out] = DOMAIN PointsInIn(fwd.pos)[r.out]
    BY <1>1, <1>2, SamePlaces
  <2> QED
    BY <1>1, <2>1, PointsAreInside
<1>5. r.next <= Cardinality(S) /\ r.next \in DOMAIN PointsInIn(fwd.pos)[r.out]
  <2>1. Len(fwd.points[r.out]) = Cardinality(S)
    BY <1>4
  <2> QED
    BY <1>1, <1>2, <1>4, <2>1
<1>6. v = r.slice[c]
  BY <1>1, <1>2, <1>5, FindsItsValue
<1>7. c \in S /\ c \notin Visited(r) /\ Visited(q) = Visited(r) \cup {c}
  BY <1>1, <1>2, <1>3, <1>5, OneMoreVisited
<1>8. v \in Int
  <2>1. S \subseteq Cells(InSize)
    BY InsideFinite
  <2> QED
    BY <1>0, <1>1, <1>6, <1>7, <2>1, SliceOnCells
<1>9. reading' = [reading EXCEPT ![t] = q]
  BY <1>0, <1>1
<1>10. ReadingOf(q)
  <2>1. q.slice # <<>> /\ Len(q.result) = q.out
    BY <1>1, <1>2, <1>3 DEF ReadingOf
  <2>2. q.next - 1 <= Cardinality(Inside(fwd.pos, q.out))
    BY <1>2, <1>3, <1>4, <1>5
  <2> HIDE DEF S
  <2> QED
    BY <1>3, <2>1, <2>2 DEF ReadingOf
<1>11. agg' \in Seq(Int)
  BY <1>1, <1>2, <1>8
<1> HIDE DEF c, v, S
<1>12. ~fwd.undef => Gathered(agg', q.slice, Defined(q.slice, Visited(q)))
  <2> SUFFICES ASSUME ~fwd.undef PROVE Gathered(agg', q.slice, Defined(q.slice, Visited(q)))
    OBVIOUS
  <2> DEFINE D == Defined(r.slice, Visited(r))
  <2>1. Gathered(agg, r.slice, D)
    BY <1>1, <1>2 DEF GatheredFor
  <2>2. CASE v = Nan
    <3>1. Defined(q.slice, Visited(q)) = D /\ agg' = agg
      BY <1>1, <1>3, <1>6, <1>7, <2>2 DEF Defined, Pushed
    <3> QED
      BY <1>3, <2>1, <3>1
  <2>3. CASE v # Nan
    <3>1. Defined(q.slice, Visited(q)) = D \cup {c} /\ c \notin D
      BY <1>3, <1>6, <1>7, <2>3 DEF Defined
    <3>2. agg' = Append(agg, r.slice[c])
      BY <1>1, <1>6, <2>3 DEF Pushed
    <3>3. r.slice[c] \in Int
      BY <1>6, <1>8
    <3> HIDE DEF D
    <3>4. Gathered(Append(agg, r.slice[c]), r.slice, D \cup {c})
      BY <2>1, <3>1, <3>3, GatheredMore
    <3> QED
      BY <1>3, <3>1, <3>2, <3>4
  <2> QED
    BY <2>2, <2>3
<1>13. GatheredFor(q)'
  BY <1>1, <1>3, <1>12 DEF GatheredFor, Visited
<1>14. Delivered(q)
  BY <1>2, <1>3 DEF Delivered
<1> QED
  BY <1>1, <1>9, <1>10, <1>11, <1>13, <1>14, OneGoesOn

\* The aggregate is taken and the next cell begins.
LEMMA TakeKeeps ==
  ASSUME OneReader, ForwardInv, NEW t \in Readers, TakeAggregate(t)
  PROVE  ForwardInv'
<1>0. PICK r : r = reading[t]
  OBVIOUS
<1> DEFINE S == Inside(fwd.pos, r.out)
<1>1. /\ r.slice # <<>> /\ r.out \in Cells(OutSize) /\ r.next > Len(fwd.points[r.out])
      /\ agg' = <<>> /\ fwd' = fwd
  BY <1>0 DEF TakeAggregate, Running
<1>2. PICK v \in AggregateOf(fwd.method, agg) :
        reading' = [reading EXCEPT ![t] = [reading[t] EXCEPT !.out = @ + 1, !.next = 1, !.result = Append(@, v)]]
  BY DEF TakeAggregate
<1>20. PICK q : q = [r EXCEPT !.out = @ + 1, !.next = 1, !.result = Append(@, v)]
  OBVIOUS
<1>3. /\ ReadingOf(r) /\ GatheredFor(r) /\ Delivered(r)
      /\ fwd = Built(fwd.method, fwd.undef, fwd.pos) /\ agg \in Seq(Int)
      /\ r \in [slice : Slices \cup {<<>>}, out : Nat, next : Nat \ {0}, result : Seq(Int)]
  BY <1>0 DEF ForwardInv, ReadingOf
<1>4. v \in Int
  BY <1>3, AggregatesAreNumbers
<1>5. /\ q.slice = r.slice /\ q.out = r.out + 1 /\ q.next = 1 /\ q.result = Append(r.result, v)
      /\ q \in [slice : Slices \cup {<<>>}, out : Nat, next : Nat \ {0}, result : Seq(Int)]
  <2>1. r.out + 1 \in Nat /\ Append(r.result, v) \in Seq(Int) /\ 1 \in Nat \ {0}
    BY <1>3, <1>4
  <2> QED
    BY <1>20, <1>3, <2>1
<1>6. reading' = [reading EXCEPT ![t] = q]
  BY <1>0, <1>2, <1>20
<1>7. r.next - 1 = Cardinality(S)
  <2>1. DOMAIN fwd.points[r.out] = 1 .. Cardinality(S) /\ Cardinality(S) \in Nat
    BY <1>1, <1>3, SamePlaces, PointsAreInside
  <2>2. Len(fwd.points[r.out]) = Cardinality(S)
    BY <2>1
  <2>3. r.next - 1 <= Cardinality(S)
    BY <1>1, <1>3 DEF ReadingOf
  <2> QED
    BY <1>1, <1>3, <2>1, <2>2, <2>3
<1>8. Visited(r) = S
  BY <1>1, <1>3, <1>7, AllVisited
<1>9. ~fwd.undef => IsAggregate(v, fwd.method, r.slice, Defined(r.slice, S))
  <2> SUFFICES ASSUME ~fwd.undef PROVE IsAggregate(v, fwd.method, r.slice, Defined(r.slice, S))
    OBVIOUS
  <2>1. Gathered(agg, r.slice, Defined(r.slice, S))
    BY <1>1, <1>3, <1>8 DEF GatheredFor
  <2>2. \A c \in Defined(r.slice, S) : r.slice[c] # Nan
    BY DEF Defined
  <2> QED
    BY <2>1, <2>2, AggregatesAsPromised
<1>10. ReadingOf(q)
  <2>1. q.slice # <<>> /\ Len(q.result) = q.out
    BY <1>1, <1>3, <1>5 DEF ReadingOf
  <2>2. q.out \in Cells(OutSize) => q.next - 1 <= Cardinality(Inside(fwd.pos, q.out))
    <3>1. q.out \in Cells(OutSize) => Cardinality(Inside(fwd.pos, q.out)) \in Nat
      BY PointsAreInside
    <3> QED
      BY <1>5, <3>1
  <2> HIDE DEF S
  <2> QED
    BY <1>5, <2>1, <2>2 DEF ReadingOf
<1>11. GatheredFor(q)'
  <2>1. Defined(q.slice, Visited(q)) = {}
    BY <1>5, NothingVisited
  <2>2. Gathered(<<>>, q.slice, {})
    BY GatheredNone
  <2> QED
    BY <1>1, <2>1, <2>2 DEF GatheredFor, Visited
<1>12. Delivered(q)
  <2>1. r.result \in Seq(Int) /\ Len(r.result) = r.out /\ r.out \in Nat
    BY <1>3 DEF ReadingOf
  <2>2. /\ DOMAIN q.result = DOMAIN r.result \cup {r.out + 1} /\ q.result[r.out + 1] = v
        /\ \A k \in DOMAIN r.result : q.result[k] = r.result[k]
    <3> DEFINE before == r.result
               n == r.out
    <3>1. before \in Seq(Int) /\ n \in Nat /\ Len(before) = n /\ q.result = Append(before, v)
      BY <1>5, <2>1
    <3> HIDE DEF before, n
    <3>2. LET after == Append(before, v)
          IN  /\ DOMAIN after = DOMAIN before \cup {n + 1} /\ after[n + 1] = v
              /\ \A k \in DOMAIN before : after[k] = before[k]
      BY <1>4, <3>1
    <3> QED
      BY <3>1, <3>2 DEF before, n
  <2>3. ASSUME NEW k \in DOMAIN q.result, ~fwd.undef
        PROVE  IsAggregate(q.result[k], fwd.method, q.slice, Defined(q.slice, Inside(fwd.pos, k - 1)))
    <3>1. CASE k = r.out + 1
      <4>1. k - 1 = r.out
        BY <2>1, <3>1
      <4> QED
        BY <1>5, <1>9, <2>2, <2>3, <3>1, <4>1
    <3>2. CASE k \in DOMAIN r.result
      BY <1>3, <1>5, <2>2, <2>3, <3>2 DEF Delivered
    <3> QED
      BY <2>2, <3>1, <3>2
  <2> QED
    BY <2>3 DEF Delivered
<1>13. agg' \in Seq(Int)
  BY <1>1
<1> QED
  BY <1>1, <1>6, <1>10, <1>11, <1>12, <1>13, OneGoesOn

\* With one reader at a time, every cell of the output is the aggregate of the defined values of
\* the cells in it: whatever the sizes, the positions, the domain that is left and the values.
THEOREM CellsAreAggregated ==
  ASSUME OneReader
  PROVE  ForwardSpec => []AggregatesOwnCells
<1>1. ForwardInit => ForwardInv
  BY ForwardInitially
<1>2. ForwardInv /\ [ForwardNext]_fwdVars => ForwardInv'
  <2> SUFFICES ASSUME ForwardInv, [ForwardNext]_fwdVars PROVE ForwardInv'
    OBVIOUS
  <2>1. CASE UNCHANGED fwdVars
    <3>1. fwd' = fwd /\ agg' = agg /\ reading' = reading
      BY <2>1 DEF fwdVars
    <3>2. ASSUME NEW t \in Readers PROVE ReadingOf(reading[t])'
      BY <3>1 DEF ForwardInv, ReadingOf
    <3>3. ASSUME NEW t \in Readers PROVE GatheredFor(reading[t])'
      BY <3>1 DEF ForwardInv, GatheredFor, Visited
    <3>4. ASSUME NEW t \in Readers PROVE Delivered(reading[t])'
      BY <3>1 DEF ForwardInv, Delivered
    <3> QED
      BY <3>1, <3>2, <3>3, <3>4 DEF ForwardInv
  <2>2. ASSUME NEW t \in Readers, NEW s \in Slices, StartReading(t, s) PROVE ForwardInv'
    BY <2>2, StartKeeps
  <2>3. ASSUME NEW t \in Readers, PushValue(t) PROVE ForwardInv'
    BY <2>3, PushKeeps
  <2>4. ASSUME NEW t \in Readers, TakeAggregate(t) PROVE ForwardInv'
    BY <2>4, TakeKeeps
  <2> QED
    BY <2>1, <2>2, <2>3, <2>4 DEF ForwardNext
<1>3. ForwardInv => AggregatesOwnCells
  BY DEF ForwardInv, Delivered, AggregatesOwnCells
<1> QED
  BY <1>1, <1>2, <1>3, PTL DEF ForwardSpec

-----------------------------------------------------------------------------
(* CDMQualityExtractor.  The slice of a variable is masked with one of its status, which is   *)
(* masked with one of its own, and so on; without a cycle this ends, so that there is one     *)
(* slice for each variable and position, and a read delivers it (QualityInv).  Then one       *)
(* masking at a time: what is left of the status is what the file has, and it was allowed.    *)
EntriesFit ==
    \A v \in DOMAIN statusVariable :
        /\ statusVariable[v] \in Configs /\ statusVariable[v].var = v
        /\ CompatibleShapes(statusVariable[v])
ReadIsTheSlice ==
    \/ qRead = NoRead
    \/ /\ qPhase = "read" /\ qRead.var \in DOMAIN QData /\ qRead.pos \in QPositions
       /\ qRead.slice = QualitySlice[<<qRead.var, qRead.pos>>]
QualityInv ==
    /\ EntriesFit
    /\ qPhase = "read" => ~Circular
    /\ ReadIsTheSlice

\* Slices of the variables of A, which holds the statuses they need.
NeedsStatus(v) == Has(v) /\ FiltersStatus(statusVariable[v])
Solves(A, g) ==
    /\ A \subseteq DOMAIN QData
    /\ \A v \in A : NeedsStatus(v) => statusVariable[v].status \in A
    /\ \A v \in A, p \in QPositions : g[<<v, p>>] = SliceWith(g, v, p)
SameOn(g, h, v) == \A p \in QPositions : g[<<v, p>>] = h[<<v, p>>]

\* A slice takes of the others that of its status.
LEMMA SliceOfItsStatus ==
  ASSUME EntriesFit, NEW v, NEW p \in QPositions, NEW g, NEW h,
         NeedsStatus(v) => SameOn(g, h, statusVariable[v].status)
  PROVE  SliceWith(g, v, p) = SliceWith(h, v, p)
<1>1. CASE ~Has(v)
  BY <1>1 DEF SliceWith
<1>2. CASE Has(v)
  <2> DEFINE w == statusVariable[v].status
  <2>1. statusVariable[v].var = v
    BY <1>2 DEF EntriesFit, Has
  <2>2. CASE statusVariable[v].other \/ w = v
    BY <1>2, <2>2 DEF SliceWith
  <2>3. CASE ~statusVariable[v].other /\ w # v
    <3>1. SameOn(g, h, w)
      BY <1>2, <2>1, <2>3 DEF NeedsStatus, FiltersStatus
    <3>2. g[<<w, p>>] = h[<<w, p>>] /\ g[<<w, 0>>] = h[<<w, 0>>]
      BY <3>1, SlicesAssumption DEF SameOn
    <3>3. OrFirst(g, w, p) = OrFirst(h, w, p)
      BY <3>2 DEF OrFirst
    <3> QED
      BY <1>2, <2>3, <3>3 DEF SliceWith
  <2> QED
    BY <2>2, <2>3
<1> QED
  BY <1>1, <1>2

\* Without a cycle two solutions are the same where both are.
LEMMA SolutionsAgree ==
  ASSUME EntriesFit, ~Circular, NEW A, NEW g, NEW B, NEW h, Solves(A, g), Solves(B, h)
  PROVE  \A v \in A \cap B : SameOn(g, h, v)
<1> DEFINE S == {v \in A \cap B : ~SameOn(g, h, v)}
<1>1. ASSUME NEW v \in S PROVE NeedsStatus(v) /\ statusVariable[v].status \in S
  <2>1. v \in A /\ v \in B /\ ~SameOn(g, h, v)
    OBVIOUS
  <2>2. ~(NeedsStatus(v) => SameOn(g, h, statusVariable[v].status))
    <3> SUFFICES ASSUME NeedsStatus(v) => SameOn(g, h, statusVariable[v].status) PROVE FALSE
      OBVIOUS
    <3>1. ASSUME NEW p \in QPositions PROVE g[<<v, p>>] = h[<<v, p>>]
      <4>1. SliceWith(g, v, p) = SliceWith(h, v, p)
        BY SliceOfItsStatus
      <4>2. g[<<v, p>>] = SliceWith(g, v, p) /\ h[<<v, p>>] = SliceWith(h, v, p)
        BY <2>1 DEF Solves
      <4> QED
        BY <4>1, <4>2
    <3> QED
      BY <2>1, <3>1 DEF SameOn
  <2>3. statusVariable[v].status \in A \cap B
    BY <2>1, <2>2 DEF Solves
  <2> QED
    BY <2>2, <2>3
<1>2. S \subseteq DOMAIN statusVariable
  BY <1>1 DEF NeedsStatus, Has
<1>3. S = {}
  <2> SUFFICES ASSUME S # {} PROVE FALSE
    OBVIOUS
  <2>1. S \in (SUBSET DOMAIN statusVariable) \ {{}}
    BY <1>2
  <2>2. \A v \in S : FiltersStatus(statusVariable[v]) /\ statusVariable[v].status \in S
    BY <1>1 DEF NeedsStatus
  <2> HIDE DEF S
  <2> QED
    BY <2>1, <2>2 DEF Circular
<1> QED
  BY <1>3

\* And every variable is in one.
LEMMA AllSolved ==
  ASSUME EntriesFit, ~Circular
  PROVE  \A v \in DOMAIN QData : \E A, g : Solves(A, g) /\ v \in A
<1> DEFINE Solved(v) == \E A, g : Solves(A, g) /\ v \in A
           S == {v \in DOMAIN QData : ~Solved(v)}
<1>1. ASSUME NEW v \in S PROVE NeedsStatus(v) /\ statusVariable[v].status \in S
  <2>0. v \in DOMAIN QData /\ ~Solved(v)
    OBVIOUS
  <2> DEFINE w == statusVariable[v].status
  <2>1. ASSUME NEW A, NEW g, Solves(A, g), NeedsStatus(v) => w \in A
        PROVE  Solved(v)
    <3>1. CASE v \in A
      BY <2>1, <3>1
    <3>2. CASE v \notin A
      <4> DEFINE B == A \cup {v}
                 h == [up \in B \X QPositions |->
                         IF up[1] = v THEN SliceWith(g, v, up[2]) ELSE g[up]]
      <4>1. \A p \in QPositions : h[<<v, p>>] = SliceWith(g, v, p)
        OBVIOUS
      <4>2. \A u \in A, p \in QPositions : h[<<u, p>>] = g[<<u, p>>]
        BY <3>2
      <4> HIDE DEF h
      <4>3. \A u \in A : SameOn(g, h, u)
        BY <4>2 DEF SameOn
      <4>4. \A u \in B : NeedsStatus(u) => statusVariable[u].status \in A
        BY <2>1 DEF Solves
      <4>5. ASSUME NEW u \in B, NEW p \in QPositions
            PROVE  h[<<u, p>>] = SliceWith(h, u, p)
        <5>1. NeedsStatus(u) => SameOn(g, h, statusVariable[u].status)
          BY <4>3, <4>4
        <5>2. SliceWith(g, u, p) = SliceWith(h, u, p)
          BY <5>1, SliceOfItsStatus
        <5>3. h[<<u, p>>] = SliceWith(g, u, p)
          BY <2>1, <4>1, <4>2 DEF Solves
        <5> QED
          BY <5>2, <5>3
      <4>6. B \subseteq DOMAIN QData
        BY <2>0, <2>1 DEF Solves
      <4>7. Solves(B, h)
        BY <4>4, <4>5, <4>6 DEF Solves
      <4> QED
        BY <4>7
    <3> QED
      BY <3>1, <3>2
  <2>2. Solves({}, <<>>)
    BY DEF Solves
  <2>3. NeedsStatus(v)
    BY <2>0, <2>1, <2>2
  <2>4. w \in DOMAIN QData
    BY <2>3, ConfigsAssumption DEF NeedsStatus, Has, EntriesFit
  <2>5. ~Solved(w)
    <3> SUFFICES ASSUME NEW A, NEW g, Solves(A, g), w \in A PROVE FALSE
      OBVIOUS
    <3> QED
      BY <2>0, <2>1
  <2> HIDE DEF Solved
  <2> QED
    BY <2>3, <2>4, <2>5
<1>2. S \subseteq DOMAIN statusVariable
  BY <1>1 DEF NeedsStatus, Has
<1>3. S = {}
  <2> SUFFICES ASSUME S # {} PROVE FALSE
    OBVIOUS
  <2>1. S \in (SUBSET DOMAIN statusVariable) \ {{}}
    BY <1>2
  <2>2. \A v \in S : FiltersStatus(statusVariable[v]) /\ statusVariable[v].status \in S
    BY <1>1 DEF NeedsStatus
  <2> HIDE DEF S
  <2> QED
    BY <2>1, <2>2 DEF Circular
<1> QED
  BY <1>3

\* So there is a slice for every variable and position, of which QualitySlice is made.
LEMMA SlicesAreSolved ==
  ASSUME EntriesFit, ~Circular, NEW v \in DOMAIN QData, NEW p \in QPositions
  PROVE  QualitySlice[<<v, p>>] = SliceWith(QualitySlice, v, p)
<1> DEFINE Solution(u) == CHOOSE Ag : Solves(Ag[1], Ag[2]) /\ u \in Ag[1]
           G(u) == Solution(u)[2]
           f == [up \in SlicePlaces |-> G(up[1])[up]]
<1>1. ASSUME NEW u \in DOMAIN QData
      PROVE  Solves(Solution(u)[1], Solution(u)[2]) /\ u \in Solution(u)[1]
  <2>1. PICK A, g : Solves(A, g) /\ u \in A
    BY AllSolved
  <2>2. <<A, g>>[1] = A /\ <<A, g>>[2] = g
    OBVIOUS
  <2>3. \E Ag : Solves(Ag[1], Ag[2]) /\ u \in Ag[1]
    BY <2>1, <2>2
  <2> QED
    BY <2>3
<1> HIDE DEF Solution
<1>2. \A u \in DOMAIN QData, q \in QPositions : f[<<u, q>>] = G(u)[<<u, q>>]
  BY DEF SlicePlaces
<1>3. ASSUME NEW u \in DOMAIN QData, NEW q \in QPositions
      PROVE  f[<<u, q>>] = SliceWith(f, u, q)
  <2> DEFINE w == statusVariable[u].status
  <2> HIDE DEF f
  <2>1. Solves(Solution(u)[1], G(u)) /\ u \in Solution(u)[1]
    BY <1>1
  <2>2. f[<<u, q>>] = SliceWith(G(u), u, q)
    BY <1>2, <2>1 DEF Solves
  <2>3. ASSUME NeedsStatus(u) PROVE SameOn(G(u), f, w)
    <3>1. w \in Solution(u)[1] /\ w \in DOMAIN QData
      BY <2>1, <2>3 DEF Solves
    <3>2. Solves(Solution(w)[1], G(w)) /\ w \in Solution(w)[1]
      BY <1>1, <3>1
    <3>3. SameOn(G(u), G(w), w)
      BY <2>1, <3>1, <3>2, SolutionsAgree
    <3> QED
      BY <1>2, <3>1, <3>3 DEF SameOn
  <2>4. SliceWith(G(u), u, q) = SliceWith(f, u, q)
    BY <2>3, SliceOfItsStatus
  <2> QED
    BY <2>2, <2>4
<1>4. f = [up \in SlicePlaces |-> SliceWith(f, up[1], up[2])]
  <2>1. \A up \in SlicePlaces : f[up] = SliceWith(f, up[1], up[2])
    <3> SUFFICES ASSUME NEW up \in SlicePlaces PROVE f[up] = SliceWith(f, up[1], up[2])
      OBVIOUS
    <3> HIDE DEF f
    <3>1. up[1] \in DOMAIN QData /\ up[2] \in QPositions /\ up = <<up[1], up[2]>>
      BY DEF SlicePlaces
    <3> QED
      BY <1>3, <3>1
  <2>2. f = [up \in SlicePlaces |-> f[up]]
    OBVIOUS
  <2> HIDE DEF f
  <2> QED
    BY <2>1, <2>2
<1> HIDE DEF f
<1>5. QualitySlice = [up \in SlicePlaces |-> SliceWith(QualitySlice, up[1], up[2])]
  BY <1>4 DEF QualitySlice
<1>6. <<v, p>> \in SlicePlaces /\ <<v, p>>[1] = v /\ <<v, p>>[2] = p
  BY DEF SlicePlaces
<1> QED
  BY <1>5, <1>6

\* What a mask leaves is what was there.
Values == Int \cup {Fill}
Left(m, data, v) ==
    /\ m \in Seq(Values) /\ Len(m) \in {0, QLengths[v]}
    /\ data # <<>> => Len(m) = Len(data) /\ \A i \in DOMAIN m : m[i] = data[i] \/ m[i] = Fill
    /\ data = <<>> => \A i \in DOMAIN m : m[i] = Fill
LEMMA MaskLeaves ==
  ASSUME NEW entry, QLengths[entry.var] \in Nat \ {0}, NEW data \in Seq(Int),
         Len(data) \in {0, QLengths[entry.var]}, NEW status
  PROVE  Left(MaskedSlice(entry, data, status), data, entry.var)
<1> DEFINE n == QLengths[entry.var]
           m == MaskedSlice(entry, data, status)
<1>0. Len(data) \in Nat /\ DOMAIN data = 1 .. Len(data) /\ \A i \in DOMAIN data : data[i] \in Int
  OBVIOUS
<1>1. CASE data = <<>> /\ status = <<>>
  <2>1. m = [i \in 1 .. n |-> Fill]
    BY <1>1 DEF MaskedSlice
  <2>2. m \in Seq(Values) /\ Len(m) = n /\ DOMAIN m = 1 .. n
    BY <2>1 DEF Values
  <2> QED
    BY <1>1, <2>1, <2>2 DEF Left
<1>2. CASE ~(data = <<>> /\ status = <<>>) /\ m = data
  <2>1. data \in Seq(Values)
    BY DEF Values
  <2>2. data = <<>> => DOMAIN data = {}
    OBVIOUS
  <2> HIDE DEF m
  <2> QED
    <3>1. m \in Seq(Values) /\ Len(m) \in {0, QLengths[entry.var]} /\ Len(m) = Len(data)
      BY <1>2, <2>1
    <3>2. \A i \in DOMAIN m : m[i] = data[i]
      BY <1>2
    <3>3. data = <<>> => \A i \in DOMAIN m : m[i] = Fill
      BY <1>2, <2>2
    <3>4. Left(m, data, entry.var)
      BY <3>1, <3>2, <3>3 DEF Left
    <3> QED
      BY <3>4 DEF m
<1>3. CASE ~(data = <<>> /\ status = <<>>) /\ m = Masked(entry, data, status)
  <2>1. m = [i \in 1 .. Len(data) |->
               IF Allowed(entry, status[((i - 1) % Len(status)) + 1]) THEN data[i] ELSE Fill]
    BY <1>0, <1>3 DEF Masked
  <2>2. \A i \in 1 .. Len(data) : m[i] = data[i] \/ m[i] = Fill
    BY <2>1
  <2>3. m = [i \in 1 .. Len(data) |-> m[i]]
    BY <2>1
  <2> HIDE DEF m
  <2>4. \A i \in 1 .. Len(data) : m[i] \in Values
    BY <1>0, <2>2 DEF Values
  <2>5. m \in Seq(Values) /\ Len(m) = Len(data) /\ DOMAIN m = 1 .. Len(data)
    BY <1>0, <2>3, <2>4
  <2>6. data = <<>> => Len(data) = 0
    OBVIOUS
  <2> QED
    <3>1. data = <<>> => \A i \in DOMAIN m : m[i] = Fill
      BY <2>5, <2>6
    <3>2. Left(m, data, entry.var)
      BY <2>2, <2>5, <3>1 DEF Left
    <3> QED
      BY <3>2 DEF m
<1>4. ~(data = <<>> /\ status = <<>>) => m = data \/ m = Masked(entry, data, status)
  BY DEF MaskedSlice
<1> QED
  BY <1>1, <1>2, <1>3, <1>4

\* An index and the one it has in the status, repeated over the length of the data.
LEMMA RepeatedIndex ==
  ASSUME NEW i \in Nat \ {0}, NEW n \in Nat \ {0}
  PROVE  ((i - 1) % n) + 1 \in 1 .. n /\ (((i - 1) % n) + 1) % n = i % n
<1> DEFINE q == (i - 1) \div n
           r == (i - 1) % n
<1>1. i - 1 = q * n + r /\ q \in Int /\ r \in 0 .. n - 1
  <2>1. i - 1 \in Int
    OBVIOUS
  <2> QED
    BY <2>1, Divided
<1> HIDE DEF q, r
<1>2. CASE r + 1 < n
  <2>1. (q * n + (r + 1)) % n = r + 1 /\ (0 * n + (r + 1)) % n = r + 1
    <3> DEFINE b == r + 1
    <3>1. b \in Int /\ 0 <= b /\ b < n /\ 0 \in Int /\ q \in Int
      BY <1>1, <1>2
    <3> HIDE DEF b
    <3>2. (q * n + b) % n = b
      BY <3>1, DivMod
    <3>3. (0 * n + b) % n = b
      BY <3>1, DivMod
    <3> QED
      BY <3>2, <3>3 DEF b
  <2>2. q * n \in Int
    BY <1>1
  <2>3. i = q * n + (r + 1) /\ r + 1 = 0 * n + (r + 1)
    BY <1>1, <2>2
  <2> QED
    BY <1>1, <2>1, <2>3 DEF r
<1>3. CASE r + 1 = n
  <2>1. ((q + 1) * n + 0) % n = 0 /\ (1 * n + 0) % n = 0
    <3> DEFINE a == q + 1
    <3>1. a \in Int /\ 1 \in Int /\ 0 \in Int /\ 0 <= 0 /\ 0 < n
      BY <1>1
    <3> HIDE DEF a
    <3>2. (a * n + 0) % n = 0
      BY <3>1, DivMod
    <3>3. (1 * n + 0) % n = 0
      BY <3>1, DivMod
    <3> QED
      BY <3>2, <3>3 DEF a
  <2>2. q * n \in Int /\ (q + 1) * n = q * n + n
    BY <1>1
  <2>3. i = (q + 1) * n + 0 /\ r + 1 = 1 * n + 0
    BY <1>1, <1>3, <2>2
  <2> QED
    BY <1>1, <2>1, <2>3 DEF r
<1> QED
  BY <1>1, <1>2, <1>3

\* A number that divides another is not above it.
LEMMA DivisorBelow ==
  ASSUME NEW a \in Nat \ {0}, NEW b \in Nat \ {0}, a % b = 0
  PROVE  ~ (a < b)
<1> SUFFICES ASSUME a < b PROVE FALSE
  OBVIOUS
<1>1. (0 * b + a) % b = a
  BY DivMod
<1>2. 0 * b + a = a
  OBVIOUS
<1> QED
  BY <1>1, <1>2

\* A status that fits is looked up for every element.
LEMMA MaskAllows ==
  ASSUME NEW entry, NEW data \in Seq(Int), data # <<>>,
         NEW status \in Seq(Values), status # <<>>, Len(data) % Len(status) = 0,
         NEW i \in DOMAIN data, MaskedSlice(entry, data, status)[i] # Fill
  PROVE  \E k \in DOMAIN status : k % Len(status) = i % Len(status) /\ Allowed(entry, status[k])
<1> DEFINE n == Len(status)
           k == ((i - 1) % n) + 1
<1>1. Len(data) \in Nat \ {0} /\ n \in Nat \ {0} /\ DOMAIN data = 1 .. Len(data) /\ DOMAIN status = 1 .. n
  OBVIOUS
<1>2. ~ (Len(data) < n)
  BY <1>1, DivisorBelow
<1>3. MaskedSlice(entry, data, status) = Masked(entry, data, status)
  BY <1>2 DEF MaskedSlice
<1>4. MaskedSlice(entry, data, status)[i] = IF Allowed(entry, status[k]) THEN data[i] ELSE Fill
  BY <1>3 DEF Masked
<1>5. Allowed(entry, status[k])
  BY <1>4
<1>6. i \in Nat \ {0}
  BY <1>1
<1>7. k \in 1 .. n /\ k % n = i % n
  BY <1>1, <1>6, RepeatedIndex
<1> HIDE DEF k
<1> QED
  BY <1>1, <1>5, <1>7

\* A slice of the extractor is the one below, but for what is filled in.
LEMMA SliceLeaves ==
  ASSUME EntriesFit, ~Circular, NEW v \in DOMAIN QData, NEW p \in QPositions
  PROVE  Left(QualitySlice[<<v, p>>], QData[v][p], v)
<1> DEFINE m == QualitySlice[<<v, p>>]
           data == QData[v][p]
<1>1. m = SliceWith(QualitySlice, v, p)
  BY SlicesAreSolved
<1>2. Below[<<v, p>>] = data
  BY DEF Below, SlicePlaces
<1>3. data \in Seq(Int) /\ Len(data) \in {0, QLengths[v]} /\ QLengths[v] \in Nat \ {0}
  BY SlicesAssumption
<1>4. CASE ~Has(v)
  <2>1. m = data
    BY <1>1, <1>2, <1>4 DEF SliceWith
  <2>2. data \in Seq(Values) /\ (data = <<>> => DOMAIN data = {})
    BY <1>3 DEF Values
  <2> HIDE DEF m, data
  <2> QED
    <3>1. m \in Seq(Values) /\ Len(m) \in {0, QLengths[v]} /\ Len(m) = Len(data)
      BY <1>3, <2>1, <2>2
    <3>2. (\A i \in DOMAIN m : m[i] = data[i]) /\ (data = <<>> => \A i \in DOMAIN m : m[i] = Fill)
      BY <2>1, <2>2
    <3>3. Left(m, data, v)
      BY <3>1, <3>2 DEF Left
    <3> QED
      BY <3>3 DEF m, data
<1>5. CASE Has(v)
  <2> DEFINE entry == statusVariable[v]
             status == IF entry.other THEN OrFirst(Below, entry.status, p)
                       ELSE IF entry.status = v THEN Below[<<v, p>>]
                       ELSE OrFirst(QualitySlice, entry.status, p)
  <2>1. m = MaskedSlice(entry, data, status)
    BY <1>1, <1>2, <1>5 DEF SliceWith
  <2>2. entry.var = v
    BY <1>5 DEF Has, EntriesFit
  <2> HIDE DEF m, data, status, entry
  <2>3. Left(MaskedSlice(entry, data, status), data, entry.var)
    BY <1>3, <2>2, MaskLeaves
  <2>4. Left(m, data, v)
    BY <2>1, <2>2, <2>3
  <2> QED
    BY <2>4 DEF m, data
<1> QED
  BY <1>4, <1>5

\* What the property says of one read.
StatusOf(entry, p) ==
    IF QData[entry.status][p] # <<>> THEN QData[entry.status][p] ELSE QData[entry.status][0]
AllowedAt(v, p, i) ==
    LET entry == statusVariable[v]
        status == StatusOf(entry, p)
    IN \E k \in DOMAIN status :
          /\ k % Len(status) = i % Len(status)
          /\ Allowed(entry, status[k])
          /\ Has(entry.status) /\ FiltersStatus(entry) => StatusSlice(v, p)[k] # Fill

LEMMA DeliveredIsAllowed ==
  ASSUME EntriesFit, ~Circular, NEW v \in DOMAIN QData, Has(v), NEW p \in QPositions,
         NEW i \in DOMAIN QualitySlice[<<v, p>>], QualitySlice[<<v, p>>][i] # Fill,
         StatusOf(statusVariable[v], p) # <<>>
  PROVE  AllowedAt(v, p, i)
<1> DEFINE m == QualitySlice[<<v, p>>]
           data == QData[v][p]
           entry == statusVariable[v]
           w == entry.status
           raw == StatusOf(entry, p)
           tested == StatusSlice(v, p)
<1>1. /\ entry.var = v /\ w \in DOMAIN QData /\ QLengths[v] % QLengths[w] = 0
      /\ ~Allowed(entry, Fill)
  BY ConfigsAssumption DEF Has, EntriesFit, CompatibleShapes
<1>2. /\ QLengths[v] \in Nat \ {0} /\ QLengths[w] \in Nat \ {0} /\ 0 \in QPositions
      /\ data \in Seq(Int) /\ Len(data) \in {0, QLengths[v]}
  BY <1>1, SlicesAssumption
<1>3. \A q \in QPositions : QData[w][q] \in Seq(Int) /\ Len(QData[w][q]) \in {0, QLengths[w]}
  BY <1>1, SlicesAssumption
<1>4. Left(m, data, v) /\ data # <<>> /\ i \in DOMAIN data /\ Len(data) = QLengths[v]
  <2>1. Left(m, data, v)
    BY SliceLeaves
  <2>2. data # <<>>
    BY <2>1 DEF Left
  <2>3. Len(m) = Len(data) /\ m \in Seq(Values) /\ i \in DOMAIN m
    BY <2>1, <2>2 DEF Left
  <2>4. DOMAIN m = 1 .. Len(m) /\ DOMAIN data = 1 .. Len(data)
    BY <1>2, <2>3
  <2>5. Len(data) # 0
    BY <1>2, <2>2
  <2> HIDE DEF m, data
  <2> QED
    BY <1>2, <2>1, <2>2, <2>3, <2>4, <2>5
<1>5. raw \in Seq(Int) /\ raw # <<>> /\ Len(raw) = QLengths[w]
  <2>1. \E q \in QPositions : raw = QData[w][q]
    BY <1>2 DEF StatusOf
  <2>2. raw # <<>>
    OBVIOUS
  <2> HIDE DEF raw
  <2> QED
    BY <1>3, <2>1, <2>2
<1>6. \A u \in DOMAIN QData, q \in QPositions : Below[<<u, q>>] = QData[u][q]
  BY DEF Below, SlicePlaces
<1>7. m = MaskedSlice(entry, data, tested)
  BY <1>6, SlicesAreSolved DEF SliceWith, StatusSlice
<1>8. ASSUME tested \in Seq(Values), tested # <<>>, Len(tested) = QLengths[w]
      PROVE  \E k \in DOMAIN tested : k % Len(tested) = i % Len(tested) /\ Allowed(entry, tested[k])
  <2>1. Len(data) % Len(tested) = 0 /\ MaskedSlice(entry, data, tested)[i] # Fill
    BY <1>1, <1>4, <1>7, <1>8
  <2> HIDE DEF tested, data, entry
  <2> QED
    BY <1>2, <1>4, <1>8, <2>1, MaskAllows
<1>9. CASE ~FiltersStatus(entry)
  <2>1. tested = raw
    <3>1. CASE entry.other
      <4>1. tested = OrFirst(Below, w, p)
        BY <3>1 DEF StatusSlice
      <4> QED
        BY <1>1, <1>2, <1>6, <4>1 DEF OrFirst, StatusOf
    <3>2. CASE ~entry.other /\ w = v
      <4>1. tested = data
        BY <1>6, <3>2 DEF StatusSlice
      <4>2. raw = data
        BY <1>4, <3>2 DEF StatusOf
      <4> QED
        BY <4>1, <4>2
    <3> QED
      BY <1>1, <1>9, <3>1, <3>2 DEF FiltersStatus
  <2>2. raw \in Seq(Values)
    BY <1>5 DEF Values
  <2>3. \E k \in DOMAIN raw : k % Len(raw) = i % Len(raw) /\ Allowed(entry, raw[k])
    BY <1>5, <1>8, <2>1, <2>2
  <2> QED
    BY <1>9, <2>3 DEF AllowedAt
<1>10. CASE FiltersStatus(entry)
  <2> DEFINE f(q) == QualitySlice[<<w, q>>]
             q0 == IF f(p) = <<>> THEN 0 ELSE p
             below == QData[w][q0]
  <2>1. tested = f(q0) /\ q0 \in QPositions
    BY <1>1, <1>2, <1>10 DEF StatusSlice, FiltersStatus, OrFirst
  <2>2. Left(f(q0), below, w) /\ Left(f(p), QData[w][p], w)
    BY <1>1, <2>1, SliceLeaves
  <2>3. below \in Seq(Int) /\ Len(below) \in {0, QLengths[w]}
    BY <1>3, <2>1
  <2>4. CASE below = <<>>
    <3>1. f(p) # <<>> /\ q0 = p
      <4> SUFFICES ASSUME f(p) = <<>> PROVE FALSE
        OBVIOUS
      <4>1. q0 = 0 /\ QData[w][0] = <<>>
        BY <2>4
      <4>2. QData[w][p] # <<>>
        BY <4>1 DEF StatusOf
      <4>3. Len(f(p)) = Len(QData[w][p]) /\ Len(QData[w][p]) # 0
        BY <1>3, <2>2, <4>2 DEF Left
      <4> QED
        BY <4>3
    <3>2. tested \in Seq(Values) /\ tested # <<>> /\ Len(tested) = QLengths[w]
          /\ \A k \in DOMAIN tested : tested[k] = Fill
      <4>1. Left(tested, <<>>, w) /\ tested # <<>>
        BY <2>1, <2>2, <2>4, <3>1
      <4>2. tested \in Seq(Values) /\ Len(tested) \in {0, QLengths[w]} /\ \A k \in DOMAIN tested : tested[k] = Fill
        BY <4>1 DEF Left
      <4> HIDE DEF tested
      <4> QED
        BY <4>1, <4>2
    <3> QED
      BY <1>1, <1>8, <3>2
  <2>5. CASE below # <<>>
    <3>1. below = raw
      <4>1. CASE f(p) # <<>>
        BY <2>5, <4>1 DEF StatusOf
      <4>2. CASE f(p) = <<>>
        <5>1. QData[w][p] = <<>>
          <6> SUFFICES ASSUME QData[w][p] # <<>> PROVE FALSE
            OBVIOUS
          <6>1. Len(f(p)) = Len(QData[w][p]) /\ Len(QData[w][p]) # 0
            BY <1>3, <2>2 DEF Left
          <6> QED
            BY <4>2, <6>1
        <5> QED
          BY <4>2, <5>1 DEF StatusOf
      <4> QED
        BY <4>1, <4>2
    <3>2. /\ tested \in Seq(Values) /\ Len(tested) = Len(raw)
          /\ \A k \in DOMAIN tested : tested[k] = raw[k] \/ tested[k] = Fill
      BY <2>1, <2>2, <2>5, <3>1 DEF Left
    <3>3. tested # <<>> /\ DOMAIN tested = DOMAIN raw
      <4> HIDE DEF tested, raw
      <4> QED
        BY <1>5, <3>2
    <3>4. PICK k \in DOMAIN tested : k % Len(tested) = i % Len(tested) /\ Allowed(entry, tested[k])
      BY <1>5, <1>8, <3>2, <3>3
    <3>5. tested[k] # Fill /\ tested[k] = raw[k]
      BY <1>1, <3>2, <3>4
    <3>6. k \in DOMAIN raw /\ k % Len(raw) = i % Len(raw) /\ Allowed(entry, raw[k])
      BY <3>2, <3>3, <3>4, <3>5
    <3> QED
      BY <3>5, <3>6 DEF AllowedAt
  <2> QED
    BY <2>4, <2>5
<1> QED
  BY <1>9, <1>10

\* Configuring adds entries that fit; what is read is read with all of them.
LEMMA QualityInvInductive ==
  ASSUME QualityInv, [QualityNext]_qualityVars
  PROVE  QualityInv'
<1>1. CASE UNCHANGED qualityVars
  <2>1. statusVariable' = statusVariable /\ qPhase' = qPhase /\ qRead' = qRead
    BY <1>1 DEF qualityVars
  <2> QED
    BY <2>1 DEF QualityInv, EntriesFit, Circular, ReadIsTheSlice, QualitySlice, SliceWith, Has
<1>2. ASSUME NEW entry \in Configs, Configure(entry)
      PROVE  QualityInv'
  <2>1. qRead = NoRead /\ qRead' = qRead /\ qPhase' # "read"
    BY <1>2 DEF Configure, QualityInv, ReadIsTheSlice
  <2>2. EntriesFit'
    <3>1. CASE statusVariable' = statusVariable
      BY <3>1 DEF QualityInv, EntriesFit
    <3>2. CASE statusVariable' # statusVariable
      <4>1. /\ CompatibleShapes(entry)
            /\ statusVariable' = [v \in DOMAIN statusVariable \cup {entry.var} |->
                                    IF v = entry.var THEN entry ELSE statusVariable[v]]
        BY <1>2, <3>2 DEF Configure
      <4> QED
        BY <4>1 DEF QualityInv, EntriesFit
    <3> QED
      BY <3>1, <3>2
  <2> QED
    BY <2>1, <2>2 DEF QualityInv, ReadIsTheSlice, NoRead
<1>3. CASE Configured
  BY <1>3 DEF Configured, QualityInv, EntriesFit, Circular, FiltersStatus, ReadIsTheSlice, NoRead
<1>4. ASSUME NEW v \in DOMAIN QData, NEW p \in QPositions, ReadQuality(v, p)
      PROVE  QualityInv'
  <2>1. statusVariable' = statusVariable /\ qPhase' = "read" /\ qPhase = "read"
        /\ qRead' = [var |-> v, pos |-> p, slice |-> QualitySlice[<<v, p>>]]
    BY <1>4 DEF ReadQuality
  <2>2. EntriesFit' /\ ~Circular'
    BY <2>1 DEF QualityInv, EntriesFit, Circular
  <2>3. ReadIsTheSlice'
    <3>1. QualitySlice' = QualitySlice
      BY <2>1 DEF QualitySlice, SliceWith, Has
    <3> QED
      BY <2>1, <3>1 DEF ReadIsTheSlice
  <2> QED
    BY <2>1, <2>2, <2>3 DEF QualityInv
<1> QED
  BY <1>1, <1>2, <1>3, <1>4 DEF QualityNext

LEMMA QualityInvariant == QualitySpec => []QualityInv
<1>1. QualityInit => QualityInv
  BY DEF QualityInit, QualityInv, EntriesFit, ReadIsTheSlice
<1>2. QualityInv /\ [QualityNext]_qualityVars => QualityInv'
  BY QualityInvInductive
<1> QED
  BY <1>1, <1>2, PTL DEF QualitySpec

(* CDMQualityExtractor::getDataSlice: for all slices, configurations without a cycle, and     *)
(* chains of statuses of every length, an element that is delivered has an allowed status in  *)
(* the file, and the status' own element was delivered too where that one has a status.       *)
THEOREM DeliveredElementsAreAllowed == QualitySpec => []OnlyAllowedRemain
<1>1. QualityInv => OnlyAllowedRemain
  <2> SUFFICES ASSUME QualityInv, qRead.slice # <<>>, Has(qRead.var) PROVE OnlyAllowedRemain
    BY DEF OnlyAllowedRemain
  <2>0. NoRead.slice = <<>>
    BY DEF NoRead
  <2>1. qRead # NoRead
    BY <2>0
  <2>2. EntriesFit /\ ~Circular /\ qRead.var \in DOMAIN QData /\ qRead.pos \in QPositions
        /\ qRead.slice = QualitySlice[<<qRead.var, qRead.pos>>]
    BY <2>1 DEF QualityInv, ReadIsTheSlice
  <2>3. \A i \in DOMAIN qRead.slice :
          qRead.slice[i] # Fill /\ StatusOf(statusVariable[qRead.var], qRead.pos) # <<>>
            => AllowedAt(qRead.var, qRead.pos, i)
    BY <2>2, DeliveredIsAllowed
  <2> QED
    BY <2>3 DEF OnlyAllowedRemain, AllowedAt, StatusOf
<1> QED
  BY <1>1, QualityInvariant, PTL

-----------------------------------------------------------------------------
(* CDMProcessor.  A sum is begun with what the cache has of an earlier position, so the       *)
(* invariant says that the cache has each slice up to its position once, whatever was read    *)
(* in between; it is about the variables no differences are taken of, since those are         *)
(* subtracted in place from what the cache has, and not about one that a failed call made     *)
(* that of geopotential height.  The set-up ends with the first read, which therefore turns   *)
(* a vector as it is still announced.                                                         *)
PTerms == UNION {[S -> Int] : S \in SUBSET SlicePositions}
PData == [terms : PTerms, sum : BOOLEAN, rotated : {<<>>}]
Ones(S) == [q \in S |-> 1]
SumKnown(v, p, data) ==
    v \in accumulateVars \ deaccumulateVars /\ v # geopotential.var =>
        data.terms = Ones(Present[v] \cap (0 .. p))

SidesKept ==
    /\ \A v \in DOMAIN Lower : pVars[v].dir \in {"X", "LON"} => v \in FirstOnes /\ pVars[v].pair \in SecondOnes
    /\ DOMAIN rotateX \subseteq FirstOnes /\ DOMAIN rotateY \subseteq SecondOnes

TurnedAsAnnounced ==
    \A v \in DOMAIN Lower :
        /\ v \in DOMAIN rotateX => rotateX[v] = <<pVars[v].pair, Lower[v].cs>>
        /\ v \in DOMAIN rotateY => rotateY[v] = <<pVars[v].pair, Lower[v].cs>>
        /\ v \in DOMAIN rotateX \cup DOMAIN rotateY => Lower[v].cs \in DOMAIN reprojection
        /\ Announced(pVars[v]) # Announced(Lower[v]) =>
             /\ v \in DOMAIN rotateX \cup DOMAIN rotateY
             /\ \A cs \in DOMAIN reprojection : reprojection[cs] = (pVars[v].dir \in {"LON", "LAT"})

SetUpInv ==
    /\ accumulateVars \subseteq DOMAIN Lower
    /\ DOMAIN Lower \subseteq DOMAIN pVars /\ \A v \in DOMAIN Lower : pVars[v] \in PVariable
    /\ vvComp.xWind # "" => "upward_air_velocity_ml" \notin DOMAIN Lower
    /\ SidesKept
    /\ pResult = "ok" => TurnedAsAnnounced
CacheInv ==
    /\ sliceCache.pos \in SlicePositions /\ sliceCache.data \in PData
    /\ SumKnown(sliceCache.var, sliceCache.pos, sliceCache.data)
ReadInv ==
    /\ read.n \in Nat /\ read.pos \in SlicePositions
    /\ read.n = 0 => read.var = "" /\ sliceCache.var = ""
    /\ read.n > 0 => \E data \in PData :
         /\ read.data = TurnedDirection(read.var, Rotated(read.var, read.pos, data))
         /\ read.pos > 0 => SumKnown(read.var, read.pos, data)
ProcInv == SetUpInv /\ CacheInv /\ ReadInv

LEMMA LastPlace == LastPos \in Nat
  BY ProcessorAssumption, Zenon
LEMMA NamesAreThere == "" \notin DOMAIN Lower
  BY ProcessorAssumption, Zenon

\* Arrays and their sums.
LEMMA ArrayOnce ==
  ASSUME NEW v, NEW p \in SlicePositions
  PROVE  Array(v, p) \in PData /\ Array(v, p).terms = Ones(Present[v] \cap {p})
<1> DEFINE t == IF p \in Present[v] THEN [q \in {p} |-> 1] ELSE NoData
<1>1. CASE p \in Present[v]
  <2>1. t = [q \in {p} |-> 1] /\ t \in [{p} -> Int]
    BY <1>1
  <2>2. Present[v] \cap {p} = {p}
    BY <1>1
  <2>3. t \in PTerms /\ t = Ones(Present[v] \cap {p})
    BY <2>1, <2>2 DEF PTerms, Ones
  <2> HIDE DEF t
  <2>4. Array(v, p) = [terms |-> t, sum |-> FALSE, rotated |-> <<>>]
    BY DEF Array, t
  <2> QED
    BY <2>3, <2>4 DEF PData
<1>2. CASE p \notin Present[v]
  <2>1. t = [q \in {} |-> 0]
    BY <1>2 DEF NoData
  <2>2. Present[v] \cap {p} = {}
    BY <1>2
  <2>3. t \in [{} -> Int] /\ t = [q \in {} |-> 1]
    BY <2>1
  <2>4. t \in PTerms /\ t = Ones(Present[v] \cap {p})
    BY <2>2, <2>3 DEF PTerms, Ones
  <2> HIDE DEF t
  <2>5. Array(v, p) = [terms |-> t, sum |-> FALSE, rotated |-> <<>>]
    BY DEF Array, t
  <2> QED
    BY <2>4, <2>5 DEF PData
<1> QED
  BY <1>1, <1>2

LEMMA CombinedTerms ==
  ASSUME NEW f \in PTerms, NEW g \in PTerms, NEW sign \in {1, -1}
  PROVE  Combined(f, g, sign) \in PTerms
<1>1. PICK S \in SUBSET SlicePositions : f \in [S -> Int]
  BY DEF PTerms
<1>2. PICK T \in SUBSET SlicePositions : g \in [T -> Int]
  BY DEF PTerms
<1>3. Combined(f, g, sign) \in [S \cup T -> Int]
  BY <1>1, <1>2 DEF Combined
<1> QED
  BY <1>3 DEF PTerms

LEMMA CombinedOnce ==
  ASSUME NEW S, NEW T, S \cap T = {}
  PROVE  Combined(Ones(S), Ones(T), 1) = Ones(S \cup T)
BY DEF Combined, Ones

LEMMA AddedIsData ==
  ASSUME NEW data \in PData, NEW more \in PData
  PROVE  AddedData(data, more) \in PData
<1>1. Combined(data.terms, more.terms, 1) \in PTerms
  BY CombinedTerms DEF PData
<1>2. [data EXCEPT !.terms = Combined(data.terms, more.terms, 1), !.sum = TRUE] \in PData
  BY <1>1 DEF PData
<1> QED
  BY <1>2 DEF AddedData

LEMMA AddedOnce ==
  ASSUME NEW data \in PData, NEW more \in PData, NEW S, NEW T, S \cap T = {},
         data.terms = Ones(S), more.terms = Ones(T)
  PROVE  AddedData(data, more).terms = Ones(S \cup T)
<1>0. \A U : Ones(U) = NoData <=> U = {}
  <2> SUFFICES ASSUME NEW U PROVE Ones(U) = NoData <=> U = {}
    OBVIOUS
  <2>1. DOMAIN Ones(U) = U /\ DOMAIN NoData = {}
    BY DEF Ones, NoData
  <2>2. [q \in {} |-> 1] = [q \in {} |-> 0]
    OBVIOUS
  <2> QED
    BY <2>1, <2>2 DEF Ones, NoData
<1>1. CASE T = {}
  BY <1>0, <1>1 DEF AddedData, IsEmpty
<1>2. CASE T # {} /\ S = {}
  BY <1>0, <1>2 DEF AddedData, IsEmpty
<1>3. CASE T # {} /\ S # {}
  <2>1. AddedData(data, more) = [data EXCEPT !.terms = Combined(data.terms, more.terms, 1), !.sum = TRUE]
    BY <1>0, <1>3 DEF AddedData, IsEmpty
  <2>2. AddedData(data, more).terms = Combined(data.terms, more.terms, 1)
    BY <2>1 DEF PData
  <2> QED
    BY <2>2, CombinedOnce
<1> QED
  BY <1>1, <1>2, <1>3

LEMMA DifferenceIsData ==
  ASSUME NEW v, NEW p \in SlicePositions, p # 0, NEW data \in PData
  PROVE  Deaccumulated(v, p, data) \in PData
<1>1. p - 1 \in SlicePositions
  BY LastPlace DEF SlicePositions
<1>2. Array(v, p - 1) \in PData
  BY <1>1, ArrayOnce
<1>3. Combined(data.terms, Array(v, p - 1).terms, -1) \in PTerms
  BY <1>2, CombinedTerms DEF PData
<1>4. [data EXCEPT !.terms = Combined(data.terms, Array(v, p - 1).terms, -1), !.sum = TRUE] \in PData
  BY <1>3 DEF PData
<1> QED
  BY <1>4 DEF Deaccumulated

\* The loop over the slices from start, of which base has none.
SumOfSlices(v, p, start, begun, f) ==
    f = [i \in 0 .. p |-> IF i <= start THEN begun ELSE AddedData(f[i - 1], Array(v, i - 1))]
Summing(v, base, start, known, i) ==
    {data \in PData : known = 1 => data.terms = Ones(Present[v] \cap (base \cup start .. i - 1))}
LEMMA SumsOnce ==
  ASSUME NEW v, NEW p \in SlicePositions, NEW start \in Nat, NEW known, NEW base,
         base \cap (start .. p - 1) = {}, NEW begun \in Summing(v, base, start, known, 0)
  PROVE  /\ \E f : SumOfSlices(v, p, start, begun, f)
         /\ \A f : SumOfSlices(v, p, start, begun, f) => f[p] \in Summing(v, base, start, known, p)
<1> DEFINE A == [i \in 0 .. p |-> Summing(v, base, start, known, i)]
           step == [i \in 1 .. p |-> [d \in A[i - 1] |->
                      IF i <= start THEN begun ELSE AddedData(d, Array(v, i - 1))]]
<1>0. p \in Nat /\ \A i \in 0 .. p : i \in SlicePositions
  BY LastPlace DEF SlicePositions
<1>1. \A i \in 0 .. p : i <= start => begun \in A[i]
  <2> SUFFICES ASSUME NEW i \in 0 .. p, i <= start PROVE begun \in Summing(v, base, start, known, i)
    OBVIOUS
  <2>1. start .. i - 1 = {} /\ start .. 0 - 1 = {}
    OBVIOUS
  <2> QED
    BY <2>1 DEF Summing
<1>2. ASSUME NEW i \in 1 .. p, ~ (i <= start), NEW d \in A[i - 1]
      PROVE  AddedData(d, Array(v, i - 1)) \in A[i]
  <2> DEFINE S == Present[v] \cap (base \cup start .. i - 1 - 1)
             T == Present[v] \cap {i - 1}
             more == Array(v, i - 1)
  <2>1. i - 1 \in SlicePositions /\ i - 1 \in 0 .. p
    BY <1>0
  <2>2. more \in PData /\ more.terms = Ones(T)
    BY <2>1, ArrayOnce
  <2>3. d \in PData /\ (known = 1 => d.terms = Ones(S))
    <3>1. d \in Summing(v, base, start, known, i - 1)
      BY <2>1
    <3> QED
      BY <3>1 DEF Summing
  <2>4. S \cap T = {} /\ S \cup T = Present[v] \cap (base \cup start .. i - 1)
    <3>1. i - 1 \in start .. p - 1 /\ i - 1 \notin start .. i - 1 - 1
      BY <1>0, <1>2
    <3>2. i - 1 \notin base
      BY <3>1
    <3>3. start .. i - 1 = (start .. i - 1 - 1) \cup {i - 1}
      BY <1>2
    <3> QED
      BY <3>1, <3>2, <3>3
  <2> HIDE DEF more, S, T
  <2>5. AddedData(d, more) \in PData
    BY <2>2, <2>3, AddedIsData
  <2>6. known = 1 => AddedData(d, more).terms = Ones(S \cup T)
    BY <2>2, <2>3, <2>4, AddedOnce
  <2>7. AddedData(d, more) \in Summing(v, base, start, known, i)
    BY <2>4, <2>5, <2>6 DEF Summing
  <2> QED
    BY <2>7 DEF more
<1>3. A[0] = Summing(v, base, start, known, 0) /\ begun \in A[0]
  BY <1>0
<1>4. A[p] = Summing(v, base, start, known, p)
  BY <1>0
<1> HIDE DEF A
<1>5. \A i \in 1 .. p : \A d \in A[i - 1] :
        step[i][d] = (IF i <= start THEN begun ELSE AddedData(d, Array(v, i - 1))) /\ step[i][d] \in A[i]
  <2> SUFFICES ASSUME NEW i \in 1 .. p, NEW d \in A[i - 1]
               PROVE  step[i][d] = (IF i <= start THEN begun ELSE AddedData(d, Array(v, i - 1)))
                      /\ step[i][d] \in A[i]
    OBVIOUS
  <2>1. step[i] = [e \in A[i - 1] |-> IF i <= start THEN begun ELSE AddedData(e, Array(v, i - 1))]
    OBVIOUS
  <2>2. step[i][d] = IF i <= start THEN begun ELSE AddedData(d, Array(v, i - 1))
    BY <2>1
  <2>3. i \in 0 .. p
    OBVIOUS
  <2> HIDE DEF step
  <2> QED
    BY <1>1, <1>2, <2>2, <2>3
<1> HIDE DEF step
<1>6. \E f : SumOfSlices(v, p, start, begun, f)
  <2>1. PICK f : Turns(f, p, begun, step)
    BY <1>0, Recursion
  <2>2. \A i \in 0 .. p : f[i] \in A[i]
    <3>1. f[0] \in A[0]
      BY <1>3, <2>1 DEF Turns
    <3>2. \A i \in 1 .. p : f[i - 1] \in A[i - 1] => f[i] \in A[i]
      BY <1>5, <2>1 DEF Turns
    <3> QED
      BY <1>0, <3>1, <3>2, Induction
  <2>3. ASSUME NEW i \in 0 .. p
        PROVE  f[i] = IF i <= start THEN begun ELSE AddedData(f[i - 1], Array(v, i - 1))
    <3>1. CASE i = 0
      BY <2>1, <3>1 DEF Turns
    <3>2. CASE i # 0
      <4>1. i \in 1 .. p /\ i - 1 \in 0 .. p
        BY <1>0, <3>2
      <4>2. f[i] = step[i][f[i - 1]] /\ f[i - 1] \in A[i - 1]
        BY <2>1, <2>2, <4>1 DEF Turns
      <4> QED
        BY <1>5, <4>1, <4>2
    <3> QED
      BY <3>1, <3>2
  <2>4. DOMAIN f = 0 .. p /\ f = [i \in DOMAIN f |-> f[i]]
    BY <2>1 DEF Turns
  <2>5. f = [i \in 0 .. p |-> IF i <= start THEN begun ELSE AddedData(f[i - 1], Array(v, i - 1))]
    BY <2>3, <2>4
  <2> QED
    BY <2>5 DEF SumOfSlices
<1>7. ASSUME NEW f, SumOfSlices(v, p, start, begun, f)
      PROVE  f[p] \in Summing(v, base, start, known, p)
  <2>1. \A i \in 0 .. p : f[i] = IF i <= start THEN begun ELSE AddedData(f[i - 1], Array(v, i - 1))
    <3>1. f = [i \in 0 .. p |-> IF i <= start THEN begun ELSE AddedData(f[i - 1], Array(v, i - 1))]
      BY <1>7 DEF SumOfSlices
    <3> QED
      BY <3>1
  <2>2. f[0] \in A[0]
    BY <1>0, <1>3, <2>1
  <2>3. \A i \in 1 .. p : f[i - 1] \in A[i - 1] => f[i] \in A[i]
    BY <1>5, <2>1
  <2>4. \A i \in 0 .. p : f[i] \in A[i]
    BY <1>0, <2>2, <2>3, Induction
  <2> QED
    BY <1>0, <1>4, <2>4
<1> QED
  BY <1>6, <1>7

\* What a read begins with, and the sum it makes of that and of the cache.
LEMMA FirstIsData ==
  ASSUME NEW v, NEW p \in SlicePositions
  PROVE  FirstData(v, p) \in PData
<1>1. \A x : Array(x, p) \in PData
  BY ArrayOnce
<1> QED
  BY <1>1 DEF FirstData

LEMMA FirstIsOwn ==
  ASSUME SetUpInv, NEW v \in DOMAIN Lower, v # geopotential.var, NEW p
  PROVE  FirstData(v, p) = Array(v, p)
BY DEF SetUpInv, FirstData

LEMMA SumIsKnown ==
  ASSUME SetUpInv, CacheInv, NEW v \in accumulateVars, NEW p \in SlicePositions, p > 0
  PROVE  /\ Accumulated(v, p, FirstData(v, p)) \in PData
         /\ SumKnown(v, p, Accumulated(v, p, FirstData(v, p)))
<1> DEFINE data == FirstData(v, p)
           pos == sliceCache.pos
           isCached == sliceCache.var = v /\ pos <= p
           begun == IF ~isCached THEN data
                    ELSE IF pos = p THEN sliceCache.data ELSE AddedData(data, sliceCache.data)
           start == IF isCached THEN pos + 1 ELSE 0
           base == IF ~isCached THEN {p} ELSE IF pos = p THEN 0 .. p ELSE {p} \cup 0 .. pos
           known == IF v \in accumulateVars \ deaccumulateVars /\ v # geopotential.var THEN 1 ELSE 0
           P == Present[v]
<1>0. p \in Nat /\ pos \in Nat /\ v \in DOMAIN Lower
  <2>1. pos \in SlicePositions
    BY DEF CacheInv
  <2>2. v \in DOMAIN Lower
    BY DEF SetUpInv
  <2> QED
    BY <2>1, <2>2, LastPlace DEF SlicePositions
<1>1. data \in PData /\ (known = 1 => data.terms = Ones(P \cap {p}))
  <2>1. data \in PData
    BY FirstIsData
  <2>2. known = 1 => v # geopotential.var
    OBVIOUS
  <2>3. known = 1 => data = Array(v, p)
    BY <1>0, <2>2, FirstIsOwn
  <2>4. Array(v, p).terms = Ones(P \cap {p})
    BY ArrayOnce
  <2> HIDE DEF data, known
  <2> QED
    BY <2>1, <2>3, <2>4
<1>2. sliceCache.data \in PData /\ (isCached /\ known = 1 => sliceCache.data.terms = Ones(P \cap (0 .. pos)))
  BY DEF CacheInv, SumKnown
<1>3. base \cap (start .. p - 1) = {} /\ start \in Nat
  BY <1>0
<1>4. base \cup (start .. p - 1) = 0 .. p
  BY <1>0
<1> HIDE DEF data, pos, known, P
<1>5. begun \in PData /\ (known = 1 => begun.terms = Ones(P \cap base))
  <2>1. CASE ~isCached
    BY <1>1, <2>1
  <2>2. CASE isCached /\ pos = p
    BY <1>2, <2>2
  <2>3. CASE isCached /\ pos # p
    <3> DEFINE S == P \cap {p}
               T == P \cap (0 .. pos)
               more == sliceCache.data
    <3>1. S \cap T = {} /\ S \cup T = P \cap base
      BY <1>0, <2>3
    <3>2. begun = AddedData(data, more)
      BY <2>3
    <3>3. more \in PData /\ (known = 1 => more.terms = Ones(T) /\ data.terms = Ones(S))
      BY <1>1, <1>2, <2>3
    <3> HIDE DEF S, T, more, base, begun
    <3>4. AddedData(data, more) \in PData
      BY <1>1, <3>3, AddedIsData
    <3>5. known = 1 => AddedData(data, more).terms = Ones(S \cup T)
      BY <1>1, <3>1, <3>3, AddedOnce
    <3> QED
      BY <3>1, <3>2, <3>4, <3>5
  <2> QED
    BY <2>1, <2>2, <2>3
<1> DEFINE f == CHOOSE g : g = [i \in 0 .. p |-> IF i <= start THEN begun ELSE AddedData(g[i - 1], Array(v, i - 1))]
<1>6. Accumulated(v, p, data) = f[p]
  BY DEF Accumulated, pos
<1> HIDE DEF begun, start, base
<1>7. begun \in Summing(v, base, start, known, 0)
  <2>1. start .. 0 - 1 = {}
    BY <1>3
  <2>2. base \cup start .. 0 - 1 = base
    BY <2>1
  <2> QED
    BY <1>5, <2>2 DEF Summing, P
<1>8. (\E g : SumOfSlices(v, p, start, begun, g))
      /\ \A g : SumOfSlices(v, p, start, begun, g) => g[p] \in Summing(v, base, start, known, p)
  BY <1>3, <1>7, SumsOnce
<1>9. SumOfSlices(v, p, start, begun, f)
  BY <1>8 DEF SumOfSlices
<1> HIDE DEF f
<1>10. f[p] \in PData /\ (known = 1 => f[p].terms = Ones(P \cap (0 .. p)))
  <2>1. f[p] \in Summing(v, base, start, known, p)
    BY <1>8, <1>9
  <2> QED
    BY <1>4, <2>1 DEF Summing, P
<1>11. f[p] \in PData /\ SumKnown(v, p, f[p])
  BY <1>10 DEF SumKnown, known, P
<1> QED
  BY <1>6, <1>11 DEF data

\* A read: the cache and the slice delivered hold what they should.
LEMMA ReadKeeps ==
  ASSUME ProcInv, NEW v \in DOMAIN pVars, NEW p \in SlicePositions, ReadSlice(v, p)
  PROVE  ProcInv'
<1> DEFINE acc == v \in accumulateVars /\ p > 0
           deacc == v \in deaccumulateVars /\ p # 0
           summed == IF acc THEN Accumulated(v, p, FirstData(v, p)) ELSE FirstData(v, p)
           differ == IF deacc THEN Deaccumulated(v, p, summed) ELSE summed
           result == TurnedDirection(v, Rotated(v, p, differ))
<1>1. /\ sliceCache' = IF acc THEN [var |-> v, pos |-> p, data |-> IF summed.sum THEN differ ELSE summed]
                       ELSE sliceCache
      /\ read' = [n |-> read.n + 1, var |-> v, pos |-> p, data |-> result]
      /\ pVars' = pVars /\ accumulateVars' = accumulateVars /\ deaccumulateVars' = deaccumulateVars
      /\ rotateX' = rotateX /\ rotateY' = rotateY /\ rotateDirection' = rotateDirection
      /\ reprojection' = reprojection /\ vvComp' = vvComp /\ geopotential' = geopotential
      /\ pResult' = pResult
  BY DEF ReadSlice, sums, rotations, computed
<1>2. summed \in PData /\ (p > 0 => SumKnown(v, p, summed))
  <2>1. CASE acc
    BY <2>1, SumIsKnown DEF ProcInv
  <2>2. CASE ~acc
    <3>1. p > 0 => SumKnown(v, p, summed)
      BY <2>2 DEF SumKnown
    <3> QED
      BY <2>2, <3>1, FirstIsData
  <2> HIDE DEF summed, acc
  <2> QED
    BY <2>1, <2>2
<1>3. differ \in PData /\ (p > 0 => SumKnown(v, p, differ))
  <2>1. CASE deacc
    <3>1. differ \in PData
      BY <1>2, <2>1, DifferenceIsData
    <3>2. SumKnown(v, p, differ)
      BY <2>1 DEF SumKnown
    <3> QED
      BY <3>1, <3>2
  <2>2. CASE ~deacc
    BY <1>2, <2>2
  <2> QED
    BY <2>1, <2>2
<1> HIDE DEF summed, differ
<1>4. SetUpInv'
  BY <1>1 DEF ProcInv, SetUpInv, SidesKept, TurnedAsAnnounced
<1>5. CacheInv'
  <2>1. CASE acc
    <3> DEFINE data == IF summed.sum THEN differ ELSE summed
    <3>1. data \in PData /\ SumKnown(v, p, data)
      BY <1>2, <1>3, <2>1
    <3> HIDE DEF data
    <3>2. sliceCache' = [var |-> v, pos |-> p, data |-> data]
      BY <1>1, <2>1 DEF data
    <3>3. sliceCache'.var = v /\ sliceCache'.pos = p /\ sliceCache'.data = data
      BY <3>2
    <3> QED
      BY <1>1, <3>1, <3>3 DEF CacheInv, SumKnown
  <2>2. CASE ~acc
    BY <1>1, <2>2 DEF ProcInv, CacheInv, SumKnown
  <2> QED
    BY <2>1, <2>2
<1>6. ReadInv'
  <2> HIDE DEF result
  <2>1. read'.n = read.n + 1 /\ read'.var = v /\ read'.pos = p /\ read'.data = result
    BY <1>1
  <2>2. read.n \in Nat
    BY DEF ProcInv, ReadInv
  <2>3. read'.n \in Nat /\ read'.n # 0
    BY <2>1, <2>2
  <2>4. PICK data \in PData : data = differ
    BY <1>3
  <2>5. read'.data = TurnedDirection(read.var, Rotated(read.var, read.pos, data))'
    BY <1>1, <2>1, <2>4 DEF result, TurnedDirection, Rotated
  <2>6. read'.pos > 0 => SumKnown(read.var, read.pos, data)'
    BY <1>1, <1>3, <2>1, <2>4 DEF SumKnown
  <2> QED
    BY <2>1, <2>3, <2>5, <2>6 DEF ReadInv
<1> QED
  BY <1>4, <1>5, <1>6 DEF ProcInv

\* What is set up comes before the first read, so that cache and read stay as they were.
LEMMA SetUpKeeps ==
  ASSUME ProcInv, SettingUp, SetUpInv', sliceCache' = sliceCache, read' = read
  PROVE  ProcInv'
<1>1. read.n = 0 /\ read.n \in Nat
  BY DEF SettingUp, ProcInv, ReadInv
<1>2. sliceCache.var = "" /\ read.var = ""
  BY <1>1 DEF ProcInv, ReadInv
<1>3. sliceCache'.var \notin accumulateVars'
  BY <1>2, NamesAreThere DEF SetUpInv
<1>4. CacheInv'
  <2>1. sliceCache.pos \in SlicePositions /\ sliceCache.data \in PData
    BY DEF ProcInv, CacheInv
  <2> QED
    BY <1>3, <2>1 DEF CacheInv, SumKnown
<1>5. ReadInv'
  <2>1. read.pos \in SlicePositions
    BY DEF ProcInv, ReadInv
  <2>2. ~(read'.n > 0)
    BY <1>1
  <2> QED
    BY <1>1, <1>2, <2>1, <2>2 DEF ReadInv
<1> QED
  BY <1>4, <1>5 DEF ProcInv

\* What two components announce once they are turned.
LEMMA AnnouncedAsVector ==
  ASSUME NEW x \in DOMAIN Lower, NEW y \in DOMAIN Lower, x # y, NEW toLatLon \in BOOLEAN, SetUpInv
  PROVE  LET changed == AsVector(x, y, toLatLon)
         IN /\ DOMAIN changed = DOMAIN pVars
            /\ \A v \in DOMAIN Lower : changed[v] \in PVariable
            /\ changed[x].dir = (IF toLatLon THEN "LON" ELSE "X") /\ changed[x].pair = y
            /\ changed[y].dir = (IF toLatLon THEN "LAT" ELSE "Y") /\ changed[y].pair = x
            /\ \A v \in DOMAIN Lower \ {x, y} : changed[v] = pVars[v]
<1> DEFINE lon == IF toLatLon THEN "LON" ELSE "X"
           lat == IF toLatLon THEN "LAT" ELSE "Y"
           changed == AsVector(x, y, toLatLon)
<1>1. DOMAIN Lower \subseteq DOMAIN pVars /\ \A v \in DOMAIN Lower : pVars[v] \in PVariable
  BY DEF SetUpInv
<1>2. x \in STRING /\ y \in STRING
  BY ProcessorAssumption, Zenon
<1>3. lon \in {"LON", "X"} /\ lat \in {"LAT", "Y"}
  OBVIOUS
<1> HIDE DEF lon, lat
<1>4. changed = [pVars EXCEPT ![x].dir = lon, ![x].pair = y, ![y].dir = lat, ![y].pair = x]
  BY DEF AsVector, lon, lat
<1>5. DOMAIN changed = DOMAIN pVars
  BY <1>4
<1>6. changed[x] = [pVars[x] EXCEPT !.dir = lon, !.pair = y]
  BY <1>1, <1>4
<1>7. changed[y] = [pVars[y] EXCEPT !.dir = lat, !.pair = x]
  BY <1>1, <1>4
<1>8. \A v \in DOMAIN Lower \ {x, y} : changed[v] = pVars[v]
  BY <1>1, <1>4
<1> HIDE DEF changed
<1>9. changed[x] \in PVariable /\ changed[x].dir = lon /\ changed[x].pair = y
  BY <1>1, <1>2, <1>3, <1>6 DEF PVariable
<1>10. changed[y] \in PVariable /\ changed[y].dir = lat /\ changed[y].pair = x
  BY <1>1, <1>2, <1>3, <1>7 DEF PVariable
<1>11. \A v \in DOMAIN Lower : changed[v] \in PVariable
  BY <1>1, <1>8, <1>9, <1>10
<1> QED
  BY <1>5, <1>8, <1>9, <1>10, <1>11 DEF changed, lon, lat

\* The coordinate systems of what is turned have one direction.
LEMMA OneMatrix ==
  ASSUME OneDirection, NEW toLatLon \in BOOLEAN, OneWay(toLatLon), NEW cs
  PROVE  LET matrices == WithMatrix(cs, toLatLon)
         IN /\ cs \in DOMAIN matrices /\ DOMAIN reprojection \subseteq DOMAIN matrices
            /\ \A c \in DOMAIN matrices : matrices[c] = toLatLon
<1>1. \A c \in DOMAIN reprojection : reprojection[c] = toLatLon
  BY DEF OneWay
<1>2. CASE cs \in DOMAIN reprojection
  BY <1>1, <1>2 DEF WithMatrix
<1>3. CASE cs \notin DOMAIN reprojection
  <2>1. WithMatrix(cs, toLatLon) = [z \in DOMAIN reprojection \cup {cs} |-> IF z = cs THEN toLatLon ELSE reprojection[z]]
    BY <1>3 DEF WithMatrix, Put
  <2> QED
    BY <1>1, <2>1
<1> QED
  BY <1>2, <1>3

LEMMA RotateKeeps ==
  ASSUME SetUpInv, OneDirection, VectorsHaveSides, NEW x, NEW y, NEW toLatLon \in BOOLEAN,
         HasProjection(x) => x \in FirstOnes /\ y \in SecondOnes, RotateVector(x, y, toLatLon)
  PROVE  SetUpInv'
<1>0. /\ accumulateVars' = accumulateVars /\ vvComp' = vvComp /\ rotateDirection' = rotateDirection
      /\ pResult = "ok" /\ TurnedAsAnnounced
  BY DEF RotateVector, sums, computed, SettingUp, rotations, SetUpInv
<1>1. CASE ~HasProjection(x) \/ ~HasProjection(y)
  <2>1. pResult' = "CDMException" /\ pVars' = pVars /\ rotateX' = rotateX /\ rotateY' = rotateY
    BY <1>1 DEF RotateVector, rotations
  <2> QED
    BY <1>0, <2>1 DEF SetUpInv, SidesKept
<1>2. CASE HasProjection(x) /\ HasProjection(y)
  <2>1. x \in DOMAIN Lower /\ y \in DOMAIN Lower /\ x \in FirstOnes /\ y \in SecondOnes /\ x # y
    BY <1>2 DEF HasProjection, VectorsHaveSides
  <2>2. pVars' = AsVector(x, y, toLatLon)
    BY <1>2 DEF RotateVector
  <2>3. /\ DOMAIN pVars' = DOMAIN pVars
        /\ \A v \in DOMAIN Lower : pVars'[v] \in PVariable
        /\ pVars'[x].dir = (IF toLatLon THEN "LON" ELSE "X") /\ pVars'[x].pair = y
        /\ pVars'[y].dir = (IF toLatLon THEN "LAT" ELSE "Y") /\ pVars'[y].pair = x
        /\ \A v \in DOMAIN Lower \ {x, y} : pVars'[v] = pVars[v]
    BY <2>1, <2>2, AnnouncedAsVector
  <2>4. \A v \in DOMAIN Lower : pVars'[v].dir \in {"X", "LON"} => v \in FirstOnes /\ pVars'[v].pair \in SecondOnes
    <3> SUFFICES ASSUME NEW v \in DOMAIN Lower, pVars'[v].dir \in {"X", "LON"}
                 PROVE  v \in FirstOnes /\ pVars'[v].pair \in SecondOnes
      OBVIOUS
    <3>1. v # y
      BY <2>3
    <3>2. CASE v = x
      BY <2>1, <2>3, <3>2
    <3>3. CASE v # x
      BY <2>3, <3>1, <3>3 DEF SetUpInv, SidesKept
    <3> QED
      BY <3>2, <3>3
  <2>5. CASE Lower[x].cs # Lower[y].cs
    <3>1. pResult' = "CDMException" /\ rotateX' = rotateX /\ rotateY' = rotateY
      BY <1>2, <2>5 DEF RotateVector
    <3>2. SidesKept'
      BY <2>4, <3>1 DEF SetUpInv, SidesKept
    <3> QED
      BY <1>0, <2>3, <3>1, <3>2 DEF SetUpInv
  <2>6. CASE Lower[x].cs = Lower[y].cs
    <3> DEFINE cs == Lower[x].cs
    <3>1. /\ reprojection' = WithMatrix(cs, toLatLon)
          /\ rotateX' = Put(rotateX, x, <<y, cs>>) /\ rotateY' = Put(rotateY, y, <<x, cs>>)
          /\ OneWay(toLatLon)
      BY <1>2, <2>6 DEF RotateVector
    <3>2. /\ cs \in DOMAIN reprojection' /\ DOMAIN reprojection \subseteq DOMAIN reprojection'
          /\ \A c \in DOMAIN reprojection' : reprojection'[c] = toLatLon
      BY <3>1, OneMatrix
    <3>3. \A c \in DOMAIN reprojection : reprojection[c] = toLatLon
      BY <3>1 DEF OneWay
    <3>4. /\ DOMAIN rotateX' = DOMAIN rotateX \cup {x} /\ DOMAIN rotateY' = DOMAIN rotateY \cup {y}
          /\ rotateX'[x] = <<y, cs>> /\ \A v \in DOMAIN rotateX \ {x} : rotateX'[v] = rotateX[v]
          /\ rotateY'[y] = <<x, cs>> /\ \A v \in DOMAIN rotateY \ {y} : rotateY'[v] = rotateY[v]
      BY <3>1 DEF Put
    <3>5. x \notin DOMAIN rotateY' /\ y \notin DOMAIN rotateX'
      BY <2>1, <3>4 DEF SetUpInv, SidesKept, VectorsHaveSides
    <3>6. SidesKept'
      BY <2>1, <2>4, <3>4 DEF SetUpInv, SidesKept
    <3>7. TurnedAsAnnounced'
      <4> SUFFICES ASSUME NEW v \in DOMAIN Lower
                   PROVE  /\ v \in DOMAIN rotateX' => rotateX'[v] = <<pVars'[v].pair, Lower[v].cs>>
                          /\ v \in DOMAIN rotateY' => rotateY'[v] = <<pVars'[v].pair, Lower[v].cs>>
                          /\ v \in DOMAIN rotateX' \cup DOMAIN rotateY' => Lower[v].cs \in DOMAIN reprojection'
                          /\ Announced(pVars'[v]) # Announced(Lower[v]) =>
                               /\ v \in DOMAIN rotateX' \cup DOMAIN rotateY'
                               /\ \A c \in DOMAIN reprojection' : reprojection'[c] = (pVars'[v].dir \in {"LON", "LAT"})
        BY DEF TurnedAsAnnounced, Announced
      <4>1. CASE v \in {x, y}
        <5>1. toLatLon = (pVars'[v].dir \in {"LON", "LAT"})
          BY <2>3, <4>1
        <5> QED
          BY <2>3, <2>6, <3>2, <3>4, <3>5, <4>1, <5>1
      <4>2. CASE v \notin {x, y}
        <5>1. pVars'[v] = pVars[v]
          BY <2>3, <4>2
        <5>2. /\ v \in DOMAIN rotateX' <=> v \in DOMAIN rotateX
              /\ v \in DOMAIN rotateY' <=> v \in DOMAIN rotateY
              /\ v \in DOMAIN rotateX => rotateX'[v] = rotateX[v]
              /\ v \in DOMAIN rotateY => rotateY'[v] = rotateY[v]
          BY <3>4, <4>2
        <5>3. /\ v \in DOMAIN rotateX => rotateX[v] = <<pVars[v].pair, Lower[v].cs>>
              /\ v \in DOMAIN rotateY => rotateY[v] = <<pVars[v].pair, Lower[v].cs>>
              /\ v \in DOMAIN rotateX \cup DOMAIN rotateY => Lower[v].cs \in DOMAIN reprojection
          BY <1>0 DEF TurnedAsAnnounced
        <5>4. ASSUME Announced(pVars[v]) # Announced(Lower[v])
              PROVE  /\ v \in DOMAIN rotateX \cup DOMAIN rotateY
                     /\ toLatLon = (pVars[v].dir \in {"LON", "LAT"})
          <6>1. /\ v \in DOMAIN rotateX \cup DOMAIN rotateY
                /\ \A c \in DOMAIN reprojection : reprojection[c] = (pVars[v].dir \in {"LON", "LAT"})
            BY <1>0, <5>4 DEF TurnedAsAnnounced
          <6> QED
            BY <3>3, <5>3, <6>1
        <5> QED
          BY <3>2, <5>1, <5>2, <5>3, <5>4
      <4> QED
        BY <4>1, <4>2
    <3> QED
      BY <1>0, <2>3, <3>6, <3>7 DEF SetUpInv
  <2> QED
    BY <2>5, <2>6
<1> QED
  BY <1>1, <1>2

LEMMA DirectionKeeps ==
  ASSUME SetUpInv, OneDirection, NEW v, NEW toLatLon \in BOOLEAN, RotateDirection(v, toLatLon)
  PROVE  SetUpInv'
<1>1. /\ accumulateVars' = accumulateVars /\ vvComp' = vvComp /\ pVars' = pVars
      /\ rotateX' = rotateX /\ rotateY' = rotateY /\ pResult = "ok" /\ TurnedAsAnnounced
      /\ OneWay(toLatLon)
  BY DEF RotateDirection, sums, computed, SettingUp, SetUpInv
<1>2. SidesKept'
  BY <1>1 DEF SetUpInv, SidesKept
<1>3. TurnedAsAnnounced'
  <2>1. CASE reprojection' = reprojection
    BY <1>1, <2>1 DEF TurnedAsAnnounced
  <2>2. CASE reprojection' = WithMatrix(Lower[v].cs, toLatLon)
    <3>1. /\ DOMAIN reprojection \subseteq DOMAIN reprojection'
          /\ \A c \in DOMAIN reprojection' : reprojection'[c] = toLatLon
      BY <1>1, <2>2, OneMatrix
    <3>2. \A c \in DOMAIN reprojection : reprojection[c] = toLatLon
      BY <1>1 DEF OneWay
    <3> SUFFICES ASSUME NEW w \in DOMAIN Lower
                 PROVE  /\ w \in DOMAIN rotateX' => rotateX'[w] = <<pVars'[w].pair, Lower[w].cs>>
                        /\ w \in DOMAIN rotateY' => rotateY'[w] = <<pVars'[w].pair, Lower[w].cs>>
                        /\ w \in DOMAIN rotateX' \cup DOMAIN rotateY' => Lower[w].cs \in DOMAIN reprojection'
                        /\ Announced(pVars'[w]) # Announced(Lower[w]) =>
                             /\ w \in DOMAIN rotateX' \cup DOMAIN rotateY'
                             /\ \A c \in DOMAIN reprojection' : reprojection'[c] = (pVars'[w].dir \in {"LON", "LAT"})
      BY DEF TurnedAsAnnounced, Announced
    <3>3. /\ w \in DOMAIN rotateX => rotateX[w] = <<pVars[w].pair, Lower[w].cs>>
          /\ w \in DOMAIN rotateY => rotateY[w] = <<pVars[w].pair, Lower[w].cs>>
          /\ w \in DOMAIN rotateX \cup DOMAIN rotateY => Lower[w].cs \in DOMAIN reprojection
      BY <1>1 DEF TurnedAsAnnounced
    <3>4. ASSUME Announced(pVars[w]) # Announced(Lower[w])
          PROVE  w \in DOMAIN rotateX \cup DOMAIN rotateY /\ toLatLon = (pVars[w].dir \in {"LON", "LAT"})
      <4>1. /\ w \in DOMAIN rotateX \cup DOMAIN rotateY
            /\ \A c \in DOMAIN reprojection : reprojection[c] = (pVars[w].dir \in {"LON", "LAT"})
        BY <1>1, <3>4 DEF TurnedAsAnnounced
      <4> QED
        BY <3>2, <3>3, <4>1
    <3> QED
      BY <1>1, <3>1, <3>3, <3>4
  <2> QED
    BY <2>1, <2>2 DEF RotateDirection
<1> QED
  BY <1>1, <1>2, <1>3 DEF SetUpInv

\* A variable that is added disturbs none that was there.
LEMMA AddedVariableKeeps ==
  ASSUME SetUpInv, pResult = "ok", NEW name, NEW variable,
         pVars' = pVars \/ (name \notin DOMAIN pVars /\ pVars' = Put(pVars, name, variable)),
         accumulateVars' = accumulateVars, rotateX' = rotateX, rotateY' = rotateY,
         reprojection' = reprojection,
         vvComp' = vvComp \/ "upward_air_velocity_ml" \notin DOMAIN pVars
  PROVE  SetUpInv'
<1>1. \A v \in DOMAIN Lower : v \in DOMAIN pVars' /\ pVars'[v] = pVars[v]
  BY DEF SetUpInv, Put
<1>2. SidesKept'
  BY <1>1 DEF SetUpInv, SidesKept
<1>3. TurnedAsAnnounced'
  <2>1. TurnedAsAnnounced
    BY DEF SetUpInv
  <2> QED
    BY <2>1, <1>1 DEF TurnedAsAnnounced, Announced
<1>4. /\ accumulateVars' \subseteq DOMAIN Lower
      /\ DOMAIN Lower \subseteq DOMAIN pVars' /\ \A v \in DOMAIN Lower : pVars'[v] \in PVariable
  BY <1>1 DEF SetUpInv
<1>5. vvComp'.xWind # "" => "upward_air_velocity_ml" \notin DOMAIN Lower
  BY DEF SetUpInv
<1> QED
  BY <1>2, <1>3, <1>4, <1>5 DEF SetUpInv

LEMMA ProcInvInductive ==
  ASSUME OneDirection, VectorsHaveSides, ProcInv, [ProcNext]_procVars
  PROVE  ProcInv'
<1>0. SetUpInv
  BY DEF ProcInv
<1>1. CASE UNCHANGED procVars
  <2>1. /\ pVars' = pVars /\ accumulateVars' = accumulateVars /\ deaccumulateVars' = deaccumulateVars
        /\ rotateX' = rotateX /\ rotateY' = rotateY /\ rotateDirection' = rotateDirection
        /\ reprojection' = reprojection /\ vvComp' = vvComp /\ geopotential' = geopotential
        /\ pResult' = pResult /\ sliceCache' = sliceCache /\ read' = read
    BY <1>1 DEF procVars
  <2>2. SetUpInv'
    BY <1>0, <2>1 DEF SetUpInv, SidesKept, TurnedAsAnnounced
  <2>3. CacheInv'
    BY <2>1 DEF ProcInv, CacheInv, SumKnown
  <2>4. ReadInv'
    <3>1. \A v, p, data : Rotated(v, p, data)' = Rotated(v, p, data)
      BY <2>1 DEF Rotated
    <3>2. \A v, p, data : SumKnown(v, p, data)' = SumKnown(v, p, data)
      BY <2>1 DEF SumKnown
    <3>3. \A v, p, data : TurnedDirection(v, Rotated(v, p, data))' = TurnedDirection(v, Rotated(v, p, data))
      BY <3>1, <2>1 DEF TurnedDirection
    <3> QED
      BY <2>1, <3>2, <3>3 DEF ProcInv, ReadInv
  <2> QED
    BY <2>2, <2>3, <2>4 DEF ProcInv
<1>2. ASSUME NEW v \in DOMAIN Lower, Accumulate(v) \/ DeAccumulate(v)
      PROVE  ProcInv'
  <2>1. /\ SettingUp /\ sliceCache' = sliceCache /\ read' = read /\ pResult = "ok"
        /\ pVars' = pVars /\ rotateX' = rotateX /\ rotateY' = rotateY /\ reprojection' = reprojection
        /\ vvComp' = vvComp /\ accumulateVars' \subseteq accumulateVars \cup {v}
    BY <1>2 DEF Accumulate, DeAccumulate, SettingUp, rotations, computed
  <2>2. SetUpInv'
    BY <1>0, <2>1 DEF SetUpInv, SidesKept, TurnedAsAnnounced
  <2> QED
    BY <2>1, <2>2, SetUpKeeps
<1>3. CASE AddGeopotentialHeight
  <2>1. PICK name, variable :
          pVars' = pVars \/ (name \notin DOMAIN pVars /\ pVars' = Put(pVars, name, variable))
    BY <1>3 DEF AddGeopotentialHeight
  <2>2. /\ SettingUp /\ sliceCache' = sliceCache /\ read' = read /\ pResult = "ok"
        /\ accumulateVars' = accumulateVars /\ rotateX' = rotateX /\ rotateY' = rotateY
        /\ reprojection' = reprojection /\ vvComp' = vvComp
    BY <1>3 DEF AddGeopotentialHeight, SettingUp, sums, rotations
  <2>3. SetUpInv'
    BY <1>0, <2>1, <2>2, AddedVariableKeeps
  <2> QED
    BY <2>2, <2>3, SetUpKeeps
<1>4. CASE AddVerticalVelocity
  <2>1. PICK variable : pVars' = Put(pVars, "upward_air_velocity_ml", variable)
    BY <1>4 DEF AddVerticalVelocity
  <2>2. /\ SettingUp /\ sliceCache' = sliceCache /\ read' = read /\ pResult = "ok"
        /\ accumulateVars' = accumulateVars /\ rotateX' = rotateX /\ rotateY' = rotateY
        /\ reprojection' = reprojection /\ "upward_air_velocity_ml" \notin DOMAIN pVars
    BY <1>4 DEF AddVerticalVelocity, SettingUp, sums, rotations
  <2>3. SetUpInv'
    BY <1>0, <2>1, <2>2, AddedVariableKeeps
  <2> QED
    BY <2>2, <2>3, SetUpKeeps
<1>5. ASSUME NEW x, NEW y, NEW toLatLon \in BOOLEAN, RotateVector(x, y, toLatLon),
             HasProjection(x) => x \in FirstOnes /\ y \in SecondOnes
      PROVE  ProcInv'
  <2>1. SettingUp /\ sliceCache' = sliceCache /\ read' = read
    BY <1>5 DEF RotateVector
  <2>2. SetUpInv'
    BY <1>0, <1>5, RotateKeeps
  <2> QED
    BY <2>1, <2>2, SetUpKeeps
<1>6. ASSUME NEW pair \in VectorPairs, NEW toLatLon \in BOOLEAN, RotateVector(pair[1], pair[2], toLatLon)
      PROVE  ProcInv'
  <2>1. pair[1] \in FirstOnes /\ pair[2] \in SecondOnes
    BY DEF FirstOnes, SecondOnes
  <2> QED
    BY <1>5, <1>6, <2>1
<1>7. ASSUME NEW toLatLon \in BOOLEAN, RotateAllVectors(toLatLon)
      PROVE  ProcInv'
  <2>1. PICK v \in ToRotate(toLatLon) : RotateVector(v, pVars[v].pair, toLatLon)
    BY <1>7 DEF RotateAllVectors
  <2>2. pVars[v].dir \in {"X", "LON"}
    BY DEF ToRotate
  <2>3. HasProjection(v) => v \in FirstOnes /\ pVars[v].pair \in SecondOnes
    BY <1>0, <2>2 DEF SetUpInv, SidesKept, HasProjection
  <2> QED
    BY <1>5, <2>1, <2>3
<1>8. ASSUME NEW v, NEW toLatLon \in BOOLEAN, RotateDirection(v, toLatLon)
      PROVE  ProcInv'
  <2>1. SettingUp /\ sliceCache' = sliceCache /\ read' = read
    BY <1>8 DEF RotateDirection
  <2>2. SetUpInv'
    BY <1>0, <1>8, DirectionKeeps
  <2> QED
    BY <2>1, <2>2, SetUpKeeps
<1>9. ASSUME NEW v \in DOMAIN pVars, NEW p \in SlicePositions, ReadSlice(v, p)
      PROVE  ProcInv'
  BY <1>9, ReadKeeps
<1> QED
  BY <1>1, <1>2, <1>3, <1>4, <1>6, <1>7, <1>8, <1>9 DEF ProcNext

LEMMA ProcInitially == ProcInit => ProcInv
<1> SUFFICES ASSUME ProcInit PROVE ProcInv
  OBVIOUS
<1>1. /\ pVars = Lower /\ accumulateVars = {} /\ rotateX = <<>> /\ rotateY = <<>> /\ reprojection = <<>>
      /\ sliceCache = [var |-> "", pos |-> 0, data |-> Nothing] /\ vvComp.xWind = ""
      /\ read = [n |-> 0, var |-> "", pos |-> 0, data |-> Nothing]
  BY DEF ProcInit
<1>2. DOMAIN rotateX = {} /\ DOMAIN rotateY = {}
  <2>1. rotateX = <<>> /\ rotateY = <<>>
    BY <1>1
  <2> QED
    BY <2>1
<1>3. SidesKept
  BY <1>1, <1>2 DEF SidesKept, FirstOnes, SecondOnes
<1>4. TurnedAsAnnounced
  BY <1>1, <1>2 DEF TurnedAsAnnounced
<1>5. \A v \in DOMAIN Lower : pVars[v] \in PVariable
  BY <1>1, ProcessorAssumption, Zenon
<1>6. SetUpInv
  BY <1>1, <1>3, <1>4, <1>5 DEF SetUpInv
<1>7. 0 \in SlicePositions
  BY LastPlace DEF SlicePositions
<1>8. Nothing \in PData
  <2>1. NoData \in [{} -> Int]
    BY DEF NoData
  <2>2. NoData \in PTerms
    BY <2>1 DEF PTerms
  <2> QED
    BY <2>2 DEF Nothing, PData
<1>9. CacheInv
  BY <1>1, <1>7, <1>8 DEF CacheInv, SumKnown
<1>10. ReadInv
  <2>1. read.n = 0 /\ read.pos = 0
    BY <1>1
  <2>2. read.var = "" /\ sliceCache.var = ""
    BY <1>1
  <2>3. 0 \in Nat /\ ~(0 > 0)
    OBVIOUS
  <2> QED
    BY <2>1, <2>2, <2>3, <1>7, Zenon DEF ReadInv
<1> QED
  BY <1>6, <1>9, <1>10 DEF ProcInv

\* What the invariant says of the slice that was read last.
LEMMA TurnedOnce ==
  ASSUME NEW v, NEW p \in SlicePositions, NEW data \in PData,
         v \in DOMAIN rotateX \cup DOMAIN rotateY, NEW pair, NEW cs,
         v \in DOMAIN rotateX => rotateX[v] = <<pair, cs>>,
         v \in DOMAIN rotateY => rotateY[v] = <<pair, cs>>
  PROVE  \A turns : turns = TurnedDirection(v, Rotated(v, p, data)).rotated =>
            /\ 1 \in DOMAIN turns
            /\ turns[1].with = pair /\ turns[1].toLatLon = reprojection[cs]
            /\ DOMAIN turns[1].terms = Present[pair] \cap {p}
<1> DEFINE with == [with |-> pair, terms |-> Array(pair, p).terms, toLatLon |-> reprojection[cs]]
           turned == Rotated(v, p, data)
<1>0. data.rotated = <<>> /\ data = [terms |-> data.terms, sum |-> data.sum, rotated |-> data.rotated]
  BY DEF PData
<1>1. turned = [data EXCEPT !.rotated = Append(@, with), !.sum = FALSE]
  <2>1. CASE v \in DOMAIN rotateX
    <3>1. rotateX[v][1] = pair /\ rotateX[v][2] = cs
      BY <2>1
    <3> QED
      BY <2>1, <3>1 DEF Rotated
  <2>2. CASE v \notin DOMAIN rotateX
    <3>1. v \in DOMAIN rotateY /\ rotateY[v][1] = pair /\ rotateY[v][2] = cs
      BY <2>2
    <3> QED
      BY <2>2, <3>1 DEF Rotated
  <2> QED
    BY <2>1, <2>2
<1> HIDE DEF with, turned
<1>2. turned = [terms |-> data.terms, sum |-> FALSE, rotated |-> <<with>>]
  <2>1. Append(data.rotated, with) = <<with>>
    BY <1>0
  <2>2. turned = [terms |-> data.terms, sum |-> FALSE, rotated |-> Append(data.rotated, with)]
    BY <1>0, <1>1
  <2> QED
    BY <2>1, <2>2
<1>4. 1 \in DOMAIN TurnedDirection(v, turned).rotated /\ TurnedDirection(v, turned).rotated[1] = with
  <2>1. CASE v \in DOMAIN rotateDirection
    <3> DEFINE more == [with |-> "", terms |-> NoData, toLatLon |-> reprojection[rotateDirection[v]]]
    <3>1. TurnedDirection(v, turned) = [turned EXCEPT !.rotated = Append(@, more), !.sum = FALSE]
      BY <2>1 DEF TurnedDirection
    <3> HIDE DEF more
    <3>2. TurnedDirection(v, turned).rotated = Append(<<with>>, more)
      BY <3>1, <1>2
    <3>3. <<with>> \in Seq({with, more}) /\ Len(<<with>>) = 1 /\ <<with>>[1] = with
      OBVIOUS
    <3>4. 1 \in DOMAIN Append(<<with>>, more) /\ Append(<<with>>, more)[1] = with
      BY <3>3, AppendProperties
    <3> QED
      BY <3>2, <3>4
  <2>2. CASE v \notin DOMAIN rotateDirection
    BY <2>2, <1>2 DEF TurnedDirection
  <2> QED
    BY <2>1, <2>2
<1>5. with.with = pair /\ with.toLatLon = reprojection[cs] /\ with.terms = Ones(Present[pair] \cap {p})
  BY ArrayOnce DEF with
<1>6. DOMAIN with.terms = Present[pair] \cap {p}
  BY <1>5 DEF Ones
<1> QED
  BY <1>4, <1>5, <1>6 DEF turned

LEMMA TurningKeepsTerms ==
  ASSUME NEW v, NEW p, NEW data \in PData
  PROVE  TurnedDirection(v, Rotated(v, p, data)).terms = data.terms
<1> DEFINE turned == Rotated(v, p, data)
<1>1. \E r, s : turned = [terms |-> data.terms, sum |-> s, rotated |-> r]
  BY DEF Rotated, PData
<1> HIDE DEF turned
<1>2. TurnedDirection(v, turned).terms = data.terms
  BY <1>1 DEF TurnedDirection
<1> QED
  BY <1>2 DEF turned

(* CDMProcessor::getDataSlice: for all variables, slices and orders of set-up calls and reads *)
(* that turn vectors in one direction, an accumulated slice has every slice up to it once,    *)
(* and one that is announced as part of another vector was turned so with its counterpart.    *)
THEOREM SumsAndTurnsAreOnce ==
  ASSUME OneDirection, VectorsHaveSides
  PROVE  ProcSpec => []ProcessedAsAsked
<1>1. ProcInit => ProcInv
  BY ProcInitially
<1>2. ProcInv /\ [ProcNext]_procVars => ProcInv'
  BY ProcInvInductive
<1>3. ProcInv => ProcessedAsAsked
  <2> SUFFICES ASSUME ProcInv PROVE ProcessedAsAsked
    OBVIOUS
  <2> DEFINE v == read.var
             p == read.pos
  <2>1. read.n \in Nat /\ p \in SlicePositions
    BY DEF ProcInv, ReadInv
  <2>2. AccumulatedOnce
    <3> SUFFICES ASSUME v \in accumulateVars \ deaccumulateVars, p > 0, v # geopotential.var
                 PROVE  /\ DOMAIN read.data.terms = Present[v] \cap 0 .. p
                        /\ \A q \in DOMAIN read.data.terms : read.data.terms[q] = 1
      BY DEF AccumulatedOnce
    <3>1. v # ""
      BY NamesAreThere DEF ProcInv, SetUpInv
    <3>2. read.n > 0
      <4>1. read.n # 0
        BY <3>1 DEF ProcInv, ReadInv
      <4>2. \A n \in Nat : n # 0 => n > 0
        OBVIOUS
      <4> QED
        BY <2>1, <4>1, <4>2
    <3>3. PICK data \in PData : /\ read.data = TurnedDirection(v, Rotated(v, p, data))
                                /\ SumKnown(v, p, data)
      BY <3>2 DEF ProcInv, ReadInv
    <3>4. read.data.terms = Ones(Present[v] \cap (0 .. p))
      BY <3>3, TurningKeepsTerms DEF SumKnown
    <3> QED
      BY <3>4 DEF Ones
  <2>3. PairsTurned
    <3> SUFFICES ASSUME pResult = "ok", read.n > 0, v \in DOMAIN Lower,
                        Announced(pVars[v]) # Announced(Lower[v])
                 PROVE  \E k \in DOMAIN read.data.rotated :
                          /\ read.data.rotated[k].with = pVars[v].pair
                          /\ DOMAIN read.data.rotated[k].terms = Present[pVars[v].pair] \cap {p}
                          /\ read.data.rotated[k].toLatLon = (pVars[v].dir \in {"LON", "LAT"})
      BY DEF PairsTurned
    <3>1. TurnedAsAnnounced
      BY DEF ProcInv, SetUpInv
    <3>2. PICK data \in PData : read.data = TurnedDirection(v, Rotated(v, p, data))
      BY DEF ProcInv, ReadInv
    <3>3. /\ v \in DOMAIN rotateX => rotateX[v] = <<pVars[v].pair, Lower[v].cs>>
          /\ v \in DOMAIN rotateY => rotateY[v] = <<pVars[v].pair, Lower[v].cs>>
          /\ v \in DOMAIN rotateX \cup DOMAIN rotateY
          /\ reprojection[Lower[v].cs] = (pVars[v].dir \in {"LON", "LAT"})
      BY <3>1 DEF TurnedAsAnnounced
    <3> DEFINE turned == read.data.rotated
               pair == pVars[v].pair
               cs == Lower[v].cs
    <3> HIDE DEF turned, pair, cs
    <3>4. turned = TurnedDirection(v, Rotated(v, p, data)).rotated
      BY <3>2 DEF turned
    <3>5. /\ v \in DOMAIN rotateX => rotateX[v] = <<pair, cs>>
          /\ v \in DOMAIN rotateY => rotateY[v] = <<pair, cs>>
      BY <3>3 DEF pair, cs
    <3>6. /\ 1 \in DOMAIN turned
          /\ turned[1].with = pair /\ turned[1].toLatLon = reprojection[cs]
          /\ DOMAIN turned[1].terms = Present[pair] \cap {p}
      BY <2>1, <3>2, <3>3, <3>4, <3>5, TurnedOnce
    <3>7. /\ 1 \in DOMAIN turned
          /\ turned[1].with = pVars[v].pair /\ turned[1].toLatLon = reprojection[Lower[v].cs]
          /\ DOMAIN turned[1].terms = Present[pVars[v].pair] \cap {p}
      BY <3>6 DEF pair, cs
    <3>8. \E k \in DOMAIN turned :
            /\ turned[k].with = pVars[v].pair
            /\ DOMAIN turned[k].terms = Present[pVars[v].pair] \cap {p}
            /\ turned[k].toLatLon = (pVars[v].dir \in {"LON", "LAT"})
      BY <3>3, <3>7, Zenon
    <3> QED
      BY <3>8 DEF turned
  <2> QED
    BY <2>2, <2>3 DEF ProcessedAsAsked
<1> QED
  BY <1>1, <1>2, <1>3, PTL DEF ProcSpec

-----------------------------------------------------------------------------
(* CDMVerticalInterpolator: the altitudes of the level converters.  The loop of                *)
(* PressureIntegrationToAltitudeConverter goes from the ground up, from either end of the      *)
(* column (LevelFrom), and keeps the altitude that it has come to.  The promise is a sum over  *)
(* the set of layers underneath, which does not know of ends: that the two agree is an         *)
(* induction over the turns, and that each turn adds one layer to the set.                     *)
LevelFrom(up, n, i) == IF up THEN i ELSE n - 1 - i
FallsFrom(up, n, p) == \A j, k \in 0 .. n - 1 : j < k => IF up THEN p[j] > p[k] ELSE p[j] < p[k]
EdgeAt(p, terms, up, n, i) == IF i = 0 THEN terms.ps ELSE p[LevelFrom(up, n, i - 1)]
Passed(up, n, i) == {LevelFrom(up, n, h) : h \in 0 .. i}

LEMMA LevelsAreTurned ==
  ASSUME NEW n \in Nat \ {0}, NEW up \in BOOLEAN, NEW i \in 0 .. n - 1
  PROVE  LevelFrom(up, n, i) \in 0 .. n - 1 /\ LevelFrom(up, n, LevelFrom(up, n, i)) = i
  BY DEF LevelFrom

\* What is underneath a level is what the loop has passed before it.
LEMMA UnderneathIsPassed ==
  ASSUME NEW n \in Nat \ {0}, NEW up \in BOOLEAN, NEW p \in [0 .. n - 1 -> Int], FallsFrom(up, n, p),
         NEW i \in 0 .. n - 1
  PROVE  Underneath(p, LevelFrom(up, n, i)) = Passed(up, n, i - 1)
<1> DEFINE k == LevelFrom(up, n, i)
<1>1. k \in 0 .. n - 1
  BY LevelsAreTurned
<1>2. ASSUME NEW j \in 0 .. n - 1, p[j] > p[k] PROVE j \in Passed(up, n, i - 1)
  <2> DEFINE h == LevelFrom(up, n, j)
  <2>1. h \in 0 .. n - 1 /\ LevelFrom(up, n, h) = j
    BY LevelsAreTurned
  <2>2. h \in 0 .. i - 1
    BY <1>1, <1>2 DEF FallsFrom, LevelFrom
  <2> QED
    BY <2>1, <2>2 DEF Passed
<1>3. ASSUME NEW h \in 0 .. i - 1 PROVE LevelFrom(up, n, h) \in 0 .. n - 1 /\ p[LevelFrom(up, n, h)] > p[k]
  BY <1>1 DEF FallsFrom, LevelFrom
<1> QED
  BY <1>1, <1>2, <1>3 DEF Underneath, Passed

\* The pressure at the lower edge of a layer is that of the level passed before it.
LEMMA EdgeIsPassed ==
  ASSUME NEW n \in Nat \ {0}, NEW up \in BOOLEAN, NEW p \in [0 .. n - 1 -> Int], FallsFrom(up, n, p),
         NEW i \in 0 .. n - 1, NEW terms
  PROVE  LowerEdge(p, terms, LevelFrom(up, n, i)) = EdgeAt(p, terms, up, n, i)
<1> DEFINE k == LevelFrom(up, n, i)
           S == {p[h] : h \in Underneath(p, k)}
           m == p[LevelFrom(up, n, i - 1)]
<1>1. Underneath(p, k) = Passed(up, n, i - 1)
  BY UnderneathIsPassed
<1>2. CASE i = 0
  <2>1. Underneath(p, k) = {}
    BY <1>1, <1>2 DEF Passed
  <2> QED
    BY <1>2, <2>1 DEF LowerEdge, EdgeAt
<1>3. CASE i # 0
  <2>1. i - 1 \in 0 .. i - 1 /\ i - 1 \in 0 .. n - 1
    BY <1>3
  <2>2. LevelFrom(up, n, i - 1) \in Underneath(p, k)
    BY <1>1, <2>1 DEF Passed
  <2>3. LevelFrom(up, n, i - 1) \in 0 .. n - 1 /\ m \in Int
    BY <2>1, LevelsAreTurned
  <2>4. ASSUME NEW h \in 0 .. i - 1 PROVE LevelFrom(up, n, h) \in 0 .. n - 1 /\ m <= p[LevelFrom(up, n, h)]
    <3>1. CASE h = i - 1
      BY <2>3, <3>1
    <3>2. CASE h # i - 1
      BY <2>1, <2>3, <3>2 DEF FallsFrom, LevelFrom
    <3> QED
      BY <3>1, <3>2
  <2>5. m \in S /\ \A x \in S : x \in Int /\ m <= x
    BY <1>1, <2>2, <2>4 DEF Passed
  <2> HIDE DEF S, m
  <2>6. Min(S) = m
    <3>1. Min(S) = CHOOSE x \in S : \A y \in S : x <= y
      BY DEF Min
    <3>2. \A x \in S : (\A y \in S : x <= y) => x = m
      BY <2>3, <2>5
    <3>3. \E x \in S : \A y \in S : x <= y
      BY <2>5
    <3> QED
      BY <3>1, <3>2, <3>3
  <2>7. Underneath(p, k) # {}
    BY <2>2
  <2> QED
    BY <1>3, <2>6, <2>7 DEF LowerEdge, EdgeAt, S, m
<1> QED
  BY <1>2, <1>3

\* The loop: the altitude after each turn.
Thicker(p, terms, up, n, i) ==
    Thickness(EdgeAt(p, terms, up, n, i), p[LevelFrom(up, n, i)], terms.temperature[LevelFrom(up, n, i)])
Climbing(f, p, terms, up, n, m) ==
    f = [i \in -1 .. m - 1 |-> IF i = -1 THEN terms.topography ELSE f[i - 1] + Thicker(p, terms, up, n, i)]

\* A turn adds the thickness of the level's own layer.
LEMMA TurnAddsItsLayer ==
  ASSUME NEW n \in Nat \ {0}, NEW up \in BOOLEAN, NEW p, NEW terms, ColumnFits(p, terms, n), FallsFrom(up, n, p),
         NEW i \in 0 .. n - 1
  PROVE  /\ Thicker(p, terms, up, n, i) = Layers(p, terms)[LevelFrom(up, n, i)]
         /\ Thicker(p, terms, up, n, i) \in Int
<1> DEFINE k == LevelFrom(up, n, i)
           edge == EdgeAt(p, terms, up, n, i)
<1>1. p \in [0 .. n - 1 -> Int] /\ terms.temperature \in [0 .. n - 1 -> Int] /\ terms.ps \in Int
  BY DEF ColumnFits
<1>2. k \in 0 .. n - 1
  BY LevelsAreTurned
<1>3. LowerEdge(p, terms, k) = edge
  BY <1>1, EdgeIsPassed
<1>4. edge \in Int
  <2>1. ASSUME i # 0 PROVE p[LevelFrom(up, n, i - 1)] \in Int
    <3>1. i - 1 \in 0 .. n - 1
      BY <2>1
    <3> QED
      BY <1>1, <3>1, LevelsAreTurned
  <2> QED
    BY <1>1, <2>1 DEF EdgeAt
<1>5. Layers(p, terms)[k] = Thickness(edge, p[k], terms.temperature[k])
  BY <1>1, <1>2, <1>3 DEF Layers
<1>6. p[k] \in Int /\ terms.temperature[k] \in Int
  BY <1>1, <1>2
<1>7. Thicker(p, terms, up, n, i) = Thickness(edge, p[k], terms.temperature[k])
  BY DEF Thicker
<1> HIDE DEF edge, k
<1>8. Thickness(edge, p[k], terms.temperature[k]) \in Int
  BY <1>4, <1>6 DEF Thickness
<1> QED
  BY <1>5, <1>7, <1>8 DEF k

\* The loop is given as a recursive function, of which there is one.
LEMMA LoopClimbs ==
  ASSUME NEW n \in Nat \ {0}, NEW up \in BOOLEAN, NEW p, NEW terms, ColumnFits(p, terms, n), FallsFrom(up, n, p),
         NEW m \in 0 .. n
  PROVE  \E f : Climbing(f, p, terms, up, n, m)
<1> DEFINE a == terms.topography
           step == [i \in 1 .. m |-> [x \in Int |-> x + Thicker(p, terms, up, n, i - 1)]]
           A == [i \in 0 .. m |-> Int]
<1>1. m \in Nat /\ a \in Int
  BY DEF ColumnFits
<1>2. ASSUME NEW i \in 1 .. m, NEW x \in Int
      PROVE  step[i][x] = x + Thicker(p, terms, up, n, i - 1) /\ step[i][x] \in Int
  <2>1. i - 1 \in 0 .. n - 1
    BY <1>1
  <2>2. Thicker(p, terms, up, n, i - 1) \in Int
    BY <2>1, TurnAddsItsLayer
  <2>3. step[i][x] = x + Thicker(p, terms, up, n, i - 1)
    OBVIOUS
  <2> HIDE DEF step
  <2> QED
    BY <2>2, <2>3
<1> HIDE DEF step, a
<1>3. PICK g : Turns(g, m, a, step)
  BY <1>1, Recursion
<1>4. \A i \in 0 .. m : g[i] \in A[i]
  <2>1. g[0] \in A[0]
    BY <1>1, <1>3 DEF Turns
  <2>2. \A i \in 1 .. m : g[i - 1] \in A[i - 1] => g[i] \in A[i]
    <3> SUFFICES ASSUME NEW i \in 1 .. m, g[i - 1] \in A[i - 1] PROVE g[i] \in A[i]
      OBVIOUS
    <3>1. i - 1 \in 0 .. m /\ i \in 0 .. m
      BY <1>1
    <3>2. g[i] = step[i][g[i - 1]]
      BY <1>3 DEF Turns
    <3> QED
      BY <1>2, <3>1, <3>2
  <2> HIDE DEF A
  <2> QED
    BY <1>1, <2>1, <2>2, Induction
<1> DEFINE f == [i \in -1 .. m - 1 |-> g[i + 1]]
<1>5. ASSUME NEW i \in -1 .. m - 1
      PROVE  f[i] = IF i = -1 THEN terms.topography ELSE f[i - 1] + Thicker(p, terms, up, n, i)
  <2>1. CASE i = -1
    <3>1. f[i] = g[0]
      BY <2>1
    <3> QED
      BY <1>3, <2>1, <3>1 DEF Turns, a
  <2>2. CASE i # -1
    <3>1. i + 1 \in 1 .. m /\ i \in 0 .. m /\ i - 1 \in -1 .. m - 1 /\ (i + 1) - 1 = i /\ (i - 1) + 1 = i
      BY <1>1, <2>2
    <3>2. f[i] = g[i + 1] /\ f[i - 1] = g[i]
      BY <3>1
    <3> HIDE DEF f
    <3>3. g[i + 1] = step[i + 1][g[i]]
      BY <1>3, <3>1 DEF Turns
    <3>4. g[i] \in Int
      BY <1>4, <3>1
    <3>5. step[i + 1][g[i]] = g[i] + Thicker(p, terms, up, n, (i + 1) - 1)
      BY <1>2, <3>1, <3>4
    <3> QED
      BY <2>2, <3>1, <3>2, <3>3, <3>5
  <2> QED
    BY <2>1, <2>2
<1>6. f = [i \in -1 .. m - 1 |-> f[i]]
  OBVIOUS
<1> HIDE DEF f
<1>7. Climbing(f, p, terms, up, n, m)
  BY <1>5, <1>6 DEF Climbing
<1> QED
  BY <1>7

\* After each turn the loop has the altitude of the level it came to.
LEMMA ClimbsToTheAltitude ==
  ASSUME NEW n \in Nat \ {0}, NEW up \in BOOLEAN, NEW p, NEW terms, ColumnFits(p, terms, n), FallsFrom(up, n, p),
         NEW m \in 1 .. n, NEW f, Climbing(f, p, terms, up, n, m)
  PROVE  \A i \in 0 .. m - 1 : f[i] = AltitudeAbove(p, terms, LevelFrom(up, n, i))
<1> DEFINE s == Layers(p, terms)
           a == terms.topography
           A == [i \in 0 .. m - 1 |-> {a + SumOver(s, Passed(up, n, i))} \cap Int]
<1>1. m - 1 \in Nat /\ a \in Int /\ p \in [0 .. n - 1 -> Int] /\ DOMAIN p = 0 .. n - 1
  BY DEF ColumnFits
<1>2. ASSUME NEW k \in 0 .. n - 1 PROVE s[k] \in Int
  <2>1. LevelFrom(up, n, k) \in 0 .. n - 1 /\ LevelFrom(up, n, LevelFrom(up, n, k)) = k
    BY LevelsAreTurned
  <2> QED
    BY <2>1, TurnAddsItsLayer
<1>3. ASSUME NEW i \in 0 .. n - 1
      PROVE  /\ Passed(up, n, i - 1) \subseteq 0 .. n - 1 /\ IsFiniteSet(Passed(up, n, i - 1))
             /\ LevelFrom(up, n, i) \notin Passed(up, n, i - 1)
             /\ Passed(up, n, i) = Passed(up, n, i - 1) \cup {LevelFrom(up, n, i)}
  <2>1. ASSUME NEW h \in 0 .. i - 1
        PROVE  LevelFrom(up, n, h) \in 0 .. n - 1 /\ LevelFrom(up, n, h) # LevelFrom(up, n, i)
    BY DEF LevelFrom
  <2>2. Passed(up, n, i - 1) \subseteq 0 .. n - 1
    BY <2>1 DEF Passed
  <2>3. IsFiniteSet(Passed(up, n, i - 1))
    <3>1. IsFiniteSet(0 .. n - 1)
      BY FS_Interval
    <3> QED
      BY <2>2, <3>1, FS_Subset
  <2>4. LevelFrom(up, n, i) \notin Passed(up, n, i - 1)
    BY <2>1 DEF Passed
  <2>5. \A h : h \in 0 .. i <=> h \in 0 .. i - 1 \/ h = i
    OBVIOUS
  <2>6. Passed(up, n, i) = Passed(up, n, i - 1) \cup {LevelFrom(up, n, i)}
    BY <2>5 DEF Passed
  <2> QED
    BY <2>2, <2>3, <2>4, <2>6
<1>4. ASSUME NEW i \in 0 .. n - 1
      PROVE  /\ SumOver(s, Passed(up, n, i - 1)) \in Int
             /\ SumOver(s, Passed(up, n, i)) = SumOver(s, Passed(up, n, i - 1)) + Thicker(p, terms, up, n, i)
  <2> DEFINE S == Passed(up, n, i - 1)
             x == LevelFrom(up, n, i)
  <2>1. x \in 0 .. n - 1
    BY LevelsAreTurned
  <2>2. IsFiniteSet(S) /\ (\A y \in S : s[y] \in Int) /\ x \notin S /\ s[x] \in Int
    BY <1>2, <1>3, <2>1
  <2>3. Passed(up, n, i) = S \cup {x}
    BY <1>3
  <2> HIDE DEF S, s
  <2>4. SumOver(s, S) \in Int /\ SumOver(s, S \cup {x}) = SumOver(s, S) + s[x]
    BY <2>2, SumOverMore
  <2>5. s[x] = Thicker(p, terms, up, n, i)
    BY TurnAddsItsLayer DEF s
  <2> QED
    BY <2>3, <2>4, <2>5 DEF S
<1> HIDE DEF s, a
<1>5. ASSUME NEW i \in -1 .. m - 1
      PROVE  f[i] = IF i = -1 THEN a ELSE f[i - 1] + Thicker(p, terms, up, n, i)
  BY DEF Climbing, a
<1>6. f[0] \in A[0]
  <2>1. Passed(up, n, 0 - 1) = {}
    BY DEF Passed
  <2>2. SumOver(s, Passed(up, n, 0 - 1)) = 0
    BY <2>1, SumOverNone
  <2>3. 0 \in 0 .. n - 1 /\ 0 \in -1 .. m - 1 /\ -1 \in -1 .. m - 1 /\ 0 - 1 = -1 /\ 0 \in 0 .. m - 1
    BY <1>1
  <2>4. SumOver(s, Passed(up, n, 0)) = 0 + Thicker(p, terms, up, n, 0) /\ Thicker(p, terms, up, n, 0) \in Int
    BY <1>4, <2>2, <2>3, TurnAddsItsLayer
  <2>5. f[-1] = a
    BY <1>5, <2>3
  <2>6. f[0] = f[-1] + Thicker(p, terms, up, n, 0)
    BY <1>5, <2>3
  <2>7. f[0] = a + SumOver(s, Passed(up, n, 0)) /\ f[0] \in Int
    BY <1>1, <2>4, <2>5, <2>6
  <2> QED
    BY <2>3, <2>7
<1>7. ASSUME NEW i \in 1 .. m - 1, f[i - 1] \in A[i - 1] PROVE f[i] \in A[i]
  <2>1. i - 1 \in 0 .. m - 1 /\ i \in 0 .. m - 1 /\ i \in 0 .. n - 1 /\ i \in -1 .. m - 1 /\ i # -1
    BY <1>1
  <2>2. f[i - 1] = a + SumOver(s, Passed(up, n, i - 1))
    BY <1>7, <2>1
  <2>3. f[i] = f[i - 1] + Thicker(p, terms, up, n, i)
    BY <1>5, <2>1
  <2>4. /\ SumOver(s, Passed(up, n, i - 1)) \in Int /\ Thicker(p, terms, up, n, i) \in Int
        /\ SumOver(s, Passed(up, n, i)) = SumOver(s, Passed(up, n, i - 1)) + Thicker(p, terms, up, n, i)
    BY <1>4, <2>1, TurnAddsItsLayer
  <2>5. f[i] = a + SumOver(s, Passed(up, n, i)) /\ f[i] \in Int
    BY <1>1, <2>2, <2>3, <2>4
  <2> QED
    BY <2>1, <2>5
<1>8. \A i \in 0 .. m - 1 : f[i] \in A[i]
  <2> HIDE DEF A
  <2> QED
    BY <1>1, <1>6, <1>7, Induction
<1>9. ASSUME NEW i \in 0 .. m - 1
      PROVE  AltitudeAbove(p, terms, LevelFrom(up, n, i)) = a + SumOver(s, Passed(up, n, i))
  <2>1. i \in 0 .. n - 1
    BY <1>1
  <2>2. Underneath(p, LevelFrom(up, n, i)) \cup {LevelFrom(up, n, i)} = Passed(up, n, i)
    BY <1>1, <1>3, <2>1, UnderneathIsPassed
  <2> QED
    BY <2>2 DEF AltitudeAbove, SumOver, s, a
<1> QED
  BY <1>8, <1>9

\* getDataSlice: whatever part of a column is asked for, its levels get their altitudes.
LEMMA IntegratedIsTheAltitude ==
  ASSUME NEW n \in Nat \ {0}, NEW p, NEW terms, ColumnFits(p, terms, n),
         NEW start \in 0 .. n - 1, NEW size \in 1 .. n, start + size <= n,
         NEW k \in DOMAIN Integrated(p, terms, start, size)
  PROVE  Integrated(p, terms, start, size)[k] = AltitudeAbove(p, terms, k)
<1> DEFINE c == Cardinality(DOMAIN p)
           up == p[0] > p[c - 1]
           begin == IF up THEN 0 ELSE start
           m == IF up THEN start + size ELSE c - start
           out(x) == IF up THEN x ELSE begin + m - 1 - x
           f == CHOOSE g : Climbing(g, p, terms, up, c, m)
<1>1. Integrated(p, terms, start, size) = [x \in start .. start + size - 1 |-> f[out(x)]]
  BY DEF Integrated, Climbing, Thicker, EdgeAt, LevelFrom
<1>2. p \in [0 .. n - 1 -> Int] /\ DOMAIN p = 0 .. n - 1 /\ Monotonic(p)
  BY DEF ColumnFits
<1>3. c = n
  BY <1>2, FS_Interval
<1>4. up \in BOOLEAN
  OBVIOUS
<1>5. FallsFrom(up, n, p)
  <2>1. 0 \in 0 .. n - 1 /\ n - 1 \in 0 .. n - 1 /\ p[0] \in Int /\ p[n - 1] \in Int
    BY <1>2
  <2>2. CASE \A x, y \in 0 .. n - 1 : x < y => p[x] > p[y]
    <3>1. n = 1 \/ up
      BY <1>3, <2>1, <2>2
    <3> QED
      BY <2>2, <3>1 DEF FallsFrom
  <2>3. CASE \A x, y \in 0 .. n - 1 : x < y => p[x] < p[y]
    <3>1. ~ up
      BY <1>3, <2>1, <2>3
    <3> QED
      BY <2>3, <3>1 DEF FallsFrom
  <2> QED
    BY <1>2, <2>2, <2>3 DEF Monotonic
<1>6. m \in 1 .. n /\ k \in start .. start + size - 1 /\ out(k) \in 0 .. m - 1 /\ LevelFrom(up, n, out(k)) = k
  <2>1. k \in start .. start + size - 1
    BY <1>1
  <2>2. CASE up
    <3>1. m = start + size /\ out(k) = k
      BY <2>2
    <3> HIDE DEF m, out, up
    <3> QED
      BY <2>1, <2>2, <3>1 DEF LevelFrom
  <2>3. CASE ~ up
    <3>1. m = n - start /\ out(k) = start + m - 1 - k
      BY <1>3, <2>3
    <3> HIDE DEF m, out, up
    <3> QED
      BY <2>1, <2>3, <3>1 DEF LevelFrom
  <2> QED
    BY <2>2, <2>3
<1>7. Integrated(p, terms, start, size)[k] = f[out(k)]
  BY <1>1, <1>6
<1> HIDE DEF c, up, m, out
<1>8. Climbing(f, p, terms, up, n, m)
  <2>1. m \in 0 .. n
    BY <1>6
  <2>2. \E g : Climbing(g, p, terms, up, n, m)
    BY <1>4, <1>5, <2>1, LoopClimbs
  <2> QED
    BY <1>3, <2>2
<1> HIDE DEF f
<1>9. \A i \in 0 .. m - 1 : f[i] = AltitudeAbove(p, terms, LevelFrom(up, n, i))
  BY <1>4, <1>5, <1>6, <1>8, ClimbsToTheAltitude
<1> QED
  BY <1>6, <1>7, <1>9

(* The altitudes that the converters give are those above the ground: the part that was asked  *)
(* for fits the column of its time.                                                            *)
THEOREM AltitudesAreFromTheGround == VerticalSpec => []AltitudeFromTheGround
<1>1. VerticalInit => AltitudeFromTheGround
  <2>1. VerticalInit => vgot.status = "none"
    <3>1. NothingServed.status = "none"
      BY DEF NothingServed
    <3> QED
      BY <3>1, Zenon DEF VerticalInit
  <2> QED
    BY <2>1, Zenon DEF AltitudeFromTheGround
<1>2. AltitudeFromTheGround /\ [VerticalNext]_verticalVars => AltitudeFromTheGround'
  <2> SUFFICES ASSUME AltitudeFromTheGround, [VerticalNext]_verticalVars PROVE AltitudeFromTheGround'
    OBVIOUS
  <2>1. CASE UNCHANGED verticalVars
    BY <2>1 DEF AltitudeFromTheGround, verticalVars
  <2>2. CASE VerticalCall
    BY <2>2 DEF VerticalCall, AltitudeFromTheGround, NothingServed
  <2>3. ASSUME NEW v \in VNames, NEW pos \in 1 .. VTimes, GetLevelSlice(v, pos) PROVE AltitudeFromTheGround'
    <3>1. vgot'.status \in {"forwarded", "throws", "null system", "interpolated"}
      BY <2>3 DEF GetLevelSlice
    <3> QED
      BY <3>1 DEF AltitudeFromTheGround
  <2>4. ASSUME NEW i \in Idx, NEW t \in 1 .. VTimes, NEW start \in LevelsOf(VSystems[i].terms[1]),
               NEW size \in 1 .. NLevels(i), GetAltitudePart(i, t, start, size)
        PROVE  AltitudeFromTheGround'
    <3> DEFINE s == VSystems[i]
               terms == s.terms[t]
               p == Pressures(s, terms)
               n == NLevels(i)
               r == Integrated(p, terms, start, size)
    <3>1. /\ n \in Nat \ {0} /\ LevelsOf(VSystems[i].terms[1]) = 0 .. n - 1 /\ start + size <= n
          /\ ColumnFits(p, terms, n)
      <4>1. AltitudeConverter(VSystems[i]).kind = "integration"
        BY <2>4 DEF GetAltitudePart, ConverterFor, Refused, Conv
      <4> QED
        BY <2>4, <4>1, ColumnsAssumption DEF GetAltitudePart
    <3>2. vgot'.times = <<t, i>> /\ vgot'.values = <<r>>
      BY <2>4 DEF GetAltitudePart, NothingServed
    <3> HIDE DEF p, n, terms
    <3>3. ASSUME NEW k \in DOMAIN r PROVE r[k] = AltitudeAbove(p, terms, k)
      BY <2>4, <3>1, <3>3, IntegratedIsTheAltitude DEF n
    <3> HIDE DEF r
    <3>4. vgot'.values[1] = r /\ vgot'.times[1] = t /\ vgot'.times[2] = i
      BY <3>2
    <3> QED
      BY <3>3, <3>4 DEF AltitudeFromTheGround, p, terms
  <2>5. CASE IgnoreValidityMin /\ vgot' = NothingServed
    BY <2>5 DEF AltitudeFromTheGround, NothingServed
  <2>6. CASE VerticalRead
    BY <2>3, <2>4, <2>5, <2>6 DEF VerticalRead
  <2> QED
    BY <2>1, <2>2, <2>6 DEF VerticalNext
<1> QED
  BY <1>1, <1>2, PTL DEF VerticalSpec

-----------------------------------------------------------------------------
(* CachedInterpolation.  The invariant says of the domain that is read: it is a part of the   *)
(* whole field, and a side was only cut off where every point has the cells that a method     *)
(* takes, two more on the side that was cut (Spared).  With that the methods' conditions on   *)
(* the borders hold in the part if and only if they hold in the whole.                        *)
Spared(p, min, in, full) ==
    /\ min > 0 => Floor(p) >= 2
    /\ min + in < full => Floor(p) + 3 <= in

PartOf(min, in, full) == min \in Nat /\ in \in Nat \ {0} /\ full \in Nat \ {0} /\ min + in <= full

\* A cell is put together of a column and a row of any height.
LEMMA PutTogether ==
  ASSUME NEW n \in Nat, n > 0, NEW r \in 0 .. n - 1, NEW q \in Int
  PROVE  (r + n * q) % n = r /\ (r + n * q) \div n = q
OBVIOUS

\* A position moved by whole cells: its cell moves with it, its place between two cells stays.
LEMMA PartsOfPosition ==
  ASSUME NEW p \in Int, NEW b \in Nat
  PROVE  /\ Q \in Nat /\ Floor(p) \in Int /\ Lround(p) \in Int /\ p % Q \in 0 .. Q - 1
         /\ p + Q * b \in Int
         /\ Floor(p + Q * b) = Floor(p) + b /\ (p + Q * b) % Q = p % Q
         /\ Floor(p) >= 0 => Lround(p + Q * b) = Lround(p) + b
         /\ Lround(p) \in Floor(p) .. Floor(p) + 1
<1>1. CASE Q = 2
  BY <1>1 DEF Floor, Lround
<1>2. CASE Q = 4
  BY <1>2 DEF Floor, Lround
<1> QED
  BY <1>1, <1>2, InterpolationAssumption

\* The method's columns, or rows, in a part and in the whole: cells of the part, and the same.
Shifted(cells, min) == {<<c[1] + min, c[2]>> : c \in cells}

TwoCells(S, a, v, b, w) == S = {<<a, v>>, <<b, w>>}
LEMMA ShiftedTwo ==
  ASSUME NEW S, NEW a, NEW v, NEW b, NEW w, NEW m, TwoCells(S, a, v, b, w)
  PROVE  TwoCells(Shifted(S, m), a + m, v, b + m, w)
<1> USE DEF TwoCells
<1>1. \A c \in S : <<c[1] + m, c[2]>> \in {<<a + m, v>>, <<b + m, w>>}
  OBVIOUS
<1>2. <<a + m, v>> \in Shifted(S, m) /\ <<b + m, w>> \in Shifted(S, m)
  BY DEF Shifted
<1> QED
  BY <1>1, <1>2 DEF Shifted

\* The columns, or rows, of the bilinear method.
NearOrBoth(p, n, last) ==
    IF HasBoth(p, n) THEN Between(p) ELSE IF Lround(p) \in 0 .. last THEN {<<Lround(p), Q>>} ELSE {}

\* With d the row below the last, too.
LEMMA NearOrBothShifted ==
  ASSUME NEW p \in Int, NEW min, NEW in, NEW full, PartOf(min, in, full), Spared(p, min, in, full),
         NEW d \in {0, 1}
  PROVE  /\ Shifted(NearOrBoth(p, in, in - 1 + d), min) = NearOrBoth(p + Q * min, full, full - 1 + d)
         /\ \A c \in NearOrBoth(p, in, in - 1 + d) :
              /\ c = <<c[1], c[2]>> /\ c[1] \in 0 .. in - 1 + d /\ c[2] \in Int
              /\ d = 0 \/ HasBoth(p, in) \/ Lround(p) # in => c[1] \in 0 .. in - 1
         /\ HasBoth(p, in) <=> HasBoth(p + Q * min, full)
<1> DEFINE P == p + Q * min
<1>1. /\ min \in Nat /\ in \in Nat /\ in > 0 /\ full \in Nat /\ min + in <= full
      /\ min > 0 => Floor(p) >= 2
      /\ min + in < full => Floor(p) + 3 <= in
  BY DEF PartOf, Spared
<1>2. /\ Q \in Nat /\ Floor(p) \in Int /\ Lround(p) \in Int /\ p % Q \in 0 .. Q - 1 /\ P \in Int
      /\ Floor(P) = Floor(p) + min /\ P % Q = p % Q
      /\ Floor(p) >= 0 => Lround(P) = Lround(p) + min
      /\ Lround(p) \in Floor(p) .. Floor(p) + 1
  BY <1>1, PartsOfPosition
<1>3. Floor(P) \in Int /\ Lround(P) \in Int /\ Lround(P) \in Floor(P) .. Floor(P) + 1
  BY <1>2, PartsOfPosition, 0 \in Nat
<1>4. HasBoth(p, in) <=> HasBoth(P, full)
  <2> HIDE DEF P
  <2> QED
    BY <1>1, <1>2 DEF HasBoth
<1>5. Lround(P) = Lround(p) + min
  <2>1. CASE min = 0
    BY <2>1, <1>1, <1>2
  <2>2. CASE min > 0
    BY <2>2, <1>1, <1>2
  <2> QED
    BY <2>1, <2>2, <1>1
<1>6. Lround(p) \in 0 .. in - 1 + d <=> Lround(P) \in 0 .. full - 1 + d
  <2> HIDE DEF P
  <2> QED
    BY <1>1, <1>2, <1>5
<1>7. CASE HasBoth(p, in)
  <2>1. NearOrBoth(p, in, in - 1 + d) = {<<Floor(p), Q - (p % Q)>>, <<Floor(p) + 1, p % Q>>}
    BY <1>7 DEF NearOrBoth, Between
  <2>2. NearOrBoth(P, full, full - 1 + d) = {<<Floor(p) + min, Q - (p % Q)>>, <<Floor(p) + min + 1, p % Q>>}
    BY <1>7, <1>4, <1>2 DEF NearOrBoth, Between
  <2>3. Floor(p) \in 0 .. in - 1 /\ Floor(p) + 1 \in 0 .. in - 1
    BY <1>7, <1>1, <1>2 DEF HasBoth
  <2>4. Floor(p) + 1 + min = Floor(p) + min + 1
    BY <1>1, <1>2
  <2>5. Shifted(NearOrBoth(p, in, in - 1 + d), min)
        = {<<Floor(p) + min, Q - (p % Q)>>, <<Floor(p) + 1 + min, p % Q>>}
    <3> DEFINE a == Floor(p)
               b == Floor(p) + 1
               v == Q - (p % Q)
               w == p % Q
    <3>1. TwoCells(NearOrBoth(p, in, in - 1 + d), a, v, b, w)
      BY <2>1 DEF TwoCells
    <3> HIDE DEF a, b, v, w
    <3>2. TwoCells(Shifted(NearOrBoth(p, in, in - 1 + d), min), a + min, v, b + min, w)
      BY <3>1, ShiftedTwo, Zenon
    <3> QED
      BY <3>2 DEF a, b, v, w, TwoCells
  <2>6. Shifted(NearOrBoth(p, in, in - 1 + d), min) = NearOrBoth(P, full, full - 1 + d)
    BY <2>2, <2>4, <2>5
  <2>7. \A c \in NearOrBoth(p, in, in - 1 + d) : c = <<c[1], c[2]>> /\ c[1] \in 0 .. in - 1 /\ c[2] \in Int
    BY <2>1, <2>3, <1>2
  <2> QED
    BY <2>6, <2>7, <1>4, <1>1
<1>8. CASE ~HasBoth(p, in) /\ Lround(p) \in 0 .. in - 1 + d
  <2>1. NearOrBoth(p, in, in - 1 + d) = {<<Lround(p), Q>>}
    BY <1>8 DEF NearOrBoth
  <2>2. NearOrBoth(P, full, full - 1 + d) = {<<Lround(p) + min, Q>>}
    BY <1>8, <1>4, <1>5, <1>6 DEF NearOrBoth
  <2>3. Shifted(NearOrBoth(p, in, in - 1 + d), min) = {<<Lround(p) + min, Q>>}
    <3> DEFINE a == Lround(p)
    <3>1. TwoCells(NearOrBoth(p, in, in - 1 + d), a, Q, a, Q)
      BY <2>1 DEF TwoCells
    <3> HIDE DEF a
    <3>2. TwoCells(Shifted(NearOrBoth(p, in, in - 1 + d), min), a + min, Q, a + min, Q)
      BY <3>1, ShiftedTwo, Zenon
    <3> QED
      BY <3>2 DEF a, TwoCells
  <2>4. \A c \in NearOrBoth(p, in, in - 1 + d) :
          /\ c = <<c[1], c[2]>> /\ c[1] \in 0 .. in - 1 + d /\ c[2] \in Int
          /\ d = 0 \/ Lround(p) # in => c[1] \in 0 .. in - 1
    BY <2>1, <1>8, <1>2, <1>1
  <2> QED
    BY <2>2, <2>3, <2>4, <1>4, <1>8
<1>9. CASE ~HasBoth(p, in) /\ Lround(p) \notin 0 .. in - 1 + d
  <2>1. NearOrBoth(p, in, in - 1 + d) = {} /\ NearOrBoth(P, full, full - 1 + d) = {}
    BY <1>9, <1>4, <1>6 DEF NearOrBoth
  <2> QED
    BY <2>1, <1>4 DEF Shifted
<1> QED
  BY <1>7, <1>8, <1>9

\* The four columns, or rows, of the bicubic method, where there are two on each side.
HasFour(p, n) == 1 <= Floor(p) /\ Floor(p) + 2 < n
FourAround(p) == {<<Floor(p) - 2 + i, CubicWeights(p % Q)[i]>> : i \in 1 .. 4}

LEMMA FourAroundShifted ==
  ASSUME NEW p \in Int, NEW min, NEW in, NEW full, PartOf(min, in, full), Spared(p, min, in, full)
  PROVE  /\ HasFour(p, in) <=> HasFour(p + Q * min, full)
         /\ Shifted(FourAround(p), min) = FourAround(p + Q * min)
         /\ HasFour(p, in) => \A c \in FourAround(p) : c = <<c[1], c[2]>> /\ c[1] \in 0 .. in - 1
<1> DEFINE P == p + Q * min
<1>1. /\ min \in Nat /\ in \in Nat /\ in > 0 /\ full \in Nat /\ min + in <= full
      /\ min > 0 => Floor(p) >= 2
      /\ min + in < full => Floor(p) + 3 <= in
  BY DEF PartOf, Spared
<1>2. /\ Floor(p) \in Int /\ Floor(P) = Floor(p) + min /\ P % Q = p % Q
  BY <1>1, PartsOfPosition
<1>3. HasFour(p, in) <=> HasFour(P, full)
  <2> HIDE DEF P
  <2> QED
    BY <1>1, <1>2 DEF HasFour
<1>4. Shifted(FourAround(p), min) = FourAround(P)
  <2> DEFINE w == CubicWeights(p % Q)
             f(i) == <<Floor(p) - 2 + i, w[i]>>
             g(i) == <<Floor(P) - 2 + i, w[i]>>
  <2>1. FourAround(P) = {g(i) : i \in 1 .. 4} /\ FourAround(p) = {f(i) : i \in 1 .. 4}
    BY <1>2 DEF FourAround
  <2>2. ASSUME NEW i \in 1 .. 4 PROVE <<f(i)[1] + min, f(i)[2]>> = g(i)
    <3>1. Floor(p) - 2 + i + min = Floor(P) - 2 + i
      BY <1>1, <1>2
    <3> QED
      BY <3>1
  <2> HIDE DEF f, g, P
  <2> QED
    BY <2>1, <2>2 DEF Shifted
<1>5. ASSUME HasFour(p, in), NEW c \in FourAround(p)
      PROVE  c = <<c[1], c[2]>> /\ c[1] \in 0 .. in - 1
  <2> DEFINE w(i) == CubicWeights(p % Q)[i]
  <2>1. PICK i \in 1 .. 4 : c = <<Floor(p) - 2 + i, w(i)>>
    BY <1>5 DEF FourAround
  <2> HIDE DEF w
  <2> QED
    BY <2>1, <1>5, <1>1, <1>2 DEF HasFour
<1> QED
  BY <1>3, <1>4, <1>5

\* A cell of the part, where it is in the whole, for all columns and rows.
LEMMA ProductInWhole ==
  ASSUME NEW ci, PartOf(ci.min[1], ci.in[1], ci.full[1]), ci.min[2] \in Nat, ci.in[2] \in Nat,
         NEW cols, NEW rows, NEW height \in Nat,
         \A c \in cols : c = <<c[1], c[2]>> /\ c[1] \in 0 .. ci.in[1] - 1,
         \A r \in rows : r = <<r[1], r[2]>> /\ r[1] \in 0 .. height - 1
  PROVE  /\ {<<InputCell(ci, w[1]), w[2]>> : w \in Product(cols, rows, ci.in[1])}
            = Product(Shifted(cols, ci.min[1]), Shifted(rows, ci.min[2]), ci.full[1])
         /\ \A w \in Product(cols, rows, ci.in[1]) : w[1] \in 0 .. ci.in[1] * height - 1
<1> DEFINE m1 == ci.min[1]
           m2 == ci.min[2]
           n == ci.in[1]
           W == ci.full[1]
           cell(c, r) == c[1] + n * r[1]
           there(c, r) == (c[1] + m1) + W * (r[1] + m2)
<1>1. m1 \in Nat /\ m2 \in Nat /\ n \in Nat /\ n > 0 /\ W \in Nat
  BY DEF PartOf
<1>2. ASSUME NEW c \in cols, NEW r \in rows
      PROVE  InputCell(ci, cell(c, r)) = there(c, r) /\ cell(c, r) \in 0 .. n * height - 1
  <2>1. c[1] \in 0 .. n - 1 /\ r[1] \in 0 .. height - 1
    OBVIOUS
  <2>2. cell(c, r) % n = c[1] /\ cell(c, r) \div n = r[1]
    BY <2>1, <1>1, PutTogether
  <2>3. InputCell(ci, cell(c, r)) = there(c, r)
    BY <2>2 DEF InputCell
  <2>4. n * r[1] <= n * (height - 1) /\ n * r[1] \in Nat
    BY <2>1, <1>1
  <2>5. n * (height - 1) = n * height - n /\ n * height \in Nat
    BY <1>1
  <2>6. cell(c, r) \in 0 .. n * height - 1
    <3> DEFINE a == n * r[1]
               b == n * height
    <3>1. a \in Nat /\ b \in Nat /\ a <= b - n /\ c[1] \in 0 .. n - 1 /\ cell(c, r) = c[1] + a
      BY <2>1, <2>4, <2>5, <1>1
    <3> HIDE DEF a, b, n, cell
    <3>2. cell(c, r) \in 0 .. b - 1
      BY <3>1, <1>1
    <3> QED
      BY <3>2 DEF b
  <2> QED
    BY <2>3, <2>6
<1>3. Product(cols, rows, n) = {<<cell(c, r), c[2] * r[2]>> : c \in cols, r \in rows}
  BY DEF Product
<1> HIDE DEF there
<1>4. {<<InputCell(ci, w[1]), w[2]>> : w \in Product(cols, rows, n)}
      = {<<there(c, r), c[2] * r[2]>> : c \in cols, r \in rows}
  <2> DEFINE from(w) == <<InputCell(ci, w[1]), w[2]>>
             of(c, r) == <<cell(c, r), c[2] * r[2]>>
             to(c, r) == <<there(c, r), c[2] * r[2]>>
  <2>1. \A c \in cols, r \in rows : from(of(c, r)) = to(c, r)
    BY <1>2
  <2>2. Product(cols, rows, n) = {of(c, r) : c \in cols, r \in rows}
    BY <1>3
  <2> HIDE DEF from, of, to
  <2>3. {from(w) : w \in Product(cols, rows, n)} = {to(c, r) : c \in cols, r \in rows}
    BY <2>1, <2>2
  <2> QED
    BY <2>3 DEF from, to
<1> HIDE DEF cell
<1>5. Product(Shifted(cols, m1), Shifted(rows, m2), W) = {<<there(c, r), c[2] * r[2]>> : c \in cols, r \in rows}
  <2> DEFINE move(c, m) == <<c[1] + m, c[2]>>
             of(c, r) == <<c[1] + W * r[1], c[2] * r[2]>>
  <2>1. /\ Shifted(cols, m1) = {move(c, m1) : c \in cols} /\ Shifted(rows, m2) = {move(r, m2) : r \in rows}
        /\ Product(Shifted(cols, m1), Shifted(rows, m2), W)
           = {of(c, r) : c \in Shifted(cols, m1), r \in Shifted(rows, m2)}
    BY DEF Product, Shifted
  <2>2. \A c \in cols, r \in rows : of(move(c, m1), move(r, m2)) = <<there(c, r), c[2] * r[2]>>
    BY DEF there
  <2> HIDE DEF of, move, m1, m2, W
  <2> QED
    BY <2>1, <2>2
<1>6. \A w \in Product(cols, rows, n) : w[1] \in 0 .. n * height - 1
  BY <1>3, <1>2
<1> QED
  BY <1>4, <1>5, <1>6

\* What is kept for a system: the domain read, and points that have their cells in it.
Sizes == (Nat \ {0}) \X (Nat \ {0})
Domains ==
    [kind : {"nearest", "bilinear", "bicubic"}, full : Sizes, in : Sizes, min : Nat \X Nat,
     points : [1 .. 2 -> (Int \X Int) \union {<<>>}], reduced : BOOLEAN]
HasItsCells(ci, k) ==
    IF ci.kind = "nearest"
    THEN ci.points[k] = <<>> \/ \A i \in 1 .. 2 : ci.points[k][i] \in 0 .. ci.in[i] - 1
    ELSE ci.points[k] # <<>> /\ \A i \in 1 .. 2 : Spared(ci.points[k][i], ci.min[i], ci.in[i], ci.full[i])
Fits(ci) ==
    /\ ci \in Domains
    /\ \A i \in 1 .. 2 : PartOf(ci.min[i], ci.in[i], ci.full[i])
    /\ \A k \in 1 .. 2 : HasItsCells(ci, k)
CachedInv == \/ cached.kind = "none" /\ cached.points = <<>>
             \/ Fits(cached)

\* The property, of one cell of the output.
ServedAsWhole(ci, k) ==
    /\ {<<InputCell(ci, w[1]), w[2]>> : w \in InterpolatedCell(ci, k)} = InterpolatedCell(Restored(ci), k)
    /\ ~RowBelow(ci, k) => \A w \in InterpolatedCell(ci, k) : w[1] \in 0 .. ci.in[1] * ci.in[2] - 1

\* The domain undone.
LEMMA RestoredIs ==
  ASSUME NEW ci, Fits(ci), NEW k \in 1 .. 2
  PROVE  LET r == Restored(ci)  p == ci.points[k]
             shift(i) == IF ci.kind = "nearest" THEN ci.min[i] ELSE Q * ci.min[i]
         IN r.kind = ci.kind /\ r.in = ci.full
            /\ r.points[k] = IF p = <<>> THEN <<>> ELSE <<p[1] + shift(1), p[2] + shift(2)>>
<1>1. /\ ci = [kind |-> ci.kind, full |-> ci.full, in |-> ci.in, min |-> ci.min, points |-> ci.points, reduced |-> ci.reduced]
      /\ k \in DOMAIN ci.points
  BY DEF Fits, Domains
<1> QED
  BY <1>1 DEF Restored

\* A point that is not undefined.
LEMMA PointIs ==
  ASSUME NEW ci, Fits(ci), NEW k \in 1 .. 2, ci.points[k] # <<>>
  PROVE  ci.points[k][1] \in Int /\ ci.points[k][2] \in Int /\ ci.points[k] = <<ci.points[k][1], ci.points[k][2]>>
<1>1. ci.points[k] \in Int \X Int
  BY DEF Fits, Domains
<1> QED
  BY <1>1

\* Each method takes the same from the part as from the whole.
LEMMA BilinearServed ==
  ASSUME NEW ci, Fits(ci), NEW k \in 1 .. 2, ci.kind = "bilinear"
  PROVE  ServedAsWhole(ci, k)
<1> DEFINE a == ci.points[k][1]
           b == ci.points[k][2]
           d == IF HasBoth(a, ci.in[1]) THEN 0 ELSE 1
           cols == NearOrBoth(a, ci.in[1], ci.in[1] - 1 + 0)
           rows == NearOrBoth(b, ci.in[2], ci.in[2] - 1 + d)
           A == a + Q * ci.min[1]
           B == b + Q * ci.min[2]
<1>1. /\ PartOf(ci.min[1], ci.in[1], ci.full[1]) /\ PartOf(ci.min[2], ci.in[2], ci.full[2])
      /\ Spared(a, ci.min[1], ci.in[1], ci.full[1]) /\ Spared(b, ci.min[2], ci.in[2], ci.full[2])
      /\ ci.points[k] # <<>>
  BY DEF Fits, HasItsCells
<1>2. a \in Int /\ b \in Int /\ d \in {0, 1}
  BY <1>1, PointIs
<1>3. /\ Shifted(cols, ci.min[1]) = NearOrBoth(A, ci.full[1], ci.full[1] - 1 + 0)
      /\ \A c \in cols : c = <<c[1], c[2]>> /\ c[1] \in 0 .. ci.in[1] - 1 + 0
      /\ HasBoth(a, ci.in[1]) <=> HasBoth(A, ci.full[1])
  <2> HIDE DEF a
  <2> QED
    BY <1>1, <1>2, NearOrBothShifted, 0 \in {0, 1}
<1>4. /\ Shifted(rows, ci.min[2]) = NearOrBoth(B, ci.full[2], ci.full[2] - 1 + d)
      /\ \A c \in rows :
           /\ c = <<c[1], c[2]>> /\ c[1] \in 0 .. ci.in[2] - 1 + d
           /\ d = 0 \/ HasBoth(b, ci.in[2]) \/ Lround(b) # ci.in[2] => c[1] \in 0 .. ci.in[2] - 1
  <2> HIDE DEF b, d
  <2> QED
    BY <1>1, <1>2, NearOrBothShifted
<1>5. ci.in[1] \in Nat /\ ci.in[2] \in Nat /\ ci.in[2] > 0 /\ ci.min[2] \in Nat /\ ci.full[1] \in Nat /\ ci.full[2] \in Nat
  BY <1>1 DEF PartOf
<1>6. InterpolatedCell(ci, k) = Product(cols, rows, ci.in[1])
  <2>1. ci.in[1] - 1 + 0 = ci.in[1] - 1
        /\ (IF HasBoth(a, ci.in[1]) THEN ci.in[2] - 1 ELSE ci.in[2]) = ci.in[2] - 1 + d
    BY <1>5
  <2>2. InterpolatedCell(ci, k) = Bilinear(a, b, ci.in[1], ci.in[2])
    BY DEF InterpolatedCell
  <2> QED
    BY <2>1, <2>2 DEF Bilinear, NearOrBoth
<1>7. InterpolatedCell(Restored(ci), k) = Product(Shifted(cols, ci.min[1]), Shifted(rows, ci.min[2]), ci.full[1])
  <2>1. /\ Restored(ci).kind = "bilinear" /\ Restored(ci).in = ci.full
        /\ Restored(ci).points[k] = <<A, B>>
    BY <1>1, RestoredIs
  <2>2. InterpolatedCell(Restored(ci), k) = Bilinear(A, B, ci.full[1], ci.full[2])
    BY <2>1 DEF InterpolatedCell
  <2>3. ci.full[1] - 1 + 0 = ci.full[1] - 1
        /\ (IF HasBoth(A, ci.full[1]) THEN ci.full[2] - 1 ELSE ci.full[2]) = ci.full[2] - 1 + d
    BY <1>5, <1>3
  <2>4. Bilinear(A, B, ci.full[1], ci.full[2])
        = Product(NearOrBoth(A, ci.full[1], ci.full[1] - 1 + 0), NearOrBoth(B, ci.full[2], ci.full[2] - 1 + d), ci.full[1])
    <3> HIDE DEF A, B, d
    <3> QED
      BY <2>3 DEF Bilinear, NearOrBoth
  <2> HIDE DEF A, B, cols, rows, d
  <2> QED
    BY <2>2, <2>4, <1>3, <1>4
<1>8. /\ {<<InputCell(ci, w[1]), w[2]>> : w \in Product(cols, rows, ci.in[1])}
         = Product(Shifted(cols, ci.min[1]), Shifted(rows, ci.min[2]), ci.full[1])
  <2>1. ci.in[2] + d \in Nat /\ ci.in[2] + d - 1 = ci.in[2] - 1 + d /\ ci.in[1] - 1 + 0 = ci.in[1] - 1
    BY <1>5, <1>2
  <2>2. /\ \A c \in cols : c = <<c[1], c[2]>> /\ c[1] \in 0 .. ci.in[1] - 1
        /\ \A r \in rows : r = <<r[1], r[2]>> /\ r[1] \in 0 .. (ci.in[2] + d) - 1
    <3>1. \A c \in cols : c = <<c[1], c[2]>> /\ c[1] \in 0 .. ci.in[1] - 1
      <4> HIDE DEF cols, rows, d
      <4> QED
        BY <2>1, <1>3
    <3>2. \A r \in rows : r = <<r[1], r[2]>> /\ r[1] \in 0 .. ci.in[2] - 1 + d
      <4> HIDE DEF cols, rows, d
      <4> QED
        BY <1>4
    <3> HIDE DEF cols, rows, d
    <3> QED
      BY <2>1, <3>1, <3>2, <1>2, <1>5
  <2> HIDE DEF cols, rows, d
  <2> QED
    BY <2>1, <2>2, <1>1, <1>5, ProductInWhole
<1>9. ASSUME ~RowBelow(ci, k)
      PROVE  \A w \in Product(cols, rows, ci.in[1]) : w[1] \in 0 .. ci.in[1] * ci.in[2] - 1
  <2>1. d = 0 \/ Lround(b) # ci.in[2]
    BY <1>9 DEF RowBelow
  <2>2. ci.in[1] - 1 + 0 = ci.in[1] - 1
    BY <1>5
  <2> HIDE DEF cols, rows, d, a, b
  <2>3. /\ \A c \in cols : c = <<c[1], c[2]>> /\ c[1] \in 0 .. ci.in[1] - 1
        /\ \A r \in rows : r = <<r[1], r[2]>> /\ r[1] \in 0 .. ci.in[2] - 1
    BY <2>1, <2>2, <1>3, <1>4
  <2> QED
    BY <2>3, <1>1, <1>5, ProductInWhole
<1> HIDE DEF cols, rows
<1> QED
  BY <1>6, <1>7, <1>8, <1>9 DEF ServedAsWhole

LEMMA BicubicServed ==
  ASSUME NEW ci, Fits(ci), NEW k \in 1 .. 2, ci.kind = "bicubic"
  PROVE  ServedAsWhole(ci, k)
<1> DEFINE a == ci.points[k][1]
           b == ci.points[k][2]
           A == a + Q * ci.min[1]
           B == b + Q * ci.min[2]
           in == HasFour(a, ci.in[1]) /\ HasFour(b, ci.in[2])
<1>1. /\ PartOf(ci.min[1], ci.in[1], ci.full[1]) /\ PartOf(ci.min[2], ci.in[2], ci.full[2])
      /\ Spared(a, ci.min[1], ci.in[1], ci.full[1]) /\ Spared(b, ci.min[2], ci.in[2], ci.full[2])
      /\ ci.points[k] # <<>>
  BY DEF Fits, HasItsCells
<1>2. a \in Int /\ b \in Int
  BY <1>1, PointIs
<1>3. /\ HasFour(a, ci.in[1]) <=> HasFour(A, ci.full[1])
      /\ Shifted(FourAround(a), ci.min[1]) = FourAround(A)
      /\ HasFour(a, ci.in[1]) => \A c \in FourAround(a) : c = <<c[1], c[2]>> /\ c[1] \in 0 .. ci.in[1] - 1
  <2> HIDE DEF a
  <2> QED
    BY <1>1, <1>2, FourAroundShifted
<1>4. /\ HasFour(b, ci.in[2]) <=> HasFour(B, ci.full[2])
      /\ Shifted(FourAround(b), ci.min[2]) = FourAround(B)
      /\ HasFour(b, ci.in[2]) => \A c \in FourAround(b) : c = <<c[1], c[2]>> /\ c[1] \in 0 .. ci.in[2] - 1
  <2> HIDE DEF b
  <2> QED
    BY <1>1, <1>2, FourAroundShifted
<1>5. ci.in[2] \in Nat /\ ci.min[2] \in Nat
  BY <1>1 DEF PartOf
<1>6. InterpolatedCell(ci, k) = IF in THEN Product(FourAround(a), FourAround(b), ci.in[1]) ELSE {}
  <2>1. InterpolatedCell(ci, k) = Bicubic(a, b, ci.in[1], ci.in[2])
    BY DEF InterpolatedCell
  <2> QED
    BY <2>1, Zenon DEF Bicubic, FourAround, HasFour
<1>7. InterpolatedCell(Restored(ci), k) = IF in THEN Product(FourAround(A), FourAround(B), ci.full[1]) ELSE {}
  <2>1. /\ Restored(ci).kind = "bicubic" /\ Restored(ci).in = ci.full
        /\ Restored(ci).points[k] = <<A, B>>
    BY <1>1, RestoredIs
  <2>2. InterpolatedCell(Restored(ci), k) = Bicubic(A, B, ci.full[1], ci.full[2])
    BY <2>1 DEF InterpolatedCell
  <2> HIDE DEF A, B
  <2>3. Bicubic(A, B, ci.full[1], ci.full[2])
        = IF HasFour(A, ci.full[1]) /\ HasFour(B, ci.full[2]) THEN Product(FourAround(A), FourAround(B), ci.full[1]) ELSE {}
    BY Zenon DEF Bicubic, FourAround, HasFour
  <2> QED
    BY <2>2, <2>3, <1>3, <1>4
<1> HIDE DEF a, b, A, B
<1>8. CASE in
  <2> DEFINE cols == FourAround(a)
             rows == FourAround(b)
  <2>1. /\ \A c \in cols : c = <<c[1], c[2]>> /\ c[1] \in 0 .. ci.in[1] - 1
        /\ \A r \in rows : r = <<r[1], r[2]>> /\ r[1] \in 0 .. ci.in[2] - 1
    BY <1>8, <1>3, <1>4
  <2>2. /\ InterpolatedCell(ci, k) = Product(cols, rows, ci.in[1])
        /\ InterpolatedCell(Restored(ci), k) = Product(Shifted(cols, ci.min[1]), Shifted(rows, ci.min[2]), ci.full[1])
    BY <1>8, <1>3, <1>4, <1>6, <1>7
  <2> HIDE DEF cols, rows, in
  <2>3. /\ {<<InputCell(ci, w[1]), w[2]>> : w \in Product(cols, rows, ci.in[1])}
           = Product(Shifted(cols, ci.min[1]), Shifted(rows, ci.min[2]), ci.full[1])
        /\ \A w \in Product(cols, rows, ci.in[1]) : w[1] \in 0 .. ci.in[1] * ci.in[2] - 1
    BY <2>1, <1>1, <1>5, ProductInWhole
  <2> QED
    BY <2>2, <2>3 DEF ServedAsWhole
<1>9. CASE ~in
  BY <1>9, <1>6, <1>7 DEF ServedAsWhole
<1> QED
  BY <1>8, <1>9

LEMMA NearestServed ==
  ASSUME NEW ci, Fits(ci), NEW k \in 1 .. 2, ci.kind = "nearest"
  PROVE  ServedAsWhole(ci, k)
<1> DEFINE p == ci.points[k]
<1>1. /\ PartOf(ci.min[1], ci.in[1], ci.full[1]) /\ PartOf(ci.min[2], ci.in[2], ci.full[2])
      /\ p = <<>> \/ (p[1] \in 0 .. ci.in[1] - 1 /\ p[2] \in 0 .. ci.in[2] - 1)
  BY DEF Fits, HasItsCells
<1>2. /\ Restored(ci).kind = "nearest" /\ Restored(ci).in = ci.full
      /\ Restored(ci).points[k] = IF p = <<>> THEN <<>> ELSE <<p[1] + ci.min[1], p[2] + ci.min[2]>>
  BY RestoredIs
<1>3. CASE p = <<>>
  <2>1. InterpolatedCell(ci, k) = {} /\ InterpolatedCell(Restored(ci), k) = {}
    BY <1>2, <1>3 DEF InterpolatedCell
  <2> QED
    BY <2>1 DEF ServedAsWhole
<1>4. CASE p # <<>>
  <2> DEFINE x == p[1]
             y == p[2]
             n == ci.in[1]
             W == ci.full[1]
             cell == x + n * y
             there == (x + ci.min[1]) + W * (y + ci.min[2])
  <2>1. x \in 0 .. n - 1 /\ y \in 0 .. ci.in[2] - 1 /\ n \in Nat /\ n > 0 /\ ci.in[2] \in Nat
    BY <1>1, <1>4 DEF PartOf
  <2>2. InterpolatedCell(ci, k) = {<<cell, Q * Q>>}
    BY <1>4 DEF InterpolatedCell
  <2>3. InterpolatedCell(Restored(ci), k) = {<<there, Q * Q>>}
    <3>1. <<p[1] + ci.min[1], p[2] + ci.min[2]>> # <<>>
      OBVIOUS
    <3> QED
      BY <1>2, <1>4, <3>1 DEF InterpolatedCell
  <2>4. cell % n = x /\ cell \div n = y
    <3>1. x \in 0 .. n - 1 /\ y \in Int /\ n \in Nat /\ n > 0
      BY <2>1
    <3> HIDE DEF x, y, n
    <3> QED
      BY <3>1, PutTogether
  <2>5. InputCell(ci, cell) = there
    BY <2>4 DEF InputCell
  <2>6. cell \in 0 .. n * ci.in[2] - 1
    <3>1. n * y <= n * (ci.in[2] - 1) /\ n * y \in Nat
      BY <2>1
    <3>2. n * (ci.in[2] - 1) = n * ci.in[2] - n /\ n * ci.in[2] \in Nat
      BY <2>1
    <3> DEFINE u == n * y
               v == n * ci.in[2]
    <3>3. u \in Nat /\ v \in Nat /\ u <= v - n /\ cell = x + u
      BY <3>1, <3>2
    <3> HIDE DEF u, v, n, x, y, cell
    <3>4. cell \in 0 .. v - 1
      BY <3>3, <2>1
    <3> QED
      BY <3>4 DEF v
  <2> HIDE DEF cell, there, n
  <2>7. {<<InputCell(ci, w[1]), w[2]>> : w \in {<<cell, Q * Q>>}} = {<<there, Q * Q>>}
    BY <2>5
  <2> QED
    BY <2>2, <2>3, <2>6, <2>7 DEF ServedAsWhole, n
<1> QED
  BY <1>3, <1>4

\* The domain of two points: their least and most column or row.
LEMMA LeastAndMost ==
  ASSUME NEW S, NEW a \in Int, NEW b \in Int, S \subseteq {a, b}, S # {}
  PROVE  Min(S) \in S /\ Max(S) \in S /\ \A s \in S : Min(S) <= s /\ s <= Max(S)
<1>1. (\E x \in S : \A y \in S : x <= y) /\ (\E x \in S : \A y \in S : x >= y)
  <2>1. CASE a \notin S
    <3>1. b \in S /\ \A y \in S : y = b
      BY <2>1
    <3> QED
      BY <3>1
  <2>2. CASE b \notin S
    <3>1. a \in S /\ \A y \in S : y = a
      BY <2>2
    <3> QED
      BY <3>1
  <2>3. CASE a \in S /\ b \in S /\ a <= b
    <3>1. \A y \in S : a <= y /\ b >= y
      BY <2>3
    <3> QED
      BY <3>1, <2>3
  <2>4. CASE a \in S /\ b \in S /\ b <= a
    <3>1. \A y \in S : b <= y /\ a >= y
      BY <2>4
    <3> QED
      BY <3>1, <2>4
  <2> QED
    BY <2>1, <2>2, <2>3, <2>4
<1>2. Min(S) \in S /\ \A s \in S : Min(S) <= s
  BY <1>1 DEF Min
<1>3. Max(S) \in S /\ \A s \in S : Max(S) >= s
  BY <1>1 DEF Max
<1> QED
  BY <1>2, <1>3

LEMMA LeastOfTwo ==
  ASSUME NEW a \in Int, NEW b \in Int
  PROVE  Min({a, b}) \in {a, b} /\ Min({a, b}) <= a /\ Min({a, b}) <= b
<1> DEFINE S == {a, b}
<1>1. S \subseteq {a, b} /\ S # {} /\ a \in S /\ b \in S
  OBVIOUS
<1> HIDE DEF S
<1>2. Min(S) \in S /\ \A s \in S : Min(S) <= s
  BY <1>1, LeastAndMost
<1> QED
  BY <1>1, <1>2 DEF S

\* The domain of the points from lo to hi, where it is of a useful size.
LEMMA CutSpares ==
  ASSUME NEW lo \in Int, NEW hi \in Int, NEW n \in Nat, n > 0,
         DomainEnd(hi, n) - DomainBegin(lo, n) >= 1
  PROVE  LET b == DomainBegin(lo, n)  size == DomainEnd(hi, n) - b + 1
         IN /\ b \in Nat /\ size \in Nat \ {0} /\ PartOf(b, size, n)
            /\ \A p \in Int : lo <= p /\ p <= hi => p - Q * b \in Int /\ Spared(p - Q * b, b, size, n)
<1> DEFINE b == DomainBegin(lo, n)
           e == DomainEnd(hi, n)
           size == e - b + 1
<1>1. /\ Floor(lo) \in Int /\ Ceil(hi) \in Int
      /\ \A p \in Int : lo <= p /\ p <= hi => Floor(lo) <= Floor(p) /\ Floor(p) <= Ceil(hi)
  <2>1. CASE Q = 2
    BY <2>1 DEF Floor, Ceil
  <2>2. CASE Q = 4
    BY <2>2 DEF Floor, Ceil
  <2> QED
    BY <2>1, <2>2, InterpolationAssumption
<1>2. /\ b \in 0 .. n - 1 /\ e \in 0 .. n - 1
      /\ b > 0 => b <= Floor(lo) - 2
      /\ e < n - 1 => e >= Ceil(hi) + 2
      /\ e - b >= 1
  <2>1. b \in 0 .. n - 1 /\ (b = 0 \/ b <= Floor(lo) - 2)
    BY <1>1 DEF DomainBegin, Clamp, Extend
  <2>2. e \in 0 .. n - 1 /\ (e = 0 \/ e = n - 1 \/ e = Ceil(hi) + 2)
    BY <1>1 DEF DomainEnd, Clamp, Extend
  <2>3. e - b >= 1
    OBVIOUS
  <2> HIDE DEF b, e
  <2> QED
    BY <2>1, <2>2, <2>3, <1>1
<1>3. ASSUME NEW p \in Int, lo <= p, p <= hi
      PROVE  p - Q * b \in Int /\ Spared(p - Q * b, b, size, n)
  <2>1. Q \in Nat /\ b \in Nat
    BY InterpolationAssumption, <1>2
  <2>2. p - Q * b \in Int
    <3> HIDE DEF b
    <3> QED
      BY <2>1
  <2>3. p - Q * b + Q * b = p
    <3> HIDE DEF b
    <3> QED
      BY <2>1
  <2>4. Floor(p) = Floor(p - Q * b) + b /\ Floor(p - Q * b) \in Int
    <3> DEFINE q == p - Q * b
    <3> HIDE DEF q, b
    <3>1. Floor(q + Q * b) = Floor(q) + b /\ Floor(q) \in Int
      BY <2>1, <2>2, PartsOfPosition DEF q
    <3> QED
      BY <3>1, <2>3 DEF q
  <2>5. Floor(lo) <= Floor(p) /\ Floor(p) <= Ceil(hi)
    BY <1>1, <1>3
  <2> HIDE DEF b, e
  <2>6. Spared(p - Q * b, b, size, n)
    BY <1>1, <1>2, <2>4, <2>5 DEF Spared
  <2> QED
    BY <2>2, <2>6
<1>4. b \in Nat /\ size \in Nat \ {0} /\ PartOf(b, size, n)
  <2> HIDE DEF b, e
  <2> QED
    BY <1>2 DEF PartOf
<1> QED
  BY <1>3, <1>4

\* Nothing is cut off a whole field.
LEMMA WholeSpares ==
  ASSUME NEW n \in Nat \ {0}, NEW p
  PROVE  PartOf(0, n, n) /\ Spared(p, 0, n, n)
BY DEF PartOf, Spared

\* createReducedDomain, then the constructor of the nearest method: what they keep fits.
LEMMA ReducedFits ==
  ASSUME NEW kind \in {"bilinear", "bicubic"}, NEW size \in Sizes, NEW points \in [1 .. 2 -> Int \X Int]
  PROVE  Fits(CreateReducedDomain(Unreduced(kind, size, points)))
<1> DEFINE ci == Unreduced(kind, size, points)
           lo(i) == Min(Index(points, i))
           hi(i) == Max(Index(points, i))
           b(i) == DomainBegin(lo(i), size[i])
           e(i) == DomainEnd(hi(i), size[i])
<1>1. /\ size[1] \in Nat \ {0} /\ size[2] \in Nat \ {0} /\ size = <<size[1], size[2]>>
      /\ \A k \in 1 .. 2 : points[k] # <<>> /\ points[k][1] \in Int /\ points[k][2] \in Int
  <2>1. \A k \in 1 .. 2 : points[k] \in Int \X Int
    OBVIOUS
  <2> QED
    BY <2>1 DEF Sizes
<1>2. /\ ci.kind = kind /\ ci.full = size /\ ci.in = size /\ ci.min = <<0, 0>> /\ ci.points = points
      /\ ci \in Domains
  BY <1>1 DEF Unreduced, Domains, Sizes
<1>3. CASE \E i \in 1 .. 2 : e(i) - b(i) < 1
  <2>1. CreateReducedDomain(ci) = ci
    <3> HIDE DEF ci
    <3> QED
      BY <1>3, <1>2 DEF CreateReducedDomain
  <2>2. \A i \in 1 .. 2 : PartOf(ci.min[i], ci.in[i], ci.full[i])
    BY <1>1, <1>2, WholeSpares
  <2>3. \A k \in 1 .. 2 : HasItsCells(ci, k)
    BY <1>1, <1>2, WholeSpares DEF HasItsCells
  <2> QED
    BY <2>1, <2>2, <2>3, <1>2 DEF Fits
<1>4. CASE \A i \in 1 .. 2 : ~(e(i) - b(i) < 1)
  <2>1. ASSUME NEW i \in 1 .. 2
        PROVE  /\ lo(i) \in Int /\ hi(i) \in Int
               /\ \A k \in 1 .. 2 : lo(i) <= points[k][i] /\ points[k][i] <= hi(i)
    <3>1. /\ Index(points, i) = {points[1][i], points[2][i]}
          /\ points[1][i] \in Int /\ points[2][i] \in Int
      BY <1>1 DEF Index
    <3>2. /\ Min(Index(points, i)) \in Index(points, i) /\ Max(Index(points, i)) \in Index(points, i)
          /\ \A s \in Index(points, i) : Min(Index(points, i)) <= s /\ s <= Max(Index(points, i))
      BY <3>1, LeastAndMost
    <3> QED
      BY <3>1, <3>2
  <2>2. ASSUME NEW i \in 1 .. 2
        PROVE  /\ b(i) \in Nat /\ e(i) - b(i) + 1 \in Nat \ {0} /\ PartOf(b(i), e(i) - b(i) + 1, size[i])
               /\ \A k \in 1 .. 2 : /\ points[k][i] - Q * b(i) \in Int
                                    /\ Spared(points[k][i] - Q * b(i), b(i), e(i) - b(i) + 1, size[i])
    <3>1. lo(i) \in Int /\ hi(i) \in Int /\ size[i] \in Nat /\ size[i] > 0
      BY <1>1, <2>1
    <3>2. e(i) - b(i) >= 1
      <4>1. e(i) \in Int /\ b(i) \in Int
        <5>1. Floor(lo(i)) \in Int /\ Ceil(hi(i)) \in Int
          BY <3>1, InterpolationAssumption DEF Floor, Ceil
        <5> HIDE DEF lo, hi
        <5> QED
          BY <3>1, <5>1 DEF DomainBegin, DomainEnd, Clamp, Extend
      <4> HIDE DEF e, b
      <4> QED
        BY <4>1, <1>4
    <3>3. /\ b(i) \in Nat /\ e(i) - b(i) + 1 \in Nat \ {0} /\ PartOf(b(i), e(i) - b(i) + 1, size[i])
          /\ \A p \in Int : lo(i) <= p /\ p <= hi(i) =>
               p - Q * b(i) \in Int /\ Spared(p - Q * b(i), b(i), e(i) - b(i) + 1, size[i])
      <4> HIDE DEF lo, hi
      <4> QED
        BY <3>1, <3>2, CutSpares
    <3>4. \A k \in 1 .. 2 : points[k][i] \in Int
      BY <1>1
    <3> HIDE DEF lo, hi, b, e
    <3> QED
      BY <3>3, <3>4, <2>1
  <2> DEFINE r == CreateReducedDomain(ci)
             moved == [k \in 1 .. 2 |-> <<points[k][1] - Q * b(1), points[k][2] - Q * b(2)>>]
             cut == <<e(1) - b(1) + 1, e(2) - b(2) + 1>>
  <2>3. r = [kind |-> kind, full |-> size, in |-> cut, min |-> <<b(1), b(2)>>, points |-> moved, reduced |-> TRUE]
    <3>1. r = [ci EXCEPT !.points = [k \in DOMAIN @ |-> <<@[k][1] - Q * b(1), @[k][2] - Q * b(2)>>],
                         !.min = <<b(1), b(2)>>, !.in = cut, !.reduced = TRUE]
      <4> HIDE DEF ci
      <4> QED
        BY <1>4, <1>2 DEF CreateReducedDomain
    <3>2. ci = [kind |-> kind, full |-> size, in |-> size, min |-> <<0, 0>>, points |-> points, reduced |-> FALSE]
      BY DEF Unreduced
    <3>3. DOMAIN points = 1 .. 2
      OBVIOUS
    <3> HIDE DEF ci, b, e, r
    <3> QED
      BY <3>1, <3>2, <3>3
  <2>4. b(1) \in Nat /\ b(2) \in Nat /\ cut[1] \in Nat \ {0} /\ cut[2] \in Nat \ {0}
        /\ \A k \in 1 .. 2 : moved[k][1] \in Int /\ moved[k][2] \in Int /\ moved[k] # <<>>
    <3> HIDE DEF b, e
    <3> QED
      BY <2>2
  <2>5. r \in Domains
    <3> HIDE DEF b, e, r
    <3>1. moved \in [1 .. 2 -> Int \X Int] /\ cut \in Sizes /\ <<b(1), b(2)>> \in Nat \X Nat
      BY <2>4 DEF Sizes
    <3> HIDE DEF moved, cut
    <3>2. moved \in [1 .. 2 -> (Int \X Int) \union {<<>>}]
      BY <3>1
    <3> QED
      BY <2>3, <3>1, <3>2 DEF Domains
  <2>6. ASSUME NEW i \in 1 .. 2
        PROVE  /\ PartOf(r.min[i], r.in[i], r.full[i])
               /\ \A k \in 1 .. 2 : Spared(r.points[k][i], r.min[i], r.in[i], r.full[i])
    <3>1. r.min = <<b(1), b(2)>> /\ r.in = cut /\ r.full = size /\ r.points = moved
      <4> HIDE DEF b, e, r, moved, cut
      <4> QED
        BY <2>3
    <3>2. r.min[i] = b(i) /\ r.in[i] = e(i) - b(i) + 1 /\ \A k \in 1 .. 2 : r.points[k][i] = points[k][i] - Q * b(i)
      <4> HIDE DEF b, e, r
      <4>1. CASE i = 1
        BY <3>1, <4>1
      <4>2. CASE i = 2
        BY <3>1, <4>2
      <4> QED
        BY <4>1, <4>2
    <3> HIDE DEF b, e, r, moved, cut
    <3> QED
      BY <3>1, <3>2, <2>2
  <2>7. \A k \in 1 .. 2 : HasItsCells(r, k)
    <3>1. r.kind # "nearest" /\ r.points = moved
      <4> HIDE DEF b, e, r, moved, cut
      <4> QED
        BY <2>3
    <3> HIDE DEF b, e, r, moved, cut
    <3> QED
      BY <3>1, <2>4, <2>6 DEF HasItsCells
  <2> HIDE DEF r
  <2> QED
    BY <2>5, <2>6, <2>7 DEF Fits, r
<1> QED
  BY <1>3, <1>4
LEMMA NearestFits ==
  ASSUME NEW size \in Sizes, NEW points \in [1 .. 2 -> Int \X Int]
  PROVE  Fits(CachedNN(size, points))
<1> DEFINE cell(p) == IF Rounded(p[1], size[1]) = {} \/ Rounded(p[2], size[2]) = {} THEN <<>>
                      ELSE <<Lround(p[1]), Lround(p[2])>>
           cells == [k \in DOMAIN points |-> cell(points[k])]
           used(i) == {cells[k][i] : k \in {n \in DOMAIN cells : cells[n] # <<>>}}
           least(i) == IF used(i) = {} THEN size[i] ELSE Min(used(i))
           most(i) == IF used(i) = {} THEN 0 ELSE Max(used(i))
           begin(i) == IF least(i) > Extend THEN least(i) - Extend ELSE 0
           end(i) == Min({size[i] - 1, most(i) + Extend})
           all == Unreduced("nearest", size, cells)
           useful == /\ \E i \in 1 .. 2 : begin(i) > 0 \/ end(i) < size[i] - 1
                     /\ \A i \in 1 .. 2 : begin(i) + 2 * Extend <= end(i)
           moved == [k \in 1 .. 2 |-> IF cells[k] = <<>> THEN <<>>
                                      ELSE <<cells[k][1] - begin(1), cells[k][2] - begin(2)>>]
           cut == <<end(1) - begin(1) + 1, end(2) - begin(2) + 1>>
<1>1. size[1] \in Nat \ {0} /\ size[2] \in Nat \ {0} /\ size = <<size[1], size[2]>> /\ DOMAIN points = 1 .. 2
  BY DEF Sizes
<1>2. ASSUME NEW k \in 1 .. 2
      PROVE  \/ cells[k] = <<>>
             \/ /\ cells[k] # <<>> /\ cells[k] = <<cells[k][1], cells[k][2]>>
                /\ \A i \in 1 .. 2 : cells[k][i] \in 0 .. size[i] - 1
  <2>1. cells[k] = cell(points[k])
    BY <1>1
  <2>2. CASE Rounded(points[k][1], size[1]) = {} \/ Rounded(points[k][2], size[2]) = {}
    BY <2>1, <2>2
  <2>3. CASE ~(Rounded(points[k][1], size[1]) = {} \/ Rounded(points[k][2], size[2]) = {})
    <3>1. cells[k] = <<Lround(points[k][1]), Lround(points[k][2])>>
      BY <2>1, <2>3
    <3>2. Lround(points[k][1]) \in 0 .. size[1] - 1 /\ Lround(points[k][2]) \in 0 .. size[2] - 1
      BY <2>3 DEF Rounded
    <3> HIDE DEF cells
    <3> QED
      BY <3>1, <3>2
  <2> QED
    BY <2>2, <2>3
<1>3. DOMAIN cells = 1 .. 2
  BY <1>1
<1>4. ASSUME NEW i \in 1 .. 2, useful
      PROVE  /\ begin(i) \in Nat /\ end(i) \in Nat /\ end(i) <= size[i] - 1 /\ begin(i) <= end(i)
             /\ \A k \in 1 .. 2 : cells[k] # <<>> => cells[k][i] \in begin(i) .. end(i)
  <2>1. size[i] \in Nat /\ size[i] > 0 /\ begin(i) + 4 <= end(i)
    <3>1. size[i] \in Nat /\ size[i] > 0
      BY <1>1
    <3>2. begin(i) + 2 * Extend <= end(i)
      BY <1>4
    <3> HIDE DEF begin, end
    <3> QED
      BY <3>1, <3>2 DEF Extend
  <2>2. CASE used(i) = {}
    <3>1. \A k \in 1 .. 2 : cells[k] = <<>>
      <4> HIDE DEF cells
      <4> QED
        BY <2>2, <1>3
    <3>2. most(i) = 0 /\ least(i) = size[i]
      BY <2>2
    <3> HIDE DEF cells, used, least, most
    <3>3. begin(i) \in Nat
      BY <3>2, <2>1 DEF Extend
    <3>4. end(i) \in {size[i] - 1, 2} /\ end(i) <= size[i] - 1
      <4>1. end(i) = Min({size[i] - 1, 2}) /\ size[i] - 1 \in Int /\ 2 \in Int
        BY <3>2, <2>1 DEF Extend
      <4> HIDE DEF end
      <4> QED
        BY <4>1, LeastOfTwo
    <3> HIDE DEF begin, end
    <3> QED
      BY <3>1, <3>3, <3>4, <2>1
  <2>3. CASE used(i) # {}
    <3>1. \A u \in used(i) : u \in 0 .. size[i] - 1
      <4> HIDE DEF cells
      <4> QED
        BY <1>2, <1>3
    <3>2. \E a \in Int, b \in Int : used(i) \subseteq {a, b}
      <4>1. used(i) \subseteq {cells[1][i], cells[2][i]}
        <5> HIDE DEF cells
        <5> QED
          BY <1>3
      <4> HIDE DEF cells, used
      <4>2. CASE cells[1][i] \in Int /\ cells[2][i] \in Int
        BY <4>1, <4>2
      <4>3. CASE cells[1][i] \notin Int
        <5>1. used(i) \subseteq {cells[2][i], cells[2][i]} /\ cells[2][i] \in Int
          BY <4>1, <4>3, <2>3, <3>1
        <5> QED
          BY <5>1
      <4>4. CASE cells[2][i] \notin Int
        <5>1. used(i) \subseteq {cells[1][i], cells[1][i]} /\ cells[1][i] \in Int
          BY <4>1, <4>4, <2>3, <3>1
        <5> QED
          BY <5>1
      <4> QED
        BY <4>2, <4>3, <4>4
    <3>3. /\ Min(used(i)) \in used(i) /\ Max(used(i)) \in used(i)
          /\ \A u \in used(i) : Min(used(i)) <= u /\ u <= Max(used(i))
      <4> HIDE DEF used
      <4> QED
        BY <3>2, <2>3, LeastAndMost
    <3>4. \A k \in 1 .. 2 : cells[k] # <<>> => cells[k][i] \in used(i)
      <4> HIDE DEF cells
      <4> QED
        BY <1>3
    <3>5. least(i) = Min(used(i)) /\ most(i) = Max(used(i))
      BY <2>3
    <3> HIDE DEF cells, used, least, most
    <3>6. least(i) \in Nat /\ most(i) \in 0 .. size[i] - 1
      BY <3>1, <3>3, <3>5
    <3>7. begin(i) \in Nat /\ begin(i) <= least(i)
      BY <3>6 DEF Extend
    <3>8. end(i) \in {size[i] - 1, most(i) + 2} /\ end(i) <= size[i] - 1 /\ end(i) <= most(i) + 2
      <4> DEFINE m == most(i) + 2
      <4>1. end(i) = Min({size[i] - 1, m}) /\ size[i] - 1 \in Int /\ m \in Int
        BY <3>6, <2>1 DEF Extend
      <4> HIDE DEF end, m
      <4>2. end(i) \in {size[i] - 1, m} /\ end(i) <= size[i] - 1 /\ end(i) <= m
        BY <4>1, LeastOfTwo
      <4> QED
        BY <4>2 DEF m
    <3> HIDE DEF begin, end
    <3>9. end(i) \in Nat /\ most(i) <= end(i)
      BY <3>6, <3>8, <2>1
    <3>10. ASSUME NEW k \in 1 .. 2, cells[k] # <<>> PROVE cells[k][i] \in begin(i) .. end(i)
      <4>1. cells[k][i] \in used(i)
        BY <3>4, <3>10
      <4>2. cells[k][i] \in Int /\ least(i) <= cells[k][i] /\ cells[k][i] <= most(i)
        BY <4>1, <3>1, <3>3, <3>5
      <4> QED
        BY <4>2, <3>6, <3>7, <3>9
    <3> QED
      BY <3>10, <3>7, <3>8, <3>9, <2>1
  <2> QED
    BY <2>2, <2>3
<1>5. CASE ~useful
  <2>1. CachedNN(size, points) = all
    <3> HIDE DEF useful
    <3> QED
      BY <1>5 DEF CachedNN, useful
  <2>2. all = [kind |-> "nearest", full |-> size, in |-> size, min |-> <<0, 0>>, points |-> cells, reduced |-> FALSE]
    BY DEF Unreduced
  <2> HIDE DEF all, cells
  <2>3. cells \in [1 .. 2 -> (Int \X Int) \union {<<>>}]
    <3>1. \A k \in 1 .. 2 : cells[k] \in (Int \X Int) \union {<<>>}
      BY <1>1, <1>2
    <3>2. cells = [k \in 1 .. 2 |-> cells[k]]
      BY <1>3 DEF cells
    <3> QED
      BY <3>1, <3>2
  <2>4. all \in Domains
    BY <2>2, <2>3, <1>1 DEF Domains, Sizes
  <2>5. \A i \in 1 .. 2 : PartOf(all.min[i], all.in[i], all.full[i])
    BY <2>2, <1>1, WholeSpares
  <2>6. \A k \in 1 .. 2 : HasItsCells(all, k)
    BY <2>2, <1>2 DEF HasItsCells
  <2> QED
    BY <2>1, <2>4, <2>5, <2>6 DEF Fits
<1>6. CASE useful
  <2> DEFINE r == CachedNN(size, points)
  <2>1. r = [kind |-> "nearest", full |-> size, in |-> cut, min |-> <<begin(1), begin(2)>>, points |-> moved, reduced |-> TRUE]
    <3>1. r = [all EXCEPT !.points = [k \in DOMAIN @ |-> IF @[k] = <<>> THEN <<>>
                                                        ELSE <<@[k][1] - begin(1), @[k][2] - begin(2)>>],
                          !.min = <<begin(1), begin(2)>>, !.in = cut, !.reduced = TRUE]
      BY <1>6 DEF CachedNN
    <3>2. all = [kind |-> "nearest", full |-> size, in |-> size, min |-> <<0, 0>>, points |-> cells, reduced |-> FALSE]
      BY DEF Unreduced
    <3> HIDE DEF all, begin, end, r, cells
    <3> QED
      BY <3>1, <3>2, <1>3
  <2>2. ASSUME NEW i \in 1 .. 2
        PROVE  /\ begin(i) \in Nat /\ end(i) - begin(i) + 1 \in Nat \ {0} /\ PartOf(begin(i), end(i) - begin(i) + 1, size[i])
               /\ \A k \in 1 .. 2 : cells[k] # <<>> => cells[k][i] - begin(i) \in 0 .. (end(i) - begin(i) + 1) - 1
    <3>1. size[i] \in Nat /\ size[i] > 0
      BY <1>1
    <3>2. /\ begin(i) \in Nat /\ end(i) \in Nat /\ end(i) <= size[i] - 1 /\ begin(i) <= end(i)
          /\ \A k \in 1 .. 2 : cells[k] # <<>> => cells[k][i] \in begin(i) .. end(i)
      <4> HIDE DEF cells, begin, end, useful
      <4> QED
        BY <1>4, <1>6
    <3> HIDE DEF cells, begin, end
    <3>3. /\ begin(i) \in Nat /\ end(i) - begin(i) + 1 \in Nat \ {0}
          /\ PartOf(begin(i), end(i) - begin(i) + 1, size[i])
      BY <3>1, <3>2 DEF PartOf
    <3>4. ASSUME NEW k \in 1 .. 2, cells[k] # <<>>
          PROVE  cells[k][i] - begin(i) \in 0 .. (end(i) - begin(i) + 1) - 1
      <4>1. cells[k][i] \in begin(i) .. end(i)
        BY <3>2, <3>4
      <4> QED
        BY <4>1, <3>2
    <3> QED
      BY <3>3, <3>4
  <2> HIDE DEF r, useful, all
  <2>3. ASSUME NEW k \in 1 .. 2
        PROVE  \/ moved[k] = <<>>
               \/ moved[k] \in Int \X Int /\ moved[k][1] \in 0 .. cut[1] - 1 /\ moved[k][2] \in 0 .. cut[2] - 1
    <3> HIDE DEF cells, begin, end
    <3>1. CASE cells[k] = <<>>
      BY <3>1
    <3>2. CASE cells[k] # <<>>
      <4>1. moved[k] = <<cells[k][1] - begin(1), cells[k][2] - begin(2)>>
        BY <3>2
      <4>2. \A i \in 1 .. 2 : cells[k][i] - begin(i) \in 0 .. (end(i) - begin(i) + 1) - 1
        BY <2>2, <3>2
      <4>3. /\ cells[k][1] - begin(1) \in 0 .. (end(1) - begin(1) + 1) - 1
            /\ cells[k][2] - begin(2) \in 0 .. (end(2) - begin(2) + 1) - 1
        BY <4>2
      <4>4. cut[1] = end(1) - begin(1) + 1 /\ cut[2] = end(2) - begin(2) + 1
        OBVIOUS
      <4> DEFINE u == cells[k][1] - begin(1)
                 v == cells[k][2] - begin(2)
      <4>5. u \in 0 .. cut[1] - 1 /\ v \in 0 .. cut[2] - 1 /\ moved[k] = <<u, v>>
        BY <4>1, <4>3, <4>4
      <4> HIDE DEF moved, u, v, cut
      <4> QED
        BY <4>5
    <3> QED
      BY <3>1, <3>2
  <2>4. cut \in Sizes /\ <<begin(1), begin(2)>> \in Nat \X Nat /\ moved \in [1 .. 2 -> (Int \X Int) \union {<<>>}]
    <3>1. cut \in Sizes /\ <<begin(1), begin(2)>> \in Nat \X Nat
      <4> HIDE DEF begin, end
      <4> QED
        BY <2>2 DEF Sizes
    <3>2. \A k \in 1 .. 2 : moved[k] \in (Int \X Int) \union {<<>>}
      <4> HIDE DEF moved, cut
      <4> QED
        BY <2>3
    <3>3. moved = [k \in 1 .. 2 |-> moved[k]]
      <4> HIDE DEF begin, cells
      <4> QED
        OBVIOUS
    <3> HIDE DEF moved, cut
    <3> QED
      BY <3>1, <3>2, <3>3
  <2>5. ASSUME NEW i \in 1 .. 2 PROVE PartOf(r.min[i], r.in[i], r.full[i])
    <3> HIDE DEF moved, begin, end
    <3>1. r.min[i] = begin(i) /\ r.in[i] = end(i) - begin(i) + 1 /\ r.full[i] = size[i]
      <4>1. CASE i = 1
        BY <2>1, <4>1
      <4>2. CASE i = 2
        BY <2>1, <4>2
      <4> QED
        BY <4>1, <4>2
    <3> QED
      BY <3>1, <2>2
  <2> HIDE DEF moved, cut, begin, end
  <2>6. r \in Domains
    BY <2>1, <2>4 DEF Domains, Sizes
  <2>7. \A k \in 1 .. 2 : HasItsCells(r, k)
    BY <2>1, <2>3 DEF HasItsCells
  <2> QED
    BY <2>5, <2>6, <2>7 DEF Fits, r
<1> QED
  BY <1>5, <1>6

\* However a cached interpolation is made, it fits.
LEMMA CachedNextInv ==
  ASSUME CachedInv, [CachedNext]_ciVars
  PROVE  CachedInv'
<1>1. CASE UNCHANGED ciVars
  BY <1>1 DEF ciVars, CachedInv, Fits, Domains, HasItsCells
<1>2. ASSUME NEW kind \in {"nearest", "bilinear", "bicubic"}, NEW x \in XAxes, NEW y \in YAxes,
             NEW xs \in PointsX \X PointsX, NEW ys \in PointsY \X PointsY,
             CreateCached(kind, x, y, <<<<xs[1], ys[1]>>, <<xs[2], ys[2]>>>>)
      PROVE  CachedInv'
  <2> DEFINE values == <<<<xs[1], ys[1]>>, <<xs[2], ys[2]>>>>
             position(v) == <<Points2Position(v[1], x.axis, x.longitude), Points2Position(v[2], y.axis, y.longitude)>>
             size == <<Cardinality(DOMAIN x.axis), Cardinality(DOMAIN y.axis)>>
             points == [k \in DOMAIN values |-> position(values[k])]
  <2>1. size \in Sizes
    BY CachedAssumption DEF Sizes
  <2>2. points \in [1 .. 2 -> Int \X Int]
    <3>1. DOMAIN values = 1 .. 2
      OBVIOUS
    <3>2. /\ xs[1] \in PointsX /\ xs[2] \in PointsX /\ ys[1] \in PointsY /\ ys[2] \in PointsY
      OBVIOUS
    <3>3. \A k \in 1 .. 2 : position(values[k]) \in Int \X Int
      BY <3>2, CachedAssumption
    <3> HIDE DEF position, values
    <3> QED
      BY <3>1, <3>3
  <2>3. cached' = Created(kind, size, points)
    BY <1>2 DEF CreateCached
  <2> HIDE DEF size, points
  <2>4. Fits(Created(kind, size, points))
    <3>1. CASE kind = "nearest"
      BY <3>1, <2>1, <2>2, NearestFits DEF Created
    <3>2. CASE kind # "nearest"
      BY <3>2, <2>1, <2>2, ReducedFits DEF Created
    <3> QED
      BY <3>1, <3>2
  <2>5. Fits(cached')
    BY <2>3, <2>4
  <2> QED
    BY <2>5 DEF CachedInv
<1> QED
  BY <1>1, <1>2 DEF CachedNext

\* In every state, for all axes and points: a reduced domain gives each cell of the output what
\* the whole field gives it, and nothing is taken from outside of what is read, but for the row
\* below the last (createReducedDomain, CachedNNInterpolation, interpolateValues).
THEOREM ReadingLessChangesNothing == CachedSpec => []ReducedAsWhole
<1>1. CachedInit => CachedInv
  BY DEF CachedInit, CachedInv, Unreduced
<1>2. CachedInv /\ [CachedNext]_ciVars => CachedInv'
  BY CachedNextInv
<1>3. CachedInv => ReducedAsWhole
  <2>1. ASSUME cached.points = <<>> PROVE ReducedAsWhole
    BY <2>1 DEF ReducedAsWhole
  <2>2. ASSUME Fits(cached) PROVE ReducedAsWhole
    <3>1. DOMAIN cached.points = 1 .. 2 /\ cached.kind \in {"nearest", "bilinear", "bicubic"}
      BY <2>2 DEF Fits, Domains
    <3>2. ASSUME NEW k \in 1 .. 2 PROVE ServedAsWhole(cached, k)
      BY <2>2, <3>1, BilinearServed, BicubicServed, NearestServed
    <3> QED
      BY <3>1, <3>2 DEF ReducedAsWhole, ServedAsWhole
  <2> QED
    BY <2>1, <2>2 DEF CachedInv
<1> QED
  BY <1>1, <1>2, <1>3, PTL DEF CachedSpec
=============================================================================
