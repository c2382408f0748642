------------------------------ MODULE CDMMerger ------------------------------
(***************************************************************************)
(* CDMMerger puts a fine inner grid into a rough outer one.  It is made of *)
(* readers: CDMBorderSmoothing mixes inner and outer values on the inner   *)
(* grid (readerSmooth), CDMInterpolator brings the result to the target    *)
(* grid, CDMOverlay lays it over the outer values (readerOverlay).         *)
(*                                                                         *)
(* A value is what it is made of: "I", "O", "mix" of both or "undef".  The *)
(* target grid extends the inner one with its steps, so interpolation      *)
(* leaves inner values alone and is undefined elsewhere.  Grids have the   *)
(* same axis in both directions.                                           *)
(***************************************************************************)
EXTENDS Integers, Sequences, FiniteSets

CONSTANTS InnerAxis, OuterAxis,    \* sequences of integers
          UndefinedInner, UndefinedOuter,  \* cells of the inner and of the target grid
          Smoothings,     \* [transition, border]: widths of linear smoothing
          InnerVars, OuterVars, \* name -> [lengths of the axes that are not horizontal, auxiliary]
          MaxCalls        \* bound: calls of the interface

\* Widths are unsigned numbers.
ASSUME MergerAssumption ==
    /\ InnerAxis \in Seq(Int) /\ OuterAxis \in Seq(Int)
    /\ Smoothings \subseteq [transition : Nat, border : Nat]

VARIABLES settings,       \* the members of CDMMergerPrivate a user sets
          readerSmooth,   \* settings of the smoothing reader, once there is one
          readerOverlay,  \* "made" once there is one
          mVars,          \* variables of cdm_
          mResult,        \* last result: its kind, the cells of a merged slice
          mCalls

mergerVars == <<settings, readerSmooth, readerOverlay, mVars, mResult, mCalls>>

\* extendInnerAxis: steps of the inner axis to both sides as long as the outer one reaches.
ConstantSteps(axis) == \A i \in 2 .. Len(axis) - 1 : axis[i + 1] - axis[i] = axis[2] - axis[1]
EndsOf(axis) == {axis[1], axis[Len(axis)]}
InReach(x, axis) == \E lo, hi \in EndsOf(axis) : lo <= x /\ x <= hi
Extendable(inner, outer) ==
    /\ Len(inner) >= 2 /\ Len(outer) >= 2
    /\ ConstantSteps(inner) /\ ConstantSteps(outer)
    /\ \A x \in EndsOf(inner) : InReach(x, outer)
Span(axis) == LET lo == CHOOSE x \in EndsOf(axis) : \A y \in EndsOf(axis) : x <= y
              IN axis[1] + axis[Len(axis)] - 2 * lo
StepsBeyond(start, step, outer) ==
    Cardinality({k \in 1 .. Span(outer) : InReach(start + k * step, outer)})
ExtendedAxis(inner, outer) ==
    LET step == inner[2] - inner[1]
        before == StepsBeyond(inner[1], -step, outer)
        after == StepsBeyond(inner[Len(inner)], step, outer)
    IN [i \in 1 .. before + Len(inner) + after |-> inner[1] + (i - 1 - before) * step]

InnerSize == Len(InnerAxis)
TargetSize == Len(ExtendedAxis(InnerAxis, OuterAxis))
Offset == StepsBeyond(InnerAxis[1], InnerAxis[1] - InnerAxis[2], OuterAxis)

CellsOf(size) == (0 .. size - 1) \X (0 .. size - 1)
NoReader == [smoothing |-> <<>>, useOuter |-> FALSE]
Result(kind) == [kind |-> kind, cells |-> <<>>]
InnerValue(c) == IF c \in CellsOf(InnerSize) \ UndefinedInner THEN "I" ELSE "undef"
OuterValue(c) == IF c \in UndefinedOuter THEN "undef" ELSE "O"

-----------------------------------------------------------------------------
\* Steps a position is away from the inner part, on one axis: 0 when it is not in a
\* transition, which the left one decides where both overlap.
Away(x, s) ==
    LET left == s.border + s.transition
        right == InnerSize - s.border - s.transition
    IN IF x < left THEN left - x ELSE IF x >= right THEN x - right ELSE 0

InBorder(x, s) == x < s.border \/ x >= InnerSize - s.border

\* CDMBorderSmoothing_Linear: outer values in the border, inner ones inside, in the
\* transition the more of the outer value the farther away; all of it at its width.
Smoothed(c, s, valueI, valueO) ==
    LET squares == Away(c[1], s) * Away(c[1], s) + Away(c[2], s) * Away(c[2], s)
    IN IF InBorder(c[1], s) \/ InBorder(c[2], s) THEN valueO
       ELSE IF squares = 0 THEN valueI
       ELSE IF squares >= s.transition * s.transition THEN valueO
       ELSE "mix"

\* CDMBorderSmoothing::getDataSlice, one element.
SmoothCell(c, with) ==
    LET valueI == InnerValue(c)
        valueO == OuterValue(<<c[1] + Offset, c[2] + Offset>>)
    IN IF valueI = "undef" THEN IF with.useOuter THEN valueO ELSE "undef"
       ELSE IF valueO = "undef" THEN valueI
       ELSE Smoothed(c, with.smoothing, valueI, valueO)

\* The smoothed slice on the target grid.
OnTarget(c, with) ==
    LET inner == <<c[1] - Offset, c[2] - Offset>>
    IN IF inner \in CellsOf(InnerSize) THEN SmoothCell(inner, with) ELSE "undef"

\* overlayDataSlices, one element: the top value unless it is undefined.
Overlaid(top, base) == IF top # "undef" THEN top ELSE base

-----------------------------------------------------------------------------
\* checkSingleAxisCompatibility: 0 stands for an axis that is not there.
AxisCompatible(b, t) == b = t \/ (b = 0 /\ t = 1) \/ (b = 1 /\ t = 0)
Compatible(v) ==
    /\ v \in DOMAIN InnerVars \cap DOMAIN OuterVars
    /\ \A k \in 1 .. Len(InnerVars[v].axes) : AxisCompatible(OuterVars[v].axes[k], InnerVars[v].axes[k])

\* makeMergedCDM: compatible variables and what they need, and on demand what only the
\* outer reader has.
MergedVariables(keepOuter) ==
    LET kept == {v \in DOMAIN InnerVars : Compatible(v)}
        needed == {w \in DOMAIN InnerVars : \E v \in kept : w \in InnerVars[v].auxiliary}
    IN kept \cup needed \cup (IF keepOuter THEN DOMAIN OuterVars \ DOMAIN InnerVars ELSE {})

MergerInit ==
    /\ settings = [smoothing |-> [transition |-> 2, border |-> 1], useOuter |-> TRUE, keepOuter |-> FALSE]
    /\ readerSmooth = NoReader /\ readerOverlay = "none"
    /\ mVars = {} /\ mResult = Result("ok") /\ mCalls = 0

Called == mCalls < MaxCalls /\ mCalls' = mCalls + 1

\* A slip: the reader that is already there is not told.
MutSetSmoothing(s) ==
    /\ Called
    /\ settings' = [settings EXCEPT !.smoothing = s]
    /\ mResult' = Result("ok")
    /\ UNCHANGED <<readerOverlay, mVars, readerSmooth>>

\* setSmoothing and setUseOuterIfInnerUndefined are told to the reader that is there ...
SetSmoothing(s) ==
    /\ Called
    /\ settings' = [settings EXCEPT !.smoothing = s]
    /\ readerSmooth' = IF readerSmooth = NoReader THEN NoReader ELSE [readerSmooth EXCEPT !.smoothing = s]
    /\ mResult' = Result("ok")
    /\ UNCHANGED <<readerOverlay, mVars>>

SetUseOuter(use) ==
    /\ Called
    /\ settings' = [settings EXCEPT !.useOuter = use]
    /\ readerSmooth' = IF readerSmooth = NoReader THEN NoReader ELSE [readerSmooth EXCEPT !.useOuter = use]
    /\ mResult' = Result("ok")
    /\ UNCHANGED <<readerOverlay, mVars>>

\* ... setKeepOuterVariables is not: it counts for the next target grid.
SetKeepOuter(keep) ==
    /\ Called
    /\ settings' = [settings EXCEPT !.keepOuter = keep]
    /\ mResult' = Result("ok")
    /\ UNCHANGED <<readerSmooth, readerOverlay, mVars>>

\* setTargetGrid, and setTargetGridFromInner when an inner variable gives a grid: makeCDM.
SetTargetGrid ==
    /\ Called
    /\ readerSmooth' = [smoothing |-> settings.smoothing, useOuter |-> settings.useOuter]
    /\ Extendable(InnerAxis, OuterAxis)
    /\ readerOverlay' = "made"
    /\ mVars' = MergedVariables(settings.keepOuter)
    /\ mResult' = Result("ok")
    /\ UNCHANGED settings

\* getDataSlice through the overlay: what only the outer reader has comes from it alone;
\* what the base reader does not have at all cannot be read.
GetMergedSlice(v) ==
    /\ Called /\ v \in DOMAIN InnerVars \cup DOMAIN OuterVars
    /\ mResult' =
         IF readerOverlay = "none" \/ (v \in MergedVariables(FALSE) /\ v \notin DOMAIN OuterVars)
         THEN Result("CDMException")
         ELSE IF v \notin MergedVariables(FALSE) THEN Result("outer")
         ELSE [kind |-> "merged",
               cells |-> [c \in CellsOf(TargetSize) |-> Overlaid(OnTarget(c, readerSmooth), OuterValue(c))]]
    /\ UNCHANGED <<settings, readerSmooth, readerOverlay, mVars>>

MergerNext ==
    \/ \E s \in Smoothings : SetSmoothing(s)
    \/ \E b \in BOOLEAN : SetUseOuter(b) \/ SetKeepOuter(b)
    \/ SetTargetGrid
    \/ \E v \in DOMAIN InnerVars \cup DOMAIN OuterVars : GetMergedSlice(v)

MergerSpec == MergerInit /\ [][MergerNext]_mergerVars

-----------------------------------------------------------------------------
Merged == mResult.kind = "merged"
Interior(x) ==
    x - Offset \in settings.smoothing.border + settings.smoothing.transition
                    .. InnerSize - settings.smoothing.border - settings.smoothing.transition - 1
BorderOrOutside(x) ==
    x - Offset \notin settings.smoothing.border .. InnerSize - settings.smoothing.border - 1

(* In whatever order the smoothing and the target grid were set, and set again: *)
(* a slice has inner values inside, outer ones in the border and outside, and   *)
(* is undefined where both are.                                                 *)
MergedAsSet ==
    Merged => \A c \in DOMAIN mResult.cells :
        LET inner == InnerValue(<<c[1] - Offset, c[2] - Offset>>)
            outer == OuterValue(c)
            cell == mResult.cells[c]
        IN IF inner = "undef" \/ outer = "undef"
           THEN cell = IF inner = "undef" THEN outer ELSE inner
           ELSE /\ BorderOrOutside(c[1]) \/ BorderOrOutside(c[2]) => cell = "O"
                /\ Interior(c[1]) /\ Interior(c[2]) => cell = "I"

(* "Decide if the outer value shall be used if the inner value is undefined":   *)
(* when it shall not, an element the inner grid covers without a value has none.*)
UndefinedInnerStays ==
    Merged /\ ~settings.useOuter =>
        \A c \in UndefinedInner : mResult.cells[<<c[1] + Offset, c[2] + Offset>>] = "undef"
=============================================================================
