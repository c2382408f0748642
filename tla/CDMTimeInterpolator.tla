------------------------- MODULE CDMTimeInterpolator -------------------------
(***************************************************************************)
(* CDMTimeInterpolator gives the time axis of another reader new values    *)
(* and interpolates between the two slices of the old axis that are next   *)
(* to a new one.  Time is an integer; the number that stands for it in a   *)
(* unit is its distance to the unit's epoch.  The datum at a time is that  *)
(* time, so that linear interpolation should give the new time.            *)
(***************************************************************************)
EXTENDS Integers, Sequences, FiniteSets

CONSTANTS OldValues,      \* values of the time axis below, in the unit of epoch 0
          TimeSpecs,      \* [tokens, relative, epoch]
          TimePresent,    \* positions (from 1) at which the variable has data
          MaxTimeChanges  \* bound: how often the axis is changed

ASSUME TimeAssumption ==
    /\ OldValues \in Seq(Int) /\ OldValues # <<>>
    /\ \A i, j \in DOMAIN OldValues : i < j => OldValues[i] < OldValues[j]
    /\ \A spec \in TimeSpecs :
         spec.epoch \in Int /\ spec.tokens \in Seq([n : Int, x : BOOLEAN, sign : STRING])

VARIABLES epoch,        \* of the units attribute in cdm_
          newValues,    \* values of the time variable in cdm_
          timeChangeMap,                \* position -> the two old positions
          dataReaderTimesInNewUnits,
          timeChanges,
          slice         \* the last slice read

timeVars == <<epoch, newValues, timeChangeMap, dataReaderTimesInNewUnits, timeChanges, slice>>

-----------------------------------------------------------------------------
(* TimeSpec and SpatialAxisSpec: the values of an axis from a list like     *)
(* 0,3,...,x+3, where 0 is near the start of another axis and x near its    *)
(* end.  A token is [n, x, sign]: a number n, or "x" with a sign and a      *)
(* number behind it (sign "" and n = 0 for x alone), or the dots.           *)
Dots == [n |-> 0, x |-> TRUE, sign |-> "..."]

\* static_cast<int>(a / b): towards zero.
Magnitude(a) == IF a < 0 THEN -a ELSE a
Truncated(a, b) ==
    LET q == Magnitude(a) \div Magnitude(b) IN IF (a < 0) = (b < 0) THEN q ELSE -q

\* Positions of 0 and of x.  The cast goes below a positive start, where the test finds
\* nothing to correct; the comment there wants the value above.
StartOffset(start, delta) ==
    LET cast == Truncated(start, delta) * delta
    IN IF start < cast THEN cast + delta ELSE cast
FinalValue(end, delta) == Truncated(end, delta) * delta

\* translateRelativeTime: after x- the number is ignored and the value is zero, a number
\* right after x is subtracted.
RelativeTime(tok, zero, final) ==
    IF ~tok.x THEN zero + tok.n
    ELSE IF tok.sign = "" THEN final - tok.n
    ELSE IF tok.sign = "+" THEN final + tok.n
    ELSE 0

\* TranslateRelativePlace of an axis in space: x- is understood, a number right after x is not.
RelativePlace(tok, zero, final) ==
    IF ~tok.x THEN zero + tok.n
    ELSE IF tok.sign = "+" THEN final + tok.n
    ELSE IF tok.sign = "-" THEN final - tok.n
    ELSE final

\* The dots of tokenizeDotted: steps as the last one, up to before the value that follows.
Dotted(vals, after) ==
    LET n == Len(vals)
        dist == vals[n] - vals[n - 1]
        between(k) == IF dist > 0 THEN vals[n] + k * dist < after ELSE vals[n] + k * dist > after
        steps == Cardinality({k \in 1 .. Magnitude(after - vals[n]) : between(k)})
    IN vals \o [k \in 1 .. steps |-> vals[n] + k * dist] \o <<after>>

\* tokenizeDotted over tokens that have these values: after dots the next value ends them.
Tokenized(tokens, value) ==
    LET read[i \in 0 .. Len(tokens)] ==
            IF i = 0 THEN <<>>
            ELSE IF tokens[i] = Dots THEN read[i - 1]
            ELSE IF i > 1 /\ tokens[i - 1] = Dots THEN Dotted(read[i - 1], value[i])
            ELSE Append(read[i - 1], value[i])
    IN read[Len(tokens)]

\* The values for an axis from start to end; absolute values stand for themselves.
Delta(tokens) == tokens[2].n - tokens[1].n
TimeValues(spec, start, end) ==
    LET d == Delta(spec.tokens)
    IN [i \in DOMAIN spec.tokens |->
           IF spec.relative THEN RelativeTime(spec.tokens[i], StartOffset(start, d), FinalValue(end, d))
           ELSE spec.tokens[i].n]
TimeSteps(spec, start, end) == Tokenized(spec.tokens, TimeValues(spec, start, end))
AxisSteps(spec, start, end) ==
    LET d == Delta(spec.tokens)
    IN Tokenized(spec.tokens, [i \in DOMAIN spec.tokens |->
           IF spec.relative THEN RelativePlace(spec.tokens[i], StartOffset(start, d), FinalValue(end, d))
           ELSE spec.tokens[i].n])
-----------------------------------------------------------------------------
NoSlice == [pos |-> 0, num |-> 0, den |-> 0]
N == Len(OldValues)

TimeInit ==
    /\ epoch = 0 /\ newValues = OldValues
    /\ timeChangeMap = <<>> /\ dataReaderTimesInNewUnits = <<>>
    /\ timeChanges = 0 /\ slice = NoSlice

\* lower_bound from the position found last, moved inside.
LowerBound(times, from, t) ==
    LET found == {i \in from .. N : t <= times[i]}
    IN IF found = {} THEN N ELSE CHOOSE i \in found : \A j \in found : i <= j

\* A slip: the position found is not the second one of the pair.
MutOldPositions(pos) == <<pos, IF pos + 1 > N THEN pos ELSE pos + 1>>

\* The two old positions for the one found: before the first one the first two, to extrapolate.
OldPositions(pos) == IF pos # 1 THEN <<pos - 1, pos>> ELSE <<1, IF N > 1 THEN 2 ELSE 1>>

TimeMapping(times, new) ==
    LET lastPos[i \in 0 .. Len(new)] == IF i = 0 THEN 1 ELSE LowerBound(times, lastPos[i - 1], new[i])
    IN [i \in DOMAIN new |-> OldPositions(lastPos[i])]

\* changeTimeAxis.  The old values come from the reader below, their unit from cdm_:
\* after a change that is the unit of the new values.
ChangeTimeAxis(spec) ==
    LET oldTimes == [i \in 1 .. N |-> OldValues[i] + epoch]
        new == TimeSteps(spec, oldTimes[1], oldTimes[N])
    IN /\ timeChanges < MaxTimeChanges /\ timeChanges' = timeChanges + 1
       /\ timeChangeMap' = TimeMapping(oldTimes, new)
       /\ epoch' = spec.epoch
       /\ newValues' = [i \in DOMAIN new |-> new[i] - spec.epoch]
       /\ dataReaderTimesInNewUnits' = [i \in 1 .. N |-> oldTimes[i] - spec.epoch]
       /\ slice' = NoSlice

\* getDataSlice of a variable with this time axis: what is there of the two slices, or
\* their mean weighted by the distances, as a fraction num / den.
GetTimeSlice(pos) ==
    LET pair == timeChangeMap[pos]
        a == OldValues[pair[1]]
        b == OldValues[pair[2]]
        ta == dataReaderTimesInNewUnits[pair[1]]
        tb == dataReaderTimesInNewUnits[pair[2]]
    IN /\ timeChanges > 0 /\ pos \in DOMAIN newValues
       /\ slice' =
            IF {pair[1], pair[2]} \cap TimePresent = {} THEN NoSlice
            ELSE IF pair[1] \notin TimePresent THEN [pos |-> pos, num |-> b, den |-> 1]
            ELSE IF pair[2] \notin TimePresent \/ ta = tb THEN [pos |-> pos, num |-> a, den |-> 1]
            ELSE [pos |-> pos, num |-> a * (tb - ta) + (newValues[pos] - ta) * (b - a), den |-> tb - ta]
       /\ UNCHANGED <<epoch, newValues, timeChangeMap, dataReaderTimesInNewUnits, timeChanges>>

TimeNext ==
    \/ \E spec \in TimeSpecs : ChangeTimeAxis(spec)
    \/ \E pos \in DOMAIN newValues : GetTimeSlice(pos)

TimeIpSpec == TimeInit /\ [][TimeNext]_timeVars

-----------------------------------------------------------------------------
NewTime(pos) == newValues[pos] + epoch
Neighbours(pos) ==
    LET t == NewTime(pos)
    IN {i \in 1 .. N : (OldValues[i] <= t /\ \A j \in 1 .. N : OldValues[j] <= t => j <= i)
                       \/ (OldValues[i] >= t /\ \A j \in 1 .. N : OldValues[j] >= t => i <= j)}

(* A slice at a new time between old ones is made of its neighbours, each of    *)
(* them in use when it has data, and stands for the new time when both have.    *)
SliceOfNewTime ==
    /\ slice # NoSlice /\ Cardinality(Neighbours(slice.pos)) = 2 =>
         IF Neighbours(slice.pos) \subseteq TimePresent
         THEN slice.num = NewTime(slice.pos) * slice.den
         ELSE \E i \in Neighbours(slice.pos) \cap TimePresent : slice.num = OldValues[i] * slice.den
    /\ timeChanges > 0 => \A pos \in 1 .. Len(newValues) - 1 : newValues[pos] < newValues[pos + 1]

(* "relativeUnit will reset the relative value 0 to the first value larger than *)
(* t0 (original start time)": a value 0,... is not before the old axis.         *)
ZeroNotBeforeStart ==
    \A spec \in TimeSpecs : spec.relative =>
        StartOffset(OldValues[1], Delta(spec.tokens)) >= OldValues[1]
=============================================================================
