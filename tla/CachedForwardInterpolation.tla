--------------------- MODULE CachedForwardInterpolation ---------------------
(***************************************************************************)
(* CachedForwardInterpolation: each cell of the output is an aggregate of  *)
(* the cells of the input that lie in it.  The cells are found once, from  *)
(* the positions of the input's cells on the output's axes (whole numbers  *)
(* here, a negative one is outside); interpolateValues goes through the    *)
(* output with the aggregator the object owns.  Several threads may read   *)
(* through one object, each of them another slice.                         *)
(*                                                                         *)
(* A value is a number or Nan.  A slice is a function from the cells of    *)
(* the whole input.                                                        *)
(***************************************************************************)
EXTENDS Integers, FiniteSets, Sequences, SequencesExt, FiniteSetsExt, Functions

CONSTANTS InSize,      \* columns and rows of the input
          OutSize,     \* of the output
          Positions,   \* alternatives for where the input's cells lie: functions to <<x, y>>
          Slices,      \* values of the slices that are read
          Nan,
          Readers      \* threads

Cells(size) == 0 .. size[1] * size[2] - 1
Column(c, size) == c % size[1]
Row(c, size) == c \div size[1]
Reach == 2

ASSUME ForwardAssumption ==
    /\ Nan \in Int /\ InSize \in (Nat \ {0}) \X (Nat \ {0}) /\ OutSize \in (Nat \ {0}) \X (Nat \ {0})
    /\ Positions \subseteq [Cells(InSize) -> Int \X Int] /\ Slices \subseteq [Cells(InSize) -> Int]

VARIABLES fwd,      \* the object: method, pointsInIn and the reduced domain
          agg,      \* its aggregator: the values pushed since the last result
          reading   \* of each thread: the slice, the cell of the output and of it the next input cell

fwdVars == <<fwd, agg, reading>>

-----------------------------------------------------------------------------
\* Aggregators, by method, of what was pushed. Comparisons with Nan are false, so that it
\* stays where it is the first and is passed over where it is not; an nth_element over Nan may
\* return any element.
Total(s) ==
    LET val[k \in 0 .. Len(s)] == IF k = 0 THEN 0 ELSE val[k - 1] + s[k]
    IN val[Len(s)]
Least(s) ==
    LET val[k \in 0 .. Len(s)] ==
          IF k = 0 THEN s[1] ELSE IF Nan \notin {s[k], val[k - 1]} /\ s[k] < val[k - 1] THEN s[k] ELSE val[k - 1]
    IN val[Len(s)]
Most(s) ==
    LET val[k \in 0 .. Len(s)] ==
          IF k = 0 THEN s[1] ELSE IF Nan \notin {s[k], val[k - 1]} /\ s[k] > val[k - 1] THEN s[k] ELSE val[k - 1]
    IN val[Len(s)]
\* nth_element: no more than n smaller ones, more than n that are not greater.
Nth(s, n) == {v \in Range(s) : /\ Cardinality({i \in DOMAIN s : s[i] < v}) <= n
                              /\ Cardinality({i \in DOMAIN s : s[i] <= v}) > n}
AggregateOf(method, s) ==
    IF s = <<>> THEN {Nan}
    ELSE CASE method = "sum" -> {IF Nan \in Range(s) THEN Nan ELSE Total(s)}
           [] method = "mean" -> {IF Nan \in Range(s) THEN Nan ELSE Total(s) \div Len(s)}
           [] method = "min" -> {Least(s)}
           [] method = "max" -> {Most(s)}
           [] OTHER -> IF Nan \in Range(s) THEN Range(s) ELSE Nth(s, Len(s) \div 2)

\* The constructor: the cells of the input in each cell of the output, in the input's order,
\* and the part of the input that has all of them and two more on each side.
Inside(pos, o) == {c \in Cells(InSize) : pos[c] = <<Column(o, OutSize), Row(o, OutSize)>>}
InOrder(S) == [k \in 1 .. Cardinality(S) |-> CHOOSE c \in S : Cardinality({d \in S : d < c}) = k - 1]
PointsInIn(pos) == [o \in Cells(OutSize) |-> InOrder(Inside(pos, o))]
UsedCells(pos) == UNION {Inside(pos, o) : o \in Cells(OutSize)}
Part(used, n) ==
    LET low == IF used = {} THEN 0 ELSE Min(used)
        high == IF used = {} THEN 0 ELSE Max(used)
    IN <<IF low > Reach THEN low - Reach ELSE 0, Min({n - 1, high + Reach})>>
Reduced(pos) ==
    LET x == Part({Column(c, InSize) : c \in UsedCells(pos)}, InSize[1])
        y == Part({Row(c, InSize) : c \in UsedCells(pos)}, InSize[2])
        reduce == /\ x[1] > 0 \/ y[1] > 0 \/ x[2] < InSize[1] - 1 \/ y[2] < InSize[2] - 1
                  /\ x[1] + 2 * Reach <= x[2] /\ y[1] + 2 * Reach <= y[2]
    IN IF reduce THEN [in |-> <<x[2] - x[1] + 1, y[2] - y[1] + 1>>, min |-> <<x[1], y[1]>>]
       ELSE [in |-> InSize, min |-> <<0, 0>>]
Moved(c, domain) == (Row(c, InSize) - domain.min[2]) * domain.in[1] + Column(c, InSize) - domain.min[1]
Built(method, undef, pos) ==
    LET domain == Reduced(pos)
        points == PointsInIn(pos)
    IN [method |-> method, undef |-> undef, in |-> domain.in, min |-> domain.min, pos |-> pos,
        points |-> [o \in Cells(OutSize) |-> [k \in DOMAIN points[o] |-> Moved(points[o][k], domain)]]]

\* The value at a cell of what was read, the reduced domain.
Value(slice, c) ==
    slice[(Row(c, fwd.in) + fwd.min[2]) * InSize[1] + Column(c, fwd.in) + fwd.min[1]]

-----------------------------------------------------------------------------
Idle == [slice |-> <<>>, out |-> 0, next |-> 1, result |-> <<>>]

ForwardInit ==
    /\ \E m \in {"sum", "mean", "min", "max", "median"}, undef \in BOOLEAN, pos \in Positions :
           fwd = Built(m, undef, pos)
    /\ agg = <<>>
    /\ reading = [t \in Readers |-> Idle]

\* interpolateValues is called.
StartReading(t, slice) ==
    /\ reading[t] = Idle
    /\ reading' = [reading EXCEPT ![t].slice = slice]
    /\ UNCHANGED <<fwd, agg>>

\* A slip: undefined values are pushed for every method.
MutPushed(v) == TRUE
Pushed(v) == fwd.undef \/ v # Nan

Running(t) == reading[t].slice # <<>> /\ reading[t].out \in Cells(OutSize)

\* The next input cell of the cell of the output is pushed, or passed over.
PushValue(t) ==
    LET r == reading[t]
        v == Value(r.slice, fwd.points[r.out][r.next])
    IN /\ Running(t)
       /\ r.next <= Len(fwd.points[r.out])
       /\ agg' = IF Pushed(v) THEN Append(agg, v) ELSE agg
       /\ reading' = [reading EXCEPT ![t].next = @ + 1]
       /\ UNCHANGED fwd

\* get_and_reset, and the next cell of the output.
TakeAggregate(t) ==
    LET r == reading[t]
    IN /\ Running(t)
       /\ r.next > Len(fwd.points[r.out])
       /\ \E v \in AggregateOf(fwd.method, agg) :
              reading' = [reading EXCEPT ![t] = [r EXCEPT !.out = @ + 1, !.next = 1, !.result = Append(@, v)]]
       /\ agg' = <<>>
       /\ UNCHANGED fwd

ForwardNext ==
    \/ \E t \in Readers, s \in Slices : StartReading(t, s)
    \/ \E t \in Readers : PushValue(t) \/ TakeAggregate(t)

ForwardSpec == ForwardInit /\ [][ForwardNext]_fwdVars

-----------------------------------------------------------------------------
\* What the methods promise, for the values s of the cells D, all of them defined.
SumOver(s, D) == MapThenSumSet(LAMBDA c : s[c], D)
IsAggregate(v, method, s, D) ==
    IF D = {} THEN v = Nan
    ELSE CASE method = "sum" -> v = SumOver(s, D)
           [] method = "mean" -> v = SumOver(s, D) \div Cardinality(D)
           [] method = "min" -> v = Min({s[c] : c \in D})
           [] method = "max" -> v = Max({s[c] : c \in D})
           [] OTHER -> \E c \in D : v = s[c]
Defined(s, S) == {c \in S : s[c] # Nan}

\* Each cell of the output a thread has got is an aggregate of the defined values of the cells
\* that lie in it, all of them and no others, in the slice the thread reads, whatever the
\* domain was reduced to (CachedForwardInterpolation, interpolateValues).
AggregatesOwnCells ==
    \A t \in Readers : \A k \in DOMAIN reading[t].result :
        ~fwd.undef => IsAggregate(reading[t].result[k], fwd.method, reading[t].slice,
                                  Defined(reading[t].slice, Inside(fwd.pos, k - 1)))

\* With the methods that take undefined values in, a cell with one of them is undefined.
UndefinedIsPropagated ==
    \A t \in Readers : \A k \in DOMAIN reading[t].result :
        (fwd.undef /\ \E c \in Cells(InSize) : /\ fwd.pos[c] = <<Column(k - 1, OutSize), Row(k - 1, OutSize)>>
                                               /\ reading[t].slice[c] = Nan)
        => reading[t].result[k] = Nan
=============================================================================
