---------------------------- MODULE Interpolation ----------------------------
(***************************************************************************)
(* interpolation.c: where a point lies on an axis and which cells of a     *)
(* field an interpolated value is made of.  Positions are integers in      *)
(* units of 1/Q cells; the values of axes and points are integers.  A      *)
(* value is not a number but its recipe, a set of <<cell, weight>>, {}     *)
(* being undefined; cell x + ix * y is that of column x and row y in a     *)
(* field of ix columns.                                                    *)
(***************************************************************************)
EXTENDS Integers, FiniteSets, Sequences, FiniteSetsExt, SequencesExt

CONSTANTS Q,        \* parts of a cell positions are given in
          Circle    \* the values of a full circle of longitudes

ASSUME InterpolationAssumption == Q \in {2, 4} /\ Circle \in Nat \ {0}

\* floor and lround of a position: lround goes away from zero at one half.
Floor(p) == p \div Q
Lround(p) == IF p >= 0 THEN (2 * p + Q) \div (2 * Q) ELSE -((-2 * p + Q) \div (2 * Q))

-----------------------------------------------------------------------------
(* Positions on an axis.  An axis is a function on 0 .. num - 1.            *)

\* ascendingDoubleComparator, descendingDoubleComparator.
Compared(a, b, ascending) ==
    LET c == IF a = b THEN 0 ELSE IF a > b THEN 1 ELSE -1 IN IF ascending THEN c ELSE -c

\* bsearchDoubleIndex: the position of key, or -1 - the first position after it.
BsearchIndex(key, axis, ascending) ==
    LET num == Cardinality(DOMAIN axis)
        search[first \in 0 .. num, last \in -1 .. num - 1] ==
            LET pos == (first + last) \div 2
                comp == Compared(key, axis[pos], ascending)
            IN IF comp = 0 THEN pos
               ELSE IF comp > 0
               THEN IF pos + 1 <= last THEN search[pos + 1, last] ELSE -1 - (pos + 1)
               ELSE IF first <= pos - 1 THEN search[first, pos - 1] ELSE -1 - pos
    IN search[0, num - 1]

\* Longitudes are turned to where the axis has them; the axis is circular when the next
\* value, a little more than a step on, comes round to the first one.
Turned(p, axis, num) ==
    IF axis[0] < 0 \/ axis[num - 1] < 0
    THEN IF 2 * p > Circle THEN p - Circle ELSE p
    ELSE IF p < 0 THEN p + Circle ELSE p
CircularAxis(axis, num) ==
    LET next == axis[num - 1] + axis[1] - axis[0]
    IN IF axis[0] < axis[num - 1] THEN next - Circle >= axis[0] ELSE next + Circle <= axis[0]

\* A slip: a point before the first value is not brought round to the end of the axis.
MutWrapped(pos, circular, num) ==
    IF circular /\ 2 * pos > (2 * num - 1) * Q THEN pos - num * Q ELSE pos

\* A position beyond half a cell outside of a circular axis comes round.
Wrapped(pos, circular, num) ==
    LET p == IF circular /\ 2 * pos <= -Q THEN pos + num * Q ELSE pos
    IN IF circular /\ 2 * p > (2 * num - 1) * Q THEN p - num * Q ELSE p

\* mifi_points2position, of a finite point: the values the fit between two elements of the
\* axis divides by are divisors of Q here.
Points2Position(point, axis, longitude) ==
    LET num == Cardinality(DOMAIN axis)
        p == IF longitude THEN Turned(point, axis, num) ELSE point
        circular == longitude /\ CircularAxis(axis, num)
        found == BsearchIndex(p, axis, axis[0] < axis[num - 1])
        after == -1 - found
        n == IF after = num THEN num - 1 ELSE IF after = 0 THEN 1 ELSE after
        slope == axis[n] - axis[n - 1]
        fit == ((p - axis[n]) * Q) \div slope + n * Q
    IN IF found >= 0 THEN found * Q ELSE Wrapped(fit, circular, num)

-----------------------------------------------------------------------------
(* Values in a field: columns and rows with their weights.                  *)

Product(cols, rows, ix) == {<<c[1] + ix * r[1], c[2] * r[2]>> : c \in cols, r \in rows}
Between(p) == {<<Floor(p), Q - (p % Q)>>, <<Floor(p) + 1, p % Q>>}
HasBoth(p, n) == 0 <= Floor(p) /\ Floor(p) + 1 < n

\* mifi_get_values_f
Nearest(x, y, ix, iy) ==
    IF Lround(x) \in 0 .. ix - 1 /\ Lround(y) \in 0 .. iy - 1
    THEN Product({<<Lround(x), Q>>}, {<<Lround(y), Q>>}, ix)
    ELSE {}

\* mifi_get_values_bilinear_f: at a border the nearest column or row; the last case of the
\* code lets the nearest row be iy.
Bilinear(x, y, ix, iy) ==
    LET cols == IF HasBoth(x, ix) THEN Between(x)
                ELSE IF Lround(x) \in 0 .. ix - 1 THEN {<<Lround(x), Q>>} ELSE {}
        lastRow == IF HasBoth(x, ix) THEN iy - 1 ELSE iy
        rows == IF HasBoth(y, iy) THEN Between(y)
                ELSE IF Lround(y) \in 0 .. lastRow THEN {<<Lround(y), Q>>} ELSE {}
    IN Product(cols, rows, ix)

\* The four weights of a convolution with a = -1/2, in units of 1/(2 Q^3).
CubicWeights(f) ==
    << -Q * Q * f + 2 * Q * f * f - f * f * f,
       2 * Q * Q * Q - 5 * Q * f * f + 3 * f * f * f,
       Q * Q * f + 4 * Q * f * f - 3 * f * f * f,
       -Q * f * f + f * f * f >>
\* mifi_get_values_bicubic_f: undefined unless there are two cells on each side.
Bicubic(x, y, ix, iy) ==
    LET around(p) == {<<Floor(p) - 2 + i, CubicWeights(p % Q)[i]>> : i \in 1 .. 4}
        inside(p, n) == 1 <= Floor(p) /\ Floor(p) + 2 < n
    IN IF inside(x, ix) /\ inside(y, iy) THEN Product(around(x), around(y), ix) ELSE {}

\* The family of mifi_get_values_linear: what is made of the fields at a and at b for x. With
\* limits, beyond them, the value is undefined; the constant one keeps to the nearer field.
LinearCase(a, b, x) ==
    IF a = b \/ x = a THEN "A"
    ELSE IF x = b THEN "B"
    ELSE IF (a < x /\ x < b) \/ (b < x /\ x < a) THEN "between"
    ELSE IF (x < a) = (a < b) THEN "before" ELSE "after"
LinearWithin(before, after, a, b, x) ==
    LET far == LinearCase(a, b, x)
        steps == IF far = "before" THEN before ELSE after
        d == IF b > a THEN b - a ELSE a - b
        out == IF far = "before" THEN (IF x > a THEN x - a ELSE a - x) ELSE (IF x > b THEN x - b ELSE b - x)
    IN IF far \in {"A", "B"} THEN far
       ELSE IF far = "between" \/ out <= steps * d THEN "mixed" ELSE "undefined"
ConstantBeyond(a, b, x) ==
    LET at == LinearCase(a, b, x)
    IN IF at \in {"B", "after"} THEN "B" ELSE IF at \in {"A", "before"} THEN "A" ELSE "mixed"
\* mifi_get_values_log_f and log_log_f fail for what has no logarithm.
Logarithmic(a, b, x) ==
    IF a <= 0 \/ b <= 0 \/ x <= 0 THEN "error"
    ELSE IF LinearCase(a, b, x) \in {"A", "B"} THEN LinearCase(a, b, x) ELSE "mixed"

=============================================================================
