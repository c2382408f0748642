----------------------------- MODULE FillWriter -----------------------------
(***************************************************************************)
(* FillWriter inserts the data of a reader, the input, into a file that    *)
(* exists.  A slice goes to the position at which the file's coordinate    *)
(* variable has the input's value; values the file lacks are appended      *)
(* along an unlimited dimension.                                           *)
(*                                                                         *)
(* Where each position of a dimension goes is decided first (dimSlices),   *)
(* from the lengths io knew when it was opened (oLen); then an OpenMP loop *)
(* writes the variables.  The steps of the loop are those of variables:    *)
(* with fewer threads than variables only fewer orders happen.  No         *)
(* exception may leave the loop: the process ends in the middle of it, and *)
(* a later fill finds what was written until then.                         *)
(*                                                                         *)
(* A datum of a coordinate variable is its value, of another variable the  *)
(* input it is from and its positions there.  A cell that was never        *)
(* written is missing in "cells".                                          *)
(***************************************************************************)
EXTENDS Integers, Sequences, FiniteSets, FiniteSetsExt, Functions

CONSTANTS Inputs,         \* readers: lengths, coordinates, shapes
          Output,         \* the file in the beginning: lengths, unlimited dimensions, shapes, cells
          Translations,   \* configurations: sequences of translated dimensions
          MaxFills,       \* bound: fills, one after the other
          ReuseWriter     \* whether io may stay open from one fill to the next

VARIABLES cells,       \* of each variable of the file, by positions
          fileLen,     \* lengths of the file's dimensions
          oLen,        \* those io knows
          in,          \* the input
          fwts,        \* the configuration
          dimSlices,   \* of the dimensions that are changed: position in the file by position in the input
          unusable,    \* dimensions of the input that do not fit
          written,     \* number of slices written of each variable
          phase,       \* "closed", "filling", or how the last fill ended
          fills        \* how many fills began

fwVars == <<cells, fileLen, oLen, in, fwts, dimSlices, unusable, written, phase, fills>>

-----------------------------------------------------------------------------
oShape(v) == Output.shape[v]
oVars == DOMAIN Output.shape

\* What is taken for granted of the files: a variable with the name of a dimension has that
\* dimension only, an input has each value of a coordinate once, the file's cells are within its
\* lengths, and positions of a configuration are not negative.
InputFits(i) ==
    /\ i.len \in [DOMAIN i.len -> Nat]
    /\ \A v \in DOMAIN i.shape : i.shape[v] \in Seq(DOMAIN i.len)
    /\ DOMAIN i.coord = DOMAIN i.len \cap DOMAIN i.shape
    /\ \A d \in DOMAIN i.coord :
        /\ i.shape[d] = <<d>> /\ DOMAIN i.coord[d] = 1 .. i.len[d]
        /\ \A p, q \in DOMAIN i.coord[d] : i.coord[d][p] = i.coord[d][q] => p = q
ASSUME FillAssumption ==
    /\ Output.len \in [DOMAIN Output.len -> Nat] /\ DOMAIN Output.cells = oVars
    /\ \A v \in oVars :
        /\ oShape(v) \in Seq(DOMAIN Output.len) /\ (v \in DOMAIN Output.len => oShape(v) = <<v>>)
        /\ \A o \in DOMAIN Output.cells[v] :
            DOMAIN o = DOMAIN oShape(v) /\ \A k \in DOMAIN o : o[k] \in 0 .. Output.len[oShape(v)[k]] - 1
    /\ \A i \in Inputs : InputFits(i)
    /\ \A ts \in Translations : \A t \in Range(ts) : t.inSlices \in Seq(Nat) /\ t.outSlices \in Seq(Nat)

\* The dimensions of both, and those of them with a coordinate variable in both.
CommonDims(i) == DOMAIN i.len \cap DOMAIN oLen
ComparedDims(i) == {d \in CommonDims(i) : d \in DOMAIN i.coord /\ d \in oVars}

\* The positions of the file, as far as io knows it, with the coordinate i has at p.
FoundAt(i, d, p) ==
    {q \in 0 .. oLen[d] - 1 : <<q>> \in DOMAIN cells[d] /\ cells[d][<<q>>] = i.coord[d][p + 1]}

Missing(i, d) == {p \in 0 .. i.len[d] - 1 : FoundAt(i, d, p) = {}}

UnusableIDims(i) ==
    {d \in CommonDims(i) \ Output.unlimited :
        IF d \in ComparedDims(i) THEN Missing(i, d) # {} ELSE i.len[d] # oLen[d]}

\* A slip: the next free position is not moved on.
MutCurrentSlices(i, d) ==
    IF d \in ComparedDims(i)
    THEN [p \in (0 .. i.len[d] - 1) \ (IF d \in Output.unlimited THEN {} ELSE Missing(i, d)) |->
            IF p \in Missing(i, d) THEN oLen[d] ELSE Min(FoundAt(i, d, p))]
    ELSE [p \in 0 .. i.len[d] - 1 |-> oLen[d] + p]

\* Where the positions go: to the first with the value, or behind the end in order.
CurrentSlices(i, d) ==
    IF d \in ComparedDims(i)
    THEN [p \in (0 .. i.len[d] - 1) \ (IF d \in Output.unlimited THEN {} ELSE Missing(i, d)) |->
            IF p \in Missing(i, d)
            THEN oLen[d] + Cardinality({q \in Missing(i, d) : q < p})
            ELSE Min(FoundAt(i, d, p))]
    ELSE [p \in 0 .. i.len[d] - 1 |-> oLen[d] + p]

\* Dimensions without a change keep their positions and are written in one piece.
ChangedDims(i) ==
    {d \in CommonDims(i) :
        IF d \in ComparedDims(i)
        THEN \/ i.len[d] # oLen[d]
             \/ \E p \in DOMAIN CurrentSlices(i, d) : CurrentSlices(i, d)[p] # p
        ELSE d \in Output.unlimited}

-----------------------------------------------------------------------------
\* What remains of a shape without some of its dimensions.
Without(shape, dims) ==
    LET kept[k \in 0 .. Len(shape)] ==
            IF k = 0 THEN <<>> ELSE IF shape[k] \in dims THEN kept[k - 1] ELSE Append(kept[k - 1], shape[k])
    IN kept[Len(shape)]

\* The translated dimensions, and the shapes without them.
InputDims == {t.inputDim : t \in Range(fwts)}
OutputDims == {t.outputDim : t \in Range(fwts)}
iTestShape(v) == Without(in.shape[v], InputDims)
oTestShape(v) == Without(oShape(v), OutputDims)

BadDim(v) == \E d \in Range(in.shape[v]) : d \in unusable

\* The position a translation fixes, if the slice builder takes it.
FixedPos(slices, length) ==
    IF Len(slices) = 1 /\ slices[1] < length THEN slices[1] ELSE -1
InSlices(ts, d) == (CHOOSE t \in Range(ts) : t.inputDim = d).inSlices
OutSlices(ts, d) == (CHOOSE t \in Range(ts) : t.outputDim = d).outSlices
FixedIn(v) ==
    [d \in InputDims \cap Range(in.shape[v]) |-> FixedPos(InSlices(fwts, d), in.len[d])]
FixedOut(v) ==
    [d \in OutputDims \cap Range(oShape(v)) |->
        LET slices == OutSlices(fwts, d)
        IN IF d \in Output.unlimited /\ Len(slices) = 1 THEN slices[1] ELSE FixedPos(slices, oLen[d])]

\* What happens to a variable; std::equal reads behind the end of a shape that
\* is shorter than the input's, which may stop the program.
Treatments(v) ==
    IF v \notin oVars \/ BadDim(v) THEN {"omit"}
    ELSE LET is == iTestShape(v)
             os == oTestShape(v)
             fixed == Range(FixedIn(v)) \cup Range(FixedOut(v))
         IN IF \E k \in DOMAIN is \cap DOMAIN os : is[k] # os[k] THEN {"omit"}
            ELSE IF Len(is) > Len(os) THEN {"omit", "stop"}
            ELSE IF -1 \in fixed THEN {"stop"}
            ELSE IF \E k \in Len(is) + 1 .. Len(os) : oLen[os[k]] # 1 THEN {"stop"}  \* sizes differ in ncPutValues
            ELSE {"write"}

\* The slices of a variable: for each changed dimension, in the order of the shape, every
\* position by itself, within each slice made so far.  A slice is the position in the input.
Positioned(slice, d, x) == [e \in DOMAIN slice \cup {d} |-> IF e = d THEN x ELSE slice[e]]
Divided(slices, d, n) == [m \in 1 .. Len(slices) * n |-> Positioned(slices[1 + (m - 1) \div n], d, (m - 1) % n)]
Sliced(shape, dims, len) ==
    LET slices[k \in 0 .. Len(shape)] ==
            IF k = 0 THEN <<(<<>>)>>
            ELSE IF shape[k] \in dims THEN Divided(slices[k - 1], shape[k], len[shape[k]])
            ELSE slices[k - 1]
    IN slices[Len(shape)]
SlicesOf(v) == Sliced(iTestShape(v), DOMAIN dimSlices, in.len)

\* The positions of a slice, as a function of the dimension.
Elements(v, slice) ==
    LET dims == Range(iTestShape(v))
    IN {p \in [dims -> UNION {0 .. in.len[d] - 1 : d \in dims}] :
        \A d \in dims : p[d] < in.len[d] /\ (d \in DOMAIN slice => p[d] = slice[d])}

InPos(v, p) == [k \in DOMAIN in.shape[v] |->
    LET d == in.shape[v][k] IN IF d \in DOMAIN p THEN p[d] ELSE FixedIn(v)[d]]
OutPos(v, p) == [k \in DOMAIN oShape(v) |->
    LET d == oShape(v)[k]
    IN IF d \in DOMAIN FixedOut(v) THEN FixedOut(v)[d]
       ELSE IF d \notin DOMAIN p THEN 0
       ELSE IF d \in DOMAIN dimSlices THEN dimSlices[d][p[d]] ELSE p[d]]

\* What the input has there.
Datum(v, p) == IF v \in DOMAIN in.coord THEN in.coord[v][InPos(v, p)[1] + 1]
               ELSE [from |-> in.name, at |-> InPos(v, p)]

-----------------------------------------------------------------------------
FillInit ==
    /\ cells = Output.cells
    /\ fileLen = Output.len
    /\ oLen = Output.len
    /\ in \in Inputs
    /\ fwts = <<>>
    /\ dimSlices = <<>>
    /\ unusable = {}
    /\ written = <<>>
    /\ phase = "closed"
    /\ fills = 0

\* io is opened, unless it is still open from the fill before.
Open ==
    /\ phase # "filling" /\ fills < MaxFills
    /\ phase' = "open"
    /\ \/ oLen' = fileLen
       \/ ReuseWriter /\ phase \in {"returned", "threw", "failed"} /\ oLen' = oLen
    /\ UNCHANGED <<cells, fileLen, in, fwts, dimSlices, unusable, written, fills>>

\* The constructor until the parallel loop; reading a coordinate may fail.
Begin ==
    /\ phase = "open"
    /\ fills' = fills + 1
    /\ \E i \in Inputs, t \in Translations :
        /\ in' = i /\ fwts' = t
        /\ dimSlices' = [d \in ChangedDims(i) |-> CurrentSlices(i, d)]
        /\ unusable' = UnusableIDims(i)
        /\ written' = [v \in DOMAIN i.shape |-> 0]
        /\ phase' \in {"filling", "failed"}
    /\ UNCHANGED <<cells, fileLen, oLen>>

\* The lengths of a dimension that positions need.
Reached(shape, d, at) == UNION {{o[k] + 1 : k \in {j \in DOMAIN shape : shape[j] = d}} : o \in at}

\* One turn of the innermost loop: a slice is read and put.
FillSlice(v) ==
    /\ phase = "filling"
    /\ "write" \in Treatments(v)
    /\ written[v] < Len(SlicesOf(v))
    /\ LET slice == SlicesOf(v)[written[v] + 1]
           put == {<<OutPos(v, p), Datum(v, p)>> : p \in Elements(v, slice)}
           at == {c[1] : c \in put}
       IN /\ cells' = [cells EXCEPT ![v] =
                [o \in DOMAIN @ \cup at |-> IF o \in at THEN (CHOOSE c \in put : c[1] = o)[2] ELSE @[o]]]
          /\ fileLen' = [d \in DOMAIN fileLen |-> Max({fileLen[d]} \cup Reached(oShape(v), d, at))]
    /\ written' = [written EXCEPT ![v] = @ + 1]
    /\ UNCHANGED <<oLen, in, fwts, dimSlices, unusable, phase, fills>>

\* A read or a put fails, or a translation cannot be applied: the exception
\* reaches the end of the parallel region and the process ends.  What was put
\* until then is taken to be in the file.
Abort ==
    /\ phase = "filling"
    /\ \E v \in DOMAIN in.shape :
        \/ "write" \in Treatments(v) /\ written[v] < Len(SlicesOf(v))
        \/ "stop" \in Treatments(v)
    /\ phase' = "aborted"
    /\ UNCHANGED <<cells, fileLen, oLen, in, fwts, dimSlices, unusable, written, fills>>

LoopDone ==
    \A v \in DOMAIN in.shape :
        \/ "omit" \in Treatments(v)
        \/ "write" \in Treatments(v) /\ written[v] = Len(SlicesOf(v))

\* The loop's barrier: dimensions that did not fit are an error now.
Finish ==
    /\ phase = "filling" /\ LoopDone
    /\ phase' = IF unusable # {} THEN "threw" ELSE "returned"
    /\ UNCHANGED <<cells, fileLen, oLen, in, fwts, dimSlices, unusable, written, fills>>

FillNext == Open \/ Begin \/ (\E v \in DOMAIN in.shape : FillSlice(v)) \/ Abort \/ Finish

FillSpec == FillInit /\ [][FillNext]_fwVars

-----------------------------------------------------------------------------

(* After a fill that came to its end, every value of every variable that was   *)
(* not left out stands where the file's coordinates are those of the value in  *)
(* the input, whatever order the threads wrote in and wherever an earlier fill *)
(* stopped: "It is possible to restart the model at any state".                *)
FilledByCoordinate ==
    phase \in {"returned", "threw"} =>
        \A v \in DOMAIN in.shape : "write" \in Treatments(v) =>
            \A p \in Elements(v, <<>>) : \E o \in DOMAIN cells[v] :
                /\ cells[v][o] = Datum(v, p)
                /\ \A k \in DOMAIN o : oShape(v)[k] \in ComparedDims(in) \cap DOMAIN p =>
                    LET d == oShape(v)[k]
                    IN <<o[k]>> \in DOMAIN cells[d] /\ cells[d][<<o[k]>>] = in.coord[d][p[d] + 1]

(* A fill replaces a value only by one with the same coordinates: appending    *)
(* never takes the place of what another fill appended.                        *)
OnlySameCoordinatesReplaced ==
    [][\A v \in oVars : \A o \in DOMAIN cells[v] : cells'[v][o] # cells[v][o] =>
        \E p \in Elements(v, <<>>) :
            /\ cells'[v][o] = Datum(v, p)
            /\ \A k \in DOMAIN o : oShape(v)[k] \in ComparedDims(in) \cap DOMAIN p =>
                LET d == oShape(v)[k]
                IN <<o[k]>> \in DOMAIN cells[d] => cells[d][<<o[k]>>] = in.coord[d][p[d] + 1]]_fwVars

\* Both: where values stand after fills in any order (FillWriter).
FillsByCoordinate == []FilledByCoordinate /\ OnlySameCoordinatesReplaced
=============================================================================
