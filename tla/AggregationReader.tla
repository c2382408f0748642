------------------------- MODULE AggregationReader -------------------------
(***************************************************************************)
(* An aggregation of files behind one data model: joinExisting lays the    *)
(* unlimited dimensions of the files end to end, joinNew gives every file  *)
(* one position of a new dimension, union only collects variables.         *)
(*                                                                         *)
(* The constructor of NcmlAggregationReader adds the files one by one: the *)
(* <netcdf> elements, where an exception ends it, then the scanned files,  *)
(* where an exception is logged and the next file follows.  Positions are  *)
(* counted from 0 as in the code, files from 1.                            *)
(***************************************************************************)
EXTENDS Hyperslab, FiniteSets, FiniteSetsExt, TLC

CONSTANTS
  Files,        \* what a file may hold
  Documents,    \* the files a document may list, in the order they are added
  AggTypes,     \* the types of aggregation they are used with
  JoinNewDim,   \* dimName of the document, ...
  JoinNewVars   \* ... and its variableAgg elements

ASSUME AggTypesAssumption == AggTypes \subseteq {"joinExisting", "joinNew", "union"}

(* The names of a file's variables are unique, their dimensions exist, and *)
(* at most one of its dimensions is unlimited (getUnlimitedDim has one).   *)
ASSUME DocumentsAssumption ==
  /\ Documents \subseteq Seq(Files)
  /\ \A f \in Files :
       LET names == {f.vars[i].name : i \in DOMAIN f.vars}
       IN  /\ \A d \in DOMAIN f.dims : f.dims[d] \in [length : Nat, unlimited : BOOLEAN]
           /\ f.vars \in Seq([name : names, shape : Seq(DOMAIN f.dims), memory : BOOLEAN])
           /\ \A i, j \in DOMAIN f.vars : f.vars[i].name = f.vars[j].name => i = j
           /\ \A c, d \in DOMAIN f.dims : f.dims[c].unlimited /\ f.dims[d].unlimited => c = d
           /\ f.coords \in Nat /\ f.scanned \in BOOLEAN

VARIABLES
  aggType,
  pending,          \* the files still to add
  readers,
  readerUdimPos,    \* where the positions of each reader end
  joinCoordValues,  \* values of the join dimension: file and number within it
  agg,              \* the data model with joinVars and unionReaders
  phase,            \* "adding", "ready" or "failed": the constructor threw
  shares            \* history: the joined positions each file stands for

vars == <<aggType, pending, readers, readerUdimPos, joinCoordValues, agg, phase, shares>>

(* A file: vars is a sequence of [name, shape, memory], dims maps names to  *)
(* [length, unlimited], coords is the number of values in its coordValue.   *)
UnlimitedDims(dims) == {d \in DOMAIN dims : dims[d].unlimited}
DimsOf(shape) == {shape[i] : i \in DOMAIN shape}
HasUnlimitedDim(dims, shape) == UnlimitedDims(dims) \cap DimsOf(shape) # {}
HasVariable(file, v) == \E i \in DOMAIN file.vars : file.vars[i].name = v
VariableOf(file, v) == file.vars[CHOOSE i \in DOMAIN file.vars : file.vars[i].name = v]
VariablesOf(file) ==
  [v \in {file.vars[i].name : i \in DOMAIN file.vars} |->
     [shape |-> VariableOf(file, v).shape, memory |-> VariableOf(file, v).memory]]
UnlimitedLength(dims) ==
  IF UnlimitedDims(dims) = {} THEN 0 ELSE dims[CHOOSE d \in UnlimitedDims(dims) : TRUE].length
Sized(dims, shape) == [i \in DOMAIN shape |-> dims[shape[i]].length]

(* The data model with its variables, before any of them has a reader.    *)
Model(dims, variables, joinVars) ==
  [dims |-> dims, vars |-> variables, joinVars |-> joinVars, unionReaders |-> <<>>, thrown |-> FALSE]

Init ==
  /\ aggType \in AggTypes
  /\ pending \in Documents
  /\ readers = <<>> /\ readerUdimPos = <<>> /\ joinCoordValues = <<>> /\ shares = <<>>
  /\ agg = Model(<<>>, <<>>, IF aggType = "joinNew" THEN JoinNewVars ELSE {})
  /\ phase = "adding"

-----------------------------------------------------------------------------
(* Adding a file, up to the extension of the join dimension.               *)

Thrown(a) == [a EXCEPT !.thrown = TRUE]
Added(f, g) == [x \in DOMAIN f \cup DOMAIN g |-> IF x \in DOMAIN f THEN f[x] ELSE g[x]]
WithDims(a, file, names) == [a EXCEPT !.dims = Added(@, [d \in names |-> file.dims[d]])]
WithVariable(a, v) ==
  [a EXCEPT !.vars = Added(@, [n \in {v.name} |-> [shape |-> v.shape, memory |-> v.memory]])]

(* addFirstReader: the model of the first file.  Its data in memory are    *)
(* forgotten for the variables joined along its unlimited dimension.       *)
FirstJoinExisting(file) ==
  LET all == VariablesOf(file)
      join == {v \in DOMAIN all : HasUnlimitedDim(file.dims, all[v].shape)}
  IN  Model(file.dims, [v \in DOMAIN all |-> [all[v] EXCEPT !.memory = @ /\ v \notin join]], join)

(* Its unlimited dimension becomes a fixed one; the new dimension is added *)
(* last, to the model and to the shapes.                                   *)
FirstJoinNew(file) ==
  LET all == VariablesOf(file)
      fixed == [d \in DOMAIN file.dims |-> [file.dims[d] EXCEPT !.unlimited = FALSE]]
      added == Added(fixed, [d \in {JoinNewDim} |-> [length |-> 0, unlimited |-> TRUE]])
      grown == [v \in DOMAIN all |->
                  IF v \in agg.joinVars THEN [all[v] EXCEPT !.shape = Append(@, JoinNewDim)]
                                        ELSE all[v]]
  IN  IF JoinNewDim \in DOMAIN file.dims
        THEN Thrown(Model(fixed, all, agg.joinVars))
        ELSE Model(added, grown, agg.joinVars)

FirstJoined(file) ==
  CASE aggType = "joinExisting" -> FirstJoinExisting(file)
    [] aggType = "joinNew"      -> FirstJoinNew(file)
    [] aggType = "union"        -> Model(file.dims, VariablesOf(file), agg.joinVars)

(* A variable with the unlimited dimension that is not known yet: missing  *)
(* dimensions are added, whether or not the known ones agree.              *)
JoinVariable(file, a, v) ==
  IF v.name \in DOMAIN a.vars \/ ~HasUnlimitedDim(file.dims, v.shape) THEN a
  ELSE LET others == DimsOf(v.shape) \ UnlimitedDims(file.dims)
           known == others \cap DOMAIN a.dims
           b == WithDims(a, file, others \ known)
       IN  IF \E d \in known : a.dims[d].length # file.dims[d].length THEN b
           ELSE [WithVariable(b, [v EXCEPT !.memory = FALSE]) EXCEPT !.joinVars = @ \cup {v.name}]

(* all variables of the file, one after the other *)
JoinVariables(file, a) ==
  LET joined[k \in 0 .. Len(file.vars)] ==
        IF k = 0 THEN a ELSE JoinVariable(file, joined[k - 1], file.vars[k])
  IN  joined[Len(file.vars)]

(* The file takes part in joinExisting: it has an unlimited dimension, and *)
(* not another one than the aggregation.                                   *)
Joins(file) ==
  /\ UnlimitedDims(file.dims) # {}
  /\ UnlimitedDims(agg.dims) \in {{}, UnlimitedDims(file.dims)}

OtherJoinExisting(file) ==
  LET missing == UnlimitedDims(file.dims) \ UnlimitedDims(agg.dims)
  IN  IF ~Joins(file) THEN agg
      ELSE IF missing \cap DOMAIN agg.dims # {} THEN Thrown(agg)
      ELSE JoinVariables(file, WithDims(agg, file, missing))

(* joinNew adds the join variables that are not known yet.  Their shapes   *)
(* may name dimensions nobody adds.                                        *)
NewVariable(a, v) ==
  IF v.name \in DOMAIN a.vars \/ v.name \notin a.joinVars THEN a
  ELSE WithVariable(a, [v EXCEPT !.shape = Append(@, JoinNewDim)])
OtherJoinNew(file) ==
  LET joined[k \in 0 .. Len(file.vars)] ==
        IF k = 0 THEN agg ELSE NewVariable(joined[k - 1], file.vars[k])
  IN  joined[Len(file.vars)]

OtherJoined(file) ==
  CASE aggType = "joinExisting" -> OtherJoinExisting(file)
    [] aggType = "joinNew"      -> OtherJoinNew(file)
    [] aggType = "union"        -> agg

-----------------------------------------------------------------------------
(* extendJoinedUnLimDimBy: by how much, and with which coordinate values.  *)

Joined(file) == IF readers = <<>> THEN FirstJoined(file) ELSE OtherJoined(file)
Takes(file) == IF readers = <<>> THEN UnlimitedDims(file.dims) # {} ELSE Joins(file)
Length(file) ==
  CASE aggType = "joinNew" -> 1
    [] aggType = "joinExisting" /\ Takes(file) -> UnlimitedLength(file.dims)
    [] OTHER -> 0

(* A document without coordinate values gets one for each file of joinNew. *)
(* (MutCoordsFit, a slip: any number of them is accepted.)                 *)
CoordValues(file) ==
  CASE aggType = "joinNew" -> IF file.scanned \/ file.coords = 0 THEN 1 ELSE file.coords
    [] aggType = "joinExisting" /\ Takes(file) /\ ~file.scanned -> file.coords
    [] OTHER -> 0
MutCoordsFit(file) == TRUE
CoordsFit(file) == CoordValues(file) \in {0, Length(file)}

Extends(file) == aggType # "union" /\ ~Joined(file).thrown
EndOfPositions == IF readerUdimPos = <<>> THEN 0 ELSE Last(readerUdimPos)
Extended(file) == EndOfPositions + Length(file)
WithLength(a, n) ==
  [a EXCEPT !.dims = [d \in DOMAIN @ |-> IF @[d].unlimited THEN [@[d] EXCEPT !.length = n] ELSE @[d]]]

-----------------------------------------------------------------------------
(* The variables that are not joined.                                      *)

MutUnionDimsLength(a, file, shape) ==
  LET known == DimsOf(shape) \cap DOMAIN a.dims
      second == {d \in DimsOf(shape) \ known : file.dims[d].unlimited /\ UnlimitedDims(a.dims) # {}}
  IN  [ok |-> second = {} /\ \A d \in known : a.dims[d].unlimited = file.dims[d].unlimited,
       new |-> DimsOf(shape) \ (known \cup second)]
(* Which dimensions of a shape are added, and whether all of them agree.   *)
UnionDims(a, file, shape) ==
  LET known == DimsOf(shape) \cap DOMAIN a.dims
      second == {d \in DimsOf(shape) \ known : file.dims[d].unlimited /\ UnlimitedDims(a.dims) # {}}
  IN  [ok |-> second = {} /\ \A d \in known : a.dims[d] = file.dims[d],
       new |-> DimsOf(shape) \ (known \cup second)]

(* copyVar throws for a variable that is known but that nobody reads: the  *)
(* reader is noted before.                                                 *)
UnionVariable(file, index, a, v) ==
  IF a.thrown \/ v.name \in a.joinVars \cup DOMAIN a.unionReaders THEN a
  ELSE LET dims == UnionDims(a, file, v.shape)
           b == WithDims(a, file, dims.new)
           noted == [b EXCEPT !.unionReaders = Added(@, [n \in {v.name} |-> index])]
       IN  IF ~dims.ok THEN b
           ELSE IF v.name \in DOMAIN a.vars THEN Thrown(noted)
           ELSE WithVariable(noted, v)

FirstUnion(a) ==
  [a EXCEPT !.unionReaders = [v \in DOMAIN a.vars \ a.joinVars |-> 1]]
OtherUnion(a, file) ==
  LET united[k \in 0 .. Len(file.vars)] ==
        IF k = 0 THEN a ELSE UnionVariable(file, Len(readers) + 1, united[k - 1], file.vars[k])
  IN  united[Len(file.vars)]

AfterAdding(file) ==
  LET a == IF Extends(file) THEN WithLength(Joined(file), Extended(file)) ELSE Joined(file)
  IN  IF a.thrown \/ (Extends(file) /\ ~CoordsFit(file)) THEN Thrown(a)
      ELSE IF readers = <<>> THEN FirstUnion(a) ELSE OtherUnion(a, file)

-----------------------------------------------------------------------------
(* addReader.  When a scanned file throws, what was done so far stays: the *)
(* reader is in readers, and perhaps not in readerUdimPos.                 *)
AddReader ==
  /\ phase = "adding" /\ pending # <<>>
  /\ LET file == Head(pending)
         before == UnlimitedLength(agg.dims)
     IN  /\ AfterAdding(file).thrown => file.scanned
         /\ agg' = [AfterAdding(file) EXCEPT !.thrown = FALSE]
         /\ readers' = Append(readers, file)
         /\ readerUdimPos' = IF Extends(file) THEN Append(readerUdimPos, Extended(file))
                                              ELSE readerUdimPos
         /\ joinCoordValues' = joinCoordValues \o
              (IF Extends(file) THEN [k \in 1 .. CoordValues(file) |-> <<Len(readers'), k>>]
                                ELSE <<>>)
         /\ shares' = Append(shares,
              [from |-> EndOfPositions,
               upto |-> EndOfPositions + (IF Joined(file).thrown THEN 0 ELSE Length(file))])
  /\ pending' = Tail(pending)
  /\ UNCHANGED <<aggType, phase>>

(* An exception for a <netcdf> element leaves the constructor.             *)
GiveUp ==
  /\ phase = "adding" /\ pending # <<>>
  /\ AfterAdding(Head(pending)).thrown /\ ~Head(pending).scanned
  /\ phase' = "failed"
  /\ UNCHANGED <<aggType, pending, readers, readerUdimPos, joinCoordValues, agg, shares>>

(* initAggregation: the coordinate values go to the join dimension's       *)
(* variable, which joinNew adds.                                           *)
InitAggregation ==
  /\ phase = "adding" /\ pending = <<>>
  /\ LET name == IF aggType = "joinNew" THEN {JoinNewDim} ELSE UnlimitedDims(agg.dims)
         known == name \cap DOMAIN agg.vars
     IN  \/ /\ joinCoordValues = <<>>
            /\ phase' = "ready" /\ UNCHANGED agg
         \/ /\ joinCoordValues # <<>> /\ aggType = "joinNew" /\ known # {}
            /\ phase' = "failed" /\ UNCHANGED agg
         \/ /\ joinCoordValues # <<>> /\ aggType = "joinNew" /\ known = {}
            /\ phase' = "ready"
            /\ agg' = WithVariable(agg, [name |-> JoinNewDim, shape |-> <<JoinNewDim>>, memory |-> TRUE])
         \/ /\ joinCoordValues # <<>> /\ aggType = "joinExisting"
            /\ phase' = "ready"
            /\ agg' = [agg EXCEPT !.vars = [v \in DOMAIN @ |->
                         IF v \in known THEN [@[v] EXCEPT !.memory = TRUE] ELSE @[v]]]
  /\ UNCHANGED <<aggType, pending, readers, readerUdimPos, joinCoordValues, shares>>

Next == AddReader \/ GiveUp \/ InitAggregation
Spec == Init /\ [][Next]_vars

-----------------------------------------------------------------------------
(* Reads.  A slice is known by the file it is read from (0: fill values),  *)
(* the position it is asked at there, and its size.                        *)

(* a slip: lower_bound instead of upper_bound *)
MutFindJoinReader(p) ==
  LET behind == {i \in DOMAIN readerUdimPos : p <= readerUdimPos[i]}
  IN  IF behind = {} THEN 0 ELSE Min(behind)
(* findJoinReader: the first reader whose positions end behind p, and p    *)
(* counted from the end of the reader before.                              *)
FindJoinReader(p) ==
  LET behind == {i \in DOMAIN readerUdimPos : p < readerUdimPos[i]}
  IN  IF behind = {} THEN 0 ELSE Min(behind)
PositionIn(i, p) == IF i = 1 THEN p ELSE p - readerUdimPos[i - 1]

CheckJoinExistingDims(file, v) ==
  /\ HasVariable(file, v)
  /\ VariableOf(file, v).shape = agg.vars[v].shape
  /\ \A d \in DimsOf(agg.vars[v].shape) \ UnlimitedDims(file.dims) :
       agg.dims[d].length = file.dims[d].length
CheckJoinNewDims(file, v) ==
  /\ HasVariable(file, v)
  /\ VariableOf(file, v).shape = Front(agg.vars[v].shape)
  /\ \A d \in DimsOf(VariableOf(file, v).shape) : agg.dims[d].length = file.dims[d].length
CheckDims(file, v) ==
  IF aggType = "joinNew" THEN CheckJoinNewDims(file, v) ELSE CheckJoinExistingDims(file, v)

(* Elements of a slice at one position of the unlimited dimension, of an   *)
(* aggregation or of a file.                                               *)
SliceSize(dims, shape) ==
  Product([i \in DOMAIN shape |-> IF dims[shape[i]].unlimited THEN 1 ELSE dims[shape[i]].length])

(* getDataSlice(varName, unLimDimPos) of a joined variable.  For joinNew   *)
(* the file is read in full; the fill has the join dimension's length as a *)
(* factor.                                                                 *)
ReadPosition(v, p) ==
  LET i == FindJoinReader(p)
      shape == agg.vars[v].shape
  IN  CASE aggType = "joinExisting" /\ CheckJoinExistingDims(readers[i], v) ->
             [file |-> i, at |-> PositionIn(i, p), size |-> SliceSize(readers[i].dims, shape)]
        [] aggType = "joinNew" /\ CheckJoinNewDims(readers[i], v) ->
             [file |-> i, at |-> 0, size |-> Product(Sized(readers[i].dims, Front(shape)))]
        [] aggType = "joinExisting" /\ ~CheckJoinExistingDims(readers[i], v) ->
             [file |-> 0, at |-> 0, size |-> SliceSize(agg.dims, shape)]
        [] OTHER -> [file |-> 0, at |-> 0, size |-> Product(Sized(agg.dims, shape))]

(* getDataSlice(varName, sb): where the data of one selected position come *)
(* from; positions not read keep the fill value.                           *)
ReadSelected(v, p) ==
  LET i == FindJoinReader(p)
  IN  IF ~CheckDims(readers[i], v) THEN [file |-> 0, at |-> 0]
      ELSE [file |-> i, at |-> IF aggType = "joinNew" THEN 0 ELSE PositionIn(i, p)]

(* The variables read from the files by position: their dimensions are     *)
(* known (otherwise every read throws), no data in memory.                 *)
JoinedVariables ==
  {v \in agg.joinVars \cap DOMAIN agg.vars :
     ~agg.vars[v].memory /\ DimsOf(agg.vars[v].shape) \subseteq DOMAIN agg.dims}
JoinLength == IF aggType = "union" THEN 0 ELSE UnlimitedLength(agg.dims)

-----------------------------------------------------------------------------

(* Every reader of a join has its positions: no file was left half-added.  *)
InStep == aggType # "union" => Len(readers) = Len(readerUdimPos)

(* Whatever is read at a joined position comes from the file the position  *)
(* stands for, from the position counted within that file, and is filled   *)
(* only where the file's variable differs; a read by slice builder agrees. *)
(* (findJoinReader and both getDataSlice of AggregationReader)             *)
FromItsFile ==
  \A v \in JoinedVariables, i \in DOMAIN readers :
    \A p \in shares[i].from .. shares[i].upto - 1 :
      LET found == ReadPosition(v, p)
          at == IF aggType = "joinNew" THEN 0 ELSE p - shares[i].from
      IN  /\ ReadSelected(v, p) = [file |-> found.file, at |-> found.at]
          /\ IF CheckDims(readers[i], v) THEN found.file = i /\ found.at = at
                                         ELSE found.file = 0

(* The same for an aggregation no file of which was left half-added.       *)
WholeFilesJoined == phase = "ready" /\ InStep /\ aggType # "union" => FromItsFile

(* The model announces the positions of all files of the join.  A slice by *)
(* position has as many elements as announced: always with joinExisting,   *)
(* filled or read, and for what joinNew reads.                             *)
SizesAnnounced ==
  phase = "ready" /\ InStep /\ readers # <<>> =>
    /\ aggType # "union" => JoinLength = Last(shares).upto
    /\ \A v \in JoinedVariables, p \in 0 .. JoinLength - 1 :
      LET found == ReadPosition(v, p)
      IN  found.file # 0 \/ aggType = "joinExisting" =>
            found.size = SliceSize(agg.dims, agg.vars[v].shape)

(* A variable that is not joined has, in the file that it is read from,    *)
(* the shape and the sizes announced, and the same unlimited dimension     *)
(* except that joinNew announces the first file's as fixed.                *)
UnionAsAnnounced ==
  phase = "ready" /\ InStep =>
    \A v \in DOMAIN agg.unionReaders :
      LET i == agg.unionReaders[v]
          shape == VariableOf(readers[i], v).shape
      IN  /\ agg.vars[v].shape = shape
          /\ \A d \in DimsOf(shape) :
               /\ d \in DOMAIN agg.dims
               /\ agg.dims[d].length = readers[i].dims[d].length
               /\ agg.dims[d].unlimited = readers[i].dims[d].unlimited
                    \/ (aggType = "joinNew" /\ i = 1)

(* Every announced variable can be read in one way: from memory, from one  *)
(* reader, or joined; one joined along an existing dimension agrees with   *)
(* at least one file.                                                      *)
EveryVariableDelivered ==
  phase = "ready" /\ InStep =>
    \A v \in DOMAIN agg.vars :
      /\ agg.vars[v].memory \/ v \in agg.joinVars \cup DOMAIN agg.unionReaders
      /\ v \notin agg.joinVars \cap DOMAIN agg.unionReaders
      /\ v \in agg.joinVars /\ aggType = "joinExisting" =>
           \E i \in DOMAIN readers : CheckJoinExistingDims(readers[i], v)

(* Whatever files were added in whatever order, with dimensions of failed  *)
(* ones left behind: what the aggregation announces of its variables and   *)
(* sizes is what its reads deliver.                                        *)
DeliveredAsAnnounced == SizesAnnounced /\ UnionAsAnnounced /\ EveryVariableDelivered

(* When every file of the join comes with coordinate values, the value at  *)
(* each position is the one that was given for it.                         *)
CoordinatePerPosition ==
  phase = "ready" /\ InStep =>
    LET given == {i \in DOMAIN readers : \E k \in DOMAIN joinCoordValues : joinCoordValues[k][1] = i}
    IN  (\A i \in DOMAIN readers : shares[i].from < shares[i].upto => i \in given) =>
          /\ Len(joinCoordValues) = JoinLength
          /\ \A i \in given : \A p \in shares[i].from .. shares[i].upto - 1 :
               joinCoordValues[p + 1] = <<i, p - shares[i].from + 1>>

=============================================================================
