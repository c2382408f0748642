----------------------- MODULE AggregationReaderProofs -----------------------
(***************************************************************************)
(* For all files and orders of files, while no file was left half-added:   *)
(* the table of the ends of positions leads every joined position to the   *)
(* file it stands for, the coordinate values are at the positions they     *)
(* were given for, and what the model announces is what reads deliver.     *)
(*                                                                         *)
(* The recursive functions of the model, over the variables of a file, are *)
(* shown to exist and followed by induction; induction is over a set of    *)
(* numbers.  The invariant AggregationInv is at the end.                   *)
(***************************************************************************)
EXTENDS AggregationReader, WellFoundedInduction, TLAPS

Share == [from : Nat, upto : Nat]
EndsBefore(i) == IF i = 1 THEN 0 ELSE readerUdimPos[i - 1]

TablesTyped ==
  /\ aggType \in AggTypes
  /\ pending \in Seq(Files) /\ readers \in Seq(Files)
  /\ readerUdimPos \in Seq(Nat) /\ shares \in Seq(Share)
  /\ Len(shares) = Len(readers) /\ Len(readerUdimPos) <= Len(readers)
EndsAscend ==
  \A i, j \in DOMAIN readerUdimPos : i <= j => readerUdimPos[i] <= readerUdimPos[j]
SharesAreTheTable ==
  aggType # "union" /\ Len(readers) = Len(readerUdimPos) =>
    \A i \in DOMAIN shares :
      shares[i].from = EndsBefore(i) /\ shares[i].upto = readerUdimPos[i]
TablesInv == TablesTyped /\ EndsAscend /\ SharesAreTheTable

(* What a file adds to the join is a natural number. *)
LEMMA LengthIsNatural ==
  ASSUME NEW file \in Files
  PROVE  Length(file) \in Nat
<1>1. UnlimitedDims(file.dims) # {} => UnlimitedLength(file.dims) \in Nat
  BY DocumentsAssumption DEF UnlimitedDims, UnlimitedLength
<1>2. Takes(file) => UnlimitedDims(file.dims) # {}
  BY DEF Takes, Joins
<1> QED
  BY <1>1, <1>2 DEF Length

(* The positions end at the last end of the table. *)
LEMMA EndIsLast ==
  ASSUME TablesInv
  PROVE  /\ EndOfPositions \in Nat
         /\ EndOfPositions = EndsBefore(Len(readerUdimPos) + 1)
         /\ \A i \in DOMAIN readerUdimPos : readerUdimPos[i] <= EndOfPositions
<1>1. CASE readerUdimPos = <<>>
  BY <1>1 DEF EndOfPositions, EndsBefore
<1>2. CASE readerUdimPos # <<>>
  <2>1. Len(readerUdimPos) \in DOMAIN readerUdimPos /\ Len(readerUdimPos) \in Nat
    BY <1>2 DEF TablesInv, TablesTyped
  <2>2. EndOfPositions = readerUdimPos[Len(readerUdimPos)]
    BY <1>2 DEF EndOfPositions, Last
  <2>3. EndsBefore(Len(readerUdimPos) + 1) = readerUdimPos[Len(readerUdimPos)]
    BY <2>1 DEF EndsBefore, TablesInv, TablesTyped
  <2>4. \A i \in DOMAIN readerUdimPos : i <= Len(readerUdimPos)
    BY DEF TablesInv, TablesTyped
  <2> QED
    BY <2>1, <2>2, <2>3, <2>4 DEF TablesInv, TablesTyped, EndsAscend
<1> QED
  BY <1>1, <1>2

(* A file that is added keeps the tables. *)
LEMMA AddReaderKeepsTables ==
  ASSUME TablesInv, AddReader
  PROVE  TablesInv'
<1> DEFINE file == Head(pending)
           n == Len(readers)
           k == Len(readerUdimPos)
           added == IF Joined(file).thrown THEN 0 ELSE Length(file)
<1>1. /\ file \in Files /\ pending' \in Seq(Files)
      /\ n \in Nat /\ k \in Nat /\ k <= n /\ Len(shares) = n
      /\ readers \in Seq(Files) /\ readerUdimPos \in Seq(Nat) /\ shares \in Seq(Share)
      /\ aggType \in AggTypes
  BY DEF AddReader, TablesInv, TablesTyped
<1>2. Length(file) \in Nat /\ added \in Nat
  BY <1>1, LengthIsNatural
<1>3. Extended(file) = EndOfPositions + Length(file) /\ Extended(file) \in Nat
  BY <1>2, EndIsLast DEF Extended
<1>4. /\ readers' = Append(readers, file)
      /\ readerUdimPos' = IF Extends(file) THEN Append(readerUdimPos, Extended(file))
                                           ELSE readerUdimPos
      /\ shares' = Append(shares, [from |-> EndOfPositions, upto |-> EndOfPositions + added])
      /\ aggType' = aggType
  BY DEF AddReader
<1> HIDE DEF file, added
<1>5. TablesTyped'
  <2>1. [from |-> EndOfPositions, upto |-> EndOfPositions + added] \in Share
    BY <1>2, EndIsLast DEF Share
  <2> QED
    BY <1>1, <1>3, <1>4, <2>1 DEF TablesTyped
<1>6. EndsAscend'
  <2>1. CASE ~Extends(file)
    BY <1>4, <2>1 DEF TablesInv, EndsAscend
  <2>2. CASE Extends(file)
    <3>1. /\ DOMAIN readerUdimPos' = 1 .. k + 1
          /\ readerUdimPos'[k + 1] = Extended(file)
          /\ \A i \in 1 .. k : readerUdimPos'[i] = readerUdimPos[i]
      BY <1>1, <1>3, <1>4, <2>2
    <3>2. DOMAIN readerUdimPos = 1 .. k /\ \A i \in 1 .. k : readerUdimPos[i] \in Nat
      BY <1>1
    <3>3. \A i \in 1 .. k : readerUdimPos[i] <= Extended(file)
      BY <1>2, <1>3, <3>2, EndIsLast
    <3>4. \A i, j \in 1 .. k : i <= j => readerUdimPos[i] <= readerUdimPos[j]
      BY <3>2 DEF TablesInv, EndsAscend
    <3> SUFFICES ASSUME NEW i \in 1 .. k + 1, NEW j \in 1 .. k + 1, i <= j
                 PROVE  readerUdimPos'[i] <= readerUdimPos'[j]
      BY <3>1 DEF EndsAscend
    <3> QED
      BY <1>1, <1>3, <3>1, <3>3, <3>4
  <2> QED
    BY <2>1, <2>2
<1>7. SharesAreTheTable'
  <2> SUFFICES ASSUME aggType # "union", Len(readers') = Len(readerUdimPos'),
                      NEW i \in DOMAIN shares'
               PROVE  shares'[i].from = EndsBefore(i)' /\ shares'[i].upto = readerUdimPos'[i]
    BY <1>4 DEF SharesAreTheTable
  <2>1. Len(readers') = n + 1 /\ DOMAIN shares' = 1 .. n + 1
    BY <1>1, <1>4
  <2>2. Extends(file) /\ k = n
    BY <1>1, <1>3, <1>4, <2>1
  <2>3. /\ readerUdimPos'[n + 1] = Extended(file)
        /\ \A j \in 1 .. n : readerUdimPos'[j] = readerUdimPos[j] /\ shares'[j] = shares[j]
        /\ shares'[n + 1] = [from |-> EndOfPositions, upto |-> EndOfPositions + added]
    BY <1>1, <1>3, <1>4, <2>2
  <2>4. CASE i = n + 1
    <3>1. added = Length(file)
      BY <2>2 DEF added, Extends
    <3>2. EndOfPositions = EndsBefore(i)
      BY <2>2, <2>4, EndIsLast
    <3>3. EndsBefore(i)' = EndsBefore(i)
      BY <1>1, <2>3, <2>4 DEF EndsBefore
    <3>4. i \in Nat /\ shares'[i] = [from |-> EndOfPositions, upto |-> Extended(file)]
      BY <1>1, <1>3, <2>3, <2>4, <3>1
    <3> QED
      BY <2>3, <2>4, <3>2, <3>3, <3>4
  <2>5. CASE i # n + 1
    <3>1. i \in 1 .. n
      BY <1>1, <2>1, <2>5
    <3>2. EndsBefore(i)' = EndsBefore(i)
      BY <1>1, <2>3, <3>1, SMTT(30) DEF EndsBefore
    <3>3. shares[i].from = EndsBefore(i) /\ shares[i].upto = readerUdimPos[i]
      BY <1>1, <2>2, <3>1 DEF TablesInv, SharesAreTheTable
    <3> QED
      BY <2>3, <3>1, <3>2, <3>3
  <2> QED
    BY <2>4, <2>5
<1> QED
  BY <1>5, <1>6, <1>7 DEF TablesInv

(* The tables of positions and readers. *)
LEMMA TablesAlways == Spec => []TablesInv
<1>1. Init => TablesInv
  BY DocumentsAssumption
  DEF Init, TablesInv, TablesTyped, EndsAscend, SharesAreTheTable
<1>2. ASSUME TablesInv, [Next]_vars PROVE TablesInv'
  <2>1. CASE AddReader
    BY <1>2, <2>1, AddReaderKeepsTables
  <2>2. CASE UNCHANGED <<aggType, pending, readers, readerUdimPos, shares>>
    BY <1>2, <2>2
    DEF TablesInv, TablesTyped, EndsAscend, SharesAreTheTable, EndsBefore
  <2> QED
    BY <1>2, <2>1, <2>2 DEF Next, GiveUp, InitAggregation, vars
<1> QED
  BY <1>1, <1>2, PTL DEF Spec

(* findJoinReader finds the file a position stands for. *)
LEMMA FindsItsFile ==
  ASSUME TablesInv, InStep, aggType # "union",
         NEW i \in DOMAIN readers, NEW p \in shares[i].from .. shares[i].upto - 1
  PROVE  /\ FindJoinReader(p) = i
         /\ PositionIn(i, p) = p - shares[i].from
<1> DEFINE behind == {j \in DOMAIN readerUdimPos : p < readerUdimPos[j]}
<1>1. /\ DOMAIN readerUdimPos = 1 .. Len(readers) /\ DOMAIN shares = 1 .. Len(readers)
      /\ Len(readers) \in Nat /\ i \in 1 .. Len(readers)
      /\ \A j \in 1 .. Len(readers) : readerUdimPos[j] \in Nat
      /\ shares[i] \in Share
  BY DEF TablesInv, TablesTyped, InStep
<1>2. shares[i].from = EndsBefore(i) /\ shares[i].upto = readerUdimPos[i]
  BY <1>1 DEF TablesInv, SharesAreTheTable, InStep
<1>3. p \in Nat /\ p < readerUdimPos[i] /\ EndsBefore(i) <= p
  BY <1>1, <1>2 DEF Share
<1>4. \A j \in 1 .. Len(readers) : j < i => readerUdimPos[j] <= EndsBefore(i)
  BY <1>1 DEF TablesInv, EndsAscend, EndsBefore
<1>5. \A j \in behind : i <= j
  <2> SUFFICES ASSUME NEW j \in behind, j < i PROVE FALSE
    BY <1>1
  <2>1. readerUdimPos[j] <= EndsBefore(i) /\ p < readerUdimPos[j]
    BY <1>1, <1>4
  <2>2. EndsBefore(i) \in Nat /\ readerUdimPos[j] \in Nat
    BY <1>1, <1>2 DEF Share
  <2> QED
    BY <1>3, <2>1, <2>2
<1>6. i \in behind
  BY <1>1, <1>3
<1>7. Min(behind) = i
  BY <1>1, <1>5, <1>6 DEF Min
<1>8. FindJoinReader(p) = i
  BY <1>6, <1>7 DEF FindJoinReader
<1>9. PositionIn(i, p) = p - shares[i].from
  BY <1>1, <1>2, <1>3 DEF PositionIn, EndsBefore
<1> QED
  BY <1>8, <1>9

(* Every joined position is read from the file it stands for, at its place  *)
(* there, by both ways to read, as long as no file was left half-added.     *)
THEOREM ReadsComeFromTheirFile == Spec => []WholeFilesJoined
<1>1. ASSUME TablesInv PROVE WholeFilesJoined
  <2> SUFFICES ASSUME InStep, aggType # "union",
                      NEW v \in JoinedVariables, NEW i \in DOMAIN readers,
                      NEW p \in shares[i].from .. shares[i].upto - 1
               PROVE  LET found == ReadPosition(v, p)
                          at == IF aggType = "joinNew" THEN 0 ELSE p - shares[i].from
                      IN  /\ ReadSelected(v, p) = [file |-> found.file, at |-> found.at]
                          /\ IF CheckDims(readers[i], v) THEN found.file = i /\ found.at = at
                                                         ELSE found.file = 0
    BY DEF WholeFilesJoined, FromItsFile
  <2>1. FindJoinReader(p) = i /\ PositionIn(i, p) = p - shares[i].from
    BY <1>1, FindsItsFile
  <2>2. CASE CheckDims(readers[i], v)
    <3>1. aggType \in {"joinExisting", "joinNew"}
      BY <1>1, AggTypesAssumption DEF TablesInv, TablesTyped
    <3> QED
      BY <2>1, <2>2, <3>1 DEF ReadPosition, ReadSelected, CheckDims
  <2>3. CASE ~CheckDims(readers[i], v)
    BY <2>1, <2>3 DEF ReadPosition, ReadSelected, CheckDims
  <2> QED
    BY <2>2, <2>3
<1> QED
  BY <1>1, TablesAlways, PTL

-----------------------------------------------------------------------------
(* What the operators of the model do to a data model.                     *)

(* Every set of natural numbers has a least. *)
LEMMA LeastNatural ==
  ASSUME NEW S, S \subseteq Nat, S # {}
  PROVE  \E m \in S : \A n \in S : m <= n
<1>1. IsWellFoundedOn(OpToRel(<, Nat), Nat)
  BY NatLessThanWellFounded
<1>2. PICK m \in S : \A n \in S : ~ (<<n, m>> \in OpToRel(<, Nat))
  BY <1>1, WFMin
<1>3. \A n \in S : ~ (n < m)
  BY <1>2 DEF OpToRel
<1> QED
  BY <1>3

(* Induction, over a set of numbers. *)
LEMMA Induction ==
  ASSUME NEW S, 0 \in S, \A n \in Nat : n \in S => n + 1 \in S
  PROVE  Nat \subseteq S
<1> SUFFICES ASSUME Nat \ S # {} PROVE FALSE
  OBVIOUS
<1>1. PICK m \in Nat \ S : \A n \in Nat \ S : m <= n
  BY LeastNatural
<1>2. m # 0 /\ m - 1 \in Nat
  BY <1>1
<1>3. m - 1 \in S
  BY <1>1, <1>2
<1> QED
  BY <1>1, <1>2, <1>3


Fields(a) ==
  a = [dims |-> a.dims, vars |-> a.vars, unionReaders |-> a.unionReaders,
       thrown |-> a.thrown, joinVars |-> a.joinVars]
Dimension == [length : Nat, unlimited : BOOLEAN]
IsModel(a) ==
  /\ Fields(a)
  /\ \A d \in DOMAIN a.dims : a.dims[d] \in Dimension
  /\ \A v \in DOMAIN a.vars : a.vars[v] = [shape |-> a.vars[v].shape, memory |-> a.vars[v].memory]

(* What is known of a variable of a file. *)
LEMMA FileFacts ==
  ASSUME NEW file \in Files
  PROVE  /\ \A d \in DOMAIN file.dims : file.dims[d] \in Dimension
         /\ Len(file.vars) \in Nat /\ DOMAIN file.vars = 1 .. Len(file.vars)
         /\ \A k \in 1 .. Len(file.vars) :
              LET v == file.vars[k]
              IN  /\ v = [name |-> v.name, shape |-> v.shape, memory |-> v.memory]
                  /\ v.shape \in Seq(DOMAIN file.dims) /\ DimsOf(v.shape) \subseteq DOMAIN file.dims
                  /\ HasVariable(file, v.name) /\ VariableOf(file, v.name) = v
         /\ \A c, d \in UnlimitedDims(file.dims) : c = d
         /\ UnlimitedDims(file.dims) \subseteq DOMAIN file.dims
         /\ file.coords \in Nat /\ file.scanned \in BOOLEAN
<1> DEFINE names == {file.vars[i].name : i \in DOMAIN file.vars}
           Vs == [name : names, shape : Seq(DOMAIN file.dims), memory : BOOLEAN]
<1>1. /\ \A d \in DOMAIN file.dims : file.dims[d] \in Dimension
      /\ file.vars \in Seq(Vs)
      /\ \A i, j \in DOMAIN file.vars : file.vars[i].name = file.vars[j].name => i = j
      /\ \A c, d \in DOMAIN file.dims : file.dims[c].unlimited /\ file.dims[d].unlimited => c = d
      /\ file.coords \in Nat /\ file.scanned \in BOOLEAN
  BY DocumentsAssumption DEF Dimension
<1>2. Len(file.vars) \in Nat /\ DOMAIN file.vars = 1 .. Len(file.vars)
  BY <1>1
<1>3. ASSUME NEW k \in 1 .. Len(file.vars)
      PROVE  LET v == file.vars[k]
             IN  /\ v = [name |-> v.name, shape |-> v.shape, memory |-> v.memory]
                 /\ v.shape \in Seq(DOMAIN file.dims) /\ DimsOf(v.shape) \subseteq DOMAIN file.dims
                 /\ HasVariable(file, v.name) /\ VariableOf(file, v.name) = v
  <2> DEFINE v == file.vars[k]
  <2>1. v \in Vs
    <3> HIDE DEF Vs
    <3> QED
      BY <1>1, <1>2
  <2>2. v = [name |-> v.name, shape |-> v.shape, memory |-> v.memory] /\ v.shape \in Seq(DOMAIN file.dims)
    BY <2>1
  <2>3. DimsOf(v.shape) \subseteq DOMAIN file.dims
    <3> HIDE DEF v
    <3> QED
      BY <2>2 DEF DimsOf
  <2>4. HasVariable(file, v.name)
    BY <1>2 DEF HasVariable
  <2>5. \A i \in DOMAIN file.vars : file.vars[i].name = v.name => i = k
    BY <1>1, <1>2
  <2>6. VariableOf(file, v.name) = v
    BY <1>2, <2>5 DEF VariableOf
  <2> QED
    BY <2>2, <2>3, <2>4, <2>6
<1>4. /\ \A c, d \in UnlimitedDims(file.dims) : c = d
      /\ UnlimitedDims(file.dims) \subseteq DOMAIN file.dims
  BY <1>1 DEF UnlimitedDims
<1> QED
  BY <1>1, <1>2, <1>3, <1>4

(* The model with one of its parts changed. *)
LEMMA ChangedPart ==
  ASSUME NEW a, Fields(a), NEW x
  PROVE  /\ [a EXCEPT !.dims = x] = [dims |-> x, vars |-> a.vars, unionReaders |-> a.unionReaders, thrown |-> a.thrown, joinVars |-> a.joinVars]
         /\ [a EXCEPT !.vars = x] = [dims |-> a.dims, vars |-> x, unionReaders |-> a.unionReaders, thrown |-> a.thrown, joinVars |-> a.joinVars]
         /\ [a EXCEPT !.unionReaders = x] = [dims |-> a.dims, vars |-> a.vars, unionReaders |-> x, thrown |-> a.thrown, joinVars |-> a.joinVars]
         /\ [a EXCEPT !.thrown = x] = [dims |-> a.dims, vars |-> a.vars, unionReaders |-> a.unionReaders, thrown |-> x, joinVars |-> a.joinVars]
         /\ [a EXCEPT !.joinVars = x] = [dims |-> a.dims, vars |-> a.vars, unionReaders |-> a.unionReaders, thrown |-> a.thrown, joinVars |-> x]
  BY DEF Fields

(* Nothing of a is lost or changed in b. *)
Grown(a, b) ==
  /\ DOMAIN a.dims \subseteq DOMAIN b.dims /\ \A d \in DOMAIN a.dims : b.dims[d] = a.dims[d]
  /\ DOMAIN a.vars \subseteq DOMAIN b.vars /\ \A v \in DOMAIN a.vars : b.vars[v] = a.vars[v]
  /\ DOMAIN a.unionReaders \subseteq DOMAIN b.unionReaders
  /\ \A v \in DOMAIN a.unionReaders : b.unionReaders[v] = a.unionReaders[v]
  /\ a.joinVars \subseteq b.joinVars

(* Growing is transitive. *)
LEMMA GrownOn ==
  ASSUME NEW a, NEW b, NEW c, Grown(a, b), Grown(b, c)
  PROVE  Grown(a, c)
  BY DEF Grown

(* Dimensions of a file that are added. *)
LEMMA DimsAdded ==
  ASSUME NEW file \in Files, NEW a, IsModel(a), NEW names, names \subseteq DOMAIN file.dims
  PROVE  LET b == WithDims(a, file, names)
         IN  /\ IsModel(b) /\ Grown(a, b)
             /\ b.vars = a.vars /\ b.unionReaders = a.unionReaders /\ b.thrown = a.thrown /\ b.joinVars = a.joinVars
             /\ DOMAIN b.dims = DOMAIN a.dims \cup names
             /\ \A d \in names \ DOMAIN a.dims : b.dims[d] = file.dims[d]
<1> DEFINE added == [d \in names |-> file.dims[d]]
           dims == Added(a.dims, added)
           b == WithDims(a, file, names)
<1>1. b = [dims |-> dims, vars |-> a.vars, unionReaders |-> a.unionReaders, thrown |-> a.thrown, joinVars |-> a.joinVars]
  BY ChangedPart DEF WithDims, IsModel
<1>2. DOMAIN added = names /\ \A d \in names : added[d] = file.dims[d]
  OBVIOUS
<1> HIDE DEF added
<1>3. /\ DOMAIN dims = DOMAIN a.dims \cup names
      /\ \A d \in DOMAIN a.dims : dims[d] = a.dims[d]
      /\ \A d \in names \ DOMAIN a.dims : dims[d] = file.dims[d]
  BY <1>2 DEF Added
<1> HIDE DEF dims, b
<1>4. b.dims = dims /\ b.vars = a.vars /\ b.unionReaders = a.unionReaders /\ b.thrown = a.thrown /\ b.joinVars = a.joinVars
  BY <1>1
<1>5. IsModel(b)
  BY <1>1, <1>3, <1>4, FileFacts DEF IsModel, Fields
<1>6. Grown(a, b)
  BY <1>3, <1>4 DEF Grown
<1> QED
  BY <1>3, <1>4, <1>5, <1>6 DEF b

(* A variable that is added. *)
LEMMA VariableAdded ==
  ASSUME NEW a, IsModel(a), NEW v, v.name \notin DOMAIN a.vars
  PROVE  LET b == WithVariable(a, v)
         IN  /\ IsModel(b) /\ Grown(a, b)
             /\ b.dims = a.dims /\ b.unionReaders = a.unionReaders /\ b.thrown = a.thrown /\ b.joinVars = a.joinVars
             /\ DOMAIN b.vars = DOMAIN a.vars \cup {v.name}
             /\ b.vars[v.name] = [shape |-> v.shape, memory |-> v.memory]
<1> DEFINE added == [n \in {v.name} |-> [shape |-> v.shape, memory |-> v.memory]]
           known == Added(a.vars, added)
           b == WithVariable(a, v)
<1>1. b = [dims |-> a.dims, vars |-> known, unionReaders |-> a.unionReaders, thrown |-> a.thrown, joinVars |-> a.joinVars]
  BY ChangedPart DEF WithVariable, IsModel
<1>2. DOMAIN added = {v.name} /\ added[v.name] = [shape |-> v.shape, memory |-> v.memory]
  OBVIOUS
<1> HIDE DEF added
<1>3. /\ DOMAIN known = DOMAIN a.vars \cup {v.name}
      /\ \A n \in DOMAIN a.vars : known[n] = a.vars[n]
      /\ known[v.name] = [shape |-> v.shape, memory |-> v.memory]
  BY <1>2 DEF Added
<1> HIDE DEF known, b
<1>4. b.vars = known /\ b.dims = a.dims /\ b.unionReaders = a.unionReaders /\ b.thrown = a.thrown /\ b.joinVars = a.joinVars
  BY <1>1
<1>5. IsModel(b)
  BY <1>1, <1>3, <1>4 DEF IsModel, Fields
<1>6. Grown(a, b)
  BY <1>3, <1>4 DEF Grown
<1> QED
  BY <1>3, <1>4, <1>5, <1>6 DEF b

-----------------------------------------------------------------------------
(* The variable v of the model is as the file has it, but for the unlimited  *)
(* dimension.                                                                *)
Agrees(file, a, v) ==
  /\ HasVariable(file, v) /\ VariableOf(file, v).shape = a.vars[v].shape
  /\ \A d \in DimsOf(a.vars[v].shape) \ UnlimitedDims(file.dims) :
       d \in DOMAIN a.dims /\ a.dims[d].length = file.dims[d].length

(* A variable of the file that has its unlimited dimension is known, or      *)
(* differs in a length.                                                      *)
Handled(file, a, v) ==
  HasUnlimitedDim(file.dims, v.shape) =>
    \/ v.name \in DOMAIN a.vars
    \/ \E d \in (DimsOf(v.shape) \ UnlimitedDims(file.dims)) \cap DOMAIN a.dims :
         a.dims[d].length # file.dims[d].length

(* What joining the first k variables of a file has made of the model a0. *)
JoinStep(file, a0, a, k) ==
  /\ IsModel(a) /\ a.thrown = a0.thrown /\ Grown(a0, a)
  /\ a.unionReaders = a0.unionReaders
  /\ UnlimitedDims(a.dims) = UnlimitedDims(a0.dims)
  /\ \A v \in DOMAIN a.vars \ DOMAIN a0.vars : v \in a.joinVars /\ Agrees(file, a, v)
  /\ \A v \in a.joinVars \ a0.joinVars : v \in DOMAIN a.vars \ DOMAIN a0.vars
  /\ \A j \in 1 .. k : Handled(file, a, file.vars[j])

(* A variable that agrees goes on agreeing, ... *)
LEMMA AgreesWhenGrown ==
  ASSUME NEW file, NEW a, NEW b, Grown(a, b), NEW v \in DOMAIN a.vars, Agrees(file, a, v)
  PROVE  Agrees(file, b, v)
  BY DEF Agrees, Grown

(* ... and one that was handled stays so. *)
LEMMA HandledWhenGrown ==
  ASSUME NEW file, NEW a, NEW b, Grown(a, b), NEW v, Handled(file, a, v)
  PROVE  Handled(file, b, v)
  BY DEF Handled, Grown

(* Dimensions of a file that are added, none of them unlimited there. *)
LEMMA FixedDimsAdded ==
  ASSUME NEW file \in Files, NEW a, IsModel(a), NEW names, names \subseteq DOMAIN file.dims,
         names \cap UnlimitedDims(file.dims) = {}
  PROVE  UnlimitedDims(WithDims(a, file, names).dims) = UnlimitedDims(a.dims)
<1> DEFINE b == WithDims(a, file, names)
<1>1. /\ DOMAIN b.dims = DOMAIN a.dims \cup names /\ \A d \in DOMAIN a.dims : b.dims[d] = a.dims[d]
      /\ \A d \in names \ DOMAIN a.dims : b.dims[d] = file.dims[d]
  BY DimsAdded DEF Grown
<1>2. \A d \in names : ~file.dims[d].unlimited
  BY DEF UnlimitedDims
<1> HIDE DEF b
<1>3. UnlimitedDims(b.dims) = UnlimitedDims(a.dims)
  BY <1>1, <1>2 DEF UnlimitedDims
<1> QED
  BY <1>3 DEF b

(* One variable of a file is joined along the unlimited dimension. *)
LEMMA JoinVariableStep ==
  ASSUME NEW file \in Files, NEW a0, NEW a, NEW k \in Nat, k + 1 \in 1 .. Len(file.vars), JoinStep(file, a0, a, k)
  PROVE  JoinStep(file, a0, JoinVariable(file, a, file.vars[k + 1]), k + 1)
<1> DEFINE v == file.vars[k + 1]
           c == JoinVariable(file, a, v)
           others == DimsOf(v.shape) \ UnlimitedDims(file.dims)
           known == others \cap DOMAIN a.dims
           b == WithDims(a, file, others \ known)
<1>1. /\ v.shape \in Seq(DOMAIN file.dims) /\ DimsOf(v.shape) \subseteq DOMAIN file.dims
      /\ v = [name |-> v.name, shape |-> v.shape, memory |-> v.memory]
      /\ HasVariable(file, v.name) /\ VariableOf(file, v.name) = v
  BY FileFacts
<1> HIDE DEF v
<1>2. /\ IsModel(b) /\ Grown(a, b)
      /\ b.vars = a.vars /\ b.unionReaders = a.unionReaders /\ b.thrown = a.thrown /\ b.joinVars = a.joinVars
      /\ DOMAIN b.dims = DOMAIN a.dims \cup others
      /\ \A d \in others \ known : b.dims[d] = file.dims[d]
      /\ UnlimitedDims(b.dims) = UnlimitedDims(a.dims)
  <2>1. others \ known \subseteq DOMAIN file.dims /\ (others \ known) \cap UnlimitedDims(file.dims) = {}
        /\ (others \ known) \ DOMAIN a.dims = others \ known /\ DOMAIN a.dims \cup (others \ known) = DOMAIN a.dims \cup others
    BY <1>1
  <2>2. IsModel(a)
    BY DEF JoinStep
  <2> HIDE DEF others, known
  <2> QED
    BY <2>1, <2>2, DimsAdded, FixedDimsAdded
<1>3. CASE v.name \in DOMAIN a.vars \/ ~HasUnlimitedDim(file.dims, v.shape)
  <2>1. c = a
    BY <1>3 DEF JoinVariable
  <2>2. Handled(file, a, v)
    BY <1>3 DEF Handled
  <2>3. \A j \in 1 .. k + 1 : Handled(file, a, file.vars[j])
    BY <2>2 DEF JoinStep, v
  <2> QED
    BY <2>1, <2>3 DEF JoinStep, v
<1>4. CASE /\ ~(v.name \in DOMAIN a.vars \/ ~HasUnlimitedDim(file.dims, v.shape))
           /\ \E d \in known : a.dims[d].length # file.dims[d].length
  <2>1. c = b
    BY <1>4 DEF JoinVariable
  <2>2. Handled(file, b, v)
    BY <1>2, <1>4 DEF Handled, Grown
  <2>3. \A j \in 1 .. k + 1 : Handled(file, b, file.vars[j])
    BY <1>2, <2>2, HandledWhenGrown DEF JoinStep, v
  <2>4. \A w \in DOMAIN b.vars \ DOMAIN a0.vars : w \in b.joinVars /\ Agrees(file, b, w)
    BY <1>2, AgreesWhenGrown DEF JoinStep
  <2> HIDE DEF b
  <2>5. Grown(a0, b)
    BY <1>2, GrownOn DEF JoinStep
  <2> QED
    BY <1>2, <2>1, <2>3, <2>4, <2>5 DEF JoinStep, v
<1>5. CASE /\ ~(v.name \in DOMAIN a.vars \/ ~HasUnlimitedDim(file.dims, v.shape))
           /\ \A d \in known : a.dims[d].length = file.dims[d].length
  <2> DEFINE w == [v EXCEPT !.memory = FALSE]
             e == WithVariable(b, w)
  <2>1. c = [e EXCEPT !.joinVars = @ \cup {v.name}]
    BY <1>5 DEF JoinVariable
  <2>2. w.name = v.name /\ w.shape = v.shape
    BY <1>1
  <2> HIDE DEF w, b
  <2>3. /\ IsModel(e) /\ Grown(b, e)
        /\ e.dims = b.dims /\ e.unionReaders = b.unionReaders /\ e.thrown = b.thrown /\ e.joinVars = b.joinVars
        /\ DOMAIN e.vars = DOMAIN b.vars \cup {v.name}
        /\ e.vars[v.name] = [shape |-> v.shape, memory |-> w.memory]
    BY <1>2, <1>5, <2>2, VariableAdded
  <2> HIDE DEF e
  <2>4. /\ c = [dims |-> e.dims, vars |-> e.vars, unionReaders |-> e.unionReaders, thrown |-> e.thrown, joinVars |-> e.joinVars \cup {v.name}]
    BY <2>1, <2>3, ChangedPart DEF IsModel
  <2> HIDE DEF c
  <2>5. IsModel(c) /\ Grown(a, c) /\ c.thrown = a.thrown /\ c.unionReaders = a.unionReaders
    <3>1. IsModel(c)
      BY <2>3, <2>4 DEF IsModel, Fields
    <3>2. Grown(e, c)
      BY <2>4 DEF Grown
    <3>3. Grown(a, c)
      BY <1>2, <2>3, <3>2, GrownOn
    <3> QED
      BY <1>2, <2>3, <2>4, <3>1, <3>3
  <2>6. UnlimitedDims(c.dims) = UnlimitedDims(a.dims) /\ c.joinVars = a.joinVars \cup {v.name} /\ DOMAIN c.vars = DOMAIN a.vars \cup {v.name}
    BY <1>2, <2>3, <2>4
  <2>7. Agrees(file, c, v.name)
    <3>1. c.vars[v.name].shape = v.shape
      BY <2>3, <2>4
    <3>2. \A d \in others : d \in DOMAIN c.dims /\ c.dims[d].length = file.dims[d].length
      BY <1>2, <1>5, <2>3, <2>4 DEF Grown
    <3> QED
      BY <1>1, <3>1, <3>2 DEF Agrees
  <2>8. Grown(a0, c)
    BY <2>5, GrownOn DEF JoinStep
  <2>9. \A j \in 1 .. k + 1 : Handled(file, c, file.vars[j])
    <3>1. Handled(file, c, v)
      BY <2>6 DEF Handled
    <3> QED
      BY <2>5, <3>1, HandledWhenGrown DEF JoinStep, v
  <2>10. \A x \in DOMAIN c.vars \ DOMAIN a0.vars : x \in c.joinVars /\ Agrees(file, c, x)
    BY <2>5, <2>6, <2>7, AgreesWhenGrown DEF JoinStep
  <2>11. v.name \notin DOMAIN a0.vars
    BY <1>5 DEF JoinStep, Grown
  <2> QED
    BY <2>5, <2>6, <2>8, <2>9, <2>10, <2>11 DEF JoinStep, c, v
<1> QED
  BY <1>3, <1>4, <1>5 DEF v

-----------------------------------------------------------------------------
(* The model after k variables of a file, as the function of JoinVariables. *)
LEMMA JoinedVariablesExist ==
  ASSUME NEW file, NEW a, NEW n \in Nat
  PROVE  \E f : f = [k \in 0 .. n |-> IF k = 0 THEN a ELSE JoinVariable(file, f[k - 1], file.vars[k])]
<1> DEFINE Is(f, m) == f = [k \in 0 .. m |-> IF k = 0 THEN a ELSE JoinVariable(file, f[k - 1], file.vars[k])]
           S == {m \in Nat : \E f : Is(f, m)}
<1>1. 0 \in S
  <2>1. Is([k \in 0 .. 0 |-> a], 0)
    OBVIOUS
  <2> QED
    BY <2>1
<1>2. ASSUME NEW m \in Nat, m \in S PROVE m + 1 \in S
  <2>1. PICK f : Is(f, m)
    BY <1>2
  <2> DEFINE g == [k \in 0 .. m + 1 |-> IF k <= m THEN f[k] ELSE JoinVariable(file, f[m], file.vars[m + 1])]
  <2>2. \A k \in 0 .. m : f[k] = IF k = 0 THEN a ELSE JoinVariable(file, f[k - 1], file.vars[k])
    BY <2>1
  <2>3. \A k \in 0 .. m : g[k] = f[k]
    OBVIOUS
  <2>4. g[m + 1] = JoinVariable(file, f[m], file.vars[m + 1])
    OBVIOUS
  <2>5. ASSUME NEW k \in 0 .. m + 1
        PROVE  g[k] = IF k = 0 THEN a ELSE JoinVariable(file, g[k - 1], file.vars[k])
    <3>1. CASE k = m + 1
      <4>1. k - 1 = m /\ k # 0 /\ g[m] = f[m]
        BY <2>3, <3>1
      <4> HIDE DEF g
      <4> QED
        BY <2>4, <3>1, <4>1
    <3>2. CASE k # m + 1
      <4>1. k \in 0 .. m /\ (k # 0 => k - 1 \in 0 .. m)
        BY <3>2
      <4> HIDE DEF g
      <4> QED
        BY <2>2, <2>3, <4>1
    <3> QED
      BY <3>1, <3>2
  <2>6. g = [k \in 0 .. m + 1 |-> g[k]]
    OBVIOUS
  <2> HIDE DEF g
  <2>7. Is(g, m + 1)
    BY <2>5, <2>6
  <2> QED
    BY <2>7
<1> HIDE DEF S
<1>3. n \in S
  BY <1>1, <1>2, Induction
<1> QED
  BY <1>3 DEF S

(* All variables of a file are, one after the other. *)
LEMMA VariablesJoined ==
  ASSUME NEW file \in Files, NEW a0, IsModel(a0)
  PROVE  JoinStep(file, a0, JoinVariables(file, a0), Len(file.vars))
<1> DEFINE n == Len(file.vars)
           E(f) == f = [k \in 0 .. n |-> IF k = 0 THEN a0 ELSE JoinVariable(file, f[k - 1], file.vars[k])]
           joined == CHOOSE f : E(f)
           S == {k \in Nat : k <= n => JoinStep(file, a0, joined[k], k)}
<1>1. n \in Nat
  BY FileFacts
<1>2. E(joined)
  BY <1>1, JoinedVariablesExist
<1>3. JoinVariables(file, a0) = joined[n]
  BY DEF JoinVariables
<1> HIDE DEF joined
<1>4. joined[0] = a0 /\ \A k \in 0 .. n - 1 : joined[k + 1] = JoinVariable(file, joined[k], file.vars[k + 1])
  <2>1. \A k \in 0 .. n : joined[k] = IF k = 0 THEN a0 ELSE JoinVariable(file, joined[k - 1], file.vars[k])
    BY <1>2
  <2>2. \A k \in 0 .. n - 1 : k + 1 \in 0 .. n /\ k + 1 # 0 /\ (k + 1) - 1 = k
    BY <1>1
  <2>3. 0 \in 0 .. n
    BY <1>1
  <2> QED
    BY <2>1, <2>2, <2>3
<1>5. 0 \in S
  <2>1. JoinStep(file, a0, a0, 0)
    BY DEF JoinStep, Grown
  <2> QED
    BY <1>4, <2>1
<1>6. ASSUME NEW k \in Nat, k \in S PROVE k + 1 \in S
  <2> SUFFICES ASSUME k + 1 <= n PROVE JoinStep(file, a0, joined[k + 1], k + 1)
    OBVIOUS
  <2>1. JoinStep(file, a0, joined[k], k) /\ k \in 0 .. n - 1 /\ k + 1 \in 1 .. n
    BY <1>1, <1>6
  <2> QED
    BY <1>4, <2>1, JoinVariableStep
<1> HIDE DEF S
<1>7. n \in S
  BY <1>1, <1>5, <1>6, Induction
<1> QED
  BY <1>1, <1>3, <1>7 DEF S

-----------------------------------------------------------------------------
(* No variable of a file has a dimension with the name of the new one. *)
NewDimIsNew == \A f \in Files : \A i \in DOMAIN f.vars : JoinNewDim \notin DimsOf(f.vars[i].shape)

(* The shape of a variable of a file, with the new dimension behind. *)
Lengthened(shape) ==
  \E s : /\ s \in Seq(DimsOf(s)) /\ shape = Append(s, JoinNewDim)
         /\ NewDimIsNew => JoinNewDim \notin DimsOf(s)

(* What variables of a file have made of the model a0 with joinNew. *)
NewStep(a0, a) ==
  /\ IsModel(a) /\ a.thrown = a0.thrown /\ Grown(a0, a)
  /\ a.dims = a0.dims /\ a.unionReaders = a0.unionReaders /\ a.joinVars = a0.joinVars
  /\ \A v \in DOMAIN a.vars \ DOMAIN a0.vars : v \in a.joinVars /\ Lengthened(a.vars[v].shape)

(* Every variable of a file can be given the new dimension. *)
LEMMA ShapesLengthen ==
  ASSUME NEW file \in Files, NEW k \in 1 .. Len(file.vars)
  PROVE  Lengthened(Append(file.vars[k].shape, JoinNewDim))
<1> DEFINE s == file.vars[k].shape
<1>1. s \in Seq(DOMAIN file.dims) /\ k \in DOMAIN file.vars
  BY FileFacts
<1>2. NewDimIsNew => JoinNewDim \notin DimsOf(s)
  BY <1>1 DEF NewDimIsNew
<1> HIDE DEF s
<1>3. s \in Seq(DimsOf(s))
  BY <1>1 DEF DimsOf
<1>4. Lengthened(Append(s, JoinNewDim))
  BY <1>2, <1>3 DEF Lengthened
<1> QED
  BY <1>4 DEF s

(* One variable of a file is joined along the new dimension. *)
LEMMA NewVariableStep ==
  ASSUME NEW file \in Files, NEW a0, NEW a, NEW k \in 1 .. Len(file.vars), NewStep(a0, a)
  PROVE  NewStep(a0, NewVariable(a, file.vars[k]))
<1> DEFINE v == file.vars[k]
           w == [v EXCEPT !.shape = Append(@, JoinNewDim)]
           b == WithVariable(a, w)
           c == NewVariable(a, v)
<1>1. CASE v.name \in DOMAIN a.vars \/ v.name \notin a.joinVars
  BY <1>1 DEF NewVariable
<1>2. CASE ~(v.name \in DOMAIN a.vars \/ v.name \notin a.joinVars)
  <2>1. c = b
    BY <1>2 DEF NewVariable
  <2>2. v = [name |-> v.name, shape |-> v.shape, memory |-> v.memory] /\ Lengthened(Append(v.shape, JoinNewDim))
    BY FileFacts, ShapesLengthen
  <2> HIDE DEF v
  <2>3. w.name = v.name /\ w.shape = Append(v.shape, JoinNewDim)
    BY <2>2
  <2> HIDE DEF w
  <2>4. /\ IsModel(b) /\ Grown(a, b)
        /\ b.dims = a.dims /\ b.unionReaders = a.unionReaders /\ b.thrown = a.thrown /\ b.joinVars = a.joinVars
        /\ DOMAIN b.vars = DOMAIN a.vars \cup {v.name}
        /\ b.vars[v.name].shape = w.shape
    <3>1. IsModel(a) /\ w.name \notin DOMAIN a.vars
      BY <1>2, <2>3 DEF NewStep
    <3>2. /\ IsModel(b) /\ Grown(a, b)
          /\ b.dims = a.dims /\ b.unionReaders = a.unionReaders /\ b.thrown = a.thrown /\ b.joinVars = a.joinVars
          /\ DOMAIN b.vars = DOMAIN a.vars \cup {w.name}
          /\ b.vars[w.name] = [shape |-> w.shape, memory |-> w.memory]
      BY <3>1, VariableAdded
    <3> HIDE DEF b
    <3> QED
      BY <3>2, <2>3
  <2> HIDE DEF b
  <2>5. Grown(a0, b)
    BY <2>4, GrownOn DEF NewStep
  <2>6. \A x \in DOMAIN a.vars : b.vars[x] = a.vars[x]
    BY <2>4 DEF Grown
  <2>7. \A x \in DOMAIN b.vars \ DOMAIN a0.vars : x \in b.joinVars /\ Lengthened(b.vars[x].shape)
    <3> SUFFICES ASSUME NEW x \in DOMAIN b.vars \ DOMAIN a0.vars PROVE x \in b.joinVars /\ Lengthened(b.vars[x].shape)
      OBVIOUS
    <3>1. CASE x \in DOMAIN a.vars
      BY <2>4, <2>6, <3>1 DEF NewStep
    <3>2. CASE x = v.name
      BY <1>2, <2>2, <2>3, <2>4, <3>2
    <3> QED
      BY <2>4, <3>1, <3>2
  <2>8. NewStep(a0, b)
    BY <2>4, <2>5, <2>7 DEF NewStep
  <2> QED
    BY <2>1, <2>8 DEF v
<1> QED
  BY <1>1, <1>2

(* The model after k variables of a file, as the function of OtherJoinNew. *)
LEMMA NewVariablesExist ==
  ASSUME NEW file, NEW a, NEW n \in Nat
  PROVE  \E f : f = [k \in 0 .. n |-> IF k = 0 THEN a ELSE NewVariable(f[k - 1], file.vars[k])]
<1> DEFINE Is(f, m) == f = [k \in 0 .. m |-> IF k = 0 THEN a ELSE NewVariable(f[k - 1], file.vars[k])]
           S == {m \in Nat : \E f : Is(f, m)}
<1>1. 0 \in S
  <2>1. Is([k \in 0 .. 0 |-> a], 0)
    OBVIOUS
  <2> QED
    BY <2>1
<1>2. ASSUME NEW m \in Nat, m \in S PROVE m + 1 \in S
  <2>1. PICK f : Is(f, m)
    BY <1>2
  <2> DEFINE g == [k \in 0 .. m + 1 |-> IF k <= m THEN f[k] ELSE NewVariable(f[m], file.vars[m + 1])]
  <2>2. \A k \in 0 .. m : f[k] = IF k = 0 THEN a ELSE NewVariable(f[k - 1], file.vars[k])
    BY <2>1
  <2>3. \A k \in 0 .. m : g[k] = f[k]
    OBVIOUS
  <2>4. g[m + 1] = NewVariable(f[m], file.vars[m + 1])
    OBVIOUS
  <2>5. ASSUME NEW k \in 0 .. m + 1
        PROVE  g[k] = IF k = 0 THEN a ELSE NewVariable(g[k - 1], file.vars[k])
    <3>1. CASE k = m + 1
      <4>1. k - 1 = m /\ k # 0 /\ g[m] = f[m]
        BY <2>3, <3>1
      <4> HIDE DEF g
      <4> QED
        BY <2>4, <3>1, <4>1
    <3>2. CASE k # m + 1
      <4>1. k \in 0 .. m /\ (k # 0 => k - 1 \in 0 .. m)
        BY <3>2
      <4> HIDE DEF g
      <4> QED
        BY <2>2, <2>3, <4>1
    <3> QED
      BY <3>1, <3>2
  <2>6. g = [k \in 0 .. m + 1 |-> g[k]]
    OBVIOUS
  <2> HIDE DEF g
  <2>7. Is(g, m + 1)
    BY <2>5, <2>6
  <2> QED
    BY <2>7
<1> HIDE DEF S
<1>3. n \in S
  BY <1>1, <1>2, Induction
<1> QED
  BY <1>3 DEF S

(* All variables of a file are. *)
LEMMA NewVariablesJoined ==
  ASSUME NEW file \in Files, IsModel(agg)
  PROVE  NewStep(agg, OtherJoinNew(file))
<1> DEFINE n == Len(file.vars)
           E(f) == f = [k \in 0 .. n |-> IF k = 0 THEN agg ELSE NewVariable(f[k - 1], file.vars[k])]
           joined == CHOOSE f : E(f)
           S == {k \in Nat : k <= n => NewStep(agg, joined[k])}
<1>1. n \in Nat
  BY FileFacts
<1>2. E(joined)
  BY <1>1, NewVariablesExist
<1>3. OtherJoinNew(file) = joined[n]
  BY DEF OtherJoinNew
<1> HIDE DEF joined
<1>4. joined[0] = agg /\ \A k \in 0 .. n - 1 : joined[k + 1] = NewVariable(joined[k], file.vars[k + 1])
  <2>1. \A k \in 0 .. n : joined[k] = IF k = 0 THEN agg ELSE NewVariable(joined[k - 1], file.vars[k])
    BY <1>2
  <2>2. \A k \in 0 .. n - 1 : k + 1 \in 0 .. n /\ k + 1 # 0 /\ (k + 1) - 1 = k
    BY <1>1
  <2>3. 0 \in 0 .. n
    BY <1>1
  <2> QED
    BY <2>1, <2>2, <2>3
<1>5. 0 \in S
  <2>1. NewStep(agg, agg)
    BY DEF NewStep, Grown
  <2> QED
    BY <1>4, <2>1
<1>6. ASSUME NEW k \in Nat, k \in S PROVE k + 1 \in S
  <2> SUFFICES ASSUME k + 1 <= n PROVE NewStep(agg, joined[k + 1])
    OBVIOUS
  <2>1. NewStep(agg, joined[k]) /\ k \in 0 .. n - 1 /\ k + 1 \in 1 .. n
    BY <1>1, <1>6
  <2> QED
    BY <1>4, <2>1, NewVariableStep
<1> HIDE DEF S
<1>7. n \in S
  BY <1>1, <1>5, <1>6, Induction
<1> QED
  BY <1>1, <1>3, <1>7 DEF S

-----------------------------------------------------------------------------
(* The variable v of the model is the one of the file, with its dimensions. *)
TakenFrom(file, a, v) ==
  /\ v \in DOMAIN a.vars /\ a.vars[v].shape = VariableOf(file, v).shape /\ HasVariable(file, v)
  /\ \A d \in DimsOf(a.vars[v].shape) : d \in DOMAIN a.dims /\ d \in DOMAIN file.dims /\ a.dims[d] = file.dims[d]

(* Every variable is joined or has a reader, and no variable both. *)
EachHasOneWay(a) ==
  /\ DOMAIN a.vars \subseteq a.joinVars \cup DOMAIN a.unionReaders
  /\ DOMAIN a.unionReaders \subseteq DOMAIN a.vars
  /\ a.joinVars \cap DOMAIN a.unionReaders = {}

(* What collecting variables of a file has made of the model a0. *)
UnionStep(file, index, a0, a) ==
  /\ IsModel(a) /\ a.thrown = FALSE /\ Grown(a0, a) /\ a.joinVars = a0.joinVars
  /\ EachHasOneWay(a) /\ DOMAIN a.vars \ DOMAIN a0.vars \subseteq DOMAIN a.unionReaders
  /\ UnlimitedDims(a0.dims) # {} \/ UnlimitedDims(file.dims) = {}
       => UnlimitedDims(a.dims) = UnlimitedDims(a0.dims)
  /\ \A v \in DOMAIN a.unionReaders \ DOMAIN a0.unionReaders :
       a.unionReaders[v] = index /\ TakenFrom(file, a, v)

(* A variable taken stays as it was taken. *)
LEMMA TakenWhenGrown ==
  ASSUME NEW file, NEW a, NEW b, Grown(a, b), NEW v, TakenFrom(file, a, v)
  PROVE  TakenFrom(file, b, v)
  BY DEF TakenFrom, Grown

(* One variable of a file that is not joined is taken, or is left out. *)
LEMMA UnionVariableStep ==
  ASSUME NEW file \in Files, NEW index, NEW a0, NEW a, NEW k \in 1 .. Len(file.vars), UnionStep(file, index, a0, a)
  PROVE  UnionStep(file, index, a0, UnionVariable(file, index, a, file.vars[k]))
<1> DEFINE v == file.vars[k]
           c == UnionVariable(file, index, a, v)
           known == DimsOf(v.shape) \cap DOMAIN a.dims
           second == {d \in DimsOf(v.shape) \ known : file.dims[d].unlimited /\ UnlimitedDims(a.dims) # {}}
           new == DimsOf(v.shape) \ (known \cup second)
           b == WithDims(a, file, new)
           ok == second = {} /\ \A d \in known : a.dims[d] = file.dims[d]
<1>1. /\ v.shape \in Seq(DOMAIN file.dims) /\ DimsOf(v.shape) \subseteq DOMAIN file.dims
      /\ v = [name |-> v.name, shape |-> v.shape, memory |-> v.memory]
      /\ HasVariable(file, v.name) /\ VariableOf(file, v.name) = v
  BY FileFacts
<1>2. UnionDims(a, file, v.shape).new = new /\ UnionDims(a, file, v.shape).ok = ok
  BY DEF UnionDims
<1> HIDE DEF v
<1>3. /\ IsModel(b) /\ Grown(a, b)
      /\ b.vars = a.vars /\ b.unionReaders = a.unionReaders /\ b.thrown = a.thrown /\ b.joinVars = a.joinVars
      /\ DOMAIN b.dims = DOMAIN a.dims \cup new
      /\ \A d \in new : b.dims[d] = file.dims[d]
  <2>1. new \subseteq DOMAIN file.dims /\ new \ DOMAIN a.dims = new
    BY <1>1
  <2>2. IsModel(a)
    BY DEF UnionStep
  <2> HIDE DEF new
  <2> QED
    BY <2>1, <2>2, DimsAdded
<1>4. UnlimitedDims(a0.dims) # {} \/ UnlimitedDims(file.dims) = {} => UnlimitedDims(b.dims) = UnlimitedDims(a0.dims)
  <2> SUFFICES ASSUME UnlimitedDims(a0.dims) # {} \/ UnlimitedDims(file.dims) = {}
               PROVE  UnlimitedDims(b.dims) = UnlimitedDims(a0.dims)
    OBVIOUS
  <2>1. UnlimitedDims(a.dims) = UnlimitedDims(a0.dims)
    BY DEF UnionStep
  <2>2. \A d \in new : d \in DOMAIN file.dims /\ ~file.dims[d].unlimited
    BY <1>1, <2>1 DEF UnlimitedDims
  <2>3. \A d \in DOMAIN a.dims : b.dims[d] = a.dims[d]
    BY <1>3 DEF Grown
  <2> HIDE DEF b, new
  <2>4. UnlimitedDims(b.dims) = UnlimitedDims(a.dims)
    BY <1>3, <2>2, <2>3 DEF UnlimitedDims
  <2> QED
    BY <2>1, <2>4
<1>5. CASE v.name \in a.joinVars \cup DOMAIN a.unionReaders
  <2>1. c = a
    BY <1>5 DEF UnionVariable
  <2> QED
    BY <2>1 DEF v
<1>6. CASE v.name \notin a.joinVars \cup DOMAIN a.unionReaders /\ ~ok
  <2>1. c = b
    BY <1>2, <1>6 DEF UnionVariable, UnionStep
  <2> HIDE DEF b
  <2>2. Grown(a0, b)
    BY <1>3, GrownOn DEF UnionStep
  <2>3. \A x \in DOMAIN b.unionReaders \ DOMAIN a0.unionReaders : b.unionReaders[x] = index /\ TakenFrom(file, b, x)
    BY <1>3, TakenWhenGrown DEF UnionStep
  <2>4. EachHasOneWay(b)
    BY <1>3 DEF EachHasOneWay, UnionStep
  <2>5. UnionStep(file, index, a0, b)
    BY <1>3, <1>4, <2>2, <2>3, <2>4 DEF UnionStep
  <2> QED
    BY <2>1, <2>5 DEF v
<1>7. CASE v.name \notin a.joinVars \cup DOMAIN a.unionReaders /\ ok
  <2> DEFINE noted == [b EXCEPT !.unionReaders = Added(@, [n \in {v.name} |-> index])]
             unionReaders == Added(a.unionReaders, [n \in {v.name} |-> index])
             e == WithVariable(noted, v)
  <2>1. v.name \notin DOMAIN a.vars
    BY <1>7 DEF UnionStep, EachHasOneWay
  <2>2. c = e
    BY <1>2, <1>7, <2>1 DEF UnionVariable, UnionStep
  <2>3. noted = [dims |-> b.dims, vars |-> a.vars, unionReaders |-> unionReaders, thrown |-> a.thrown, joinVars |-> a.joinVars]
    <3>1. Fields(b) /\ b.unionReaders = a.unionReaders /\ b.vars = a.vars /\ b.thrown = a.thrown /\ b.joinVars = a.joinVars
      BY <1>3 DEF IsModel
    <3> HIDE DEF b
    <3>2. noted = [b EXCEPT !.unionReaders = unionReaders]
      BY <3>1
    <3> HIDE DEF noted, unionReaders
    <3> QED
      BY <3>1, <3>2, ChangedPart, ZenonT(60)
  <2>4. /\ DOMAIN unionReaders = DOMAIN a.unionReaders \cup {v.name}
        /\ \A x \in DOMAIN a.unionReaders : unionReaders[x] = a.unionReaders[x]
        /\ unionReaders[v.name] = index
    BY <1>7 DEF Added
  <2> HIDE DEF b, noted, unionReaders
  <2>5. /\ IsModel(noted) /\ Grown(b, noted) /\ noted.dims = b.dims /\ noted.vars = a.vars
        /\ noted.unionReaders = unionReaders /\ noted.thrown = a.thrown /\ noted.joinVars = a.joinVars
    BY <1>3, <2>3, <2>4 DEF IsModel, Fields, Grown
  <2>6. /\ IsModel(e) /\ Grown(noted, e)
        /\ e.dims = b.dims /\ e.unionReaders = unionReaders /\ e.thrown = a.thrown /\ e.joinVars = a.joinVars
        /\ DOMAIN e.vars = DOMAIN a.vars \cup {v.name}
        /\ e.vars[v.name].shape = v.shape
    <3>1. IsModel(noted) /\ v.name \notin DOMAIN noted.vars
      BY <2>1, <2>5
    <3>2. /\ IsModel(e) /\ Grown(noted, e)
          /\ e.dims = noted.dims /\ e.unionReaders = noted.unionReaders /\ e.thrown = noted.thrown /\ e.joinVars = noted.joinVars
          /\ DOMAIN e.vars = DOMAIN noted.vars \cup {v.name}
          /\ e.vars[v.name] = [shape |-> v.shape, memory |-> v.memory]
      BY <3>1, VariableAdded
    <3> HIDE DEF e
    <3> QED
      BY <3>2, <2>5
  <2> HIDE DEF e
  <2>7. Grown(a, e) /\ Grown(a0, e)
    BY <1>3, <2>5, <2>6, GrownOn DEF UnionStep
  <2>8. TakenFrom(file, e, v.name)
    <3>1. \A d \in DimsOf(v.shape) : d \in DOMAIN file.dims /\ d \in DOMAIN b.dims /\ b.dims[d] = file.dims[d]
      <4>1. \A d \in known : b.dims[d] = file.dims[d]
        BY <1>3, <1>7 DEF Grown
      <4>2. DimsOf(v.shape) = known \cup new
        BY <1>7
      <4> QED
        BY <1>1, <1>3, <4>1, <4>2
    <3> QED
      BY <1>1, <2>6, <3>1 DEF TakenFrom
  <2>9. \A x \in DOMAIN e.unionReaders \ DOMAIN a0.unionReaders : e.unionReaders[x] = index /\ TakenFrom(file, e, x)
    <3> SUFFICES ASSUME NEW x \in DOMAIN e.unionReaders \ DOMAIN a0.unionReaders
                 PROVE  e.unionReaders[x] = index /\ TakenFrom(file, e, x)
      OBVIOUS
    <3>1. CASE x = v.name
      BY <2>4, <2>6, <2>8, <3>1
    <3>2. CASE x # v.name
      BY <2>4, <2>6, <2>7, <3>2, TakenWhenGrown DEF UnionStep
    <3> QED
      BY <3>1, <3>2
  <2>10. EachHasOneWay(e)
    BY <1>7, <2>4, <2>6 DEF EachHasOneWay, UnionStep
  <2>11. UnionStep(file, index, a0, e)
    <3>1. DOMAIN e.vars \ DOMAIN a0.vars \subseteq DOMAIN e.unionReaders
      BY <2>4, <2>6 DEF UnionStep
    <3> QED
      BY <1>4, <2>6, <2>7, <2>9, <2>10, <3>1 DEF UnionStep
  <2> QED
    BY <2>2, <2>11 DEF v
<1> QED
  BY <1>5, <1>6, <1>7

(* The model after k variables of a file, as the function of OtherUnion. *)
LEMMA UnionVariablesExist ==
  ASSUME NEW file, NEW index, NEW a, NEW n \in Nat
  PROVE  \E f : f = [k \in 0 .. n |-> IF k = 0 THEN a ELSE UnionVariable(file, index, f[k - 1], file.vars[k])]
<1> DEFINE Is(f, m) == f = [k \in 0 .. m |-> IF k = 0 THEN a ELSE UnionVariable(file, index, f[k - 1], file.vars[k])]
           S == {m \in Nat : \E f : Is(f, m)}
<1>1. 0 \in S
  <2>1. Is([k \in 0 .. 0 |-> a], 0)
    OBVIOUS
  <2> QED
    BY <2>1
<1>2. ASSUME NEW m \in Nat, m \in S PROVE m + 1 \in S
  <2>1. PICK f : Is(f, m)
    BY <1>2
  <2> DEFINE g == [k \in 0 .. m + 1 |-> IF k <= m THEN f[k] ELSE UnionVariable(file, index, f[m], file.vars[m + 1])]
  <2>2. \A k \in 0 .. m : f[k] = IF k = 0 THEN a ELSE UnionVariable(file, index, f[k - 1], file.vars[k])
    BY <2>1
  <2>3. \A k \in 0 .. m : g[k] = f[k]
    OBVIOUS
  <2>4. g[m + 1] = UnionVariable(file, index, f[m], file.vars[m + 1])
    OBVIOUS
  <2>5. ASSUME NEW k \in 0 .. m + 1
        PROVE  g[k] = IF k = 0 THEN a ELSE UnionVariable(file, index, g[k - 1], file.vars[k])
    <3>1. CASE k = m + 1
      <4>1. k - 1 = m /\ k # 0 /\ g[m] = f[m]
        BY <2>3, <3>1
      <4> HIDE DEF g
      <4> QED
        BY <2>4, <3>1, <4>1
    <3>2. CASE k # m + 1
      <4>1. k \in 0 .. m /\ (k # 0 => k - 1 \in 0 .. m)
        BY <3>2
      <4> HIDE DEF g
      <4> QED
        BY <2>2, <2>3, <4>1
    <3> QED
      BY <3>1, <3>2
  <2>6. g = [k \in 0 .. m + 1 |-> g[k]]
    OBVIOUS
  <2> HIDE DEF g
  <2>7. Is(g, m + 1)
    BY <2>5, <2>6
  <2> QED
    BY <2>7
<1> HIDE DEF S
<1>3. n \in S
  BY <1>1, <1>2, Induction
<1> QED
  BY <1>3 DEF S

(* All variables of a file are. *)
LEMMA VariablesUnited ==
  ASSUME NEW file \in Files, NEW a0, UnionStep(file, Len(readers) + 1, a0, a0)
  PROVE  UnionStep(file, Len(readers) + 1, a0, OtherUnion(a0, file))
<1> DEFINE n == Len(file.vars)
           E(f) == f = [k \in 0 .. n |-> IF k = 0 THEN a0 ELSE UnionVariable(file, Len(readers) + 1, f[k - 1], file.vars[k])]
           united == CHOOSE f : E(f)
           S == {k \in Nat : k <= n => UnionStep(file, Len(readers) + 1, a0, united[k])}
<1>1. n \in Nat
  BY FileFacts
<1>2. E(united)
  BY <1>1, UnionVariablesExist
<1>3. OtherUnion(a0, file) = united[n]
  BY DEF OtherUnion
<1> HIDE DEF united
<1>4. united[0] = a0 /\ \A k \in 0 .. n - 1 : united[k + 1] = UnionVariable(file, Len(readers) + 1, united[k], file.vars[k + 1])
  <2>1. \A k \in 0 .. n : united[k] = IF k = 0 THEN a0 ELSE UnionVariable(file, Len(readers) + 1, united[k - 1], file.vars[k])
    BY <1>2
  <2>2. \A k \in 0 .. n - 1 : k + 1 \in 0 .. n /\ k + 1 # 0 /\ (k + 1) - 1 = k
    BY <1>1
  <2>3. 0 \in 0 .. n
    BY <1>1
  <2> QED
    BY <2>1, <2>2, <2>3
<1>5. 0 \in S
  <2>1. UnionStep(file, Len(readers) + 1, a0, a0)
    OBVIOUS
  <2> QED
    BY <1>4, <2>1
<1>6. ASSUME NEW k \in Nat, k \in S PROVE k + 1 \in S
  <2> SUFFICES ASSUME k + 1 <= n PROVE UnionStep(file, Len(readers) + 1, a0, united[k + 1])
    OBVIOUS
  <2>1. UnionStep(file, Len(readers) + 1, a0, united[k]) /\ k \in 0 .. n - 1 /\ k + 1 \in 1 .. n
    BY <1>1, <1>6
  <2> QED
    BY <1>4, <2>1, UnionVariableStep
<1> HIDE DEF S
<1>7. n \in S
  BY <1>1, <1>5, <1>6, Induction
<1> QED
  BY <1>1, <1>3, <1>7 DEF S

-----------------------------------------------------------------------------
(* A file's variables joined: the first file, and the others.              *)

(* Only the lengths of the unlimited dimensions are changed. *)
LEMMA Lengths ==
  ASSUME NEW a, IsModel(a), NEW n \in Nat
  PROVE  LET b == WithLength(a, n)
         IN  /\ IsModel(b) /\ b.vars = a.vars /\ b.unionReaders = a.unionReaders
             /\ b.thrown = a.thrown /\ b.joinVars = a.joinVars
             /\ DOMAIN b.dims = DOMAIN a.dims /\ UnlimitedDims(b.dims) = UnlimitedDims(a.dims)
             /\ \A d \in UnlimitedDims(a.dims) : b.dims[d].length = n
             /\ \A d \in DOMAIN a.dims \ UnlimitedDims(a.dims) : b.dims[d] = a.dims[d]
<1> DEFINE dims == [d \in DOMAIN a.dims |-> IF a.dims[d].unlimited THEN [a.dims[d] EXCEPT !.length = n] ELSE a.dims[d]]
           b == WithLength(a, n)
<1>1. b = [dims |-> dims, vars |-> a.vars, unionReaders |-> a.unionReaders, thrown |-> a.thrown, joinVars |-> a.joinVars]
  BY ChangedPart DEF WithLength, IsModel
<1>2. \A d \in DOMAIN a.dims : a.dims[d] \in Dimension
  BY DEF IsModel
<1>3. DOMAIN dims = DOMAIN a.dims
  OBVIOUS
<1>4. \A d \in DOMAIN a.dims : /\ dims[d] \in Dimension /\ dims[d].unlimited = a.dims[d].unlimited
                               /\ a.dims[d].unlimited => dims[d].length = n
                               /\ ~a.dims[d].unlimited => dims[d] = a.dims[d]
  BY <1>2 DEF Dimension
<1> HIDE DEF dims, b
<1>5. UnlimitedDims(dims) = UnlimitedDims(a.dims)
  BY <1>3, <1>4 DEF UnlimitedDims
<1>6. b.dims = dims /\ b.vars = a.vars /\ b.unionReaders = a.unionReaders /\ b.thrown = a.thrown /\ b.joinVars = a.joinVars
  BY <1>1
<1>7. IsModel(b)
  BY <1>1, <1>3, <1>4, <1>6 DEF IsModel, Fields
<1> QED
  BY <1>3, <1>4, <1>5, <1>6, <1>7 DEF UnlimitedDims, b

(* What a variable of the first file that is not joined has become. *)
First(file, a, v) ==
  /\ HasVariable(file, v) /\ VariableOf(file, v).shape = a.vars[v].shape
  /\ \A d \in DimsOf(a.vars[v].shape) :
       /\ d \in DOMAIN a.dims /\ d \in DOMAIN file.dims
       /\ a.dims[d].length = file.dims[d].length
       /\ aggType # "joinNew" => a.dims[d] = file.dims[d]
       /\ aggType # "union" => ~a.dims[d].unlimited

(* The model with the variables of a file that are joined. *)
JoinedAs(file, a) ==
  /\ IsModel(a) /\ a.thrown = FALSE /\ a.unionReaders = agg.unionReaders /\ Grown(agg, a)
  /\ aggType # "union" => \A c, d \in UnlimitedDims(a.dims) : c = d
  /\ aggType = "joinNew" => UnlimitedDims(a.dims) = {JoinNewDim}
  /\ aggType = "joinExisting" =>
       /\ UnlimitedDims(a.dims) = IF Takes(file) THEN UnlimitedDims(file.dims) ELSE UnlimitedDims(agg.dims)
       /\ \A v \in a.joinVars \ agg.joinVars :
            /\ v \in DOMAIN a.vars \ DOMAIN agg.vars /\ Agrees(file, a, v)
            /\ UnlimitedDims(file.dims) = UnlimitedDims(a.dims) /\ UnlimitedDims(a.dims) # {}
  /\ aggType # "joinExisting" => a.joinVars = agg.joinVars
  /\ readers # <<>> => DOMAIN a.vars \ DOMAIN agg.vars \subseteq a.joinVars
  /\ readers = <<>> => \A v \in DOMAIN a.vars \ a.joinVars : First(file, a, v)
  /\ aggType = "joinNew" =>
       \A v \in (DOMAIN a.vars \ DOMAIN agg.vars) \cap a.joinVars : Lengthened(a.vars[v].shape)
  /\ aggType = "joinExisting" /\ readers # <<>> /\ Takes(file) =>
       \A j \in 1 .. Len(file.vars) : Handled(file, a, file.vars[j])

EmptyAtFirst ==
  readers = <<>> =>
    /\ DOMAIN agg.dims = {} /\ DOMAIN agg.vars = {} /\ agg.unionReaders = <<>>
    /\ aggType = "joinExisting" => agg.joinVars = {}

(* The variables of a file, by name. *)
LEMMA NamedVariables ==
  ASSUME NEW file \in Files
  PROVE  LET all == VariablesOf(file)
         IN  \A v \in DOMAIN all :
               /\ HasVariable(file, v)
               /\ all[v] = [shape |-> VariableOf(file, v).shape, memory |-> VariableOf(file, v).memory]
               /\ VariableOf(file, v).shape \in Seq(DOMAIN file.dims)
               /\ DimsOf(VariableOf(file, v).shape) \subseteq DOMAIN file.dims
               /\ NewDimIsNew => JoinNewDim \notin DimsOf(VariableOf(file, v).shape)
<1> DEFINE all == VariablesOf(file)
<1>1. DOMAIN all = {file.vars[i].name : i \in DOMAIN file.vars}
  BY DEF VariablesOf
<1>2. \A v \in DOMAIN all : all[v] = [shape |-> VariableOf(file, v).shape, memory |-> VariableOf(file, v).memory]
  BY DEF VariablesOf
<1> HIDE DEF all
<1> SUFFICES ASSUME NEW v \in DOMAIN all
             PROVE  /\ HasVariable(file, v)
                    /\ VariableOf(file, v).shape \in Seq(DOMAIN file.dims)
                    /\ DimsOf(VariableOf(file, v).shape) \subseteq DOMAIN file.dims
                    /\ NewDimIsNew => JoinNewDim \notin DimsOf(VariableOf(file, v).shape)
  BY <1>2 DEF all
<1>3. PICK k \in 1 .. Len(file.vars) : v = file.vars[k].name
  BY <1>1, FileFacts
<1>4. HasVariable(file, v) /\ VariableOf(file, v) = file.vars[k] /\ k \in DOMAIN file.vars
  BY <1>3, FileFacts
<1>5. file.vars[k].shape \in Seq(DOMAIN file.dims) /\ DimsOf(file.vars[k].shape) \subseteq DOMAIN file.dims
  BY FileFacts
<1> QED
  BY <1>4, <1>5 DEF NewDimIsNew

(* The first file of joinExisting, ... *)
LEMMA FirstExistingJoined ==
  ASSUME NEW file \in Files, IsModel(agg), agg.thrown = FALSE, EmptyAtFirst,
         readers = <<>>, aggType = "joinExisting"
  PROVE  JoinedAs(file, FirstJoinExisting(file))
<1> DEFINE all == VariablesOf(file)
           join == {v \in DOMAIN all : HasUnlimitedDim(file.dims, all[v].shape)}
           vs == [v \in DOMAIN all |-> [all[v] EXCEPT !.memory = @ /\ v \notin join]]
           a == FirstJoinExisting(file)
<1>1. a = [dims |-> file.dims, vars |-> vs, joinVars |-> join, unionReaders |-> <<>>, thrown |-> FALSE]
  BY DEF FirstJoinExisting, Model
<1>2. \A v \in DOMAIN all :
        /\ all[v] = [shape |-> VariableOf(file, v).shape, memory |-> VariableOf(file, v).memory]
        /\ HasVariable(file, v) /\ DimsOf(VariableOf(file, v).shape) \subseteq DOMAIN file.dims
  BY NamedVariables
<1> HIDE DEF all
<1>3. DOMAIN vs = DOMAIN all /\ \A v \in DOMAIN all : vs[v] = [shape |-> VariableOf(file, v).shape, memory |-> all[v].memory /\ v \notin join]
  BY <1>2
<1>4. \A v \in join : HasUnlimitedDim(file.dims, VariableOf(file, v).shape) /\ v \in DOMAIN all
  BY <1>2
<1>5. \A v \in DOMAIN all \ join : ~HasUnlimitedDim(file.dims, VariableOf(file, v).shape)
  BY <1>2
<1> HIDE DEF vs, join, a
<1>6. a.dims = file.dims /\ a.vars = vs /\ a.unionReaders = <<>> /\ a.thrown = FALSE /\ a.joinVars = join
  BY <1>1
<1>7. IsModel(a)
  BY <1>1, <1>3, <1>6, FileFacts DEF IsModel, Fields
<1>8. Grown(agg, a)
  BY <1>6 DEF Grown, EmptyAtFirst
<1>9. UnlimitedDims(agg.dims) = {} /\ \A c, d \in UnlimitedDims(file.dims) : c = d
  BY FileFacts DEF EmptyAtFirst, UnlimitedDims
<1>10. Takes(file) <=> UnlimitedDims(file.dims) # {}
  BY DEF Takes
<1>11. \A v \in join : v \in DOMAIN vs /\ Agrees(file, a, v) /\ UnlimitedDims(file.dims) # {}
  BY <1>2, <1>3, <1>4, <1>6 DEF Agrees, HasUnlimitedDim
<1>12. \A v \in DOMAIN vs \ join : First(file, a, v)
  BY <1>2, <1>3, <1>5, <1>6 DEF First, HasUnlimitedDim, UnlimitedDims
<1>13. JoinedAs(file, a)
  BY <1>6, <1>7, <1>8, <1>9, <1>10, <1>11, <1>12 DEF JoinedAs, EmptyAtFirst
<1> QED
  BY <1>13 DEF a

(* ... of joinNew, unless it throws, ... *)
LEMMA FirstNewJoined ==
  ASSUME NEW file \in Files, IsModel(agg), agg.thrown = FALSE, EmptyAtFirst,
         readers = <<>>, aggType = "joinNew", ~FirstJoinNew(file).thrown
  PROVE  JoinedAs(file, FirstJoinNew(file))
<1> DEFINE all == VariablesOf(file)
           fixed == [d \in DOMAIN file.dims |-> [file.dims[d] EXCEPT !.unlimited = FALSE]]
           new == [d \in {JoinNewDim} |-> [length |-> 0, unlimited |-> TRUE]]
           added == Added(fixed, new)
           grown == [v \in DOMAIN all |->
                      IF v \in agg.joinVars THEN [all[v] EXCEPT !.shape = Append(@, JoinNewDim)] ELSE all[v]]
           a == FirstJoinNew(file)
<1>1. JoinNewDim \notin DOMAIN file.dims
  <2> SUFFICES ASSUME JoinNewDim \in DOMAIN file.dims PROVE FALSE
    OBVIOUS
  <2> DEFINE m == Model(fixed, all, agg.joinVars)
  <2>1. a = [m EXCEPT !.thrown = TRUE]
    BY DEF FirstJoinNew, Thrown
  <2>2. Fields(m)
    BY DEF Fields, Model
  <2> HIDE DEF m, fixed, all, a
  <2>3. a.thrown = TRUE
    BY <2>1, <2>2, ChangedPart
  <2> QED
    BY <2>3 DEF a
<1>2. a = [dims |-> added, vars |-> grown, joinVars |-> agg.joinVars, unionReaders |-> <<>>, thrown |-> FALSE]
  BY <1>1 DEF FirstJoinNew, Model
<1>3. \A v \in DOMAIN all :
        /\ all[v] = [shape |-> VariableOf(file, v).shape, memory |-> VariableOf(file, v).memory]
        /\ HasVariable(file, v) /\ VariableOf(file, v).shape \in Seq(DOMAIN file.dims)
        /\ DimsOf(VariableOf(file, v).shape) \subseteq DOMAIN file.dims
        /\ NewDimIsNew => JoinNewDim \notin DimsOf(VariableOf(file, v).shape)
  BY NamedVariables
<1> HIDE DEF all
<1>4. DOMAIN grown = DOMAIN all
      /\ \A v \in DOMAIN all : grown[v] =
           [shape |-> IF v \in agg.joinVars THEN Append(VariableOf(file, v).shape, JoinNewDim) ELSE VariableOf(file, v).shape,
            memory |-> VariableOf(file, v).memory]
  <2> SUFFICES ASSUME NEW v \in DOMAIN all
               PROVE  grown[v] =
           [shape |-> IF v \in agg.joinVars THEN Append(VariableOf(file, v).shape, JoinNewDim) ELSE VariableOf(file, v).shape,
            memory |-> VariableOf(file, v).memory]
    OBVIOUS
  <2> DEFINE shape == VariableOf(file, v).shape
             memory == VariableOf(file, v).memory
             r == [shape |-> shape, memory |-> memory]
             longer == Append(shape, JoinNewDim)
  <2>1. grown[v] = IF v \in agg.joinVars THEN [all[v] EXCEPT !.shape = Append(@, JoinNewDim)] ELSE all[v]
    OBVIOUS
  <2>2. all[v] = r
    BY <1>3
  <2>3. r.shape = shape
    OBVIOUS
  <2>4. [r EXCEPT !.shape = longer] = [shape |-> longer, memory |-> memory]
    <3> HIDE DEF longer, shape, memory
    <3> QED
      OBVIOUS
  <2>5. [r EXCEPT !.shape = Append(@, JoinNewDim)] = [r EXCEPT !.shape = longer]
    BY <2>3
  <2>6. r = [shape |-> shape, memory |-> memory]
    OBVIOUS
  <2> HIDE DEF grown, r
  <2>7. [all[v] EXCEPT !.shape = Append(@, JoinNewDim)] = [r EXCEPT !.shape = Append(@, JoinNewDim)]
    BY <2>2
  <2>8. CASE v \in agg.joinVars
    BY <2>1, <2>4, <2>5, <2>7, <2>8
  <2>9. CASE v \notin agg.joinVars
    BY <2>1, <2>2, <2>6, <2>9
  <2> QED
    BY <2>8, <2>9
<1>5. \A d \in DOMAIN file.dims : file.dims[d] \in Dimension
  BY FileFacts
<1>6. DOMAIN fixed = DOMAIN file.dims
      /\ \A d \in DOMAIN file.dims : fixed[d] \in Dimension /\ fixed[d].length = file.dims[d].length /\ ~fixed[d].unlimited
  BY <1>5 DEF Dimension
<1>7. DOMAIN new = {JoinNewDim} /\ new[JoinNewDim] = [length |-> 0, unlimited |-> TRUE] /\ new[JoinNewDim] \in Dimension
  BY DEF Dimension
<1> HIDE DEF fixed, new, grown
<1>8. /\ DOMAIN added = DOMAIN file.dims \cup {JoinNewDim}
      /\ \A d \in DOMAIN file.dims : added[d] = fixed[d]
      /\ added[JoinNewDim] = new[JoinNewDim]
  BY <1>1, <1>6, <1>7 DEF Added
<1> HIDE DEF added, a
<1>9. a.dims = added /\ a.vars = grown /\ a.unionReaders = <<>> /\ a.thrown = FALSE /\ a.joinVars = agg.joinVars
  BY <1>2
<1>10. IsModel(a)
  <2>1. Fields(a)
    BY <1>2 DEF Fields
  <2>2. \A d \in DOMAIN added : added[d] \in Dimension
    BY <1>6, <1>7, <1>8
  <2>3. \A v \in DOMAIN grown : grown[v] = [shape |-> grown[v].shape, memory |-> grown[v].memory]
    BY <1>4
  <2> QED
    BY <1>9, <2>1, <2>2, <2>3 DEF IsModel
<1>11. Grown(agg, a)
  BY <1>9 DEF Grown, EmptyAtFirst
<1>12. UnlimitedDims(a.dims) = {JoinNewDim}
  BY <1>6, <1>7, <1>8, <1>9 DEF UnlimitedDims
<1>13. \A v \in DOMAIN a.vars \ a.joinVars : First(file, a, v)
  BY <1>3, <1>4, <1>6, <1>8, <1>9 DEF First
<1>14. ASSUME NEW v \in DOMAIN a.vars \cap a.joinVars PROVE Lengthened(a.vars[v].shape)
  <2> DEFINE s == VariableOf(file, v).shape
  <2>1. a.vars[v].shape = Append(s, JoinNewDim) /\ s \in Seq(DOMAIN file.dims) /\ (NewDimIsNew => JoinNewDim \notin DimsOf(s))
    BY <1>3, <1>4, <1>9
  <2> HIDE DEF s
  <2>2. s \in Seq(DimsOf(s))
    BY <2>1 DEF DimsOf
  <2> QED
    BY <2>1, <2>2 DEF Lengthened
<1>15. JoinedAs(file, a)
  BY <1>9, <1>10, <1>11, <1>12, <1>13, <1>14 DEF JoinedAs, EmptyAtFirst
<1> QED
  BY <1>15 DEF a
(* ... and of union. *)
LEMMA FirstUnionJoined ==
  ASSUME NEW file \in Files, IsModel(agg), agg.thrown = FALSE, EmptyAtFirst,
         readers = <<>>, aggType = "union"
  PROVE  JoinedAs(file, Model(file.dims, VariablesOf(file), agg.joinVars))
<1> DEFINE all == VariablesOf(file)
           a == Model(file.dims, all, agg.joinVars)
<1>1. a = [dims |-> file.dims, vars |-> all, joinVars |-> agg.joinVars, unionReaders |-> <<>>, thrown |-> FALSE]
  BY DEF Model
<1>2. \A v \in DOMAIN all :
        /\ all[v] = [shape |-> VariableOf(file, v).shape, memory |-> VariableOf(file, v).memory]
        /\ HasVariable(file, v) /\ DimsOf(VariableOf(file, v).shape) \subseteq DOMAIN file.dims
  BY NamedVariables
<1> HIDE DEF all, a
<1>3. a.dims = file.dims /\ a.vars = all /\ a.unionReaders = <<>> /\ a.thrown = FALSE /\ a.joinVars = agg.joinVars
  BY <1>1
<1>4. IsModel(a)
  BY <1>1, <1>2, <1>3, FileFacts DEF IsModel, Fields
<1>5. Grown(agg, a)
  BY <1>3 DEF Grown, EmptyAtFirst
<1>6. \A v \in DOMAIN a.vars : First(file, a, v)
  BY <1>2, <1>3 DEF First
<1>7. JoinedAs(file, a)
  BY <1>3, <1>4, <1>5, <1>6 DEF JoinedAs, EmptyAtFirst
<1> QED
  BY <1>7 DEF a, all

(* What the files so far have made of the model, for a further file. *)
SoFar ==
  /\ IsModel(agg) /\ agg.thrown = FALSE /\ EmptyAtFirst
  /\ aggType # "union" => \A c, d \in UnlimitedDims(agg.dims) : c = d
  /\ aggType = "joinNew" /\ readers # <<>> => UnlimitedDims(agg.dims) = {JoinNewDim}

(* A further file of joinExisting, unless it throws, ... *)
LEMMA OtherExistingJoined ==
  ASSUME NEW file \in Files, SoFar, readers # <<>>, aggType = "joinExisting", ~OtherJoinExisting(file).thrown
  PROVE  JoinedAs(file, OtherJoinExisting(file))
<1> DEFINE missing == UnlimitedDims(file.dims) \ UnlimitedDims(agg.dims)
           b == WithDims(agg, file, missing)
           a == OtherJoinExisting(file)
<1>1. Takes(file) <=> Joins(file)
  BY DEF Takes
<1>2. CASE ~Joins(file)
  <2>1. a = agg
    BY <1>2 DEF OtherJoinExisting
  <2> HIDE DEF a
  <2>2. JoinedAs(file, agg)
    BY <1>1, <1>2 DEF JoinedAs, SoFar, Grown
  <2> QED
    BY <2>1, <2>2 DEF a
<1>3. CASE Joins(file)
  <2>1. missing \cap DOMAIN agg.dims = {}
    <3> SUFFICES ASSUME missing \cap DOMAIN agg.dims # {} PROVE FALSE
      OBVIOUS
    <3>1. a = [agg EXCEPT !.thrown = TRUE]
      BY <1>3 DEF OtherJoinExisting, Thrown
    <3> HIDE DEF a
    <3>2. a.thrown
      BY <3>1, ChangedPart DEF SoFar, IsModel
    <3> QED
      BY <3>2 DEF a
  <2>2. a = JoinVariables(file, b)
    BY <1>3, <2>1 DEF OtherJoinExisting
  <2>3. missing \subseteq DOMAIN file.dims
    BY FileFacts
  <2>4. /\ IsModel(b) /\ Grown(agg, b)
        /\ b.vars = agg.vars /\ b.unionReaders = agg.unionReaders /\ b.thrown = FALSE /\ b.joinVars = agg.joinVars
        /\ DOMAIN b.dims = DOMAIN agg.dims \cup missing
        /\ \A d \in missing : b.dims[d] = file.dims[d]
    <3> HIDE DEF missing
    <3> QED
      BY <2>1, <2>3, DimsAdded DEF SoFar
  <2> HIDE DEF a, b
  <2>5. UnlimitedDims(b.dims) = UnlimitedDims(file.dims)
    <3>1. \A d \in DOMAIN agg.dims : b.dims[d] = agg.dims[d]
      BY <2>4 DEF Grown
    <3>2. UnlimitedDims(b.dims) = UnlimitedDims(agg.dims) \cup missing
      <4>1. \A d \in missing : b.dims[d].unlimited
        BY <2>4 DEF UnlimitedDims
      <4> HIDE DEF missing
      <4> QED
        BY <2>4, <3>1, <4>1 DEF UnlimitedDims
    <3> QED
      BY <1>3, <3>2 DEF Joins
  <2>6. JoinStep(file, b, a, Len(file.vars))
    BY <2>2, <2>4, VariablesJoined
  <2>7. /\ IsModel(a) /\ a.thrown = FALSE /\ a.unionReaders = agg.unionReaders /\ Grown(agg, a)
        /\ UnlimitedDims(a.dims) = UnlimitedDims(file.dims) /\ UnlimitedDims(file.dims) # {}
    BY <1>3, <2>4, <2>5, <2>6, GrownOn DEF JoinStep, Joins
  <2>8. \A v \in a.joinVars \ agg.joinVars : v \in DOMAIN a.vars \ DOMAIN agg.vars /\ Agrees(file, a, v)
    BY <2>4, <2>6 DEF JoinStep
  <2>9. DOMAIN a.vars \ DOMAIN agg.vars \subseteq a.joinVars
    BY <2>4, <2>6 DEF JoinStep
  <2>10. \A j \in 1 .. Len(file.vars) : Handled(file, a, file.vars[j])
    BY <2>6 DEF JoinStep
  <2>11. \A c, d \in UnlimitedDims(a.dims) : c = d
    BY <2>7, FileFacts
  <2>12. JoinedAs(file, a)
    BY <1>1, <1>3, <2>7, <2>8, <2>9, <2>10, <2>11 DEF JoinedAs
  <2> QED
    BY <2>12 DEF a
<1> QED
  BY <1>2, <1>3

(* ... and of joinNew. *)
LEMMA OtherNewJoined ==
  ASSUME NEW file \in Files, SoFar, readers # <<>>, aggType = "joinNew"
  PROVE  JoinedAs(file, OtherJoinNew(file))
<1> DEFINE a == OtherJoinNew(file)
<1>1. NewStep(agg, a)
  BY NewVariablesJoined DEF SoFar
<1> HIDE DEF a
<1>2. JoinedAs(file, a)
  BY <1>1 DEF JoinedAs, NewStep, SoFar
<1> QED
  BY <1>2 DEF a

(* The variables of a file are joined as described, or the file throws. *)
LEMMA FileJoined ==
  ASSUME NEW file \in Files, SoFar, ~Joined(file).thrown, aggType \in {"joinExisting", "joinNew", "union"}
  PROVE  JoinedAs(file, Joined(file))
<1>1. CASE readers = <<>>
  <2>1. Joined(file) = FirstJoined(file)
    BY <1>1 DEF Joined
  <2>2. CASE aggType = "joinExisting"
    BY <1>1, <2>1, <2>2, FirstExistingJoined DEF FirstJoined, SoFar
  <2>3. CASE aggType = "joinNew"
    BY <1>1, <2>1, <2>3, FirstNewJoined DEF FirstJoined, SoFar
  <2>4. CASE aggType = "union"
    BY <1>1, <2>1, <2>4, FirstUnionJoined DEF FirstJoined, SoFar
  <2> QED
    BY <2>2, <2>3, <2>4
<1>2. CASE readers # <<>>
  <2>1. Joined(file) = OtherJoined(file)
    BY <1>2 DEF Joined
  <2>2. CASE aggType = "joinExisting"
    BY <1>2, <2>1, <2>2, OtherExistingJoined DEF OtherJoined
  <2>3. CASE aggType = "joinNew"
    BY <1>2, <2>1, <2>3, OtherNewJoined DEF OtherJoined
  <2>4. CASE aggType = "union"
    <3>1. Joined(file) = agg
      BY <2>1, <2>4 DEF OtherJoined
    <3> QED
      BY <1>2, <2>4, <3>1 DEF JoinedAs, SoFar, Grown
  <2> QED
    BY <2>2, <2>3, <2>4
<1> QED
  BY <1>1, <1>2

-----------------------------------------------------------------------------
(* A file added: its positions, and its variables that are not joined.     *)

(* Of a, nothing is lost or changed in b but the lengths of the unlimited    *)
(* dimensions of a join.                                                     *)
Kept(a, b) ==
  /\ DOMAIN a.dims \subseteq DOMAIN b.dims
  /\ \A d \in DOMAIN a.dims : /\ b.dims[d].unlimited = a.dims[d].unlimited
                              /\ aggType = "union" \/ ~a.dims[d].unlimited => b.dims[d] = a.dims[d]
  /\ DOMAIN a.vars \subseteq DOMAIN b.vars /\ \A v \in DOMAIN a.vars : b.vars[v] = a.vars[v]
  /\ DOMAIN a.unionReaders \subseteq DOMAIN b.unionReaders
  /\ \A v \in DOMAIN a.unionReaders : b.unionReaders[v] = a.unionReaders[v]
  /\ a.joinVars \subseteq b.joinVars

(* A variable the model reads from file i. *)
ReadFrom(file, i, a, v) ==
  /\ HasVariable(file, v) /\ v \in DOMAIN a.vars /\ a.vars[v].shape = VariableOf(file, v).shape
  /\ \A d \in DimsOf(a.vars[v].shape) :
       /\ d \in DOMAIN a.dims
       /\ a.dims[d].length = file.dims[d].length
       /\ a.dims[d].unlimited = file.dims[d].unlimited \/ (aggType = "joinNew" /\ i = 1)
       /\ aggType # "union" => ~a.dims[d].unlimited

(* The model with a file added. *)
AddedAs(file, c) ==
  /\ IsModel(c) /\ c.thrown = FALSE /\ EachHasOneWay(c) /\ Kept(agg, c)
  /\ aggType # "union" => /\ \A d, e \in UnlimitedDims(c.dims) : d = e
                          /\ \A d \in UnlimitedDims(c.dims) : c.dims[d].length = Extended(file)
  /\ aggType = "joinNew" => UnlimitedDims(c.dims) = {JoinNewDim}
  /\ aggType = "joinExisting" =>
       /\ UnlimitedDims(c.dims) = IF Takes(file) THEN UnlimitedDims(file.dims) ELSE UnlimitedDims(agg.dims)
       /\ \A v \in c.joinVars \ agg.joinVars :
            /\ v \in DOMAIN c.vars /\ Agrees(file, c, v)
            /\ UnlimitedDims(file.dims) = UnlimitedDims(c.dims) /\ UnlimitedDims(c.dims) # {}
  /\ aggType = "joinNew" =>
       \A v \in (DOMAIN c.vars \ DOMAIN agg.vars) \cap c.joinVars : Lengthened(c.vars[v].shape)
  /\ (aggType = "joinNew" => NewDimIsNew) =>
       \A v \in DOMAIN c.unionReaders \ DOMAIN agg.unionReaders :
         c.unionReaders[v] = Len(readers) + 1 /\ ReadFrom(file, Len(readers) + 1, c, v)

(* The model with the joined variables of a file, and the new length. *)
Prepared(file) == IF aggType = "union" THEN Joined(file) ELSE WithLength(Joined(file), Extended(file))

PreparedAs(file, b) ==
  /\ IsModel(b) /\ b.thrown = FALSE /\ b.unionReaders = agg.unionReaders /\ Kept(agg, b)
  /\ aggType # "union" => /\ \A d, e \in UnlimitedDims(b.dims) : d = e
                          /\ \A d \in UnlimitedDims(b.dims) : b.dims[d].length = Extended(file)
  /\ aggType = "joinNew" => UnlimitedDims(b.dims) = {JoinNewDim}
  /\ aggType = "joinExisting" =>
       /\ UnlimitedDims(b.dims) = IF Takes(file) THEN UnlimitedDims(file.dims) ELSE UnlimitedDims(agg.dims)
       /\ \A v \in b.joinVars \ agg.joinVars :
            /\ v \in DOMAIN b.vars \ DOMAIN agg.vars /\ Agrees(file, b, v)
            /\ UnlimitedDims(file.dims) = UnlimitedDims(b.dims) /\ UnlimitedDims(b.dims) # {}
  /\ aggType # "joinExisting" => b.joinVars = agg.joinVars
  /\ readers # <<>> => DOMAIN b.vars \ DOMAIN agg.vars \subseteq b.joinVars
  /\ readers = <<>> => \A v \in DOMAIN b.vars \ b.joinVars : First(file, b, v)
  /\ aggType = "joinNew" =>
       \A v \in (DOMAIN b.vars \ DOMAIN agg.vars) \cap b.joinVars : Lengthened(b.vars[v].shape)
  /\ aggType = "joinExisting" /\ readers # <<>> /\ Takes(file) =>
       \A j \in 1 .. Len(file.vars) : Handled(file, b, file.vars[j])

(* The length of the join is extended by the file. *)
LEMMA FilePrepared ==
  ASSUME NEW file \in Files, SoFar, JoinedAs(file, Joined(file)), Extended(file) \in Nat,
         aggType \in {"joinExisting", "joinNew", "union"}
  PROVE  PreparedAs(file, Prepared(file))
<1> DEFINE a == Joined(file)
           b == Prepared(file)
<1>1. CASE aggType = "union"
  <2>1. b = a
    BY <1>1 DEF Prepared
  <2> HIDE DEF a, b
  <2>2. PreparedAs(file, a)
    BY <1>1 DEF JoinedAs, PreparedAs, Kept, Grown, a
  <2> QED
    BY <2>1, <2>2 DEF b
<1>2. CASE aggType # "union"
  <2>1. b = WithLength(a, Extended(file))
    BY <1>2 DEF Prepared
  <2>2. JoinedAs(file, a)
    OBVIOUS
  <2> HIDE DEF a, b
  <2>3. /\ IsModel(b) /\ b.vars = a.vars /\ b.unionReaders = a.unionReaders
        /\ b.thrown = a.thrown /\ b.joinVars = a.joinVars
        /\ DOMAIN b.dims = DOMAIN a.dims /\ UnlimitedDims(b.dims) = UnlimitedDims(a.dims)
        /\ \A d \in UnlimitedDims(a.dims) : b.dims[d].length = Extended(file)
        /\ \A d \in DOMAIN a.dims \ UnlimitedDims(a.dims) : b.dims[d] = a.dims[d]
    BY <2>1, <2>2, Lengths, SMTT(30) DEF JoinedAs
  <2>4. \A d \in DOMAIN a.dims : b.dims[d].unlimited = a.dims[d].unlimited
    <3>1. \A d \in DOMAIN a.dims : a.dims[d] \in Dimension /\ b.dims[d] \in Dimension
      BY <2>2, <2>3 DEF JoinedAs, IsModel
    <3> QED
      BY <2>3, <3>1 DEF UnlimitedDims, Dimension
  <2>5. Kept(agg, b)
    <3>1. \A d \in DOMAIN agg.dims : d \in DOMAIN a.dims /\ a.dims[d] = agg.dims[d]
      BY <2>2 DEF JoinedAs, Grown
    <3>2. \A d \in DOMAIN agg.dims : b.dims[d].unlimited = agg.dims[d].unlimited /\ (~agg.dims[d].unlimited => b.dims[d] = agg.dims[d])
      BY <2>3, <2>4, <3>1 DEF UnlimitedDims
    <3> QED
      BY <1>2, <2>2, <2>3, <3>1, <3>2 DEF Kept, JoinedAs, Grown
  <2>6. readers = <<>> => \A v \in DOMAIN b.vars \ b.joinVars : First(file, b, v)
    <3> SUFFICES ASSUME readers = <<>>, NEW v \in DOMAIN b.vars \ b.joinVars PROVE First(file, b, v)
      OBVIOUS
    <3>1. First(file, a, v)
      BY <2>2, <2>3 DEF JoinedAs
    <3>2. \A d \in DimsOf(a.vars[v].shape) : d \in DOMAIN a.dims \ UnlimitedDims(a.dims)
      BY <1>2, <3>1 DEF First, UnlimitedDims
    <3> QED
      BY <2>3, <3>1, <3>2 DEF First
  <2>7. aggType = "joinExisting" => \A v \in b.joinVars \ agg.joinVars :
          /\ v \in DOMAIN b.vars \ DOMAIN agg.vars /\ Agrees(file, b, v)
          /\ UnlimitedDims(file.dims) = UnlimitedDims(b.dims) /\ UnlimitedDims(b.dims) # {}
    <3> SUFFICES ASSUME aggType = "joinExisting", NEW v \in b.joinVars \ agg.joinVars
                 PROVE  /\ v \in DOMAIN b.vars \ DOMAIN agg.vars /\ Agrees(file, b, v)
                        /\ UnlimitedDims(file.dims) = UnlimitedDims(b.dims) /\ UnlimitedDims(b.dims) # {}
      OBVIOUS
    <3>1. /\ v \in DOMAIN a.vars \ DOMAIN agg.vars /\ Agrees(file, a, v)
          /\ UnlimitedDims(file.dims) = UnlimitedDims(a.dims) /\ UnlimitedDims(a.dims) # {}
      BY <2>2, <2>3 DEF JoinedAs
    <3>2. \A d \in DimsOf(a.vars[v].shape) \ UnlimitedDims(file.dims) :
            d \in DOMAIN b.dims /\ b.dims[d].length = file.dims[d].length
      BY <2>3, <3>1 DEF Agrees
    <3> QED
      BY <2>3, <3>1, <3>2 DEF Agrees
  <2>8. aggType = "joinExisting" /\ readers # <<>> /\ Takes(file) =>
          \A j \in 1 .. Len(file.vars) : Handled(file, b, file.vars[j])
    <3> SUFFICES ASSUME aggType = "joinExisting", readers # <<>>, Takes(file), NEW j \in 1 .. Len(file.vars)
                 PROVE  Handled(file, b, file.vars[j])
      OBVIOUS
    <3> DEFINE w == file.vars[j]
    <3>1. Handled(file, a, w) /\ UnlimitedDims(a.dims) = UnlimitedDims(file.dims)
      BY <2>2 DEF JoinedAs
    <3> HIDE DEF w
    <3>2. \A d \in (DimsOf(w.shape) \ UnlimitedDims(file.dims)) \cap DOMAIN a.dims : d \in DOMAIN b.dims /\ b.dims[d] = a.dims[d]
      BY <2>3, <3>1
    <3>3. Handled(file, b, w)
      BY <2>3, <3>1, <3>2 DEF Handled
    <3> QED
      BY <3>3 DEF w
  <2>9. PreparedAs(file, b)
    BY <1>2, <2>2, <2>3, <2>5, <2>6, <2>7, <2>8 DEF JoinedAs, PreparedAs
  <2> QED
    BY <2>9 DEF b
<1> QED
  BY <1>1, <1>2

(* What grows after that keeps it. *)
LEMMA KeptWhenGrown ==
  ASSUME NEW a, NEW b, NEW c, Kept(a, b), Grown(b, c)
  PROVE  Kept(a, c)
BY DEF Kept, Grown

(* The first file is read for its variables that are not joined, ... *)
LEMMA FirstFileAdded ==
  ASSUME NEW file \in Files, NEW b, PreparedAs(file, b), SoFar, readers = <<>>,
         aggType \in {"joinExisting", "joinNew", "union"}
  PROVE  AddedAs(file, FirstUnion(b))
<1> DEFINE c == FirstUnion(b)
           found == [v \in DOMAIN b.vars \ b.joinVars |-> 1]
<1>1. c = [dims |-> b.dims, vars |-> b.vars, unionReaders |-> found, thrown |-> b.thrown, joinVars |-> b.joinVars]
  BY ChangedPart DEF FirstUnion, PreparedAs, IsModel
<1>2. DOMAIN found = DOMAIN b.vars \ b.joinVars /\ \A v \in DOMAIN found : found[v] = 1
  OBVIOUS
<1> HIDE DEF c, found
<1>3. c.dims = b.dims /\ c.vars = b.vars /\ c.unionReaders = found /\ c.thrown = FALSE /\ c.joinVars = b.joinVars
  BY <1>1 DEF PreparedAs
<1>4. IsModel(c)
  BY <1>1, <1>3 DEF IsModel, Fields, PreparedAs
<1>5. EachHasOneWay(c)
  BY <1>2, <1>3 DEF EachHasOneWay
<1>6. DOMAIN agg.unionReaders = {}
  BY DEF SoFar, EmptyAtFirst
<1>7. Kept(agg, c)
  BY <1>3, <1>6 DEF Kept, PreparedAs
<1>8. \A v \in DOMAIN found : c.unionReaders[v] = Len(readers) + 1 /\ ReadFrom(file, Len(readers) + 1, c, v)
  <2> SUFFICES ASSUME NEW v \in DOMAIN found
               PROVE  c.unionReaders[v] = Len(readers) + 1 /\ ReadFrom(file, Len(readers) + 1, c, v)
    OBVIOUS
  <2>1. Len(readers) + 1 = 1
    OBVIOUS
  <2>2. First(file, b, v) /\ v \in DOMAIN b.vars
    BY <1>2 DEF PreparedAs
  <2>3. ReadFrom(file, 1, c, v)
    BY <1>3, <2>2 DEF First, ReadFrom
  <2> QED
    BY <1>2, <1>3, <2>1, <2>3
<1>9. \A v \in c.joinVars \ agg.joinVars : aggType = "joinExisting" => Agrees(file, c, v) /\ v \in DOMAIN c.vars
  BY <1>3 DEF PreparedAs, Agrees
<1>10. AddedAs(file, c)
  BY <1>3, <1>4, <1>5, <1>7, <1>8, <1>9 DEF AddedAs, PreparedAs
<1> QED
  BY <1>10 DEF c

(* ... and a further file for those nobody else is read for. *)
LEMMA OtherFileAdded ==
  ASSUME NEW file \in Files, NEW b, PreparedAs(file, b), SoFar, EachHasOneWay(agg), readers # <<>>,
         aggType \in {"joinExisting", "joinNew", "union"}
  PROVE  AddedAs(file, OtherUnion(b, file))
<1> DEFINE c == OtherUnion(b, file)
           index == Len(readers) + 1
<1>1. EachHasOneWay(b)
  BY DEF EachHasOneWay, PreparedAs, Kept
<1>2. UnionStep(file, index, b, b)
  BY <1>1 DEF UnionStep, PreparedAs, Grown
<1>3. UnionStep(file, index, b, c)
  BY <1>2, VariablesUnited
<1> HIDE DEF c, index
<1>4. IsModel(c) /\ c.thrown = FALSE /\ EachHasOneWay(c) /\ Grown(b, c) /\ c.joinVars = b.joinVars
  BY <1>3 DEF UnionStep
<1>5. Kept(agg, c)
  BY <1>4, KeptWhenGrown DEF PreparedAs
<1>6. aggType # "union" => UnlimitedDims(c.dims) = UnlimitedDims(b.dims)
  <2> SUFFICES ASSUME aggType # "union" PROVE UnlimitedDims(b.dims) # {} \/ UnlimitedDims(file.dims) = {}
    BY <1>3 DEF UnionStep
  <2>1. CASE aggType = "joinNew"
    BY <2>1 DEF PreparedAs
  <2>2. CASE aggType = "joinExisting"
    BY <2>2 DEF PreparedAs, Takes, Joins
  <2> QED
    BY <2>1, <2>2
<1>7. \A d \in UnlimitedDims(b.dims) : c.dims[d] = b.dims[d]
  BY <1>4 DEF Grown, UnlimitedDims
<1>8. aggType = "joinExisting" => \A v \in c.joinVars \ agg.joinVars : Agrees(file, c, v) /\ v \in DOMAIN c.vars
  <2> SUFFICES ASSUME aggType = "joinExisting", NEW v \in c.joinVars \ agg.joinVars PROVE Agrees(file, c, v) /\ v \in DOMAIN c.vars
    OBVIOUS
  <2>1. v \in DOMAIN b.vars /\ Agrees(file, b, v)
    BY <1>4 DEF PreparedAs
  <2> QED
    BY <1>4, <2>1, AgreesWhenGrown DEF Grown
<1>9. aggType = "joinNew" =>
        \A v \in (DOMAIN c.vars \ DOMAIN agg.vars) \cap c.joinVars : Lengthened(c.vars[v].shape)
  <2> SUFFICES ASSUME aggType = "joinNew", NEW v \in (DOMAIN c.vars \ DOMAIN agg.vars) \cap c.joinVars
               PROVE  Lengthened(c.vars[v].shape)
    OBVIOUS
  <2>1. v \in DOMAIN b.vars
    BY <1>3, <1>4 DEF UnionStep, EachHasOneWay
  <2> QED
    BY <1>4, <2>1 DEF PreparedAs, Grown
<1>10. ASSUME aggType = "joinNew" => NewDimIsNew, NEW v \in DOMAIN c.unionReaders \ DOMAIN agg.unionReaders
       PROVE  c.unionReaders[v] = index /\ ReadFrom(file, index, c, v)
  <2>1. c.unionReaders[v] = index /\ TakenFrom(file, c, v)
    BY <1>3 DEF UnionStep, PreparedAs
  <2>2. PICK k \in 1 .. Len(file.vars) : file.vars[k].name = v /\ VariableOf(file, v) = file.vars[k]
    <3>1. PICK k \in DOMAIN file.vars : file.vars[k].name = v
      BY <2>1 DEF TakenFrom, HasVariable
    <3>2. k \in 1 .. Len(file.vars)
      BY FileFacts
    <3>3. VariableOf(file, file.vars[k].name) = file.vars[k]
      BY <3>2, FileFacts
    <3> QED
      BY <3>1, <3>2, <3>3
  <2> DEFINE w == file.vars[k]
  <2>3. c.vars[v].shape = w.shape /\ DimsOf(w.shape) \subseteq DOMAIN file.dims /\ w.name = v
    BY <2>1, <2>2, FileFacts DEF TakenFrom
  <2>4. aggType # "union" => \A d \in DimsOf(w.shape) : ~c.dims[d].unlimited
    <3> SUFFICES ASSUME aggType # "union", NEW d \in DimsOf(w.shape), c.dims[d].unlimited PROVE FALSE
      OBVIOUS
    <3>1. d \in DOMAIN c.dims /\ d \in DOMAIN file.dims /\ c.dims[d] = file.dims[d]
      BY <2>1, <2>3 DEF TakenFrom
    <3>2. d \in UnlimitedDims(c.dims) /\ d \in UnlimitedDims(file.dims) /\ d \in UnlimitedDims(b.dims)
      BY <1>6, <3>1 DEF UnlimitedDims
    <3>3. CASE aggType = "joinNew"
      <4>1. d = JoinNewDim
        BY <3>2, <3>3 DEF PreparedAs
      <4>2. k \in DOMAIN file.vars
        BY FileFacts
      <4> QED
        BY <1>10, <3>3, <4>1, <4>2 DEF NewDimIsNew
    <3>4. CASE aggType = "joinExisting" /\ Takes(file)
      <4>1. Handled(file, b, w)
        BY <3>4 DEF PreparedAs
      <4> HIDE DEF w
      <4>2. HasUnlimitedDim(file.dims, w.shape)
        BY <3>2 DEF HasUnlimitedDim
      <4>3. CASE w.name \in DOMAIN b.vars
        <5>1. v \in b.joinVars \cup DOMAIN b.unionReaders
          BY <1>1, <2>3, <4>3 DEF EachHasOneWay
        <5>2. v \notin c.joinVars /\ b.unionReaders = agg.unionReaders
          BY <1>4 DEF EachHasOneWay, PreparedAs
        <5> QED
          BY <1>4, <5>1, <5>2
      <4>4. CASE \E e \in (DimsOf(w.shape) \ UnlimitedDims(file.dims)) \cap DOMAIN b.dims : b.dims[e].length # file.dims[e].length
        <5>1. PICK e \in DimsOf(w.shape) \cap DOMAIN b.dims : b.dims[e].length # file.dims[e].length
          BY <4>4
        <5>2. c.dims[e] = b.dims[e] /\ c.dims[e] = file.dims[e]
          BY <1>4, <2>1, <2>3, <5>1 DEF Grown, TakenFrom
        <5> QED
          BY <5>1, <5>2
      <4> QED
        BY <4>1, <4>2, <4>3, <4>4 DEF Handled
    <3>5. CASE aggType = "joinExisting" /\ ~Takes(file)
      <4>1. d \in UnlimitedDims(agg.dims)
        BY <3>2, <3>5 DEF PreparedAs
      <4>2. UnlimitedDims(agg.dims) = {d} /\ UnlimitedDims(file.dims) = {d}
        <5>1. \A e \in UnlimitedDims(agg.dims) : e = d
          BY <3>5, <4>1 DEF SoFar
        <5>2. \A e \in UnlimitedDims(file.dims) : e = d
          BY <3>2, FileFacts, ZenonT(60)
        <5> QED
          BY <3>2, <4>1, <5>1, <5>2
      <4> QED
        BY <3>5, <4>2 DEF Takes, Joins
    <3> QED
      BY <3>3, <3>4, <3>5
  <2> HIDE DEF w
  <2>5. \A d \in DimsOf(c.vars[v].shape) : /\ d \in DOMAIN c.dims /\ c.dims[d] = file.dims[d]
                                           /\ aggType # "union" => ~c.dims[d].unlimited
    BY <2>1, <2>3, <2>4 DEF TakenFrom
  <2> QED
    BY <2>1, <2>5 DEF ReadFrom, TakenFrom
<1>11. aggType = "joinExisting" =>
         /\ UnlimitedDims(c.dims) = IF Takes(file) THEN UnlimitedDims(file.dims) ELSE UnlimitedDims(agg.dims)
         /\ \A v \in c.joinVars \ agg.joinVars :
              /\ v \in DOMAIN c.vars /\ Agrees(file, c, v)
              /\ UnlimitedDims(file.dims) = UnlimitedDims(c.dims) /\ UnlimitedDims(c.dims) # {}
  BY <1>4, <1>6, <1>8 DEF PreparedAs
<1>12. aggType # "union" => /\ \A d, e \in UnlimitedDims(c.dims) : d = e
                            /\ \A d \in UnlimitedDims(c.dims) : c.dims[d].length = Extended(file)
  BY <1>6, <1>7 DEF PreparedAs
<1>13. aggType = "joinNew" => UnlimitedDims(c.dims) = {JoinNewDim}
  BY <1>6 DEF PreparedAs
<1>14. AddedAs(file, c)
  BY <1>4, <1>5, <1>9, <1>10, <1>11, <1>12, <1>13 DEF AddedAs, index
<1> QED
  BY <1>14 DEF c

-----------------------------------------------------------------------------
(* The data model along a behaviour.                                       *)

LengthIsTheEnd ==
  aggType # "union" =>
    /\ \A d \in UnlimitedDims(agg.dims) : agg.dims[d].length = EndOfPositions
    /\ UnlimitedDims(agg.dims) = {} => EndOfPositions = 0
SameUnlimitedDim ==
  aggType = "joinExisting" =>
    \A i \in DOMAIN readers :
      shares[i].from < shares[i].upto => UnlimitedDims(readers[i].dims) = UnlimitedDims(agg.dims)
OneWay ==
  /\ phase = "adding" => EachHasOneWay(agg)
  /\ \A v \in DOMAIN agg.vars : agg.vars[v].memory \/ v \in agg.joinVars \cup DOMAIN agg.unionReaders
  /\ agg.joinVars \cap DOMAIN agg.unionReaders = {}
JoinedSomewhere ==
  aggType = "joinExisting" =>
    \A v \in agg.joinVars :
      /\ v \in DOMAIN agg.vars
      /\ \E i \in DOMAIN readers :
           /\ Agrees(readers[i], agg, v)
           /\ UnlimitedDims(readers[i].dims) = UnlimitedDims(agg.dims) /\ UnlimitedDims(agg.dims) # {}
UnionTaken ==
  (aggType = "joinNew" => NewDimIsNew) =>
    \A v \in DOMAIN agg.unionReaders :
      /\ agg.unionReaders[v] \in DOMAIN readers
      /\ ReadFrom(readers[agg.unionReaders[v]], agg.unionReaders[v], agg, v)
LengthenedJoin ==
  aggType = "joinNew" => \A v \in agg.joinVars \cap DOMAIN agg.vars : Lengthened(agg.vars[v].shape)

ModelInv ==
  InStep => SoFar /\ LengthIsTheEnd /\ SameUnlimitedDim /\ OneWay /\ JoinedSomewhere
            /\ UnionTaken /\ LengthenedJoin

(* A file added with its positions: everything of it is in the model. *)
LEMMA FileAdded ==
  ASSUME TablesInv, ModelInv, AddReader, InStep'
  PROVE  LET file == Head(pending)
         IN  /\ file \in Files /\ InStep
             /\ AddedAs(file, agg')
             /\ aggType # "union" => /\ Extends(file) /\ CoordsFit(file)
                                     /\ EndOfPositions' = Extended(file)
<1> DEFINE file == Head(pending)
           n == Len(readers)
           k == Len(readerUdimPos)
           b == Prepared(file)
           c == AfterAdding(file)
<1>1. /\ file \in Files
      /\ n \in Nat /\ k \in Nat /\ k <= n
      /\ readers \in Seq(Files) /\ readerUdimPos \in Seq(Nat)
      /\ aggType \in {"joinExisting", "joinNew", "union"}
  BY AggTypesAssumption DEF AddReader, TablesInv, TablesTyped
<1>2. /\ readers' = Append(readers, file)
      /\ readerUdimPos' = IF Extends(file) THEN Append(readerUdimPos, Extended(file)) ELSE readerUdimPos
      /\ agg' = [c EXCEPT !.thrown = FALSE]
      /\ c.thrown => file.scanned
      /\ aggType' = aggType /\ phase = "adding"
  BY DEF AddReader
<1>3. Length(file) \in Nat /\ Extended(file) \in Nat
  BY <1>1, LengthIsNatural, EndIsLast DEF Extended
<1> HIDE DEF file, b, c
<1>4. aggType # "union" => Extends(file) /\ k = n
  BY <1>1, <1>2, <1>3 DEF InStep
<1>5. InStep
  BY <1>4 DEF InStep
<1>6. SoFar /\ EachHasOneWay(agg)
  BY <1>2, <1>5 DEF ModelInv, OneWay
<1>7. aggType # "union" => EndOfPositions' = Extended(file)
  <2> SUFFICES ASSUME aggType # "union" PROVE EndOfPositions' = Extended(file)
    OBVIOUS
  <2>1. readerUdimPos' = Append(readerUdimPos, Extended(file))
    BY <1>2, <1>4
  <2>2. Len(readerUdimPos') = k + 1 /\ readerUdimPos'[k + 1] = Extended(file) /\ readerUdimPos' # <<>>
    BY <1>1, <1>3, <2>1
  <2> QED
    BY <2>2 DEF EndOfPositions, Last
<1>8. ~Joined(file).thrown
  <2>1. CASE aggType # "union"
    BY <1>4, <2>1 DEF Extends
  <2>2. CASE aggType = "union"
    BY <1>6, <2>2 DEF Joined, FirstJoined, OtherJoined, Model, SoFar
  <2> QED
    BY <2>1, <2>2
<1>9. PreparedAs(file, b)
  BY <1>1, <1>3, <1>6, <1>8, FileJoined, FilePrepared DEF b
<1>10. b = IF Extends(file) THEN WithLength(Joined(file), Extended(file)) ELSE Joined(file)
  <2>1. aggType = "union" => ~Extends(file)
    BY DEF Extends
  <2> QED
    BY <1>4, <2>1 DEF b, Prepared
<1>11. aggType # "union" => CoordsFit(file)
  <2> SUFFICES ASSUME aggType # "union", ~CoordsFit(file) PROVE FALSE
    OBVIOUS
  <2>1. c = Thrown(b)
    BY <1>4, <1>10 DEF AfterAdding, c
  <2>2. c.thrown
    BY <1>9, <2>1, ChangedPart DEF Thrown, PreparedAs, IsModel
  <2>3. file.scanned
    BY <1>2, <2>2
  <2> QED
    BY <1>1, <2>3 DEF CoordsFit, CoordValues, Length
<1>12. c = IF readers = <<>> THEN FirstUnion(b) ELSE OtherUnion(b, file)
  <2>1. ~(b.thrown \/ (Extends(file) /\ ~CoordsFit(file)))
    BY <1>9, <1>11 DEF PreparedAs, Extends
  <2> QED
    BY <1>10, <2>1 DEF AfterAdding, c
<1>13. AddedAs(file, c)
  BY <1>1, <1>6, <1>9, <1>12, FirstFileAdded, OtherFileAdded
<1>14. agg' = c
  <2>1. Fields(c) /\ c.thrown = FALSE
    BY <1>13 DEF AddedAs, IsModel
  <2>2. [c EXCEPT !.thrown = FALSE] = c
    BY <2>1, ChangedPart DEF Fields
  <2> QED
    BY <1>2, <2>2
<1> QED
  BY <1>1, <1>4, <1>5, <1>7, <1>11, <1>13, <1>14 DEF file

(* A file added with its positions keeps the model as it should be. *)
LEMMA AddReaderKeepsModel ==
  ASSUME TablesInv, ModelInv, AddReader, InStep'
  PROVE  (SoFar /\ LengthIsTheEnd /\ SameUnlimitedDim /\ OneWay /\ JoinedSomewhere /\ UnionTaken /\ LengthenedJoin)'
<1> DEFINE file == Head(pending)
           n == Len(readers)
           added == IF Joined(file).thrown THEN 0 ELSE Length(file)
<1>1. /\ file \in Files /\ InStep /\ AddedAs(file, agg')
      /\ aggType # "union" => Extends(file) /\ CoordsFit(file) /\ EndOfPositions' = Extended(file)
  BY FileAdded
<1>2. SoFar /\ LengthIsTheEnd /\ SameUnlimitedDim /\ OneWay /\ JoinedSomewhere /\ UnionTaken /\ LengthenedJoin
  BY <1>1 DEF ModelInv
<1>3. /\ n \in Nat /\ readers \in Seq(Files) /\ shares \in Seq(Share) /\ Len(shares) = n
      /\ aggType \in {"joinExisting", "joinNew", "union"}
  BY AggTypesAssumption DEF TablesInv, TablesTyped
<1>4. /\ readers' = Append(readers, file)
      /\ shares' = Append(shares, [from |-> EndOfPositions, upto |-> EndOfPositions + added])
      /\ aggType' = aggType /\ phase = "adding" /\ phase' = "adding"
  BY DEF AddReader
<1>5. Length(file) \in Nat /\ EndOfPositions \in Nat /\ Extended(file) = EndOfPositions + Length(file)
  BY <1>1, LengthIsNatural, EndIsLast DEF Extended
<1>6. aggType # "union" => added = Length(file)
  BY <1>1 DEF Extends
<1>7. readers = <<>> => UnlimitedDims(agg.dims) = {}
  BY <1>2 DEF SoFar, EmptyAtFirst, UnlimitedDims
<1> HIDE DEF file, added
<1>8. /\ Len(readers') = n + 1 /\ DOMAIN readers' = 1 .. n + 1 /\ readers'[n + 1] = file
      /\ DOMAIN readers = 1 .. n /\ \A i \in 1 .. n : readers'[i] = readers[i] /\ shares'[i] = shares[i]
      /\ shares'[n + 1] = [from |-> EndOfPositions, upto |-> EndOfPositions + added]
      /\ readers' # <<>>
  BY <1>3, <1>4
<1>9. aggType = "joinExisting" /\ UnlimitedDims(agg.dims) # {} => UnlimitedDims(agg'.dims) = UnlimitedDims(agg.dims)
  BY <1>1, <1>7 DEF AddedAs, Takes, Joins
<1>10. SoFar'
  BY <1>1, <1>4, <1>8 DEF AddedAs, SoFar, EmptyAtFirst
<1>11. LengthIsTheEnd'
  <2>1. ASSUME aggType # "union", UnlimitedDims(agg'.dims) = {} PROVE Extended(file) = 0
    <3>1. aggType = "joinExisting"
      BY <1>1, <1>3, <2>1 DEF AddedAs
    <3>2. ~Takes(file) /\ UnlimitedDims(agg.dims) = {}
      BY <1>1, <2>1, <3>1 DEF AddedAs, Takes, Joins
    <3>3. Length(file) = 0
      BY <3>1, <3>2 DEF Length
    <3> QED
      BY <1>2, <1>5, <2>1, <3>2, <3>3 DEF LengthIsTheEnd
  <2> QED
    BY <1>1, <1>4, <2>1 DEF LengthIsTheEnd, AddedAs
<1>12. SameUnlimitedDim'
  <2> SUFFICES ASSUME aggType = "joinExisting", NEW i \in 1 .. n + 1, shares'[i].from < shares'[i].upto
               PROVE  UnlimitedDims(readers'[i].dims) = UnlimitedDims(agg'.dims)
    BY <1>4, <1>8 DEF SameUnlimitedDim
  <2>1. CASE i = n + 1
    <3>1. Length(file) # 0
      BY <1>5, <1>6, <1>8, <2>1
    <3>2. Takes(file)
      BY <3>1 DEF Length
    <3> QED
      BY <1>1, <1>8, <2>1, <3>2 DEF AddedAs
  <2>2. CASE i # n + 1
    <3>1. i \in 1 .. n /\ shares[i].from < shares[i].upto /\ readers'[i] = readers[i]
      BY <1>3, <1>8, <2>2
    <3>2. UnlimitedDims(readers[i].dims) = UnlimitedDims(agg.dims)
      BY <1>2, <1>8, <3>1 DEF SameUnlimitedDim
    <3>3. EndOfPositions # 0
      <4>1. shares[i].upto = readerUdimPos[i] /\ i \in DOMAIN readerUdimPos
        BY <1>1, <1>3, <3>1 DEF InStep, TablesInv, TablesTyped, SharesAreTheTable
      <4>2. readerUdimPos[i] <= EndOfPositions /\ readerUdimPos[i] \in Nat
        BY <4>1, EndIsLast DEF TablesInv, TablesTyped
      <4>3. shares[i].from \in Nat
        <5>1. shares[i] \in Share
          BY <1>3, <3>1
        <5> QED
          BY <5>1 DEF Share
      <4> QED
        BY <1>5, <3>1, <4>1, <4>2, <4>3
    <3>4. UnlimitedDims(agg.dims) # {}
      BY <1>2, <3>3 DEF LengthIsTheEnd
    <3> QED
      BY <1>9, <3>1, <3>2, <3>4
  <2> QED
    BY <2>1, <2>2
<1>13. OneWay'
  BY <1>1 DEF OneWay, AddedAs, EachHasOneWay
<1>14. JoinedSomewhere'
  <2> SUFFICES ASSUME aggType = "joinExisting", NEW v \in agg'.joinVars
               PROVE  /\ v \in DOMAIN agg'.vars
                      /\ \E i \in DOMAIN readers' :
                           /\ Agrees(readers'[i], agg', v)
                           /\ UnlimitedDims(readers'[i].dims) = UnlimitedDims(agg'.dims) /\ UnlimitedDims(agg'.dims) # {}
    BY <1>4 DEF JoinedSomewhere, Agrees, HasVariable, VariableOf, UnlimitedDims, DimsOf
  <2>1. CASE v \notin agg.joinVars
    BY <1>1, <1>3, <1>8, <2>1 DEF AddedAs
  <2>2. CASE v \in agg.joinVars
    <3>1. PICK i \in 1 .. n : /\ Agrees(readers[i], agg, v)
                              /\ UnlimitedDims(readers[i].dims) = UnlimitedDims(agg.dims) /\ UnlimitedDims(agg.dims) # {}
      BY <1>2, <1>8, <2>2 DEF JoinedSomewhere
    <3>2. v \in DOMAIN agg.vars /\ Kept(agg, agg')
      BY <1>1, <1>2, <2>2 DEF JoinedSomewhere, AddedAs
    <3>3. \A d \in DOMAIN agg.dims \ UnlimitedDims(agg.dims) : d \in DOMAIN agg'.dims /\ agg'.dims[d] = agg.dims[d]
      BY <3>2 DEF Kept, UnlimitedDims
    <3>4. agg'.vars[v] = agg.vars[v] /\ v \in DOMAIN agg'.vars
      BY <3>2 DEF Kept
    <3>5. Agrees(readers[i], agg', v)
      BY <3>1, <3>3, <3>4 DEF Agrees
    <3>6. UnlimitedDims(agg'.dims) = UnlimitedDims(agg.dims)
      BY <1>9, <3>1
    <3> QED
      BY <1>3, <1>8, <3>1, <3>4, <3>5, <3>6
  <2> QED
    BY <2>1, <2>2
<1>15. UnionTaken'
  <2> SUFFICES ASSUME aggType = "joinNew" => NewDimIsNew, NEW v \in DOMAIN agg'.unionReaders
               PROVE  LET i == agg'.unionReaders[v]
                      IN  i \in DOMAIN readers' /\ ReadFrom(readers'[i], i, agg', v)
    BY <1>4 DEF UnionTaken, ReadFrom, NewDimIsNew
  <2>1. CASE v \notin DOMAIN agg.unionReaders
    <3>1. agg'.unionReaders[v] = n + 1 /\ ReadFrom(file, n + 1, agg', v)
      BY <1>1, <2>1 DEF AddedAs
    <3> QED
      BY <1>3, <1>8, <3>1
  <2>2. CASE v \in DOMAIN agg.unionReaders
    <3> DEFINE i == agg.unionReaders[v]
    <3>1. i \in 1 .. n /\ ReadFrom(readers[i], i, agg, v)
      BY <1>2, <1>8, <2>2 DEF UnionTaken
    <3>2. Kept(agg, agg')
      BY <1>1 DEF AddedAs
    <3>3. agg'.unionReaders[v] = i /\ agg'.vars[v] = agg.vars[v] /\ v \in DOMAIN agg'.vars
      BY <2>2, <3>1, <3>2 DEF Kept, ReadFrom
    <3> HIDE DEF i
    <3>4. \A d \in DimsOf(agg.vars[v].shape) : d \in DOMAIN agg'.dims /\ agg'.dims[d] = agg.dims[d]
      BY <3>1, <3>2 DEF Kept, ReadFrom
    <3>5. ReadFrom(readers[i], i, agg', v)
      BY <3>1, <3>3, <3>4 DEF ReadFrom
    <3> QED
      BY <1>3, <1>8, <3>1, <3>3, <3>5
  <2> QED
    BY <2>1, <2>2
<1>16. LengthenedJoin'
  <2> SUFFICES ASSUME aggType = "joinNew", NEW v \in agg'.joinVars \cap DOMAIN agg'.vars
               PROVE  Lengthened(agg'.vars[v].shape)
    BY <1>4 DEF LengthenedJoin, Lengthened, DimsOf, NewDimIsNew
  <2>1. CASE v \notin DOMAIN agg.vars
    BY <1>1, <2>1 DEF AddedAs
  <2>2. CASE v \in DOMAIN agg.vars
    <3>1. agg'.vars[v] = agg.vars[v]
      BY <1>1, <2>2 DEF AddedAs, Kept
    <3>2. v \notin DOMAIN agg'.unionReaders
      BY <1>1 DEF AddedAs, EachHasOneWay
    <3>3. v \in agg.joinVars \cup DOMAIN agg.unionReaders
      BY <1>2, <1>4, <2>2 DEF OneWay, EachHasOneWay
    <3>4. v \in agg.joinVars
      BY <1>1, <3>2, <3>3 DEF AddedAs, Kept
    <3> QED
      BY <1>2, <2>2, <3>1, <3>4 DEF LengthenedJoin
  <2> QED
    BY <2>1, <2>2
<1> QED
  BY <1>10, <1>11, <1>12, <1>13, <1>14, <1>15, <1>16

(* Each value of the join dimension belongs to a file. *)
CoordsTyped ==
  /\ joinCoordValues \in Seq(Nat \X Nat)
  /\ \A k \in DOMAIN joinCoordValues : joinCoordValues[k][1] \in DOMAIN readers
Given(i) == \E k \in DOMAIN joinCoordValues : joinCoordValues[k][1] = i
CoordsInPlace ==
  /\ aggType = "union" => joinCoordValues = <<>>
  /\ InStep /\ aggType # "union" /\ (\A i \in DOMAIN readers : shares[i].from < shares[i].upto => Given(i)) =>
       /\ Len(joinCoordValues) = EndOfPositions
       /\ \A i \in DOMAIN readers : \A p \in shares[i].from .. shares[i].upto - 1 :
            joinCoordValues[p + 1] = <<i, p - shares[i].from + 1>>

(* The coordinates are announced: only their variable may be new, and only   *)
(* data in memory are.                                                       *)
LEMMA InitAggregationKeepsModel ==
  ASSUME TablesInv, CoordsTyped, ModelInv, InitAggregation, InStep
  PROVE  (SoFar /\ LengthIsTheEnd /\ SameUnlimitedDim /\ OneWay /\ JoinedSomewhere /\ UnionTaken /\ LengthenedJoin)'
<1>1. SoFar /\ LengthIsTheEnd /\ SameUnlimitedDim /\ OneWay /\ JoinedSomewhere /\ UnionTaken /\ LengthenedJoin
  BY DEF ModelInv
<1>2. /\ aggType' = aggType /\ readers' = readers /\ readerUdimPos' = readerUdimPos /\ shares' = shares
      /\ phase = "adding" /\ phase' # "adding"
  BY DEF InitAggregation
<1>3. /\ IsModel(agg') /\ agg'.dims = agg.dims /\ agg'.joinVars = agg.joinVars
      /\ agg'.unionReaders = agg.unionReaders /\ agg'.thrown = FALSE
      /\ \A v \in DOMAIN agg.vars : v \in DOMAIN agg'.vars /\ agg'.vars[v].shape = agg.vars[v].shape
      /\ \A v \in DOMAIN agg'.vars \ DOMAIN agg.vars : agg'.vars[v].memory /\ agg'.vars[v].shape = <<JoinNewDim>>
      /\ readers = <<>> => DOMAIN agg'.vars = DOMAIN agg.vars
  <2>1. CASE UNCHANGED agg
    BY <1>1, <2>1 DEF SoFar
  <2>2. CASE agg' = WithVariable(agg, [name |-> JoinNewDim, shape |-> <<JoinNewDim>>, memory |-> TRUE])
             /\ JoinNewDim \notin DOMAIN agg.vars /\ joinCoordValues # <<>> /\ aggType = "joinNew"
    <3> DEFINE v == [name |-> JoinNewDim, shape |-> <<JoinNewDim>>, memory |-> TRUE]
               b == WithVariable(agg, v)
    <3>1. v.name = JoinNewDim /\ v.shape = <<JoinNewDim>> /\ v.memory = TRUE
      OBVIOUS
    <3> HIDE DEF v
    <3>2. /\ IsModel(b) /\ Grown(agg, b)
          /\ b.dims = agg.dims /\ b.unionReaders = agg.unionReaders /\ b.thrown = agg.thrown /\ b.joinVars = agg.joinVars
          /\ DOMAIN b.vars = DOMAIN agg.vars \cup {v.name}
          /\ b.vars[v.name] = [shape |-> v.shape, memory |-> v.memory]
      BY <1>1, <2>2, <3>1, VariableAdded DEF SoFar
    <3> HIDE DEF b
    <3>3. agg' = b
      BY <2>2 DEF b, v
    <3>4. b.vars[JoinNewDim].memory /\ b.vars[JoinNewDim].shape = <<JoinNewDim>> /\ DOMAIN b.vars = DOMAIN agg.vars \cup {JoinNewDim}
      BY <3>1, <3>2
    <3>5. readers # <<>>
      BY <2>2 DEF CoordsTyped
    <3> QED
      BY <1>1, <3>2, <3>3, <3>4, <3>5 DEF Grown, SoFar
  <2>3. CASE \E known : agg' = [agg EXCEPT !.vars = [v \in DOMAIN @ |-> IF v \in known THEN [@[v] EXCEPT !.memory = TRUE] ELSE @[v]]]
    <3>1. PICK known : agg' = [agg EXCEPT !.vars = [v \in DOMAIN @ |-> IF v \in known THEN [@[v] EXCEPT !.memory = TRUE] ELSE @[v]]]
      BY <2>3
    <3> DEFINE vs == [v \in DOMAIN agg.vars |-> IF v \in known THEN [agg.vars[v] EXCEPT !.memory = TRUE] ELSE agg.vars[v]]
    <3>2. agg' = [dims |-> agg.dims, vars |-> vs, unionReaders |-> agg.unionReaders, thrown |-> agg.thrown, joinVars |-> agg.joinVars]
      BY <1>1, <3>1, ChangedPart DEF SoFar, IsModel
    <3>3. \A v \in DOMAIN agg.vars : agg.vars[v] = [shape |-> agg.vars[v].shape, memory |-> agg.vars[v].memory]
      BY <1>1 DEF SoFar, IsModel
    <3>4. DOMAIN vs = DOMAIN agg.vars /\ \A v \in DOMAIN agg.vars :
            vs[v] = [shape |-> agg.vars[v].shape, memory |-> vs[v].memory]
      <4> SUFFICES ASSUME NEW v \in DOMAIN agg.vars PROVE vs[v] = [shape |-> agg.vars[v].shape, memory |-> vs[v].memory]
        OBVIOUS
      <4> DEFINE shape == agg.vars[v].shape
                 memory == agg.vars[v].memory
                 r == [shape |-> shape, memory |-> memory]
      <4>1. agg.vars[v] = r
        BY <3>3
      <4>2. vs[v] = IF v \in known THEN [agg.vars[v] EXCEPT !.memory = TRUE] ELSE agg.vars[v]
        OBVIOUS
      <4>3. [r EXCEPT !.memory = TRUE] = [shape |-> shape, memory |-> TRUE]
        <5> HIDE DEF shape, memory
        <5>1. \A y : [r EXCEPT !.memory = y] = [shape |-> shape, memory |-> y]
          OBVIOUS
        <5> HIDE DEF r
        <5> QED
          BY <5>1, Zenon
      <4>4. r = [shape |-> shape, memory |-> memory]
        OBVIOUS
      <4> HIDE DEF r, vs
      <4>5. [agg.vars[v] EXCEPT !.memory = TRUE] = [r EXCEPT !.memory = TRUE]
        BY <4>1
      <4>6. vs[v] = [shape |-> shape, memory |-> IF v \in known THEN TRUE ELSE memory]
        BY <4>1, <4>2, <4>3, <4>4, <4>5
      <4> HIDE DEF shape, memory
      <4>7. vs[v] = [shape |-> shape, memory |-> vs[v].memory]
        BY <4>6
      <4> QED
        BY <4>7 DEF shape
    <3>7. \A v \in DOMAIN agg.vars : vs[v].shape = agg.vars[v].shape
      BY <3>4
    <3> HIDE DEF vs
    <3>5. agg'.vars = vs /\ agg'.dims = agg.dims /\ agg'.unionReaders = agg.unionReaders /\ agg'.thrown = agg.thrown /\ agg'.joinVars = agg.joinVars
      BY <3>2
    <3>6. IsModel(agg')
      BY <1>1, <3>2, <3>4, <3>5 DEF IsModel, Fields, SoFar
    <3> QED
      BY <1>1, <3>4, <3>5, <3>6, <3>7 DEF SoFar
  <2> QED
    <3> DEFINE name == IF aggType = "joinNew" THEN {JoinNewDim} ELSE UnlimitedDims(agg.dims)
               known == name \cap DOMAIN agg.vars
    <3>1. \/ UNCHANGED agg
          \/ /\ joinCoordValues # <<>> /\ aggType = "joinNew" /\ known = {}
             /\ agg' = WithVariable(agg, [name |-> JoinNewDim, shape |-> <<JoinNewDim>>, memory |-> TRUE])
          \/ agg' = [agg EXCEPT !.vars = [v \in DOMAIN @ |-> IF v \in known THEN [@[v] EXCEPT !.memory = TRUE] ELSE @[v]]]
      BY DEF InitAggregation
    <3>2. aggType = "joinNew" /\ known = {} => JoinNewDim \notin DOMAIN agg.vars
      OBVIOUS
    <3> HIDE DEF known
    <3> QED
      BY <2>1, <2>2, <2>3, <3>1, <3>2
<1>4. \A v \in agg.joinVars : aggType = "joinExisting" => v \in DOMAIN agg.vars
  BY <1>1 DEF JoinedSomewhere
<1>5. SoFar'
  BY <1>1, <1>2, <1>3 DEF SoFar, EmptyAtFirst
<1>6. LengthIsTheEnd' /\ SameUnlimitedDim'
  BY <1>1, <1>2, <1>3 DEF LengthIsTheEnd, SameUnlimitedDim, EndOfPositions
<1>7. OneWay'
  <2>1. DOMAIN agg.vars \subseteq agg.joinVars \cup DOMAIN agg.unionReaders
    BY <1>1, <1>2 DEF OneWay, EachHasOneWay
  <2> QED
    BY <1>1, <1>2, <1>3, <2>1 DEF OneWay
<1>8. JoinedSomewhere'
  <2> SUFFICES ASSUME aggType = "joinExisting", NEW v \in agg'.joinVars
               PROVE  /\ v \in DOMAIN agg'.vars
                      /\ \E i \in DOMAIN readers' :
                           /\ Agrees(readers'[i], agg', v)
                           /\ UnlimitedDims(readers'[i].dims) = UnlimitedDims(agg'.dims) /\ UnlimitedDims(agg'.dims) # {}
    BY <1>2 DEF JoinedSomewhere, Agrees, HasVariable, VariableOf, UnlimitedDims, DimsOf
  <2>1. PICK i \in DOMAIN readers :
          /\ Agrees(readers[i], agg, v)
          /\ UnlimitedDims(readers[i].dims) = UnlimitedDims(agg.dims) /\ UnlimitedDims(agg.dims) # {}
    BY <1>1, <1>3 DEF JoinedSomewhere
  <2>2. Agrees(readers[i], agg', v)
    BY <1>3, <1>4, <2>1 DEF Agrees
  <2> QED
    BY <1>2, <1>3, <1>4, <2>1, <2>2
<1>9. UnionTaken'
  <2> SUFFICES ASSUME aggType = "joinNew" => NewDimIsNew, NEW v \in DOMAIN agg.unionReaders
               PROVE  LET i == agg.unionReaders[v]
                      IN  i \in DOMAIN readers /\ ReadFrom(readers[i], i, agg', v)
    BY <1>2, <1>3 DEF UnionTaken, ReadFrom, NewDimIsNew
  <2>1. agg.unionReaders[v] \in DOMAIN readers /\ ReadFrom(readers[agg.unionReaders[v]], agg.unionReaders[v], agg, v)
    BY <1>1 DEF UnionTaken
  <2> QED
    BY <1>3, <2>1 DEF ReadFrom
<1>10. LengthenedJoin'
  <2> SUFFICES ASSUME aggType = "joinNew", NEW v \in agg'.joinVars \cap DOMAIN agg'.vars
               PROVE  Lengthened(agg'.vars[v].shape)
    BY <1>2 DEF LengthenedJoin, Lengthened, DimsOf, NewDimIsNew
  <2>1. CASE v \in DOMAIN agg.vars
    BY <1>1, <1>3, <2>1 DEF LengthenedJoin
  <2>2. CASE v \notin DOMAIN agg.vars
    <3>1. agg'.vars[v].shape = <<JoinNewDim>>
      BY <1>3, <2>2
    <3>2. <<>> \in Seq(DimsOf(<<>>)) /\ <<JoinNewDim>> = Append(<<>>, JoinNewDim) /\ JoinNewDim \notin DimsOf(<<>>)
      BY DEF DimsOf
    <3> QED
      BY <3>1, <3>2 DEF Lengthened
  <2> QED
    BY <2>1, <2>2
<1> QED
  BY <1>5, <1>6, <1>7, <1>8, <1>9, <1>10

(* A file gives a number of coordinate values. *)
LEMMA ValuesAreCounted ==
  ASSUME NEW file \in Files
  PROVE  CoordValues(file) \in Nat
BY FileFacts DEF CoordValues

(* The values of a file are put behind those of the files before. *)
LEMMA AddReaderKeepsCoords ==
  ASSUME TablesInv, ModelInv, CoordsTyped, CoordsInPlace, AddReader
  PROVE  CoordsTyped' /\ CoordsInPlace'
<1> DEFINE file == Head(pending)
           n == Len(readers)
           m == CoordValues(file)
           c == IF Extends(file) THEN m ELSE 0
           new == [k \in 1 .. m |-> <<n + 1, k>>]
           added == IF Joined(file).thrown THEN 0 ELSE Length(file)
<1>1. /\ file \in Files /\ n \in Nat /\ readers \in Seq(Files) /\ shares \in Seq(Share) /\ Len(shares) = n
      /\ joinCoordValues \in Seq(Nat \X Nat)
      /\ \A k \in DOMAIN joinCoordValues : joinCoordValues[k][1] \in 1 .. n
  BY DEF AddReader, TablesInv, TablesTyped, CoordsTyped
<1>2. m \in Nat
  BY <1>1, ValuesAreCounted
<1>3. /\ readers' = Append(readers, file)
      /\ shares' = Append(shares, [from |-> EndOfPositions, upto |-> EndOfPositions + added])
      /\ aggType' = aggType
  BY DEF AddReader
<1>4. Len(readers') = n + 1
  BY <1>1, <1>3
<1>5. joinCoordValues' = joinCoordValues \o (IF Extends(file) THEN new ELSE <<>>)
  BY <1>4 DEF AddReader
<1>6. new \in Seq(Nat \X Nat) /\ Len(new) = m /\ \A k \in 1 .. m : new[k] = <<n + 1, k>>
  <2>1. \A k \in 1 .. m : <<n + 1, k>> \in Nat \X Nat
    BY <1>1
  <2> HIDE DEF m
  <2> QED
    BY <1>2, <2>1
<1> HIDE DEF file, added
<1> DEFINE l == Len(joinCoordValues)
<1>7. /\ joinCoordValues' \in Seq(Nat \X Nat) /\ l \in Nat /\ c \in Nat
      /\ Len(joinCoordValues') = l + c
      /\ DOMAIN joinCoordValues' = 1 .. l + c /\ DOMAIN joinCoordValues = 1 .. l
      /\ \A k \in 1 .. l : joinCoordValues'[k] = joinCoordValues[k]
      /\ \A k \in 1 .. c : joinCoordValues'[l + k] = <<n + 1, k>>
  <2>1. CASE Extends(file)
    <3>1. joinCoordValues' = joinCoordValues \o new /\ c = m
      BY <1>5, <2>1
    <3>2. l \in Nat /\ DOMAIN joinCoordValues = 1 .. l
      BY <1>1
    <3> HIDE DEF c, m, new
    <3>3. joinCoordValues' \in Seq(Nat \X Nat) /\ Len(joinCoordValues') = l + m /\ DOMAIN joinCoordValues' = 1 .. l + m
      <4> DEFINE T == Nat \X Nat
      <4>1. joinCoordValues \in Seq(T) /\ new \in Seq(T) /\ Len(new) = m
        BY <1>1, <1>6
      <4> HIDE DEF T
      <4>2. joinCoordValues' \in Seq(T) /\ Len(joinCoordValues') = l + m
        <5> DEFINE s == joinCoordValues
        <5>1. s \o new \in Seq(T)
          BY <4>1
        <5>2. Len(s \o new) = Len(s) + Len(new)
          BY <4>1
        <5> QED
          BY <3>1, <4>1, <5>1, <5>2
      <4>3. DOMAIN joinCoordValues' = 1 .. Len(joinCoordValues')
        BY <4>2
      <4> QED
        BY <4>2, <4>3 DEF T
    <3>4. \A k \in 1 .. l : joinCoordValues'[k] = joinCoordValues[k]
      BY <1>1, <1>2, <1>6, <3>1
    <3>5. \A k \in 1 .. m : joinCoordValues'[l + k] = new[k]
      BY <1>1, <1>2, <1>6, <3>1
    <3> QED
      BY <1>2, <1>6, <3>1, <3>2, <3>3, <3>4, <3>5
  <2>2. CASE ~Extends(file)
    BY <1>1, <1>5, <2>2
  <2> QED
    BY <2>1, <2>2
<1> HIDE DEF c, l, m, new
<1>8. \A k \in l + 1 .. l + c : joinCoordValues'[k] = <<n + 1, k - l>>
  <2> SUFFICES ASSUME NEW k \in l + 1 .. l + c PROVE joinCoordValues'[k] = <<n + 1, k - l>>
    OBVIOUS
  <2>1. l \in Nat /\ c \in Nat
    BY <1>7
  <2>2. k - l \in 1 .. c /\ l + (k - l) = k
    BY <2>1
  <2> QED
    BY <1>7, <2>2
<1>9. /\ DOMAIN readers' = 1 .. n + 1 /\ DOMAIN readers = 1 .. n
      /\ \A i \in 1 .. n : shares'[i] = shares[i]
      /\ shares'[n + 1] = [from |-> EndOfPositions, upto |-> EndOfPositions + added]
  BY <1>1, <1>3, <1>4
<1>10. CoordsTyped'
  <2> SUFFICES ASSUME NEW k \in 1 .. l + c PROVE joinCoordValues'[k][1] \in 1 .. n + 1
    BY <1>7, <1>9 DEF CoordsTyped
  <2>1. CASE k <= l
    <3>1. k \in 1 .. l
      BY <1>7, <2>1
    <3>2. joinCoordValues'[k] = joinCoordValues[k] /\ k \in DOMAIN joinCoordValues
      BY <1>7, <3>1
    <3>3. joinCoordValues[k][1] \in 1 .. n
      BY <1>1, <3>2
    <3> QED
      BY <1>1, <3>2, <3>3
  <2>2. CASE k > l
    BY <1>1, <1>7, <1>8, <2>2
  <2> QED
    BY <1>7, <2>1, <2>2
<1>11. aggType = "union" => joinCoordValues' = <<>>
  <2>1. aggType = "union" => c = 0
    BY DEF Extends, c
  <2>2. aggType = "union" => l = 0
    BY <1>1 DEF CoordsInPlace, l
  <2> QED
    BY <1>7, <2>1, <2>2
<1>12. ASSUME InStep', aggType # "union",
              \A i \in 1 .. n + 1 : shares'[i].from < shares'[i].upto =>
                \E k \in DOMAIN joinCoordValues' : joinCoordValues'[k][1] = i
       PROVE  /\ Len(joinCoordValues') = EndOfPositions'
              /\ \A i \in 1 .. n + 1 : \A p \in shares'[i].from .. shares'[i].upto - 1 :
                   joinCoordValues'[p + 1] = <<i, p - shares'[i].from + 1>>
  <2>1. InStep /\ Extends(file) /\ CoordsFit(file) /\ EndOfPositions' = Extended(file)
    BY <1>12, FileAdded DEF file
  <2>2. Length(file) \in Nat /\ EndOfPositions \in Nat /\ Extended(file) = EndOfPositions + Length(file) /\ added = Length(file)
    BY <1>1, <2>1, LengthIsNatural, EndIsLast DEF Extended, added, Extends
  <2>3. c = m /\ c \in {0, Length(file)}
    BY <2>1 DEF CoordsFit, c, m
  <2>4. ASSUME NEW i \in 1 .. n, shares[i].from < shares[i].upto PROVE Given(i)
    <3>1. shares'[i] = shares[i] /\ i \in 1 .. n + 1
      BY <1>1, <1>9
    <3>2. PICK k \in 1 .. l + c : joinCoordValues'[k][1] = i
      BY <1>7, <1>12, <2>4, <3>1
    <3>3. k <= l
      <4> SUFFICES ASSUME k > l PROVE FALSE
        BY <1>7
      <4>1. joinCoordValues'[k] = <<n + 1, k - l>>
        BY <1>7, <1>8, SMTT(30)
      <4> QED
        BY <1>1, <3>2, <4>1
    <3> QED
      <4>1. k \in 1 .. l
        BY <1>7, <3>3
      <4> QED
        BY <1>7, <3>2, <4>1 DEF Given
  <2>5. /\ l = EndOfPositions
        /\ \A i \in 1 .. n : \A p \in shares[i].from .. shares[i].upto - 1 :
             joinCoordValues[p + 1] = <<i, p - shares[i].from + 1>>
    BY <1>9, <1>12, <2>1, <2>4 DEF CoordsInPlace, l
  <2>6. c = Length(file)
    <3> SUFFICES ASSUME Length(file) > 0 PROVE c # 0
      BY <2>2, <2>3
    <3>1. shares'[n + 1].from < shares'[n + 1].upto
      BY <1>9, <2>2
    <3>2. n + 1 \in 1 .. n + 1
      BY <1>1
    <3>3. PICK k \in 1 .. l + c : joinCoordValues'[k][1] = n + 1
      BY <1>7, <1>12, <3>1, <3>2
    <3>4. ~ (k \in 1 .. l)
      <4> SUFFICES ASSUME k \in 1 .. l PROVE FALSE
        OBVIOUS
      <4>1. joinCoordValues'[k] = joinCoordValues[k] /\ k \in DOMAIN joinCoordValues
        BY <1>7
      <4>2. joinCoordValues[k][1] \in 1 .. n
        BY <1>1, <4>1
      <4>3. n \in Nat
        BY <1>1
      <4> QED
        BY <3>3, <4>1, <4>2, <4>3
    <3> QED
      BY <1>7, <3>3, <3>4
  <2>7. ASSUME NEW i \in 1 .. n + 1, NEW p \in shares'[i].from .. shares'[i].upto - 1
        PROVE  joinCoordValues'[p + 1] = <<i, p - shares'[i].from + 1>>
    <3>1. CASE i = n + 1
      <4>1. shares'[i].from = l /\ shares'[i].upto = l + c /\ p \in l .. l + c - 1
        BY <1>9, <2>2, <2>5, <2>6, <2>7, <3>1
      <4>2. p + 1 \in l + 1 .. l + c /\ p + 1 - l = p - l + 1
        BY <1>7, <4>1
      <4> QED
        <5>1. joinCoordValues'[p + 1] = <<n + 1, p + 1 - l>>
          <6> DEFINE k == p + 1
          <6>1. k \in l + 1 .. l + c
            BY <4>2
          <6> HIDE DEF k
          <6>2. joinCoordValues'[k] = <<n + 1, k - l>>
            BY <1>8, <6>1
          <6> QED
            BY <1>7, <4>1, <4>2, <6>2 DEF k
        <5> QED
          BY <3>1, <4>1, <4>2, <5>1
    <3>2. CASE i # n + 1
      <4>1. i \in 1 .. n /\ shares'[i] = shares[i]
        BY <1>1, <1>9, <3>2
      <4>2. shares[i] \in Share
        BY <1>1, <4>1
      <4>3. shares[i].upto <= l
        <5>1. shares[i].upto = readerUdimPos[i] /\ i \in DOMAIN readerUdimPos
          <6>1. Len(readerUdimPos) = n /\ i \in DOMAIN shares
            BY <1>1, <1>12, <2>1, <4>1 DEF InStep
          <6>2. shares[i].upto = readerUdimPos[i]
            BY <1>12, <6>1 DEF TablesInv, SharesAreTheTable
          <6>3. DOMAIN readerUdimPos = 1 .. n
            BY <6>1 DEF TablesInv, TablesTyped
          <6> QED
            BY <4>1, <6>2, <6>3
        <5> QED
          BY <2>5, <5>1, EndIsLast
      <4>4. p \in shares[i].from .. shares[i].upto - 1
        BY <4>1
      <4>5. p + 1 \in 1 .. l
        <5>1. shares[i].from \in Nat /\ shares[i].upto \in Nat
          BY <4>2 DEF Share
        <5> QED
          BY <1>7, <4>3, <4>4, <5>1
      <4> QED
        BY <1>7, <2>5, <4>1, <4>4, <4>5
    <3> QED
      BY <3>1, <3>2
  <2> QED
    BY <1>7, <2>1, <2>2, <2>5, <2>6, <2>7
<1>13. CoordsInPlace'
  BY <1>3, <1>9, <1>11, <1>12 DEF CoordsInPlace, Given
<1> QED
  BY <1>10, <1>13

AggregationInv == TablesInv /\ ModelInv /\ CoordsTyped /\ CoordsInPlace

(* The invariant. *)
LEMMA AggregationAlways == Spec => []AggregationInv
<1>1. Init => AggregationInv
  <2> SUFFICES ASSUME Init PROVE ModelInv /\ CoordsTyped /\ CoordsInPlace /\ TablesInv
    BY DEF AggregationInv
  <2>1. TablesInv
    BY DocumentsAssumption
    DEF Init, TablesInv, TablesTyped, EndsAscend, SharesAreTheTable
  <2> DEFINE join == IF aggType = "joinNew" THEN JoinNewVars ELSE {}
  <2>2. /\ readers = <<>> /\ readerUdimPos = <<>> /\ joinCoordValues = <<>> /\ shares = <<>> /\ phase = "adding"
        /\ agg = [dims |-> <<>>, vars |-> <<>>, joinVars |-> join, unionReaders |-> <<>>, thrown |-> FALSE]
    BY DEF Init, Model
  <2>3. aggType = "joinExisting" => join = {}
    OBVIOUS
  <2> HIDE DEF join
  <2>4. agg.dims = <<>> /\ agg.vars = <<>> /\ agg.unionReaders = <<>> /\ agg.thrown = FALSE /\ agg.joinVars = join
    BY <2>2
  <2>5. DOMAIN agg.dims = {} /\ DOMAIN agg.vars = {} /\ DOMAIN agg.unionReaders = {} /\ DOMAIN readers = {} /\ DOMAIN joinCoordValues = {}
    BY <2>2, <2>4
  <2>6. UnlimitedDims(agg.dims) = {} /\ EndOfPositions = 0
    BY <2>2, <2>5 DEF UnlimitedDims, EndOfPositions
  <2>7. IsModel(agg)
    <3>1. Fields(agg)
      BY <2>2, <2>4 DEF Fields
    <3> QED
      BY <2>5, <3>1 DEF IsModel
  <2>8. SoFar
    BY <2>2, <2>3, <2>4, <2>5, <2>6, <2>7 DEF SoFar, EmptyAtFirst
  <2>9. LengthIsTheEnd /\ SameUnlimitedDim /\ OneWay
    BY <2>5, <2>6 DEF LengthIsTheEnd, SameUnlimitedDim, OneWay, EachHasOneWay
  <2>10. JoinedSomewhere /\ UnionTaken /\ LengthenedJoin
    BY <2>3, <2>4, <2>5 DEF JoinedSomewhere, UnionTaken, LengthenedJoin
  <2>11. CoordsTyped /\ CoordsInPlace
    <3>1. Len(joinCoordValues) = 0 /\ joinCoordValues \in Seq(Nat \X Nat)
      BY <2>2
    <3> QED
      BY <2>2, <2>5, <2>6, <3>1 DEF CoordsTyped, CoordsInPlace
  <2> QED
    BY <2>1, <2>8, <2>9, <2>10, <2>11 DEF ModelInv
<1>2. ASSUME AggregationInv, [Next]_vars PROVE AggregationInv'
  <2>1. CASE AddReader
    <3>1. TablesInv'
      BY <1>2, <2>1, AddReaderKeepsTables DEF AggregationInv
    <3>2. ModelInv'
      BY <1>2, <2>1, AddReaderKeepsModel DEF AggregationInv, ModelInv
    <3>3. CoordsTyped' /\ CoordsInPlace'
      BY <1>2, <2>1, AddReaderKeepsCoords DEF AggregationInv
    <3> QED
      BY <3>1, <3>2, <3>3 DEF AggregationInv
  <2>2. CASE UNCHANGED <<aggType, pending, readers, readerUdimPos, shares, joinCoordValues>>
             /\ (InitAggregation \/ (UNCHANGED agg /\ (UNCHANGED phase \/ phase' # "adding")))
    <3>1. TablesInv'
      BY <1>2, <2>2
      DEF TablesInv, TablesTyped, EndsAscend, SharesAreTheTable, EndsBefore, AggregationInv
    <3>2. CoordsTyped' /\ CoordsInPlace'
      BY <1>2, <2>2 DEF AggregationInv, CoordsTyped, CoordsInPlace, InStep, EndOfPositions, Given
    <3>3. InStep' => InStep
      BY <2>2 DEF InStep
    <3>4. CASE InitAggregation
      BY <1>2, <3>1, <3>2, <3>3, <3>4, InitAggregationKeepsModel DEF AggregationInv, ModelInv
    <3>5. CASE UNCHANGED agg /\ (UNCHANGED phase \/ phase' # "adding")
      <4> SUFFICES ASSUME InStep'
                   PROVE  (SoFar /\ LengthIsTheEnd /\ SameUnlimitedDim /\ OneWay /\ JoinedSomewhere /\ UnionTaken /\ LengthenedJoin)'
        BY <3>1, <3>2 DEF AggregationInv, ModelInv
      <4>1. SoFar /\ LengthIsTheEnd /\ SameUnlimitedDim /\ OneWay /\ JoinedSomewhere /\ UnionTaken /\ LengthenedJoin
        BY <1>2, <3>3 DEF AggregationInv, ModelInv
      <4>2. SoFar' /\ LengthIsTheEnd' /\ SameUnlimitedDim'
        BY <2>2, <3>5, <4>1 DEF SoFar, EmptyAtFirst, LengthIsTheEnd, SameUnlimitedDim, EndOfPositions
      <4>3. OneWay'
        BY <3>5, <4>1 DEF OneWay
      <4>4. JoinedSomewhere'
        <5> SUFFICES ASSUME aggType = "joinExisting", NEW v \in agg'.joinVars
                     PROVE  /\ v \in DOMAIN agg'.vars
                            /\ \E i \in DOMAIN readers' :
                                 /\ Agrees(readers'[i], agg', v)
                                 /\ UnlimitedDims(readers'[i].dims) = UnlimitedDims(agg'.dims) /\ UnlimitedDims(agg'.dims) # {}
          BY <2>2 DEF JoinedSomewhere, Agrees, HasVariable, VariableOf, UnlimitedDims, DimsOf
        <5> QED
          BY <2>2, <3>5, <4>1 DEF JoinedSomewhere
      <4>5. UnionTaken'
        <5> SUFFICES ASSUME aggType = "joinNew" => NewDimIsNew, NEW v \in DOMAIN agg'.unionReaders
                     PROVE  LET i == agg'.unionReaders[v]
                            IN  i \in DOMAIN readers' /\ ReadFrom(readers'[i], i, agg', v)
          BY <2>2 DEF UnionTaken, ReadFrom, NewDimIsNew
        <5> QED
          BY <2>2, <3>5, <4>1 DEF UnionTaken, ReadFrom
      <4>6. LengthenedJoin'
        <5> SUFFICES ASSUME aggType = "joinNew", NEW v \in agg'.joinVars \cap DOMAIN agg'.vars
                     PROVE  Lengthened(agg'.vars[v].shape)
          BY <2>2 DEF LengthenedJoin, Lengthened, DimsOf, NewDimIsNew
        <5> QED
          BY <2>2, <3>5, <4>1 DEF LengthenedJoin
      <4> QED
        BY <4>2, <4>3, <4>4, <4>5, <4>6
    <3> QED
      BY <2>2, <3>4, <3>5
  <2> QED
    BY <1>2, <2>1, <2>2 DEF Next, GiveUp, InitAggregation, vars
<1> QED
  BY <1>1, <1>2, PTL DEF Spec

(* The join dimension is as long as the positions of all files. *)
LEMMA JoinLengthIsTheEnd ==
  ASSUME SoFar, LengthIsTheEnd
  PROVE  JoinLength = IF aggType = "union" THEN 0 ELSE EndOfPositions
<1>1. CASE aggType # "union" /\ UnlimitedDims(agg.dims) # {}
  <2> DEFINE d == CHOOSE x \in UnlimitedDims(agg.dims) : TRUE
  <2>1. d \in UnlimitedDims(agg.dims)
    BY <1>1
  <2> QED
    BY <1>1, <2>1 DEF JoinLength, UnlimitedLength, LengthIsTheEnd
<1>2. CASE aggType # "union" /\ UnlimitedDims(agg.dims) = {}
  BY <1>2 DEF JoinLength, UnlimitedLength, LengthIsTheEnd
<1>3. CASE aggType = "union"
  BY <1>3 DEF JoinLength
<1> QED
  BY <1>1, <1>2, <1>3

(* When every file of the join comes with coordinate values, the value at a  *)
(* position is the one given for it, and there are as many as positions:     *)
(* what addReader accepts of coordValue and appends stays in step with the   *)
(* extension of the join dimension, whatever files throw or do not join.     *)
THEOREM CoordinatesAreTheirFiles == Spec => []CoordinatePerPosition
<1>1. ASSUME AggregationInv PROVE CoordinatePerPosition
  <2> DEFINE given == {i \in DOMAIN readers : \E k \in DOMAIN joinCoordValues : joinCoordValues[k][1] = i}
  <2> SUFFICES ASSUME InStep, \A i \in DOMAIN readers : shares[i].from < shares[i].upto => i \in given
               PROVE  /\ Len(joinCoordValues) = JoinLength
                      /\ \A i \in given : \A p \in shares[i].from .. shares[i].upto - 1 :
                           joinCoordValues[p + 1] = <<i, p - shares[i].from + 1>>
    BY DEF CoordinatePerPosition
  <2>1. SoFar /\ LengthIsTheEnd
    BY <1>1 DEF AggregationInv, ModelInv
  <2>2. CASE aggType = "union"
    <3>1. joinCoordValues = <<>>
      BY <1>1, <2>2 DEF AggregationInv, CoordsInPlace
    <3>2. given = {} /\ Len(joinCoordValues) = 0
      BY <3>1
    <3> QED
      BY <2>1, <2>2, <3>2, JoinLengthIsTheEnd
  <2>3. CASE aggType # "union"
    <3>1. \A i \in DOMAIN readers : shares[i].from < shares[i].upto => Given(i)
      BY DEF Given
    <3>2. /\ Len(joinCoordValues) = EndOfPositions
          /\ \A i \in DOMAIN readers : \A p \in shares[i].from .. shares[i].upto - 1 :
               joinCoordValues[p + 1] = <<i, p - shares[i].from + 1>>
      BY <1>1, <2>3, <3>1 DEF AggregationInv, CoordsInPlace
    <3> QED
      BY <2>1, <2>3, <3>2, JoinLengthIsTheEnd
  <2> QED
    BY <2>2, <2>3
<1> QED
  BY <1>1, AggregationAlways, PTL

-----------------------------------------------------------------------------
(* From the invariant to what is announced.                                *)

(* The product of the first k sizes, as the function of Product. *)
LEMMA ProductsExist ==
  ASSUME NEW s, NEW n \in Nat
  PROVE  \E f : f = [k \in 0 .. n |-> IF k = 0 THEN 1 ELSE f[k - 1] * s[k]]
<1> DEFINE Is(f, m) == f = [k \in 0 .. m |-> IF k = 0 THEN 1 ELSE f[k - 1] * s[k]]
           S == {m \in Nat : \E f : Is(f, m)}
<1>1. 0 \in S
  <2>1. Is([k \in 0 .. 0 |-> 1], 0)
    OBVIOUS
  <2> QED
    BY <2>1
<1>2. ASSUME NEW m \in Nat, m \in S PROVE m + 1 \in S
  <2>1. PICK f : Is(f, m)
    BY <1>2
  <2> DEFINE last == f[m] * s[m + 1]
             g == [k \in 0 .. m + 1 |-> IF k <= m THEN f[k] ELSE last]
  <2>2. \A k \in 0 .. m : f[k] = IF k = 0 THEN 1 ELSE f[k - 1] * s[k]
    BY <2>1
  <2> HIDE DEF last
  <2>3. \A k \in 0 .. m : g[k] = f[k]
    OBVIOUS
  <2>4. g[m + 1] = last
    OBVIOUS
  <2>5. ASSUME NEW k \in 0 .. m + 1
        PROVE  g[k] = IF k = 0 THEN 1 ELSE g[k - 1] * s[k]
    <3>1. CASE k = m + 1
      <4>1. k - 1 = m /\ k # 0 /\ g[m] = f[m]
        BY <2>3, <3>1
      <4> HIDE DEF g
      <4> QED
        BY <2>4, <3>1, <4>1 DEF last
    <3>2. CASE k # m + 1
      <4>1. k \in 0 .. m /\ (k # 0 => k - 1 \in 0 .. m)
        BY <3>2
      <4> HIDE DEF g
      <4> QED
        BY <2>2, <2>3, <4>1
    <3> QED
      BY <3>1, <3>2
  <2>6. g = [k \in 0 .. m + 1 |-> g[k]]
    OBVIOUS
  <2> HIDE DEF g
  <2>7. Is(g, m + 1)
    BY <2>5, <2>6
  <2> QED
    BY <2>7
<1> HIDE DEF S
<1>3. n \in S
  BY <1>1, <1>2, Induction
<1> QED
  BY <1>3 DEF S

(* A further dimension of length 1 does not change the number of elements. *)
LEMMA ProductOfOneMore ==
  ASSUME NEW s \in Seq(Nat)
  PROVE  Product(Append(s, 1)) = Product(s)
<1> DEFINE n == Len(s)
           t == Append(s, 1)
           F == CHOOSE f : f = [k \in 0 .. n |-> IF k = 0 THEN 1 ELSE f[k - 1] * s[k]]
           G == CHOOSE f : f = [k \in 0 .. n + 1 |-> IF k = 0 THEN 1 ELSE f[k - 1] * t[k]]
           S == {k \in Nat : k <= n => F[k] = G[k] /\ F[k] \in Nat}
<1>1. n \in Nat /\ Len(t) = n + 1 /\ t[n + 1] = 1 /\ \A k \in 1 .. n : t[k] = s[k] /\ s[k] \in Nat
  OBVIOUS
<1>2. F = [k \in 0 .. n |-> IF k = 0 THEN 1 ELSE F[k - 1] * s[k]]
  <2>1. \E f : f = [k \in 0 .. n |-> IF k = 0 THEN 1 ELSE f[k - 1] * s[k]]
    BY <1>1, ProductsExist
  <2> QED
    BY <2>1
<1>3. G = [k \in 0 .. n + 1 |-> IF k = 0 THEN 1 ELSE G[k - 1] * t[k]]
  <2>1. n + 1 \in Nat
    BY <1>1
  <2> HIDE DEF t
  <2>2. \E f : f = [k \in 0 .. n + 1 |-> IF k = 0 THEN 1 ELSE f[k - 1] * t[k]]
    BY <2>1, ProductsExist
  <2> QED
    BY <2>2
<1>4. Product(s) = F[n]
  BY DEF Product
<1>5. Product(t) = G[n + 1]
  <2> HIDE DEF t, n
  <2> QED
    BY <1>1 DEF Product
<1> HIDE DEF F, G, t, n
<1>6. F[0] = 1 /\ \A k \in 0 .. n - 1 : F[k + 1] = F[k] * s[k + 1]
  <2>1. \A k \in 0 .. n : F[k] = IF k = 0 THEN 1 ELSE F[k - 1] * s[k]
    BY <1>2
  <2>2. \A k \in 0 .. n - 1 : k + 1 \in 0 .. n /\ k + 1 # 0 /\ (k + 1) - 1 = k
    BY <1>1
  <2>3. 0 \in 0 .. n
    BY <1>1
  <2> QED
    BY <2>1, <2>2, <2>3
<1>7. G[0] = 1 /\ \A k \in 0 .. n : G[k + 1] = G[k] * t[k + 1]
  <2>1. \A k \in 0 .. n + 1 : G[k] = IF k = 0 THEN 1 ELSE G[k - 1] * t[k]
    BY <1>3
  <2>2. \A k \in 0 .. n : k + 1 \in 0 .. n + 1 /\ k + 1 # 0 /\ (k + 1) - 1 = k
    BY <1>1
  <2>3. 0 \in 0 .. n + 1
    BY <1>1
  <2> QED
    BY <2>1, <2>2, <2>3
<1>8. 0 \in S
  BY <1>6, <1>7
<1>9. ASSUME NEW k \in Nat, k \in S PROVE k + 1 \in S
  <2> SUFFICES ASSUME k + 1 <= n PROVE F[k + 1] = G[k + 1] /\ F[k + 1] \in Nat
    OBVIOUS
  <2>1. F[k] = G[k] /\ F[k] \in Nat /\ k \in 0 .. n - 1 /\ k \in 0 .. n /\ k + 1 \in 1 .. n
    BY <1>1, <1>9
  <2>2. t[k + 1] = s[k + 1] /\ s[k + 1] \in Nat
    BY <1>1, <2>1
  <2>3. F[k + 1] = F[k] * s[k + 1] /\ G[k + 1] = G[k] * t[k + 1]
    BY <1>6, <1>7, <2>1
  <2> QED
    BY <2>1, <2>2, <2>3
<1> HIDE DEF S
<1>10. n \in S
  BY <1>1, <1>8, <1>9, Induction
<1>11. F[n] = G[n] /\ F[n] \in Nat
  BY <1>1, <1>10 DEF S
<1>12. G[n + 1] = G[n] * 1
  BY <1>1, <1>7
<1> QED
  BY <1>4, <1>5, <1>11, <1>12 DEF t

(* Every announced position of a join belongs to a file. *)
LEMMA PositionHasFile ==
  ASSUME TablesInv, InStep, aggType # "union", NEW p \in 0 .. EndOfPositions - 1
  PROVE  \E i \in DOMAIN readers : p \in shares[i].from .. shares[i].upto - 1
<1> DEFINE n == Len(readers)
           S == {i \in 1 .. n : p < readerUdimPos[i]}
<1>1. /\ DOMAIN readerUdimPos = 1 .. n /\ DOMAIN shares = 1 .. n /\ DOMAIN readers = 1 .. n
      /\ n \in Nat /\ \A i \in 1 .. n : readerUdimPos[i] \in Nat
      /\ \A i \in 1 .. n : shares[i].from = EndsBefore(i) /\ shares[i].upto = readerUdimPos[i]
  <2>1. /\ readers \in Seq(Files) /\ readerUdimPos \in Seq(Nat) /\ shares \in Seq(Share)
        /\ Len(shares) = n /\ Len(readerUdimPos) = n
    BY DEF TablesInv, TablesTyped, InStep
  <2>2. \A i \in DOMAIN shares : shares[i].from = EndsBefore(i) /\ shares[i].upto = readerUdimPos[i]
    BY <2>1 DEF TablesInv, SharesAreTheTable
  <2> QED
    BY <2>1, <2>2
<1>2. EndOfPositions \in Nat /\ p \in Nat /\ p < EndOfPositions
  BY EndIsLast
<1>3. readerUdimPos # <<>> /\ Len(readerUdimPos) = n /\ n # 0
  BY <1>1, <1>2 DEF EndOfPositions, InStep, TablesInv, TablesTyped
<1>4. EndOfPositions = readerUdimPos[n]
  BY <1>3 DEF EndOfPositions, Last
<1>5. n \in S
  BY <1>1, <1>2, <1>3, <1>4
<1>6. PICK i \in S : \A j \in S : i <= j
  <2>1. S \subseteq Nat /\ S # {}
    BY <1>5
  <2> HIDE DEF S
  <2> QED
    BY <2>1, LeastNatural
<1>7. EndsBefore(i) <= p /\ EndsBefore(i) \in Nat
  <2>1. CASE i = 1
    BY <1>2, <2>1 DEF EndsBefore
  <2>2. CASE i # 1
    <3>1. i - 1 \in 1 .. n /\ i - 1 \notin S
      BY <1>1, <1>6, <2>2
    <3> QED
      BY <1>1, <1>2, <2>2, <3>1 DEF EndsBefore
  <2> QED
    BY <2>1, <2>2
<1>8. i \in 1 .. n /\ p < readerUdimPos[i]
  BY <1>6
<1> QED
  BY <1>1, <1>2, <1>7, <1>8

(* The elements of a slice depend on the dimensions of its shape only. *)
LEMMA SameSlice ==
  ASSUME NEW dims, NEW others, NEW shape,
         \A d \in DimsOf(shape) :
           /\ d \in DOMAIN dims /\ d \in DOMAIN others
           /\ d \in UnlimitedDims(dims) <=> d \in UnlimitedDims(others)
           /\ d \notin UnlimitedDims(others) => dims[d].length = others[d].length
  PROVE  SliceSize(dims, shape) = SliceSize(others, shape)
<1> DEFINE one == [i \in DOMAIN shape |-> IF dims[shape[i]].unlimited THEN 1 ELSE dims[shape[i]].length]
           two == [i \in DOMAIN shape |-> IF others[shape[i]].unlimited THEN 1 ELSE others[shape[i]].length]
<1>1. ASSUME NEW i \in DOMAIN shape
      PROVE  (IF dims[shape[i]].unlimited THEN 1 ELSE dims[shape[i]].length)
             = IF others[shape[i]].unlimited THEN 1 ELSE others[shape[i]].length
  <2>1. shape[i] \in DimsOf(shape)
    BY DEF DimsOf
  <2> QED
    BY <2>1 DEF UnlimitedDims
<1>2. one = two
  BY <1>1
<1> QED
  BY <1>2 DEF SliceSize

(* A slice of joinNew has the elements of the file's variable. *)
LEMMA SliceOfNew ==
  ASSUME NEW dims, NEW others, NEW s, s \in Seq(DimsOf(s)),
         \A d \in DimsOf(s) : dims[d].length \in Nat /\ dims[d].length = others[d].length /\ ~others[d].unlimited,
         others[JoinNewDim].unlimited
  PROVE  Product(Sized(dims, s)) = SliceSize(others, Append(s, JoinNewDim))
<1> DEFINE n == Len(s)
           t == Append(s, JoinNewDim)
           sizes == Sized(dims, s)
           slice == [i \in DOMAIN t |-> IF others[t[i]].unlimited THEN 1 ELSE others[t[i]].length]
<1>1. n \in Nat /\ DOMAIN s = 1 .. n /\ DOMAIN t = 1 .. n + 1 /\ t[n + 1] = JoinNewDim
      /\ \A i \in 1 .. n : t[i] = s[i] /\ s[i] \in DimsOf(s)
  OBVIOUS
<1>2. \A i \in 1 .. n : sizes[i] = dims[s[i]].length /\ sizes[i] \in Nat
  BY <1>1 DEF Sized
<1>3. DOMAIN sizes = 1 .. n /\ sizes = [i \in 1 .. n |-> sizes[i]]
  BY <1>1 DEF Sized
<1> HIDE DEF sizes, n, t
<1>4. sizes \in Seq(Nat) /\ Len(sizes) = n
  BY <1>1, <1>2, <1>3, SMTT(30)
<1>5. DOMAIN slice = 1 .. n + 1 /\ slice[n + 1] = 1 /\ \A i \in 1 .. n : slice[i] = sizes[i]
  BY <1>1, <1>2
<1>6. slice = [i \in 1 .. n + 1 |-> slice[i]]
  BY <1>1
<1> HIDE DEF slice
<1>7. slice = Append(sizes, 1)
  <2>1. Append(sizes, 1) = [i \in 1 .. n + 1 |-> Append(sizes, 1)[i]]
    <3> DEFINE longer == Append(sizes, 1)
    <3>1. longer \in Seq(Nat) /\ Len(longer) = n + 1
      BY <1>4
    <3> HIDE DEF longer
    <3>2. longer = [i \in 1 .. Len(longer) |-> longer[i]]
      BY <3>1
    <3> QED
      BY <3>1, <3>2 DEF longer
  <2>2. \A i \in 1 .. n + 1 : Append(sizes, 1)[i] = slice[i]
    BY <1>1, <1>4, <1>5
  <2> QED
    BY <1>6, <2>1, <2>2
<1>8. Product(Append(sizes, 1)) = Product(sizes)
  BY <1>4, ProductOfOneMore
<1>9. SliceSize(others, t) = Product(slice)
  BY DEF SliceSize, slice
<1> QED
  BY <1>7, <1>8, <1>9 DEF sizes, t

(* The three parts of DeliveredAsAnnounced. *)
LEMMA SizesAreAnnounced ==
  ASSUME AggregationInv, "joinNew" \in AggTypes => NewDimIsNew
  PROVE  SizesAnnounced
<1> SUFFICES ASSUME InStep, readers # <<>>
             PROVE  /\ aggType # "union" => JoinLength = Last(shares).upto
                    /\ \A v \in JoinedVariables, p \in 0 .. JoinLength - 1 :
                         LET found == ReadPosition(v, p)
                         IN  found.file # 0 \/ aggType = "joinExisting" =>
                               found.size = SliceSize(agg.dims, agg.vars[v].shape)
  BY DEF SizesAnnounced
<1>1. TablesInv /\ SoFar /\ LengthIsTheEnd /\ SameUnlimitedDim /\ LengthenedJoin
  BY DEF AggregationInv, ModelInv
<1>2. JoinLength = IF aggType = "union" THEN 0 ELSE EndOfPositions
  BY <1>1, JoinLengthIsTheEnd
<1>3. aggType # "union" => JoinLength = Last(shares).upto
  <2> SUFFICES ASSUME aggType # "union" PROVE EndOfPositions = Last(shares).upto
    BY <1>2
  <2>1. /\ Len(readers) = Len(readerUdimPos) /\ Len(shares) = Len(readers) /\ Len(readers) \in Nat \ {0}
        /\ readerUdimPos \in Seq(Nat) /\ shares \in Seq(Share)
    BY <1>1 DEF InStep, TablesInv, TablesTyped
  <2>2. readerUdimPos # <<>> /\ EndOfPositions = readerUdimPos[Len(readers)] /\ Last(shares) = shares[Len(readers)]
    BY <2>1 DEF EndOfPositions, Last
  <2>3. shares[Len(readers)].upto = readerUdimPos[Len(readers)]
    BY <1>1, <2>1 DEF TablesInv, SharesAreTheTable
  <2> QED
    BY <2>2, <2>3
<1>4. ASSUME NEW v \in JoinedVariables, NEW p \in 0 .. JoinLength - 1,
             ReadPosition(v, p).file # 0 \/ aggType = "joinExisting"
      PROVE  ReadPosition(v, p).size = SliceSize(agg.dims, agg.vars[v].shape)
  <2>1. aggType # "union" /\ p \in 0 .. EndOfPositions - 1
    BY <1>2, <1>4
  <2>2. PICK i \in DOMAIN readers : p \in shares[i].from .. shares[i].upto - 1
    BY <1>1, <2>1, PositionHasFile
  <2>3. FindJoinReader(p) = i
    BY <1>1, <2>1, <2>2, FindsItsFile
  <2> DEFINE shape == agg.vars[v].shape
             file == readers[i]
  <2>4. v \in agg.joinVars \cap DOMAIN agg.vars /\ DimsOf(shape) \subseteq DOMAIN agg.dims
    BY DEF JoinedVariables
  <2>5. file \in Files /\ aggType \in AggTypes
    BY <1>1 DEF TablesInv, TablesTyped
  <2>6. HasVariable(file, v) => DimsOf(VariableOf(file, v).shape) \subseteq DOMAIN file.dims
    <3> SUFFICES ASSUME HasVariable(file, v) PROVE DimsOf(VariableOf(file, v).shape) \subseteq DOMAIN file.dims
      OBVIOUS
    <3>1. PICK k \in DOMAIN file.vars : file.vars[k].name = v
      BY DEF HasVariable
    <3> HIDE DEF file
    <3>2. k \in 1 .. Len(file.vars)
      BY <2>5, FileFacts
    <3>3. VariableOf(file, file.vars[k].name) = file.vars[k] /\ DimsOf(file.vars[k].shape) \subseteq DOMAIN file.dims
      BY <2>5, <3>2, FileFacts
    <3> QED
      BY <3>1, <3>3
  <2>7. CASE aggType = "joinExisting" /\ ~CheckJoinExistingDims(file, v)
    <3>1. ReadPosition(v, p) = [file |-> 0, at |-> 0, size |-> SliceSize(agg.dims, shape)]
      BY <2>3, <2>7 DEF ReadPosition
    <3> QED
      BY <3>1
  <2>8. CASE aggType = "joinExisting" /\ CheckJoinExistingDims(file, v)
    <3>1. ReadPosition(v, p) = [file |-> i, at |-> PositionIn(i, p), size |-> SliceSize(file.dims, shape)]
      BY <2>3, <2>8 DEF ReadPosition
    <3>2. shares[i].from < shares[i].upto
      <4>1. shares[i] \in Share
        BY <1>1, <2>2 DEF TablesInv, TablesTyped
      <4> QED
        BY <2>2, <4>1 DEF Share
    <3>3. UnlimitedDims(file.dims) = UnlimitedDims(agg.dims)
      BY <1>1, <2>8, <3>2 DEF SameUnlimitedDim
    <3>4. HasVariable(file, v) /\ VariableOf(file, v).shape = shape
          /\ \A d \in DimsOf(shape) \ UnlimitedDims(file.dims) : agg.dims[d].length = file.dims[d].length
      BY <2>8 DEF CheckJoinExistingDims
    <3> HIDE DEF file, shape
    <3>5. SliceSize(file.dims, shape) = SliceSize(agg.dims, shape)
      <4>1. \A d \in DimsOf(shape) :
              /\ d \in DOMAIN file.dims /\ d \in DOMAIN agg.dims
              /\ d \in UnlimitedDims(file.dims) <=> d \in UnlimitedDims(agg.dims)
              /\ d \notin UnlimitedDims(agg.dims) => file.dims[d].length = agg.dims[d].length
        BY <2>4, <2>6, <3>3, <3>4
      <4> QED
        BY <4>1, SameSlice
    <3>6. ReadPosition(v, p).size = SliceSize(file.dims, shape)
      BY <3>1
    <3> QED
      BY <3>5, <3>6 DEF shape
  <2>9. CASE aggType = "joinNew"
    <3>1. CheckJoinNewDims(file, v)
      <4> SUFFICES ASSUME ~CheckJoinNewDims(file, v) PROVE FALSE
        OBVIOUS
      <4>1. ReadPosition(v, p) = [file |-> 0, at |-> 0, size |-> Product(Sized(agg.dims, shape))]
        BY <2>3, <2>9 DEF ReadPosition
      <4> QED
        BY <1>4, <2>9, <4>1
    <3>2. ReadPosition(v, p) = [file |-> i, at |-> 0, size |-> Product(Sized(file.dims, Front(shape)))]
      BY <2>3, <2>9, <3>1 DEF ReadPosition
    <3>3. PICK s : s \in Seq(DimsOf(s)) /\ shape = Append(s, JoinNewDim) /\ JoinNewDim \notin DimsOf(s)
      BY <1>1, <2>4, <2>5, <2>9 DEF LengthenedJoin, Lengthened
    <3>4. HasVariable(file, v) /\ VariableOf(file, v).shape = Front(shape)
          /\ \A d \in DimsOf(VariableOf(file, v).shape) : agg.dims[d].length = file.dims[d].length
      BY <3>1 DEF CheckJoinNewDims
    <3> HIDE DEF file, shape
    <3>5. Front(shape) = s
      <4>1. Len(shape) - 1 = Len(s) /\ Len(s) \in Nat /\ \A k \in 1 .. Len(s) : shape[k] = s[k]
        BY <3>3
      <4>2. Front(shape) = [k \in 1 .. Len(s) |-> shape[k]]
        BY <3>3, <4>1 DEF Front
      <4>3. s = [k \in 1 .. Len(s) |-> s[k]]
        BY <3>3
      <4> QED
        BY <4>1, <4>2, <4>3
    <3>6. UnlimitedDims(agg.dims) = {JoinNewDim}
      BY <1>1, <2>9 DEF SoFar
    <3>7. \A d \in DimsOf(s) : d \in DOMAIN file.dims /\ d \in DOMAIN agg.dims /\ agg.dims[d].length = file.dims[d].length
      <4>1. \A d \in DimsOf(s) : d \in DimsOf(shape)
        BY <3>3 DEF DimsOf
      <4> QED
        BY <2>4, <2>6, <3>4, <3>5, <4>1
    <3>8. \A d \in DimsOf(s) : /\ file.dims[d].length \in Nat /\ file.dims[d].length = agg.dims[d].length
                               /\ ~agg.dims[d].unlimited
      <4>1. \A d \in DOMAIN file.dims : file.dims[d] \in Dimension
        BY <2>5, FileFacts
      <4> QED
        BY <3>3, <3>6, <3>7, <4>1 DEF UnlimitedDims, Dimension
    <3>9. agg.dims[JoinNewDim].unlimited
      BY <3>6 DEF UnlimitedDims
    <3>10. Product(Sized(file.dims, s)) = SliceSize(agg.dims, Append(s, JoinNewDim))
      BY <3>3, <3>8, <3>9, SliceOfNew
    <3>11. ReadPosition(v, p).size = Product(Sized(file.dims, s))
      BY <3>2, <3>5
    <3> QED
      BY <3>3, <3>10, <3>11 DEF shape
  <2> QED
    BY <2>1, <2>5, <2>7, <2>8, <2>9, AggTypesAssumption
<1> QED
  BY <1>3, <1>4

LEMMA UnionIsAnnounced ==
  ASSUME AggregationInv, "joinNew" \in AggTypes => NewDimIsNew
  PROVE  UnionAsAnnounced
<1> SUFFICES ASSUME InStep, NEW v \in DOMAIN agg.unionReaders
             PROVE  LET i == agg.unionReaders[v]
                        shape == VariableOf(readers[i], v).shape
                    IN  /\ agg.vars[v].shape = shape
                        /\ \A d \in DimsOf(shape) :
                             /\ d \in DOMAIN agg.dims
                             /\ agg.dims[d].length = readers[i].dims[d].length
                             /\ agg.dims[d].unlimited = readers[i].dims[d].unlimited
                                  \/ (aggType = "joinNew" /\ i = 1)
  BY DEF UnionAsAnnounced
<1>1. UnionTaken /\ (aggType = "joinNew" => NewDimIsNew)
  BY DEF AggregationInv, ModelInv, TablesInv, TablesTyped
<1>2. ReadFrom(readers[agg.unionReaders[v]], agg.unionReaders[v], agg, v)
  BY <1>1 DEF UnionTaken
<1> QED
  BY <1>2 DEF ReadFrom

LEMMA VariablesAreDelivered ==
  ASSUME AggregationInv
  PROVE  EveryVariableDelivered
<1> SUFFICES ASSUME InStep, NEW v \in DOMAIN agg.vars
             PROVE  /\ agg.vars[v].memory \/ v \in agg.joinVars \cup DOMAIN agg.unionReaders
                    /\ v \notin agg.joinVars \cap DOMAIN agg.unionReaders
                    /\ v \in agg.joinVars /\ aggType = "joinExisting" =>
                         \E i \in DOMAIN readers : CheckJoinExistingDims(readers[i], v)
  BY DEF EveryVariableDelivered
<1>1. OneWay /\ JoinedSomewhere
  BY DEF AggregationInv, ModelInv
<1>2. ASSUME NEW i \in DOMAIN readers, Agrees(readers[i], agg, v)
      PROVE  CheckJoinExistingDims(readers[i], v)
  BY <1>2 DEF Agrees, CheckJoinExistingDims
<1> QED
  BY <1>1, <1>2 DEF OneWay, JoinedSomewhere

(* Shapes, sizes and unlimited dimensions announced by the constructor are   *)
(* those getDataSlice delivers, for joined variables and for variables read  *)
(* from one file, and every variable has one way to be read.  For joinNew no *)
(* variable of a file may have a dimension with the name of the new one: the *)
(* code asks the first file only (addReader), and with a later file it fails.*)
THEOREM WhatIsAnnouncedIsDelivered ==
  ("joinNew" \in AggTypes => NewDimIsNew) => (Spec => []DeliveredAsAnnounced)
<1> SUFFICES ASSUME "joinNew" \in AggTypes => NewDimIsNew
             PROVE  Spec => []DeliveredAsAnnounced
  OBVIOUS
<1>1. AggregationInv => DeliveredAsAnnounced
  BY SizesAreAnnounced, UnionIsAnnounced, VariablesAreDelivered DEF DeliveredAsAnnounced
<1> QED
  BY <1>1, AggregationAlways, PTL
=============================================================================
