--------------------------- MODULE FeltCDMReader2 ---------------------------
(* A felt file as data of named variables.  Its fields are told apart by    *)
(* the words of their headers; fields of one parameter form an array over   *)
(* valid time, level and member; the arrays together give the axes.  Threads *)
(* read slices through one stream, whose place is moved under a lock.       *)
EXTENDS Integers, Sequences, FiniteSets, SequencesExt, FiniteSetsExt

CONSTANTS
  FeltFiles,     \* the files: [complete, count, entries]; an entry is the header of a field
  Parameters,    \* the configuration, in the order of the names: sequence of
                 \* [id, asks, entries, datatype], asks the words it restricts
  VerticalAxes,  \* the configuration of the vertical axes: felt id -> how values are made
  Delta,         \* what the start of a grid may be apart
  FeltThreads, Unlocked,
  MaxFeltReads   \* bound on the reads of each thread

VARIABLES
  felt,          \* [phase, arrays, hybridLevels]
  feltStream,    \* the field the stream of the file stands at
  feltMutex,     \* the thread that has mutex_, or Unlocked
  feltReads      \* what each thread does and has read
feltVars == <<felt, feltStream, feltMutex, feltReads>>

NoFeltTime == -1
FillCell == <<"fill", 0>>
Uninitialized == <<"uninitialized", 0>>

-----------------------------------------------------------------------------
(* The header of a field.                                                   *)
IsEpsRunParameter(f) == 2000 <= f.param /\ f.param < 6000
ParameterOf(f) == IF IsEpsRunParameter(f) THEN f.param % 1000 ELSE f.param
ValidTime(f) == f.reference + f.offset
IsValid(f) == f.rows # 0
\* The second word is the level's other bound, or the data version of a member.
FieldKey(f) == [time |-> ValidTime(f), first |-> f.level1, second |-> f.level2]

GridType(f) == IF f.grid.type >= 1000 THEN f.grid.type \div 1000 ELSE f.grid.type
ExtraSize(f) == IF f.grid.type > 1000 THEN f.grid.type % 1000 ELSE 0
ParsUsed(type) == IF type \in {2, 3, 6} THEN 6 ELSE 5
GridIsKnown(f) ==
  /\ GridType(f) \in 1 .. 6
  /\ ExtraSize(f) \in {0, 2 * ParsUsed(GridType(f)), 2 + 3 * ParsUsed(GridType(f))}
  /\ f.grid.sound /\ f.grid.increment # 0

(* getScanMode_: a grid that runs down is kept by its lowest row.           *)
IsUpper(f) == GridType(f) \in {2, 3} /\ f.grid.increment < 0
GridDefinition(f) ==
  IF IsUpper(f)
  THEN [start |-> f.grid.start + f.rows * f.grid.increment - f.grid.increment,
        increment |-> -f.grid.increment]
  ELSE [start |-> f.grid.start, increment |-> f.grid.increment]

-----------------------------------------------------------------------------
(* FeltParameters: the first name all of whose words are the field's.       *)
NamesOf(f) ==
  {i \in DOMAIN Parameters :
     \A word \in DOMAIN Parameters[i].asks : Parameters[i].asks[word] = f[word]}
ParameterName(f) == Parameters[Min(NamesOf(f))].id
Config(name) == CHOOSE p \in Range(Parameters) : p.id = name

(* findOrCreateFeltArray, addField_: a field of the same place replaces the *)
(* one before it when its type of data differs.                             *)
Has(array, f) == FieldKey(f) \in DOMAIN array.fields
Refuses(array, f) ==
  \/ ParameterOf(f) # ParameterOf(array.default)
  \/ f.vcoord # array.default.vcoord
  \/ Has(array, f) /\ array.fields[FieldKey(f)].dtype = f.dtype

WithField(array, f) ==
  [array EXCEPT !.fields = [key \in DOMAIN array.fields \union {FieldKey(f)} |->
                              IF key = FieldKey(f) THEN f ELSE array.fields[key]]]
ArrayOf(f) == [default |-> f, fields |-> [key \in {FieldKey(f)} |-> f]]

LevelPair(f) == <<f.level1, IF IsEpsRunParameter(f) THEN 0 ELSE f.level2>>
WithHybrid(levels, f) ==
  IF f.vcoord = 10 /\ LevelPair(f) \notin DOMAIN levels
  THEN [pair \in DOMAIN levels \union {LevelPair(f)} |->
          IF pair = LevelPair(f) THEN f.misc ELSE levels[pair]]
  ELSE levels

AddFelt(read, f) ==
  IF read.phase = "failed" \/ NamesOf(f) = {} THEN read
  ELSE LET name == ParameterName(f)
           known == name \in DOMAIN read.arrays
       IN  IF known /\ Refuses(read.arrays[name], f) THEN [read EXCEPT !.phase = "failed"]
           ELSE [phase |-> "open", hybridLevels |-> WithHybrid(read.hybridLevels, f),
                 arrays |-> [n \in DOMAIN read.arrays \union {name} |->
                               IF n # name THEN read.arrays[n]
                               ELSE IF known THEN WithField(read.arrays[n], f) ELSE ArrayOf(f)]]

(* The content definition lists invalid fields too, which do not count.     *)
ValidBefore(file, i) == {j \in DOMAIN file.entries : j < i /\ IsValid(file.entries[j])}
IsRead(file, i) == IsValid(file.entries[i]) /\ Cardinality(ValidBefore(file, i)) < file.count
NothingFound == [phase |-> "open", arrays |-> << >>, hybridLevels |-> << >>]
ReadFields(file) ==
  LET read[i \in 0 .. Len(file.entries)] ==
        IF i = 0 THEN NothingFound
        ELSE IF IsRead(file, i) THEN AddFelt(read[i - 1], file.entries[i]) ELSE read[i - 1]
  IN  read[Len(file.entries)]

-----------------------------------------------------------------------------
(* Felt_Array2.                                                             *)
ValidTimesOf(array) == {key.time : key \in DOMAIN array.fields}
HasTime(array) == ~(Cardinality(ValidTimesOf(array)) = 1 /\ array.default.dtype = 4)
TimesOf(array) == IF HasTime(array) THEN ValidTimesOf(array) ELSE {}
IsEps(array) == IsEpsRunParameter(array.default)
LevelPairs(array) ==
  {<<key.first, IF IsEps(array) THEN 0 ELSE key.second>> : key \in DOMAIN array.fields}
EnsembleMembers(array) == IF IsEps(array) THEN {key.second : key \in DOMAIN array.fields} ELSE {}

(* Felt_File2: what the arrays have together, in order.                     *)
Sorted(S, Less(_, _)) ==
  [k \in 1 .. Cardinality(S) |-> CHOOSE x \in S : Cardinality({y \in S : Less(y, x)}) = k - 1]
Arrays == {felt.arrays[name] : name \in DOMAIN felt.arrays}
FileTimes == Sorted(UNION {TimesOf(array) : array \in Arrays}, <)
FileMembers == Sorted(UNION {EnsembleMembers(array) : array \in Arrays}, <)
LevelPairLess(p, q) == p[1] < q[1] \/ (p[1] = q[1] /\ p[2] < q[2])
OfType(arrays, type) == {array \in arrays : array.default.vcoord = type}
FileLevels(type) ==
  Sorted(UNION {LevelPairs(array) : array \in OfType(Arrays, type)}, LevelPairLess)
NY == Max({array.default.rows : array \in Arrays})
FirstName(read) == Parameters[Min({i \in DOMAIN Parameters : Parameters[i].id \in DOMAIN read.arrays})].id
FirstField == felt.arrays[FirstName(felt)].default

YData ==
  LET def == GridDefinition(FirstField)
  IN  [k \in 1 .. NY |->
         IF IsUpper(FirstField) THEN def.start + (NY - 1) * def.increment - (k - 1) * def.increment
         ELSE def.start + (k - 1) * def.increment]

(* The values of a vertical axis, read by the mode of the configuration.    *)
AxisValue(mode, pair) ==
  CASE mode = "level1" -> pair[1]
    [] mode = "level2" -> pair[2]
    [] mode = "hybridLevels" -> felt.hybridLevels[pair]
LevelData(type) ==
  [i \in DOMAIN FileLevels(type) |-> AxisValue(VerticalAxes[type], FileLevels(type)[i])]

(* No vertical axis for one level of the surface, of clouds or of the sea.  *)
IsSurface(array) ==
  /\ Cardinality(LevelPairs(array)) = 1
  /\ \/ array.default.vcoord = 2 /\ \E pair \in LevelPairs(array) : pair[1] \in {1000, 850, 500, 300}
     \/ array.default.vcoord \in {8, 3, 0}
HasEnsembleDim(array) == Cardinality(EnsembleMembers(array)) > 1

(* init: what the configuration must have for the file.                     *)
Described(read) ==
  LET arrays == {read.arrays[name] : name \in DOMAIN read.arrays}
  IN  /\ arrays # {}
      /\ \A array \in arrays :
           /\ array.default.vcoord \in DOMAIN VerticalAxes
           /\ VerticalAxes[array.default.vcoord] = "hybridLevels" =>
                LevelPairs(array) \subseteq DOMAIN read.hybridLevels
      /\ GridIsKnown(read.arrays[FirstName(read)].default)
      /\ Cardinality({GridType(array.default) : array \in arrays}) = 1
      /\ \A name \in DOMAIN read.arrays : Config(name).entries <= 1

OpenFelt(file) ==
  /\ felt.phase = "closed"
  /\ \/ /\ ~file.complete
        /\ felt' = [felt EXCEPT !.phase = "failed"]
     \/ /\ file.complete
        /\ Cardinality(ValidBefore(file, Len(file.entries) + 1)) >= file.count
        /\ felt' = IF Described(ReadFields(file)) THEN ReadFields(file)
                   ELSE [felt EXCEPT !.phase = "failed"]
  /\ UNCHANGED <<feltStream, feltMutex, feltReads>>

-----------------------------------------------------------------------------
(* getDataSlice.  The position after the last one passes the test, and what *)
(* lies behind the times is any time or none.                               *)
TimeAt(position) ==
  IF position < Len(FileTimes) THEN {FileTimes[position + 1]}
  ELSE IF FileTimes = << >> THEN {NoFeltTime} ELSE Range(FileTimes) \union {NoFeltTime}

TimeIsThere(array, time) == TimesOf(array) = {} \/ time \in TimesOf(array)

Layers(array) ==
  IF IsSurface(array) THEN Sorted(LevelPairs(array), LevelPairLess) ELSE FileLevels(array.default.vcoord)
\* For each layer all members.
LayerVals(array) ==
  IF ~HasEnsembleDim(array) THEN Layers(array)
  ELSE LET members == Len(FileMembers)
       IN  [i \in 1 .. Len(Layers(array)) * members |->
              <<Layers(array)[(i - 1) \div members + 1][1], FileMembers[((i - 1) % members) + 1]>>]

Became(t, read) == feltReads' = [feltReads EXCEPT ![t] = read]
Ended(t, outcome) == [feltReads[t] EXCEPT !.pc = "idle", !.outcome = outcome]

StartSlice(t, name, position) ==
  LET array == felt.arrays[name]
  IN  /\ felt.phase = "open" /\ feltReads[t].pc = "idle"
      /\ feltReads[t].n < MaxFeltReads
      /\ Config(name).entries = 1
      /\ \E time \in TimeAt(position) :
           LET read == [pc |-> "waits", name |-> name, position |-> position, time |-> time,
                        at |-> 1, cells |-> << >>, outcome |-> "none", n |-> feltReads[t].n + 1]
           IN  Became(t, IF position > Len(FileTimes) THEN [read EXCEPT !.pc = "idle", !.outcome = "failed"]
                         ELSE IF ~TimeIsThere(array, time) THEN [read EXCEPT !.pc = "idle", !.outcome = "empty"]
                         ELSE read)
      /\ UNCHANGED <<felt, feltStream, feltMutex>>

(* getField: an array without time has its fields at its only one.          *)
WantedKey(read) ==
  LET array == felt.arrays[read.name]
      pair == LayerVals(array)[read.at]
  IN  [time |-> IF HasTime(array) THEN read.time ELSE CHOOSE time \in ValidTimesOf(array) : TRUE,
       first |-> pair[1], second |-> pair[2]]

(* A layer is put behind the ones before it; the last one ends the read.    *)
Put(t, rows) ==
  LET read == feltReads[t]
      last == read.at = Len(LayerVals(felt.arrays[read.name]))
  IN  Became(t, [read EXCEPT !.cells = @ \o rows, !.at = @ + 1,
                             !.pc = IF last THEN "idle" ELSE "waits",
                             !.outcome = IF last THEN "read" ELSE "none"])

(* A slip: the field is sought without the lock.                            *)
MutCanLock(t) == feltReads[t].pc = "waits"
CanLock(t) == feltReads[t].pc = "waits" /\ feltMutex = Unlocked

NoSuchField(t) ==
  LET array == felt.arrays[feltReads[t].name]
  IN  /\ CanLock(t)
      /\ WantedKey(feltReads[t]) \notin DOMAIN array.fields
      /\ Put(t, [k \in 1 .. array.default.rows |-> FillCell])
      /\ UNCHANGED <<felt, feltStream, feltMutex>>

SeekField(t) ==
  LET array == felt.arrays[feltReads[t].name]
      key == WantedKey(feltReads[t])
  IN  /\ CanLock(t)
      /\ key \in DOMAIN array.fields
      /\ IF GridType(array.fields[key]) # GridType(array.default)
         THEN Became(t, Ended(t, "failed")) /\ UNCHANGED <<feltStream, feltMutex>>
         ELSE /\ feltStream' = array.fields[key]
              /\ feltMutex' = t
              /\ Became(t, [feltReads[t] EXCEPT !.pc = "fetches"])
      /\ UNCHANGED felt

Apart(a, b) == IF a < b THEN b - a ELSE a - b
(* getGridAllowDelta and getScaledDataSlice, after the field was read.      *)
GridChanged(array, f) ==
  \/ ~GridIsKnown(f) \/ ~GridIsKnown(array.default)
  \/ Apart(GridDefinition(f).start, GridDefinition(array.default).start) > Delta
  \/ GridDefinition(f).increment # GridDefinition(array.default).increment
ScaleChanged(name, array, f) ==
  Config(name).datatype = "short" /\ f.scale # array.default.scale

FetchField(t) ==
  LET read == feltReads[t]
      array == felt.arrays[read.name]
      f == array.fields[WantedKey(read)]
  IN  /\ read.pc = "fetches"
      /\ feltMutex' = Unlocked
      /\ IF GridChanged(array, f) \/ ScaleChanged(read.name, array, f)
         THEN Became(t, Ended(t, "failed"))
         ELSE Put(t, [k \in 1 .. f.rows |-> <<feltStream.id, k>>])
      /\ UNCHANGED <<felt, feltStream>>

(* setValues cuts what does not fit; what nothing is put to keeps what was  *)
(* in the memory.                                                           *)
SliceSize(array) == NY * Len(LayerVals(array))
SliceCells(read) ==
  [c \in 1 .. SliceSize(felt.arrays[read.name]) |->
     IF c <= Len(read.cells) THEN read.cells[c] ELSE Uninitialized]

-----------------------------------------------------------------------------
NoFeltRead == [pc |-> "idle", name |-> "", position |-> 0, time |-> NoFeltTime, at |-> 0,
               cells |-> << >>, outcome |-> "none", n |-> 0]

FeltInit ==
  /\ felt = [phase |-> "closed", arrays |-> << >>, hybridLevels |-> << >>]
  /\ feltStream = [id |-> "start"]
  /\ feltMutex = Unlocked
  /\ feltReads = [t \in FeltThreads |-> NoFeltRead]

FeltNext ==
  \/ \E file \in FeltFiles : OpenFelt(file)
  \/ \E t \in FeltThreads :
       \/ \E name \in DOMAIN felt.arrays, position \in 0 .. Len(FileTimes) + 1 :
            StartSlice(t, name, position)
       \/ NoSuchField(t)
       \/ SeekField(t)
       \/ FetchField(t)

FeltSpec == FeltInit /\ [][FeltNext]_feltVars

\* Files are lists of headers, which hold numbers.
HeaderOf(f) == f.rows \in Nat /\ f.grid.start \in Int /\ f.grid.increment \in Int
ASSUME FeltFilesAssumption ==
  /\ Unlocked \notin FeltThreads
  /\ \A file \in FeltFiles :
       /\ file.entries \in Seq({file.entries[i] : i \in DOMAIN file.entries})
       /\ \A i \in DOMAIN file.entries : HeaderOf(file.entries[i])

-----------------------------------------------------------------------------
\* The latitude a row of a field is stored for.
StoredAt(f, k) == f.grid.start + (k - 1) * f.grid.increment

\* One grid for all that was read: what the reader has one pair of axes for.  A field that gave
\* an array its name may have been replaced by one of another type of data.
OneGrid ==
  \A array \in Arrays : \A f \in {array.default} \union {array.fields[key] : key \in DOMAIN array.fields} :
    f.grid = FirstField.grid /\ f.rows = FirstField.rows

\* The member of a variable with members but without their dimension.
LoneMember(array) == CHOOSE member \in EnsembleMembers(array) : TRUE

ExpectedKey(read, layer, member) ==
  LET array == felt.arrays[read.name]
  IN  [time |-> IF HasTime(array) THEN FileTimes[read.position + 1]
                ELSE CHOOSE time \in ValidTimesOf(array) : TRUE,
       first |-> Layers(array)[layer][1],
       second |-> IF HasEnsembleDim(array) THEN FileMembers[member] ELSE Layers(array)[layer][2]]

(* A slice that was read has, for every level and member of the announced   *)
(* axes, the rows of the field of that time, level and member at the        *)
(* announced latitudes, and the fill value where the file has no such       *)
(* field; an empty slice is given only for a time the variable does not     *)
(* have: with any number of threads that read at once, when the file has    *)
(* one grid (getDataSlice, getScaledDataSlice, FeltField::grid).            *)
FeltServesTheFile ==
  \A t \in FeltThreads :
    LET read == feltReads[t]
        array == felt.arrays[read.name]
        members == IF HasEnsembleDim(array) THEN Len(FileMembers) ELSE 1
    IN  /\ read.outcome = "read" /\ read.position < Len(FileTimes) /\ OneGrid =>
             \A layer \in DOMAIN Layers(array), member \in 1 .. members, k \in 1 .. NY :
               LET key == ExpectedKey(read, layer, member)
                   cell == SliceCells(read)[((layer - 1) * members + member - 1) * NY + k]
               IN  IF key \in DOMAIN array.fields
                   THEN cell = <<array.fields[key].id, k>> /\ YData[k] = StoredAt(array.fields[key], k)
                   ELSE cell = FillCell
        /\ read.outcome = "empty" /\ read.position < Len(FileTimes) =>
             FileTimes[read.position + 1] \notin ValidTimesOf(array)

(* A field that is in an array is in a slice of its variable, whatever the  *)
(* number of its members.                                                   *)
EveryFieldIsServed ==
  \A t \in FeltThreads :
    LET read == feltReads[t]
        array == felt.arrays[read.name]
    IN  read.outcome = "read" /\ read.position < Len(FileTimes) =>
          \A key \in DOMAIN array.fields :
            key.time = FileTimes[read.position + 1] =>
              \E c \in DOMAIN SliceCells(read) : SliceCells(read)[c][1] = array.fields[key].id
=============================================================================
