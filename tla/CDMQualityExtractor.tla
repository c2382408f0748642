------------------------- MODULE CDMQualityExtractor -------------------------
(***************************************************************************)
(* CDMQualityExtractor sets elements of a variable to its fill value where *)
(* a status variable has no allowed value.  The status is read through the *)
(* extractor itself, so that it may depend on a status of its own, or from *)
(* another reader.  A slice is a sequence of integers, the empty sequence  *)
(* a slice without data; NaN and Fill are integers no data have.           *)
(***************************************************************************)
EXTENDS Integers, Sequences, FiniteSets, Functions

CONSTANTS QData,        \* name -> position -> slice, of all readers
          QLengths,     \* name -> length of a slice
          QValid,       \* status variable -> [min, max, fill]
          Configs,      \* entries of a configuration: [var, status, other, use, values, bound]
          NaN, Fill

QPositions == UNION {DOMAIN QData[v] : v \in DOMAIN QData}

\* Slices have the size of the variable or no data, at each position of the unlimited dimension.
ASSUME SlicesAssumption ==
    /\ 0 \in QPositions
    /\ \A v \in DOMAIN QData : DOMAIN QData[v] = QPositions /\ QLengths[v] \in Nat \ {0}
    /\ \A v \in DOMAIN QData, p \in QPositions :
         QData[v][p] \in Seq(Int) /\ Len(QData[v][p]) \in {0, QLengths[v]}

VARIABLES statusVariable, \* variable -> its entry
          qPhase,         \* "configure", "read", "thrown"
          qRead           \* the last slice read

qualityVars == <<statusVariable, qPhase, qRead>>

NoRead == [var |-> "", pos |-> 0, slice |-> <<>>]
Has(v) == v \in DOMAIN statusVariable

QualityInit == statusVariable = <<>> /\ qPhase = "configure" /\ qRead = NoRead

\* One variable of the configuration file: a status that is shaped like the variable, or
\* like it without its last dimensions, and values or a use of them.
CompatibleShapes(entry) == QLengths[entry.var] % QLengths[entry.status] = 0
Configure(entry) ==
    /\ qPhase = "configure" /\ ~Has(entry.var)
    /\ IF CompatibleShapes(entry) /\ (entry.values # {} \/ entry.use # "")
       THEN /\ statusVariable' = [v \in DOMAIN statusVariable \cup {entry.var} |->
                                    IF v = entry.var THEN entry ELSE statusVariable[v]]
            /\ UNCHANGED qPhase
       ELSE qPhase' = "thrown" /\ UNCHANGED statusVariable
    /\ UNCHANGED qRead

\* Whether the status is read through the extractor, so that a status of its own counts.
FiltersStatus(entry) == ~entry.other /\ entry.status # entry.var

\* "It is the task of the writer of the configuration, that no circular quality-flags exist."
Circular ==
    \E S \in (SUBSET DOMAIN statusVariable) \ {{}} :
        \A v \in S : FiltersStatus(statusVariable[v]) /\ statusVariable[v].status \in S
Configured ==
    /\ qPhase = "configure" /\ ~Circular
    /\ qPhase' = "read"
    /\ UNCHANGED <<statusVariable, qRead>>

-----------------------------------------------------------------------------
\* Values outside the valid range of the status are undefined, as its fill value is.
ValidStatus(entry, s) ==
    LET valid == QValid[entry.status]
    IN s # NaN /\ s >= valid.min /\ s <= valid.max /\ s # valid.fill

\* findDefinedExtreme: it looks for the first element that is not a number, and finds
\* nothing when there is none.  When there is one, its second loop stays at it for ever.
Extreme(statuses) == IF NaN \in statuses THEN "does not return" ELSE "nothing"

\* What each use allows; highest and lowest allow what is valid when nothing is found.
Allowed(entry, s) ==
    IF entry.values # {} THEN s \in entry.values
    ELSE /\ ValidStatus(entry, s)
         /\ entry.use = "max" => s <= entry.bound
         /\ entry.use = "min" => s >= entry.bound

\* A configuration that keeps what is filled in is not looked at.
ASSUME ConfigsAssumption ==
    \A entry \in Configs :
        /\ entry.var \in DOMAIN QData /\ entry.status \in DOMAIN QData
        /\ CompatibleShapes(entry) => ~Allowed(entry, Fill)

\* A slip: the status counts for its own length only.
MutMasked(entry, data, status) ==
    [i \in DOMAIN data |->
        IF i <= Len(status) /\ ~Allowed(entry, status[i]) THEN Fill ELSE data[i]]

\* The fill value goes where the status, repeated over the length of the data, is undefined.
Masked(entry, data, status) ==
    [i \in DOMAIN data |->
        IF Allowed(entry, status[((i - 1) % Len(status)) + 1]) THEN data[i] ELSE Fill]

\* getDataSlice.  Without data and status the slice is one of fill values, without a status
\* of its own position the first slice counts; sizes that do not fit leave the data alone.
MaskedSlice(entry, data, status) ==
    IF data = <<>> /\ status = <<>> THEN [i \in 1 .. QLengths[entry.var] |-> Fill]
    ELSE IF status = <<>> \/ Len(data) < Len(status) \/ Len(data) % Len(status) # 0 THEN data
    ELSE Masked(entry, data, status)

OrFirst(slice, v, p) == IF slice[<<v, p>>] = <<>> THEN slice[<<v, 0>>] ELSE slice[<<v, p>>]
SlicePlaces == (DOMAIN QData) \X QPositions
Below == [vp \in SlicePlaces |-> QData[vp[1]][vp[2]]]

\* The slice of a variable, given those of its status.
SliceWith(slice, v, p) ==
    IF ~Has(v) THEN Below[<<v, p>>]
    ELSE LET entry == statusVariable[v]
         IN MaskedSlice(entry, Below[<<v, p>>],
                IF entry.other THEN OrFirst(Below, entry.status, p)
                ELSE IF entry.status = v THEN Below[<<v, p>>]
                ELSE OrFirst(slice, entry.status, p))
QualitySlice ==
    LET slice[vp \in SlicePlaces] == SliceWith(slice, vp[1], vp[2])
    IN slice

\* The status the elements of a slice are tested with.
StatusSlice(v, p) ==
    LET entry == statusVariable[v]
    IN IF entry.other THEN OrFirst(Below, entry.status, p)
       ELSE IF entry.status = v THEN Below[<<v, p>>]
       ELSE OrFirst(QualitySlice, entry.status, p)

\* A read that ends: highest and lowest may not return, see Extreme.
Returns(v, p) ==
    Has(v) /\ statusVariable[v].use \in {"highest", "lowest"} =>
        LET entry == statusVariable[v]
            seen == {IF ValidStatus(entry, s) THEN s ELSE NaN : s \in Range(StatusSlice(v, p))}
        IN Extreme(seen) # "does not return"

ReadQuality(v, p) ==
    /\ qPhase = "read" /\ Returns(v, p)
    /\ qRead' = [var |-> v, pos |-> p, slice |-> QualitySlice[<<v, p>>]]
    /\ UNCHANGED <<statusVariable, qPhase>>

QualityNext ==
    \/ \E entry \in Configs : Configure(entry)
    \/ Configured
    \/ \E v \in DOMAIN QData, p \in QPositions : ReadQuality(v, p)

QualitySpec == QualityInit /\ [][QualityNext]_qualityVars

-----------------------------------------------------------------------------
(* An element that is delivered has an allowed status, however short the status *)
(* is, and where the status has a status of its own that one allows it as well. *)
OnlyAllowedRemain ==
    qRead.slice # <<>> /\ Has(qRead.var) =>
        LET entry == statusVariable[qRead.var]
            status == IF QData[entry.status][qRead.pos] # <<>> THEN QData[entry.status][qRead.pos]
                      ELSE QData[entry.status][0]
        IN \A i \in DOMAIN qRead.slice : qRead.slice[i] # Fill /\ status # <<>> =>
             \E k \in DOMAIN status :
                /\ k % Len(status) = i % Len(status)
                /\ Allowed(entry, status[k])
                /\ Has(entry.status) /\ FiltersStatus(entry) =>
                     StatusSlice(qRead.var, qRead.pos)[k] # Fill

(* "highest the highest numerical value found in the data-slice which is valid":*)
(* no element with a lower status is delivered.                                 *)
HighestSelected ==
    qRead.slice # <<>> /\ Has(qRead.var) /\ statusVariable[qRead.var].use = "highest" =>
        LET status == StatusSlice(qRead.var, qRead.pos)
        IN \A i, k \in DOMAIN status : status[i] < status[k] => qRead.slice[i] = Fill
=============================================================================
