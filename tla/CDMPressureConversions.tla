----------------------- MODULE CDMPressureConversions -----------------------
(***************************************************************************)
(* CDMPressureConversions adds variables that are computed with the        *)
(* pressure of their levels.  The constructor takes the operations one     *)
(* after the other: each looks for its sources in the reader's data model, *)
(* changes the own one and adds converters.  "ops" counts the operations   *)
(* done; an exception ends the construction, and what the language leaves  *)
(* undefined ("undefined", "null converter") ends the model.               *)
(*                                                                         *)
(* An operation is a record: its name, the names its options give, "" for  *)
(* an option that is not there.                                            *)
(***************************************************************************)
EXTENDS Integers, FiniteSets, FiniteSetsExt

CONSTANTS PInput,      \* the reader's variables: [name, standard, system]
          PSystems,    \* its systems: [vars, complete, levels, pressure]
          POperations, \* operations that are asked for
          MaxPOps      \* bound: how many

ASSUME PressureAssumption == DOMAIN PInput \subseteq Nat /\ DOMAIN PSystems \subseteq Nat \ {0}

VARIABLES pcdm,        \* the variables announced
          converters,  \* what serves a variable that was added
          pstate,      \* "constructing", "ready" or how the construction ended
          pread,       \* what was read last: [var, from], from being the variables of the reader
          ops

pressureVars == <<pcdm, converters, pstate, pread, ops>>

InputNames == {PInput[i].name : i \in DOMAIN PInput}
Converter(name, kind, from, temperature, system) ==
    [name |-> name, kind |-> kind, from |-> from, temperature |-> temperature, system |-> system]
NothingRead == [var |-> "", from |-> {}]

PressureInit ==
    /\ pcdm = InputNames /\ converters = {} /\ pstate = "constructing" /\ pread = NothingRead /\ ops = 0

\* findVariables, as positions in the reader: the one an option names, if it is there, else all
\* with the standard name.
FoundVariables(option, standard) ==
    {i \in DOMAIN PInput : IF option # "" THEN PInput[i].name = option ELSE PInput[i].standard = standard}
First(found) == PInput[Min(found)].name
\* findCompleteCoordinateSystemFor: the first, 0 if there is none.
CompleteFor(v) ==
    LET is == {i \in DOMAIN PSystems : v \in PSystems[i].vars} IN IF is = {} THEN 0 ELSE Min(is)
\* deriveVariableName: the result of its replacement is not used, the name is always the key.
DerivedName(option, key) == IF option # "" THEN option ELSE key

Added(vars, new, removed) ==
    /\ pcdm' = (pcdm \cup vars) \ removed
    /\ converters' = converters \cup {c \in new : \A d \in converters : d.name # c.name}
    /\ UNCHANGED pstate
Ends(how) == pstate' = how /\ UNCHANGED <<pcdm, converters>>

WithSystem(found) == {i \in found : CompleteFor(PInput[i].name) # 0}

\* A slip: the variable may be there already.
MutThetaTemperature(o) ==
    LET good == WithSystem(FoundVariables(o.theta, "air_potential_temperature"))
        temperature == DerivedName(o.temperature, "air_temperature")
        theta == First(good)
    IN IF good = {} THEN Added({}, {}, {})
       ELSE Added({temperature}, {Converter(temperature, "theta", theta, "", CompleteFor(theta))}, {theta})

\* ThetaTemperatureConverterFactory: only the first with a system gets the one name there is;
\* the source is removed from the model.
ThetaTemperature(o) ==
    LET good == WithSystem(FoundVariables(o.theta, "air_potential_temperature"))
        temperature == DerivedName(o.temperature, "air_temperature")
        theta == First(good)
    IN IF good = {} \/ temperature \in pcdm THEN Added({}, {}, {})
       ELSE Added({temperature}, {Converter(temperature, "theta", theta, "", CompleteFor(theta))}, {theta})

\* HumidityConverterFactory: the loop over the temperatures steps the other iterator, which
\* runs past its end unless the first temperature is on the same system.
Humidity(o) ==
    LET good == WithSystem(FoundVariables(o.humidity, "specific_humidity"))
        temperatures == FoundVariables(o.temperature, "air_temperature")
        same(v) == First(temperatures) \in PSystems[CompleteFor(v)].vars
        name == DerivedName(o.relative, "relative_humidity")
        humidity == First(good)
    IN IF good = {} THEN Added({}, {}, {})
       ELSE IF temperatures = {} THEN Ends("undefined")      \* the log line reads *end
       ELSE IF \E i \in good : ~same(PInput[i].name) THEN Ends("undefined")
       ELSE IF name \in pcdm THEN Added({}, {}, {})
       ELSE IF humidity \notin pcdm THEN Ends("throws")
       ELSE Added({name}, {Converter(name, "humidity", humidity, First(temperatures), CompleteFor(humidity))}, {})

\* OmegaVerticalConverterFactory: one omega and one temperature, on the same system.
OmegaVertical(o) ==
    LET omegas == FoundVariables(o.omega, "omega")
        temperatures == FoundVariables(o.temperature, "air_temperature")
        wind == DerivedName(o.wind, "upward_air_velocity")
        omega == First(omegas)
        system == CompleteFor(omega)
        usable == /\ Cardinality(omegas) = 1 /\ Cardinality(temperatures) = 1 /\ system # 0
                  /\ First(temperatures) \in PSystems[system].vars
    IN IF ~usable \/ wind \in pcdm THEN Added({}, {}, {})
       ELSE Added({wind}, {Converter(wind, "omega", omega, First(temperatures), system)}, {omega})

\* AddPressure4DConverterFactory: the first of the systems with most levels. A converter whose
\* construction throws is only logged, and then used.
AddPressure4D(o) ==
    LET name == IF o.pressure # "" THEN o.pressure ELSE "air_pressure4D"
        candidates == {i \in DOMAIN PSystems : PSystems[i].complete /\ PSystems[i].pressure # "none"}
        best == {i \in candidates : \A j \in candidates :
                    PSystems[i].levels > PSystems[j].levels
                    \/ (PSystems[i].levels = PSystems[j].levels /\ i <= j)}
        reached == {i \in candidates : \A j \in candidates :
                        j < i /\ PSystems[j].pressure = "yes" => PSystems[j].levels < PSystems[i].levels}
    IN IF name \in pcdm THEN Added({}, {}, {})
       ELSE IF \E i \in reached : PSystems[i].pressure = "throws" THEN Ends("null converter")
       ELSE IF candidates = {} THEN Ends("throws")
       ELSE LET system == CHOOSE i \in best : TRUE
            IN Added({name}, {Converter(name, "pressure", "", "", system)}, {})

Operate ==
    /\ pstate = "constructing" /\ ops < MaxPOps
    /\ \E o \in POperations :
        CASE o.conversion = "theta2T" -> ThetaTemperature(o)
          [] o.conversion = "specific2relative" -> Humidity(o)
          [] o.conversion = "omega2vwind" -> OmegaVertical(o)
          [] o.conversion = "add4Dpressure" -> AddPressure4D(o)
          [] OTHER -> Ends("throws")
    /\ ops' = ops + 1 /\ UNCHANGED pread

Constructed == pstate = "constructing" /\ ops > 0 /\ pstate' = "ready" /\ UNCHANGED <<pcdm, converters, pread, ops>>

\* getDataSlice: theta_ is a reference into a vector that is gone since the construction, so
\* the variable read is any name ("other") or, while the memory keeps it, the one meant.
Sources(c, theta) ==
    (IF c.from = "" THEN {} ELSE {IF c.kind = "theta" THEN theta ELSE c.from})
    \cup (IF c.temperature = "" THEN {} ELSE {c.temperature})
ReadConverted ==
    /\ pstate = "ready"
    /\ \E v \in pcdm, kept \in BOOLEAN :
        LET by == {c \in converters : c.name = v}
        IN pread' = [var |-> v,
                     from |-> IF by = {} THEN {v}
                              ELSE LET c == CHOOSE c \in by : TRUE
                                   IN Sources(c, IF kept THEN c.from ELSE "other")]
    /\ UNCHANGED <<pcdm, converters, pstate, ops>>

PressureNext == Operate \/ Constructed \/ ReadConverted
PressureSpec == PressureInit /\ [][PressureNext]_pressureVars

-----------------------------------------------------------------------------
(* Whatever operations are combined, a variable that is announced is either one of the       *)
(* reader's, served as it is there, or has one converter whose sources the reader has, on    *)
(* one system; no variable of the reader changes its meaning under its old name.             *)
EveryVariableHasASource ==
    pstate \in {"constructing", "ready"} =>
        /\ \A v \in pcdm : (\E c \in converters : c.name = v) = (v \notin InputNames)
        /\ \A c \in converters :
            /\ c.name \in pcdm
            /\ {c.from, c.temperature} \ {""} \subseteq InputNames \cap PSystems[c.system].vars

(* What is read of a variable comes from the sources its converter was made with.            *)
ReadFromItsSources ==
    pread.var # "" => pread.from \subseteq InputNames
=============================================================================
