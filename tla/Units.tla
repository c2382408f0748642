------------------------------- MODULE Units -------------------------------
(***************************************************************************)
(* Units stands for the udunits2 library, which has one unit system per    *)
(* process, read when the first Units object is made, and one status, that *)
(* of the last call of the library by any thread.  unitsMutex guards both. *)
(* A TimeUnit keeps a parsed unit, which belongs to the system that parsed *)
(* it; Units::unload(true) frees the system.                               *)
(***************************************************************************)
EXTENDS Naturals, Sequences, FiniteSets

CONSTANTS UnitThreads,
          UnitNames,      \* unit strings udunits knows, and "wrong" that it does not
          MaxSystems      \* bound: how often the system is read

VARIABLES utSystem,    \* the unit system in use, 0 is null; numbers are not used twice
          systems,     \* how many were read
          unitsMutex,  \* thread that holds it, "none" otherwise
          status,      \* ut_get_status: of the last call
          call,        \* the call each thread is in
          pUnit        \* the TimeUnit of each thread: the system of its unit, 0 is none

unitVars == <<utSystem, systems, unitsMutex, status, call, pUnit>>

Free == "none"
NoCall == [op |-> "none", at |-> "idle", args |-> <<>>, parsed |-> {}, result |-> "none"]
CallAt(t, at) == call[t].at = at

UnitsInit ==
    /\ utSystem = 0 /\ systems = 0
    /\ unitsMutex = Free
    /\ status = "UT_SUCCESS"
    /\ call = [t \in UnitThreads |-> NoCall]
    /\ pUnit = [t \in UnitThreads |-> 0]

\* What ut_parse says of a string, and of a null system.
ParseStatus(name) ==
    IF utSystem = 0 THEN "UT_BAD_ARG" ELSE IF name = "wrong" THEN "UT_UNKNOWN" ELSE "UT_SUCCESS"

\* A call of the interface: Units().getConverter, areConvertible, TimeUnit(string)
\* and unitTime2fimexTime all begin with the constructor of Units.
Ask(t, op, args) ==
    /\ CallAt(t, "idle")
    /\ op = "toCalendar" => pUnit[t] # 0
    /\ call' = [call EXCEPT ![t] = [op |-> op, at |-> "construct", args |-> args,
                                    parsed |-> {}, result |-> "none"]]
    /\ UNCHANGED <<utSystem, systems, unitsMutex, status, pUnit>>

\* A slip: the system is read although another thread has read it.
MutConstructUnits(t) ==
    /\ CallAt(t, "construct") /\ unitsMutex = Free
    /\ systems < MaxSystems
    /\ utSystem' = systems + 1 /\ systems' = systems + 1 /\ status' = "UT_SUCCESS"
    /\ call' = [call EXCEPT ![t].at = "lock"]
    /\ UNCHANGED <<unitsMutex, pUnit>>

\* Units::Units, under the lock: read the system unless it is there.
ConstructUnits(t) ==
    /\ CallAt(t, "construct") /\ unitsMutex = Free
    /\ IF utSystem = 0
       THEN /\ systems < MaxSystems
            /\ utSystem' = systems + 1 /\ systems' = systems + 1 /\ status' = "UT_SUCCESS"
       ELSE UNCHANGED <<utSystem, systems, status>>
    /\ call' = [call EXCEPT ![t].at = "lock"]
    /\ UNCHANGED <<unitsMutex, pUnit>>

\* Equal names need no library: getConverter returns before it locks.
Lock(t) ==
    /\ CallAt(t, "lock")
    /\ IF call[t].op = "getConverter" /\ call[t].args[1] = call[t].args[2]
       THEN /\ call' = [call EXCEPT ![t].at = "return", ![t].result = "ok"]
            /\ UNCHANGED unitsMutex
       ELSE /\ unitsMutex = Free /\ unitsMutex' = t
            /\ call' = [call EXCEPT ![t].at = "parse"]
    /\ UNCHANGED <<utSystem, systems, status, pUnit>>

\* ut_parse of the next string; a calendar conversion parses none.
Parse(t) ==
    /\ CallAt(t, "parse") /\ call[t].args # <<>>
    /\ status' = ParseStatus(Head(call[t].args))
    /\ call' = [call EXCEPT ![t].at = "status", ![t].parsed = @ \cup {Head(call[t].args)},
                            ![t].args = Tail(@)]
    /\ UNCHANGED <<utSystem, systems, unitsMutex, pUnit>>

\* handleUdUnitError(ut_get_status()): the exception unlocks on its way out.
CheckStatus(t) ==
    /\ CallAt(t, "status")
    /\ IF status = "UT_SUCCESS"
       THEN call' = [call EXCEPT ![t].at = "parse"] /\ UNCHANGED unitsMutex
       ELSE /\ call' = [call EXCEPT ![t].at = "return", ![t].result = "UnitException"]
            /\ unitsMutex' = Free
    /\ UNCHANGED <<utSystem, systems, status, pUnit>>

\* The converter of two parsed units, the unit of a TimeUnit, or the conversion of a time.
Convert(t) ==
    /\ CallAt(t, "parse") /\ call[t].args = <<>>
    /\ status' = IF call[t].op = "toCalendar" /\ pUnit[t] # utSystem THEN "UT_NOT_SAME_SYSTEM" ELSE "UT_SUCCESS"
    /\ pUnit' = IF call[t].op = "TimeUnit" THEN [pUnit EXCEPT ![t] = utSystem] ELSE pUnit
    /\ call' = [call EXCEPT ![t].at = "return",
                            ![t].result = IF status' = "UT_SUCCESS" THEN "ok" ELSE "UnitException"]
    /\ unitsMutex' = Free
    /\ UNCHANGED <<utSystem, systems>>

\* areConvertible catches the exception: a wrong unit is not convertible.
ReturnFromUnits(t) ==
    /\ CallAt(t, "return")
    /\ call' = [call EXCEPT ![t] = NoCall]
    /\ UNCHANGED <<utSystem, systems, unitsMutex, status, pUnit>>

\* The last copy of a TimeUnit is gone: ut_free.
DropTimeUnit(t) ==
    /\ CallAt(t, "idle") /\ pUnit[t] # 0
    /\ pUnit' = [pUnit EXCEPT ![t] = 0]
    /\ UNCHANGED <<utSystem, systems, unitsMutex, status, call>>

\* unload(true).  It takes the lock but does not know of TimeUnits or of calls that have
\* constructed Units and not locked yet: its caller has to.
Unload(t) ==
    /\ CallAt(t, "idle") /\ unitsMutex = Free
    /\ \A u \in UnitThreads : CallAt(u, "idle") /\ pUnit[u] = 0
    /\ utSystem' = 0
    /\ UNCHANGED <<systems, unitsMutex, status, call, pUnit>>

UnitsNext ==
    \E t \in UnitThreads :
        \/ \E op \in {"getConverter", "areConvertible"}, from, to \in UnitNames : Ask(t, op, <<from, to>>)
        \/ \E name \in UnitNames : Ask(t, "TimeUnit", <<name>>)
        \/ Ask(t, "toCalendar", <<>>)
        \/ ConstructUnits(t) \/ Lock(t) \/ Parse(t) \/ CheckStatus(t) \/ Convert(t)
        \/ ReturnFromUnits(t) \/ DropTimeUnit(t) \/ Unload(t)

UnitsSpec == UnitsInit /\ [][UnitsNext]_unitVars

-----------------------------------------------------------------------------
(* A call fails for a wrong unit it parsed itself and for nothing else: neither *)
(* for what another thread left in the status, nor because the unit of a        *)
(* TimeUnit belongs to a system that is not the one in use any more.            *)
OnlyOwnErrors ==
    \A t \in UnitThreads :
        CallAt(t, "return") =>
            (call[t].result = "UnitException" <=> "wrong" \in call[t].parsed)
=============================================================================
