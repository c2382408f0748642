------------------------------- MODULE Logger -------------------------------
(***************************************************************************)
(* Loggers are static objects shared by all threads.  Each creates its     *)
(* implementation (LoggerImpl) when it first logs, through the one         *)
(* LoggerClass of the process, which remembers the loggers it served and   *)
(* resets them when it is deleted.  Pointers are numbers, 0 is null; what  *)
(* was deleted is no longer in "classes" or "impls", and its number is     *)
(* never given again.                                                      *)
(*                                                                         *)
(* A thread is the stack of the functions it is in.  loggerMutex is held   *)
(* within one step only: every function gives it back before it calls      *)
(* another.  The test in getLoggerClass holds no lock (a FIXME says so).   *)
(***************************************************************************)
EXTENDS Integers, Sequences, FiniteSets, SequencesExt

CONSTANTS Loggers, LogThreads,
          MaxClasses, MaxImpls,   \* bounds: objects that are created
          ClassFirst,             \* whether a class was set before threads log, as fimex does
          SetWhileLogging         \* whether the class may be changed while others log

ASSUME LogAssumption == MaxClasses \in Nat \ {0} /\ MaxImpls \in Nat

VARIABLES loggerClass_,  \* the class in use
          classes,       \* classes that exist
          remembered,    \* loggers_ of each class
          pimpl_,        \* implementation of each logger
          impls,         \* implementations that exist
          made,          \* how many classes and implementations were created
          stack,         \* functions each thread is in, the innermost first
          ret,           \* what a thread's last call of getLoggerClass or loggerFor returned
          shutDown       \* whether setClass(0) was called, the last call before exit

logVars == <<loggerClass_, classes, remembered, pimpl_, impls, made, stack, ret, shutDown>>

ClassIds == 1 .. MaxClasses
ImplIds == 1 .. MaxImpls

Frame(f, at, logger, cls) == [f |-> f, at |-> at, logger |-> logger, cls |-> cls, queue |-> {}]
NoLogger == "none"

LogIdle(t) == stack[t] = <<>>
Logs(t) == stack[t] # <<>> => Last(stack[t]).f = "impl"
In(t, f, at) == ~LogIdle(t) /\ Head(stack[t]).f = f /\ Head(stack[t]).at = at
Top(t) == Head(stack[t])
Goto(t, at) == stack' = [stack EXCEPT ![t] = <<[Head(@) EXCEPT !.at = at]>> \o Tail(@)]
Call(t, at, frame) == stack' = [stack EXCEPT ![t] = <<frame, [Head(@) EXCEPT !.at = at]>> \o Tail(@)]
Return(t) == stack' = [stack EXCEPT ![t] = Tail(@)]

-----------------------------------------------------------------------------
LogInit ==
    /\ loggerClass_ = IF ClassFirst THEN 1 ELSE 0
    /\ classes = IF ClassFirst THEN {1} ELSE {}
    /\ remembered = [c \in ClassIds |-> {}]
    /\ pimpl_ = [l \in Loggers |-> 0]
    /\ impls = {}
    /\ made = [classes |-> IF ClassFirst THEN 1 ELSE 0, impls |-> 0]
    /\ stack = [t \in LogThreads |-> <<>>]
    /\ ret = [t \in LogThreads |-> 0]
    /\ shutDown = FALSE

\* isEnabledFor and forcedLog: both ask impl() and use what it returns.
Log(t, l) ==
    /\ LogIdle(t) /\ ~shutDown
    /\ ~SetWhileLogging => \A u \in LogThreads : Logs(u)
    /\ stack' = [stack EXCEPT ![t] = <<Frame("impl", "test", l, 0)>>]
    /\ UNCHANGED <<loggerClass_, classes, remembered, pimpl_, impls, made, ret, shutDown>>

\* setClass by the user: with a new class, or with none before the program ends.
\* The order of the code: swap under the lock, then delete the old class.
UserSetsClass(t, null) ==
    /\ LogIdle(t) /\ ~shutDown
    /\ ~SetWhileLogging => \A u \in LogThreads : LogIdle(u)
    /\ ~null => made.classes < MaxClasses
    /\ shutDown' = null
    /\ stack' = [stack EXCEPT ![t] = <<Frame("setClass", IF null THEN "none" ELSE "new", NoLogger, 0)>>]
    /\ UNCHANGED <<loggerClass_, classes, remembered, pimpl_, impls, made, ret>>

SetClass(t) ==
    LET null == In(t, "setClass", "none")
        new == IF null THEN 0 ELSE made.classes + 1
    IN /\ ~null => In(t, "setClass", "new") /\ made.classes < MaxClasses
       /\ loggerClass_' = new
       /\ classes' = IF null THEN classes ELSE classes \cup {new}
       /\ made' = [made EXCEPT !.classes = IF null THEN @ ELSE @ + 1]
       /\ IF loggerClass_ = 0
          THEN Return(t)
          ELSE stack' = [stack EXCEPT ![t] = <<Frame("~LoggerClass", "swap", NoLogger, loggerClass_)>> \o Tail(@)]
       /\ UNCHANGED <<remembered, pimpl_, impls, ret, shutDown>>

\* ~LoggerClass and LoggerClass::reset: the list is taken, each logger reset.
TakeLoggers(t) ==
    /\ In(t, "~LoggerClass", "swap")
    /\ stack' = [stack EXCEPT ![t] =
            <<[Head(@) EXCEPT !.at = "loggers", !.queue = remembered[Top(t).cls]]>> \o Tail(@)]
    /\ remembered' = [remembered EXCEPT ![Top(t).cls] = {}]
    /\ UNCHANGED <<loggerClass_, classes, pimpl_, impls, made, ret, shutDown>>

ResetNext(t) ==
    /\ In(t, "~LoggerClass", "loggers")
    /\ IF Top(t).queue = {}
       THEN classes' = classes \ {Top(t).cls} /\ Return(t)
       ELSE /\ \E l \in Top(t).queue :
                stack' = [stack EXCEPT ![t] =
                    <<Frame("reset", "test", l, 0), [Head(@) EXCEPT !.queue = Top(t).queue \ {l}]>> \o Tail(@)]
            /\ UNCHANGED classes
    /\ UNCHANGED <<loggerClass_, remembered, pimpl_, impls, made, ret, shutDown>>

-----------------------------------------------------------------------------
\* Logger::reset, in three parts: between them the lock is given back.
ResetTest(t) ==
    /\ In(t, "reset", "test")
    /\ IF pimpl_[Top(t).logger] = 0
       THEN Return(t)
       ELSE Call(t, "forget", Frame("getLoggerClass", "test", NoLogger, 0))
    /\ UNCHANGED <<loggerClass_, classes, remembered, pimpl_, impls, made, ret, shutDown>>

Forget(t) ==
    /\ In(t, "reset", "forget")
    /\ remembered' = [remembered EXCEPT ![ret[t]] = @ \ {Top(t).logger}]
    /\ Goto(t, "delete")
    /\ UNCHANGED <<loggerClass_, classes, pimpl_, impls, made, ret, shutDown>>

\* A slip: the pointer to what was deleted stays.
MutResetDelete(t) ==
    /\ In(t, "reset", "delete")
    /\ impls' = impls \ {pimpl_[Top(t).logger]}
    /\ Return(t)
    /\ UNCHANGED <<loggerClass_, classes, remembered, pimpl_, made, ret, shutDown>>

ResetDelete(t) ==
    /\ In(t, "reset", "delete")
    /\ impls' = impls \ {pimpl_[Top(t).logger]}
    /\ pimpl_' = [pimpl_ EXCEPT ![Top(t).logger] = 0]
    /\ Return(t)
    /\ UNCHANGED <<loggerClass_, classes, remembered, made, ret, shutDown>>

\* getLoggerClass: the test, perhaps setClass, and then the pointer is read again.
GetTest(t) ==
    /\ In(t, "getLoggerClass", "test")
    /\ IF loggerClass_ = 0
       THEN Call(t, "return", Frame("setClass", "new", NoLogger, 0))
       ELSE Goto(t, "return")
    /\ UNCHANGED <<loggerClass_, classes, remembered, pimpl_, impls, made, ret, shutDown>>

GetReturn(t) ==
    /\ In(t, "getLoggerClass", "return")
    /\ ret' = [ret EXCEPT ![t] = loggerClass_]
    /\ Return(t)
    /\ UNCHANGED <<loggerClass_, classes, remembered, pimpl_, impls, made, shutDown>>

-----------------------------------------------------------------------------
\* Logger::impl.
ImplTest(t) ==
    /\ In(t, "impl", "test")
    /\ IF pimpl_[Top(t).logger] = 0
       THEN Call(t, "loggerFor", Frame("getLoggerClass", "test", NoLogger, 0)) /\ UNCHANGED ret
       ELSE Goto(t, "use") /\ ret' = [ret EXCEPT ![t] = pimpl_[Top(t).logger]]
    /\ UNCHANGED <<loggerClass_, classes, remembered, pimpl_, impls, made, shutDown>>

\* loggerFor of the class that getLoggerClass returned: remember, create.
LoggerFor(t) ==
    /\ In(t, "impl", "loggerFor") /\ made.impls < MaxImpls
    /\ remembered' = [remembered EXCEPT ![ret[t]] = @ \cup {Top(t).logger}]
    /\ impls' = impls \cup {made.impls + 1}
    /\ made' = [made EXCEPT !.impls = @ + 1]
    /\ ret' = [ret EXCEPT ![t] = made.impls + 1]
    /\ Goto(t, "store")
    /\ UNCHANGED <<loggerClass_, classes, pimpl_, shutDown>>

\* Another thread may have stored one meanwhile: then this one is never freed.
Store(t) ==
    /\ In(t, "impl", "store")
    /\ LET l == Top(t).logger
           stored == IF pimpl_[l] = 0 THEN ret[t] ELSE pimpl_[l]
       IN pimpl_' = [pimpl_ EXCEPT ![l] = stored] /\ ret' = [ret EXCEPT ![t] = stored]
    /\ Goto(t, "use")
    /\ UNCHANGED <<loggerClass_, classes, remembered, impls, made, shutDown>>

Use(t) ==
    /\ In(t, "impl", "use")
    /\ Return(t)
    /\ UNCHANGED <<loggerClass_, classes, remembered, pimpl_, impls, made, ret, shutDown>>

LogNext ==
    \E t \in LogThreads :
        \/ \E l \in Loggers : Log(t, l)
        \/ \E null \in BOOLEAN : UserSetsClass(t, null)
        \/ SetClass(t) \/ TakeLoggers(t) \/ ResetNext(t)
        \/ ResetTest(t) \/ Forget(t) \/ ResetDelete(t)
        \/ GetTest(t) \/ GetReturn(t)
        \/ ImplTest(t) \/ LoggerFor(t) \/ Store(t) \/ Use(t)

LogSpec == LogInit /\ [][LogNext]_logVars

-----------------------------------------------------------------------------

(* Nobody calls a class or an implementation that is deleted, or none at all.  *)
NoUseAfterDelete ==
    \A t \in LogThreads :
        /\ In(t, "impl", "loggerFor") \/ In(t, "reset", "forget") => ret[t] \in classes
        /\ In(t, "impl", "use") => ret[t] \in impls
        /\ \A k \in DOMAIN stack[t] : stack[t][k].f = "~LoggerClass" => stack[t][k].cls \in classes

(* When all calls have returned, the class in use remembers every logger that  *)
(* has an implementation, which exists: the next change of class reaches all.  *)
ResetReachesAll ==
    (\A t \in LogThreads : LogIdle(t)) =>
        \A l \in Loggers : pimpl_[l] # 0 =>
            /\ loggerClass_ \in classes /\ l \in remembered[loggerClass_]
            /\ pimpl_[l] \in impls

(* Both: a class lives as long as anybody calls it, and does not lose loggers. *)
ClassesOutliveCalls == NoUseAfterDelete /\ ResetReachesAll

(* "To destroy the LoggerClass, e.g. before exit, it is necessary to call      *)
(* setClass(0)": afterwards there is none.                                     *)
ShutDownDestroys ==
    shutDown /\ (\A t \in LogThreads : LogIdle(t)) => classes = {}
=============================================================================
