------------------------- MODULE GlobalObjectsProofs -------------------------
(***************************************************************************)
(* What a process has once: the class of the loggers, the system of units  *)
(* with its status, the stream of a felt file, which threads share, the    *)
(* program that wraps a reader as its options ask, and the file it fills.  *)
(*                                                                         *)
(* For every set of threads and loggers, and every number of objects: if a *)
(* class was set before anybody logs, and it is changed only while nobody  *)
(* does, as the program fimex does, then nobody uses a class or an         *)
(* implementation that was deleted, and the class in use remembers every   *)
(* logger that has an implementation.                                      *)
(*                                                                         *)
(* The stacks of the threads are what makes this long: LogInv says which   *)
(* stacks there are, and that while one thread changes the class all the   *)
(* others are idle.                                                        *)
(*                                                                         *)
(* For every set of threads that ask for units: nobody is told of what     *)
(* another thread did wrong.                                               *)
(*                                                                         *)
(* For every felt file and set of threads that read it: a slice has the    *)
(* fields of its time, levels and members.  FeltInv says what a thread has *)
(* put together so far, and that the stream stands where the thread that   *)
(* has the lock left it; FileInv that a file, whatever it has, is finitely *)
(* many arrays of finitely many fields, so that its axes are sequences.    *)
(*                                                                         *)
(* For every command line, and however merges are nested: a program that   *)
(* reports success has written the input with what was asked, in order.    *)
(* StreamInv says of each stream, the inner ones too, that the stages      *)
(* behind it are in its reader, and no operation of a stage before it.     *)
(*                                                                         *)
(* For every file, all inputs and configurations: threads that fill the    *)
(* file write each value where its coordinates are.  FillInv says that the *)
(* places of a dimension differ, and have the coordinate or nothing yet.   *)
(***************************************************************************)
EXTENDS Logger, Units, FeltCDMReader2, FillWriter, FimexProgram,
        SequenceTheorems, FiniteSetTheorems, WellFoundedInduction, TLAPS

-----------------------------------------------------------------------------
(* Why: with a class set first and changed by nobody while others log, either  *)
(* threads log, which never change the class, or one thread changes the class  *)
(* and the others are idle.  A logger that has an implementation is remembered *)
(* by the class in use, then by the class that is deleted, then it waits in    *)
(* the queue of what is reset.                                                 *)
At(f, place) == Frame(f, place, NoLogger, 0)
Impl(place, l) == Frame("impl", place, l, 0)
Reset(place, l) == Frame("reset", place, l, 0)
Deleting(place, c, queue) == [f |-> "~LoggerClass", at |-> place, logger |-> NoLogger, cls |-> c, queue |-> queue]

LogTyped ==
    /\ made \in [classes : 0 .. MaxClasses, impls : 0 .. MaxImpls]
    /\ loggerClass_ \in 0 .. made.classes /\ classes \subseteq 1 .. made.classes
    /\ remembered \in [ClassIds -> SUBSET Loggers]
    /\ pimpl_ \in [Loggers -> Nat] /\ impls \subseteq 1 .. made.impls
    /\ DOMAIN stack = LogThreads
    /\ ret \in [LogThreads -> Nat]
    /\ shutDown \in BOOLEAN

\* There is a class until the log is shut down.
ClassInUse ==
    /\ loggerClass_ # 0 => loggerClass_ \in classes
    /\ ~shutDown => loggerClass_ # 0
\* Each logger has an implementation of its own, which exists.
OwnImpl ==
    /\ \A l \in Loggers : pimpl_[l] # 0 => pimpl_[l] \in impls
    /\ \A l, m \in Loggers : pimpl_[l] = pimpl_[m] /\ pimpl_[l] # 0 => l = m
RememberedBy(c) == \A l \in Loggers : pimpl_[l] # 0 => c \in ClassIds /\ l \in remembered[c]
LeftIn(queue) == \A l \in Loggers : pimpl_[l] # 0 => l \in queue

\* A thread that logs, and what it knows from its last call.
Logging(t) ==
    \E l \in Loggers :
        \/ stack[t] = <<Impl("test", l)>>
        \/ \E place \in {"test", "return"} : stack[t] = <<At("getLoggerClass", place), Impl("loggerFor", l)>>
        \/ stack[t] = <<Impl("loggerFor", l)>> /\ ret[t] = loggerClass_
        \/ /\ stack[t] = <<Impl("store", l)>>
           /\ ret[t] \in impls /\ l \in remembered[loggerClass_]
           /\ \A m \in Loggers : pimpl_[m] # ret[t]
        \/ stack[t] = <<Impl("use", l)>> /\ ret[t] \in impls
Storing(t) == \E l \in Loggers : stack[t] = <<Impl("store", l)>>
Calm ==
    /\ \A t \in LogThreads : stack[t] = <<>> \/ (Logging(t) /\ ~shutDown)
    /\ \A t, u \in LogThreads : Storing(t) /\ Storing(u) /\ ret[t] = ret[u] => t = u
    /\ RememberedBy(loggerClass_)

\* The thread that changes the class.
Resetting(t, l, d) ==
    \/ stack[t] = <<Reset("test", l), d>>
    \/ stack[t] = <<At("getLoggerClass", "test"), Reset("forget", l), d>>
    \/ stack[t] = <<At("setClass", "new"), At("getLoggerClass", "return"), Reset("forget", l), d>> /\ loggerClass_ = 0
    \/ stack[t] = <<At("getLoggerClass", "return"), Reset("forget", l), d>> /\ loggerClass_ # 0
    \/ stack[t] = <<Reset("forget", l), d>> /\ loggerClass_ # 0 /\ ret[t] = loggerClass_
    \/ stack[t] = <<Reset("delete", l), d>>
Deletes(t, c) ==
    \/ stack[t] = <<Deleting("swap", c, {})>> /\ RememberedBy(c)
    \/ \E queue \in SUBSET Loggers :
        LET d == Deleting("loggers", c, queue)
        IN \/ stack[t] = <<d>> /\ LeftIn(queue)
           \/ \E l \in Loggers : Resetting(t, l, d) /\ LeftIn(queue \cup {l})
Changes(t) ==
    /\ \A u \in LogThreads : u # t => stack[u] = <<>>
    /\ \/ stack[t] = <<At("setClass", "new")>> /\ ~shutDown /\ RememberedBy(loggerClass_)
       \/ stack[t] = <<At("setClass", "none")>> /\ shutDown /\ RememberedBy(loggerClass_)
       \/ \E c \in classes \ {loggerClass_} : Deletes(t, c)
LogInv == LogTyped /\ ClassInUse /\ OwnImpl /\ (Calm \/ \E t \in LogThreads : Changes(t))

\* Stacks of one to four frames.
LEMMA EqualSeqs ==
  ASSUME NEW S, NEW s, NEW r \in Seq(S), s \in Seq(S), Len(s) = Len(r), \A i \in 1 .. Len(r) : s[i] = r[i]
  PROVE  s = r
  BY SeqEqual

LEMMA JoinedOne == \A a : <<a>> \o << >> = <<a>>
<1> SUFFICES ASSUME NEW a PROVE <<a>> \o << >> = <<a>>
  OBVIOUS
<1>1. <<a>> \in Seq({a})
  OBVIOUS
<1> QED
  BY <1>1

LEMMA JoinedTwo == \A a, b : <<a, b>> \o << >> = <<a, b>> /\ <<a>> \o <<b>> = <<a, b>>
<1> SUFFICES ASSUME NEW a, NEW b PROVE <<a, b>> \o << >> = <<a, b>> /\ <<a>> \o <<b>> = <<a, b>>
  OBVIOUS
<1> DEFINE S == {a, b}
           Is(s) == s \in Seq(S) /\ Len(s) = 2 /\ \A i \in 1 .. 2 : s[i] = <<a, b>>[i]
<1>1. <<a>> \in Seq(S) /\ <<b>> \in Seq(S) /\ <<a, b>> \in Seq(S) /\ Len(<<a, b>>) = 2 /\ << >> \in Seq(S)
  OBVIOUS
<1>2. Is(<<a, b>> \o << >>) /\ Is(<<a>> \o <<b>>)
  BY <1>1
<1>3. ASSUME NEW s, Is(s) PROVE s = <<a, b>>
  <2> HIDE DEF S
  <2> QED
    BY <1>1, <1>3, EqualSeqs
<1> QED
  BY <1>2, <1>3

LEMMA JoinedThree == \A a, b, c : <<a>> \o <<b, c>> = <<a, b, c>> /\ <<a, b>> \o <<c>> = <<a, b, c>>
<1> SUFFICES ASSUME NEW a, NEW b, NEW c
             PROVE  <<a>> \o <<b, c>> = <<a, b, c>> /\ <<a, b>> \o <<c>> = <<a, b, c>>
  OBVIOUS
<1> DEFINE S == {a, b, c}
           Is(s) == s \in Seq(S) /\ Len(s) = 3 /\ \A i \in 1 .. 3 : s[i] = <<a, b, c>>[i]
<1>1. /\ <<a>> \in Seq(S) /\ <<c>> \in Seq(S) /\ <<a, b>> \in Seq(S) /\ <<b, c>> \in Seq(S)
      /\ <<a, b, c>> \in Seq(S) /\ Len(<<a, b, c>>) = 3
  OBVIOUS
<1>2. Is(<<a>> \o <<b, c>>) /\ Is(<<a, b>> \o <<c>>)
  BY <1>1
<1>3. ASSUME NEW s, Is(s) PROVE s = <<a, b, c>>
  <2> HIDE DEF S
  <2> QED
    BY <1>1, <1>3, EqualSeqs
<1> QED
  BY <1>2, <1>3

LEMMA JoinedFour == \A a, b, c, d : <<a>> \o <<b, c, d>> = <<a, b, c, d>> /\ <<a, b>> \o <<c, d>> = <<a, b, c, d>>
<1> SUFFICES ASSUME NEW a, NEW b, NEW c, NEW d
             PROVE  <<a>> \o <<b, c, d>> = <<a, b, c, d>> /\ <<a, b>> \o <<c, d>> = <<a, b, c, d>>
  OBVIOUS
<1> DEFINE S == {a, b, c, d}
           Is(s) == s \in Seq(S) /\ Len(s) = 4 /\ \A i \in 1 .. 4 : s[i] = <<a, b, c, d>>[i]
<1>1. /\ <<a>> \in Seq(S) /\ <<b, c, d>> \in Seq(S) /\ <<a, b>> \in Seq(S) /\ <<c, d>> \in Seq(S)
      /\ <<a, b, c, d>> \in Seq(S) /\ Len(<<a, b, c, d>>) = 4
  OBVIOUS
<1>2. Is(<<a>> \o <<b, c, d>>)
  BY <1>1
<1>3. Is(<<a, b>> \o <<c, d>>)
  BY <1>1
<1>4. ASSUME NEW s, Is(s) PROVE s = <<a, b, c, d>>
  <2> HIDE DEF S
  <2> QED
    BY <1>1, <1>4, EqualSeqs
<1> QED
  BY <1>2, <1>3, <1>4

LEMMA HeadsAndTails ==
  /\ \A a : <<a>> # << >> /\ Head(<<a>>) = a /\ Tail(<<a>>) = << >> /\ Last(<<a>>) = a
  /\ \A a, b : <<a, b>> # << >> /\ Head(<<a, b>>) = a /\ Tail(<<a, b>>) = <<b>> /\ Last(<<a, b>>) = b
  /\ \A a, b, c : <<a, b, c>> # << >> /\ Head(<<a, b, c>>) = a /\ Tail(<<a, b, c>>) = <<b, c>> /\ Last(<<a, b, c>>) = c
  /\ \A a, b, c, d : /\ <<a, b, c, d>> # << >> /\ Head(<<a, b, c, d>>) = a /\ Tail(<<a, b, c, d>>) = <<b, c, d>>
                     /\ Last(<<a, b, c, d>>) = d
  BY DEF Last

\* What Goto, Call and Return make of them.
Becomes(t, s) ==
    /\ DOMAIN stack' = LogThreads /\ stack'[t] = s
    /\ \A u \in LogThreads : u # t => stack'[u] = stack[u]
LEMMA Moves ==
  ASSUME NEW t \in LogThreads, DOMAIN stack = LogThreads, NEW a, NEW b, NEW c, NEW d, NEW place, NEW f
  PROVE  /\ Goto(t, place) =>
              /\ stack[t] = <<a>> => Becomes(t, <<[a EXCEPT !.at = place]>>)
              /\ stack[t] = <<a, b>> => Becomes(t, <<[a EXCEPT !.at = place], b>>)
         /\ Call(t, place, f) =>
              /\ stack[t] = <<a>> => Becomes(t, <<f, [a EXCEPT !.at = place]>>)
              /\ stack[t] = <<a, b>> => Becomes(t, <<f, [a EXCEPT !.at = place], b>>)
              /\ stack[t] = <<a, b, c>> => Becomes(t, <<f, [a EXCEPT !.at = place], b, c>>)
         /\ Return(t) =>
              /\ stack[t] = <<a>> => Becomes(t, << >>)
              /\ stack[t] = <<a, b>> => Becomes(t, <<b>>)
              /\ stack[t] = <<a, b, c>> => Becomes(t, <<b, c>>)
              /\ stack[t] = <<a, b, c, d>> => Becomes(t, <<b, c, d>>)
<1>1. ASSUME Goto(t, place)
      PROVE  Becomes(t, <<[Head(stack[t]) EXCEPT !.at = place]>> \o Tail(stack[t]))
  BY <1>1 DEF Goto, Becomes
<1>2. ASSUME Call(t, place, f)
      PROVE  Becomes(t, <<f, [Head(stack[t]) EXCEPT !.at = place]>> \o Tail(stack[t]))
  BY <1>2 DEF Call, Becomes
<1>3. ASSUME Return(t)
      PROVE  Becomes(t, Tail(stack[t]))
  BY <1>3 DEF Return, Becomes
<1> DEFINE e == [a EXCEPT !.at = place]
<1>4. /\ stack[t] = <<a>> => Head(stack[t]) = a /\ Tail(stack[t]) = << >>
      /\ stack[t] = <<a, b>> => Head(stack[t]) = a /\ Tail(stack[t]) = <<b>>
      /\ stack[t] = <<a, b, c>> => Head(stack[t]) = a /\ Tail(stack[t]) = <<b, c>>
      /\ stack[t] = <<a, b, c, d>> => Head(stack[t]) = a /\ Tail(stack[t]) = <<b, c, d>>
  <2>1. stack[t] = <<a>> => Head(stack[t]) = a /\ Tail(stack[t]) = << >>
    BY HeadsAndTails
  <2>2. stack[t] = <<a, b>> => Head(stack[t]) = a /\ Tail(stack[t]) = <<b>>
    BY HeadsAndTails
  <2>3. stack[t] = <<a, b, c>> => Head(stack[t]) = a /\ Tail(stack[t]) = <<b, c>>
    BY HeadsAndTails
  <2>4. stack[t] = <<a, b, c, d>> => Head(stack[t]) = a /\ Tail(stack[t]) = <<b, c, d>>
    BY HeadsAndTails
  <2> QED
    BY <2>1, <2>2, <2>3, <2>4
<1>5. <<e>> \o << >> = <<e>> /\ <<e>> \o <<b>> = <<e, b>>
  BY JoinedOne, JoinedTwo
<1>6. <<f, e>> \o << >> = <<f, e>> /\ <<f, e>> \o <<b>> = <<f, e, b>> /\ <<f, e>> \o <<b, c>> = <<f, e, b, c>>
  BY JoinedTwo, JoinedThree, JoinedFour
<1>7. Goto(t, place) =>
        /\ stack[t] = <<a>> => Becomes(t, <<e>>)
        /\ stack[t] = <<a, b>> => Becomes(t, <<e, b>>)
  BY <1>1, <1>4, <1>5, Zenon
<1>8. Call(t, place, f) =>
        /\ stack[t] = <<a>> => Becomes(t, <<f, e>>)
        /\ stack[t] = <<a, b>> => Becomes(t, <<f, e, b>>)
        /\ stack[t] = <<a, b, c>> => Becomes(t, <<f, e, b, c>>)
  BY <1>2, <1>4, <1>6, Zenon
<1> QED
  BY <1>3, <1>4, <1>7, <1>8, Zenon

LEMMA Tops ==
  ASSUME NEW t, NEW a, NEW b, NEW c, NEW d,
         stack[t] \in {<<a>>, <<a, b>>, <<a, b, c>>, <<a, b, c, d>>}
  PROVE  /\ ~LogIdle(t) /\ Top(t) = a
         /\ \A f, place : In(t, f, place) <=> a.f = f /\ a.at = place
<1>1. CASE stack[t] = <<a>>
  BY <1>1, HeadsAndTails DEF LogIdle, Top, In
<1>2. CASE stack[t] = <<a, b>>
  BY <1>2, HeadsAndTails DEF LogIdle, Top, In
<1>3. CASE stack[t] = <<a, b, c>>
  BY <1>3, HeadsAndTails DEF LogIdle, Top, In
<1>4. CASE stack[t] = <<a, b, c, d>>
  BY <1>4, HeadsAndTails DEF LogIdle, Top, In
<1> QED
  BY <1>1, <1>2, <1>3, <1>4

\* Where a thread is that logs, or that changes the class, by the top of its stack.
LEMMA WhereLogging ==
  ASSUME NEW t \in LogThreads, Logging(t), NEW f, NEW place, In(t, f, place)
  PROVE  \E l \in Loggers :
           \/ f = "impl" /\ place = "test" /\ stack[t] = <<Impl("test", l)>>
           \/ f = "getLoggerClass" /\ place \in {"test", "return"} /\ stack[t] = <<At("getLoggerClass", place), Impl("loggerFor", l)>>
           \/ f = "impl" /\ place = "loggerFor" /\ stack[t] = <<Impl("loggerFor", l)>> /\ ret[t] = loggerClass_
           \/ /\ f = "impl" /\ place = "store" /\ stack[t] = <<Impl("store", l)>>
              /\ ret[t] \in impls /\ l \in remembered[loggerClass_]
              /\ \A m \in Loggers : pimpl_[m] # ret[t]
           \/ f = "impl" /\ place = "use" /\ stack[t] = <<Impl("use", l)>> /\ ret[t] \in impls
<1> PICK l \in Loggers :
        \/ stack[t] = <<Impl("test", l)>>
        \/ \E p \in {"test", "return"} : stack[t] = <<At("getLoggerClass", p), Impl("loggerFor", l)>>
        \/ stack[t] = <<Impl("loggerFor", l)>> /\ ret[t] = loggerClass_
        \/ /\ stack[t] = <<Impl("store", l)>>
           /\ ret[t] \in impls /\ l \in remembered[loggerClass_]
           /\ \A m \in Loggers : pimpl_[m] # ret[t]
        \/ stack[t] = <<Impl("use", l)>> /\ ret[t] \in impls
  BY Zenon DEF Logging
<1>1. CASE stack[t] = <<Impl("test", l)>>
  <2>1. f = "impl" /\ place = "test"
    BY <1>1, Tops DEF Impl, Frame
  <2> QED
    BY <1>1, <2>1, Zenon
<1>2. ASSUME NEW p \in {"test", "return"}, stack[t] = <<At("getLoggerClass", p), Impl("loggerFor", l)>>
      PROVE  f = "getLoggerClass" /\ place = p
  BY <1>2, Tops DEF At, Frame
<1>3. CASE stack[t] = <<Impl("loggerFor", l)>> /\ ret[t] = loggerClass_
  <2>1. f = "impl" /\ place = "loggerFor"
    BY <1>3, Tops DEF Impl, Frame
  <2> QED
    BY <1>3, <2>1, Zenon
<1>4. CASE /\ stack[t] = <<Impl("store", l)>>
           /\ ret[t] \in impls /\ l \in remembered[loggerClass_]
           /\ \A m \in Loggers : pimpl_[m] # ret[t]
  <2>1. f = "impl" /\ place = "store"
    BY <1>4, Tops DEF Impl, Frame
  <2> QED
    BY <1>4, <2>1, Zenon
<1>5. CASE stack[t] = <<Impl("use", l)>> /\ ret[t] \in impls
  <2>1. f = "impl" /\ place = "use"
    BY <1>5, Tops DEF Impl, Frame
  <2> QED
    BY <1>5, <2>1, Zenon
<1> QED
  BY <1>1, <1>2, <1>3, <1>4, <1>5, Zenon

\* The places of the thread that changes the class, by the top of its stack.
Old(c, queue) == c \in classes \ {loggerClass_} /\ queue \in SUBSET Loggers
OthersIdle(t) == \A u \in LogThreads : u # t => stack[u] = << >>
ResetsAt(t, f, place, l, d) ==
    \/ f = "reset" /\ place = "test" /\ stack[t] = <<Reset("test", l), d>>
    \/ f = "getLoggerClass" /\ place = "test" /\ stack[t] = <<At("getLoggerClass", "test"), Reset("forget", l), d>>
    \/ /\ f = "setClass" /\ place = "new" /\ loggerClass_ = 0
       /\ stack[t] = <<At("setClass", "new"), At("getLoggerClass", "return"), Reset("forget", l), d>>
    \/ /\ f = "getLoggerClass" /\ place = "return" /\ loggerClass_ # 0
       /\ stack[t] = <<At("getLoggerClass", "return"), Reset("forget", l), d>>
    \/ f = "reset" /\ place = "forget" /\ stack[t] = <<Reset("forget", l), d>> /\ loggerClass_ # 0 /\ ret[t] = loggerClass_
    \/ f = "reset" /\ place = "delete" /\ stack[t] = <<Reset("delete", l), d>>
LEMMA WhereResetting ==
  ASSUME NEW t \in LogThreads, NEW l, NEW d, Resetting(t, l, d), NEW f, NEW place, In(t, f, place)
  PROVE  ResetsAt(t, f, place, l, d)
<1> USE DEF At, Reset, Frame, ResetsAt
<1>1. CASE stack[t] = <<Reset("test", l), d>>
  BY <1>1, Tops
<1>2. CASE stack[t] = <<At("getLoggerClass", "test"), Reset("forget", l), d>>
  BY <1>2, Tops
<1>3. CASE stack[t] = <<At("setClass", "new"), At("getLoggerClass", "return"), Reset("forget", l), d>> /\ loggerClass_ = 0
  BY <1>3, Tops
<1>4. CASE stack[t] = <<At("getLoggerClass", "return"), Reset("forget", l), d>> /\ loggerClass_ # 0
  BY <1>4, Tops
<1>5. CASE stack[t] = <<Reset("forget", l), d>> /\ loggerClass_ # 0 /\ ret[t] = loggerClass_
  BY <1>5, Tops
<1>6. CASE stack[t] = <<Reset("delete", l), d>>
  BY <1>6, Tops
<1> QED
  BY <1>1, <1>2, <1>3, <1>4, <1>5, <1>6 DEF Resetting

ChangesAt(t, f, place) ==
    \/ f = "setClass" /\ place = "new" /\ stack[t] = <<At("setClass", "new")>> /\ ~shutDown /\ RememberedBy(loggerClass_)
    \/ f = "setClass" /\ place = "none" /\ stack[t] = <<At("setClass", "none")>> /\ shutDown /\ RememberedBy(loggerClass_)
    \/ \E c \in classes \ {loggerClass_} :
        \/ f = "~LoggerClass" /\ place = "swap" /\ stack[t] = <<Deleting("swap", c, {})>> /\ RememberedBy(c)
        \/ \E queue \in SUBSET Loggers :
            LET d == Deleting("loggers", c, queue)
            IN \/ f = "~LoggerClass" /\ place = "loggers" /\ stack[t] = <<d>> /\ LeftIn(queue)
               \/ \E l \in Loggers : ResetsAt(t, f, place, l, d) /\ LeftIn(queue \cup {l})
LEMMA WhereChanging ==
  ASSUME NEW t \in LogThreads, Changes(t), NEW f, NEW place, In(t, f, place)
  PROVE  ChangesAt(t, f, place)
<1> USE DEF ChangesAt
<1>1. CASE stack[t] = <<At("setClass", "new")>> /\ ~shutDown /\ RememberedBy(loggerClass_)
  <2>1. f = "setClass" /\ place = "new"
    BY <1>1, Tops DEF At, Frame
  <2> QED
    BY <1>1, <2>1, Zenon
<1>2. CASE stack[t] = <<At("setClass", "none")>> /\ shutDown /\ RememberedBy(loggerClass_)
  <2>1. f = "setClass" /\ place = "none"
    BY <1>2, Tops DEF At, Frame
  <2> QED
    BY <1>2, <2>1, Zenon
<1>3. ASSUME NEW c \in classes \ {loggerClass_}, Deletes(t, c)
      PROVE  ChangesAt(t, f, place)
  <2>1. CASE stack[t] = <<Deleting("swap", c, {})>> /\ RememberedBy(c)
    <3>1. f = "~LoggerClass" /\ place = "swap"
      BY <2>1, Tops DEF Deleting
    <3> QED
      BY <2>1, <3>1, Zenon
  <2>2. ASSUME NEW queue \in SUBSET Loggers, stack[t] = <<Deleting("loggers", c, queue)>>, LeftIn(queue)
        PROVE  ChangesAt(t, f, place)
    <3>1. f = "~LoggerClass" /\ place = "loggers"
      BY <2>2, Tops DEF Deleting
    <3> QED
      BY <2>2, <3>1, Zenon
  <2>3. ASSUME NEW queue \in SUBSET Loggers, NEW l \in Loggers,
               Resetting(t, l, Deleting("loggers", c, queue)), LeftIn(queue \cup {l})
        PROVE  ChangesAt(t, f, place)
    BY <2>3, WhereResetting, Zenon
  <2> QED
    BY <1>3, <2>1, <2>2, <2>3, Zenon DEF Deletes
<1> QED
  BY <1>1, <1>2, <1>3, Zenon DEF Changes

LEMMA CalmOrChanging ==
  ASSUME LogInv, NEW t \in LogThreads, NEW f, NEW place, In(t, f, place)
  PROVE  /\ f = "impl" => Calm /\ ~shutDown /\ Logging(t)
         /\ f \in {"setClass", "~LoggerClass", "reset"} => Changes(t)
         /\ Changes(t) \/ (Calm /\ ~shutDown /\ Logging(t))
<1>1. stack[t] # << >>
  BY DEF In, LogIdle
<1>2. ASSUME NEW s \in LogThreads, Changes(s) PROVE s = t
  BY <1>1, <1>2, Zenon DEF Changes
<1>3. Changes(t) \/ (Calm /\ ~shutDown /\ Logging(t))
  BY <1>1, <1>2, Zenon DEF LogInv, Calm
<1>4. Changes(t) => f # "impl"
  <2>1. ~ChangesAt(t, "impl", place)
    BY DEF ChangesAt, ResetsAt
  <2> QED
    BY <2>1, WhereChanging
<1>5. Logging(t) => f \notin {"setClass", "~LoggerClass", "reset"}
  BY WhereLogging
<1> QED
  BY <1>3, <1>4, <1>5, Zenon

LEMMA LogInitially ==
  ASSUME ClassFirst, LogInit
  PROVE  LogInv
<1>1. LogTyped
  <2>1. loggerClass_ = 1 /\ classes = {1} /\ made = [classes |-> 1, impls |-> 0] /\ impls = {}
    BY LogAssumption DEF LogInit
  <2>2. /\ remembered \in [ClassIds -> SUBSET Loggers] /\ pimpl_ \in [Loggers -> Nat]
        /\ DOMAIN stack = LogThreads /\ ret \in [LogThreads -> Nat] /\ shutDown \in BOOLEAN
    BY DEF LogInit
  <2> QED
    BY <2>1, <2>2, LogAssumption DEF LogTyped
<1>2. ClassInUse /\ OwnImpl /\ Calm
  <2>1. \A t \in LogThreads : stack[t] = << >> /\ ~Storing(t)
    BY HeadsAndTails DEF LogInit, Storing
  <2> QED
    BY <2>1 DEF LogInit, ClassInUse, OwnImpl, Calm, RememberedBy
<1> QED
  BY <1>1, <1>2 DEF LogInv

\* What a step leaves of the threads that log, but for the one that takes it.
LEMMA OthersLog ==
  ASSUME Calm, NEW t \in LogThreads, NEW s, Becomes(t, s), UNCHANGED <<loggerClass_, shutDown>>,
         \A u \in LogThreads : u # t => ret'[u] = ret[u],
         impls \subseteq impls', remembered[loggerClass_] \subseteq remembered'[loggerClass_],
         \A u \in LogThreads : u # t /\ Storing(u) => \A m \in Loggers : pimpl_'[m] # ret[u]
  PROVE  \A u \in LogThreads : u # t =>
           /\ stack'[u] = << >> \/ (Logging(u)' /\ ~shutDown')
           /\ Storing(u)' <=> Storing(u)
<1> SUFFICES ASSUME NEW u \in LogThreads, u # t
             PROVE  /\ stack'[u] = << >> \/ (Logging(u)' /\ ~shutDown')
                    /\ Storing(u)' <=> Storing(u)
  OBVIOUS
<1>1. stack'[u] = stack[u] /\ ret'[u] = ret[u]
  BY DEF Becomes
<1>2. Storing(u)' <=> Storing(u)
  BY <1>1 DEF Storing
<1>3. Logging(u) => Logging(u)'
  BY <1>1 DEF Logging, Storing
<1> QED
  BY <1>1, <1>2, <1>3 DEF Calm

\* What a thread stores is not yet anybody's.
LEMMA StoredIsNew ==
  ASSUME Calm, NEW u \in LogThreads, Storing(u)
  PROVE  ret[u] \in impls /\ \A m \in Loggers : pimpl_[m] # ret[u]
<1> PICK l \in Loggers : stack[u] = <<Impl("store", l)>>
  BY DEF Storing
<1>1. stack[u] # << >> /\ In(u, "impl", "store")
  BY Tops, HeadsAndTails DEF Impl, Frame
<1>2. Logging(u)
  BY <1>1 DEF Calm
<1> QED
  BY <1>1, <1>2, WhereLogging
LEMMA OthersGoOn ==
  ASSUME Calm, NEW t \in LogThreads, NEW s, Becomes(t, s), UNCHANGED <<loggerClass_, shutDown, impls, remembered, pimpl_>>,
         \A u \in LogThreads : u # t => ret'[u] = ret[u]
  PROVE  \A u \in LogThreads : u # t =>
           /\ stack'[u] = << >> \/ (Logging(u)' /\ ~shutDown')
           /\ Storing(u)' <=> Storing(u)
  BY OthersLog, StoredIsNew

LEMMA ImplTop ==
  ASSUME NEW t, NEW place, NEW l, stack[t] = <<Impl(place, l)>>
  PROVE  Top(t) = Impl(place, l) /\ Top(t).logger = l
<1>1. Top(t) = Impl(place, l)
  BY Tops
<1> QED
  BY <1>1 DEF Impl, Frame
LEMMA Replaced ==
  \A f, place, other, l : [Frame(f, place, l, 0) EXCEPT !.at = other] = Frame(f, other, l, 0)
  BY DEF Frame

\* Whoever changes the class is not below the log.
LEMMA ChangesBelow ==
  ASSUME NEW s, Changes(s)
  PROVE  stack[s] # << >> /\ Last(stack[s]).f \in {"setClass", "~LoggerClass"}
<1>1. ASSUME NEW place, stack[s] = <<At("setClass", place)>>
      PROVE  stack[s] # << >> /\ Last(stack[s]).f = "setClass"
  <2>1. stack[s] # << >> /\ Last(stack[s]) = At("setClass", place)
    BY <1>1, HeadsAndTails
  <2> QED
    BY <2>1 DEF At, Frame
<1>2. ASSUME NEW place, NEW c, NEW queue, stack[s] # << >>, Last(stack[s]) = Deleting(place, c, queue)
      PROVE  Last(stack[s]).f = "~LoggerClass"
  BY <1>2 DEF Deleting
<1>3. ASSUME NEW d, stack[s] = <<d>> PROVE stack[s] # << >> /\ Last(stack[s]) = d
  BY <1>3, HeadsAndTails
<1>4. ASSUME NEW k, NEW d, Resetting(s, k, d) PROVE stack[s] # << >> /\ Last(stack[s]) = d
  <2>1. ASSUME NEW a, stack[s] = <<a, d>> PROVE stack[s] # << >> /\ Last(stack[s]) = d
    BY <2>1, HeadsAndTails
  <2>2. ASSUME NEW a, NEW b, stack[s] = <<a, b, d>> PROVE stack[s] # << >> /\ Last(stack[s]) = d
    BY <2>2, HeadsAndTails
  <2>3. ASSUME NEW a, NEW b, NEW c, stack[s] = <<a, b, c, d>> PROVE stack[s] # << >> /\ Last(stack[s]) = d
    BY <2>3, HeadsAndTails
  <2> QED
    BY <1>4, <2>1, <2>2, <2>3, Zenon DEF Resetting
<1>5. ASSUME NEW c, Deletes(s, c) PROVE stack[s] # << >> /\ Last(stack[s]).f = "~LoggerClass"
  <2>1. CASE stack[s] = <<Deleting("swap", c, {})>>
    <3>1. stack[s] # << >> /\ Last(stack[s]) = Deleting("swap", c, {})
      BY <2>1, <1>3
    <3> QED
      BY <3>1, <1>2
  <2>2. ASSUME NEW queue, stack[s] = <<Deleting("loggers", c, queue)>>
        PROVE  stack[s] # << >> /\ Last(stack[s]).f = "~LoggerClass"
    <3>1. stack[s] # << >> /\ Last(stack[s]) = Deleting("loggers", c, queue)
      BY <2>2, <1>3
    <3> QED
      BY <3>1, <1>2
  <2>3. ASSUME NEW queue, NEW k, Resetting(s, k, Deleting("loggers", c, queue))
        PROVE  stack[s] # << >> /\ Last(stack[s]).f = "~LoggerClass"
    <3>1. stack[s] # << >> /\ Last(stack[s]) = Deleting("loggers", c, queue)
      BY <2>3, <1>4
    <3> QED
      BY <3>1, <1>2
  <2> QED
    BY <1>5, <2>1, <2>2, <2>3, Zenon DEF Deletes
<1> QED
  BY <1>1, <1>5, Zenon DEF Changes

\* The steps of threads that log.
LEMMA LogKeeps ==
  ASSUME ~SetWhileLogging, LogInv, NEW t \in LogThreads, NEW l \in Loggers, Log(t, l)
  PROVE  LogInv'
<1>1. \A u \in LogThreads : stack[u] # << >> => Last(stack[u]).f = "impl"
  BY DEF Log, Logs
<1>2. ASSUME NEW s \in LogThreads, Changes(s) PROVE FALSE
  BY <1>1, <1>2, ChangesBelow
<1>3. Calm
  BY <1>2 DEF LogInv
<1>4. Becomes(t, <<Impl("test", l)>>) /\ ~shutDown
  BY DEF Log, LogInv, LogTyped, Becomes, Impl
<1>5. Logging(t)' /\ ~Storing(t)'
  <2>1. stack'[t] = <<Impl("test", l)>>
    BY <1>4 DEF Becomes
  <2>2. stack'[t] # <<Impl("store", l)>> /\ \A m \in Loggers : stack'[t] # <<Impl("store", m)>>
    BY <2>1 DEF Impl, Frame
  <2> QED
    BY <2>1, <2>2 DEF Logging, Storing
<1>6. \A u \in LogThreads : u # t =>
        /\ stack'[u] = << >> \/ (Logging(u)' /\ ~shutDown')
        /\ Storing(u)' <=> Storing(u)
  BY <1>3, <1>4, OthersGoOn DEF Log
<1>7. Calm'
  BY <1>3, <1>4, <1>5, <1>6 DEF Calm, Log, RememberedBy
<1>8. LogTyped' /\ ClassInUse' /\ OwnImpl'
  BY <1>4 DEF Log, LogInv, LogTyped, ClassInUse, OwnImpl, Becomes
<1> QED
  BY <1>7, <1>8 DEF LogInv

LEMMA ImplTestKeeps ==
  ASSUME LogInv, NEW t \in LogThreads, ImplTest(t)
  PROVE  LogInv'
<1>0. In(t, "impl", "test")
  BY DEF ImplTest
<1>1. Calm /\ ~shutDown /\ Logging(t)
  BY <1>0, CalmOrChanging
<1> PICK l \in Loggers : stack[t] = <<Impl("test", l)>>
  BY <1>0, <1>1, WhereLogging
<1>2. Top(t) = Impl("test", l) /\ Top(t).logger = l
  BY Tops DEF Impl, Frame
<1>3. DOMAIN stack = LogThreads /\ ret \in [LogThreads -> Nat]
  BY DEF LogInv, LogTyped
<1>4. CASE pimpl_[l] = 0
  <2>1. Becomes(t, <<At("getLoggerClass", "test"), Impl("loggerFor", l)>>) /\ UNCHANGED ret
    <3>1. Call(t, "loggerFor", At("getLoggerClass", "test")) /\ UNCHANGED ret
      BY <1>2, <1>4 DEF ImplTest, At
    <3>2. [Impl("test", l) EXCEPT !.at = "loggerFor"] = Impl("loggerFor", l)
      BY DEF Impl, Frame
    <3> QED
      BY <1>3, <3>1, <3>2, Moves
  <2>2. Logging(t)' /\ ~Storing(t)'
    <3>1. stack'[t] = <<At("getLoggerClass", "test"), Impl("loggerFor", l)>>
      BY <2>1 DEF Becomes
    <3>2. \A m \in Loggers : stack'[t] # <<Impl("store", m)>>
      BY <3>1 DEF Impl, Frame
    <3> QED
      BY <3>1, <3>2 DEF Logging, Storing
  <2>3. \A u \in LogThreads : u # t => (stack'[u] = << >> \/ (Logging(u)' /\ ~shutDown')) /\ (Storing(u)' <=> Storing(u))
    BY <1>1, <2>1, OthersGoOn DEF ImplTest
  <2>4. Calm'
    BY <1>1, <2>1, <2>2, <2>3 DEF Calm, ImplTest, RememberedBy
  <2> QED
    BY <2>1, <2>4 DEF ImplTest, LogInv, LogTyped, ClassInUse, OwnImpl, Becomes
<1>5. CASE pimpl_[l] # 0
  <2>1. Becomes(t, <<Impl("use", l)>>) /\ ret' = [ret EXCEPT ![t] = pimpl_[l]]
    <3>1. Goto(t, "use") /\ ret' = [ret EXCEPT ![t] = pimpl_[l]]
      BY <1>2, <1>5 DEF ImplTest
    <3>2. [Impl("test", l) EXCEPT !.at = "use"] = Impl("use", l)
      BY DEF Impl, Frame
    <3> QED
      BY <1>3, <3>1, <3>2, Moves
  <2>2. Logging(t)' /\ ~Storing(t)'
    <3>1. stack'[t] = <<Impl("use", l)>> /\ ret'[t] \in impls'
      BY <1>3, <1>5, <2>1 DEF Becomes, LogInv, OwnImpl, ImplTest
    <3>2. \A m \in Loggers : stack'[t] # <<Impl("store", m)>>
      BY <3>1 DEF Impl, Frame
    <3> QED
      BY <3>1, <3>2 DEF Logging, Storing
  <2>3. \A u \in LogThreads : u # t => (stack'[u] = << >> \/ (Logging(u)' /\ ~shutDown')) /\ (Storing(u)' <=> Storing(u)) /\ ret'[u] = ret[u]
    BY <1>1, <1>3, <2>1, OthersGoOn DEF ImplTest
  <2>4. Calm'
    BY <1>1, <2>1, <2>2, <2>3 DEF Calm, ImplTest, RememberedBy
  <2> QED
    BY <1>3, <2>1, <2>4 DEF ImplTest, LogInv, LogTyped, ClassInUse, OwnImpl, Becomes
<1> QED
  BY <1>4, <1>5

LEMMA LoggerForKeeps ==
  ASSUME LogInv, NEW t \in LogThreads, LoggerFor(t)
  PROVE  LogInv'
<1>0. In(t, "impl", "loggerFor")
  BY DEF LoggerFor
<1>1. Calm /\ ~shutDown /\ Logging(t)
  BY <1>0, CalmOrChanging
<1> PICK l \in Loggers : stack[t] = <<Impl("loggerFor", l)>> /\ ret[t] = loggerClass_
  BY <1>0, <1>1, WhereLogging
<1>2. Top(t) = Impl("loggerFor", l) /\ Top(t).logger = l
  BY ImplTop
<1> USE DEF LogInv, LogTyped
<1>3. loggerClass_ \in ClassIds
  BY <1>1, LogAssumption DEF ClassInUse, ClassIds
<1> DEFINE new == made.impls + 1
<1>4. new \in 1 .. MaxImpls /\ new \notin impls /\ \A m \in Loggers : pimpl_[m] # new
  <2>1. made.impls \in 0 .. MaxImpls /\ new \in 1 .. MaxImpls
    BY LogAssumption DEF LoggerFor
  <2> QED
    BY <2>1 DEF OwnImpl
<1>5. Becomes(t, <<Impl("store", l)>>)
  <2>1. Goto(t, "store")
    BY DEF LoggerFor
  <2>2. [Impl("loggerFor", l) EXCEPT !.at = "store"] = Impl("store", l)
    BY Replaced DEF Impl
  <2> QED
    BY <2>1, <2>2, Moves
<1>6. /\ remembered' = [remembered EXCEPT ![loggerClass_] = @ \cup {l}]
      /\ impls' = impls \cup {new} /\ made' = [made EXCEPT !.impls = new]
      /\ ret' = [ret EXCEPT ![t] = new] /\ UNCHANGED <<loggerClass_, classes, pimpl_, shutDown>>
  BY <1>2 DEF LoggerFor
<1> HIDE DEF new
<1>7. LogTyped'
  <2>1. remembered' \in [ClassIds -> SUBSET Loggers]
    BY <1>3, <1>6
  <2>2. ret' \in [LogThreads -> Nat]
    BY <1>4, <1>6
  <2>3. made' \in [classes : 0 .. MaxClasses, impls : 0 .. MaxImpls] /\ made'.classes = made.classes
    BY <1>4, <1>6
  <2>4. impls' \subseteq 1 .. made'.impls
    BY <1>4, <1>6 DEF new
  <2> QED
    BY <1>5, <1>6, <2>1, <2>2, <2>3, <2>4 DEF Becomes
<1>8. ClassInUse' /\ OwnImpl' /\ RememberedBy(loggerClass_)'
  BY <1>1, <1>3, <1>6 DEF ClassInUse, OwnImpl, Calm, RememberedBy
<1>9. Logging(t)' /\ ret'[t] = new
  <2>1. stack'[t] = <<Impl("store", l)>> /\ ret'[t] = new /\ l \in remembered'[loggerClass_']
    BY <1>3, <1>5, <1>6 DEF Becomes
  <2> QED
    BY <1>4, <1>6, <2>1 DEF Logging
<1>10. \A u \in LogThreads : u # t =>
         /\ stack'[u] = << >> \/ (Logging(u)' /\ ~shutDown')
         /\ Storing(u)' <=> Storing(u)
  BY <1>1, <1>3, <1>5, <1>6, StoredIsNew, OthersLog
<1>11. \A u \in LogThreads : u # t => ret'[u] = ret[u] /\ (Storing(u) => ret'[u] # new)
  BY <1>1, <1>4, <1>6, StoredIsNew
<1>12. Calm'
  BY <1>1, <1>6, <1>8, <1>9, <1>10, <1>11 DEF Calm
<1> QED
  BY <1>7, <1>8, <1>12

LEMMA StoreKeeps ==
  ASSUME LogInv, NEW t \in LogThreads, Store(t)
  PROVE  LogInv'
<1>0. In(t, "impl", "store")
  BY DEF Store
<1>1. Calm /\ ~shutDown /\ Logging(t)
  BY <1>0, CalmOrChanging
<1> PICK l \in Loggers : /\ stack[t] = <<Impl("store", l)>>
                         /\ ret[t] \in impls /\ l \in remembered[loggerClass_]
                         /\ \A m \in Loggers : pimpl_[m] # ret[t]
  BY <1>0, <1>1, WhereLogging
<1>2. Top(t) = Impl("store", l) /\ Top(t).logger = l
  BY ImplTop
<1> USE DEF LogInv, LogTyped
<1> DEFINE stored == IF pimpl_[l] = 0 THEN ret[t] ELSE pimpl_[l]
<1>3. ret[t] \in Nat \ {0} /\ stored \in impls /\ stored \in Nat \ {0}
  BY DEF OwnImpl
<1>4. Becomes(t, <<Impl("use", l)>>)
  <2>1. Goto(t, "use")
    BY DEF Store
  <2>2. [Impl("store", l) EXCEPT !.at = "use"] = Impl("use", l)
    BY Replaced DEF Impl
  <2> QED
    BY <2>1, <2>2, Moves
<1>5. /\ pimpl_' = [pimpl_ EXCEPT ![l] = stored] /\ ret' = [ret EXCEPT ![t] = stored]
      /\ UNCHANGED <<loggerClass_, classes, remembered, impls, made, shutDown>>
  BY <1>2 DEF Store
<1>6. LogTyped' /\ ClassInUse'
  BY <1>3, <1>4, <1>5 DEF Becomes, ClassInUse
<1>7. OwnImpl'
  BY <1>3, <1>5 DEF OwnImpl
<1>8. RememberedBy(loggerClass_)'
  <2>1. loggerClass_ \in ClassIds
    BY <1>1, LogAssumption DEF ClassInUse, ClassIds
  <2> QED
    BY <1>1, <1>5, <2>1 DEF Calm, RememberedBy
<1>9. Storing(t)
  BY DEF Storing
<1>10. \A u \in LogThreads : u # t /\ Storing(u) => \A m \in Loggers : pimpl_'[m] # ret[u]
  BY <1>1, <1>5, <1>9, StoredIsNew DEF Calm
<1>11. \A u \in LogThreads : u # t =>
         /\ stack'[u] = << >> \/ (Logging(u)' /\ ~shutDown')
         /\ Storing(u)' <=> Storing(u)
         /\ ret'[u] = ret[u]
  BY <1>1, <1>4, <1>5, <1>10, OthersLog
<1>12. Logging(t)' /\ ~Storing(t)'
  <2>1. stack'[t] = <<Impl("use", l)>> /\ ret'[t] \in impls'
    BY <1>3, <1>4, <1>5 DEF Becomes
  <2>2. \A m \in Loggers : stack'[t] # <<Impl("store", m)>>
    BY <2>1 DEF Impl, Frame
  <2> QED
    BY <2>1, <2>2 DEF Logging, Storing
<1>13. Calm'
  BY <1>1, <1>5, <1>8, <1>11, <1>12 DEF Calm
<1> QED
  BY <1>6, <1>7, <1>13

LEMMA UseKeeps ==
  ASSUME LogInv, NEW t \in LogThreads, Use(t)
  PROVE  LogInv'
<1>0. In(t, "impl", "use")
  BY DEF Use
<1>1. Calm /\ ~shutDown /\ Logging(t)
  BY <1>0, CalmOrChanging
<1> PICK l \in Loggers : stack[t] = <<Impl("use", l)>>
  BY <1>0, <1>1, WhereLogging
<1>2. Becomes(t, << >>)
  BY Moves DEF Use, LogInv, LogTyped
<1>3. ~Storing(t)'
  BY <1>2, HeadsAndTails DEF Storing, Becomes
<1>4. \A u \in LogThreads : u # t =>
        /\ stack'[u] = << >> \/ (Logging(u)' /\ ~shutDown')
        /\ Storing(u)' <=> Storing(u)
  BY <1>1, <1>2, OthersGoOn DEF Use
<1>5. Calm'
  BY <1>1, <1>2, <1>3, <1>4 DEF Calm, Use, RememberedBy, Becomes
<1> QED
  BY <1>2, <1>5 DEF Use, LogInv, LogTyped, ClassInUse, OwnImpl, Becomes

\* The steps of the thread that changes the class.
LEMMA UserSetsClassKeeps ==
  ASSUME ~SetWhileLogging, LogInv, NEW t \in LogThreads, NEW null \in BOOLEAN, UserSetsClass(t, null)
  PROVE  LogInv'
<1>1. \A u \in LogThreads : stack[u] = << >>
  BY DEF UserSetsClass, LogIdle
<1>2. Calm
  BY <1>1, ChangesBelow DEF LogInv
<1>3. Becomes(t, <<At("setClass", IF null THEN "none" ELSE "new")>>)
  BY DEF UserSetsClass, LogInv, LogTyped, Becomes, At
<1>4. ~shutDown /\ shutDown' = null
  BY DEF UserSetsClass
<1>5. Changes(t)'
  <2>1. RememberedBy(loggerClass_)'
    BY <1>2 DEF Calm, RememberedBy, UserSetsClass
  <2>2. \A u \in LogThreads : u # t => stack'[u] = << >>
    BY <1>1, <1>3 DEF Becomes
  <2>3. IF null THEN stack'[t] = <<At("setClass", "none")>> ELSE stack'[t] = <<At("setClass", "new")>>
    BY <1>3 DEF Becomes
  <2> QED
    BY <1>4, <2>1, <2>2, <2>3 DEF Changes
<1>6. LogTyped' /\ ClassInUse' /\ OwnImpl'
  BY <1>3, <1>4 DEF UserSetsClass, LogInv, LogTyped, ClassInUse, OwnImpl, Becomes
<1> QED
  BY <1>5, <1>6 DEF LogInv

\* What is left to prove of a step that the thread that changes the class takes.
LEMMA ChangeGoesOn ==
  ASSUME NEW t \in LogThreads, Changes(t), NEW s, Becomes(t, s), NEW c \in classes \ {loggerClass_}, (c \in classes \ {loggerClass_})'
  PROVE  Deletes(t, c)' => Changes(t)'
  BY DEF Changes, Becomes
LEMMA ChangeEnds ==
  ASSUME NEW t \in LogThreads, Changes(t), Becomes(t, << >>), RememberedBy(loggerClass_)'
  PROVE  Calm'
<1>1. \A u \in LogThreads : stack'[u] = << >>
  BY DEF Changes, Becomes
<1>2. \A u \in LogThreads : ~Storing(u)'
  BY <1>1, HeadsAndTails DEF Storing
<1> QED
  BY <1>1, <1>2 DEF Calm

LEMMA SetClassKeeps ==
  ASSUME LogInv, NEW t \in LogThreads, SetClass(t)
  PROVE  LogInv'
<1> DEFINE new == made.classes + 1
<1>0. /\ LogTyped /\ ClassInUse /\ OwnImpl
      /\ made.classes \in 0 .. MaxClasses /\ loggerClass_ \in 0 .. made.classes
      /\ classes \subseteq 1 .. made.classes
  BY DEF LogInv, LogTyped
<1>1. In(t, "setClass", "none") \/ (In(t, "setClass", "new") /\ made.classes < MaxClasses)
  BY DEF SetClass
<1>2. Changes(t)
  BY <1>1, CalmOrChanging
<1>3. /\ loggerClass_ # 0 => stack' = [stack EXCEPT ![t] = <<Frame("~LoggerClass", "swap", NoLogger, loggerClass_)>> \o Tail(@)]
      /\ loggerClass_ = 0 => Return(t)
      /\ UNCHANGED <<remembered, pimpl_, impls, ret, shutDown>>
  BY DEF SetClass
<1>4. ASSUME NEW a, stack[t] = <<a>>
      PROVE  Becomes(t, IF loggerClass_ = 0 THEN << >> ELSE <<Deleting("swap", loggerClass_, {})>>)
  <2>1. CASE loggerClass_ = 0
    BY <1>0, <1>3, <1>4, <2>1, Moves DEF LogTyped
  <2>2. CASE loggerClass_ # 0
    <3>1. <<Frame("~LoggerClass", "swap", NoLogger, loggerClass_)>> \o Tail(stack[t]) = <<Deleting("swap", loggerClass_, {})>>
      BY <1>4, HeadsAndTails, JoinedOne DEF Frame, Deleting
    <3> QED
      BY <1>0, <1>3, <2>2, <3>1 DEF Becomes, LogTyped
  <2> QED
    BY <2>1, <2>2
<1>5. CASE In(t, "setClass", "none")
  <2>1. stack[t] = <<At("setClass", "none")>> /\ shutDown /\ RememberedBy(loggerClass_)
    <3>1. ChangesAt(t, "setClass", "none")
      BY <1>2, <1>5, WhereChanging
    <3> QED
      BY <3>1 DEF ChangesAt, ResetsAt
  <2>2. loggerClass_' = 0 /\ classes' = classes /\ made' = made
    BY <1>0, <1>5 DEF SetClass, LogTyped
  <2>3. LogTyped' /\ ClassInUse' /\ OwnImpl'
    BY <1>0, <1>3, <1>4, <2>1, <2>2 DEF LogTyped, ClassInUse, OwnImpl, Becomes
  <2>4. CASE loggerClass_ = 0
    <3>1. RememberedBy(loggerClass_)'
      BY <1>3, <2>1, <2>2, <2>4 DEF RememberedBy
    <3> QED
      BY <1>2, <1>4, <2>1, <2>3, <2>4, <3>1, ChangeEnds DEF LogInv
  <2>5. CASE loggerClass_ # 0
    <3>1. RememberedBy(loggerClass_) /\ stack'[t] = <<Deleting("swap", loggerClass_, {})>>
      BY <1>4, <2>1, <2>5 DEF Becomes
    <3>2. loggerClass_ \in classes' \ {loggerClass_'}
      BY <1>0, <2>2, <2>5 DEF ClassInUse
    <3>3. \E c \in classes' \ {loggerClass_'} : Deletes(t, c)'
      BY <1>3, <3>1, <3>2 DEF Deletes, RememberedBy
    <3>4. \A u \in LogThreads : u # t => stack'[u] = << >>
      BY <1>2, <1>4, <2>1 DEF Changes, Becomes
    <3> QED
      BY <2>3, <3>3, <3>4 DEF LogInv, Changes
  <2> QED
    BY <2>4, <2>5
<1>6. CASE In(t, "setClass", "new") /\ ~In(t, "setClass", "none") /\ made.classes < MaxClasses
  <2>1. /\ loggerClass_' = new /\ classes' = classes \cup {new}
        /\ made' = [made EXCEPT !.classes = new]
    BY <1>6 DEF SetClass
  <2>2. ChangesAt(t, "setClass", "new")
    BY <1>2, <1>6, WhereChanging
  <2>3. LogTyped' /\ ClassInUse' /\ OwnImpl'
    <3>1. made' \in [classes : 0 .. MaxClasses, impls : 0 .. MaxImpls] /\ made'.classes = new /\ made'.impls = made.impls
      BY <1>0, <1>6, <2>1, LogAssumption DEF LogTyped
    <3>2. loggerClass_' \in 0 .. new /\ classes' \subseteq 1 .. new /\ loggerClass_' \in classes' /\ new # 0
      BY <1>0, <2>1, LogAssumption
    <3>3. DOMAIN stack' = LogThreads
      BY <1>0, <1>3 DEF LogTyped, Return
    <3> QED
      BY <1>0, <1>3, <3>1, <3>2, <3>3 DEF LogTyped, ClassInUse, OwnImpl
  <2>4. \A c \in classes \ {loggerClass_} : c \in classes' \ {loggerClass_'}
    BY <1>0, <2>1, LogAssumption
  <2>5. CASE stack[t] = <<At("setClass", "new")>> /\ ~shutDown /\ RememberedBy(loggerClass_)
    <3>1. loggerClass_ # 0 /\ stack'[t] = <<Deleting("swap", loggerClass_, {})>>
      BY <1>0, <1>4, <2>5 DEF Becomes, ClassInUse
    <3>2. loggerClass_ \in classes' \ {loggerClass_'}
      BY <1>0, <2>1, <3>1, LogAssumption DEF ClassInUse
    <3>3. \E c \in classes' \ {loggerClass_'} : Deletes(t, c)'
      BY <1>3, <2>5, <3>1, <3>2 DEF Deletes, RememberedBy
    <3>4. \A u \in LogThreads : u # t => stack'[u] = << >>
      BY <1>2, <1>4, <2>5 DEF Changes, Becomes
    <3> QED
      BY <2>3, <3>3, <3>4 DEF LogInv, Changes
  <2>6. ASSUME NEW c \in classes \ {loggerClass_}, NEW queue \in SUBSET Loggers, NEW l \in Loggers,
               loggerClass_ = 0, LeftIn(queue \cup {l}),
               stack[t] = <<At("setClass", "new"), At("getLoggerClass", "return"), Reset("forget", l), Deleting("loggers", c, queue)>>
        PROVE  LogInv'
    <3> DEFINE d == Deleting("loggers", c, queue)
    <3>1. Becomes(t, <<At("getLoggerClass", "return"), Reset("forget", l), d>>)
      BY <1>0, <1>3, <2>6, Moves DEF LogTyped
    <3>2. Resetting(t, l, d)' /\ LeftIn(queue \cup {l})'
      BY <1>0, <1>3, <2>1, <2>6, <3>1, LogAssumption DEF Resetting, LeftIn, Becomes
    <3>3. Deletes(t, c)'
      BY <3>2 DEF Deletes
    <3>4. Changes(t)'
      BY <1>2, <2>4, <3>1, <3>3, ChangeGoesOn
    <3> QED
      BY <2>3, <3>4 DEF LogInv
  <2> QED
    BY <2>2, <2>5, <2>6 DEF ChangesAt, ResetsAt
<1> QED
  BY <1>1, <1>5, <1>6

LEMMA QueueTaken ==
  \A c, queue : [Deleting("swap", c, {}) EXCEPT !.at = "loggers", !.queue = queue] = Deleting("loggers", c, queue)
<1> SUFFICES ASSUME NEW c, NEW queue
             PROVE  [Deleting("swap", c, {}) EXCEPT !.at = "loggers", !.queue = queue] = Deleting("loggers", c, queue)
  OBVIOUS
<1>1. [Deleting("swap", c, {}) EXCEPT !.at = "loggers"] = Deleting("loggers", c, {})
  BY DEF Deleting
<1>2. [Deleting("loggers", c, {}) EXCEPT !.queue = queue] = Deleting("loggers", c, queue)
  BY DEF Deleting
<1> QED
  BY <1>1, <1>2, Zenon

LEMMA TakeLoggersKeeps ==
  ASSUME LogInv, NEW t \in LogThreads, TakeLoggers(t)
  PROVE  LogInv'
<1>0. LogTyped /\ In(t, "~LoggerClass", "swap")
  BY DEF LogInv, TakeLoggers
<1>1. Changes(t)
  BY <1>0, CalmOrChanging
<1>2. PICK c \in classes \ {loggerClass_} : stack[t] = <<Deleting("swap", c, {})>> /\ RememberedBy(c)
  <2>1. ChangesAt(t, "~LoggerClass", "swap")
    BY <1>0, <1>1, WhereChanging
  <2> QED
    BY <2>1 DEF ChangesAt, ResetsAt
<1>3. c \in ClassIds /\ remembered[c] \in SUBSET Loggers
  BY <1>0, LogAssumption DEF LogTyped, ClassIds
<1> PICK queue \in SUBSET Loggers : queue = remembered[c]
  BY <1>3
<1>4. Top(t) = Deleting("swap", c, {}) /\ Top(t).cls = c
  BY <1>2, Tops DEF Deleting
<1>5. Becomes(t, <<Deleting("loggers", c, queue)>>)
  <2>1. <<[Head(stack[t]) EXCEPT !.at = "loggers", !.queue = remembered[Top(t).cls]]>> \o Tail(stack[t])
          = <<Deleting("loggers", c, queue)>>
    <3>1. Head(stack[t]) = Deleting("swap", c, {}) /\ Tail(stack[t]) = << >>
      BY <1>2, HeadsAndTails
    <3>2. [Deleting("swap", c, {}) EXCEPT !.at = "loggers", !.queue = queue] = Deleting("loggers", c, queue)
      BY QueueTaken
    <3> QED
      BY <1>4, <3>1, <3>2, JoinedOne
  <2> QED
    BY <1>0, <2>1 DEF TakeLoggers, Becomes, LogTyped
<1>6. remembered' = [remembered EXCEPT ![c] = {}] /\ UNCHANGED <<loggerClass_, classes, pimpl_, impls, made, ret, shutDown>>
  BY <1>4 DEF TakeLoggers
<1>7. Deletes(t, c)'
  <2>1. LeftIn(queue)'
    BY <1>2, <1>3, <1>6 DEF LeftIn, RememberedBy
  <2> QED
    BY <1>3, <1>5, <2>1 DEF Deletes, Becomes
<1>8. Changes(t)'
  BY <1>1, <1>5, <1>6, <1>7, ChangeGoesOn
<1>9. LogTyped' /\ ClassInUse' /\ OwnImpl'
  BY <1>0, <1>5, <1>6 DEF LogInv, LogTyped, ClassInUse, OwnImpl, Becomes
<1> QED
  BY <1>8, <1>9 DEF LogInv

LEMMA ResetNextKeeps ==
  ASSUME LogInv, NEW t \in LogThreads, ResetNext(t)
  PROVE  LogInv'
<1>0. LogTyped /\ In(t, "~LoggerClass", "loggers")
  BY DEF LogInv, ResetNext
<1>1. Changes(t)
  BY <1>0, CalmOrChanging
<1>2. PICK c \in classes \ {loggerClass_}, queue \in SUBSET Loggers :
        stack[t] = <<Deleting("loggers", c, queue)>> /\ LeftIn(queue)
  <2>1. ChangesAt(t, "~LoggerClass", "loggers")
    BY <1>0, <1>1, WhereChanging
  <2> QED
    BY <2>1 DEF ChangesAt, ResetsAt
<1>3. Top(t) = Deleting("loggers", c, queue) /\ Top(t).cls = c /\ Top(t).queue = queue
  BY <1>2, Tops DEF Deleting
<1>4. CASE queue = {}
  <2>1. Becomes(t, << >>) /\ classes' = classes \ {c}
    BY <1>0, <1>2, <1>3, <1>4, Moves DEF ResetNext, LogTyped
  <2>2. UNCHANGED <<loggerClass_, remembered, pimpl_, impls, made, ret, shutDown>>
    BY DEF ResetNext
  <2>3. RememberedBy(loggerClass_)'
    BY <1>2, <1>4, <2>2 DEF LeftIn, RememberedBy
  <2>4. Calm'
    BY <1>1, <2>1, <2>3, ChangeEnds
  <2>5. LogTyped' /\ ClassInUse' /\ OwnImpl'
    BY <1>0, <1>2, <2>1, <2>2 DEF LogInv, LogTyped, ClassInUse, OwnImpl, Becomes
  <2> QED
    BY <2>4, <2>5 DEF LogInv
<1>5. CASE queue # {}
  <2>1. PICK l \in queue : stack' = [stack EXCEPT ![t] =
                    <<Frame("reset", "test", l, 0), [Head(@) EXCEPT !.queue = Top(t).queue \ {l}]>> \o Tail(@)]
    BY <1>3, <1>5 DEF ResetNext
  <2> DEFINE d == Deleting("loggers", c, queue \ {l})
  <2>2. UNCHANGED <<loggerClass_, classes, remembered, pimpl_, impls, made, ret, shutDown>>
    BY <1>3, <1>5 DEF ResetNext
  <2>3. Becomes(t, <<Reset("test", l), d>>)
    <3>1. Head(stack[t]) = Deleting("loggers", c, queue) /\ Tail(stack[t]) = << >>
      BY <1>2, HeadsAndTails
    <3>2. [Deleting("loggers", c, queue) EXCEPT !.queue = Top(t).queue \ {l}] = d
      BY <1>3 DEF Deleting
    <3>3. <<Frame("reset", "test", l, 0), [Head(stack[t]) EXCEPT !.queue = Top(t).queue \ {l}]>> \o Tail(stack[t]) = <<Reset("test", l), d>>
      BY <3>1, <3>2, JoinedTwo DEF Reset
    <3>4. DOMAIN stack' = LogThreads /\ \A u \in LogThreads : u # t => stack'[u] = stack[u]
      BY <1>0, <2>1 DEF LogTyped
    <3>5. stack'[t] = <<Frame("reset", "test", l, 0), [Head(stack[t]) EXCEPT !.queue = Top(t).queue \ {l}]>> \o Tail(stack[t])
      BY <1>0, <2>1 DEF LogTyped
    <3> QED
      BY <3>3, <3>4, <3>5 DEF Becomes
  <2>4. Deletes(t, c)'
    <3>1. LeftIn((queue \ {l}) \cup {l})'
      BY <1>2, <2>2 DEF LeftIn
    <3>2. Resetting(t, l, d)'
      BY <2>3 DEF Resetting, Becomes
    <3>3. l \in Loggers /\ queue \ {l} \in SUBSET Loggers
      BY <1>2
    <3> QED
      BY <3>1, <3>2, <3>3, Zenon DEF Deletes
  <2>5. Changes(t)'
    BY <1>1, <2>2, <2>3, <2>4, ChangeGoesOn
  <2>6. LogTyped' /\ ClassInUse' /\ OwnImpl'
    BY <1>0, <2>2, <2>3 DEF LogInv, LogTyped, ClassInUse, OwnImpl, Becomes
  <2> QED
    BY <2>5, <2>6 DEF LogInv
<1> QED
  BY <1>4, <1>5

\* What the thread resets, and for which class that is deleted.
LEMMA WhatIsReset ==
  ASSUME LogInv, NEW t \in LogThreads, NEW f, NEW place, In(t, f, place), Changes(t),
         f \in {"reset", "getLoggerClass"}
  PROVE  \E c \in classes \ {loggerClass_}, queue \in SUBSET Loggers, l \in Loggers :
           ResetsAt(t, f, place, l, Deleting("loggers", c, queue)) /\ LeftIn(queue \cup {l})
<1>1. ChangesAt(t, f, place)
  BY WhereChanging
<1> QED
  BY <1>1 DEF ChangesAt

\* A step within the reset of a logger that leaves all but the stack alone, or what it returned.
LEMMA ResetGoesOn ==
  ASSUME LogInv, NEW t \in LogThreads, Changes(t),
         NEW c \in classes \ {loggerClass_}, NEW queue \in SUBSET Loggers, NEW l \in Loggers,
         NEW s, Becomes(t, s), UNCHANGED <<loggerClass_, classes, made, shutDown>>,
         LogTyped', OwnImpl', LeftIn(queue \cup {l})', Resetting(t, l, Deleting("loggers", c, queue))'
  PROVE  LogInv'
<1>1. Deletes(t, c)'
  BY Zenon DEF Deletes
<1>2. Changes(t)'
  BY <1>1, ChangeGoesOn
<1> QED
  BY <1>2 DEF LogInv, ClassInUse

LEMMA ResetTestKeeps ==
  ASSUME LogInv, NEW t \in LogThreads, ResetTest(t)
  PROVE  LogInv'
<1>0. LogTyped /\ In(t, "reset", "test")
  BY DEF LogInv, ResetTest
<1>1. Changes(t)
  BY <1>0, CalmOrChanging
<1>2. PICK c \in classes \ {loggerClass_}, queue \in SUBSET Loggers, l \in Loggers :
        stack[t] = <<Reset("test", l), Deleting("loggers", c, queue)>> /\ LeftIn(queue \cup {l})
  BY <1>0, <1>1, WhatIsReset DEF ResetsAt
<1> DEFINE d == Deleting("loggers", c, queue)
<1>3. Top(t) = Reset("test", l) /\ Top(t).logger = l
  BY <1>2, Tops DEF Reset, Frame
<1>4. UNCHANGED <<loggerClass_, classes, remembered, pimpl_, impls, made, ret, shutDown>>
  BY DEF ResetTest
<1>5. ASSUME NEW s, Becomes(t, s) PROVE LogTyped' /\ OwnImpl'
  BY <1>0, <1>4, <1>5 DEF LogInv, LogTyped, OwnImpl, Becomes
<1>6. CASE pimpl_[l] = 0
  <2>1. Becomes(t, <<d>>)
    BY <1>0, <1>2, <1>3, <1>6, Moves DEF ResetTest, LogTyped
  <2>2. LeftIn(queue)'
    BY <1>2, <1>4, <1>6 DEF LeftIn
  <2>3. Deletes(t, c)'
    BY <2>1, <2>2 DEF Deletes, Becomes
  <2>4. Changes(t)'
    BY <1>1, <1>4, <2>1, <2>3, ChangeGoesOn
  <2> QED
    BY <1>4, <1>5, <2>1, <2>4 DEF LogInv, ClassInUse
<1>7. CASE pimpl_[l] # 0
  <2>1. Becomes(t, <<At("getLoggerClass", "test"), Reset("forget", l), d>>)
    <3>1. Call(t, "forget", At("getLoggerClass", "test"))
      BY <1>3, <1>7 DEF ResetTest, At
    <3>2. [Reset("test", l) EXCEPT !.at = "forget"] = Reset("forget", l)
      BY Replaced DEF Reset
    <3> QED
      BY <1>0, <1>2, <3>1, <3>2, Moves DEF LogTyped
  <2>2. Resetting(t, l, d)' /\ LeftIn(queue \cup {l})'
    BY <1>2, <1>4, <2>1 DEF Resetting, Becomes, LeftIn
  <2> QED
    BY <1>1, <1>4, <1>5, <2>1, <2>2, ResetGoesOn
<1> QED
  BY <1>6, <1>7

LEMMA ForgetKeeps ==
  ASSUME LogInv, NEW t \in LogThreads, Forget(t)
  PROVE  LogInv'
<1>0. LogTyped /\ In(t, "reset", "forget")
  BY DEF LogInv, Forget
<1>1. Changes(t)
  BY <1>0, CalmOrChanging
<1>2. PICK c \in classes \ {loggerClass_}, queue \in SUBSET Loggers, l \in Loggers :
        stack[t] = <<Reset("forget", l), Deleting("loggers", c, queue)>> /\ LeftIn(queue \cup {l})
  BY <1>0, <1>1, WhatIsReset DEF ResetsAt
<1> DEFINE d == Deleting("loggers", c, queue)
<1>3. UNCHANGED <<loggerClass_, classes, pimpl_, impls, made, ret, shutDown>>
  BY DEF Forget
<1>4. Becomes(t, <<Reset("delete", l), d>>)
  <2>1. [Reset("forget", l) EXCEPT !.at = "delete"] = Reset("delete", l)
    BY Replaced DEF Reset
  <2> QED
    BY <1>0, <1>2, <2>1, Moves DEF Forget, LogTyped
<1>5. LogTyped' /\ OwnImpl'
  <2>1. remembered' \in [ClassIds -> SUBSET Loggers]
    BY <1>0 DEF Forget, LogTyped
  <2> QED
    BY <1>0, <1>3, <1>4, <2>1 DEF LogInv, LogTyped, OwnImpl, Becomes
<1>6. Resetting(t, l, d)' /\ LeftIn(queue \cup {l})'
  BY <1>2, <1>3, <1>4 DEF Resetting, Becomes, LeftIn
<1> QED
  BY <1>1, <1>3, <1>4, <1>5, <1>6, ResetGoesOn

LEMMA ResetDeleteKeeps ==
  ASSUME LogInv, NEW t \in LogThreads, ResetDelete(t)
  PROVE  LogInv'
<1>0. LogTyped /\ OwnImpl /\ In(t, "reset", "delete")
  BY DEF LogInv, ResetDelete
<1>1. Changes(t)
  BY <1>0, CalmOrChanging
<1>2. PICK c \in classes \ {loggerClass_}, queue \in SUBSET Loggers, l \in Loggers :
        stack[t] = <<Reset("delete", l), Deleting("loggers", c, queue)>> /\ LeftIn(queue \cup {l})
  BY <1>0, <1>1, WhatIsReset DEF ResetsAt
<1> DEFINE d == Deleting("loggers", c, queue)
<1>3. Top(t).logger = l
  BY <1>2, Tops DEF Reset, Frame
<1>4. /\ UNCHANGED <<loggerClass_, classes, remembered, made, ret, shutDown>>
      /\ impls' = impls \ {pimpl_[l]} /\ pimpl_' = [pimpl_ EXCEPT ![l] = 0]
  BY <1>3 DEF ResetDelete
<1>5. Becomes(t, <<d>>)
  BY <1>0, <1>2, Moves DEF ResetDelete, LogTyped
<1>6. LogTyped'
  BY <1>0, <1>4, <1>5 DEF LogTyped, Becomes
<1>7. OwnImpl'
  BY <1>0, <1>4 DEF OwnImpl, LogTyped
<1>8. LeftIn(queue)'
  BY <1>0, <1>2, <1>4 DEF LeftIn, LogTyped
<1>9. Deletes(t, c)'
  BY <1>5, <1>8 DEF Deletes, Becomes
<1>10. Changes(t)'
  BY <1>1, <1>4, <1>5, <1>9, ChangeGoesOn
<1> QED
  BY <1>4, <1>6, <1>7, <1>10 DEF LogInv, ClassInUse

\* getLoggerClass, asked by a thread that logs or by the one that resets a logger.
LEMMA GetTestKeeps ==
  ASSUME LogInv, NEW t \in LogThreads, GetTest(t)
  PROVE  LogInv'
<1>0. LogTyped /\ OwnImpl /\ ClassInUse /\ In(t, "getLoggerClass", "test")
  BY DEF LogInv, GetTest
<1>1. UNCHANGED <<loggerClass_, classes, remembered, pimpl_, impls, made, ret, shutDown>>
  BY DEF GetTest
<1>2. [At("getLoggerClass", "test") EXCEPT !.at = "return"] = At("getLoggerClass", "return")
  BY Replaced DEF At
<1>3. ASSUME NEW s, Becomes(t, s) PROVE LogTyped' /\ OwnImpl' /\ ClassInUse'
  BY <1>0, <1>1, <1>3 DEF LogTyped, OwnImpl, ClassInUse, Becomes
<1>4. CASE Calm /\ ~shutDown /\ Logging(t)
  <2>1. PICK l \in Loggers : stack[t] = <<At("getLoggerClass", "test"), Impl("loggerFor", l)>>
    BY <1>0, <1>4, WhereLogging
  <2>2. Goto(t, "return")
    BY <1>0, <1>4 DEF GetTest, ClassInUse
  <2>3. Becomes(t, <<At("getLoggerClass", "return"), Impl("loggerFor", l)>>)
    BY <1>0, <1>2, <2>1, <2>2, Moves DEF LogTyped
  <2>4. Logging(t)' /\ ~Storing(t)'
    <3>1. stack'[t] = <<At("getLoggerClass", "return"), Impl("loggerFor", l)>>
      BY <2>3 DEF Becomes
    <3>2. \A m \in Loggers : stack'[t] # <<Impl("store", m)>>
      BY <3>1 DEF Impl, Frame
    <3> QED
      BY <3>1, <3>2 DEF Logging, Storing
  <2>5. \A u \in LogThreads : u # t => (stack'[u] = << >> \/ (Logging(u)' /\ ~shutDown')) /\ (Storing(u)' <=> Storing(u))
    BY <1>1, <1>4, <2>3, OthersGoOn
  <2>6. Calm'
    BY <1>1, <1>4, <2>4, <2>5 DEF Calm, RememberedBy
  <2> QED
    BY <1>3, <2>3, <2>6 DEF LogInv
<1>5. CASE Changes(t)
  <2>1. PICK c \in classes \ {loggerClass_}, queue \in SUBSET Loggers, l \in Loggers :
          /\ stack[t] = <<At("getLoggerClass", "test"), Reset("forget", l), Deleting("loggers", c, queue)>>
          /\ LeftIn(queue \cup {l})
    <3>1. PICK c \in classes \ {loggerClass_}, queue \in SUBSET Loggers, l \in Loggers :
            ResetsAt(t, "getLoggerClass", "test", l, Deleting("loggers", c, queue)) /\ LeftIn(queue \cup {l})
      BY <1>0, <1>5, WhatIsReset
    <3> QED
      BY <3>1 DEF ResetsAt
  <2> DEFINE d == Deleting("loggers", c, queue)
  <2>2. LeftIn(queue \cup {l})'
    BY <1>1, <2>1 DEF LeftIn
  <2>3. CASE loggerClass_ = 0
    <3>1. Call(t, "return", At("setClass", "new"))
      BY <2>3 DEF GetTest, At
    <3>2. Becomes(t, <<At("setClass", "new"), At("getLoggerClass", "return"), Reset("forget", l), d>>)
      <4>1. stack' = [stack EXCEPT ![t] = <<At("setClass", "new"), [Head(@) EXCEPT !.at = "return"]>> \o Tail(@)]
        BY <3>1 DEF Call
      <4>2. Head(stack[t]) = At("getLoggerClass", "test") /\ Tail(stack[t]) = <<Reset("forget", l), d>>
        BY <2>1, HeadsAndTails
      <4>3. [Head(stack[t]) EXCEPT !.at = "return"] = At("getLoggerClass", "return")
        BY <1>2, <4>2
      <4>4. <<At("setClass", "new"), [Head(stack[t]) EXCEPT !.at = "return"]>> \o Tail(stack[t])
              = <<At("setClass", "new"), At("getLoggerClass", "return"), Reset("forget", l), d>>
        <5>1. <<At("setClass", "new"), At("getLoggerClass", "return")>> \o <<Reset("forget", l), d>>
                = <<At("setClass", "new"), At("getLoggerClass", "return"), Reset("forget", l), d>>
          BY JoinedFour
        <5> QED
          BY <4>2, <4>3, <5>1, Zenon
      <4> QED
        BY <1>0, <4>1, <4>4 DEF Becomes, LogTyped
    <3>3. Resetting(t, l, d)'
      BY <1>1, <2>3, <3>2 DEF Resetting, Becomes
    <3> QED
      BY <1>1, <1>3, <1>5, <2>2, <3>2, <3>3, ResetGoesOn
  <2>4. CASE loggerClass_ # 0
    <3>1. Becomes(t, <<At("getLoggerClass", "return"), Reset("forget", l), d>>)
      <4>1. stack' = [stack EXCEPT ![t] = <<[Head(@) EXCEPT !.at = "return"]>> \o Tail(@)]
        BY <2>4 DEF GetTest, Goto
      <4>2. Head(stack[t]) = At("getLoggerClass", "test") /\ Tail(stack[t]) = <<Reset("forget", l), d>>
        BY <2>1, HeadsAndTails
      <4>3. <<[Head(stack[t]) EXCEPT !.at = "return"]>> \o Tail(stack[t])
              = <<At("getLoggerClass", "return"), Reset("forget", l), d>>
        <5>1. [Head(stack[t]) EXCEPT !.at = "return"] = At("getLoggerClass", "return")
          BY <1>2, <4>2
        <5> QED
          <6>1. <<At("getLoggerClass", "return")>> \o <<Reset("forget", l), d>> = <<At("getLoggerClass", "return"), Reset("forget", l), d>>
            BY JoinedThree, Zenon
          <6> QED
            BY <4>2, <5>1, <6>1, Zenon
      <4> QED
        BY <1>0, <4>1, <4>3 DEF Becomes, LogTyped
    <3>2. Resetting(t, l, d)'
      BY <1>1, <2>4, <3>1 DEF Resetting, Becomes
    <3> QED
      BY <1>1, <1>3, <1>5, <2>2, <3>1, <3>2, ResetGoesOn
  <2> QED
    BY <2>3, <2>4
<1> QED
  BY <1>0, <1>4, <1>5, CalmOrChanging

LEMMA GetReturnKeeps ==
  ASSUME LogInv, NEW t \in LogThreads, GetReturn(t)
  PROVE  LogInv'
<1>0. LogTyped /\ OwnImpl /\ ClassInUse /\ In(t, "getLoggerClass", "return")
  BY DEF LogInv, GetReturn
<1>1. UNCHANGED <<loggerClass_, classes, remembered, pimpl_, impls, made, shutDown>> /\ ret' = [ret EXCEPT ![t] = loggerClass_]
  BY DEF GetReturn
<1>2. ASSUME NEW s, Becomes(t, s) PROVE LogTyped' /\ OwnImpl' /\ ClassInUse'
  <2>1. ret' \in [LogThreads -> Nat]
    BY <1>0, <1>1 DEF LogTyped
  <2> QED
    BY <1>0, <1>1, <1>2, <2>1 DEF LogTyped, OwnImpl, ClassInUse, Becomes
<1>3. ret'[t] = loggerClass_' /\ \A u \in LogThreads : u # t => ret'[u] = ret[u]
  BY <1>0, <1>1 DEF LogTyped
<1>4. CASE Calm /\ ~shutDown /\ Logging(t)
  <2>1. PICK l \in Loggers : stack[t] = <<At("getLoggerClass", "return"), Impl("loggerFor", l)>>
    BY <1>0, <1>4, WhereLogging
  <2>2. Becomes(t, <<Impl("loggerFor", l)>>)
    BY <1>0, <2>1, Moves DEF GetReturn, LogTyped
  <2>3. Logging(t)' /\ ~Storing(t)'
    <3>1. stack'[t] = <<Impl("loggerFor", l)>>
      BY <2>2 DEF Becomes
    <3>2. \A m \in Loggers : stack'[t] # <<Impl("store", m)>>
      BY <3>1 DEF Impl, Frame
    <3> QED
      BY <1>3, <3>1, <3>2 DEF Logging, Storing
  <2>4. \A u \in LogThreads : u # t => (stack'[u] = << >> \/ (Logging(u)' /\ ~shutDown')) /\ (Storing(u)' <=> Storing(u))
    BY <1>1, <1>3, <1>4, <2>2, OthersGoOn
  <2>5. Calm'
    BY <1>1, <1>3, <1>4, <2>3, <2>4 DEF Calm, RememberedBy
  <2> QED
    BY <1>2, <2>2, <2>5 DEF LogInv
<1>5. CASE Changes(t)
  <2>1. PICK c \in classes \ {loggerClass_}, queue \in SUBSET Loggers, l \in Loggers :
          /\ stack[t] = <<At("getLoggerClass", "return"), Reset("forget", l), Deleting("loggers", c, queue)>>
          /\ LeftIn(queue \cup {l}) /\ loggerClass_ # 0
    <3>1. PICK c \in classes \ {loggerClass_}, queue \in SUBSET Loggers, l \in Loggers :
            ResetsAt(t, "getLoggerClass", "return", l, Deleting("loggers", c, queue)) /\ LeftIn(queue \cup {l})
      BY <1>0, <1>5, WhatIsReset
    <3> QED
      BY <3>1 DEF ResetsAt
  <2> DEFINE d == Deleting("loggers", c, queue)
  <2>2. Becomes(t, <<Reset("forget", l), d>>)
    BY <1>0, <2>1, Moves DEF GetReturn, LogTyped
  <2>3. Resetting(t, l, d)' /\ LeftIn(queue \cup {l})'
    BY <1>1, <1>3, <2>1, <2>2 DEF Resetting, Becomes, LeftIn
  <2> QED
    BY <1>1, <1>2, <1>5, <2>2, <2>3, ResetGoesOn
<1> QED
  BY <1>0, <1>4, <1>5, CalmOrChanging

\* The frames of a stack are the ones it was made of.
LEMMA FramesOf ==
  ASSUME NEW t, NEW k \in DOMAIN stack[t]
  PROVE  /\ \A a : stack[t] = <<a>> => stack[t][k] = a
         /\ \A a, b : stack[t] = <<a, b>> => stack[t][k] \in {a, b}
         /\ \A a, b, c : stack[t] = <<a, b, c>> => stack[t][k] \in {a, b, c}
         /\ \A a, b, c, d : stack[t] = <<a, b, c, d>> => stack[t][k] \in {a, b, c, d}
<1>1. ASSUME NEW a, stack[t] = <<a>> PROVE stack[t][k] = a
  BY <1>1
<1>2. ASSUME NEW a, NEW b, stack[t] = <<a, b>> PROVE stack[t][k] \in {a, b}
  BY <1>2
<1>3. ASSUME NEW a, NEW b, NEW c, stack[t] = <<a, b, c>> PROVE stack[t][k] \in {a, b, c}
  BY <1>3
<1>4. ASSUME NEW a, NEW b, NEW c, NEW d, stack[t] = <<a, b, c, d>> PROVE stack[t][k] \in {a, b, c, d}
  BY <1>4
<1> QED
  BY <1>1, <1>2, <1>3, <1>4

\* A class that is deleted exists until its loggers are reset.
LEMMA DeletedExists ==
  ASSUME LogInv, NEW t \in LogThreads, NEW k \in DOMAIN stack[t], stack[t][k].f = "~LoggerClass"
  PROVE  stack[t][k].cls \in classes
<1>0. stack[t] # << >>
  OBVIOUS
<1>1. ASSUME Logging(t) PROVE FALSE
  <2>1. PICK l : \/ \E place : stack[t] = <<Impl(place, l)>>
                 \/ \E place : stack[t] = <<At("getLoggerClass", place), Impl("loggerFor", l)>>
    BY <1>1, Zenon DEF Logging
  <2>2. ASSUME NEW place, stack[t] = <<Impl(place, l)>> PROVE FALSE
    <3>1. stack[t][k] = Impl(place, l)
      BY <2>2, FramesOf
    <3> QED
      BY <3>1 DEF Impl, Frame
  <2>3. ASSUME NEW place, stack[t] = <<At("getLoggerClass", place), Impl("loggerFor", l)>> PROVE FALSE
    <3>1. stack[t][k] \in {At("getLoggerClass", place), Impl("loggerFor", l)}
      BY <2>3, FramesOf
    <3> QED
      BY <3>1 DEF Impl, At, Frame
  <2> QED
    BY <2>1, <2>2, <2>3
<1>2. Changes(t)
  BY <1>0, <1>1, Zenon DEF LogInv, Calm, Changes
<1>3. ASSUME NEW place, stack[t] = <<At("setClass", place)>> PROVE FALSE
  <2>1. stack[t][k] = At("setClass", place)
    BY <1>3, FramesOf
  <2> QED
    BY <2>1 DEF At, Frame
<1>4. PICK c \in classes \ {loggerClass_} : Deletes(t, c)
  BY <1>2, <1>3, Zenon DEF Changes
<1>5. ASSUME NEW place, NEW queue, stack[t][k] = Deleting(place, c, queue) PROVE stack[t][k].cls \in classes
  BY <1>5 DEF Deleting
<1>6. ASSUME NEW queue, stack[t] = <<Deleting("swap", c, queue)>> \/ stack[t] = <<Deleting("loggers", c, queue)>>
      PROVE  stack[t][k].cls \in classes
  <2>1. \E place : stack[t][k] = Deleting(place, c, queue)
    BY <1>6, FramesOf
  <2> QED
    BY <2>1, <1>5
<1>7. ASSUME NEW queue, NEW l, Resetting(t, l, Deleting("loggers", c, queue))
      PROVE  stack[t][k].cls \in classes
  <2> DEFINE d == Deleting("loggers", c, queue)
             Above == {At(f, place) : f \in {"setClass", "getLoggerClass"}, place \in {"new", "test", "return"}}
                      \cup {Reset(place, l) : place \in {"test", "forget", "delete"}}
  <2>1. ASSUME NEW a \in Above PROVE a.f # "~LoggerClass"
    BY <2>1 DEF At, Reset, Frame
  <2>2. /\ Reset("test", l) \in Above /\ Reset("forget", l) \in Above /\ Reset("delete", l) \in Above
        /\ At("getLoggerClass", "test") \in Above /\ At("getLoggerClass", "return") \in Above
        /\ At("setClass", "new") \in Above
    OBVIOUS
  <2> HIDE DEF Above, d
  <2>3. stack[t][k] = d \/ stack[t][k] \in Above
    <3>1. ASSUME NEW a \in Above, stack[t] = <<a, d>> PROVE stack[t][k] = d \/ stack[t][k] \in Above
      BY <3>1, FramesOf
    <3>2. ASSUME NEW a \in Above, NEW b \in Above, stack[t] = <<a, b, d>> PROVE stack[t][k] = d \/ stack[t][k] \in Above
      BY <3>2, FramesOf
    <3>3. ASSUME NEW a \in Above, NEW b \in Above, NEW e \in Above, stack[t] = <<a, b, e, d>>
          PROVE  stack[t][k] = d \/ stack[t][k] \in Above
      BY <3>3, FramesOf
    <3>4. Resetting(t, l, d)
      BY <1>7 DEF d
    <3> QED
      BY <2>2, <3>1, <3>2, <3>3, <3>4, Zenon DEF Resetting
  <2> QED
    BY <1>5, <2>1, <2>3 DEF d
<1> QED
  BY <1>4, <1>6, <1>7, Zenon DEF Deletes

LEMMA LogInvMeans == LogInv => ClassesOutliveCalls
<1> SUFFICES ASSUME LogInv PROVE ClassesOutliveCalls
  OBVIOUS
<1>0. LogTyped /\ OwnImpl /\ ClassInUse
  BY DEF LogInv
<1>1. ASSUME NEW t \in LogThreads, In(t, "impl", "loggerFor") PROVE ret[t] \in classes
  BY <1>0, <1>1, CalmOrChanging, WhereLogging DEF ClassInUse
<1>2. ASSUME NEW t \in LogThreads, In(t, "reset", "forget") PROVE ret[t] \in classes
  <2>1. Changes(t)
    BY <1>2, CalmOrChanging
  <2>2. PICK c, queue, l : ResetsAt(t, "reset", "forget", l, Deleting("loggers", c, queue))
    BY <1>2, <2>1, WhatIsReset
  <2>3. ret[t] = loggerClass_ /\ loggerClass_ # 0
    BY <2>2 DEF ResetsAt
  <2> QED
    BY <1>0, <2>3 DEF ClassInUse
<1>3. ASSUME NEW t \in LogThreads, In(t, "impl", "use") PROVE ret[t] \in impls
  BY <1>3, CalmOrChanging, WhereLogging
<1>4. NoUseAfterDelete
  BY <1>1, <1>2, <1>3, DeletedExists DEF NoUseAfterDelete
<1>5. ResetReachesAll
  <2> SUFFICES ASSUME \A t \in LogThreads : stack[t] = << >>, NEW l \in Loggers, pimpl_[l] # 0
               PROVE  loggerClass_ \in classes /\ l \in remembered[loggerClass_] /\ pimpl_[l] \in impls
    BY DEF ResetReachesAll, LogIdle
  <2>1. Calm
    BY ChangesBelow DEF LogInv
  <2> QED
    BY <1>0, <2>1 DEF Calm, RememberedBy, ClassIds, ClassInUse, OwnImpl
<1> QED
  BY <1>4, <1>5 DEF ClassesOutliveCalls

(* For all numbers of threads and loggers, and however often the class is      *)
(* changed: as long as it is set before threads log and changed while none     *)
(* does, nobody calls a class or an implementation that is deleted, and none   *)
(* is lost to the class in use (Logger::impl, Logger::reset, ~LoggerClass).    *)
THEOREM ClassOutlivesCalls ==
  ASSUME ClassFirst, ~SetWhileLogging
  PROVE  LogSpec => []ClassesOutliveCalls
<1>1. LogInit => LogInv
  BY LogInitially
<1>2. LogInv /\ [LogNext]_logVars => LogInv'
  <2> SUFFICES ASSUME LogInv, [LogNext]_logVars PROVE LogInv'
    OBVIOUS
  <2>1. CASE UNCHANGED logVars
    <3>1. UNCHANGED LogTyped /\ UNCHANGED ClassInUse /\ UNCHANGED OwnImpl
      BY <2>1 DEF logVars, LogTyped, ClassInUse, OwnImpl
    <3>2. Calm => Calm'
      BY <2>1 DEF logVars, Calm, Logging, Storing, RememberedBy
    <3>3. \A t \in LogThreads : Changes(t) => Changes(t)'
      BY <2>1 DEF logVars, Changes, Deletes, Resetting, RememberedBy, LeftIn
    <3> QED
      BY <3>1, <3>2, <3>3 DEF LogInv
  <2>2. ASSUME NEW t \in LogThreads, NEW l \in Loggers, Log(t, l) PROVE LogInv'
    BY <2>2, LogKeeps
  <2>3. ASSUME NEW t \in LogThreads, NEW null \in BOOLEAN, UserSetsClass(t, null) PROVE LogInv'
    BY <2>3, UserSetsClassKeeps
  <2>4. ASSUME NEW t \in LogThreads,
               \/ SetClass(t) \/ TakeLoggers(t) \/ ResetNext(t)
               \/ ResetTest(t) \/ Forget(t) \/ ResetDelete(t)
               \/ GetTest(t) \/ GetReturn(t)
               \/ ImplTest(t) \/ LoggerFor(t) \/ Store(t) \/ Use(t)
        PROVE  LogInv'
    BY <2>4, SetClassKeeps, TakeLoggersKeeps, ResetNextKeeps, ResetTestKeeps, ForgetKeeps, ResetDeleteKeeps,
       GetTestKeeps, GetReturnKeeps, ImplTestKeeps, LoggerForKeeps, StoreKeeps, UseKeeps, Zenon
  <2> QED
    BY <2>1, <2>2, <2>3, <2>4, Zenon DEF LogNext
<1> QED
  BY <1>1, <1>2, LogInvMeans, PTL DEF LogSpec

-----------------------------------------------------------------------------
(* Why: in the library, between the lock and its release, a thread has the     *)
(* mutex, so that the status it tests is that of its own last call; a system   *)
(* is there, as it is only freed while no thread is in a call; and a TimeUnit  *)
(* is of this system, as it is only freed while there are no TimeUnits.        *)
UnitOps == {"none", "getConverter", "areConvertible", "TimeUnit", "toCalendar"}
Places == {"idle", "construct", "lock", "parse", "status", "return"}
Results == {"none", "ok", "UnitException"}
Calls == [op : UnitOps, at : Places, args : Seq(UnitNames), parsed : SUBSET UnitNames, result : Results]
UnitsTyped ==
    /\ utSystem \in Nat /\ systems \in Nat
    /\ call \in [UnitThreads -> Calls]
    /\ pUnit \in [UnitThreads -> Nat]
InLibrary(t) == call[t].at \in {"parse", "status"}
StatusIsOwn(t) ==
    /\ InLibrary(t) => unitsMutex = t
    /\ call[t].at \in {"lock", "parse", "status"} => utSystem # 0
    /\ pUnit[t] # 0 => pUnit[t] = utSystem
    /\ call[t].at # "idle" /\ call[t].op = "toCalendar" => pUnit[t] # 0
    /\ call[t].at \in {"construct", "lock", "parse"} => "wrong" \notin call[t].parsed
    /\ call[t].at = "status" => (status = "UT_SUCCESS" <=> "wrong" \notin call[t].parsed)
    /\ call[t].at = "return" => (call[t].result = "UnitException" <=> "wrong" \in call[t].parsed)
UnitsInv == UnitsTyped /\ \A t \in UnitThreads : StatusIsOwn(t)

\* A step is a question with some names, or one of the others.
UnitsStep(t) ==
    \/ \E op \in UnitOps, args \in Seq(UnitNames) : Ask(t, op, args)
    \/ ConstructUnits(t) \/ Lock(t) \/ Parse(t) \/ CheckStatus(t) \/ Convert(t)
    \/ ReturnFromUnits(t) \/ DropTimeUnit(t) \/ Unload(t)
LEMMA UnitsSteps == UnitsNext => \E t \in UnitThreads : UnitsStep(t)
<1>1. \A from, to \in UnitNames : <<from, to>> \in Seq(UnitNames) /\ <<from>> \in Seq(UnitNames)
  OBVIOUS
<1>2. << >> \in Seq(UnitNames)
  OBVIOUS
<1>3. {"getConverter", "areConvertible"} \subseteq UnitOps /\ "TimeUnit" \in UnitOps /\ "toCalendar" \in UnitOps
  BY DEF UnitOps
<1> QED
  BY <1>1, <1>2, <1>3, Zenon DEF UnitsNext, UnitsStep

\* What a step makes of a call is a call.
LEMMA CallGoesOn ==
  ASSUME NEW c \in Calls, NEW place \in Places
  PROVE  [c EXCEPT !.at = place] \in Calls
  BY DEF Calls
LEMMA CallHasResult ==
  ASSUME NEW c \in Calls, NEW place \in Places, NEW result \in Results
  PROVE  [c EXCEPT !.at = place, !.result = result] \in Calls
<1>1. [[c EXCEPT !.at = place] EXCEPT !.result = result] \in Calls
  BY CallGoesOn DEF Calls
<1> QED
  BY <1>1
LEMMA CallParses ==
  ASSUME NEW c \in Calls, c.args # << >>
  PROVE  [c EXCEPT !.at = "status", !.parsed = @ \cup {Head(c.args)}, !.args = Tail(@)] \in Calls
<1> DEFINE d == [c EXCEPT !.at = "status"]
           e == [d EXCEPT !.parsed = d.parsed \cup {Head(c.args)}]
           f == [e EXCEPT !.args = Tail(e.args)]
<1>1. Head(c.args) \in UnitNames /\ Tail(c.args) \in Seq(UnitNames)
  BY DEF Calls
<1>2. d \in Calls /\ d.parsed = c.parsed /\ d.args = c.args
  BY CallGoesOn DEF Calls, Places
<1>3. e \in Calls /\ e.args = c.args
  BY <1>1, <1>2 DEF Calls
<1>4. f \in Calls
  BY <1>1, <1>3 DEF Calls
<1>5. f = [c EXCEPT !.at = "status", !.parsed = @ \cup {Head(c.args)}, !.args = Tail(@)]
  BY <1>2, <1>3 DEF Calls
<1> QED
  BY <1>4, <1>5
LEMMA CallsBegin ==
  /\ NoCall \in Calls
  /\ \A op \in UnitOps, args \in Seq(UnitNames) :
       [op |-> op, at |-> "construct", args |-> args, parsed |-> {}, result |-> "none"] \in Calls
<1>1. << >> \in Seq(UnitNames)
  OBVIOUS
<1> QED
  BY <1>1 DEF NoCall, Calls, UnitOps, Places, Results

\* In the beginning nobody is in a call.
LEMMA UnitsInitially == UnitsInit => UnitsInv
<1> SUFFICES ASSUME UnitsInit PROVE UnitsInv
  OBVIOUS
<1>1. UnitsTyped
  BY CallsBegin DEF UnitsInit, UnitsTyped
<1> QED
  BY <1>1 DEF UnitsInit, UnitsInv, StatusIsOwn, InLibrary, NoCall

\* Each step keeps the types.
LEMMA UnitsStayTyped ==
  ASSUME UnitsTyped, NEW t \in UnitThreads, UnitsStep(t)
  PROVE  UnitsTyped'
<1> USE DEF UnitsTyped
<1> call[t] \in Calls
  OBVIOUS
<1>1. ASSUME NEW op \in UnitOps, NEW args \in Seq(UnitNames), Ask(t, op, args)
      PROVE  UnitsTyped'
  BY <1>1, CallsBegin DEF Ask
<1>2. CASE ConstructUnits(t)
  <2>1. [call[t] EXCEPT !.at = "lock"] \in Calls
    BY CallGoesOn DEF Places
  <2> QED
    BY <1>2, <2>1 DEF ConstructUnits
<1>3. CASE Lock(t)
  <2>1. [call[t] EXCEPT !.at = "parse"] \in Calls
    BY CallGoesOn DEF Places
  <2>2. [call[t] EXCEPT !.at = "return", !.result = "ok"] \in Calls
    BY CallHasResult DEF Places, Results
  <2> QED
    BY <1>3, <2>1, <2>2 DEF Lock
<1>4. CASE Parse(t)
  BY <1>4, CallParses DEF Parse
<1>5. CASE CheckStatus(t)
  <2>1. [call[t] EXCEPT !.at = "parse"] \in Calls
    BY CallGoesOn DEF Places
  <2>2. [call[t] EXCEPT !.at = "return", !.result = "UnitException"] \in Calls
    BY CallHasResult DEF Places, Results
  <2> QED
    BY <1>5, <2>1, <2>2 DEF CheckStatus
<1>6. CASE Convert(t)
  <2>1. \A result \in Results : [call[t] EXCEPT !.at = "return", !.result = result] \in Calls
    BY CallHasResult DEF Places
  <2>2. (IF status' = "UT_SUCCESS" THEN "ok" ELSE "UnitException") \in Results
    BY DEF Results
  <2> QED
    BY <1>6, <2>1, <2>2 DEF Convert
<1>7. CASE ReturnFromUnits(t)
  BY <1>7, CallsBegin DEF ReturnFromUnits
<1>8. CASE DropTimeUnit(t)
  BY <1>8 DEF DropTimeUnit
<1>9. CASE Unload(t)
  BY <1>9 DEF Unload
<1> QED
  BY <1>1, <1>2, <1>3, <1>4, <1>5, <1>6, <1>7, <1>8, <1>9 DEF UnitsStep

\* Each step of a thread keeps what the invariant says of every thread.
LEMMA UnitsStepKeeps ==
  ASSUME Free \notin UnitThreads, UnitsInv, UnitsNext
  PROVE  UnitsInv'
<1> PICK t \in UnitThreads : UnitsStep(t)
  BY UnitsSteps
<1>0. UnitsTyped'
  BY UnitsStayTyped DEF UnitsInv
<1> SUFFICES ASSUME NEW u \in UnitThreads PROVE StatusIsOwn(u)'
  BY <1>0 DEF UnitsInv
<1> UnitsTyped /\ StatusIsOwn(t) /\ StatusIsOwn(u)
  BY DEF UnitsInv
<1> USE DEF UnitsTyped, Calls, StatusIsOwn, InLibrary, CallAt
<1>1. ASSUME NEW op \in UnitOps, NEW args \in Seq(UnitNames), Ask(t, op, args)
      PROVE  StatusIsOwn(u)'
  BY <1>1 DEF Ask
<1>2. CASE ConstructUnits(t)
  BY <1>2 DEF ConstructUnits
<1>3. CASE Lock(t)
  <2>1. UNCHANGED <<utSystem, status, pUnit>> /\ call[t].at = "lock" /\ \A v \in UnitThreads : v # t => call'[v] = call[v]
    BY <1>3 DEF Lock
  <2>2. call'[t].op = call[t].op /\ call'[t].parsed = call[t].parsed
    BY <1>3 DEF Lock
  <2>3. CASE call'[t].at = "return" /\ call'[t].result = "ok" /\ UNCHANGED unitsMutex
    BY <2>1, <2>2, <2>3
  <2>4. CASE call'[t].at = "parse" /\ unitsMutex = Free /\ unitsMutex' = t
    BY <2>1, <2>2, <2>4
  <2> QED
    BY <1>3, <2>3, <2>4 DEF Lock
<1>4. CASE Parse(t)
  BY <1>4 DEF Parse, ParseStatus
<1>5. CASE CheckStatus(t)
  BY <1>5, SMTT(30) DEF CheckStatus
<1>6. CASE Convert(t)
  BY <1>6 DEF Convert
<1>7. CASE ReturnFromUnits(t)
  BY <1>7 DEF ReturnFromUnits, NoCall
<1>8. CASE DropTimeUnit(t)
  BY <1>8 DEF DropTimeUnit
<1>9. CASE Unload(t)
  BY <1>9 DEF Unload
<1> QED
  BY <1>1, <1>2, <1>3, <1>4, <1>5, <1>6, <1>7, <1>8, <1>9 DEF UnitsStep

(* For every number of threads, whatever they ask for: a call fails for a wrong *)
(* unit it parsed itself and for nothing else (Units::getConverter).            *)
THEOREM ErrorsAreOwn ==
  ASSUME Free \notin UnitThreads
  PROVE  UnitsSpec => []OnlyOwnErrors
<1>1. UnitsInit => UnitsInv
  BY UnitsInitially
<1>2. UnitsInv /\ [UnitsNext]_unitVars => UnitsInv'
  <2>1. ASSUME UnitsInv, UNCHANGED unitVars PROVE UnitsInv'
    BY <2>1 DEF UnitsInv, UnitsTyped, StatusIsOwn, InLibrary, unitVars
  <2> QED
    BY <2>1, UnitsStepKeeps
<1>3. UnitsInv => OnlyOwnErrors
  BY DEF UnitsInv, StatusIsOwn, OnlyOwnErrors, CallAt
<1> QED
  BY <1>1, <1>2, <1>3, PTL DEF UnitsSpec

-----------------------------------------------------------------------------
(* The felt reader.  The fields of a file are put into arrays by a loop over its entries.  It   *)
(* is a recursive function, which exists as each turn stays in a set (Recursion, Looping).      *)
LEMMA Induction ==
  ASSUME NEW n \in Nat, NEW A, NEW f, f[0] \in A[0],
         \A i \in 1 .. n : f[i - 1] \in A[i - 1] => f[i] \in A[i]
  PROVE  \A i \in 0 .. n : f[i] \in A[i]
<1> DEFINE Bad == {i \in 0 .. n : f[i] \notin A[i]}
<1> SUFFICES ASSUME Bad # {} PROVE FALSE
  OBVIOUS
<1>0. Bad \subseteq Nat
  OBVIOUS
<1>1. IsWellFoundedOn(OpToRel(<, Nat), Nat)
  BY NatLessThanWellFounded
<1>2. PICK m \in Bad : \A i \in Bad : ~ (<<i, m>> \in OpToRel(<, Nat))
  BY <1>0, <1>1, WFMin
<1>3. \A i \in Bad : ~ (i < m)
  BY <1>0, <1>2 DEF OpToRel
<1>4. m \in 0 .. n /\ f[m] \notin A[m]
  OBVIOUS
<1>5. m # 0
  BY <1>4, Zenon
<1>6. m \in 1 .. n /\ m - 1 \in 0 .. n /\ m - 1 < m
  BY <1>4, <1>5
<1>7. f[m - 1] \in A[m - 1]
  BY <1>3, <1>6
<1> QED
  BY <1>4, <1>6, <1>7

Turns(f, n, a, step) ==
    /\ DOMAIN f = 0 .. n /\ f = [i \in DOMAIN f |-> f[i]]
    /\ f[0] = a /\ \A i \in 1 .. n : f[i] = step[i][f[i - 1]]
LEMMA Recursion ==
  ASSUME NEW n \in Nat, NEW a, NEW step
  PROVE  \E f : Turns(f, n, a, step)
<1> DEFINE Found == [m \in 0 .. n |-> IF \E f : Turns(f, m, a, step) THEN 1 ELSE 0]
           Ones == [m \in 0 .. n |-> {1}]
<1>1. \E f : Turns(f, 0, a, step)
  <2>1. Turns([i \in 0 .. 0 |-> a], 0, a, step)
    BY DEF Turns
  <2> QED
    BY <2>1
<1>2. ASSUME NEW m \in 1 .. n, NEW f, Turns(f, m - 1, a, step)
      PROVE  \E g : Turns(g, m, a, step)
  <2> DEFINE g == [i \in 0 .. m |-> IF i = m THEN step[m][f[m - 1]] ELSE f[i]]
  <2>1. \A i \in 0 .. m - 1 : g[i] = f[i]
    OBVIOUS
  <2>2. ASSUME NEW i \in 1 .. m PROVE g[i] = step[i][g[i - 1]]
    <3>1. CASE i = m
      <4>1. g[i] = step[m][f[m - 1]] /\ g[m - 1] = f[m - 1]
        BY <2>1, <3>1
      <4> QED
        BY <3>1, <4>1
    <3>2. CASE i # m
      <4>1. i \in 1 .. m - 1 /\ i \in 0 .. m - 1 /\ i - 1 \in 0 .. m - 1
        BY <3>2
      <4>2. f[i] = step[i][f[i - 1]]
        BY <1>2, <4>1 DEF Turns
      <4> QED
        BY <2>1, <4>1, <4>2
    <3> QED
      BY <3>1, <3>2
  <2>3. g[0] = a
    BY <1>2, <2>1 DEF Turns
  <2>4. DOMAIN g = 0 .. m /\ g = [i \in DOMAIN g |-> g[i]]
    OBVIOUS
  <2> HIDE DEF g
  <2>5. Turns(g, m, a, step)
    BY <2>2, <2>3, <2>4 DEF Turns
  <2> QED
    BY <2>5
<1>3. \A m \in 1 .. n : Found[m - 1] \in Ones[m - 1] => Found[m] \in Ones[m]
  <2> SUFFICES ASSUME NEW m \in 1 .. n, Found[m - 1] \in Ones[m - 1] PROVE Found[m] \in Ones[m]
    OBVIOUS
  <2>1. m - 1 \in 0 .. n /\ m \in 0 .. n
    OBVIOUS
  <2>2. \E f : Turns(f, m - 1, a, step)
    BY <2>1
  <2>3. \E g : Turns(g, m, a, step)
    BY <1>2, <2>2
  <2> QED
    BY <2>1, <2>3
<1>4. Found[0] \in Ones[0]
  BY <1>1
<1>5. \A m \in 0 .. n : Found[m] \in Ones[m]
  <2> HIDE DEF Found, Ones
  <2> QED
    BY <1>3, <1>4, Induction
<1> QED
  BY <1>5


\* A loop that stays among V.
Looped(f, n, a, step) == f = [k \in 0 .. n |-> IF k = 0 THEN a ELSE step[k][f[k - 1]]]
LEMMA Looping ==
  ASSUME NEW n \in Nat, NEW V, NEW a \in V, NEW step \in [1 .. n -> [V -> V]]
  PROVE  \E f \in [0 .. n -> V] : Looped(f, n, a, step)
<1>1. PICK f : Turns(f, n, a, step)
  BY Recursion
<1> DEFINE A == [i \in 0 .. n |-> V]
<1>2. \A i \in 0 .. n : f[i] \in A[i]
  <2>1. f[0] \in A[0]
    BY <1>1 DEF Turns
  <2>2. \A i \in 1 .. n : f[i - 1] \in A[i - 1] => f[i] \in A[i]
    BY <1>1 DEF Turns
  <2> HIDE DEF A
  <2> QED
    BY <2>1, <2>2, Induction
<1>3. f \in [0 .. n -> V]
  BY <1>1, <1>2 DEF Turns
<1>4. \A k \in 0 .. n : f[k] = IF k = 0 THEN a ELSE step[k][f[k - 1]]
  BY <1>1 DEF Turns
<1>5. Looped(f, n, a, step)
  BY <1>3, <1>4 DEF Looped
<1> QED
  BY <1>3, <1>5


\* A finite set has finitely many images.
LEMMA Images ==
  ASSUME NEW S, IsFiniteSet(S), NEW f, DOMAIN f = S, f = [x \in S |-> f[x]]
  PROVE  IsFiniteSet({f[x] : x \in S})
<1> DEFINE T == {f[x] : x \in S}
<1>1. f \in Surjection(S, T)
  BY DEF Surjection
<1> QED
  BY <1>1, FS_Surjection

\* What the headers H of a file can become.
ArraysOf(H) == [default : H, fields : UNION {[K -> H] : K \in SUBSET {FieldKey(f) : f \in H}}]
ReadsOf(H) ==
    [phase : {"open", "failed"},
     arrays : UNION {[N -> ArraysOf(H)] : N \in SUBSET {ParameterName(f) : f \in H}},
     hybridLevels : UNION {[P -> {f.misc : f \in H}] : P \in SUBSET {LevelPair(f) : f \in H}}]

\* A field is added to an array, or is one.
LEMMA FieldAdded ==
  ASSUME NEW H, NEW f \in H
  PROVE  ArrayOf(f) \in ArraysOf(H) /\ \A array \in ArraysOf(H) : WithField(array, f) \in ArraysOf(H)
<1> DEFINE Keys == {FieldKey(h) : h \in H}
           Fields == UNION {[K -> H] : K \in SUBSET Keys}
<1>1. FieldKey(f) \in Keys
  OBVIOUS
<1>2. ArrayOf(f) \in ArraysOf(H)
  <2>1. [key \in {FieldKey(f)} |-> f] \in [{FieldKey(f)} -> H] /\ {FieldKey(f)} \in SUBSET Keys
    BY <1>1
  <2> HIDE DEF Keys
  <2>2. [key \in {FieldKey(f)} |-> f] \in Fields
    BY <2>1
  <2> HIDE DEF Fields
  <2>3. ArrayOf(f) \in [default : H, fields : Fields]
    BY <2>2 DEF ArrayOf
  <2> QED
    BY <2>3 DEF ArraysOf, Fields, Keys
<1>3. ASSUME NEW array \in ArraysOf(H) PROVE WithField(array, f) \in ArraysOf(H)
  <2> DEFINE K == DOMAIN array.fields \union {FieldKey(f)}
             new == [key \in K |-> IF key = FieldKey(f) THEN f ELSE array.fields[key]]
  <2>1. array \in [default : H, fields : Fields]
    BY <1>3 DEF ArraysOf
  <2>2. PICK L \in SUBSET Keys : array.fields \in [L -> H]
    BY <2>1
  <2>3. K \in SUBSET Keys
    BY <1>1, <2>2
  <2>4. new \in [K -> H]
    BY <2>2
  <2> HIDE DEF Keys, K
  <2>5. new \in Fields
    BY <2>3, <2>4
  <2> HIDE DEF Fields, new
  <2>6. [array EXCEPT !.fields = new] \in [default : H, fields : Fields]
    BY <2>1, <2>5
  <2> QED
    BY <2>6 DEF WithField, ArraysOf, Fields, Keys, new, K
<1> QED
  BY <1>2, <1>3

\* A field makes of one read another of the same file.
LEMMA AddedFelt ==
  ASSUME NEW H, NEW f \in H, NEW read \in ReadsOf(H)
  PROVE  AddFelt(read, f) \in ReadsOf(H)
<1> DEFINE Names == {ParameterName(h) : h \in H}
           Pairs == {LevelPair(h) : h \in H}
           Misc == {h.misc : h \in H}
           As == UNION {[N -> ArraysOf(H)] : N \in SUBSET Names}
           Hs == UNION {[P -> Misc] : P \in SUBSET Pairs}
           name == ParameterName(f)
           N1 == DOMAIN read.arrays \union {name}
           arrays == [n \in N1 |->
                        IF n # name THEN read.arrays[n]
                        ELSE IF name \in DOMAIN read.arrays THEN WithField(read.arrays[n], f) ELSE ArrayOf(f)]
<1>1. read \in [phase : {"open", "failed"}, arrays : As, hybridLevels : Hs]
  BY DEF ReadsOf
<1>2. PICK N0 \in SUBSET Names : read.arrays \in [N0 -> ArraysOf(H)]
  BY <1>1
<1>3. PICK P0 \in SUBSET Pairs : read.hybridLevels \in [P0 -> Misc]
  BY <1>1
<1>4. N1 \in SUBSET Names /\ DOMAIN read.arrays = N0
  BY <1>2
<1>5. arrays \in [N1 -> ArraysOf(H)]
  <2>1. ASSUME NEW n \in N1 PROVE arrays[n] \in ArraysOf(H)
    <3>1. CASE n # name
      BY <1>2, <3>1
    <3>2. CASE n = name
      BY <1>2, <3>2, FieldAdded
    <3> QED
      BY <3>1, <3>2
  <2> HIDE DEF N1
  <2> QED
    BY <2>1
<1>6. arrays \in As
  <2> HIDE DEF arrays, N1, Names
  <2> QED
    BY <1>4, <1>5
<1>7. WithHybrid(read.hybridLevels, f) \in Hs
  <2>1. CASE f.vcoord = 10 /\ LevelPair(f) \notin DOMAIN read.hybridLevels
    <3> DEFINE P1 == P0 \union {LevelPair(f)}
               new == [pair \in P1 |-> IF pair = LevelPair(f) THEN f.misc ELSE read.hybridLevels[pair]]
    <3>1. new \in [P1 -> Misc] /\ P1 \in SUBSET Pairs
      BY <1>3
    <3>2. DOMAIN read.hybridLevels = P0
      BY <1>3
    <3>3. WithHybrid(read.hybridLevels, f) = new
      BY <2>1, <3>2 DEF WithHybrid
    <3> HIDE DEF new, P1, Pairs, Misc
    <3> QED
      BY <3>1, <3>3
  <2>2. CASE ~(f.vcoord = 10 /\ LevelPair(f) \notin DOMAIN read.hybridLevels)
    BY <1>1, <2>2 DEF WithHybrid
  <2> QED
    BY <2>1, <2>2
<1> DEFINE new == [phase |-> "open", hybridLevels |-> WithHybrid(read.hybridLevels, f), arrays |-> arrays]
<1>8. new \in [phase : {"open", "failed"}, arrays : As, hybridLevels : Hs]
  <2> HIDE DEF arrays, As, Hs
  <2> QED
    BY <1>6, <1>7
<1>9. [read EXCEPT !.phase = "failed"] \in [phase : {"open", "failed"}, arrays : As, hybridLevels : Hs]
  <2> HIDE DEF As, Hs
  <2> QED
    BY <1>1
<1>10. AddFelt(read, f) \in {read, new, [read EXCEPT !.phase = "failed"]}
  BY DEF AddFelt
<1> HIDE DEF new
<1> QED
  BY <1>1, <1>8, <1>9, <1>10 DEF ReadsOf

\* What is read of a file is made of its headers.
Turn(file, H) == [i \in 1 .. Len(file.entries) |->
    [read \in ReadsOf(H) |-> IF IsRead(file, i) THEN AddFelt(read, file.entries[i]) ELSE read]]
LEMMA FieldsRead ==
  ASSUME NEW file, NEW H, file.entries \in Seq(H)
  PROVE  ReadFields(file) \in ReadsOf(H)
<1> DEFINE n == Len(file.entries)
           V == ReadsOf(H)
           Val(f) == f = [i \in 0 .. n |->
             IF i = 0 THEN NothingFound
             ELSE IF IsRead(file, i) THEN AddFelt(f[i - 1], file.entries[i]) ELSE f[i - 1]]
           g == CHOOSE f : Val(f)
<1>1. n \in Nat /\ \A i \in 1 .. n : file.entries[i] \in H
  OBVIOUS
<1>2. NothingFound \in V
  <2>1. << >> \in [{} -> ArraysOf(H)] /\ << >> \in [{} -> {f.misc : f \in H}]
    OBVIOUS
  <2>2. << >> \in UNION {[N -> ArraysOf(H)] : N \in SUBSET {ParameterName(f) : f \in H}}
    BY <2>1
  <2>3. << >> \in UNION {[P -> {f.misc : f \in H}] : P \in SUBSET {LevelPair(f) : f \in H}}
    BY <2>1
  <2> QED
    BY <2>2, <2>3 DEF NothingFound, ReadsOf
<1> HIDE DEF n, V
<1>3. Turn(file, H) \in [1 .. n -> [V -> V]]
  <2>1. ASSUME NEW i \in 1 .. n, NEW read \in V
        PROVE  (IF IsRead(file, i) THEN AddFelt(read, file.entries[i]) ELSE read) \in V
    BY <1>1, <2>1, AddedFelt DEF V
  <2> QED
    BY <2>1 DEF Turn, n, V
<1> DEFINE step == Turn(file, H)
<1> HIDE DEF step
<1>4. PICK f \in [0 .. n -> V] : Looped(f, n, NothingFound, step)
  BY <1>1, <1>2, <1>3, Looping DEF step
<1>5. Val(f)
  <2>1. ASSUME NEW i \in 0 .. n
        PROVE  f[i] = IF i = 0 THEN NothingFound
                      ELSE IF IsRead(file, i) THEN AddFelt(f[i - 1], file.entries[i]) ELSE f[i - 1]
    <3>1. f[i] = IF i = 0 THEN NothingFound ELSE step[i][f[i - 1]]
      BY <1>4 DEF Looped
    <3>2. i # 0 => i \in 1 .. n /\ f[i - 1] \in V
      BY <1>1, <1>4
    <3> QED
      BY <3>1, <3>2 DEF step, Turn, n, V
  <2> QED
    BY <1>4, <2>1
<1>6. Val(g)
  <2> HIDE DEF Val
  <2> QED
    BY <1>5
<1>7. ReadFields(file) = g[n]
  BY DEF ReadFields, n
<1> HIDE DEF g
<1>8. g[0] = NothingFound /\ \A i \in 1 .. n : g[i] = IF IsRead(file, i) THEN AddFelt(g[i - 1], file.entries[i]) ELSE g[i - 1]
  <2>1. 0 \in 0 .. n
    BY <1>1
  <2>2. ASSUME NEW i \in 1 .. n
        PROVE  g[i] = IF IsRead(file, i) THEN AddFelt(g[i - 1], file.entries[i]) ELSE g[i - 1]
    <3>1. i \in 0 .. n /\ i # 0
      BY <1>1
    <3> QED
      BY <1>6, <3>1
  <2> QED
    BY <1>6, <2>1, <2>2
<1> HIDE DEF Val
<1> DEFINE A == [i \in 0 .. n |-> V]
<1>9. g[0] \in A[0] /\ \A i \in 1 .. n : g[i - 1] \in A[i - 1] => g[i] \in A[i]
  <2>1. 0 \in 0 .. n
    BY <1>1
  <2>2. ASSUME NEW i \in 1 .. n, g[i - 1] \in V PROVE g[i] \in V
    BY <1>1, <1>8, <2>2, AddedFelt DEF V
  <2>3. \A i \in 1 .. n : i \in 0 .. n /\ i - 1 \in 0 .. n
    BY <1>1
  <2> QED
    BY <1>2, <1>8, <2>1, <2>2, <2>3
<1>10. \A i \in 0 .. n : g[i] \in A[i]
  <2> HIDE DEF A
  <2> QED
    BY <1>1, <1>9, Induction
<1> QED
  BY <1>1, <1>7, <1>10 DEF V

(* A thread has put the rows of the layers before the one at hand, each from the field that is   *)
(* wanted for it or filled; the stream stands where a thread that fetches has moved it, as that   *)
(* thread has the lock.                                                                         *)
Opened ==
    /\ felt.phase = "open"
    /\ \E H : IsFiniteSet(H) /\ (\A f \in H : HeaderOf(f)) /\ felt \in ReadsOf(H)
ClosedFelt == [phase |-> "closed", arrays |-> << >>, hybridLevels |-> << >>]
FileInv == felt = ClosedFelt \/ felt.phase = "failed" \/ Opened

KeyAt(name, time, i) ==
    LET array == felt.arrays[name]
    IN  [time |-> IF HasTime(array) THEN time ELSE CHOOSE other \in ValidTimesOf(array) : TRUE,
         first |-> LayerVals(array)[i][1], second |-> LayerVals(array)[i][2]]
CellOf(name, time, i, k) ==
    LET array == felt.arrays[name]
        key == KeyAt(name, time, i)
    IN  IF key \in DOMAIN array.fields THEN <<array.fields[key].id, k>> ELSE FillCell
FieldsIn(array) == {array.fields[key] : key \in DOMAIN array.fields}
FeltCells == {FillCell} \union {<<f.id, k>> : f \in UNION {FieldsIn(array) : array \in Arrays}, k \in Nat}

IsSliceRead(r) ==
    /\ DOMAIN r = {"pc", "name", "position", "time", "at", "cells", "outcome", "n"}
    /\ r = [field \in DOMAIN r |-> r[field]]
Begun(r) == felt.phase = "open" /\ r.name \in DOMAIN felt.arrays /\ r.time \in TimeAt(r.position)
SoFar(r) ==
    /\ r.at \in Nat \ {0} /\ r.cells \in Seq(FeltCells)
    /\ OneGrid => /\ Len(r.cells) = (r.at - 1) * NY
                  /\ \A i \in 1 .. r.at - 1, k \in 1 .. NY : r.cells[(i - 1) * NY + k] = CellOf(r.name, r.time, i, k)
SliceInv(r) ==
    /\ IsSliceRead(r) /\ r.pc \in {"idle", "waits", "fetches"}
    /\ r.pc # "idle" => r.outcome = "none"
    /\ r.pc # "idle" \/ r.outcome = "read" => Begun(r) /\ SoFar(r)
    /\ r.outcome = "read" => r.at = Len(LayerVals(felt.arrays[r.name])) + 1
    /\ r.outcome = "empty" => Begun(r) /\ ~TimeIsThere(felt.arrays[r.name], r.time)
Fetching(t, r) ==
    LET fields == felt.arrays[r.name].fields
        key == KeyAt(r.name, r.time, r.at)
    IN  feltMutex = t /\ key \in DOMAIN fields /\ feltStream = fields[key]
FeltInv ==
    /\ FileInv /\ feltReads = [t \in FeltThreads |-> feltReads[t]]
    /\ \A t \in FeltThreads : \A r : r = feltReads[t] => SliceInv(r) /\ (r.pc = "fetches" => Fetching(t, r))

\* The arrays of an open file are finitely many, with finitely many fields.
LEMMA ArraysTyped ==
  ASSUME Opened
  PROVE  /\ IsFiniteSet(Arrays)
         /\ \A array \in Arrays : /\ IsFiniteSet(DOMAIN array.fields) /\ HeaderOf(array.default)
                                  /\ \A key \in DOMAIN array.fields : HeaderOf(array.fields[key])
<1>1. PICK H : IsFiniteSet(H) /\ (\A f \in H : HeaderOf(f)) /\ felt \in ReadsOf(H)
  BY DEF Opened
<1> DEFINE Names == {ParameterName(f) : f \in H}
           Keys == {FieldKey(f) : f \in H}
<1>2. IsFiniteSet(Names)
  <2> DEFINE of == [f \in H |-> ParameterName(f)]
  <2>1. Names = {of[f] : f \in H} /\ DOMAIN of = H /\ of = [f \in H |-> of[f]]
    OBVIOUS
  <2> HIDE DEF of, Names
  <2> QED
    BY <1>1, <2>1, Images
<1>3. IsFiniteSet(Keys)
  <2> DEFINE of == [f \in H |-> FieldKey(f)]
  <2>1. Keys = {of[f] : f \in H} /\ DOMAIN of = H /\ of = [f \in H |-> of[f]]
    OBVIOUS
  <2> HIDE DEF of, Keys
  <2> QED
    BY <1>1, <2>1, Images
<1>4. PICK N \in SUBSET Names : felt.arrays \in [N -> ArraysOf(H)]
  BY <1>1 DEF ReadsOf
<1>5. IsFiniteSet(N)
  BY <1>2, FS_Subset
<1>6. IsFiniteSet(Arrays)
  <2>1. Arrays = {felt.arrays[name] : name \in N}
    BY <1>4 DEF Arrays
  <2> QED
    BY <1>4, <1>5, <2>1, Images
<1>7. ASSUME NEW array \in Arrays
      PROVE  /\ IsFiniteSet(DOMAIN array.fields) /\ HeaderOf(array.default)
             /\ \A key \in DOMAIN array.fields : HeaderOf(array.fields[key])
  <2>1. array \in ArraysOf(H)
    BY <1>4 DEF Arrays
  <2>2. array.default \in H
    BY <2>1 DEF ArraysOf
  <2>3. PICK K \in SUBSET Keys : array.fields \in [K -> H]
    BY <2>1 DEF ArraysOf
  <2>4. IsFiniteSet(K)
    BY <1>3, FS_Subset
  <2> QED
    BY <1>1, <2>2, <2>3, <2>4
<1> QED
  BY <1>6, <1>7

\* Members and layers are numbered from 1.
LEMMA LayersAreListed ==
  ASSUME Opened
  PROVE  /\ Len(FileMembers) \in Nat /\ DOMAIN FileMembers = 1 .. Len(FileMembers)
         /\ \A array \in Arrays : Len(Layers(array)) \in Nat /\ DOMAIN Layers(array) = 1 .. Len(Layers(array))
<1> DEFINE Pairs(S) == UNION {LevelPairs(array) : array \in S}
           Members == UNION {EnsembleMembers(array) : array \in Arrays}
<1>1. \A array \in Arrays : IsFiniteSet(LevelPairs(array)) /\ IsFiniteSet(EnsembleMembers(array))
  <2> SUFFICES ASSUME NEW array \in Arrays PROVE IsFiniteSet(LevelPairs(array)) /\ IsFiniteSet(EnsembleMembers(array))
    OBVIOUS
  <2> DEFINE K == DOMAIN array.fields
             pair == [key \in K |-> <<key.first, IF IsEps(array) THEN 0 ELSE key.second>>]
             member == [key \in K |-> key.second]
  <2>1. IsFiniteSet(K)
    BY ArraysTyped
  <2>2. /\ LevelPairs(array) = {pair[key] : key \in K}
        /\ DOMAIN pair = K /\ pair = [key \in K |-> pair[key]]
    BY DEF LevelPairs
  <2>3. IsFiniteSet(LevelPairs(array))
    <3> HIDE DEF pair, K
    <3> QED
      BY <2>1, <2>2, Images
  <2>4. /\ EnsembleMembers(array) = {} \/ EnsembleMembers(array) = {member[key] : key \in K}
        /\ DOMAIN member = K /\ member = [key \in K |-> member[key]]
    BY DEF EnsembleMembers
  <2>5. IsFiniteSet(EnsembleMembers(array))
    <3> HIDE DEF member, K
    <3>1. IsFiniteSet({member[key] : key \in K})
      BY <2>1, <2>4, Images
    <3> QED
      BY <2>4, <3>1, FS_EmptySet
  <2> QED
    BY <2>3, <2>5
<1>2. \A S \in SUBSET Arrays : IsFiniteSet(Pairs(S))
  <2> SUFFICES ASSUME NEW S \in SUBSET Arrays PROVE IsFiniteSet(Pairs(S))
    OBVIOUS
  <2> DEFINE f == [array \in S |-> LevelPairs(array)]
             T == {f[array] : array \in S}
  <2>1. IsFiniteSet(S)
    BY ArraysTyped, FS_Subset
  <2>2. IsFiniteSet(T)
    BY <2>1, Images
  <2>3. \A x \in T : IsFiniteSet(x)
    BY <1>1
  <2>4. Pairs(S) = UNION T
    OBVIOUS
  <2> HIDE DEF T
  <2> QED
    BY <2>2, <2>3, <2>4, FS_UNION
<1>3. IsFiniteSet(Members)
  <2> DEFINE f == [array \in Arrays |-> EnsembleMembers(array)]
             T == {f[array] : array \in Arrays}
  <2>2. IsFiniteSet(T)
    BY ArraysTyped, Images
  <2>3. \A x \in T : IsFiniteSet(x)
    BY <1>1
  <2>4. Members = UNION T
    OBVIOUS
  <2> HIDE DEF T
  <2> QED
    BY <2>2, <2>3, <2>4, FS_UNION
<1>4. Len(FileMembers) \in Nat /\ DOMAIN FileMembers = 1 .. Len(FileMembers)
  <2>1. Cardinality(Members) \in Nat
    BY <1>3, FS_CardinalityType
  <2>2. DOMAIN FileMembers = 1 .. Cardinality(Members)
    BY DEF FileMembers, Sorted
  <2>3. Len(FileMembers) = Cardinality(Members)
    BY <2>1, <2>2 DEF FileMembers, Sorted
  <2> QED
    BY <2>1, <2>2, <2>3
<1>5. ASSUME NEW array \in Arrays
      PROVE  Len(Layers(array)) \in Nat /\ DOMAIN Layers(array) = 1 .. Len(Layers(array))
  <2> DEFINE type == array.default.vcoord
             S == Pairs(OfType(Arrays, type))
  <2>1. Cardinality(LevelPairs(array)) \in Nat
    BY <1>1, FS_CardinalityType
  <2>2. Cardinality(S) \in Nat
    BY <1>2, FS_CardinalityType DEF OfType
  <2>3. CASE IsSurface(array)
    <3>1. DOMAIN Layers(array) = 1 .. Cardinality(LevelPairs(array))
      BY <2>3 DEF Layers, Sorted
    <3>2. Len(Layers(array)) = Cardinality(LevelPairs(array))
      BY <2>1, <2>3 DEF Layers, Sorted
    <3> QED
      BY <2>1, <3>1, <3>2
  <2>4. CASE ~IsSurface(array)
    <3>1. DOMAIN Layers(array) = 1 .. Cardinality(S)
      BY <2>4 DEF Layers, FileLevels, Sorted
    <3>2. Len(Layers(array)) = Cardinality(S)
      BY <2>2, <2>4 DEF Layers, FileLevels, Sorted
    <3> QED
      BY <2>2, <3>1, <3>2
  <2> QED
    BY <2>3, <2>4
<1> QED
  BY <1>4, <1>5

\* With one grid, every field has as many rows as the axis.
LEMMA OneGridRows ==
  ASSUME Opened, OneGrid, Arrays # {}
  PROVE  /\ NY \in Nat /\ FirstField.rows = NY
         /\ \A array \in Arrays : /\ array.default.rows = NY
                                  /\ \A key \in DOMAIN array.fields : /\ array.fields[key].rows = NY
                                                                      /\ array.fields[key].grid = FirstField.grid
<1> DEFINE v == FirstField.rows
<1>1. \A array \in Arrays : array.default.rows = v /\ \A key \in DOMAIN array.fields :
          array.fields[key].rows = v /\ array.fields[key].grid = FirstField.grid
  BY DEF OneGrid
<1>2. v \in Nat
  BY <1>1, ArraysTyped DEF HeaderOf
<1> HIDE DEF v
<1>3. {array.default.rows : array \in Arrays} = {v}
  BY <1>1
<1>4. NY = v
  BY <1>2, <1>3 DEF NY, Max
<1> QED
  BY <1>1, <1>2, <1>4 DEF v

\* The cells of a layer come behind those of the layers before it.
LEMMA CellsBefore ==
  ASSUME NEW m \in Nat, NEW a \in Nat \ {0}, NEW i \in 1 .. a, NEW k \in 1 .. m
  PROVE  /\ (i - 1) * m + k \in 1 .. a * m
         /\ i < a => (i - 1) * m + k \in 1 .. (a - 1) * m
<1>1. (i - 1) * m \in Nat /\ (a - i) * m \in Nat
  OBVIOUS
<1>2. a * m = (i - 1) * m + m + (a - i) * m
  OBVIOUS
<1>3. i < a => (a - 1 - i) * m \in Nat /\ (a - 1) * m = (i - 1) * m + m + (a - 1 - i) * m
  OBVIOUS
<1> QED
  BY <1>1, <1>2, <1>3

\* What a read holds after a layer more.
LEMMA LayerPut ==
  ASSUME NEW r, SliceInv(r), Opened, r.pc # "idle", NEW rows \in Seq(FeltCells),
         OneGrid => Len(rows) = NY /\ \A k \in 1 .. NY : rows[k] = CellOf(r.name, r.time, r.at, k),
         NEW last \in BOOLEAN, last <=> r.at = Len(LayerVals(felt.arrays[r.name]))
  PROVE  SliceInv([r EXCEPT !.cells = @ \o rows, !.at = @ + 1, !.pc = IF last THEN "idle" ELSE "waits",
                            !.outcome = IF last THEN "read" ELSE "none"])
<1> DEFINE q == [r EXCEPT !.cells = @ \o rows, !.at = @ + 1, !.pc = IF last THEN "idle" ELSE "waits",
                          !.outcome = IF last THEN "read" ELSE "none"]
<1>1. IsSliceRead(r) /\ Begun(r) /\ SoFar(r)
  BY DEF SliceInv
<1>2. /\ q.cells = r.cells \o rows /\ q.at = r.at + 1 /\ q.name = r.name /\ q.time = r.time
      /\ q.position = r.position /\ q.n = r.n
      /\ q.pc = (IF last THEN "idle" ELSE "waits") /\ q.outcome = (IF last THEN "read" ELSE "none")
      /\ IsSliceRead(q)
  <2> DEFINE c == r.cells \o rows
             a == r.at + 1
             p == IF last THEN "idle" ELSE "waits"
             o == IF last THEN "read" ELSE "none"
  <2>1. q = [r EXCEPT !.cells = c, !.at = a, !.pc = p, !.outcome = o]
    OBVIOUS
  <2> HIDE DEF q, c, a, p, o
  <2>2. /\ q.cells = c /\ q.at = a /\ q.pc = p /\ q.outcome = o
        /\ q.name = r.name /\ q.position = r.position /\ q.time = r.time /\ q.n = r.n
        /\ DOMAIN q = DOMAIN r /\ q = [field \in DOMAIN q |-> q[field]]
    BY <1>1, <2>1 DEF IsSliceRead
  <2> QED
    BY <1>1, <2>2 DEF c, a, p, o, IsSliceRead
<1> HIDE DEF q
<1>3. Begun(q)
  BY <1>1, <1>2 DEF Begun
<1>4. q.at \in Nat \ {0} /\ q.cells \in Seq(FeltCells)
  BY <1>1, <1>2 DEF SoFar
<1>5. ASSUME OneGrid
      PROVE  /\ Len(q.cells) = (q.at - 1) * NY
             /\ \A i \in 1 .. q.at - 1, k \in 1 .. NY : q.cells[(i - 1) * NY + k] = CellOf(q.name, q.time, i, k)
  <2> DEFINE a == r.at
             m == NY
  <2>1. a \in Nat \ {0} /\ Len(r.cells) = (a - 1) * m /\ r.cells \in Seq(FeltCells)
    BY <1>1, <1>5 DEF SoFar
  <2>2. m \in Nat
    <3>1. Arrays # {}
      BY <1>1 DEF Begun, Arrays
    <3> QED
      BY <1>5, <3>1, OneGridRows
  <2>3. Len(rows) = m
    BY <1>5
  <2>4. \A i \in 1 .. a - 1, k \in 1 .. m : r.cells[(i - 1) * m + k] = CellOf(r.name, r.time, i, k)
    BY <1>1, <1>5 DEF SoFar
  <2>5. \A k \in 1 .. m : rows[k] = CellOf(r.name, r.time, a, k)
    BY <1>5
  <2> HIDE DEF a, m
  <2>6. /\ Len(q.cells) = (a - 1) * m + m
        /\ \A c \in 1 .. (a - 1) * m : q.cells[c] = r.cells[c]
        /\ \A k \in 1 .. m : q.cells[(a - 1) * m + k] = rows[k]
    <3> DEFINE b == (a - 1) * m
    <3>1. b \in Nat
      BY <2>1, <2>2
    <3>2. Len(r.cells) = b
      BY <2>1
    <3> HIDE DEF b
    <3>3. /\ Len(r.cells \o rows) = b + m
          /\ \A c \in 1 .. b : (r.cells \o rows)[c] = r.cells[c]
          /\ \A k \in 1 .. m : (r.cells \o rows)[b + k] = rows[k]
      <4>1. /\ Len(r.cells \o rows) = b + m
            /\ \A c \in 1 .. b + m : (r.cells \o rows)[c] = IF c <= b THEN r.cells[c] ELSE rows[c - b]
        <5>1. r.cells \in Seq(FeltCells) /\ rows \in Seq(FeltCells) /\ Len(rows) = m /\ Len(r.cells) = b
          BY <2>1, <2>3, <3>2
        <5>2. /\ Len(r.cells \o rows) = Len(r.cells) + Len(rows)
              /\ \A c \in 1 .. Len(r.cells) + Len(rows) :
                   (r.cells \o rows)[c] = IF c <= Len(r.cells) THEN r.cells[c] ELSE rows[c - Len(r.cells)]
          BY <5>1, ConcatProperties
        <5> QED
          BY <5>1, <5>2
      <4>2. ASSUME NEW c \in 1 .. b PROVE (r.cells \o rows)[c] = r.cells[c]
        BY <2>2, <3>1, <4>1
      <4>3. ASSUME NEW k \in 1 .. m PROVE (r.cells \o rows)[b + k] = rows[k]
        <5>1. b + k \in 1 .. b + m /\ ~(b + k <= b) /\ (b + k) - b = k
          BY <2>2, <3>1
        <5> QED
          BY <4>1, <5>1
      <4> QED
        BY <4>1, <4>2, <4>3
    <3> QED
      BY <1>2, <3>3 DEF b
  <2>7. ASSUME NEW i \in 1 .. a, NEW k \in 1 .. m PROVE q.cells[(i - 1) * m + k] = CellOf(r.name, r.time, i, k)
    <3>1. CASE i = a
      BY <2>5, <2>6, <3>1
    <3>2. CASE i # a
      <4>1. i \in 1 .. a - 1 /\ i < a
        BY <2>1, <3>2
      <4>2. (i - 1) * m + k \in 1 .. (a - 1) * m
        BY <2>1, <2>2, <4>1, CellsBefore
      <4> QED
        BY <2>4, <2>6, <4>1, <4>2
    <3> QED
      BY <3>1, <3>2
  <2>8. q.at - 1 = a /\ (a - 1) * m + m = a * m
    <3>1. (a - 1) * m + m = a * m
      BY <2>1, <2>2
    <3>2. q.at = a + 1
      BY <1>2 DEF a
    <3> QED
      BY <2>1, <3>1, <3>2
  <2>9. Len(q.cells) = (q.at - 1) * m
    BY <2>6, <2>8
  <2>10. \A i \in 1 .. q.at - 1, k \in 1 .. m : q.cells[(i - 1) * m + k] = CellOf(q.name, q.time, i, k)
    BY <1>2, <2>7, <2>8
  <2> QED
    BY <2>9, <2>10 DEF m
<1>6. SoFar(q)
  BY <1>4, <1>5 DEF SoFar
<1>7. q.outcome = "read" => q.at = Len(LayerVals(felt.arrays[q.name])) + 1
  BY <1>2
<1>8. q.outcome # "empty" /\ q.pc \in {"idle", "waits", "fetches"} /\ (q.pc # "idle" => q.outcome = "none")
  BY <1>2
<1>9. SliceInv(q)
  BY <1>2, <1>3, <1>6, <1>7, <1>8 DEF SliceInv
<1> QED
  BY <1>9 DEF q

\* While the file is the same, what is said of a read stays true of it.
LEMMA SameFile ==
  ASSUME felt' = felt
  PROVE  /\ (FileInv => FileInv') /\ \A r : SliceInv(r) => SliceInv(r)'
         /\ \A name, time, i : KeyAt(name, time, i)' = KeyAt(name, time, i)
<1>1. Arrays' = Arrays
  BY DEF Arrays
<1>2. FileTimes' = FileTimes /\ FileMembers' = FileMembers /\ NY' = NY /\ FirstField' = FirstField
  <2>1. FileTimes' = FileTimes
    BY <1>1 DEF FileTimes, Sorted
  <2>2. FileMembers' = FileMembers
    BY <1>1 DEF FileMembers, Sorted
  <2>3. NY' = NY
    BY <1>1 DEF NY
  <2>4. FirstField' = FirstField
    BY DEF FirstField, FirstName
  <2> QED
    BY <2>1, <2>2, <2>3, <2>4
<1>3. OneGrid' = OneGrid
  BY <1>1, <1>2 DEF OneGrid
<1>4. \A array : Layers(array)' = Layers(array)
  BY <1>1 DEF Layers, FileLevels
<1>5. \A array : LayerVals(array)' = LayerVals(array)
  BY <1>2, <1>4 DEF LayerVals
<1>6. FeltCells' = FeltCells
  BY <1>1 DEF FeltCells
<1>7. ASSUME NEW name, NEW time, NEW i
      PROVE  KeyAt(name, time, i)' = KeyAt(name, time, i) /\ \A k : CellOf(name, time, i, k)' = CellOf(name, time, i, k)
  <2> DEFINE array == felt.arrays[name]
  <2>1. PICK a : a = array
    OBVIOUS
  <2>2. array' = a
    BY <2>1
  <2>3. LayerVals(array)' = LayerVals(a)
    <3>1. LayerVals(a)' = LayerVals(a)
      BY <1>5
    <3>2. LayerVals(array)' = LayerVals(a)'
      BY <2>2 DEF LayerVals, Layers, FileLevels, OfType, IsSurface, LevelPairs, IsEps, HasEnsembleDim, EnsembleMembers
    <3> QED
      BY <3>1, <3>2
  <2>4. HasTime(array)' = HasTime(a) /\ ValidTimesOf(array)' = ValidTimesOf(a)
    BY <2>2 DEF HasTime, ValidTimesOf
  <2>5. KeyAt(name, time, i)' = KeyAt(name, time, i)
    BY <2>1, <2>3, <2>4 DEF KeyAt
  <2>6. \A k : CellOf(name, time, i, k)' = CellOf(name, time, i, k)
    BY <2>1, <2>2, <2>5 DEF CellOf
  <2> QED
    BY <2>5, <2>6
<1>8. \A position : TimeAt(position)' = TimeAt(position)
  BY <1>2 DEF TimeAt
<1>9. FileInv => FileInv'
  BY DEF FileInv, Opened
<1>10. ASSUME NEW r, SliceInv(r) PROVE SliceInv(r)'
  <2>1. SoFar(r) => SoFar(r)'
    <3>1. \A name, time, i, k : CellOf(name, time, i, k)' = CellOf(name, time, i, k)
      BY <1>7
    <3> QED
      BY <1>2, <1>3, <1>6, <3>1 DEF SoFar
  <2>2. Begun(r) => Begun(r)'
    BY <1>8 DEF Begun
  <2> QED
    BY <1>5, <1>10, <2>1, <2>2 DEF SliceInv
<1> QED
  BY <1>7, <1>9, <1>10

\* Before the file is read, nobody reads a slice.
LEMMA FeltInitially ==
  ASSUME FeltInit
  PROVE  FeltInv
<1>1. FileInv
  BY DEF FeltInit, FileInv, ClosedFelt
<1>2. ASSUME NEW t \in FeltThreads, NEW r, r = feltReads[t] PROVE SliceInv(r) /\ r.pc # "fetches"
  <2>1. r = NoFeltRead
    BY <1>2 DEF FeltInit
  <2>2. IsSliceRead(r) /\ r.pc = "idle" /\ r.outcome = "none"
    BY <2>1 DEF IsSliceRead, NoFeltRead
  <2> QED
    BY <2>2 DEF SliceInv
<1> QED
  BY <1>1, <1>2 DEF FeltInit, FeltInv

\* A file is read when no thread has begun a slice.
LEMMA OpeningKeeps ==
  ASSUME FeltInv, NEW file \in FeltFiles, OpenFelt(file)
  PROVE  FeltInv'
<1>1. felt = ClosedFelt /\ felt.phase = "closed"
  BY DEF OpenFelt, FeltInv, FileInv, Opened
<1>2. FileInv'
  <2> DEFINE H == {file.entries[i] : i \in DOMAIN file.entries}
             read == ReadFields(file)
  <2>1. file.entries \in Seq(H) /\ \A f \in H : HeaderOf(f)
    BY FeltFilesAssumption
  <2>2. IsFiniteSet(H)
    <3>1. Len(file.entries) \in Nat /\ DOMAIN file.entries = 1 .. Len(file.entries)
      BY <2>1
    <3>2. IsFiniteSet(DOMAIN file.entries)
      BY <3>1, FS_Interval
    <3>3. file.entries = [i \in DOMAIN file.entries |-> file.entries[i]]
      BY <2>1
    <3> QED
      BY <3>2, <3>3, Images
  <2>3. read \in ReadsOf(H)
    BY <2>1, FieldsRead
  <2>4. read.phase \in {"open", "failed"}
    BY <2>3 DEF ReadsOf
  <2>5. CASE felt' = read
    <3>1. PICK x, G : x = read /\ G = H
      OBVIOUS
    <3>2. felt' = x /\ IsFiniteSet(G) /\ (\A f \in G : HeaderOf(f)) /\ x \in ReadsOf(G) /\ x.phase \in {"open", "failed"}
      BY <2>1, <2>2, <2>3, <2>4, <2>5, <3>1
    <3> QED
      BY <3>2 DEF FileInv, Opened
  <2>6. CASE felt' = [felt EXCEPT !.phase = "failed"]
    <3>1. felt'.phase = "failed"
      BY <1>1, <2>6 DEF ClosedFelt
    <3> QED
      BY <3>1 DEF FileInv
  <2> QED
    BY <2>5, <2>6 DEF OpenFelt
<1>3. ASSUME NEW t \in FeltThreads, NEW r, r = feltReads[t]
      PROVE  SliceInv(r)' /\ r.pc # "fetches"
  <2>1. SliceInv(r) /\ ~Begun(r)
    BY <1>1, <1>3 DEF FeltInv, Begun
  <2>2. IsSliceRead(r) /\ r.pc = "idle" /\ r.outcome # "read" /\ r.outcome # "empty"
    BY <2>1 DEF SliceInv
  <2> QED
    BY <2>2 DEF SliceInv, IsSliceRead
<1>4. feltReads' = feltReads
  BY DEF OpenFelt
<1> QED
  BY <1>2, <1>3, <1>4 DEF FeltInv

\* One thread goes on with its slice; another that fetches keeps the lock and the stream.
LEMMA OneReads ==
  ASSUME FeltInv, felt' = felt, NEW t \in FeltThreads, NEW q, Became(t, q), SliceInv(q),
         q.pc = "fetches" => Fetching(t, q)',
         \A s \in FeltThreads \ {t} : feltReads[s].pc = "fetches" => feltMutex' = feltMutex /\ feltStream' = feltStream
  PROVE  FeltInv'
<1>1. FileInv'
  BY SameFile DEF FeltInv
<1>2. feltReads' = [feltReads EXCEPT ![t] = q]
  BY DEF Became
<1>3. feltReads = [s \in FeltThreads |-> feltReads[s]]
  BY DEF FeltInv
<1>4. feltReads' = [s \in FeltThreads |-> feltReads'[s]]
  BY <1>2, <1>3
<1>5. ASSUME NEW s \in FeltThreads, NEW r, r = feltReads'[s]
      PROVE  SliceInv(r)' /\ (r.pc = "fetches" => Fetching(s, r)')
  <2>1. CASE s = t
    <3>1. r = q
      BY <1>2, <1>3, <1>5, <2>1
    <3> QED
      BY <2>1, <3>1, SameFile
  <2>2. CASE s # t
    <3>1. r = feltReads[s]
      BY <1>2, <1>3, <1>5, <2>2
    <3>2. SliceInv(r) /\ (r.pc = "fetches" => Fetching(s, r))
      BY <3>1 DEF FeltInv
    <3>3. SliceInv(r)'
      BY <3>2, SameFile
    <3>4. ASSUME r.pc = "fetches" PROVE Fetching(s, r)'
      <4>1. feltMutex' = feltMutex /\ feltStream' = feltStream
        BY <2>2, <3>1, <3>4
      <4>2. KeyAt(r.name, r.time, r.at)' = KeyAt(r.name, r.time, r.at)
        BY SameFile
      <4> QED
        BY <3>2, <3>4, <4>1, <4>2 DEF Fetching
    <3> QED
      BY <3>3, <3>4
  <2> QED
    BY <2>1, <2>2
<1> QED
  BY <1>1, <1>4, <1>5 DEF FeltInv

\* A read that ended without a slice needs nothing of the file.
LEMMA EndedKeeps ==
  ASSUME NEW r, IsSliceRead(r), NEW outcome, outcome \notin {"read", "empty"}
  PROVE  LET q == [r EXCEPT !.pc = "idle", !.outcome = outcome] IN SliceInv(q) /\ q.pc = "idle"
<1> DEFINE q == [r EXCEPT !.pc = "idle", !.outcome = outcome]
<1>1. IsSliceRead(q) /\ q.pc = "idle" /\ q.outcome = outcome
  BY DEF IsSliceRead
<1> HIDE DEF q
<1>2. SliceInv(q) /\ q.pc = "idle"
  BY <1>1 DEF SliceInv
<1> QED
  BY <1>2 DEF q

\* A slice begins with its first layer, at a time there is.
LEMMA StartKeeps ==
  ASSUME FeltInv, NEW t \in FeltThreads, NEW name \in DOMAIN felt.arrays, NEW position, StartSlice(t, name, position)
  PROVE  FeltInv'
<1> DEFINE array == felt.arrays[name]
           fresh(time) == [pc |-> "waits", name |-> name, position |-> position, time |-> time,
                           at |-> 1, cells |-> << >>, outcome |-> "none", n |-> feltReads[t].n + 1]
<1>1. felt.phase = "open" /\ feltReads[t].pc = "idle" /\ felt' = felt /\ feltMutex' = feltMutex /\ feltStream' = feltStream
  BY DEF StartSlice
<1>2. PICK time \in TimeAt(position) :
        Became(t, IF position > Len(FileTimes) THEN [fresh(time) EXCEPT !.pc = "idle", !.outcome = "failed"]
                  ELSE IF ~TimeIsThere(array, time) THEN [fresh(time) EXCEPT !.pc = "idle", !.outcome = "empty"]
                  ELSE fresh(time))
  BY DEF StartSlice
<1>3. PICK r : r = fresh(time)
  OBVIOUS
<1>4. /\ IsSliceRead(r) /\ r.pc = "waits" /\ r.name = name /\ r.position = position /\ r.time = time
      /\ r.at = 1 /\ r.cells = << >> /\ r.outcome = "none"
  BY <1>3 DEF IsSliceRead
<1> HIDE DEF fresh
<1>5. Begun(r)
  BY <1>1, <1>4 DEF Begun
<1>6. Opened /\ Arrays # {}
  <2>1. Opened
    BY <1>1 DEF FeltInv, FileInv, ClosedFelt
  <2>2. array \in Arrays
    BY DEF Arrays
  <2> QED
    BY <2>1, <2>2
<1>7. SoFar(r)
  <2>1. OneGrid => NY \in Nat
    BY <1>6, OneGridRows
  <2>2. r.at - 1 = 0 /\ Len(r.cells) = 0 /\ r.cells \in Seq(FeltCells) /\ r.at \in Nat \ {0}
    BY <1>4
  <2>3. OneGrid => (r.at - 1) * NY = 0
    BY <2>1, <2>2
  <2> QED
    BY <2>2, <2>3 DEF SoFar
<1>8. CASE position > Len(FileTimes)
  <2>1. PICK q : q = [r EXCEPT !.pc = "idle", !.outcome = "failed"]
    OBVIOUS
  <2>2. SliceInv(q) /\ q.pc = "idle"
    BY <1>4, <2>1, EndedKeeps
  <2>3. Became(t, q)
    BY <1>2, <1>3, <1>8, <2>1
  <2> QED
    BY <1>1, <2>2, <2>3, OneReads
<1>9. CASE ~(position > Len(FileTimes)) /\ ~TimeIsThere(array, time)
  <2>1. PICK q : q = [r EXCEPT !.pc = "idle", !.outcome = "empty"]
    OBVIOUS
  <2>2. /\ IsSliceRead(q) /\ q.pc = "idle" /\ q.outcome = "empty"
        /\ q.name = r.name /\ q.time = r.time /\ q.position = r.position
    BY <1>4, <2>1 DEF IsSliceRead
  <2>3. SliceInv(q)
    BY <1>4, <1>5, <1>9, <2>2 DEF SliceInv, Begun
  <2>4. Became(t, q)
    BY <1>2, <1>3, <1>9, <2>1
  <2> QED
    BY <1>1, <2>2, <2>3, <2>4, OneReads
<1>10. CASE ~(position > Len(FileTimes)) /\ TimeIsThere(array, time)
  <2>1. SliceInv(r)
    BY <1>4, <1>5, <1>7 DEF SliceInv
  <2>2. Became(t, r)
    BY <1>2, <1>3, <1>10
  <2> QED
    BY <1>1, <1>4, <2>1, <2>2, OneReads
<1> QED
  BY <1>8, <1>9, <1>10

\* What a read in progress knows of its file.
LEMMA Reading ==
  ASSUME FeltInv, NEW t \in FeltThreads, NEW r, r = feltReads[t], r.pc # "idle"
  PROVE  /\ Opened /\ Arrays # {} /\ felt.arrays[r.name] \in Arrays
         /\ SliceInv(r) /\ IsSliceRead(r) /\ WantedKey(r) = KeyAt(r.name, r.time, r.at)
         /\ r.pc = "fetches" => Fetching(t, r)
<1>1. SliceInv(r) /\ (r.pc = "fetches" => Fetching(t, r))
  BY DEF FeltInv
<1>2. Begun(r) /\ IsSliceRead(r)
  BY <1>1 DEF SliceInv
<1>3. Opened
  BY <1>2 DEF Begun, FeltInv, FileInv, ClosedFelt
<1>4. felt.arrays[r.name] \in Arrays
  BY <1>2 DEF Begun, Arrays
<1>5. WantedKey(r) = KeyAt(r.name, r.time, r.at)
  BY DEF WantedKey, KeyAt
<1> QED
  BY <1>1, <1>2, <1>3, <1>4, <1>5

\* A layer of the slice of a thread.
LEMMA PutKeeps ==
  ASSUME FeltInv, felt' = felt, NEW t \in FeltThreads, NEW r, r = feltReads[t], r.pc # "idle",
         NEW rows \in Seq(FeltCells), Put(t, rows),
         OneGrid => Len(rows) = NY /\ \A k \in 1 .. NY : rows[k] = CellOf(r.name, r.time, r.at, k),
         \A s \in FeltThreads \ {t} : feltReads[s].pc = "fetches" => feltMutex' = feltMutex /\ feltStream' = feltStream
  PROVE  FeltInv'
<1> DEFINE last == r.at = Len(LayerVals(felt.arrays[r.name]))
<1>1. PICK q : q = [r EXCEPT !.cells = @ \o rows, !.at = @ + 1, !.pc = IF last THEN "idle" ELSE "waits",
                             !.outcome = IF last THEN "read" ELSE "none"]
  OBVIOUS
<1>2. Became(t, q)
  BY <1>1 DEF Put
<1>3. SliceInv(q)
  <2>1. PICK b \in BOOLEAN : b <=> last
    OBVIOUS
  <2>2. q = [r EXCEPT !.cells = @ \o rows, !.at = @ + 1, !.pc = IF b THEN "idle" ELSE "waits",
                      !.outcome = IF b THEN "read" ELSE "none"]
    BY <1>1, <2>1
  <2> QED
    BY <2>1, <2>2, Reading, LayerPut
<1>4. q.pc # "fetches"
  <2>1. IsSliceRead(r)
    BY Reading
  <2> QED
    BY <1>1, <2>1 DEF IsSliceRead
<1> QED
  BY <1>2, <1>3, <1>4, OneReads

\* Only the thread that has the lock fetches.
LEMMA OneFetches ==
  ASSUME FeltInv, NEW t \in FeltThreads, feltReads[t].pc = "fetches"
  PROVE  feltMutex = t
<1>1. PICK r : r = feltReads[t]
  OBVIOUS
<1> QED
  BY <1>1 DEF FeltInv, Fetching

\* A layer without a field is filled.
LEMMA NoFieldKeeps ==
  ASSUME FeltInv, NEW t \in FeltThreads, NoSuchField(t)
  PROVE  FeltInv'
<1>1. PICK r : r = feltReads[t]
  OBVIOUS
<1> DEFINE array == felt.arrays[r.name]
           rows == [k \in 1 .. array.default.rows |-> FillCell]
<1>2. r.pc = "waits" /\ WantedKey(r) \notin DOMAIN array.fields /\ Put(t, rows)
  BY <1>1 DEF NoSuchField, CanLock
<1>3. felt' = felt /\ feltMutex' = feltMutex /\ feltStream' = feltStream
  BY DEF NoSuchField
<1>4. array.default.rows \in Nat
  BY <1>1, <1>2, Reading, ArraysTyped DEF HeaderOf
<1>5. rows \in Seq(FeltCells) /\ Len(rows) = array.default.rows
  BY <1>4 DEF FeltCells
<1>6. ASSUME OneGrid
      PROVE  Len(rows) = NY /\ \A k \in 1 .. NY : rows[k] = CellOf(r.name, r.time, r.at, k)
  <2>1. array.default.rows = NY
    BY <1>1, <1>2, <1>6, Reading, OneGridRows
  <2>2. \A k : CellOf(r.name, r.time, r.at, k) = FillCell
    BY <1>1, <1>2, Reading DEF CellOf
  <2> QED
    BY <1>5, <2>1, <2>2
<1>7. PICK layer : layer = rows
  OBVIOUS
<1> HIDE DEF rows
<1> QED
  BY <1>1, <1>2, <1>3, <1>5, <1>6, <1>7, PutKeeps

\* A field is sought with the lock, which no other thread has.
LEMMA SeekKeeps ==
  ASSUME FeltInv, NEW t \in FeltThreads, SeekField(t)
  PROVE  FeltInv'
<1>1. PICK r : r = feltReads[t]
  OBVIOUS
<1> DEFINE array == felt.arrays[r.name]
           key == KeyAt(r.name, r.time, r.at)
<1>2. r.pc = "waits" /\ feltMutex = Unlocked /\ felt' = felt
  BY <1>1 DEF SeekField, CanLock
<1>3. WantedKey(r) = key /\ IsSliceRead(r) /\ SliceInv(r)
  BY <1>1, <1>2, Reading
<1>4. key \in DOMAIN array.fields
  BY <1>1, <1>3 DEF SeekField
<1>5. \A s \in FeltThreads : feltReads[s].pc # "fetches"
  BY <1>2, OneFetches, FeltFilesAssumption
<1>6. CASE GridType(array.fields[key]) # GridType(array.default)
  <2>1. PICK q : q = [r EXCEPT !.pc = "idle", !.outcome = "failed"]
    OBVIOUS
  <2>2. Became(t, q)
    BY <1>1, <1>3, <1>6, <2>1 DEF SeekField, Ended
  <2>3. SliceInv(q) /\ q.pc = "idle"
    BY <1>3, <2>1, EndedKeeps
  <2> QED
    BY <1>2, <1>5, <2>2, <2>3, OneReads
<1>7. CASE GridType(array.fields[key]) = GridType(array.default)
  <2>1. PICK q : q = [r EXCEPT !.pc = "fetches"]
    OBVIOUS
  <2>2. Became(t, q) /\ feltMutex' = t /\ feltStream' = array.fields[key]
    BY <1>1, <1>3, <1>7, <2>1 DEF SeekField
  <2>3. /\ IsSliceRead(q) /\ q.pc = "fetches" /\ q.name = r.name /\ q.time = r.time /\ q.at = r.at
        /\ q.cells = r.cells /\ q.outcome = r.outcome /\ q.position = r.position
    BY <1>3, <2>1 DEF IsSliceRead
  <2>4. SliceInv(q)
    BY <1>2, <1>3, <2>3 DEF SliceInv, Begun, SoFar
  <2>5. Fetching(t, q)'
    <3>1. KeyAt(q.name, q.time, q.at)' = KeyAt(q.name, q.time, q.at)
      BY <1>2, SameFile
    <3>2. KeyAt(q.name, q.time, q.at) = key
      BY <2>3
    <3>3. felt'.arrays[q.name].fields = array.fields
      BY <1>2, <2>3
    <3> QED
      BY <1>4, <2>2, <3>1, <3>2, <3>3 DEF Fetching
  <2> QED
    BY <1>2, <1>5, <2>2, <2>4, <2>5, OneReads
<1> QED
  BY <1>6, <1>7

\* The field that was sought is read, as nobody moved the stream since.
LEMMA FetchKeeps ==
  ASSUME FeltInv, NEW t \in FeltThreads, FetchField(t)
  PROVE  FeltInv'
<1>1. PICK r : r = feltReads[t]
  OBVIOUS
<1> DEFINE array == felt.arrays[r.name]
           key == KeyAt(r.name, r.time, r.at)
           f == array.fields[key]
           rows == [k \in 1 .. f.rows |-> <<feltStream.id, k>>]
<1>2. r.pc = "fetches" /\ felt' = felt
  BY <1>1 DEF FetchField
<1>3. /\ Opened /\ Arrays # {} /\ array \in Arrays /\ SliceInv(r) /\ IsSliceRead(r)
      /\ WantedKey(r) = key /\ Fetching(t, r)
  BY <1>1, <1>2, Reading
<1>4. feltMutex = t /\ key \in DOMAIN array.fields /\ feltStream = f
  BY <1>3 DEF Fetching
<1>5. \A s \in FeltThreads \ {t} : feltReads[s].pc # "fetches"
  BY <1>4, OneFetches
<1>6. Became(t, Ended(t, "failed")) \/ Put(t, rows)
  BY <1>1, <1>3 DEF FetchField
<1>7. CASE Became(t, Ended(t, "failed"))
  <2>1. PICK q : q = [r EXCEPT !.pc = "idle", !.outcome = "failed"]
    OBVIOUS
  <2>2. Became(t, q)
    BY <1>1, <1>7, <2>1 DEF Ended
  <2>3. SliceInv(q) /\ q.pc = "idle"
    BY <1>3, <2>1, EndedKeeps
  <2> QED
    BY <1>2, <1>5, <2>2, <2>3, OneReads
<1>8. CASE Put(t, rows)
  <2>1. f.rows \in Nat
    BY <1>3, <1>4, ArraysTyped DEF HeaderOf
  <2>2. f \in UNION {FieldsIn(a) : a \in Arrays}
    BY <1>3, <1>4 DEF FieldsIn
  <2>3. rows \in Seq(FeltCells) /\ Len(rows) = f.rows
    <3>1. \A k \in Nat : <<f.id, k>> \in FeltCells
      BY <2>2 DEF FeltCells
    <3>2. rows = [k \in 1 .. f.rows |-> <<f.id, k>>]
      BY <1>4
    <3> HIDE DEF rows, f
    <3> QED
      BY <2>1, <3>1, <3>2
  <2>4. ASSUME OneGrid
        PROVE  Len(rows) = NY /\ \A k \in 1 .. NY : rows[k] = CellOf(r.name, r.time, r.at, k)
    <3>1. f.rows = NY
      BY <1>3, <1>4, <2>4, OneGridRows
    <3>2. \A k : CellOf(r.name, r.time, r.at, k) = <<f.id, k>>
      BY <1>4 DEF CellOf
    <3> QED
      BY <1>4, <2>3, <3>1, <3>2
  <2>5. PICK layer : layer = rows
    OBVIOUS
  <2> HIDE DEF rows
  <2> QED
    BY <1>1, <1>2, <1>5, <1>8, <2>3, <2>4, <2>5, PutKeeps
<1> QED
  BY <1>6, <1>7, <1>8

\* The invariant is one of the reader.
LEMMA FeltStep ==
  ASSUME FeltInv, [FeltNext]_feltVars
  PROVE  FeltInv'
<1>1. CASE \E file \in FeltFiles : OpenFelt(file)
  BY <1>1, OpeningKeeps
<1>2. ASSUME NEW t \in FeltThreads, \E name \in DOMAIN felt.arrays, position \in 0 .. Len(FileTimes) + 1 : StartSlice(t, name, position)
      PROVE  FeltInv'
  <2>1. PICK name \in DOMAIN felt.arrays, position \in 0 .. Len(FileTimes) + 1 : StartSlice(t, name, position)
    BY <1>2
  <2> QED
    BY <2>1, StartKeeps
<1>3. CASE UNCHANGED feltVars
  <2>1. felt' = felt /\ feltReads' = feltReads /\ feltMutex' = feltMutex /\ feltStream' = feltStream
    BY <1>3 DEF feltVars
  <2>2. FileInv'
    BY <2>1, SameFile DEF FeltInv
  <2>3. ASSUME NEW t \in FeltThreads, NEW r, r = feltReads'[t]
        PROVE  SliceInv(r)' /\ (r.pc = "fetches" => Fetching(t, r)')
    <3>1. SliceInv(r) /\ (r.pc = "fetches" => Fetching(t, r))
      BY <2>1, <2>3 DEF FeltInv
    <3>2. SliceInv(r)' /\ KeyAt(r.name, r.time, r.at)' = KeyAt(r.name, r.time, r.at)
      BY <2>1, <3>1, SameFile
    <3> QED
      BY <2>1, <3>1, <3>2 DEF Fetching
  <2> QED
    BY <2>1, <2>2, <2>3 DEF FeltInv
<1> QED
  BY <1>1, <1>2, <1>3, NoFieldKeeps, SeekKeeps, FetchKeeps DEF FeltNext

\* The numbers of a member within a layer.
Numbered(i, m, layer, member) == i \in Nat \ {0} /\ (i - 1) \div m = layer - 1 /\ ((i - 1) % m) + 1 = member
LEMMA MemberOf ==
  ASSUME NEW m \in Nat, NEW layer \in Nat \ {0}, NEW member \in 1 .. m
  PROVE  Numbered((layer - 1) * m + member, m, layer, member)
<1> DEFINE a == layer - 1
           b == member - 1
           i == (layer - 1) * m + member
<1>1. a \in Int /\ b \in Int /\ m \in Nat \ {0} /\ 0 <= b /\ b < m /\ a * m \in Nat
  OBVIOUS
<1>2. i - 1 = a * m + b
  BY <1>1
<1> HIDE DEF a, b
<1>3. (a * m + b) \div m = a /\ (a * m + b) % m = b
  BY <1>1
<1> QED
  BY <1>1, <1>2, <1>3 DEF a, b, Numbered

\* The latitudes of the axis are those the rows are stored for, in either direction.
LEMMA AxisAsStored ==
  ASSUME NEW k \in 1 .. NY, NY \in Nat, FirstField.rows = NY, HeaderOf(FirstField)
  PROVE  YData[k] = FirstField.grid.start + (k - 1) * FirstField.grid.increment
<1> DEFINE s == FirstField.grid.start
           i == FirstField.grid.increment
<1>1. s \in Int /\ i \in Int
  BY DEF HeaderOf
<1>2. CASE IsUpper(FirstField)
  <2>1. GridDefinition(FirstField).start = s + NY * i - i /\ GridDefinition(FirstField).increment = -i
    BY <1>2 DEF GridDefinition
  <2>2. YData[k] = s + NY * i - i + (NY - 1) * (-i) - (k - 1) * (-i)
    BY <1>2, <2>1 DEF YData
  <2>3. /\ NY * i \in Int /\ (k - 1) * i \in Int
        /\ (NY - 1) * (-i) = i - NY * i /\ (k - 1) * (-i) = -((k - 1) * i)
    BY <1>1
  <2> QED
    BY <1>1, <2>2, <2>3
<1>3. CASE ~IsUpper(FirstField)
  <2>1. GridDefinition(FirstField).start = s /\ GridDefinition(FirstField).increment = i
    BY <1>3 DEF GridDefinition
  <2> QED
    BY <1>3, <2>1 DEF YData
<1> QED
  BY <1>2, <1>3

\* A slice that was read is complete, and what it has is what is asked for.
LEMMA FeltInvMeans == FeltInv => FeltServesTheFile
<1> SUFFICES ASSUME FeltInv PROVE FeltServesTheFile
  OBVIOUS
<1> SUFFICES ASSUME NEW t \in FeltThreads
    PROVE LET read == feltReads[t]
              array == felt.arrays[read.name]
              members == IF HasEnsembleDim(array) THEN Len(FileMembers) ELSE 1
          IN  /\ read.outcome = "read" /\ read.position < Len(FileTimes) /\ OneGrid =>
                   \A layer \in DOMAIN Layers(array), member \in 1 .. members, k \in 1 .. NY :
                     LET key == ExpectedKey(read, layer, member)
                         cell == SliceCells(read)[((layer - 1) * members + member - 1) * NY + k]
                     IN  IF key \in DOMAIN array.fields
                         THEN cell = <<array.fields[key].id, k>> /\ YData[k] = StoredAt(array.fields[key], k)
                         ELSE cell = FillCell
              /\ read.outcome = "empty" /\ read.position < Len(FileTimes) =>
                   FileTimes[read.position + 1] \notin ValidTimesOf(array)
  BY DEF FeltServesTheFile
<1> DEFINE read == feltReads[t]
           array == felt.arrays[read.name]
           members == IF HasEnsembleDim(array) THEN Len(FileMembers) ELSE 1
           key(layer, member) == ExpectedKey(read, layer, member)
<1>1. SliceInv(read)
  BY DEF FeltInv
<1>2. ASSUME Begun(read), read.position < Len(FileTimes) PROVE read.time = FileTimes[read.position + 1]
  BY <1>2 DEF Begun, TimeAt
<1>3. ASSUME read.outcome = "empty", read.position < Len(FileTimes)
      PROVE  FileTimes[read.position + 1] \notin ValidTimesOf(array)
  <2>1. Begun(read) /\ ~TimeIsThere(array, read.time)
    BY <1>1, <1>3 DEF SliceInv
  <2>2. read.time = FileTimes[read.position + 1]
    BY <1>2, <1>3, <2>1
  <2> QED
    BY <2>1, <2>2 DEF TimeIsThere, TimesOf
<1>4. ASSUME read.outcome = "read", read.position < Len(FileTimes), OneGrid,
             NEW layer \in DOMAIN Layers(array), NEW member \in 1 .. members, NEW k \in 1 .. NY
      PROVE  LET cell == SliceCells(read)[((layer - 1) * members + member - 1) * NY + k]
             IN  IF key(layer, member) \in DOMAIN array.fields
                 THEN /\ cell = <<array.fields[key(layer, member)].id, k>>
                      /\ YData[k] = StoredAt(array.fields[key(layer, member)], k)
                 ELSE cell = FillCell
  <2> DEFINE L == Len(LayerVals(array))
             i == (layer - 1) * members + member
             c == (i - 1) * NY + k
             f == array.fields[key(layer, member)]
  <2>1. Begun(read) /\ SoFar(read) /\ read.at = L + 1
    BY <1>1, <1>4 DEF SliceInv
  <2>2. Opened /\ array \in Arrays /\ Arrays # {}
    <3>1. Opened
      BY <2>1 DEF Begun, FeltInv, FileInv, ClosedFelt
    <3>2. array \in Arrays
      BY <2>1 DEF Begun, Arrays
    <3> QED
      BY <3>1, <3>2
  <2>3. read.time = FileTimes[read.position + 1]
    BY <1>2, <1>4, <2>1
  <2>4. NY \in Nat /\ FirstField.rows = NY
    BY <1>4, <2>2, OneGridRows
  <2>5. /\ Len(FileMembers) \in Nat /\ DOMAIN FileMembers = 1 .. Len(FileMembers)
        /\ Len(Layers(array)) \in Nat /\ DOMAIN Layers(array) = 1 .. Len(Layers(array))
    BY <2>2, LayersAreListed
  <2>6. members \in Nat /\ layer \in Nat \ {0}
    BY <2>5
  <2>7. i \in Nat \ {0} /\ (i - 1) \div members = layer - 1 /\ ((i - 1) % members) + 1 = member
    <3>1. member \in 1 .. members
      BY <1>4
    <3>2. Numbered(i, members, layer, member)
      <4> HIDE DEF members
      <4> QED
        BY <2>6, <3>1, MemberOf
    <3> HIDE DEF i, members
    <3> QED
      BY <3>2 DEF Numbered
  <2>8. L \in Nat /\ i \in 1 .. L /\ KeyAt(read.name, read.time, i) = key(layer, member)
    <3>1. CASE HasEnsembleDim(array)
      <4>1. members = Len(FileMembers)
        BY <3>1
      <4>2. LayerVals(array) = [j \in 1 .. Len(Layers(array)) * members |->
                 <<Layers(array)[(j - 1) \div members + 1][1], FileMembers[((j - 1) % members) + 1]>>]
        BY <3>1, <4>1 DEF LayerVals
      <4> DEFINE n == Len(Layers(array))
      <4>3. n \in Nat /\ layer \in 1 .. n /\ member \in 1 .. members
        BY <1>4, <2>5
      <4> HIDE DEF n, members, i
      <4>4. n * members \in Nat
        BY <2>6, <4>3
      <4>5. LayerVals(array) = [j \in 1 .. n * members |->
                 <<Layers(array)[(j - 1) \div members + 1][1], FileMembers[((j - 1) % members) + 1]>>]
        BY <4>2 DEF n
      <4>6. L = n * members
        <5> DEFINE total == n * members
        <5>1. total \in Nat
          BY <4>4
        <5>2. DOMAIN LayerVals(array) = 1 .. total /\ LayerVals(array) \in Seq({LayerVals(array)[j] : j \in 1 .. total})
          <6>1. LayerVals(array) = [j \in 1 .. total |-> LayerVals(array)[j]]
            BY <4>5
          <6> HIDE DEF total
          <6> QED
            BY <5>1, <6>1
        <5> HIDE DEF total
        <5>3. Len(LayerVals(array)) = total
          BY <5>1, <5>2
        <5> QED
          BY <5>3 DEF total
      <4>7. i \in 1 .. n * members
        <5>1. n \in Nat \ {0}
          BY <4>3
        <5> QED
          BY <2>6, <4>3, <5>1, CellsBefore DEF i
      <4>8. LayerVals(array)[i] = <<Layers(array)[layer][1], FileMembers[member]>>
        <5>1. (i - 1) \div members + 1 = layer
          BY <2>6, <2>7
        <5> QED
          BY <2>7, <4>5, <4>7, <5>1
      <4> QED
        BY <2>3, <3>1, <4>4, <4>6, <4>7, <4>8 DEF KeyAt, ExpectedKey
    <3>2. CASE ~HasEnsembleDim(array)
      <4>1. LayerVals(array) = Layers(array) /\ members = 1 /\ i = layer
        BY <2>6, <3>2 DEF LayerVals
      <4> QED
        <5>1. L \in Nat /\ i \in 1 .. L
          BY <1>4, <2>5, <4>1
        <5>2. LayerVals(array)[i] = Layers(array)[layer]
          BY <4>1
        <5> QED
          BY <2>3, <3>2, <5>1, <5>2 DEF KeyAt, ExpectedKey
    <3> QED
      BY <3>1, <3>2
  <2>9. read.cells[c] = CellOf(read.name, read.time, i, k) /\ Len(read.cells) = L * NY
    <3>1. read.at - 1 = L
      BY <2>1, <2>8
    <3> QED
      BY <1>4, <2>1, <2>8, <3>1 DEF SoFar
  <2>10. c \in 1 .. L * NY
    <3>1. L \in Nat \ {0} /\ i \in 1 .. L /\ k \in 1 .. NY
      BY <1>4, <2>8
    <3> HIDE DEF L, i
    <3> QED
      BY <2>4, <3>1, CellsBefore
  <2>11. SliceCells(read)[c] = read.cells[c]
    <3>1. SliceSize(array) = L * NY
      BY <2>4, <2>8 DEF SliceSize
    <3> QED
      BY <2>4, <2>8, <2>9, <2>10, <3>1 DEF SliceCells
  <2>12. c = ((layer - 1) * members + member - 1) * NY + k
    BY <2>6, <2>7
  <2>13. ASSUME key(layer, member) \in DOMAIN array.fields PROVE YData[k] = StoredAt(f, k)
    <3>1. f.grid = FirstField.grid /\ HeaderOf(f) /\ f.rows = NY
      BY <1>4, <2>2, <2>13, OneGridRows, ArraysTyped
    <3>2. HeaderOf(FirstField)
      BY <2>4, <3>1 DEF HeaderOf
    <3> QED
      BY <2>4, <3>1, <3>2, AxisAsStored DEF StoredAt
  <2>14. SliceCells(read)[c] = IF key(layer, member) \in DOMAIN array.fields THEN <<f.id, k>> ELSE FillCell
    BY <2>8, <2>9, <2>11 DEF CellOf
  <2> HIDE DEF key, c, f
  <2> QED
    BY <2>12, <2>13, <2>14 DEF f
<1> QED
  BY <1>3, <1>4

(* Whatever threads read at once from a felt file with one grid, a slice has for every level and   *)
(* member the rows of the field of its time, at the latitudes that are announced for them, and the *)
(* fill value where the file has no field: the lock is kept from the place of the stream to the    *)
(* reading of it (getDataSlice, getScaledDataSlice, FeltField::grid).                              *)
THEOREM ThreadsGetTheirFields == FeltSpec => []FeltServesTheFile
<1>1. FeltInit => FeltInv
  BY FeltInitially
<1>2. FeltInv /\ [FeltNext]_feltVars => FeltInv'
  BY FeltStep
<1>3. FeltInv => FeltServesTheFile
  BY FeltInvMeans
<1> QED
  BY <1>1, <1>2, <1>3, PTL DEF FeltSpec

-----------------------------------------------------------------------------
(* Why: a reader grows at its end, by what the next stage adds (StreamInv says of every stream  *)
(* that the stages behind it are in its reader and none of a later one); each operation that   *)
(* the order is about is added by one stage only (AddedBy), so that an earlier stage's stand   *)
(* before a later one's, and those of one stage stand as its list has them (OpsInOrder).       *)
IsList(s) == \E S : s \in Seq(S)
Axis == BoundingBox \union {"extract.reduceTime.start", "extract.reduceVerticalAxis.unit"}
AddedBy(k) ==
    IF k = 3 THEN Axis \union {"extract.selectVariables", "extract.removeVariable"}
    ELSE IF k = 5 THEN {"interpolate.projString"}
    ELSE IF k = 6 THEN {"verticalInterpolate.level1"} ELSE {}
Ordered(reader) ==
    /\ \A cut \in Axis : Before(cut, "extract.selectVariables", reader) /\ Before(cut, "extract.removeVariable", reader)
    /\ Before("extract.removeVariable", "interpolate.projString", reader)
    /\ Before("interpolate.projString", "verticalInterpolate.level1", reader)
StageNumbers == 1 .. 9
AddedUntil(reader, last) ==
    \A i \in DOMAIN reader, k \in StageNumbers : reader[i].op \in AddedBy(k) => k <= last
Holds(reader, stage, o) ==
    \A i \in DOMAIN Added(stage, o) : \E j \in DOMAIN reader : reader[j] = Added(stage, o)[i]

StreamInv(s) ==
    /\ s = [options |-> s.options, stage |-> s.stage, reader |-> s.reader]
    /\ s.stage \in 1 .. 10 /\ IsList(s.reader)
    /\ AddedUntil(s.reader, s.stage - 1) /\ Ordered(s.reader)
    /\ s.stage > 7 /\ MergeWanted(s.options) => \E i \in DOMAIN s.reader : s.reader[i].op = "merged"
    /\ \A k \in StageNumbers : k < s.stage => Holds(s.reader, Stages[k], s.options)
StreamsFit(ss) ==
    /\ IsList(ss) /\ Len(ss) \in Nat \ {0}
    /\ \A k \in 1 .. Len(ss) : StreamInv(ss[k])
    /\ \A k \in 1 .. Len(ss) - 1 : ss[k].stage = 7
Through == Len(streams) = 1 /\ Current.stage = 10
FilledAsAsked == "output.fillFile" \in Current.options => program.filled = <<Current.reader>>
ProgramInv ==
    /\ program = [phase |-> program.phase, status |-> program.status,
                  filled |-> program.filled, written |-> program.written]
    /\ StreamsFit(streams)
    /\ program.phase \in {"fill", "write"} => Through
    /\ program.phase = "write" => FilledAsAsked
    /\ program.phase = "done" /\ program.status = 0 /\ ~Given(Current.options, {"help", "version"}) =>
         /\ Through /\ FilledAsAsked
         /\ "output.file" \in Current.options => program.written = <<Current.reader>>

LEMMA ListIndices ==
  ASSUME NEW s, IsList(s)
  PROVE  Len(s) \in Nat /\ DOMAIN s = 1 .. Len(s)
<1>1. PICK S : s \in Seq(S)
  BY DEF IsList
<1> QED
  BY <1>1, LenProperties

Joined(r, a, b) ==
    /\ IsList(b) /\ Len(b) = Len(r) + Len(a)
    /\ \A i \in DOMAIN r : i \in DOMAIN b /\ b[i] = r[i]
    /\ \A i \in DOMAIN a : Len(r) + i \in DOMAIN b /\ b[Len(r) + i] = a[i]
    /\ \A i \in DOMAIN b : i \in DOMAIN r \/ \E j \in DOMAIN a : i = Len(r) + j
LEMMA JoinedLists ==
  ASSUME NEW r, NEW a, IsList(r), IsList(a)
  PROVE  Joined(r, a, r \o a)
<1>1. PICK S : r \in Seq(S)
  BY DEF IsList
<1>2. PICK T : a \in Seq(T)
  BY DEF IsList
<1> DEFINE U == S \union T
<1>3. r \in Seq(U) /\ a \in Seq(U)
  BY <1>1, <1>2, SeqMonotonic
<1>4. /\ r \o a \in Seq(U) /\ Len(r \o a) = Len(r) + Len(a)
      /\ \A i \in 1 .. Len(r) + Len(a) : (r \o a)[i] = IF i <= Len(r) THEN r[i] ELSE a[i - Len(r)]
  BY <1>3, ConcatProperties
<1>5. IsList(r \o a)
  BY <1>4 DEF IsList
<1>6. Len(r) \in Nat /\ DOMAIN r = 1 .. Len(r) /\ Len(a) \in Nat /\ DOMAIN a = 1 .. Len(a)
      /\ DOMAIN (r \o a) = 1 .. Len(r) + Len(a)
  BY <1>4, <1>5, ListIndices
<1>7. \A i \in 1 .. Len(r) : i \in 1 .. Len(r) + Len(a) /\ i <= Len(r)
  BY <1>6
<1>8. \A i \in 1 .. Len(a) : Len(r) + i \in 1 .. Len(r) + Len(a) /\ ~(Len(r) + i <= Len(r)) /\ Len(r) + i - Len(r) = i
  BY <1>6
<1>9. \A i \in 1 .. Len(r) + Len(a) : i \in 1 .. Len(r) \/ (i - Len(r) \in 1 .. Len(a) /\ i = Len(r) + (i - Len(r)))
  BY <1>6
<1>10. \A i \in DOMAIN a : (r \o a)[Len(r) + i] = a[i]
  <2> TAKE i \in DOMAIN a
  <2>1. (r \o a)[Len(r) + i] = IF Len(r) + i <= Len(r) THEN r[Len(r) + i] ELSE a[Len(r) + i - Len(r)]
    BY <1>4, <1>6, <1>8
  <2> QED
    BY <2>1, <1>6, <1>8
<1>11. \A i \in DOMAIN r : (r \o a)[i] = r[i]
  BY <1>4, <1>6, <1>7
<1>12. \A i \in DOMAIN (r \o a) : i \in DOMAIN r \/ \E j \in DOMAIN a : i = Len(r) + j
  <2> TAKE i \in DOMAIN (r \o a)
  <2>1. i \in DOMAIN r \/ (i - Len(r) \in DOMAIN a /\ i = Len(r) + (i - Len(r)))
    BY <1>6, <1>9
  <2> QED
    BY <2>1
<1>13. /\ \A i \in DOMAIN r : i \in DOMAIN (r \o a)
       /\ \A i \in DOMAIN a : Len(r) + i \in DOMAIN (r \o a)
  BY <1>6, <1>7, <1>8
<1> QED
  BY <1>4, <1>5, <1>10, <1>11, <1>12, <1>13, Zenon DEF Joined

\* Ops keeps the order of the list.
Op(name) == [op |-> name, inner |-> << >>]
KeepsOrder(o, a, order, n) ==
    /\ IsList(a) /\ \A i \in DOMAIN a : a[i].op \in o
    /\ \E e \in [DOMAIN a -> 1 .. n] :
         /\ \A i \in DOMAIN a : a[i].op = order[e[i]]
         /\ \A i, j \in DOMAIN a : i < j => e[i] < e[j]
LEMMA OneMoreKept ==
  ASSUME NEW o, NEW order, NEW n \in Nat, n # 0, NEW a, KeepsOrder(o, a, order, n - 1)
  PROVE  /\ KeepsOrder(o, a, order, n)
         /\ order[n] \in o => KeepsOrder(o, Append(a, Op(order[n])), order, n)
<1>1. PICK e \in [DOMAIN a -> 1 .. n - 1] :
         /\ \A i \in DOMAIN a : a[i].op = order[e[i]]
         /\ \A i, j \in DOMAIN a : i < j => e[i] < e[j]
  BY DEF KeepsOrder
<1>2. 1 .. n - 1 \subseteq 1 .. n /\ n \in 1 .. n
  OBVIOUS
<1>3. KeepsOrder(o, a, order, n)
  BY <1>1, <1>2 DEF KeepsOrder
<1>4. PICK S : a \in Seq(S)
  BY DEF KeepsOrder, IsList
<1> DEFINE T == S \union {Op(order[n])}
           b == Append(a, Op(order[n]))
<1>5. a \in Seq(T) /\ Op(order[n]) \in T
  BY <1>4, SeqMonotonic
<1> HIDE DEF T
<1>6. /\ b \in Seq(T) /\ Len(b) = Len(a) + 1 /\ \A i \in 1 .. Len(a) : b[i] = a[i]
      /\ b[Len(a) + 1] = Op(order[n])
  BY <1>5, AppendProperties
<1>7. IsList(b) /\ Len(a) \in Nat /\ DOMAIN a = 1 .. Len(a) /\ DOMAIN b = 1 .. Len(a) + 1
  BY <1>6, <1>4, ListIndices DEF IsList
<1> HIDE DEF b
<1> DEFINE g == [i \in DOMAIN b |-> IF i = Len(a) + 1 THEN n ELSE e[i]]
<1>8. \A i \in DOMAIN b : i # Len(a) + 1 => i \in DOMAIN a
  BY <1>7
<1>9. g \in [DOMAIN b -> 1 .. n]
  BY <1>1, <1>2, <1>8
<1>10. \A i \in DOMAIN b : b[i].op = order[g[i]]
  <2> TAKE i \in DOMAIN b
  <2>1. CASE i = Len(a) + 1
    BY <2>1, <1>6 DEF Op
  <2>2. CASE i # Len(a) + 1
    <3>1. i \in DOMAIN a /\ g[i] = e[i] /\ b[i] = a[i]
      BY <2>2, <1>6, <1>7, <1>8
    <3> QED
      BY <3>1, <1>1
  <2> QED
    BY <2>1, <2>2
<1>11. \A i, j \in DOMAIN b : i < j => g[i] < g[j]
  <2> SUFFICES ASSUME NEW i \in DOMAIN b, NEW j \in DOMAIN b, i < j PROVE g[i] < g[j]
    OBVIOUS
  <2>1. i # Len(a) + 1 /\ i \in DOMAIN a /\ g[i] = e[i] /\ e[i] \in 1 .. n - 1
    BY <1>1, <1>7
  <2>2. CASE j = Len(a) + 1
    BY <2>1, <2>2
  <2>3. CASE j # Len(a) + 1
    <3>1. j \in DOMAIN a /\ g[j] = e[j]
      BY <2>3, <1>8
    <3> QED
      BY <3>1, <2>1, <1>1
  <2> QED
    BY <2>2, <2>3
<1>12. order[n] \in o => KeepsOrder(o, b, order, n)
  <2> HAVE order[n] \in o
  <2>1. \A i \in DOMAIN b : b[i].op \in o
    <3> TAKE i \in DOMAIN b
    <3>1. CASE i = Len(a) + 1
      BY <3>1, <1>6 DEF Op
    <3>2. CASE i # Len(a) + 1
      <4>1. i \in DOMAIN a /\ b[i] = a[i]
        BY <3>2, <1>6, <1>7, <1>8
      <4> QED
        BY <4>1 DEF KeepsOrder
    <3> QED
      BY <3>1, <3>2
  <2> HIDE DEF g
  <2> QED
    BY <2>1, <1>7, <1>9, <1>10, <1>11 DEF KeepsOrder
<1> QED
  BY <1>3, <1>12 DEF b

LEMMA OpsInOrder ==
  ASSUME NEW o, NEW S, NEW order \in Seq(S)
  PROVE  KeepsOrder(o, Ops(o, order), order, Len(order))
<1> DEFINE n == Len(order)
           T == {Op(order[i]) : i \in 1 .. n}
           V == Seq(T)
           step == [i \in 1 .. n |-> [s \in V |-> IF order[i] \in o THEN Append(s, Op(order[i])) ELSE s]]
           loop(f) == [i \in 0 .. n |->
              IF i = 0 THEN << >>
              ELSE IF order[i] \in o THEN Append(f[i - 1], [op |-> order[i], inner |-> << >>])
              ELSE f[i - 1]]
           kept == CHOOSE f : f = loop(f)
<1>1. n \in Nat
  BY LenProperties
<1> HIDE DEF n
<1>2. << >> \in V
  BY EmptySeq
<1>3. step \in [1 .. n -> [V -> V]]
  <2> SUFFICES ASSUME NEW i \in 1 .. n, NEW s \in V
               PROVE  (IF order[i] \in o THEN Append(s, Op(order[i])) ELSE s) \in V
    BY DEF step
  <2>1. Op(order[i]) \in T
    OBVIOUS
  <2> HIDE DEF T
  <2>2. Append(s, Op(order[i])) \in Seq(T)
    BY <2>1, AppendProperties
  <2> QED
    BY <2>2
<1> HIDE DEF V
<1>4. PICK f \in [0 .. n -> V] : Looped(f, n, << >>, step)
  <2> HIDE DEF step
  <2> QED
    BY <1>1, <1>2, <1>3, Looping
<1>5. f = loop(f)
  <2>1. \A i \in 0 .. n : i # 0 => i \in 1 .. n /\ i - 1 \in 0 .. n
    BY <1>1
  <2>2. \A i \in 0 .. n : i # 0 =>
          step[i][f[i - 1]] = IF order[i] \in o THEN Append(f[i - 1], [op |-> order[i], inner |-> << >>])
                              ELSE f[i - 1]
    <3> TAKE i \in 0 .. n
    <3> HAVE i # 0
    <3>1. i \in 1 .. n /\ f[i - 1] \in V
      BY <2>1
    <3> QED
      BY <3>1 DEF Op
  <2>3. f = [k \in 0 .. n |-> IF k = 0 THEN << >> ELSE step[k][f[k - 1]]]
    BY <1>4 DEF Looped
  <2>4. \A i \in 0 .. n : f[i] = loop(f)[i]
    <3> TAKE i \in 0 .. n
    <3>1. f[i] = IF i = 0 THEN << >> ELSE step[i][f[i - 1]]
      BY <2>3
    <3> HIDE DEF step
    <3> QED
      BY <3>1, <2>2
  <2> HIDE DEF step
  <2> QED
    BY <2>4
<1>6. kept = loop(kept)
  <2> HIDE DEF loop
  <2> QED
    BY <1>5
<1> HIDE DEF kept
<1> DEFINE A == [i \in 0 .. n |-> {s \in {kept[k] : k \in 0 .. n} : KeepsOrder(o, s, order, i)}]
<1>7. \A i \in 0 .. n : kept[i] \in A[i]
  <2>1. kept[0] \in A[0]
    <3>1. 0 \in 0 .. n /\ kept[0] = << >>
      BY <1>1, <1>6
    <3>2. << >> \in Seq({}) /\ DOMAIN << >> = {}
      OBVIOUS
    <3>3. IsList(<< >>)
      BY <3>2 DEF IsList
    <3>4. KeepsOrder(o, << >>, order, 0)
      <4>1. << >> \in [DOMAIN << >> -> 1 .. 0]
        BY <3>2
      <4> QED
        BY <3>2, <3>3, <4>1 DEF KeepsOrder
    <3> QED
      BY <3>1, <3>4
  <2>2. ASSUME NEW i \in 1 .. n, kept[i - 1] \in A[i - 1] PROVE kept[i] \in A[i]
    <3>1. i \in Nat /\ i # 0 /\ i \in 0 .. n /\ i - 1 \in 0 .. n
      BY <1>1
    <3>2. KeepsOrder(o, kept[i - 1], order, i - 1)
      BY <2>2, <3>1
    <3>3. KeepsOrder(o, kept[i - 1], order, i) /\ (order[i] \in o => KeepsOrder(o, Append(kept[i - 1], Op(order[i])), order, i))
      BY <3>1, <3>2, OneMoreKept
    <3>4. kept[i] = IF order[i] \in o THEN Append(kept[i - 1], Op(order[i])) ELSE kept[i - 1]
      BY <1>6, <3>1 DEF Op
    <3>5. KeepsOrder(o, kept[i], order, i)
      BY <3>3, <3>4
    <3> QED
      BY <3>1, <3>5
  <2> HIDE DEF A
  <2> QED
    BY <1>1, <2>1, <2>2, Induction
<1>8. n \in 0 .. n /\ KeepsOrder(o, kept[n], order, n)
  BY <1>1, <1>7
<1>9. Ops(o, order) = kept[n]
  BY DEF Ops, kept, n
<1> QED
  BY <1>8, <1>9 DEF n

\* What a stage adds: the operations asked for, of which no other stage's are in the order.
Alone(a, k) == \A i \in DOMAIN a, m \in StageNumbers : a[i].op \in AddedBy(m) => m = k
Fits(o, order, k) ==
    LET a == Ops(o, order)
    IN  IsList(a) /\ Alone(a, k) /\ \A i \in DOMAIN a : a[i].op \in o

LEMMA AloneByNames ==
  ASSUME NEW o, NEW S, NEW order \in Seq(S), NEW k,
         \A m \in StageNumbers : m # k => S \intersect AddedBy(m) = {}
  PROVE  /\ Fits(o, order, k)
         /\ \A i \in DOMAIN Ops(o, order) : Ops(o, order)[i].op \in S
<1> DEFINE a == Ops(o, order)
<1>1. KeepsOrder(o, a, order, Len(order)) /\ Len(order) \in Nat /\ \A n \in 1 .. Len(order) : order[n] \in S
  BY OpsInOrder, LenProperties, ElementOfSeq
<1> HIDE DEF a
<1>2. IsList(a) /\ \A i \in DOMAIN a : a[i].op \in S /\ a[i].op \in o
  BY <1>1 DEF KeepsOrder
<1> QED
  BY <1>2 DEF Alone, Fits, a

LEMMA ProcessAlone == \A o : Fits(o, ProcessOps(o), 1)
<1> SUFFICES ASSUME NEW o PROVE Fits(o, ProcessOps(o), 1)
  OBVIOUS
<1> DEFINE S == {"process.deaccumulateVariable", "process.accumulateVariable", "process.rotateVector.x",
                 "process.rotateVector.y", "process.rotateVector.angle", "process.rotateVector.all",
                 "process.addVerticalVelocity", "process.addGeopotentialHeight"}
           sums == <<"process.deaccumulateVariable", "process.accumulateVariable">>
           pairs == <<"process.rotateVector.x", "process.rotateVector.y", "process.rotateVector.angle">>
           all == <<"process.rotateVector.all", "process.rotateVector.angle">>
           more == <<"process.addVerticalVelocity", "process.addGeopotentialHeight">>
<1>1. sums \in Seq(S) /\ pairs \in Seq(S) /\ all \in Seq(S) /\ more \in Seq(S) /\ << >> \in Seq(S)
  OBVIOUS
<1>2. \A i \in 1 .. 9 : S \intersect AddedBy(i) = {}
  BY DEF AddedBy, Axis, BoundingBox
<1>3. \/ ProcessOps(o) = << >>
      \/ ProcessOps(o) = (sums \o << >>) \o more
      \/ ProcessOps(o) = (sums \o pairs) \o more
      \/ ProcessOps(o) = (sums \o all) \o more
  BY DEF ProcessOps
<1> HIDE DEF S, sums, pairs, all, more
<1>4. ProcessOps(o) \in Seq(S)
  <2>1. sums \o << >> \in Seq(S) /\ sums \o pairs \in Seq(S) /\ sums \o all \in Seq(S)
    BY <1>1, ConcatProperties
  <2>2. \A s \in Seq(S) : s \o more \in Seq(S)
    BY <1>1, ConcatProperties
  <2> QED
    BY <1>1, <1>3, <2>1, <2>2
<1> QED
  BY <1>2, <1>4, AloneByNames DEF StageNumbers

LEMMA VerticalAlone == \A o : Fits(o, VerticalOps(o), 6)
<1> SUFFICES ASSUME NEW o PROVE Fits(o, VerticalOps(o), 6)
  OBVIOUS
<1> DEFINE S == {"verticalInterpolate.config", "verticalInterpolate.dataConversion",
                 "verticalInterpolate.toAxis", "verticalInterpolate.templateVar", "verticalInterpolate.level1"}
           first == <<"verticalInterpolate.config", "verticalInterpolate.dataConversion">>
           axis == <<"verticalInterpolate.toAxis">>
           template == <<"verticalInterpolate.templateVar">>
           level == <<"verticalInterpolate.level1">>
<1>1. first \in Seq(S) /\ axis \in Seq(S) /\ template \in Seq(S) /\ level \in Seq(S) /\ << >> \in Seq(S)
  OBVIOUS
<1>2. \A i \in 1 .. 9 : i # 6 => S \intersect AddedBy(i) = {}
  BY DEF AddedBy, Axis, BoundingBox
<1>3. \/ VerticalOps(o) = first \o << >>
      \/ VerticalOps(o) = first \o axis
      \/ VerticalOps(o) = first \o template
      \/ VerticalOps(o) = first \o level
  BY DEF VerticalOps
<1> HIDE DEF S, first, axis, template, level
<1>4. VerticalOps(o) \in Seq(S)
  BY <1>1, <1>3, ConcatProperties
<1> QED
  BY <1>2, <1>4, AloneByNames DEF StageNumbers

LEMMA OtherStagesAlone ==
  ASSUME NEW o
  PROVE  /\ Fits(o, QualityOps("", o), 2)
         /\ Fits(o, <<"timeInterpolate.timeSpec">>, 4)
         /\ Fits(o, InterpolateOps(o), 5)
         /\ Fits(o, MergeOps(o), 7)
         /\ Fits(o, QualityOps("2", o), 8)
         /\ Fits(o, <<"ncml.config">>, 9)
<1> DEFINE Quality == {"qualityExtract.config", "qualityExtract2.config"}
           Time == {"timeInterpolate.timeSpec"}
           Grid == {"interpolate.projString", "interpolate.template", "interpolate.vcrossNames",
                    "interpolate.latitudeValues"}
           Merge == {"merge.inner.file", "merge.smoothing", "merge.keepOuterVariables", "merge.projString"}
           Ncml == {"ncml.config"}
<1>1. QualityOps("", o) \in Seq(Quality) /\ QualityOps("2", o) \in Seq(Quality)
  BY DEF QualityOps
<1>2. InterpolateOps(o) \in Seq(Grid)
  <2>1. InterpolateOps(o) \in {<<"interpolate.projString">>, <<"interpolate.template">>,
                               <<"interpolate.vcrossNames">>, <<"interpolate.latitudeValues">>}
    BY DEF InterpolateOps
  <2>2. /\ <<"interpolate.projString">> \in Seq(Grid) /\ <<"interpolate.template">> \in Seq(Grid)
        /\ <<"interpolate.vcrossNames">> \in Seq(Grid) /\ <<"interpolate.latitudeValues">> \in Seq(Grid)
    OBVIOUS
  <2> HIDE DEF Grid
  <2> QED
    BY <2>1, <2>2
<1>3. MergeOps(o) \in Seq(Merge)
  <2> DEFINE list == <<"merge.inner.file", "merge.smoothing", "merge.keepOuterVariables", "merge.projString">>
  <2>1. MergeOps(o) \in {<< >>, list}
    BY DEF MergeOps
  <2>2. list \in Seq(Merge) /\ << >> \in Seq(Merge)
    OBVIOUS
  <2> QED
    BY <2>1, <2>2
<1>4. <<"timeInterpolate.timeSpec">> \in Seq(Time) /\ <<"ncml.config">> \in Seq(Ncml)
  OBVIOUS
<1>5. \A m \in StageNumbers :
        /\ Quality \intersect AddedBy(m) = {} /\ Time \intersect AddedBy(m) = {}
        /\ Merge \intersect AddedBy(m) = {} /\ Ncml \intersect AddedBy(m) = {}
        /\ m # 5 => Grid \intersect AddedBy(m) = {}
  BY DEF AddedBy, Axis, BoundingBox
<1> HIDE DEF Quality, Time, Grid, Merge, Ncml
<1>6. \A k : /\ Fits(o, QualityOps("", o), k)
             /\ Fits(o, QualityOps("2", o), k)
  BY <1>1, <1>5, AloneByNames
<1>7. \A k : /\ Fits(o, MergeOps(o), k)
             /\ Fits(o, <<"ncml.config">>, k)
             /\ Fits(o, <<"timeInterpolate.timeSpec">>, k)
  BY <1>3, <1>4, <1>5, AloneByNames
<1>8. Fits(o, InterpolateOps(o), 5)
  BY <1>2, <1>5, AloneByNames
<1> QED
  BY <1>6, <1>7, <1>8

\* The axes are cut first.
LEMMA ExtractInOrder ==
  ASSUME NEW o
  PROVE  /\ Fits(o, ExtractOps(o), 3)
         /\ Ordered(Ops(o, ExtractOps(o)))
<1> DEFINE order == ExtractOps(o)
           a == Ops(o, order)
           S == {"extract.reduceDimension.name", "extract.pickDimension.name", "extract.reduceTime.start",
                 "extract.reduceTime.end", "extract.reduceVerticalAxis.unit",
                 "extract.reduceToBoundingBox.south", "extract.selectVariables", "extract.removeVariable"}
<1>1. order \in Seq(S)
  <2> DEFINE list == <<"extract.reduceDimension.name", "extract.pickDimension.name", "extract.reduceTime.start",
         "extract.reduceTime.end", "extract.reduceVerticalAxis.unit",
         "extract.reduceToBoundingBox.south", "extract.selectVariables", "extract.removeVariable">>
  <2>1. order \in {<< >>, list}
    BY DEF ExtractOps
  <2>2. list \in Seq(S) /\ << >> \in Seq(S)
    OBVIOUS
  <2> QED
    BY <2>1, <2>2
<1>2. \A m \in StageNumbers : m # 3 => S \intersect AddedBy(m) = {}
  BY DEF AddedBy, Axis, BoundingBox
<1>3. "interpolate.projString" \notin S /\ "verticalInterpolate.level1" \notin S
  OBVIOUS
<1>4. \A i, j \in 1 .. Len(order) :
        order[i] \in Axis /\ order[j] \in {"extract.selectVariables", "extract.removeVariable"} => i < j
  <2>1. CASE ~ExtractWanted(o)
    BY <2>1 DEF ExtractOps
  <2>2. CASE ExtractWanted(o)
    <3> DEFINE list == <<"extract.reduceDimension.name", "extract.pickDimension.name", "extract.reduceTime.start",
         "extract.reduceTime.end", "extract.reduceVerticalAxis.unit",
         "extract.reduceToBoundingBox.south", "extract.selectVariables", "extract.removeVariable">>
    <3>1. order = list
      BY <2>2 DEF ExtractOps
    <3>2. Len(list) = 8
      OBVIOUS
    <3>3. \A i \in 1 .. 8 : list[i] \in Axis => i < 7
      BY DEF Axis, BoundingBox
    <3>4. \A j \in 1 .. 8 : list[j] \in {"extract.selectVariables", "extract.removeVariable"} => j >= 7
      OBVIOUS
    <3> HIDE DEF list, order
    <3>5. \A i, j \in 1 .. 8 : i < 7 /\ j >= 7 => i < j
      OBVIOUS
    <3> QED
      BY <3>1, <3>2, <3>3, <3>4, <3>5, Zenon
  <2> QED
    BY <2>1, <2>2
<1> HIDE DEF S, order
<1>5. Fits(o, order, 3) /\ \A i \in DOMAIN a : a[i].op \in S
  BY <1>1, <1>2, AloneByNames
<1>9. IsList(a)
  BY <1>5 DEF Fits
<1>6. PICK e \in [DOMAIN a -> 1 .. Len(order)] :
         /\ \A i \in DOMAIN a : a[i].op = order[e[i]]
         /\ \A i, j \in DOMAIN a : i < j => e[i] < e[j]
  BY <1>1, OpsInOrder DEF KeepsOrder
<1> HIDE DEF a
<1>7. \A i, j \in DOMAIN a :
        a[i].op \in Axis /\ a[j].op \in {"extract.selectVariables", "extract.removeVariable"} => i < j
  <2> SUFFICES ASSUME NEW i \in DOMAIN a, NEW j \in DOMAIN a, a[i].op \in Axis,
                      a[j].op \in {"extract.selectVariables", "extract.removeVariable"}
               PROVE  i < j
    OBVIOUS
  <2>1. order[e[i]] \in Axis /\ order[e[j]] \in {"extract.selectVariables", "extract.removeVariable"}
    BY <1>6, Zenon
  <2>2. e[i] \in 1 .. Len(order) /\ e[j] \in 1 .. Len(order)
    BY <1>6
  <2>3. e[i] < e[j]
    BY <1>4, <2>1, <2>2, Zenon
  <2>4. Len(order) \in Nat /\ e[i] \in Int /\ e[j] \in Int
    BY <1>1, <2>2, LenProperties
  <2>5. DOMAIN a = 1 .. Len(a) /\ Len(a) \in Nat
    BY <1>9, ListIndices
  <2>6. i \in Int /\ j \in Int
    BY <2>5
  <2>7. ~(j < i) /\ i # j
    BY <1>6, <2>3, <2>4
  <2> QED
    BY <2>6, <2>7
<1>8. Ordered(a)
  BY <1>3, <1>5, <1>7, Zenon DEF Ordered, Before
<1> QED
  BY <1>5, <1>8 DEF a, order

\* What a stage adds is of it alone, of the options, and in order.
LEMMA AddedFits ==
  ASSUME NEW k \in StageNumbers, NEW o
  PROVE  LET a == Added(Stages[k], o)
         IN  IsList(a) /\ Alone(a, k) /\ Ordered(a) /\ \A i \in DOMAIN a : a[i].op \in o
<1> DEFINE a == Added(Stages[k], o)
<1>1. k \in 1 .. 9
  BY DEF StageNumbers
<1>2. CASE k = 3
  <2>1. a = Ops(o, ExtractOps(o))
    BY <1>2 DEF Added, Stages
  <2> HIDE DEF a
  <2>2. Fits(o, ExtractOps(o), 3) /\ Ordered(Ops(o, ExtractOps(o)))
    BY ExtractInOrder
  <2>3. IsList(a) /\ Alone(a, 3) /\ Ordered(a) /\ \A i \in DOMAIN a : a[i].op \in o
    BY <2>1, <2>2 DEF Fits
  <2> QED
    BY <2>3, <1>2 DEF a
<1>3. CASE k # 3
  <2>1. \/ k = 1 /\ a = Ops(o, ProcessOps(o))
        \/ k = 2 /\ a = Ops(o, QualityOps("", o))
        \/ k = 4 /\ a = Ops(o, <<"timeInterpolate.timeSpec">>)
        \/ k = 5 /\ a = Ops(o, InterpolateOps(o))
        \/ k = 6 /\ a = Ops(o, VerticalOps(o))
        \/ k = 7 /\ a = Ops(o, MergeOps(o))
        \/ k = 8 /\ a = Ops(o, QualityOps("2", o))
        \/ k = 9 /\ a = Ops(o, <<"ncml.config">>)
    <3>1. \/ k = 1 /\ Stages[k] = "process"
          \/ k = 2 /\ Stages[k] = "qualityExtract"
          \/ k = 4 /\ Stages[k] = "timeInterpolate"
          \/ k = 5 /\ Stages[k] = "interpolate"
          \/ k = 6 /\ Stages[k] = "verticalInterpolate"
          \/ k = 7 /\ Stages[k] = "merge"
          \/ k = 8 /\ Stages[k] = "qualityExtract2"
          \/ k = 9 /\ Stages[k] = "ncml"
      BY <1>1, <1>3 DEF Stages
    <3> QED
      BY <3>1 DEF Added
  <2> HIDE DEF a
  <2>2. IsList(a) /\ Alone(a, k) /\ \A i \in DOMAIN a : a[i].op \in o
    BY <2>1, ProcessAlone, VerticalAlone, OtherStagesAlone, Zenon DEF Fits
  <2>3. Ordered(a)
    <3>1. \A cut \in Axis : cut \in AddedBy(3)
      BY DEF AddedBy
    <3>2. /\ "extract.selectVariables" \in AddedBy(3) /\ "extract.removeVariable" \in AddedBy(3)
          /\ "interpolate.projString" \in AddedBy(5) /\ "verticalInterpolate.level1" \in AddedBy(6)
      BY DEF AddedBy
    <3>3. 3 \in StageNumbers /\ 5 \in StageNumbers /\ 6 \in StageNumbers /\ 3 # 5 /\ 5 # 6
      BY DEF StageNumbers
    <3>4. \A x, y : \A m, n \in StageNumbers :
            x \in AddedBy(m) /\ y \in AddedBy(n) /\ (m # k \/ n # k) => Before(x, y, a)
      BY <2>2 DEF Alone, Before
    <3> QED
      BY <3>1, <3>2, <3>3, <3>4, <1>3, Zenon DEF Ordered
  <2> QED
    BY <2>2, <2>3 DEF a
<1> QED
  BY <1>2, <1>3

\* What comes later in the order may come later in the reader.
LEMMA JoinedInOrder ==
  ASSUME NEW r, NEW a, NEW last \in Nat, NEW until \in Nat, last <= until,
         IsList(r), IsList(a), AddedUntil(r, last), Ordered(r), Ordered(a),
         \A i \in DOMAIN a, m \in StageNumbers : a[i].op \in AddedBy(m) => last < m /\ m <= until
  PROVE  IsList(r \o a) /\ AddedUntil(r \o a, until) /\ Ordered(r \o a)
<1> DEFINE b == r \o a
<1>1. /\ IsList(b)
      /\ \A i \in DOMAIN b : \/ i \in DOMAIN r /\ b[i] = r[i]
                             \/ \E j \in DOMAIN a : i = Len(r) + j /\ b[i] = a[j]
  <2>1. Joined(r, a, b)
    BY JoinedLists
  <2> HIDE DEF b
  <2> QED
    BY <2>1 DEF Joined
<1> HIDE DEF b
<1>2. Len(r) \in Nat /\ DOMAIN r = 1 .. Len(r) /\ Len(a) \in Nat /\ DOMAIN a = 1 .. Len(a)
  BY ListIndices
<1>3. AddedUntil(b, until)
  <2> SUFFICES ASSUME NEW i \in DOMAIN b, NEW m \in StageNumbers, b[i].op \in AddedBy(m) PROVE m <= until
    BY DEF AddedUntil
  <2>1. CASE i \in DOMAIN r /\ b[i] = r[i]
    <3>1. m <= last
      BY <2>1 DEF AddedUntil
    <3> QED
      BY <3>1 DEF StageNumbers
  <2>2. CASE \E j \in DOMAIN a : i = Len(r) + j /\ b[i] = a[j]
    BY <2>2
  <2> QED
    BY <1>1, <2>1, <2>2
<1>4. ASSUME NEW x, NEW y, NEW m \in StageNumbers, NEW n \in StageNumbers, m <= n,
             x \in AddedBy(m), y \in AddedBy(n), Before(x, y, r), Before(x, y, a)
      PROVE  Before(x, y, b)
  <2> SUFFICES ASSUME NEW i \in DOMAIN b, NEW j \in DOMAIN b, b[i].op = x, b[j].op = y PROVE i < j
    BY DEF Before
  <2>1. CASE i \in DOMAIN r /\ b[i] = r[i] /\ j \in DOMAIN r /\ b[j] = r[j]
    BY <2>1, <1>4 DEF Before
  <2>2. CASE i \in DOMAIN r /\ b[i] = r[i] /\ \E q \in DOMAIN a : j = Len(r) + q /\ b[j] = a[q]
    BY <2>2, <1>2
  <2>3. CASE j \in DOMAIN r /\ b[j] = r[j] /\ \E q \in DOMAIN a : i = Len(r) + q /\ b[i] = a[q]
    <3>1. n <= last
      BY <2>3, <1>4 DEF AddedUntil
    <3>2. last < m
      BY <2>3, <1>4
    <3> QED
      BY <3>1, <3>2, <1>4 DEF StageNumbers
  <2>4. CASE /\ \E q \in DOMAIN a : i = Len(r) + q /\ b[i] = a[q]
             /\ \E q \in DOMAIN a : j = Len(r) + q /\ b[j] = a[q]
    <3>1. PICK q \in DOMAIN a : i = Len(r) + q /\ b[i] = a[q]
      BY <2>4
    <3>2. PICK p \in DOMAIN a : j = Len(r) + p /\ b[j] = a[p]
      BY <2>4
    <3>3. q < p
      BY <3>1, <3>2, <1>4 DEF Before
    <3> QED
      BY <3>1, <3>2, <3>3, <1>2
  <2> QED
    BY <1>1, <2>1, <2>2, <2>3, <2>4
<1>5. Ordered(b)
  <2>1. \A cut \in Axis : cut \in AddedBy(3)
    BY DEF AddedBy
  <2>2. /\ "extract.selectVariables" \in AddedBy(3) /\ "extract.removeVariable" \in AddedBy(3)
        /\ "interpolate.projString" \in AddedBy(5) /\ "verticalInterpolate.level1" \in AddedBy(6)
    BY DEF AddedBy
  <2>3. 3 \in StageNumbers /\ 5 \in StageNumbers /\ 6 \in StageNumbers /\ 3 <= 3 /\ 3 <= 5 /\ 5 <= 6
    BY DEF StageNumbers
  <2> QED
    BY <1>4, <2>1, <2>2, <2>3, Zenon DEF Ordered
<1> QED
  BY <1>1, <1>3, <1>5 DEF b

\* A stream with another stage and reader.
LEMMA StreamFields ==
  ASSUME NEW s, s = [options |-> s.options, stage |-> s.stage, reader |-> s.reader], NEW k, NEW r
  PROVE  [s EXCEPT !.stage = k, !.reader = r] = [options |-> s.options, stage |-> k, reader |-> r]
<1> DEFINE u == [s EXCEPT !.stage = k]
<1>1. u = [options |-> s.options, stage |-> k, reader |-> s.reader]
  OBVIOUS
<1>2. [u EXCEPT !.reader = r] = [options |-> u.options, stage |-> u.stage, reader |-> r]
  <2> HIDE DEF u
  <2> QED
    BY <1>1
<1> QED
  BY <1>1, <1>2

\* A stream the reader of which a stage has gone over.
LEMMA StreamGoesOn ==
  ASSUME NEW s, StreamInv(s), s.stage \in StageNumbers,
         ~(Stages[s.stage] = "merge" /\ MergeWanted(s.options))
  PROVE  StreamInv([s EXCEPT !.stage = @ + 1, !.reader = s.reader \o Added(Stages[s.stage], s.options)])
<1> DEFINE k == s.stage
           a == Added(Stages[k], s.options)
           r == s.reader \o a
           t == [s EXCEPT !.stage = @ + 1, !.reader = r]
<1>1. /\ s = [options |-> s.options, stage |-> k, reader |-> s.reader]
      /\ k \in 1 .. 9 /\ IsList(s.reader) /\ AddedUntil(s.reader, k - 1) /\ Ordered(s.reader)
  BY DEF StreamInv, StageNumbers
<1>2. IsList(a) /\ Alone(a, k) /\ Ordered(a)
  BY AddedFits
<1>3. /\ t = [options |-> s.options, stage |-> k + 1, reader |-> r]
      /\ t.options = s.options /\ t.stage = k + 1 /\ t.reader = r
  <2> HIDE DEF r
  <2>1. [s EXCEPT !.stage = k + 1, !.reader = r] = [options |-> s.options, stage |-> k + 1, reader |-> r]
    BY <1>1, StreamFields
  <2>2. t = [options |-> s.options, stage |-> k + 1, reader |-> r]
    BY <2>1
  <2> HIDE DEF t
  <2> QED
    BY <2>2
<1> HIDE DEF a
<1>4. IsList(r) /\ AddedUntil(r, k) /\ Ordered(r)
  <2>1. \A i \in DOMAIN a, m \in StageNumbers : a[i].op \in AddedBy(m) => k - 1 < m /\ m <= k
    BY <1>1, <1>2 DEF Alone, StageNumbers
  <2>2. k - 1 \in Nat /\ k \in Nat /\ k - 1 <= k
    BY <1>1
  <2> QED
    BY <1>1, <1>2, <2>1, <2>2, JoinedInOrder
<1>5. /\ \A i \in DOMAIN s.reader : i \in DOMAIN r /\ r[i] = s.reader[i]
      /\ \A i \in DOMAIN a : Len(s.reader) + i \in DOMAIN r /\ r[Len(s.reader) + i] = a[i]
  <2>1. Joined(s.reader, a, r)
    BY <1>1, <1>2, JoinedLists
  <2> HIDE DEF r
  <2> QED
    BY <2>1 DEF Joined
<1> HIDE DEF r
<1>6. k + 1 > 7 /\ MergeWanted(s.options) => \E i \in DOMAIN r : r[i].op = "merged"
  <2> SUFFICES ASSUME k + 1 > 7, MergeWanted(s.options) PROVE \E i \in DOMAIN r : r[i].op = "merged"
    OBVIOUS
  <2>1. Stages[7] = "merge"
    BY DEF Stages
  <2>2. k # 7
    BY <2>1
  <2>3. k > 7
    BY <2>2, <1>1
  <2>4. \E i \in DOMAIN s.reader : s.reader[i].op = "merged"
    BY <2>3 DEF StreamInv
  <2> QED
    BY <2>4, <1>5
<1>7. \A m \in StageNumbers : m < k + 1 => Holds(r, Stages[m], s.options)
  <2> SUFFICES ASSUME NEW m \in StageNumbers, m < k + 1 PROVE Holds(r, Stages[m], s.options)
    OBVIOUS
  <2>1. CASE m = k
    BY <2>1, <1>5 DEF Holds, a
  <2>2. CASE m # k
    <3>1. m < k
      BY <2>2, <1>1 DEF StageNumbers
    <3>2. Holds(s.reader, Stages[m], s.options)
      BY <3>1 DEF StreamInv
    <3> QED
      BY <3>2, <1>5, Zenon DEF Holds
  <2> QED
    BY <2>1, <2>2
<1> HIDE DEF t
<1>8. k + 1 \in 1 .. 10 /\ (k + 1) - 1 = k
  BY <1>1
<1>9. StreamInv(t)
  BY <1>3, <1>4, <1>6, <1>7, <1>8 DEF StreamInv
<1> QED
  BY <1>9 DEF t, r, a

\* A stream an inner one has been merged into.
LEMMA StreamIsMerged ==
  ASSUME NEW s, NEW inner, StreamInv(s), s.stage = 7
  PROVE  StreamInv([s EXCEPT !.stage = @ + 1,
                             !.reader = @ \o Added("merge", s.options) \o <<[op |-> "merged", inner |-> inner]>>])
<1> DEFINE a == Added("merge", s.options)
           m == <<[op |-> "merged", inner |-> inner]>>
           r == s.reader \o a
           w == r \o m
           t == [s EXCEPT !.stage = @ + 1, !.reader = @ \o a \o m]
<1>1. /\ s = [options |-> s.options, stage |-> 7, reader |-> s.reader]
      /\ IsList(s.reader) /\ AddedUntil(s.reader, 6) /\ Ordered(s.reader)
  BY DEF StreamInv
<1>2. IsList(a) /\ Alone(a, 7) /\ Ordered(a)
  <2>1. Stages[7] = "merge" /\ 7 \in StageNumbers
    BY DEF Stages, StageNumbers
  <2> QED
    BY <2>1, AddedFits
<1>3. /\ t = [options |-> s.options, stage |-> 8, reader |-> w]
      /\ t.options = s.options /\ t.stage = 8 /\ t.reader = w
  <2>1. s.stage = 7 /\ s.stage + 1 = 8
    OBVIOUS
  <2>2. t = [s EXCEPT !.stage = 8, !.reader = w]
    BY <2>1
  <2> HIDE DEF w
  <2>3. [s EXCEPT !.stage = 8, !.reader = w] = [options |-> s.options, stage |-> 8, reader |-> w]
    <3> DEFINE u == [s EXCEPT !.stage = 8]
    <3>1. u = [options |-> s.options, stage |-> 8, reader |-> s.reader]
      BY <1>1
    <3>2. [u EXCEPT !.reader = w] = [options |-> u.options, stage |-> u.stage, reader |-> w]
      <4> HIDE DEF u
      <4> QED
        BY <3>1
    <3> QED
      BY <3>1, <3>2
  <2>4. t = [options |-> s.options, stage |-> 8, reader |-> w]
    BY <2>2, <2>3
  <2> HIDE DEF t
  <2> QED
    BY <2>4
<1>4. /\ m \in Seq({[op |-> "merged", inner |-> inner]}) /\ DOMAIN m = {1}
      /\ m[1] = [op |-> "merged", inner |-> inner]
  OBVIOUS
<1>5. IsList(m) /\ Ordered(m) /\ m[1].op = "merged" /\ \A n \in StageNumbers, i \in DOMAIN m : m[i].op \notin AddedBy(n)
  <2>1. IsList(m) /\ m[1].op = "merged" /\ \A i \in DOMAIN m : m[i].op = "merged"
    <3>1. IsList(m)
      BY <1>4, Zenon DEF IsList
    <3> HIDE DEF m
    <3> QED
      BY <3>1, <1>4
  <2>2. \A n \in StageNumbers : "merged" \notin AddedBy(n)
    BY DEF AddedBy, Axis, BoundingBox
  <2>3. /\ "merged" \notin Axis /\ "merged" # "extract.selectVariables"
        /\ "merged" # "extract.removeVariable" /\ "merged" # "interpolate.projString"
    BY DEF Axis, BoundingBox
  <2>4. \A x, y : x # "merged" => Before(x, y, m)
    BY <2>1 DEF Before
  <2>5. Ordered(m)
    BY <2>3, <2>4, Zenon DEF Ordered
  <2> QED
    BY <2>1, <2>2, <2>5
<1> HIDE DEF a, m
<1>6. IsList(r) /\ AddedUntil(r, 7) /\ Ordered(r)
  <2>1. \A i \in DOMAIN a, n \in StageNumbers : a[i].op \in AddedBy(n) => 6 < n /\ n <= 7
    BY <1>2 DEF Alone, StageNumbers
  <2> QED
    BY <1>1, <1>2, <2>1, JoinedInOrder
<1>7. IsList(w) /\ AddedUntil(w, 7) /\ Ordered(w)
  <2> HIDE DEF r
  <2> QED
    BY <1>5, <1>6, JoinedInOrder
<1>8. /\ \A i \in DOMAIN s.reader : i \in DOMAIN w /\ w[i] = s.reader[i]
      /\ \A i \in DOMAIN a : Len(s.reader) + i \in DOMAIN w /\ w[Len(s.reader) + i] = a[i]
      /\ \E i \in DOMAIN w : w[i].op = "merged"
  <2>1. /\ \A i \in DOMAIN s.reader : i \in DOMAIN r /\ r[i] = s.reader[i]
        /\ \A i \in DOMAIN a : Len(s.reader) + i \in DOMAIN r /\ r[Len(s.reader) + i] = a[i]
    <3>1. Joined(s.reader, a, r)
      BY <1>1, <1>2, JoinedLists
    <3> HIDE DEF r
    <3> QED
      BY <3>1 DEF Joined
  <2> HIDE DEF r
  <2>2. /\ \A i \in DOMAIN r : i \in DOMAIN w /\ w[i] = r[i]
        /\ \A i \in DOMAIN m : Len(r) + i \in DOMAIN w /\ w[Len(r) + i] = m[i]
    <3>1. Joined(r, m, w)
      BY <1>5, <1>6, JoinedLists
    <3> HIDE DEF w
    <3> QED
      BY <3>1 DEF Joined
  <2> HIDE DEF w
  <2>3. 1 \in DOMAIN m
    BY <1>4
  <2>4. \E i \in DOMAIN w : w[i].op = "merged"
    BY <1>5, <2>2, <2>3
  <2>5. \A i \in DOMAIN s.reader : i \in DOMAIN w /\ w[i] = s.reader[i]
    BY <2>1, <2>2
  <2>6. \A i \in DOMAIN a : Len(s.reader) + i \in DOMAIN w /\ w[Len(s.reader) + i] = a[i]
    BY <2>1, <2>2
  <2> QED
    BY <2>4, <2>5, <2>6
<1> HIDE DEF w
<1>9. \A n \in StageNumbers : n < 8 => Holds(w, Stages[n], s.options)
  <2> SUFFICES ASSUME NEW n \in StageNumbers, n < 8 PROVE Holds(w, Stages[n], s.options)
    OBVIOUS
  <2>1. CASE n = 7
    <3>1. Added(Stages[n], s.options) = a
      BY <2>1 DEF Stages, a
    <3> QED
      BY <3>1, <1>8, Zenon DEF Holds
  <2>2. CASE n # 7
    <3>1. n < 7
      BY <2>2 DEF StageNumbers
    <3>2. Holds(s.reader, Stages[n], s.options)
      BY <3>1 DEF StreamInv
    <3> QED
      BY <3>2, <1>8 DEF Holds
  <2> QED
    BY <2>1, <2>2
<1> HIDE DEF t
<1>10. 8 \in 1 .. 10 /\ 8 - 1 = 7
  OBVIOUS
<1>11. StreamInv(t)
  BY <1>3, <1>7, <1>8, <1>9, <1>10 DEF StreamInv
<1> QED
  BY <1>11 DEF t, a, m

\* A stream that starts, and the empty inner stream of a merge without a configuration.
LEMMA StreamsStart ==
  /\ \A options : StreamInv(Stream(options))
  /\ StreamInv([Stream({}) EXCEPT !.stage = Len(Stages) + 1])
<1>1. << >> \in Seq({}) /\ DOMAIN << >> = {}
  OBVIOUS
<1>2. IsList(<< >>) /\ Ordered(<< >>) /\ \A n : AddedUntil(<< >>, n)
  BY <1>1 DEF IsList, Ordered, Before, AddedUntil
<1>3. ASSUME NEW options PROVE StreamInv(Stream(options))
  <2> DEFINE s == Stream(options)
  <2>1. /\ s = [options |-> s.options, stage |-> s.stage, reader |-> s.reader]
        /\ s.stage = 1 /\ s.reader = << >> /\ s.options = options
    BY DEF Stream
  <2> HIDE DEF s
  <2>2. \A k \in StageNumbers : ~(k < 1)
    BY DEF StageNumbers
  <2>3. StreamInv(s)
    BY <2>1, <2>2, <1>2 DEF StreamInv
  <2> QED
    BY <2>3 DEF s
<1>4. StreamInv([Stream({}) EXCEPT !.stage = Len(Stages) + 1])
  <2> DEFINE s == [Stream({}) EXCEPT !.stage = Len(Stages) + 1]
  <2>1. Len(Stages) = 9
    BY DEF Stages
  <2>2. /\ s = [options |-> s.options, stage |-> s.stage, reader |-> s.reader]
        /\ s.stage = 10 /\ s.reader = << >> /\ s.options = {}
    <3>1. Len(Stages) + 1 = 10
      BY <2>1
    <3>2. s = [Stream({}) EXCEPT !.stage = 10]
      BY <3>1, Zenon
    <3>3. [Stream({}) EXCEPT !.stage = 10] = [options |-> {}, stage |-> 10, reader |-> << >>]
      <4> DEFINE c == Stream({})
      <4>1. /\ c = [options |-> c.options, stage |-> c.stage, reader |-> c.reader]
            /\ c.options = {} /\ c.reader = << >>
        BY DEF Stream
      <4> HIDE DEF c
      <4>2. [c EXCEPT !.stage = 10] = [options |-> c.options, stage |-> 10, reader |-> c.reader]
        BY <4>1
      <4> QED
        BY <4>1, <4>2 DEF c
    <3>4. s = [options |-> {}, stage |-> 10, reader |-> << >>]
      BY <3>2, <3>3
    <3> HIDE DEF s
    <3> QED
      BY <3>4
  <2> HIDE DEF s
  <2>3. ~MergeWanted({})
    BY DEF MergeWanted, Given
  <2>4. \A k \in StageNumbers : Holds(<< >>, Stages[k], {})
    BY AddedFits DEF Holds
  <2>5. StreamInv(s)
    BY <2>2, <2>3, <2>4, <1>2 DEF StreamInv
  <2> QED
    BY <2>5 DEF s
<1> QED
  BY <1>3, <1>4

\* The streams with the last ones replaced by one.
LEMMA LastReplaced ==
  ASSUME NEW s, IsList(s), NEW n \in 0 .. Len(s), NEW x
  PROVE  LET q == SubSeq(s, 1, n) \o <<x>>
         IN  /\ IsList(q) /\ Len(q) = n + 1 /\ q[n + 1] = x
             /\ \A i \in 1 .. n : q[i] = s[i]
<1> DEFINE p == SubSeq(s, 1, n)
           y == <<x>>
<1>1. PICK S : s \in Seq(S)
  BY DEF IsList
<1>2. Len(s) \in Nat /\ n \in Nat /\ n <= Len(s)
  BY ListIndices
<1>3. p \in Seq(S) /\ Len(p) = n /\ \A i \in 1 .. n : p[i] = s[i]
  <2>1. \A i \in 1 .. n : i \in 1 .. Len(s)
    BY <1>2
  <2>2. /\ SubSeq(s, 1, n) \in Seq(S) 
        /\ Len(SubSeq(s, 1, n)) = IF 1 <= n THEN n - 1 + 1 ELSE 0
        /\ \A i \in 1 .. n - 1 + 1 : SubSeq(s, 1, n)[i] = s[1 + i - 1]
    BY <1>1, <1>2, <2>1, SubSeqProperties
  <2> QED
    BY <1>2, <2>2
<1>4. y \in Seq({x}) /\ Len(y) = 1 /\ y[1] = x /\ DOMAIN y = {1}
  OBVIOUS
<1> HIDE DEF p, y
<1>5. IsList(p) /\ IsList(y)
  BY <1>3, <1>4 DEF IsList
<1>6. DOMAIN p = 1 .. n
  BY <1>3, <1>5, ListIndices
<1>7. Joined(p, y, p \o y)
  BY <1>5, JoinedLists
<1>8. /\ IsList(p \o y) /\ Len(p \o y) = n + 1 /\ (p \o y)[n + 1] = x
      /\ \A i \in 1 .. n : (p \o y)[i] = s[i]
  BY <1>3, <1>4, <1>6, <1>7 DEF Joined
<1> QED
  BY <1>8 DEF p, y

\* The streams fit again when the last ones are replaced by one that fits.
LEMMA ReplacedFit ==
  ASSUME NEW ss, StreamsFit(ss), NEW n \in 0 .. Len(ss) - 1, NEW x, StreamInv(x)
  PROVE  StreamsFit(SubSeq(ss, 1, n) \o <<x>>)
<1> DEFINE q == SubSeq(ss, 1, n) \o <<x>>
<1>1. n \in 0 .. Len(ss) /\ n \in Nat /\ IsList(ss) /\ Len(ss) \in Nat /\ n <= Len(ss) - 1
  BY DEF StreamsFit
<1>2. IsList(q) /\ Len(q) = n + 1 /\ q[n + 1] = x /\ \A i \in 1 .. n : q[i] = ss[i]
  BY <1>1, LastReplaced
<1> HIDE DEF q
<1>3. \A k \in 1 .. Len(q) : StreamInv(q[k])
  <2> TAKE k \in 1 .. Len(q)
  <2>1. CASE k = n + 1
    BY <2>1, <1>2
  <2>2. CASE k # n + 1
    <3>1. k \in 1 .. n /\ k \in 1 .. Len(ss)
      BY <2>2, <1>1, <1>2
    <3> QED
      BY <3>1, <1>2 DEF StreamsFit
  <2> QED
    BY <2>1, <2>2
<1>4. \A k \in 1 .. Len(q) - 1 : q[k].stage = 7
  <2> TAKE k \in 1 .. Len(q) - 1
  <2>1. k \in 1 .. n /\ k \in 1 .. Len(ss) - 1
    BY <1>1, <1>2
  <2> QED
    BY <2>1, <1>2 DEF StreamsFit
<1>5. StreamsFit(q)
  BY <1>1, <1>2, <1>3, <1>4 DEF StreamsFit
<1> QED
  BY <1>5 DEF q

\* The streams fit when an inner one is opened while the last one merges.
LEMMA OpenedFit ==
  ASSUME NEW ss, StreamsFit(ss), ss[Len(ss)].stage = 7, NEW x, StreamInv(x)
  PROVE  StreamsFit(Append(ss, x))
<1> DEFINE q == Append(ss, x)
<1>1. PICK S : ss \in Seq(S)
  BY DEF StreamsFit, IsList
<1> DEFINE T == S \union {x}
<1>2. ss \in Seq(T) /\ x \in T
  BY <1>1, SeqMonotonic
<1> HIDE DEF T
<1>3. q \in Seq(T) /\ Len(q) = Len(ss) + 1 /\ q[Len(ss) + 1] = x /\ \A i \in 1 .. Len(ss) : q[i] = ss[i]
  BY <1>2, AppendProperties
<1>4. IsList(q) /\ Len(ss) \in Nat /\ Len(ss) # 0
  BY <1>3 DEF StreamsFit, IsList
<1> HIDE DEF q
<1>5. \A k \in 1 .. Len(q) : StreamInv(q[k])
  <2> TAKE k \in 1 .. Len(q)
  <2>1. CASE k = Len(ss) + 1
    BY <2>1, <1>3
  <2>2. CASE k # Len(ss) + 1
    <3>1. k \in 1 .. Len(ss)
      BY <2>2, <1>3, <1>4
    <3> QED
      BY <3>1, <1>3 DEF StreamsFit
  <2> QED
    BY <2>1, <2>2
<1>6. \A k \in 1 .. Len(q) - 1 : q[k].stage = 7
  <2> TAKE k \in 1 .. Len(q) - 1
  <2>1. k \in 1 .. Len(ss)
    BY <1>3, <1>4
  <2>2. CASE k = Len(ss)
    BY <2>1, <2>2, <1>3
  <2>3. CASE k # Len(ss)
    <3>1. k \in 1 .. Len(ss) - 1
      BY <2>1, <2>3, <1>4
    <3> QED
      BY <2>1, <3>1, <1>3 DEF StreamsFit
  <2> QED
    BY <2>2, <2>3
<1>7. StreamsFit(q)
  BY <1>3, <1>4, <1>5, <1>6 DEF StreamsFit
<1> QED
  BY <1>7 DEF q

LEMMA ProgramStarts == ProgramInit => ProgramInv
<1> SUFFICES ASSUME ProgramInit PROVE ProgramInv
  OBVIOUS
<1>1. PICK options : streams = <<Stream(options)>>
  BY DEF ProgramInit
<1>2. program = [phase |-> "start", status |-> 0, filled |-> << >>, written |-> << >>]
  BY DEF ProgramInit
<1> DEFINE s == Stream(options)
<1>3. StreamInv(s)
  BY StreamsStart
<1> HIDE DEF s
<1>4. <<s>> \in Seq({s}) /\ Len(<<s>>) = 1 /\ <<s>>[1] = s
  OBVIOUS
<1>5. streams = <<s>>
  BY <1>1 DEF s
<1>6. IsList(streams)
  BY <1>4, <1>5 DEF IsList
<1>7. StreamsFit(streams)
  BY <1>3, <1>4, <1>5, <1>6 DEF StreamsFit
<1>8. program = [phase |-> program.phase, status |-> program.status,
                 filled |-> program.filled, written |-> program.written]
      /\ program.phase = "start"
  BY <1>2
<1> QED
  BY <1>7, <1>8 DEF ProgramInv

\* What a step that only changes the phase and one other field leaves.
LEMMA ProgramFields ==
  ASSUME NEW p, p = [phase |-> p.phase, status |-> p.status, filled |-> p.filled, written |-> p.written],
         NEW x, NEW y
  PROVE  /\ [p EXCEPT !.phase = x] = [phase |-> x, status |-> p.status, filled |-> p.filled, written |-> p.written]
         /\ [p EXCEPT !.phase = x, !.status = y]
            = [phase |-> x, status |-> y, filled |-> p.filled, written |-> p.written]
         /\ [p EXCEPT !.phase = x, !.filled = y]
            = [phase |-> x, status |-> p.status, filled |-> y, written |-> p.written]
         /\ [p EXCEPT !.phase = x, !.written = y]
            = [phase |-> x, status |-> p.status, filled |-> p.filled, written |-> y]
<1> DEFINE u == [p EXCEPT !.phase = x]
<1>1. u = [phase |-> x, status |-> p.status, filled |-> p.filled, written |-> p.written]
  OBVIOUS
<1>2. /\ [u EXCEPT !.status = y] = [phase |-> u.phase, status |-> y, filled |-> u.filled, written |-> u.written]
      /\ [u EXCEPT !.filled = y] = [phase |-> u.phase, status |-> u.status, filled |-> y, written |-> u.written]
      /\ [u EXCEPT !.written = y] = [phase |-> u.phase, status |-> u.status, filled |-> u.filled, written |-> y]
  <2> HIDE DEF u
  <2> QED
    BY <1>1
<1> QED
  BY <1>1, <1>2

\* A program that stops with a failure, or because help is asked for, claims nothing.
LEMMA ProgramStops ==
  ASSUME ProgramInv, NEW n, Stops(n), n # 0 \/ Given(Current.options, {"help", "version"})
  PROVE  ProgramInv'
<1>1. program' = [phase |-> "done", status |-> n, filled |-> program.filled, written |-> program.written]
  BY ProgramFields DEF ProgramInv, Stops
<1>2. streams' = streams /\ StreamsFit(streams')
  BY DEF ProgramInv, Stops
<1>3. /\ program' = [phase |-> program'.phase, status |-> program'.status,
                     filled |-> program'.filled, written |-> program'.written]
      /\ program'.phase = "done" /\ program'.status = n
  BY <1>1
<1>4. Current' = Current
  BY <1>2 DEF Current
<1> QED
  BY <1>2, <1>3, <1>4 DEF ProgramInv

LEMMA CommandLineKeeps == ASSUME ProgramInv, Start PROVE ProgramInv'
<1>1. CASE Given(Current.options, {"help", "version"}) /\ Stops(0)
  BY <1>1, ProgramStops
<1>2. CASE Stops(1)
  BY <1>2, ProgramStops
<1>3. CASE program' = [program EXCEPT !.phase = "stages"] /\ UNCHANGED streams
  <2>1. program' = [phase |-> "stages", status |-> program.status, filled |-> program.filled, written |-> program.written]
    BY <1>3, ProgramFields DEF ProgramInv
  <2>2. /\ program' = [phase |-> program'.phase, status |-> program'.status,
                       filled |-> program'.filled, written |-> program'.written]
        /\ program'.phase = "stages"
    BY <2>1
  <2>3. StreamsFit(streams')
    BY <1>3 DEF ProgramInv
  <2> QED
    BY <2>2, <2>3 DEF ProgramInv
<1> QED
  BY <1>1, <1>2, <1>3 DEF Start

\* In the phase of the stages nothing but the streams is said.
LEMMA StagesKeep ==
  ASSUME ProgramInv, program.phase = "stages", UNCHANGED program, StreamsFit(streams')
  PROVE  ProgramInv'
BY DEF ProgramInv

LEMMA RunStageKeeps == ASSUME ProgramInv, RunStage PROVE ProgramInv'
<1> DEFINE n == Len(streams)
           s == streams[n]
           k == s.stage
<1>1. program.phase = "stages" /\ Current.stage \in DOMAIN Stages /\ Current = s
  BY DEF RunStage, Current
<1>2. DOMAIN Stages = StageNumbers
  BY DEF Stages, StageNumbers
<1>3. StreamsFit(streams) /\ n \in Nat /\ n # 0 /\ n \in 1 .. n
  BY DEF ProgramInv, StreamsFit
<1>4. StreamInv(s) /\ k \in StageNumbers
  BY <1>1, <1>2, <1>3 DEF StreamsFit
<1>5. CASE Stops(1)
  BY <1>5, ProgramStops
<1>6. CASE /\ ~(Stages[k] = "merge" /\ MergeWanted(s.options))
           /\ streams' = NextStage(s.reader \o Added(Stages[k], s.options)) /\ UNCHANGED program
  <2> DEFINE x == [s EXCEPT !.stage = @ + 1, !.reader = s.reader \o Added(Stages[k], s.options)]
  <2>1. StreamInv(x)
    BY <1>4, <1>6, StreamGoesOn
  <2>2. streams' = SubSeq(streams, 1, n - 1) \o <<x>>
    BY <1>6 DEF NextStage, Outer, Current
  <2> HIDE DEF x
  <2>3. n - 1 \in 0 .. n - 1
    BY <1>3
  <2>4. StreamsFit(streams')
    BY <2>1, <2>2, <2>3, <1>3, ReplacedFit
  <2> QED
    BY <2>4, <1>1, <1>6, StagesKeep
<1>7. CASE /\ Stages[k] = "merge" /\ UNCHANGED program
           /\ \E inner \in InnerOptions :
                streams' = Append(streams,
                             IF "merge.inner.cfg" \in s.options THEN Stream(inner)
                             ELSE [Stream({}) EXCEPT !.stage = Len(Stages) + 1])
  <2>1. k = 7
    BY <1>4, <1>7 DEF Stages, StageNumbers
  <2>2. PICK x : StreamInv(x) /\ streams' = Append(streams, x)
    BY <1>7, StreamsStart
  <2>3. StreamsFit(streams')
    BY <1>3, <2>1, <2>2, OpenedFit
  <2> QED
    BY <2>3, <1>1, <1>7, StagesKeep
<1> QED
  BY <1>1, <1>5, <1>6, <1>7 DEF RunStage

LEMMA MergeInnerKeeps == ASSUME ProgramInv, MergeInner PROVE ProgramInv'
<1> DEFINE n == Len(streams)
           s == streams[n - 1]
           x == [s EXCEPT !.stage = @ + 1,
                          !.reader = @ \o Added("merge", s.options) \o <<[op |-> "merged", inner |-> Current.reader]>>]
<1>1. /\ program.phase = "stages" /\ UNCHANGED program /\ n > 1
      /\ streams' = SubSeq(streams, 1, n - 2) \o <<x>>
  BY DEF MergeInner
<1>2. StreamsFit(streams) /\ n \in Nat /\ n - 1 \in 1 .. n - 1 /\ n - 1 \in 1 .. n /\ n - 2 \in 0 .. n - 1
  BY <1>1 DEF ProgramInv, StreamsFit
<1>3. StreamInv(s) /\ s.stage = 7
  BY <1>2 DEF StreamsFit
<1>4. StreamInv(x)
  BY <1>3, StreamIsMerged
<1> HIDE DEF x
<1>5. StreamsFit(streams')
  BY <1>1, <1>2, <1>4, ReplacedFit
<1> QED
  BY <1>1, <1>5, StagesKeep

LEMMA StagesDoneKeeps == ASSUME ProgramInv, StagesDone PROVE ProgramInv'
<1>1. /\ Current.stage \notin DOMAIN Stages /\ Len(streams) = 1 /\ streams' = streams
      /\ program' = [program EXCEPT !.phase = "fill"]
  BY DEF StagesDone
<1>2. StreamsFit(streams) /\ StreamInv(Current)
  BY <1>1 DEF ProgramInv, StreamsFit, Current
<1>3. DOMAIN Stages = 1 .. 9
  BY DEF Stages
<1>4. Current.stage = 10
  BY <1>1, <1>2, <1>3 DEF StreamInv
<1>5. program' = [phase |-> "fill", status |-> program.status, filled |-> program.filled, written |-> program.written]
  BY <1>1, ProgramFields DEF ProgramInv
<1>6. /\ program' = [phase |-> program'.phase, status |-> program'.status,
                     filled |-> program'.filled, written |-> program'.written]
      /\ program'.phase = "fill"
  BY <1>5
<1>7. Through'
  BY <1>1, <1>4 DEF Through, Current
<1> QED
  BY <1>1, <1>2, <1>6, <1>7 DEF ProgramInv

LEMMA FillKeeps == ASSUME ProgramInv, Fill PROVE ProgramInv'
<1>1. CASE Stops(1)
  BY <1>1, ProgramStops
<1>2. CASE /\ program' = [program EXCEPT !.phase = "write",
                                         !.filled = IF "output.fillFile" \in Current.options
                                                    THEN <<Current.reader>> ELSE << >>]
           /\ UNCHANGED streams
  <2> DEFINE f == IF "output.fillFile" \in Current.options THEN <<Current.reader>> ELSE << >>
  <2>1. program' = [program EXCEPT !.phase = "write", !.filled = f]
    BY <1>2
  <2> HIDE DEF f
  <2>2. program' = [phase |-> "write", status |-> program.status, filled |-> f, written |-> program.written]
    BY <2>1, ProgramFields DEF ProgramInv
  <2>3. /\ program' = [phase |-> program'.phase, status |-> program'.status,
                       filled |-> program'.filled, written |-> program'.written]
        /\ program'.phase = "write" /\ program'.filled = f
    BY <2>2
  <2>4. Through /\ StreamsFit(streams)
    BY DEF Fill, ProgramInv
  <2>5. Current' = Current /\ Through' /\ StreamsFit(streams')
    BY <1>2, <2>4 DEF Through, Current
  <2>6. FilledAsAsked'
    BY <2>3, <2>5 DEF FilledAsAsked, f
  <2> QED
    BY <2>3, <2>5, <2>6 DEF ProgramInv
<1> QED
  BY <1>1, <1>2 DEF Fill

LEMMA WriteKeeps == ASSUME ProgramInv, Write PROVE ProgramInv'
<1>1. CASE Stops(1)
  BY <1>1, ProgramStops
<1>2. CASE /\ program' = [program EXCEPT !.phase = "done",
                                         !.written = IF "output.file" \in Current.options
                                                     THEN <<Current.reader>> ELSE << >>]
           /\ UNCHANGED streams
  <2> DEFINE w == IF "output.file" \in Current.options THEN <<Current.reader>> ELSE << >>
  <2>1. program' = [program EXCEPT !.phase = "done", !.written = w]
    BY <1>2
  <2> HIDE DEF w
  <2>2. program' = [phase |-> "done", status |-> program.status, filled |-> program.filled, written |-> w]
    BY <2>1, ProgramFields DEF ProgramInv
  <2>3. /\ program' = [phase |-> program'.phase, status |-> program'.status,
                       filled |-> program'.filled, written |-> program'.written]
        /\ program'.phase = "done" /\ program'.filled = program.filled /\ program'.written = w
    BY <2>2
  <2>4. Through /\ FilledAsAsked /\ StreamsFit(streams)
    BY DEF Write, ProgramInv
  <2>5. Current' = Current /\ Through' /\ StreamsFit(streams')
    BY <1>2, <2>4 DEF Through, Current
  <2>6. FilledAsAsked' /\ ("output.file" \in Current.options => program'.written = <<Current.reader>>)
    BY <2>3, <2>4, <2>5 DEF FilledAsAsked, w
  <2> QED
    BY <2>3, <2>5, <2>6 DEF ProgramInv
<1> QED
  BY <1>1, <1>2 DEF Write

LEMMA ProgramSteps == ProgramInv /\ [ProgramNext]_programVars => ProgramInv'
<1> SUFFICES ASSUME ProgramInv, [ProgramNext]_programVars PROVE ProgramInv'
  OBVIOUS
<1>1. CASE UNCHANGED programVars
  BY <1>1 DEF programVars, ProgramInv, Through, FilledAsAsked, Current
<1> QED
  BY <1>1, CommandLineKeeps, RunStageKeeps, MergeInnerKeeps, StagesDoneKeeps, FillKeeps, WriteKeeps DEF ProgramNext

\* From the invariant to what is written: a stream that is through has every stage behind it.
LEMMA WhatIsWritten == ProgramInv => WrittenAsAsked
<1> SUFFICES ASSUME ProgramInv, program.phase = "done", program.status = 0,
                    ~Given(Current.options, {"help", "version"})
             PROVE  WrittenAsAsked
  BY DEF WrittenAsAsked
<1>1. /\ Through /\ FilledAsAsked /\ StreamsFit(streams)
      /\ "output.file" \in Current.options => program.written = <<Current.reader>>
  BY DEF ProgramInv
<1>2. Len(streams) = 1 /\ Current.stage = 10 /\ StreamInv(Current)
  BY <1>1 DEF Through, StreamsFit, Current
<1>3. Ordered(Current.reader)
  BY <1>2 DEF StreamInv
<1>4. MergeWanted(Current.options) => \E i \in DOMAIN Current.reader : Current.reader[i].op = "merged"
  BY <1>2 DEF StreamInv
<1>5. \A k \in DOMAIN Stages : Holds(Current.reader, Stages[k], Current.options)
  <2>1. DOMAIN Stages = StageNumbers /\ \A k \in StageNumbers : k < 10
    BY DEF Stages, StageNumbers
  <2> QED
    BY <1>2, <2>1, Zenon DEF StreamInv
<1> QED
  BY <1>1, <1>2, <1>3, <1>4, <1>5, Zenon DEF WrittenAsAsked, FilledAsAsked, Ordered, Axis, Holds

\* A program that reports success has written the input with every stage applied that the
\* options ask for, in the order a reader of them expects, the inner stream merged after its
\* own stages, and has filled a file from the same stream (run, applyFimexStreamTasks,
\* getCDMMerger, fillWriteCDM, writeCDM).
THEOREM ProgramWritesAsAsked == ProgramSpec => []WrittenAsAsked
<1>1. ProgramInit => ProgramInv
  BY ProgramStarts
<1>2. ProgramInv /\ [ProgramNext]_programVars => ProgramInv'
  BY ProgramSteps
<1>3. ProgramInv => WrittenAsAsked
  BY WhatIsWritten
<1> QED
  BY <1>1, <1>2, <1>3, PTL DEF ProgramSpec

-----------------------------------------------------------------------------
(* FillWriter.  Its loops over shapes are recursive functions again.  *)

\* The turns of the loop over a shape.
LeavesOut(g, shape, dims) ==
    /\ g[0] = <<>>
    /\ \A k \in 1 .. Len(shape) : g[k] = IF shape[k] \in dims THEN g[k - 1] ELSE Append(g[k - 1], shape[k])
LEMMA WithoutTurns ==
  ASSUME NEW D, NEW shape \in Seq(D), NEW dims
  PROVE  \E g : LeavesOut(g, shape, dims) /\ Without(shape, dims) = g[Len(shape)]
<1> DEFINE n == Len(shape)
           V == Seq(Range(shape) \ dims)
           step == [k \in 1 .. n |-> [s \in V |-> IF shape[k] \in dims THEN s ELSE Append(s, shape[k])]]
<1>1. n \in Nat /\ <<>> \in V /\ DOMAIN shape = 1 .. n
  OBVIOUS
<1>2. step \in [1 .. n -> [V -> V]]
  <2> SUFFICES ASSUME NEW k \in 1 .. n, NEW s \in V
               PROVE  (IF shape[k] \in dims THEN s ELSE Append(s, shape[k])) \in V
    OBVIOUS
  <2>1. shape[k] \in Range(shape)
    BY <1>1 DEF Range
  <2> QED
    BY <2>1
<1> DEFINE Loop(f) == f = [k \in 0 .. n |->
        IF k = 0 THEN <<>> ELSE IF shape[k] \in dims THEN f[k - 1] ELSE Append(f[k - 1], shape[k])]
<1>3. PICK f \in [0 .. n -> V] : Looped(f, n, <<>>, step)
  <2> HIDE DEF V, step, n
  <2> QED
    BY <1>1, <1>2, Looping
<1>4. Loop(f)
  <2> SUFFICES ASSUME NEW k \in 0 .. n
               PROVE  f[k] = IF k = 0 THEN <<>> ELSE IF shape[k] \in dims THEN f[k - 1] ELSE Append(f[k - 1], shape[k])
    BY <1>3
  <2>1. f[k] = IF k = 0 THEN <<>> ELSE step[k][f[k - 1]]
    BY <1>3 DEF Looped
  <2>2. CASE k = 0
    BY <2>1, <2>2
  <2>3. CASE k # 0
    <3>1. k \in 1 .. n /\ k - 1 \in 0 .. n
      BY <2>3
    <3>2. f[k - 1] \in V
      BY <1>3, <3>1
    <3> HIDE DEF V, n
    <3>3. step[k][f[k - 1]] = IF shape[k] \in dims THEN f[k - 1] ELSE Append(f[k - 1], shape[k])
      BY <3>1, <3>2
    <3> HIDE DEF step
    <3> QED
      BY <2>1, <2>3, <3>3
  <2> QED
    BY <2>2, <2>3
<1> DEFINE g == CHOOSE h : Loop(h)
<1>5. Without(shape, dims) = g[n]
  BY DEF Without
<1>6. Loop(g)
  <2> HIDE DEF Loop
  <2> QED
    BY <1>4
<1> HIDE DEF g
<1>7. /\ g[0] = <<>>
      /\ \A k \in 1 .. n : g[k] = IF shape[k] \in dims THEN g[k - 1] ELSE Append(g[k - 1], shape[k])
  <2>1. 0 \in 0 .. n /\ \A k \in 1 .. n : k \in 0 .. n /\ k # 0
    BY <1>1
  <2> QED
    BY <1>6, <2>1
<1>8. LeavesOut(g, shape, dims)
  BY <1>7 DEF LeavesOut
<1> QED
  BY <1>5, <1>8

\* What remains of a shape is in it, and not of the dimensions left out.
Kept(shape, rest, dims) == rest \in Seq(Range(shape) \ dims)
LEMMA WithoutKeeps ==
  ASSUME NEW D, NEW shape \in Seq(D), NEW dims
  PROVE  Kept(shape, Without(shape, dims), dims)
<1> DEFINE n == Len(shape)
           V == Seq(Range(shape) \ dims)
           A == [k \in 0 .. n |-> V]
<1>1. n \in Nat /\ <<>> \in V /\ DOMAIN shape = 1 .. n
  OBVIOUS
<1>2. PICK g : LeavesOut(g, shape, dims) /\ Without(shape, dims) = g[n]
  BY WithoutTurns
<1>3. /\ g[0] = <<>>
      /\ \A k \in 1 .. n : g[k] = IF shape[k] \in dims THEN g[k - 1] ELSE Append(g[k - 1], shape[k])
  BY <1>2 DEF LeavesOut
<1>4. g[0] \in A[0]
  BY <1>1, <1>3
<1>5. \A k \in 1 .. n : g[k - 1] \in A[k - 1] => g[k] \in A[k]
  <2> SUFFICES ASSUME NEW k \in 1 .. n, g[k - 1] \in V PROVE g[k] \in V
    OBVIOUS
  <2>1. shape[k] \in Range(shape)
    BY <1>1 DEF Range
  <2>2. CASE shape[k] \in dims
    <3>1. g[k] = g[k - 1]
      BY <1>3, <2>2
    <3> QED
      BY <3>1
  <2>3. CASE shape[k] \notin dims
    <3>1. g[k] = Append(g[k - 1], shape[k])
      BY <1>3, <2>3
    <3>2. g[k - 1] \in V
      OBVIOUS
    <3> QED
      BY <2>1, <2>3, <3>1, <3>2
  <2> QED
    BY <2>2, <2>3
<1> HIDE DEF A, V
<1>6. \A k \in 0 .. n : g[k] \in A[k]
  BY <1>1, <1>4, <1>5, Induction
<1> QED
  BY <1>1, <1>2, <1>6 DEF Kept, A, V

\* The shape of a coordinate keeps its dimension.
LEMMA WithoutOne ==
  ASSUME NEW d, NEW dims, d \notin dims
  PROVE  Without(<<d>>, dims) = <<d>>
<1>1. <<d>> \in Seq({d}) /\ Len(<<d>>) = 1 /\ <<d>>[1] = d
  OBVIOUS
<1>2. PICK g : LeavesOut(g, <<d>>, dims) /\ Without(<<d>>, dims) = g[1]
  BY <1>1, WithoutTurns
<1> DEFINE shape == <<d>>
<1> HIDE DEF shape
<1>3. g[0] = <<>> /\ g[1] = Append(g[0], d)
  <2>1. Len(shape) = 1 /\ shape[1] = d /\ LeavesOut(g, shape, dims)
    BY <1>1, <1>2 DEF shape
  <2>2. 1 \in 1 .. Len(shape) /\ 1 - 1 = 0 /\ shape[1] \notin dims
    BY <2>1
  <2>3. g[1] = IF shape[1] \in dims THEN g[1 - 1] ELSE Append(g[1 - 1], shape[1])
    BY <2>1, <2>2 DEF LeavesOut
  <2>4. g[1] = Append(g[1 - 1], shape[1])
    BY <2>2, <2>3
  <2>5. g[0] = <<>>
    BY <2>1 DEF LeavesOut
  <2> QED
    BY <2>1, <2>2, <2>4, <2>5, Zenon
<1>4. Append(<<>>, d) = <<d>>
  OBVIOUS
<1> QED
  BY <1>2, <1>3, <1>4

\* The slice and the position a number stands for, and the number of both.
LEMMA Quotients ==
  ASSUME NEW L \in Nat, NEW n \in Nat, NEW m \in 1 .. L * n
  PROVE  n # 0 /\ (m - 1) \div n \in 0 .. L - 1 /\ (m - 1) % n \in 0 .. n - 1
<1>1. n # 0
  <2> SUFFICES ASSUME n = 0 PROVE FALSE
    OBVIOUS
  <2>1. L * n = 0
    OBVIOUS
  <2> QED
    BY <2>1
<1>2. n \in Nat \ {0} /\ L * n \in Nat /\ m \in Int /\ m - 1 \in Nat /\ m - 1 < L * n
  BY <1>1
<1> DEFINE a == m - 1
           q == a \div n
           r == a % n
<1>3. a = q * n + r /\ q \in Int /\ r \in 0 .. n - 1
  BY <1>2
<1>4. a \in Nat /\ a < L * n
  BY <1>2
<1> HIDE DEF a, q, r
<1>5. q >= 0
  <2> SUFFICES ASSUME q <= -1 PROVE FALSE
    BY <1>3
  <2>1. q * n <= (-1) * n
    BY <1>2, <1>3
  <2> QED
    BY <1>2, <1>3, <1>4, <2>1
<1>6. q < L
  <2> SUFFICES ASSUME q >= L PROVE FALSE
    BY <1>3
  <2>1. q * n >= L * n
    BY <1>2, <1>3
  <2> QED
    BY <1>2, <1>3, <1>4, <2>1
<1> QED
  BY <1>1, <1>3, <1>5, <1>6 DEF q, r, a
Numeral(j, n, x) == (j - 1) * n + x + 1
StandsFor(m, L, n, j, x) == m \in 1 .. L * n /\ (m - 1) \div n = j - 1 /\ (m - 1) % n = x
LEMMA SliceNumber ==
  ASSUME NEW L \in Nat, NEW n \in Nat, NEW j \in 1 .. L, NEW x \in 0 .. n - 1
  PROVE  StandsFor(Numeral(j, n, x), L, n, j, x)
<1> DEFINE m == (j - 1) * n + x + 1
           b == (j - 1) * n
<1>1. n \in Nat \ {0} /\ j - 1 \in Nat /\ j - 1 <= L - 1 /\ x \in Nat /\ x < n
  OBVIOUS
<1>2. b \in Nat /\ b <= (L - 1) * n
  BY <1>1
<1>3. (L - 1) * n = L * n - n /\ L * n \in Nat
  BY <1>1
<1>4. (b + x) \div n = j - 1 /\ (b + x) % n = x
  BY <1>1
<1> HIDE DEF b
<1>5. m = b + x + 1
  BY <1>1, <1>2 DEF b
<1> HIDE DEF m
<1>6. m - 1 = b + x
  BY <1>1, <1>2, <1>5
<1>7. m \in 1 .. L * n
  BY <1>1, <1>2, <1>3, <1>5
<1> QED
  BY <1>4, <1>6, <1>7 DEF m, Numeral, StandsFor

\* Slices of dimensions D.
SlicesIn(D) == UNION {[E -> Nat] : E \in SUBSET D}
LEMMA PositionedIn ==
  ASSUME NEW D, NEW slice \in SlicesIn(D), NEW d \in D, NEW x \in Nat
  PROVE  Positioned(slice, d, x) \in SlicesIn(D)
<1>1. PICK E \in SUBSET D : slice \in [E -> Nat]
  BY DEF SlicesIn
<1>2. Positioned(slice, d, x) \in [E \cup {d} -> Nat] /\ E \cup {d} \in SUBSET D
  BY <1>1 DEF Positioned
<1> QED
  BY <1>2 DEF SlicesIn
LEMMA DividedIn ==
  ASSUME NEW D, NEW s \in Seq(SlicesIn(D)), NEW d \in D, NEW n \in Nat
  PROVE  /\ Divided(s, d, n) \in Seq(SlicesIn(D)) /\ Len(Divided(s, d, n)) = Len(s) * n
         /\ \A m \in 1 .. Len(s) * n : Divided(s, d, n)[m] = Positioned(s[1 + (m - 1) \div n], d, (m - 1) % n)
<1> DEFINE N == Len(s) * n
<1>1. Len(s) \in Nat /\ N \in Nat
  OBVIOUS
<1>2. ASSUME NEW m \in 1 .. N PROVE Positioned(s[1 + (m - 1) \div n], d, (m - 1) % n) \in SlicesIn(D)
  <2>1. (m - 1) \div n \in 0 .. Len(s) - 1 /\ (m - 1) % n \in 0 .. n - 1
    BY <1>1, Quotients
  <2>2. 1 + (m - 1) \div n \in 1 .. Len(s) /\ (m - 1) % n \in Nat
    BY <1>1, <2>1
  <2>3. s[1 + (m - 1) \div n] \in SlicesIn(D)
    BY <2>2
  <2> QED
    BY <2>2, <2>3, PositionedIn
<1>3. Divided(s, d, n) = [m \in 1 .. N |-> Positioned(s[1 + (m - 1) \div n], d, (m - 1) % n)]
  BY DEF Divided
<1>4. Divided(s, d, n) \in [1 .. N -> SlicesIn(D)]
  BY <1>2, <1>3
<1> HIDE DEF N
<1>5. Divided(s, d, n) \in Seq(SlicesIn(D)) /\ Len(Divided(s, d, n)) = N
  BY <1>1, <1>4
<1> QED
  BY <1>3, <1>5 DEF N

\* The turns of the loop that makes the slices.
Slices(g, shape, dims, len) ==
    /\ g[0] = <<(<<>>)>>
    /\ \A k \in 1 .. Len(shape) :
        g[k] = IF shape[k] \in dims THEN Divided(g[k - 1], shape[k], len[shape[k]]) ELSE g[k - 1]
LEMMA SlicedTurns ==
  ASSUME NEW D, NEW shape \in Seq(D), NEW dims, NEW len, \A d \in D : len[d] \in Nat
  PROVE  \E g : /\ Slices(g, shape, dims, len) /\ Sliced(shape, dims, len) = g[Len(shape)]
                /\ \A k \in 0 .. Len(shape) : g[k] \in Seq(SlicesIn(D))
<1> DEFINE n == Len(shape)
           V == Seq(SlicesIn(D))
           a == <<(<<>>)>>
           step == [k \in 1 .. n |-> [s \in V |-> IF shape[k] \in dims THEN Divided(s, shape[k], len[shape[k]]) ELSE s]]
           Loop(f) == f = [k \in 0 .. n |->
             IF k = 0 THEN a
             ELSE IF shape[k] \in dims THEN Divided(f[k - 1], shape[k], len[shape[k]])
             ELSE f[k - 1]]
           g == CHOOSE h : Loop(h)
<1>1. n \in Nat /\ DOMAIN shape = 1 .. n /\ \A k \in 1 .. n : shape[k] \in D
  OBVIOUS
<1>2. a \in V
  <2>1. <<>> \in [{} -> Nat]
    OBVIOUS
  <2>2. <<>> \in SlicesIn(D)
    BY <2>1 DEF SlicesIn
  <2> QED
    BY <2>2
<1> HIDE DEF a
<1>3. \A k \in 1 .. n, s \in V : Divided(s, shape[k], len[shape[k]]) \in V
  BY <1>1, DividedIn
<1> HIDE DEF V
<1>4. step \in [1 .. n -> [V -> V]]
  BY <1>3
<1>5. PICK f \in [0 .. n -> V] : Looped(f, n, a, step)
  <2> HIDE DEF step, n
  <2> QED
    BY <1>1, <1>2, <1>4, Looping
<1>6. Loop(f)
  <2> SUFFICES ASSUME NEW k \in 0 .. n
               PROVE  f[k] = IF k = 0 THEN a
                             ELSE IF shape[k] \in dims THEN Divided(f[k - 1], shape[k], len[shape[k]]) ELSE f[k - 1]
    BY <1>5
  <2>1. f[k] = IF k = 0 THEN a ELSE step[k][f[k - 1]]
    BY <1>5 DEF Looped
  <2>2. CASE k = 0
    BY <2>1, <2>2
  <2>3. CASE k # 0
    <3>1. k \in 1 .. n /\ k - 1 \in 0 .. n
      BY <2>3
    <3>2. f[k - 1] \in V
      BY <1>5, <3>1
    <3> HIDE DEF n
    <3>3. step[k][f[k - 1]] = IF shape[k] \in dims THEN Divided(f[k - 1], shape[k], len[shape[k]]) ELSE f[k - 1]
      BY <3>1, <3>2
    <3> HIDE DEF step
    <3> QED
      BY <2>1, <2>3, <3>3
  <2> QED
    BY <2>2, <2>3
<1>7. Sliced(shape, dims, len) = g[n]
  BY DEF Sliced, a
<1>8. Loop(g)
  <2> HIDE DEF Loop
  <2> QED
    BY <1>6
<1> HIDE DEF g
<1>9. g[0] = a
  <2>1. 0 \in 0 .. n
    BY <1>1
  <2> QED
    BY <1>8, <2>1
<1>10. ASSUME NEW k \in 1 .. n
       PROVE  g[k] = IF shape[k] \in dims THEN Divided(g[k - 1], shape[k], len[shape[k]]) ELSE g[k - 1]
  <2>1. k \in 0 .. n /\ k # 0
    BY <1>1
  <2> QED
    BY <1>8, <2>1
<1>11. Slices(g, shape, dims, len)
  BY <1>9, <1>10 DEF Slices, a
<1> DEFINE A == [k \in 0 .. n |-> V]
<1>12. g[0] \in A[0]
  BY <1>1, <1>2, <1>9
<1>13. \A k \in 1 .. n : g[k - 1] \in A[k - 1] => g[k] \in A[k]
  <2> SUFFICES ASSUME NEW k \in 1 .. n, g[k - 1] \in V PROVE g[k] \in V
    OBVIOUS
  <2>1. CASE shape[k] \in dims
    BY <1>3, <1>10, <2>1
  <2>2. CASE shape[k] \notin dims
    BY <1>10, <2>2
  <2> QED
    BY <2>1, <2>2
<1>14. \A k \in 0 .. n : g[k] \in V
  <2> HIDE DEF A, Loop, n
  <2>1. \A k \in 0 .. n : g[k] \in A[k]
    BY <1>1, <1>12, <1>13, Induction
  <2> QED
    BY <2>1 DEF A
<1> QED
  BY <1>7, <1>11, <1>14 DEF V

\* Every position is in a slice.
AgreesWith(p, slice) == \A d \in DOMAIN slice : p[d] = slice[d]
InOne(p, slices) == \E j \in 1 .. Len(slices) : AgreesWith(p, slices[j])
LEMMA DividedCovers ==
  ASSUME NEW D, NEW s \in Seq(SlicesIn(D)), NEW d \in D, NEW n \in Nat, NEW p, p[d] \in 0 .. n - 1, InOne(p, s)
  PROVE  InOne(p, Divided(s, d, n))
<1>1. PICK j \in 1 .. Len(s) : AgreesWith(p, s[j])
  BY DEF InOne
<1> DEFINE m == Numeral(j, n, p[d])
<1>2. Len(s) \in Nat /\ p[d] \in Nat /\ s[j] \in SlicesIn(D)
  OBVIOUS
<1>3. m \in 1 .. Len(s) * n /\ (m - 1) \div n = j - 1 /\ (m - 1) % n = p[d]
  <2>1. StandsFor(m, Len(s), n, j, p[d])
    BY <1>2, SliceNumber
  <2> HIDE DEF m
  <2> QED
    BY <2>1 DEF StandsFor
<1> HIDE DEF m
<1>4. /\ Len(Divided(s, d, n)) = Len(s) * n
      /\ Divided(s, d, n)[m] = Positioned(s[1 + (m - 1) \div n], d, (m - 1) % n)
  <2>1. Len(Divided(s, d, n)) = Len(s) * n
    BY DividedIn
  <2>2. \A k \in 1 .. Len(s) * n : Divided(s, d, n)[k] = Positioned(s[1 + (k - 1) \div n], d, (k - 1) % n)
    BY DividedIn
  <2> QED
    BY <1>3, <2>1, <2>2, Zenon
<1>5. Divided(s, d, n)[m] = Positioned(s[j], d, p[d])
  <2>1. 1 + (j - 1) = j
    BY <1>1
  <2> QED
    BY <1>3, <1>4, <2>1
<1>6. AgreesWith(p, Positioned(s[j], d, p[d]))
  <2> DEFINE slice == Positioned(s[j], d, p[d])
  <2>1. /\ DOMAIN slice = DOMAIN s[j] \cup {d}
        /\ \A e \in DOMAIN s[j] \cup {d} : slice[e] = IF e = d THEN p[d] ELSE s[j][e]
    <3>1. DOMAIN slice = DOMAIN s[j] \cup {d}
      BY DEF Positioned
    <3>2. ASSUME NEW e \in DOMAIN s[j] \cup {d} PROVE slice[e] = IF e = d THEN p[d] ELSE s[j][e]
      BY DEF Positioned
    <3> QED
      BY <3>1, <3>2, Zenon
  <2> HIDE DEF slice
  <2>2. ASSUME NEW e \in DOMAIN slice PROVE p[e] = slice[e]
    BY <1>1, <2>1 DEF AgreesWith
  <2>3. AgreesWith(p, slice)
    BY <2>2 DEF AgreesWith
  <2> QED
    BY <2>3 DEF slice
<1> QED
  BY <1>3, <1>4, <1>5, <1>6 DEF InOne

LEMMA SlicesCover ==
  ASSUME NEW D, NEW shape \in Seq(D), NEW dims, NEW len, \A d \in D : len[d] \in Nat,
         NEW p, \A d \in D : p[d] \in 0 .. len[d] - 1
  PROVE  InOne(p, Sliced(shape, dims, len))
<1> DEFINE n == Len(shape)
           Covering == {s \in Seq(SlicesIn(D)) : InOne(p, s)}
           A == [k \in 0 .. n |-> Covering]
<1>1. n \in Nat /\ \A k \in 1 .. n : shape[k] \in D
  OBVIOUS
<1>2. PICK g : /\ Slices(g, shape, dims, len) /\ Sliced(shape, dims, len) = g[n]
               /\ \A k \in 0 .. n : g[k] \in Seq(SlicesIn(D))
  BY SlicedTurns
<1>3. /\ g[0] = <<(<<>>)>>
      /\ \A k \in 1 .. n :
           g[k] = IF shape[k] \in dims THEN Divided(g[k - 1], shape[k], len[shape[k]]) ELSE g[k - 1]
  BY <1>2 DEF Slices
<1> HIDE DEF n
<1>4. g[0] \in Covering
  <2>1. g[0] \in Seq(SlicesIn(D))
    BY <1>1, <1>2
  <2>2. Len(<<(<<>>)>>) = 1 /\ <<(<<>>)>>[1] = <<>>
    OBVIOUS
  <2>3. AgreesWith(p, <<>>)
    BY DEF AgreesWith
  <2>4. InOne(p, g[0])
    BY <1>3, <2>2, <2>3 DEF InOne
  <2> QED
    BY <2>1, <2>4
<1>5. ASSUME NEW k \in 1 .. n, g[k - 1] \in Covering PROVE g[k] \in Covering
  <2>1. CASE shape[k] \in dims
    <3>1. g[k] = Divided(g[k - 1], shape[k], len[shape[k]])
      BY <1>3, <2>1
    <3>2. InOne(p, g[k])
      BY <1>1, <1>5, <3>1, DividedCovers
    <3>3. g[k] \in Seq(SlicesIn(D))
      BY <1>1, <1>2
    <3> QED
      BY <3>2, <3>3
  <2>2. CASE shape[k] \notin dims
    BY <1>3, <1>5, <2>2
  <2> QED
    BY <2>1, <2>2
<1> HIDE DEF Covering
<1>6. g[0] \in A[0] /\ \A k \in 1 .. n : g[k - 1] \in A[k - 1] => g[k] \in A[k]
  BY <1>1, <1>4, <1>5
<1> HIDE DEF A
<1>7. \A k \in 0 .. n : g[k] \in A[k]
  BY <1>1, <1>6, Induction
<1>8. g[n] \in Covering
  BY <1>1, <1>7 DEF A
<1> QED
  BY <1>2, <1>8 DEF Covering

(* Why: the places of the positions of a dimension differ, and what the file has at the place of  *)
(* a position has its coordinate, or was never written: a place is where the coordinate is found, *)
(* or behind the end of the file.  Writing keeps this, as the coordinate variables are written to *)
(* the same places.                                                                              *)
FillTyped ==
    /\ in \in Inputs /\ DOMAIN cells = oVars
    /\ fileLen \in [DOMAIN Output.len -> Nat] /\ oLen \in [DOMAIN Output.len -> Nat]
    /\ phase = "filling" => fwts \in Translations /\ written \in [DOMAIN in.shape -> Nat]

\* The cells are within the lengths of the file.
CellsFit ==
    \A v \in oVars : \A o \in DOMAIN cells[v] :
        DOMAIN o = DOMAIN oShape(v) /\ \A k \in DOMAIN o : o[k] \in 0 .. fileLen[oShape(v)[k]] - 1

Dims(v) == Range(iTestShape(v))
Usable == CommonDims(in) \ unusable
Positions(d) == 0 .. in.len[d] - 1
PlaceOf(d, x) == IF d \in DOMAIN dimSlices THEN dimSlices[d][x] ELSE x
PlacesApart ==
    \A d \in Usable : \A x, y \in Positions(d) :
        /\ PlaceOf(d, x) \in 0 .. oLen[d] + in.len[d]
        /\ PlaceOf(d, x) = PlaceOf(d, y) => x = y
PlacesFollow ==
    \A d \in (ComparedDims(in) \cap Usable) \ InputDims : \A x \in Positions(d) :
        <<PlaceOf(d, x)>> \in DOMAIN cells[d] => cells[d][<<PlaceOf(d, x)>>] = in.coord[d][x + 1]

\* The slices written until now are in the file.
WrittenSlice(v, n) ==
    \A p \in Elements(v, SlicesOf(v)[n]) :
        OutPos(v, p) \in DOMAIN cells[v] /\ cells[v][OutPos(v, p)] = Datum(v, p)
SlicesWritten ==
    \A v \in DOMAIN in.shape : "write" \in Treatments(v) =>
        \A n \in 1 .. written[v] : WrittenSlice(v, n)

FillInv ==
    /\ FillTyped /\ CellsFit /\ FilledByCoordinate
    /\ phase = "open" => oLen = fileLen
    /\ phase = "filling" => PlacesApart /\ PlacesFollow /\ SlicesWritten

\* The dimensions of what is written fit, and are the file's too.
FitsFile(v) ==
    /\ v \in oVars /\ Treatments(v) = {"write"}
    /\ \A d \in Dims(v) :
        /\ d \in Usable /\ d \notin InputDims /\ d \notin OutputDims
        /\ \E k \in DOMAIN oShape(v) : oShape(v)[k] = d
    /\ \A d \in DOMAIN FixedOut(v) : FixedOut(v)[d] \in Nat
LEMMA FixedIsNat ==
  ASSUME FillTyped, fwts \in Translations, NEW v, NEW d \in DOMAIN FixedOut(v), FixedOut(v)[d] # -1
  PROVE  FixedOut(v)[d] \in Nat
<1> DEFINE slices == OutSlices(fwts, d)
<1>1. slices \in Seq(Nat)
  <2>1. d \in OutputDims
    BY DEF FixedOut
  <2>2. \E t \in Range(fwts) : t.outputDim = d
    BY <2>1 DEF OutputDims
  <2>3. \A t \in Range(fwts) : t.outSlices \in Seq(Nat)
    BY FillAssumption
  <2> QED
    BY <2>2, <2>3 DEF OutSlices
<1> HIDE DEF slices
<1>2. FixedOut(v)[d] = IF d \in Output.unlimited /\ Len(slices) = 1 THEN slices[1] ELSE FixedPos(slices, oLen[d])
  BY DEF FixedOut, slices
<1>3. Len(slices) = 1 => slices[1] \in Nat
  BY <1>1
<1> QED
  BY <1>2, <1>3 DEF FixedPos
LEMMA WrittenFits ==
  ASSUME FillTyped, fwts \in Translations, NEW v \in DOMAIN in.shape, "write" \in Treatments(v)
  PROVE  FitsFile(v)
<1> DEFINE is == iTestShape(v)
           os == oTestShape(v)
<1>1. v \in oVars /\ ~BadDim(v) /\ Treatments(v) = {"write"}
  BY DEF Treatments
<1>2. ~(\E k \in DOMAIN is \cap DOMAIN os : is[k] # os[k])
  BY <1>1 DEF Treatments
<1>3. ~(Len(is) > Len(os))
  BY <1>1, <1>2 DEF Treatments
<1>4. -1 \notin Range(FixedIn(v)) \cup Range(FixedOut(v))
  BY <1>1, <1>2, <1>3 DEF Treatments
<1>5. /\ in.shape[v] \in Seq(DOMAIN in.len) /\ oShape(v) \in Seq(DOMAIN Output.len)
      /\ DOMAIN oLen = DOMAIN Output.len
  <2>1. InputFits(in)
    BY FillAssumption DEF FillTyped
  <2>2. in.shape[v] \in Seq(DOMAIN in.len)
    BY <2>1 DEF InputFits
  <2>3. DOMAIN oLen = DOMAIN Output.len
    BY DEF FillTyped
  <2>4. oShape(v) \in Seq(DOMAIN Output.len)
    BY <1>1, FillAssumption
  <2> QED
    BY <2>2, <2>3, <2>4
<1>6. is \in Seq(Range(in.shape[v]) \ InputDims)
  BY <1>5, WithoutKeeps DEF Kept, iTestShape
<1>7. os \in Seq(Range(oShape(v)) \ OutputDims)
  BY <1>5, WithoutKeeps DEF Kept, oTestShape
<1>8. Range(in.shape[v]) \subseteq DOMAIN in.len /\ Range(oShape(v)) \subseteq DOMAIN oLen
  BY <1>5 DEF Range
<1>9. ASSUME NEW d \in Dims(v)
      PROVE  /\ d \in Usable /\ d \notin InputDims /\ d \notin OutputDims
             /\ \E k \in DOMAIN oShape(v) : oShape(v)[k] = d
  <2>1. PICK k \in DOMAIN is : is[k] = d
    BY DEF Dims, Range
  <2>2. k \in DOMAIN os
    BY <1>3, <1>6, <1>7
  <2>3. os[k] = d
    BY <1>2, <2>1, <2>2
  <2>4. d \in Range(in.shape[v]) \ InputDims /\ d \in Range(oShape(v)) \ OutputDims
    BY <1>6, <1>7, <2>1, <2>2, <2>3
  <2>5. d \notin unusable
    BY <1>1, <2>4 DEF BadDim
  <2> QED
    BY <1>8, <2>4, <2>5 DEF Range, Usable, CommonDims
<1>10. ASSUME NEW d \in DOMAIN FixedOut(v) PROVE FixedOut(v)[d] \in Nat
  <2>1. FixedOut(v)[d] # -1
    BY <1>4 DEF Range
  <2> QED
    BY <2>1, FixedIsNat
<1> QED
  BY <1>1, <1>9, <1>10 DEF FitsFile

\* Numbers of a set by their order.
Lower(S, p) == {q \in S : q < p}
LEMMA InTurn ==
  ASSUME NEW n \in Nat, NEW S, S \subseteq 0 .. n - 1
  PROVE  /\ \A p \in S : Cardinality(Lower(S, p)) \in 0 .. n
         /\ \A p, q \in S : Cardinality(Lower(S, p)) = Cardinality(Lower(S, q)) => p = q
<1>1. IsFiniteSet(S) /\ Cardinality(S) <= n /\ \A p \in S : p \in Int
  <2>1. IsFiniteSet(0 .. n - 1) /\ Cardinality(0 .. n - 1) = n
    BY FS_Interval
  <2>2. IsFiniteSet(S) /\ Cardinality(S) <= Cardinality(0 .. n - 1)
    BY <2>1, FS_Subset
  <2> QED
    BY <2>1, <2>2
<1>2. \A p : IsFiniteSet(Lower(S, p)) /\ Cardinality(Lower(S, p)) \in Nat /\ Cardinality(Lower(S, p)) <= Cardinality(S)
  <2> SUFFICES ASSUME NEW p
               PROVE  IsFiniteSet(Lower(S, p)) /\ Cardinality(Lower(S, p)) \in Nat
                      /\ Cardinality(Lower(S, p)) <= Cardinality(S)
    OBVIOUS
  <2>1. Lower(S, p) \in SUBSET S
    BY DEF Lower
  <2>2. IsFiniteSet(Lower(S, p)) /\ Cardinality(Lower(S, p)) <= Cardinality(S)
    BY <1>1, <2>1, FS_Subset
  <2> QED
    BY <2>2, FS_CardinalityType
<1>3. ASSUME NEW p \in S, NEW q \in S, p < q PROVE Cardinality(Lower(S, p)) # Cardinality(Lower(S, q))
  <2>1. Lower(S, p) \in SUBSET Lower(S, q)
    <3>1. ASSUME NEW x \in S, x < p PROVE x < q
      <4>1. x \in Int /\ p \in Int /\ q \in Int
        BY <1>1
      <4> QED
        BY <1>3, <3>1, <4>1
    <3> QED
      BY <3>1 DEF Lower
  <2>2. p \in Lower(S, q) /\ p \notin Lower(S, p)
    BY <1>1, <1>3 DEF Lower
  <2>3. Cardinality(Lower(S, q)) = Cardinality(Lower(S, p)) => Lower(S, q) = Lower(S, p)
    BY <1>2, <2>1, FS_Subset
  <2> QED
    BY <2>2, <2>3
<1>4. Cardinality(S) \in Nat
  BY <1>1, FS_CardinalityType
<1>5. ASSUME NEW p \in S PROVE Cardinality(Lower(S, p)) \in 0 .. n
  BY <1>1, <1>2, <1>4
<1>6. ASSUME NEW p \in S, NEW q \in S, Cardinality(Lower(S, p)) = Cardinality(Lower(S, q)) PROVE p = q
  <2>1. p \in Int /\ q \in Int
    BY <1>1
  <2>2. p < q \/ q < p \/ p = q
    BY <2>1
  <2> QED
    BY <1>3, <1>6, <2>2
<1> QED
  BY <1>5, <1>6
LEMMA LeastIn ==
  ASSUME NEW S, S \subseteq Nat, S # {}
  PROVE  Min(S) \in S
<1>1. IsWellFoundedOn(OpToRel(<, Nat), Nat)
  BY NatLessThanWellFounded
<1>2. PICK m \in S : \A x \in S : ~ (<<x, m>> \in OpToRel(<, Nat))
  BY <1>1, WFMin
<1>3. \A x \in S : m <= x
  <2>1. \A x \in S : ~ (x < m)
    BY <1>2 DEF OpToRel
  <2> QED
    BY <2>1
<1> QED
  BY <1>3 DEF Min

\* Where a fill begins, the places of a dimension that fits differ, and follow the coordinate.
NewPlace(i, d, x) == IF d \in ChangedDims(i) THEN CurrentSlices(i, d)[x] ELSE x
WellPlaced(i, d) ==
    /\ \A x, y \in 0 .. i.len[d] - 1 :
        /\ NewPlace(i, d, x) \in 0 .. oLen[d] + i.len[d]
        /\ NewPlace(i, d, x) = NewPlace(i, d, y) => x = y
    /\ d \in ComparedDims(i) => \A x \in 0 .. i.len[d] - 1 :
        <<NewPlace(i, d, x)>> \in DOMAIN cells[d] => cells[d][<<NewPlace(i, d, x)>>] = i.coord[d][x + 1]
LEMMA UncomparedPlaced ==
  ASSUME FillTyped, NEW i \in Inputs, NEW d \in CommonDims(i) \ UnusableIDims(i), d \notin ComparedDims(i)
  PROVE  WellPlaced(i, d)
<1>1. oLen[d] \in Nat /\ i.len[d] \in Nat
  <2>1. InputFits(i)
    BY FillAssumption
  <2> QED
    BY <2>1 DEF InputFits, CommonDims, FillTyped
<1>2. \A x \in 0 .. i.len[d] - 1 : CurrentSlices(i, d)[x] = oLen[d] + x
  BY DEF CurrentSlices
<1> QED
  BY <1>1, <1>2 DEF WellPlaced, NewPlace
LEMMA ComparedPlaced ==
  ASSUME FillTyped, CellsFit, oLen = fileLen, NEW i \in Inputs, NEW d \in ComparedDims(i) \ UnusableIDims(i)
  PROVE  WellPlaced(i, d)
<1> DEFINE n == i.len[d]
           M == Missing(i, d)
           place == [x \in 0 .. n - 1 |->
                       IF x \in M THEN oLen[d] + Cardinality(Lower(M, x)) ELSE Min(FoundAt(i, d, x))]
<1>1. d \in CommonDims(i) /\ d \in DOMAIN i.len /\ d \in DOMAIN Output.len /\ d \in oVars /\ d \in DOMAIN i.coord
  BY DEF ComparedDims, CommonDims, FillTyped
<1>2. /\ oLen[d] \in Nat /\ n \in Nat /\ DOMAIN i.coord[d] = 1 .. n
      /\ \A p, q \in 1 .. n : i.coord[d][p] = i.coord[d][q] => p = q
  <2>1. InputFits(i)
    BY FillAssumption
  <2> QED
    BY <1>1, <2>1 DEF InputFits, FillTyped
<1>3. M \subseteq 0 .. n - 1
  BY DEF Missing
<1> HIDE DEF n, M
<1>4. ASSUME NEW x \in 0 .. n - 1 PROVE CurrentSlices(i, d)[x] = place[x]
  <2>1. d \in Output.unlimited \/ M = {}
    BY <1>1 DEF UnusableIDims, M
  <2>2. CurrentSlices(i, d) = [p \in (0 .. n - 1) \ (IF d \in Output.unlimited THEN {} ELSE M) |-> place[p]]
    BY DEF CurrentSlices, M, n, Lower
  <2>3. x \in (0 .. n - 1) \ (IF d \in Output.unlimited THEN {} ELSE M)
    BY <2>1
  <2> HIDE DEF place
  <2> QED
    BY <1>2, <2>2, <2>3
<1>5. ASSUME NEW x \in 0 .. n - 1 PROVE NewPlace(i, d, x) = place[x]
  <2>1. CASE d \in ChangedDims(i)
    BY <1>4, <2>1 DEF NewPlace
  <2>2. CASE d \notin ChangedDims(i)
    <3>1. x \in DOMAIN CurrentSlices(i, d)
      <4>1. d \in Output.unlimited \/ M = {}
        BY <1>1 DEF UnusableIDims, M
      <4>2. DOMAIN CurrentSlices(i, d) = (0 .. n - 1) \ (IF d \in Output.unlimited THEN {} ELSE M)
        BY DEF CurrentSlices, M, n
      <4> QED
        BY <4>1, <4>2
    <3>2. CurrentSlices(i, d)[x] = x
      BY <1>1, <2>2, <3>1 DEF ChangedDims
    <3> QED
      BY <1>4, <2>2, <3>2 DEF NewPlace
  <2> QED
    BY <2>1, <2>2
<1>6. ASSUME NEW x \in 0 .. n - 1, x \notin M
      PROVE  /\ place[x] \in 0 .. oLen[d] - 1
             /\ <<place[x]>> \in DOMAIN cells[d] /\ cells[d][<<place[x]>>] = i.coord[d][x + 1]
  <2>1. FoundAt(i, d, x) # {}
    BY <1>6 DEF M, Missing, n
  <2>2. FoundAt(i, d, x) \subseteq Nat
    BY <1>2 DEF FoundAt
  <2>3. Min(FoundAt(i, d, x)) \in FoundAt(i, d, x)
    BY <2>1, <2>2, LeastIn
  <2>4. place[x] = Min(FoundAt(i, d, x))
    BY <1>6
  <2> HIDE DEF place
  <2> QED
    BY <2>3, <2>4 DEF FoundAt
<1> HIDE DEF place
<1>7. \A x \in 0 .. n - 1 : x \notin M => place[x] \in 0 .. oLen[d] - 1
  BY <1>6
<1>8. \A x \in 0 .. n - 1 : x \notin M => <<place[x]>> \in DOMAIN cells[d] /\ cells[d][<<place[x]>>] = i.coord[d][x + 1]
  BY <1>6
<1>9. /\ \A x \in M : place[x] \in oLen[d] .. oLen[d] + n
      /\ \A x, y \in M : place[x] = place[y] => x = y
  <2>1. /\ \A p \in M : Cardinality(Lower(M, p)) \in 0 .. n
        /\ \A p, q \in M : Cardinality(Lower(M, p)) = Cardinality(Lower(M, q)) => p = q
    BY <1>2, <1>3, InTurn
  <2>2. \A x \in M : place[x] = oLen[d] + Cardinality(Lower(M, x))
    BY <1>3 DEF place
  <2>3. ASSUME NEW x \in M, NEW y \in M, place[x] = place[y] PROVE x = y
    <3>1. Cardinality(Lower(M, x)) \in Int /\ Cardinality(Lower(M, y)) \in Int
      BY <2>1
    <3>2. Cardinality(Lower(M, x)) = Cardinality(Lower(M, y))
      BY <1>2, <2>2, <2>3, <3>1
    <3> QED
      BY <2>1, <3>2
  <2> QED
    BY <1>2, <2>1, <2>2, <2>3
<1>10. \A x \in M : <<place[x]>> \notin DOMAIN cells[d]
  <2> SUFFICES ASSUME NEW x \in M, <<place[x]>> \in DOMAIN cells[d] PROVE FALSE
    OBVIOUS
  <2>1. oShape(d) = <<d>>
    BY <1>1, FillAssumption
  <2>2. \A k \in DOMAIN <<place[x]>> : <<place[x]>>[k] \in 0 .. fileLen[oShape(d)[k]] - 1
    BY <1>1 DEF CellsFit
  <2>3. place[x] \in 0 .. fileLen[d] - 1
    BY <2>1, <2>2
  <2> QED
    BY <1>2, <1>9, <2>3
<1>11. ASSUME NEW x \in 0 .. n - 1, NEW y \in 0 .. n - 1, place[x] = place[y] PROVE x = y
  <2>1. CASE x \in M /\ y \in M
    BY <1>9, <1>11, <2>1
  <2>2. CASE x \notin M /\ y \notin M
    <3>1. i.coord[d][x + 1] = i.coord[d][y + 1]
      <4>1. cells[d][<<place[x]>>] = i.coord[d][x + 1] /\ cells[d][<<place[y]>>] = i.coord[d][y + 1]
        BY <1>8, <2>2
      <4>2. <<place[x]>> = <<place[y]>>
        BY <1>11
      <4> QED
        BY <4>1, <4>2, Zenon
    <3>2. x + 1 \in 1 .. n /\ y + 1 \in 1 .. n
      BY <1>2
    <3>3. x + 1 = y + 1
      BY <1>2, <3>1, <3>2
    <3> QED
      BY <3>3
  <2>3. CASE x \in M /\ y \notin M
    BY <1>2, <1>7, <1>9, <1>11, <2>3
  <2>4. CASE x \notin M /\ y \in M
    BY <1>2, <1>7, <1>9, <1>11, <2>4
  <2> QED
    BY <2>1, <2>2, <2>3, <2>4
<1>12. ASSUME NEW x \in 0 .. n - 1 PROVE place[x] \in 0 .. oLen[d] + n
  BY <1>2, <1>7, <1>9
<1>13. ASSUME NEW x \in 0 .. n - 1, <<place[x]>> \in DOMAIN cells[d] PROVE cells[d][<<place[x]>>] = i.coord[d][x + 1]
  BY <1>8, <1>10, <1>13
<1>14. /\ \A x, y \in 0 .. n - 1 :
          NewPlace(i, d, x) \in 0 .. oLen[d] + n /\ (NewPlace(i, d, x) = NewPlace(i, d, y) => x = y)
       /\ \A x \in 0 .. n - 1 :
          <<NewPlace(i, d, x)>> \in DOMAIN cells[d] => cells[d][<<NewPlace(i, d, x)>>] = i.coord[d][x + 1]
  BY <1>5, <1>11, <1>12, <1>13
<1> QED
  BY <1>14 DEF WellPlaced, n

\* While a fill goes on, what it does to a variable stays.
FillSettled == UNCHANGED <<oLen, in, fwts, dimSlices, unusable>>
LEMMA SettledDims ==
  ASSUME FillSettled
  PROVE  /\ InputDims' = InputDims /\ OutputDims' = OutputDims
         /\ CommonDims(in)' = CommonDims(in) /\ ComparedDims(in)' = ComparedDims(in) /\ Usable' = Usable
         /\ \A d, x : PlaceOf(d, x)' = PlaceOf(d, x)
         /\ \A v : iTestShape(v)' = iTestShape(v) /\ oTestShape(v)' = oTestShape(v) /\ (BadDim(v)' <=> BadDim(v))
<1>1. oLen' = oLen /\ in' = in /\ fwts' = fwts /\ dimSlices' = dimSlices /\ unusable' = unusable
  BY DEF FillSettled
<1>2. InputDims' = InputDims /\ OutputDims' = OutputDims
  BY <1>1 DEF InputDims, OutputDims
<1>3. CommonDims(in)' = CommonDims(in)
  BY <1>1 DEF CommonDims
<1>4. ComparedDims(in)' = ComparedDims(in) /\ Usable' = Usable
  BY <1>1, <1>3 DEF ComparedDims, Usable
<1>5. \A d, x : PlaceOf(d, x)' = PlaceOf(d, x)
  BY <1>1 DEF PlaceOf
<1>6. \A v : iTestShape(v)' = iTestShape(v) /\ oTestShape(v)' = oTestShape(v)
  BY <1>1, <1>2 DEF iTestShape, oTestShape
<1>7. \A v : BadDim(v)' <=> BadDim(v)
  BY <1>1 DEF BadDim
<1> QED
  BY <1>2, <1>3, <1>4, <1>5, <1>6, <1>7
LEMMA SettledSlices ==
  ASSUME FillSettled
  PROVE  /\ \A v : FixedIn(v)' = FixedIn(v) /\ FixedOut(v)' = FixedOut(v)
         /\ \A v : Treatments(v)' = Treatments(v) /\ SlicesOf(v)' = SlicesOf(v)
         /\ \A v, s : Elements(v, s)' = Elements(v, s)
         /\ \A v, p : OutPos(v, p)' = OutPos(v, p) /\ Datum(v, p)' = Datum(v, p)
<1>1. oLen' = oLen /\ in' = in /\ fwts' = fwts /\ dimSlices' = dimSlices /\ unusable' = unusable
  BY DEF FillSettled
<1>2. /\ InputDims' = InputDims /\ OutputDims' = OutputDims
      /\ \A v : iTestShape(v)' = iTestShape(v) /\ oTestShape(v)' = oTestShape(v) /\ (BadDim(v)' <=> BadDim(v))
  BY SettledDims
<1>3. \A v : FixedIn(v)' = FixedIn(v)
  BY <1>1, <1>2 DEF FixedIn
<1>4. \A v : FixedOut(v)' = FixedOut(v)
  BY <1>1, <1>2 DEF FixedOut
<1>5. \A v : Treatments(v)' = Treatments(v)
  BY <1>1, <1>2, <1>3, <1>4 DEF Treatments
<1>6. \A v : SlicesOf(v)' = SlicesOf(v)
  BY <1>1, <1>2 DEF SlicesOf
<1>7. \A v, s : Elements(v, s)' = Elements(v, s)
  BY <1>1, <1>2 DEF Elements
<1>8. \A v, p : OutPos(v, p)' = OutPos(v, p)
  BY <1>1, <1>4 DEF OutPos
<1>9. \A v, p : InPos(v, p)' = InPos(v, p)
  BY <1>1, <1>3 DEF InPos
<1>10. \A v, p : Datum(v, p)' = Datum(v, p)
  BY <1>1, <1>9 DEF Datum
<1> QED
  BY <1>3, <1>4, <1>5, <1>6, <1>7, <1>8, <1>10

\* While nothing is written, what stands stays.
LEMMA FilledStays ==
  ASSUME FillSettled, cells' = cells
  PROVE  /\ PlacesApart => PlacesApart'
         /\ PlacesFollow => PlacesFollow'
         /\ SlicesWritten /\ written' = written => SlicesWritten'
         /\ FilledByCoordinate /\ phase' = phase => FilledByCoordinate'
<1>1. oLen' = oLen /\ in' = in /\ cells' = cells
  BY DEF FillSettled
<1>2. PlacesApart => PlacesApart'
  BY <1>1, SettledDims DEF PlacesApart, Positions
<1>3. PlacesFollow => PlacesFollow'
  BY <1>1, SettledDims DEF PlacesFollow, Positions
<1>4. SlicesWritten /\ written' = written => SlicesWritten'
  BY <1>1, SettledSlices DEF SlicesWritten, WrittenSlice
<1>5. FilledByCoordinate /\ phase' = phase => FilledByCoordinate'
  BY <1>1, SettledSlices, SettledDims DEF FilledByCoordinate
<1> QED
  BY <1>2, <1>3, <1>4, <1>5

\* Where the elements of a variable go.
Going == FillTyped /\ phase = "filling" /\ PlacesApart
LEMMA ShapeOfInput ==
  ASSUME FillTyped, NEW v \in DOMAIN in.shape
  PROVE  /\ iTestShape(v) \in Seq(Dims(v)) /\ Dims(v) \subseteq DOMAIN in.len
         /\ \A d \in DOMAIN in.len : in.len[d] \in Nat
<1>1. InputFits(in)
  BY FillAssumption DEF FillTyped
<1>2. in.shape[v] \in Seq(DOMAIN in.len) /\ \A d \in DOMAIN in.len : in.len[d] \in Nat
  BY <1>1 DEF InputFits
<1>3. iTestShape(v) \in Seq(Range(in.shape[v]) \ InputDims)
  BY <1>2, WithoutKeeps DEF Kept, iTestShape
<1>4. Range(in.shape[v]) \subseteq DOMAIN in.len
  BY <1>2 DEF Range
<1>5. Dims(v) \subseteq DOMAIN in.len
  BY <1>3, <1>4 DEF Dims, Range
<1>6. iTestShape(v) \in Seq(Dims(v))
  BY <1>3 DEF Dims, Range
<1> QED
  BY <1>2, <1>5, <1>6
LEMMA ElementPositions ==
  ASSUME FillTyped, NEW v \in DOMAIN in.shape, NEW s, NEW p \in Elements(v, s)
  PROVE  /\ p \in Elements(v, <<>>) /\ DOMAIN p = Dims(v) /\ p = [d \in Dims(v) |-> p[d]]
         /\ \A d \in Dims(v) : p[d] \in Positions(d)
<1> DEFINE Anywhere == UNION {0 .. in.len[d] - 1 : d \in Dims(v)}
<1>1. p \in [Dims(v) -> Anywhere] /\ \A d \in Dims(v) : p[d] < in.len[d]
  BY DEF Elements, Dims
<1>2. ASSUME NEW d \in Dims(v) PROVE p[d] \in Positions(d)
  <2>1. PICK e \in Dims(v) : p[d] \in 0 .. in.len[e] - 1
    BY <1>1
  <2>2. in.len[e] \in Nat /\ in.len[d] \in Nat
    BY ShapeOfInput
  <2> QED
    BY <1>1, <2>1, <2>2 DEF Positions
<1>3. p \in Elements(v, <<>>)
  BY DEF Elements
<1> QED
  BY <1>1, <1>2, <1>3
LEMMA GoesTo ==
  ASSUME Going, NEW v \in DOMAIN in.shape, "write" \in Treatments(v), NEW p \in Elements(v, <<>>),
         NEW k \in DOMAIN oShape(v)
  PROVE  OutPos(v, p)[k] = IF oShape(v)[k] \in Dims(v) THEN PlaceOf(oShape(v)[k], p[oShape(v)[k]])
                           ELSE IF oShape(v)[k] \in DOMAIN FixedOut(v) THEN FixedOut(v)[oShape(v)[k]] ELSE 0
<1> DEFINE d == oShape(v)[k]
<1>1. FitsFile(v)
  BY WrittenFits DEF Going, FillTyped
<1>2. d \in Dims(v) => d \notin DOMAIN FixedOut(v)
  BY <1>1 DEF FitsFile, FixedOut
<1>3. DOMAIN p = Dims(v)
  BY ElementPositions DEF Going
<1>4. OutPos(v, p)[k] = IF d \in DOMAIN FixedOut(v) THEN FixedOut(v)[d]
                        ELSE IF d \notin DOMAIN p THEN 0
                        ELSE IF d \in DOMAIN dimSlices THEN dimSlices[d][p[d]] ELSE p[d]
  BY DEF OutPos
<1> HIDE DEF d
<1>5. OutPos(v, p)[k] = IF d \in Dims(v) THEN PlaceOf(d, p[d])
                        ELSE IF d \in DOMAIN FixedOut(v) THEN FixedOut(v)[d] ELSE 0
  BY <1>2, <1>3, <1>4 DEF PlaceOf
<1> QED
  BY <1>5 DEF d
LEMMA ElementsApart ==
  ASSUME Going, NEW v \in DOMAIN in.shape, "write" \in Treatments(v),
         NEW p \in Elements(v, <<>>), NEW q \in Elements(v, <<>>), OutPos(v, p) = OutPos(v, q)
  PROVE  p = q
<1>1. FitsFile(v)
  BY WrittenFits DEF Going, FillTyped
<1>2. ASSUME NEW d \in Dims(v) PROVE p[d] = q[d]
  <2>1. PICK k \in DOMAIN oShape(v) : oShape(v)[k] = d
    BY <1>1 DEF FitsFile
  <2>2. OutPos(v, p)[k] = PlaceOf(d, p[d])
    BY <2>1, GoesTo
  <2>3. OutPos(v, q)[k] = PlaceOf(d, q[d])
    BY <2>1, GoesTo
  <2>4. p[d] \in Positions(d) /\ q[d] \in Positions(d) /\ d \in Usable
    BY <1>1, ElementPositions DEF Going, FitsFile
  <2> QED
    BY <2>2, <2>3, <2>4 DEF Going, PlacesApart
<1>3. /\ p = [d \in Dims(v) |-> p[d]] /\ q = [d \in Dims(v) |-> q[d]]
  BY ElementPositions DEF Going
<1>4. [d \in Dims(v) |-> p[d]] = [d \in Dims(v) |-> q[d]]
  BY <1>2
<1> QED
  BY <1>3, <1>4
LEMMA PlacesBounded ==
  ASSUME Going, NEW v \in DOMAIN in.shape, "write" \in Treatments(v), NEW d \in DOMAIN Output.len
  PROVE  \E b \in Nat : \A p \in Elements(v, <<>>), k \in DOMAIN oShape(v) :
            oShape(v)[k] = d => OutPos(v, p)[k] \in 0 .. b
<1> DEFINE b == IF d \in Dims(v) THEN oLen[d] + in.len[d]
                ELSE IF d \in DOMAIN FixedOut(v) THEN FixedOut(v)[d] ELSE 0
<1>1. FitsFile(v)
  BY WrittenFits DEF Going, FillTyped
<1>2. oLen[d] \in Nat /\ (d \in Dims(v) => in.len[d] \in Nat /\ d \in Usable)
  BY <1>1, ShapeOfInput DEF Going, FillTyped, FitsFile
<1>3. d \in DOMAIN FixedOut(v) => FixedOut(v)[d] \in Nat
  BY <1>1 DEF FitsFile
<1>4. b \in Nat
  BY <1>2, <1>3
<1>5. ASSUME NEW p \in Elements(v, <<>>), NEW k \in DOMAIN oShape(v), oShape(v)[k] = d
      PROVE  OutPos(v, p)[k] \in 0 .. b
  <2>1. OutPos(v, p)[k] = IF d \in Dims(v) THEN PlaceOf(d, p[d])
                          ELSE IF d \in DOMAIN FixedOut(v) THEN FixedOut(v)[d] ELSE 0
    BY <1>5, GoesTo
  <2>2. CASE d \in Dims(v)
    <3>1. p[d] \in Positions(d)
      BY <2>2, ElementPositions DEF Going
    <3>2. PlaceOf(d, p[d]) \in 0 .. oLen[d] + in.len[d]
      BY <1>2, <2>2, <3>1 DEF Going, PlacesApart
    <3> QED
      BY <2>1, <2>2, <3>2
  <2>3. CASE d \notin Dims(v)
    BY <1>3, <2>1, <2>3
  <2> QED
    BY <2>2, <2>3
<1> QED
  BY <1>4, <1>5

\* What writing a slice does.
Chunk(v) == Elements(v, SlicesOf(v)[written[v] + 1])
CellsPut(v) ==
    /\ DOMAIN cells' = oVars /\ \A w \in oVars : w # v => cells'[w] = cells[w]
    /\ DOMAIN cells'[v] = DOMAIN cells[v] \cup {OutPos(v, p) : p \in Chunk(v)}
    /\ \A o \in DOMAIN cells[v] : o \notin {OutPos(v, p) : p \in Chunk(v)} => cells'[v][o] = cells[v][o]
    /\ \A p \in Chunk(v) : cells'[v][OutPos(v, p)] = Datum(v, p)
LengthsPut(v) ==
    /\ fileLen' \in [DOMAIN Output.len -> Nat] /\ \A d \in DOMAIN Output.len : fileLen[d] <= fileLen'[d]
    /\ \A p \in Chunk(v), k \in DOMAIN oShape(v) : OutPos(v, p)[k] \in 0 .. fileLen'[oShape(v)[k]] - 1
LEMMA PutsCells ==
  ASSUME Going, NEW v \in DOMAIN in.shape, FillSlice(v)
  PROVE  CellsPut(v)
<1> DEFINE put == {<<OutPos(v, p), Datum(v, p)>> : p \in Chunk(v)}
           at == {c[1] : c \in put}
           new == [o \in DOMAIN cells[v] \cup at |-> IF o \in at THEN (CHOOSE c \in put : c[1] = o)[2] ELSE cells[v][o]]
<1>1. "write" \in Treatments(v)
  BY DEF FillSlice
<1>2. v \in oVars /\ DOMAIN cells = oVars
  BY <1>1, WrittenFits DEF Going, FillTyped, FitsFile
<1>3. cells' = [cells EXCEPT ![v] = new]
  BY DEF FillSlice, Chunk
<1>4. at = {OutPos(v, p) : p \in Chunk(v)}
  <2>1. ASSUME NEW c \in put PROVE c[1] \in {OutPos(v, p) : p \in Chunk(v)}
    OBVIOUS
  <2>2. ASSUME NEW p \in Chunk(v) PROVE OutPos(v, p) \in at
    <3>1. <<OutPos(v, p), Datum(v, p)>> \in put
      OBVIOUS
    <3>2. <<OutPos(v, p), Datum(v, p)>>[1] = OutPos(v, p)
      OBVIOUS
    <3> QED
      BY <3>1, <3>2
  <2> HIDE DEF put
  <2> QED
    BY <2>1, <2>2
<1>5. ASSUME NEW p \in Chunk(v) PROVE (CHOOSE c \in put : c[1] = OutPos(v, p))[2] = Datum(v, p)
  <2> DEFINE one == <<OutPos(v, p), Datum(v, p)>>
             c == CHOOSE b \in put : b[1] = OutPos(v, p)
  <2>1. one \in put /\ one[1] = OutPos(v, p) /\ one[2] = Datum(v, p)
    OBVIOUS
  <2>2. c \in put /\ c[1] = OutPos(v, p)
    <3> HIDE DEF put, one
    <3> QED
      BY <2>1
  <2> HIDE DEF c, one
  <2>3. PICK q \in Chunk(v) : c = <<OutPos(v, q), Datum(v, q)>>
    BY <2>2
  <2>4. OutPos(v, q) = OutPos(v, p)
    BY <2>2, <2>3
  <2>5. p \in Elements(v, <<>>) /\ q \in Elements(v, <<>>)
    BY ElementPositions DEF Chunk, Going
  <2>6. p = q
    BY <1>1, <2>4, <2>5, ElementsApart
  <2>7. c[2] = Datum(v, p)
    BY <2>3, <2>6
  <2> QED
    BY <2>7 DEF c
<1> HIDE DEF put, at
<1>6. new = [o \in DOMAIN cells[v] \cup at |-> IF o \in at THEN (CHOOSE c \in put : c[1] = o)[2] ELSE cells[v][o]]
  OBVIOUS
<1> HIDE DEF new
<1>7. cells'[v] = new /\ DOMAIN cells' = oVars /\ \A w \in oVars : w # v => cells'[w] = cells[w]
  BY <1>2, <1>3
<1>8. DOMAIN new = DOMAIN cells[v] \cup {OutPos(v, p) : p \in Chunk(v)}
  BY <1>4, <1>6
<1>9. \A o \in DOMAIN cells[v] : o \notin {OutPos(v, p) : p \in Chunk(v)} => new[o] = cells[v][o]
  BY <1>4, <1>6
<1>10. ASSUME NEW p \in Chunk(v) PROVE new[OutPos(v, p)] = Datum(v, p)
  <2>1. OutPos(v, p) \in at
    BY <1>4
  <2>2. new[OutPos(v, p)] = (CHOOSE c \in put : c[1] = OutPos(v, p))[2]
    BY <1>6, <2>1
  <2> QED
    BY <1>5, <2>2
<1> QED
  BY <1>7, <1>8, <1>9, <1>10 DEF CellsPut

LEMMA GreatestIn ==
  ASSUME NEW n \in Nat, NEW S, S \subseteq 0 .. n, S # {}
  PROVE  Max(S) \in S /\ \A x \in S : x <= Max(S)
<1> DEFINE T == {n - x : x \in S}
<1>1. T \subseteq Nat /\ T # {}
  <2>1. \A x \in S : n - x \in Nat
    OBVIOUS
  <2>2. PICK x \in S : TRUE
    OBVIOUS
  <2>3. n - x \in T
    OBVIOUS
  <2> QED
    BY <2>1, <2>3
<1>2. Min(T) \in T /\ \A t \in T : Min(T) <= t
  <2>1. IsWellFoundedOn(OpToRel(<, Nat), Nat)
    BY NatLessThanWellFounded
  <2> HIDE DEF T
  <2>2. PICK m \in T : \A t \in T : ~ (<<t, m>> \in OpToRel(<, Nat))
    BY <1>1, <2>1, WFMin
  <2>3. \A t \in T : m <= t
    <3>1. \A t \in T : ~ (t < m)
      BY <1>1, <2>2 DEF OpToRel
    <3> QED
      BY <1>1, <3>1
  <2> QED
    BY <2>3 DEF Min
<1>3. PICK m \in S : Min(T) = n - m
  BY <1>2
<1>4. ASSUME NEW x \in S PROVE m >= x
  <2>1. n - x \in T
    OBVIOUS
  <2>2. n - m <= n - x
    BY <1>2, <1>3, <2>1
  <2>3. m \in Int /\ x \in Int
    OBVIOUS
  <2> QED
    BY <2>2, <2>3
<1>5. Max(S) \in S /\ \A x \in S : Max(S) >= x
  BY <1>4 DEF Max
<1>6. \A x \in S : x \in Int
  OBVIOUS
<1> QED
  BY <1>5, <1>6
LEMMA PutsLengths ==
  ASSUME Going, NEW v \in DOMAIN in.shape, FillSlice(v)
  PROVE  LengthsPut(v)
<1> DEFINE D == DOMAIN Output.len
           put == {<<OutPos(v, p), Datum(v, p)>> : p \in Chunk(v)}
           at == {c[1] : c \in put}
           Ends(d) == {fileLen[d]} \cup Reached(oShape(v), d, at)
<1>1. "write" \in Treatments(v)
  BY DEF FillSlice
<1>2. fileLen \in [D -> Nat] /\ v \in oVars
  BY <1>1, WrittenFits DEF Going, FillTyped, FitsFile
<1>3. fileLen' = [d \in D |-> Max(Ends(d))]
  <2>2. fileLen' = [d \in DOMAIN fileLen |-> Max(Ends(d))]
    BY Zenon DEF FillSlice, Chunk
  <2>3. DOMAIN fileLen = D
    BY <1>2
  <2> QED
    BY <2>2, <2>3
<1>10. at = {OutPos(v, p) : p \in Chunk(v)}
  <2>1. \A p : <<OutPos(v, p), Datum(v, p)>>[1] = OutPos(v, p)
    OBVIOUS
  <2> QED
    BY <2>1
<1> HIDE DEF at, put
<1>4. oShape(v) \in Seq(D)
  BY <1>2, FillAssumption
<1>5. Chunk(v) \subseteq Elements(v, <<>>)
  BY ElementPositions DEF Chunk, Going
<1>6. ASSUME NEW d \in D PROVE Max(Ends(d)) \in Nat /\ \A x \in Ends(d) : x <= Max(Ends(d))
  <2>1. PICK b \in Nat : \A p \in Elements(v, <<>>), k \in DOMAIN oShape(v) :
                            oShape(v)[k] = d => OutPos(v, p)[k] \in 0 .. b
    BY <1>1, PlacesBounded
  <2>2. fileLen[d] \in Nat
    BY <1>2
  <2>3. Ends(d) \subseteq 0 .. fileLen[d] + b + 1
    <3>1. ASSUME NEW p \in Chunk(v), NEW k \in DOMAIN oShape(v), oShape(v)[k] = d
          PROVE  OutPos(v, p)[k] + 1 \in 0 .. fileLen[d] + b + 1
      <4>1. OutPos(v, p)[k] \in 0 .. b
        BY <1>5, <2>1, <3>1
      <4> QED
        BY <2>2, <4>1
    <3>2. fileLen[d] \in 0 .. fileLen[d] + b + 1
      BY <2>2
    <3>3. Reached(oShape(v), d, at) \subseteq 0 .. fileLen[d] + b + 1
      BY <1>10, <3>1 DEF Reached
    <3> QED
      BY <3>2, <3>3
  <2>4. Ends(d) # {} /\ fileLen[d] + b + 1 \in Nat
    BY <2>2
  <2> HIDE DEF Ends
  <2>5. Max(Ends(d)) \in Ends(d) /\ \A x \in Ends(d) : x <= Max(Ends(d))
    BY <2>3, <2>4, GreatestIn
  <2> QED
    BY <2>2, <2>3, <2>5
<1>7. ASSUME NEW d \in D PROVE fileLen[d] <= fileLen'[d]
  <2>1. fileLen[d] \in Ends(d)
    OBVIOUS
  <2> HIDE DEF Ends
  <2> QED
    BY <1>3, <1>6, <2>1
<1>8. ASSUME NEW p \in Chunk(v), NEW k \in DOMAIN oShape(v)
      PROVE  OutPos(v, p)[k] \in 0 .. fileLen'[oShape(v)[k]] - 1
  <2>1. oShape(v)[k] \in D
    BY <1>4
  <2>2. OutPos(v, p)[k] + 1 \in Ends(oShape(v)[k])
    BY <1>10 DEF Reached
  <2>3. PICK b \in Nat : OutPos(v, p)[k] \in 0 .. b
    BY <1>1, <1>5, <2>1, PlacesBounded
  <2> HIDE DEF Ends
  <2> QED
    BY <1>3, <1>6, <2>1, <2>2, <2>3
<1>9. fileLen' \in [D -> Nat]
  <2> HIDE DEF Ends
  <2> QED
    BY <1>3, <1>6
<1> QED
  BY <1>7, <1>8, <1>9 DEF LengthsPut

\* A coordinate variable is written to the places of its dimension.
LEMMA CoordinateShape ==
  ASSUME FillTyped, NEW d \in ComparedDims(in), d \notin InputDims
  PROVE  /\ d \in DOMAIN in.shape /\ in.shape[d] = <<d>> /\ oShape(d) = <<d>> /\ d \in oVars
         /\ iTestShape(d) = <<d>> /\ Dims(d) = {d}
<1>1. d \in DOMAIN in.coord /\ d \in oVars /\ d \in DOMAIN Output.len
  BY DEF ComparedDims, CommonDims, FillTyped
<1>2. InputFits(in)
  BY FillAssumption DEF FillTyped
<1>3. d \in DOMAIN in.shape /\ in.shape[d] = <<d>>
  BY <1>1, <1>2 DEF InputFits
<1>4. oShape(d) = <<d>>
  BY <1>1, FillAssumption
<1>5. iTestShape(d) = <<d>>
  BY <1>3, WithoutOne DEF iTestShape
<1>6. Dims(d) = {d}
  BY <1>5 DEF Dims, Range
<1> QED
  BY <1>1, <1>3, <1>4, <1>5, <1>6
LEMMA CoordinateGoes ==
  ASSUME Going, NEW d \in ComparedDims(in), d \notin InputDims, "write" \in Treatments(d), NEW p \in Elements(d, <<>>)
  PROVE  /\ p[d] \in Positions(d)
         /\ OutPos(d, p) = <<PlaceOf(d, p[d])>> /\ Datum(d, p) = in.coord[d][p[d] + 1]
<1>1. /\ d \in DOMAIN in.shape /\ in.shape[d] = <<d>> /\ oShape(d) = <<d>> /\ Dims(d) = {d}
  BY CoordinateShape DEF Going
<1>2. DOMAIN p = {d} /\ p[d] \in Positions(d)
  BY <1>1, ElementPositions DEF Going
<1>3. OutPos(d, p)[1] = PlaceOf(d, p[d])
  <2>1. 1 \in DOMAIN oShape(d) /\ oShape(d)[1] = d
    BY <1>1
  <2> QED
    BY <1>1, <2>1, GoesTo
<1>4. OutPos(d, p) = <<PlaceOf(d, p[d])>>
  <2> DEFINE o == OutPos(d, p)
  <2>1. DOMAIN oShape(d) = 1 .. 1
    BY <1>1
  <2>2. DOMAIN o = 1 .. 1 /\ o = [k \in 1 .. 1 |-> o[k]]
    BY <2>1 DEF OutPos
  <2> HIDE DEF o
  <2>3. o[1] = PlaceOf(d, p[d])
    BY <1>3 DEF o
  <2>4. o = [k \in 1 .. 1 |-> PlaceOf(d, p[d])]
    BY <2>2, <2>3
  <2>5. o = <<PlaceOf(d, p[d])>>
    BY <2>4
  <2> QED
    BY <2>5 DEF o
<1>5. InPos(d, p)[1] = p[d]
  <2>1. 1 \in DOMAIN in.shape[d] /\ in.shape[d][1] = d
    BY <1>1
  <2> QED
    BY <1>2, <2>1 DEF InPos
<1>6. d \in DOMAIN in.coord
  BY DEF ComparedDims
<1> QED
  BY <1>2, <1>4, <1>5, <1>6 DEF Datum
LEMMA CoordinateIsWritten ==
  ASSUME FillTyped, NEW d \in ComparedDims(in) \cap Usable, d \notin InputDims, d \notin OutputDims
  PROVE  "write" \in Treatments(d)
<1>1. /\ d \in DOMAIN in.shape /\ in.shape[d] = <<d>> /\ oShape(d) = <<d>> /\ d \in oVars
      /\ iTestShape(d) = <<d>>
  BY CoordinateShape
<1>2. oTestShape(d) = <<d>>
  BY <1>1, WithoutOne DEF oTestShape
<1>3. Range(<<d>>) = {d}
  BY DEF Range
<1>4. ~BadDim(d)
  BY <1>1, <1>3 DEF BadDim, Usable
<1>5. Range(FixedIn(d)) = {} /\ Range(FixedOut(d)) = {}
  <2>1. DOMAIN FixedIn(d) = {}
    BY <1>1, <1>3 DEF FixedIn
  <2>2. DOMAIN FixedOut(d) = {}
    BY <1>1, <1>3 DEF FixedOut
  <2> QED
    BY <2>1, <2>2 DEF Range
<1>6. ~ (\E k \in DOMAIN iTestShape(d) \cap DOMAIN oTestShape(d) : iTestShape(d)[k] # oTestShape(d)[k])
  BY <1>1, <1>2
<1>7. Len(iTestShape(d)) = 1 /\ Len(oTestShape(d)) = 1
  BY <1>1, <1>2
<1>8. ~ (Len(iTestShape(d)) > Len(oTestShape(d))) /\ Len(iTestShape(d)) + 1 .. Len(oTestShape(d)) = {}
  BY <1>7
<1>9. ~ (\E k \in Len(iTestShape(d)) + 1 .. Len(oTestShape(d)) : oLen[oTestShape(d)[k]] # 1)
  BY <1>8
<1>10. -1 \notin Range(FixedIn(d)) \cup Range(FixedOut(d))
  BY <1>5
<1>11. ~ (d \notin oVars \/ BadDim(d)) /\ ~ (Len(iTestShape(d)) > Len(oTestShape(d)))
  BY <1>1, <1>4, <1>8
<1>12. Treatments(d) = {"write"}
  BY <1>6, <1>9, <1>10, <1>11, Zenon DEF Treatments
<1> QED
  BY <1>12

LEMMA FillInitially == FillInit => FillInv
<1> SUFFICES ASSUME FillInit PROVE FillInv
  OBVIOUS
<1>1. /\ cells = Output.cells /\ fileLen = Output.len /\ oLen = Output.len /\ in \in Inputs /\ phase = "closed"
  BY DEF FillInit
<1>2. Output.len \in [DOMAIN Output.len -> Nat] /\ DOMAIN Output.cells = oVars
  BY FillAssumption
<1>3. FillTyped
  BY <1>1, <1>2 DEF FillTyped
<1>4. CellsFit
  <2> SUFFICES ASSUME NEW v \in oVars, NEW o \in DOMAIN Output.cells[v]
               PROVE  DOMAIN o = DOMAIN oShape(v) /\ \A k \in DOMAIN o : o[k] \in 0 .. Output.len[oShape(v)[k]] - 1
    BY <1>1 DEF CellsFit
  <2> QED
    BY FillAssumption
<1>5. FilledByCoordinate
  BY <1>1 DEF FilledByCoordinate
<1> QED
  BY <1>1, <1>3, <1>4, <1>5 DEF FillInv

\* A writer is made for each fill: it knows the lengths of the file.
LEMMA OpenKeeps == ASSUME ~ReuseWriter, FillInv, Open PROVE FillInv'
<1>1. /\ phase' = "open" /\ oLen' = fileLen
      /\ UNCHANGED <<cells, fileLen, in, fwts, dimSlices, unusable, written, fills>>
  BY DEF Open
<1>2. FillTyped'
  BY <1>1 DEF FillInv, FillTyped
<1>3. CellsFit'
  BY <1>1 DEF FillInv, CellsFit
<1>4. FilledByCoordinate'
  BY <1>1 DEF FilledByCoordinate
<1> QED
  BY <1>1, <1>2, <1>3, <1>4 DEF FillInv

LEMMA BeginKeeps == ASSUME FillInv, Begin PROVE FillInv'
<1>1. /\ phase = "open" /\ UNCHANGED <<cells, fileLen, oLen>>
      /\ phase' = "filling" \/ phase' = "failed"
  BY DEF Begin
<1>2. PICK i \in Inputs, t \in Translations :
        /\ in' = i /\ fwts' = t
        /\ dimSlices' = [d \in ChangedDims(i) |-> CurrentSlices(i, d)]
        /\ unusable' = UnusableIDims(i)
        /\ written' = [v \in DOMAIN i.shape |-> 0]
  BY DEF Begin
<1>3. FillTyped /\ CellsFit /\ oLen = fileLen
  BY <1>1 DEF FillInv
<1>4. FillTyped'
  BY <1>1, <1>2, <1>3 DEF FillTyped
<1>5. CellsFit'
  BY <1>1, <1>3 DEF CellsFit
<1>6. FilledByCoordinate'
  BY <1>1 DEF FilledByCoordinate
<1>7. Usable' = CommonDims(i) \ UnusableIDims(i) /\ ComparedDims(in)' = ComparedDims(i)
  BY <1>1, <1>2 DEF Usable, CommonDims, ComparedDims
<1>8. ASSUME NEW d \in Usable' PROVE WellPlaced(i, d)
  <2>1. CASE d \in ComparedDims(i)
    BY <1>3, <1>7, <2>1, ComparedPlaced
  <2>2. CASE d \notin ComparedDims(i)
    BY <1>3, <1>7, <2>2, UncomparedPlaced
  <2> QED
    BY <2>1, <2>2
<1>9. \A d, x : PlaceOf(d, x)' = NewPlace(i, d, x)
  BY <1>2 DEF PlaceOf, NewPlace
<1>10. PlacesApart'
  BY <1>1, <1>2, <1>8, <1>9 DEF PlacesApart, WellPlaced, Positions
<1>11. PlacesFollow'
  BY <1>1, <1>2, <1>7, <1>8, <1>9 DEF PlacesFollow, WellPlaced, Positions
<1>12. SlicesWritten'
  <2>1. \A v \in DOMAIN in'.shape : written'[v] = 0
    BY <1>2
  <2> QED
    BY <2>1 DEF SlicesWritten
<1> QED
  BY <1>1, <1>4, <1>5, <1>6, <1>10, <1>11, <1>12 DEF FillInv

LEMMA SliceGoing ==
  ASSUME FillInv, NEW v \in DOMAIN in.shape, FillSlice(v)
  PROVE  /\ Going /\ FillSettled /\ phase' = "filling" /\ "write" \in Treatments(v)
         /\ CellsPut(v) /\ LengthsPut(v) /\ v \in oVars
         /\ Chunk(v) \subseteq Elements(v, <<>>)
         /\ written' = [written EXCEPT ![v] = @ + 1]
<1>1. /\ phase = "filling" /\ phase' = phase /\ "write" \in Treatments(v) /\ UNCHANGED <<oLen, in, fwts, dimSlices, unusable>>
      /\ written' = [written EXCEPT ![v] = @ + 1]
  BY DEF FillSlice
<1>2. Going
  BY <1>1 DEF FillInv, Going
<1>3. CellsPut(v) /\ LengthsPut(v)
  BY <1>2, PutsCells, PutsLengths
<1>4. v \in oVars
  BY <1>1, <1>2, WrittenFits DEF Going, FillTyped, FitsFile
<1>5. Chunk(v) \subseteq Elements(v, <<>>)
  BY <1>2, ElementPositions DEF Chunk, Going
<1> QED
  BY <1>1, <1>2, <1>3, <1>4, <1>5 DEF FillSettled

LEMMA SliceCellsFit ==
  ASSUME FillInv, NEW v \in DOMAIN in.shape, FillSlice(v)
  PROVE  FillTyped' /\ CellsFit'
<1>1. Going /\ FillSettled /\ phase' = "filling" /\ written' = [written EXCEPT ![v] = @ + 1] /\ v \in oVars
  BY SliceGoing
<1>2. /\ DOMAIN cells' = oVars /\ \A w \in oVars : w # v => cells'[w] = cells[w]
      /\ DOMAIN cells'[v] = DOMAIN cells[v] \cup {OutPos(v, p) : p \in Chunk(v)}
  BY SliceGoing DEF CellsPut
<1>3. /\ fileLen' \in [DOMAIN Output.len -> Nat] /\ \A d \in DOMAIN Output.len : fileLen[d] <= fileLen'[d]
      /\ \A p \in Chunk(v), k \in DOMAIN oShape(v) : OutPos(v, p)[k] \in 0 .. fileLen'[oShape(v)[k]] - 1
  BY SliceGoing DEF LengthsPut
<1>4. FillTyped'
  BY <1>1, <1>2, <1>3 DEF FillTyped, FillSettled, Going
<1>5. ASSUME NEW w \in oVars, NEW o \in DOMAIN cells[w]
      PROVE  DOMAIN o = DOMAIN oShape(w) /\ \A k \in DOMAIN o : o[k] \in 0 .. fileLen'[oShape(w)[k]] - 1
  <2>1. DOMAIN o = DOMAIN oShape(w) /\ \A k \in DOMAIN o : o[k] \in 0 .. fileLen[oShape(w)[k]] - 1
    BY DEF FillInv, CellsFit
  <2>2. oShape(w) \in Seq(DOMAIN Output.len)
    BY FillAssumption
  <2>3. ASSUME NEW k \in DOMAIN o PROVE o[k] \in 0 .. fileLen'[oShape(w)[k]] - 1
    <3>1. oShape(w)[k] \in DOMAIN Output.len
      BY <2>1, <2>2
    <3>2. fileLen[oShape(w)[k]] \in Nat /\ fileLen'[oShape(w)[k]] \in Nat
      BY <1>1, <1>3, <3>1 DEF Going, FillTyped
    <3> QED
      BY <1>3, <2>1, <3>1, <3>2
  <2> QED
    BY <2>1, <2>3
<1>6. ASSUME NEW p \in Chunk(v)
      PROVE  LET o == OutPos(v, p)
             IN DOMAIN o = DOMAIN oShape(v) /\ \A k \in DOMAIN o : o[k] \in 0 .. fileLen'[oShape(v)[k]] - 1
  <2>1. DOMAIN OutPos(v, p) = DOMAIN oShape(v)
    BY DEF OutPos
  <2> QED
    BY <1>3, <2>1
<1>7. ASSUME NEW w \in oVars, NEW o \in DOMAIN cells'[w]
      PROVE  DOMAIN o = DOMAIN oShape(w) /\ \A k \in DOMAIN o : o[k] \in 0 .. fileLen'[oShape(w)[k]] - 1
  <2>1. CASE o \in DOMAIN cells[w]
    BY <1>5, <2>1
  <2>2. CASE o \notin DOMAIN cells[w]
    <3>1. w = v
      BY <1>2, <2>2
    <3>2. PICK p \in Chunk(v) : o = OutPos(v, p)
      BY <1>2, <2>2, <3>1
    <3> QED
      BY <1>6, <3>1, <3>2
  <2> QED
    BY <2>1, <2>2
<1>8. CellsFit'
  BY <1>7 DEF CellsFit
<1> QED
  BY <1>4, <1>8

LEMMA SliceFollows ==
  ASSUME FillInv, NEW v \in DOMAIN in.shape, FillSlice(v)
  PROVE  PlacesFollow'
<1>1. Going /\ FillSettled /\ "write" \in Treatments(v) /\ Chunk(v) \subseteq Elements(v, <<>>) /\ PlacesFollow
  BY SliceGoing DEF FillInv, Going
<1>2. /\ \A w \in oVars : w # v => cells'[w] = cells[w]
      /\ DOMAIN cells'[v] = DOMAIN cells[v] \cup {OutPos(v, p) : p \in Chunk(v)}
      /\ \A o \in DOMAIN cells[v] : o \notin {OutPos(v, p) : p \in Chunk(v)} => cells'[v][o] = cells[v][o]
      /\ \A p \in Chunk(v) : cells'[v][OutPos(v, p)] = Datum(v, p)
  BY SliceGoing DEF CellsPut
<1>3. ASSUME NEW d \in (ComparedDims(in) \cap Usable) \ InputDims, NEW x \in Positions(d),
             <<PlaceOf(d, x)>> \in DOMAIN cells'[d]
      PROVE  cells'[d][<<PlaceOf(d, x)>>] = in.coord[d][x + 1]
  <2> DEFINE o == <<PlaceOf(d, x)>>
  <2>1. o \in DOMAIN cells[d] => cells[d][o] = in.coord[d][x + 1]
    BY <1>1 DEF PlacesFollow
  <2>2. d \in oVars
    BY DEF ComparedDims
  <2>3. CASE d = v /\ o \in {OutPos(v, p) : p \in Chunk(v)}
    <3>1. PICK p \in Chunk(v) : o = OutPos(v, p)
      BY <2>3
    <3>2. p[d] \in Positions(d) /\ o = <<PlaceOf(d, p[d])>> /\ Datum(d, p) = in.coord[d][p[d] + 1]
      BY <1>1, <2>3, <3>1, CoordinateGoes
    <3>3. PlaceOf(d, x) = PlaceOf(d, p[d])
      BY <3>2
    <3>4. x = p[d]
      BY <1>1, <3>2, <3>3 DEF Going, PlacesApart
    <3>5. cells'[d][o] = Datum(d, p)
      BY <1>2, <2>3, <3>1
    <3> QED
      BY <3>2, <3>4, <3>5
  <2>4. CASE d = v /\ o \notin {OutPos(v, p) : p \in Chunk(v)}
    <3>1. o \in DOMAIN cells[d]
      BY <1>2, <1>3, <2>4
    <3>2. cells'[d][o] = cells[d][o]
      BY <1>2, <2>4, <3>1
    <3> QED
      BY <2>1, <3>1, <3>2
  <2>5. CASE d # v
    BY <1>2, <1>3, <2>1, <2>2, <2>5
  <2> QED
    BY <2>3, <2>4, <2>5
<1>4. in' = in
  BY <1>1 DEF FillSettled
<1> QED
  BY <1>1, <1>3, <1>4, SettledDims DEF PlacesFollow, Positions

LEMMA SliceIsWritten ==
  ASSUME FillInv, NEW v \in DOMAIN in.shape, FillSlice(v)
  PROVE  SlicesWritten'
<1>1. /\ Going /\ FillSettled /\ "write" \in Treatments(v) /\ Chunk(v) \subseteq Elements(v, <<>>) /\ SlicesWritten
      /\ written' = [written EXCEPT ![v] = @ + 1]
  BY SliceGoing DEF FillInv, Going
<1>2. /\ \A w \in oVars : w # v => cells'[w] = cells[w]
      /\ DOMAIN cells'[v] = DOMAIN cells[v] \cup {OutPos(v, p) : p \in Chunk(v)}
      /\ \A o \in DOMAIN cells[v] : o \notin {OutPos(v, p) : p \in Chunk(v)} => cells'[v][o] = cells[v][o]
      /\ \A p \in Chunk(v) : cells'[v][OutPos(v, p)] = Datum(v, p)
  BY SliceGoing DEF CellsPut
<1>3. in' = in /\ written \in [DOMAIN in.shape -> Nat]
  BY <1>1 DEF FillSettled, Going, FillTyped
<1>4. ASSUME NEW w \in DOMAIN in.shape, "write" \in Treatments(w), NEW n \in 1 .. written'[w],
             NEW p \in Elements(w, SlicesOf(w)[n])
      PROVE  OutPos(w, p) \in DOMAIN cells'[w] /\ cells'[w][OutPos(w, p)] = Datum(w, p)
  <2>1. w \in oVars
    BY <1>1, <1>4, WrittenFits DEF Going, FillTyped, FitsFile
  <2>2. n \in 1 .. written[w] =>
            OutPos(w, p) \in DOMAIN cells[w] /\ cells[w][OutPos(w, p)] = Datum(w, p)
    BY <1>1, <1>4 DEF SlicesWritten, WrittenSlice
  <2>3. CASE w # v
    BY <1>1, <1>2, <1>3, <2>1, <2>2, <2>3
  <2>4. CASE w = v /\ OutPos(v, p) \in {OutPos(v, q) : q \in Chunk(v)}
    <3>1. PICK q \in Chunk(v) : OutPos(v, p) = OutPos(v, q)
      BY <2>4
    <3>2. p \in Elements(v, <<>>)
      BY <1>1, <2>4, ElementPositions DEF Going
    <3>3. p = q
      BY <1>1, <3>1, <3>2, ElementsApart
    <3> QED
      BY <1>2, <2>4, <3>3
  <2>5. CASE w = v /\ OutPos(v, p) \notin {OutPos(v, q) : q \in Chunk(v)}
    <3>1. n \in 1 .. written[v]
      <4>1. written'[v] = written[v] + 1 /\ written[v] \in Nat
        BY <1>1, <1>3
      <4>2. n # written[v] + 1
        BY <2>5 DEF Chunk
      <4> QED
        BY <2>5, <4>1, <4>2
    <3> QED
      BY <1>2, <2>2, <2>5, <3>1
  <2> QED
    BY <2>3, <2>4, <2>5
<1> QED
  BY <1>1, <1>3, <1>4, SettledSlices DEF SlicesWritten, WrittenSlice

LEMMA FillSliceKeeps == ASSUME FillInv, NEW v \in DOMAIN in.shape, FillSlice(v) PROVE FillInv'
<1>1. FillSettled /\ phase' = "filling" /\ PlacesApart
  BY SliceGoing DEF Going
<1>2. PlacesApart'
  <2>1. oLen' = oLen /\ in' = in
    BY <1>1 DEF FillSettled
  <2> QED
    BY <1>1, <2>1, SettledDims DEF PlacesApart, Positions
<1>3. FilledByCoordinate'
  BY <1>1 DEF FilledByCoordinate
<1> QED
  BY <1>1, <1>2, <1>3, SliceCellsFit, SliceFollows, SliceIsWritten DEF FillInv

LEMMA AbortKeeps == ASSUME FillInv, Abort PROVE FillInv'
<1>1. phase' = "aborted" /\ UNCHANGED <<cells, fileLen, oLen, in>>
  BY DEF Abort
<1>2. FillTyped'
  BY <1>1 DEF FillInv, FillTyped
<1>3. CellsFit'
  BY <1>1 DEF FillInv, CellsFit
<1>4. FilledByCoordinate'
  BY <1>1 DEF FilledByCoordinate
<1> QED
  BY <1>1, <1>2, <1>3, <1>4 DEF FillInv

\* When all slices are written, every element is in one of them.
LEMMA ElementStands ==
  ASSUME Going, SlicesWritten, LoopDone, NEW v \in DOMAIN in.shape, "write" \in Treatments(v), NEW p \in Elements(v, <<>>)
  PROVE  OutPos(v, p) \in DOMAIN cells[v] /\ cells[v][OutPos(v, p)] = Datum(v, p)
<1> DEFINE slices == SlicesOf(v)
<1>1. written[v] = Len(slices)
  <2>1. Treatments(v) = {"write"}
    BY WrittenFits DEF Going, FillTyped, FitsFile
  <2> QED
    BY <2>1 DEF LoopDone
<1>2. /\ iTestShape(v) \in Seq(Dims(v)) /\ \A d \in Dims(v) : in.len[d] \in Nat
      /\ DOMAIN p = Dims(v) /\ \A d \in Dims(v) : p[d] \in 0 .. in.len[d] - 1
  BY ShapeOfInput, ElementPositions DEF Going, Positions
<1>3. InOne(p, slices)
  BY <1>2, SlicesCover DEF SlicesOf
<1>4. PICK j \in 1 .. Len(slices) : AgreesWith(p, slices[j])
  BY <1>3 DEF InOne
<1>5. p \in Elements(v, slices[j])
  <2>1. \A d \in DOMAIN slices[j] : p[d] = slices[j][d]
    BY <1>4 DEF AgreesWith
  <2> HIDE DEF slices
  <2> QED
    BY <2>1 DEF Elements
<1> QED
  BY <1>1, <1>4, <1>5 DEF SlicesWritten, WrittenSlice

LEMMA FinishFills ==
  ASSUME FillInv, Finish, NEW v \in DOMAIN in.shape, "write" \in Treatments(v), NEW p \in Elements(v, <<>>)
  PROVE  \E o \in DOMAIN cells[v] :
            /\ cells[v][o] = Datum(v, p)
            /\ \A k \in DOMAIN o : oShape(v)[k] \in ComparedDims(in) \cap DOMAIN p =>
                LET d == oShape(v)[k]
                IN <<o[k]>> \in DOMAIN cells[d] /\ cells[d][<<o[k]>>] = in.coord[d][p[d] + 1]
<1>1. phase = "filling" /\ LoopDone /\ Going /\ SlicesWritten
  BY DEF Finish, FillInv, Going
<1> DEFINE o == OutPos(v, p)
<1>2. o \in DOMAIN cells[v] /\ cells[v][o] = Datum(v, p)
  BY <1>1, ElementStands
<1>3. FitsFile(v)
  BY <1>1, WrittenFits DEF Going, FillTyped
<1>4. ASSUME NEW k \in DOMAIN o, oShape(v)[k] \in ComparedDims(in) \cap DOMAIN p
      PROVE  LET d == oShape(v)[k]
             IN <<o[k]>> \in DOMAIN cells[d] /\ cells[d][<<o[k]>>] = in.coord[d][p[d] + 1]
  <2> DEFINE d == oShape(v)[k]
             q == [e \in {d} |-> p[d]]
  <2>1. d \in Dims(v) /\ d \in ComparedDims(in) /\ p[d] \in Positions(d)
    BY <1>1, <1>4, ElementPositions DEF Going
  <2>2. d \in Usable /\ d \notin InputDims /\ d \notin OutputDims
    BY <1>3, <2>1 DEF FitsFile
  <2>3. "write" \in Treatments(d)
    BY <1>1, <2>1, <2>2, CoordinateIsWritten DEF Going
  <2>4. d \in DOMAIN in.shape /\ Dims(d) = {d}
    BY <1>1, <2>1, <2>2, CoordinateShape DEF Going
  <2>5. o[k] = PlaceOf(d, p[d])
    <3>1. k \in DOMAIN oShape(v)
      BY <1>4 DEF OutPos
    <3> QED
      BY <1>1, <2>1, <3>1, GoesTo
  <2> HIDE DEF d, o
  <2>6. q \in Elements(d, <<>>)
    BY <2>1, <2>4 DEF Elements, Positions, Dims
  <2>7. q[d] = p[d]
    OBVIOUS
  <2> HIDE DEF q
  <2>8. OutPos(d, q) = <<PlaceOf(d, p[d])>> /\ Datum(d, q) = in.coord[d][p[d] + 1]
    BY <1>1, <2>1, <2>2, <2>3, <2>6, <2>7, CoordinateGoes
  <2>9. OutPos(d, q) \in DOMAIN cells[d] /\ cells[d][OutPos(d, q)] = Datum(d, q)
    BY <1>1, <2>3, <2>4, <2>6, ElementStands
  <2>10. <<o[k]>> \in DOMAIN cells[d] /\ cells[d][<<o[k]>>] = in.coord[d][p[d] + 1]
    BY <2>5, <2>8, <2>9
  <2> QED
    BY <2>10 DEF d
<1> HIDE DEF o
<1> QED
  BY <1>2, <1>4

LEMMA FinishKeeps == ASSUME FillInv, Finish PROVE FillInv'
<1>1. /\ FillSettled /\ cells' = cells /\ fileLen' = fileLen
      /\ phase' \in {"threw", "returned"} /\ written' = written
  BY DEF Finish, FillSettled
<1>2. FillTyped'
  BY <1>1 DEF FillInv, FillTyped, FillSettled
<1>3. CellsFit'
  BY <1>1 DEF FillInv, CellsFit
<1>4. FilledByCoordinate'
  <2>1. in' = in
    BY <1>1 DEF FillSettled
  <2> QED
    BY <1>1, <2>1, FinishFills, SettledSlices, SettledDims DEF FilledByCoordinate
<1> QED
  BY <1>1, <1>2, <1>3, <1>4 DEF FillInv

LEMMA FillSteps == ASSUME ~ReuseWriter, FillInv, [FillNext]_fwVars PROVE FillInv'
<1>1. CASE UNCHANGED fwVars
  <2>1. /\ FillSettled /\ cells' = cells /\ written' = written /\ phase' = phase /\ fileLen' = fileLen
        /\ oLen' = oLen /\ in' = in /\ fwts' = fwts
    BY <1>1 DEF fwVars, FillSettled
  <2>2. FillTyped'
    BY <2>1 DEF FillInv, FillTyped
  <2>3. CellsFit'
    BY <2>1 DEF FillInv, CellsFit
  <2> QED
    BY <2>1, <2>2, <2>3, FilledStays DEF FillInv
<1>2. CASE Open
  BY <1>2, OpenKeeps
<1>3. CASE Begin
  BY <1>3, BeginKeeps
<1>4. CASE \E v \in DOMAIN in.shape : FillSlice(v)
  BY <1>4, FillSliceKeeps
<1>5. CASE Abort
  BY <1>5, AbortKeeps
<1>6. CASE Finish
  BY <1>6, FinishKeeps
<1> QED
  BY <1>1, <1>2, <1>3, <1>4, <1>5, <1>6 DEF FillNext

\* Of what was in the file a slice replaces only what has the same coordinates.
GivesWay(v, o, p) ==
    /\ cells'[v][o] = Datum(v, p)
    /\ \A k \in DOMAIN o : oShape(v)[k] \in ComparedDims(in) \cap DOMAIN p =>
        LET d == oShape(v)[k]
        IN <<o[k]>> \in DOMAIN cells[d] => cells[d][<<o[k]>>] = in.coord[d][p[d] + 1]
LEMMA SliceReplaces ==
  ASSUME FillInv, NEW v \in DOMAIN in.shape, FillSlice(v),
         NEW w \in oVars, NEW o \in DOMAIN cells[w], cells'[w][o] # cells[w][o]
  PROVE  \E p \in Elements(w, <<>>) : GivesWay(w, o, p)
<1>1. /\ Going /\ "write" \in Treatments(v) /\ Chunk(v) \subseteq Elements(v, <<>>) /\ PlacesFollow
      /\ CellsPut(v)
  BY SliceGoing DEF FillInv, Going
<1>2. w = v /\ o \in {OutPos(v, p) : p \in Chunk(v)}
  BY <1>1 DEF CellsPut
<1>3. PICK p \in Chunk(v) : o = OutPos(v, p)
  BY <1>2
<1>4. cells'[v][o] = Datum(v, p)
  BY <1>1, <1>3 DEF CellsPut
<1>5. FitsFile(v)
  BY <1>1, WrittenFits DEF Going, FillTyped
<1>6. ASSUME NEW k \in DOMAIN o, oShape(v)[k] \in ComparedDims(in) \cap DOMAIN p
      PROVE  LET d == oShape(v)[k]
             IN <<o[k]>> \in DOMAIN cells[d] => cells[d][<<o[k]>>] = in.coord[d][p[d] + 1]
  <2> DEFINE d == oShape(v)[k]
  <2>1. d \in Dims(v) /\ d \in ComparedDims(in) /\ p[d] \in Positions(d)
    BY <1>1, <1>6, ElementPositions DEF Going
  <2>2. d \in Usable /\ d \notin InputDims
    BY <1>5, <2>1 DEF FitsFile
  <2>3. o[k] = PlaceOf(d, p[d])
    <3>1. k \in DOMAIN oShape(v)
      BY <1>3, <1>6 DEF OutPos
    <3> QED
      BY <1>1, <1>3, <2>1, <3>1, GoesTo
  <2> HIDE DEF d
  <2>4. <<o[k]>> \in DOMAIN cells[d] => cells[d][<<o[k]>>] = in.coord[d][p[d] + 1]
    BY <1>1, <2>1, <2>2, <2>3 DEF PlacesFollow
  <2> QED
    BY <2>4 DEF d
<1>7. GivesWay(v, o, p)
  BY <1>4, <1>6 DEF GivesWay
<1> QED
  BY <1>1, <1>2, <1>7

(* Whatever the file, the inputs and the configurations, in whatever order the threads write the *)
(* variables and wherever fills stop: if io is opened for each fill, the values of a fill that    *)
(* comes to its end stand where the file has their coordinates, and a fill replaces only values   *)
(* with the same coordinates (FillWriter.cc).                                                    *)
THEOREM FillGoesByCoordinate ==
  ASSUME ~ReuseWriter
  PROVE  FillSpec => FillsByCoordinate
<1> DEFINE OnlySame == \A v \in oVars : \A o \in DOMAIN cells[v] : cells'[v][o] # cells[v][o] =>
                          \E p \in Elements(v, <<>>) : GivesWay(v, o, p)
<1>1. FillInit => FillInv
  BY FillInitially
<1>2. FillInv /\ [FillNext]_fwVars => FillInv'
  BY FillSteps
<1>3. FillInv => FilledByCoordinate
  BY DEF FillInv
<1>4. FillInv /\ [FillNext]_fwVars => [OnlySame]_fwVars
  <2> SUFFICES ASSUME FillInv, FillNext PROVE OnlySame
    OBVIOUS
  <2>1. CASE \E v \in DOMAIN in.shape : FillSlice(v)
    BY <2>1, SliceReplaces
  <2>2. CASE Open \/ Begin \/ Abort \/ Finish
    <3>1. cells' = cells
      BY <2>2 DEF Open, Begin, Abort, Finish
    <3> QED
      BY <3>1
  <2> QED
    BY <2>1, <2>2 DEF FillNext
<1>5. FillSpec => []FilledByCoordinate
  BY <1>1, <1>2, <1>3, PTL DEF FillSpec
<1>6. FillSpec => [][OnlySame]_fwVars
  BY <1>1, <1>2, <1>4, PTL DEF FillSpec
<1>7. FillSpec => OnlySameCoordinatesReplaced
  BY <1>6 DEF OnlySameCoordinatesReplaced, GivesWay
<1> QED
  BY <1>5, <1>7 DEF FillsByCoordinate
=============================================================================
