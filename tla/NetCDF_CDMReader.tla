--------------------------- MODULE NetCDF_CDMReader ---------------------------
(***************************************************************************)
(* Threads read slices of one NetCDF file, by a position of the unlimited  *)
(* dimension or by a slice builder. The library is entered under one lock, *)
(* and a process that was forked since the file was opened opens it again  *)
(* before it reads. The model follows the forked child: the parent keeps   *)
(* its own copy of all that is modelled here. The build has OpenMP; without *)
(* it there is one thread and the lock is empty.                           *)
(***************************************************************************)
EXTENDS Naturals, TLAPS

CONSTANTS
  Threads,
  Calls,       \* which reads are made, among "position" and "slice"
  MaxProcess,  \* bound: forks before the last process
  MaxCalls,    \* bound: reads by a thread in one process
  Nobody, Closed

VARIABLES
  process,  \* what getpid() returns
  pid,      \* Nc::pid, the process reopen_if_forked last saw
  ncId,     \* the process that opened the handle, or Closed
  lock,     \* the holder of Nc::getMutex(), or Nobody
  pc, call, calls

vars == <<process, pid, ncId, lock, pc, call, calls>>

ASSUME ThreadsAssumption == Nobody \notin Threads
ASSUME CallsAssumption == Calls \subseteq {"position", "slice"}

(* Where a thread waits for the lock, and where it goes on with it. *)
Waits == {"enter", "relock", "reopen", "inquire", "get"}
Entered(at) ==
  IF at = "enter" THEN "checking"
  ELSE IF at = "reopen" THEN "reopening"
  ELSE IF at = "inquire" THEN "inquiring" ELSE "getting"
InLibrary == {"reopening", "inquiring", "getting"}
Places == Waits \cup InLibrary \cup {"idle", "check", "checking"}
PlacesOf(kind) ==
  Places \ IF kind = "position" THEN {"check", "inquire", "get"} ELSE {"enter", "checking", "relock"}

Go(t, at) == pc' = [pc EXCEPT ![t] = at]

Init ==
  /\ process = 1 /\ pid = 1 /\ ncId = 1
  /\ lock = Nobody
  /\ pc = [t \in Threads |-> "idle"]
  /\ call \in [Threads -> Calls]
  /\ calls = [t \in Threads |-> 0]

-----------------------------------------------------------------------------
(* Just before the data are fetched: no thread reads.                       *)
Fork ==
  /\ process < MaxProcess
  /\ \A t \in Threads : pc[t] = "idle"
  /\ process' = process + 1
  /\ calls' = [t \in Threads |-> 0]
  /\ UNCHANGED <<pid, ncId, lock, pc, call>>

(* By position the lock is taken first, by slice reopen_if_forked is called *)
(* without it.                                                              *)
GetDataSlice(t) ==
  /\ pc[t] = "idle" /\ calls[t] < MaxCalls
  /\ \E kind \in Calls :
       /\ call' = [call EXCEPT ![t] = kind]
       /\ Go(t, IF kind = "position" THEN "enter" ELSE "check")
  /\ calls' = [calls EXCEPT ![t] = @ + 1]
  /\ UNCHANGED <<process, pid, ncId, lock>>

(* The lock is not recursive: its holder waits like the others.             *)
Lock(t) ==
  /\ pc[t] \in Waits
  /\ lock = Nobody
  /\ lock' = t
  /\ Go(t, Entered(pc[t]))
  /\ UNCHANGED <<process, pid, ncId, call, calls>>

(* a slip: the process is not looked at                                     *)
MutForked == FALSE
Forked == pid # process

ReopenIfForked(t) ==
  /\ pc[t] \in {"check", "checking"}
  /\ IF Forked
       THEN pid' = process /\ Go(t, "reopen")
       ELSE /\ UNCHANGED pid
            /\ Go(t, IF call[t] = "position" THEN "inquiring" ELSE "inquire")
  /\ UNCHANGED <<process, ncId, lock, call, calls>>

(* a slip: the lock is kept when an exception leaves the block              *)
MutThrow(t) == Go(t, "idle") /\ UNCHANGED <<process, pid, ncId, lock, call, calls>>
Throw(t) ==
  /\ Go(t, "idle")
  /\ lock' = Nobody
  /\ UNCHANGED <<process, pid, ncId, call, calls>>

(* The handle is closed, then the file opened, which may fail. What was     *)
(* closed cannot be closed again; closing an open handle is taken to work.  *)
Reopen(t) ==
  /\ pc[t] = "reopening"
  /\ lock' = Nobody
  /\ \/ /\ ncId # Closed
        /\ ncId' = process
        /\ Go(t, IF call[t] = "position" THEN "inquiring" ELSE "inquire")
     \/ ncId' = Closed /\ Go(t, "idle")
  /\ UNCHANGED <<process, pid, call, calls>>

(* By position the lock is given back only for a line of the log.           *)
AfterInquiry(kind) == IF kind = "position" THEN "relock" ELSE "get"
Inquire(t) ==
  /\ pc[t] = "inquiring"
  /\ \/ /\ ncId # Closed
        /\ lock' = Nobody
        /\ Go(t, AfterInquiry(call[t]))
        /\ UNCHANGED <<process, pid, ncId, call, calls>>
     \/ Throw(t)

(* The values are returned, or an exception is thrown.                      *)
Get(t) == pc[t] = "getting" /\ Throw(t)

Step(t) ==
  \/ GetDataSlice(t) \/ Lock(t) \/ ReopenIfForked(t)
  \/ Reopen(t) \/ Inquire(t) \/ Get(t)
Next == Fork \/ \E t \in Threads : Step(t)
Spec == Init /\ [][Next]_vars /\ \A t \in Threads : WF_vars(Step(t))

-----------------------------------------------------------------------------
(* The types of the variables; either kind of read has its own places.     *)
TypeOK ==
  /\ process \in Nat /\ pid \in Nat /\ ncId \in Nat \cup {Closed}
  /\ lock \in Threads \cup {Nobody}
  /\ pc \in [Threads -> Places]
  /\ call \in [Threads -> Calls]
  /\ \A t \in Threads : pc[t] \in PlacesOf(call[t])
  /\ calls \in [Threads -> Nat]

(* Two threads never use the library at once: hdf5 is usually not           *)
(* thread-safe, says the comment at the lock.                               *)
OneInLibrary ==
  \A s, t \in Threads : pc[s] \in InLibrary /\ pc[t] \in InLibrary => s = t

(* A read never goes through a handle opened by another process, whose      *)
(* position in the file it would share, unless another thread has noted the *)
(* new process and not yet opened the file (reopen_if_forked).              *)
OwnHandleOnceReopened ==
  (\A t \in Threads : pc[t] \notin {"reopen", "reopening"}) =>
    \A t \in Threads : pc[t] = "getting" => ncId \in {process, Closed}

(* Every read that was begun returns or throws: of both kinds, by all       *)
(* threads, after forks and failures.                                       *)
ReadsReturn == \A t \in Threads : pc[t] # "idle" ~> pc[t] = "idle"
\* reopen_if_forked is called with the lock held.
WaitsForItself(t) == pc[t] = "reopen" /\ lock = t

(* Every read that was begun returns or throws as long as reopen_if_forked  *)
(* is not called with the lock held.                                        *)
ReadsReturnUnlessSelfWaiting == [](\A t \in Threads : ~WaitsForItself(t)) => ReadsReturn

-----------------------------------------------------------------------------
(* doxydoc.txt:797 "all CDMReader::get*Data*() operations are thread-safe", *)
(* NEWS:255 "making getDataSlice calls fork-safe": every read goes through  *)
(* the process's own handle.                                                *)
ReadsThroughOwnHandle ==
  \A t \in Threads : pc[t] = "getting" => ncId \in {process, Closed}

-----------------------------------------------------------------------------
\* Proofs, for every set of threads and any number of forks.

(* A thread in the library holds the lock; so does one that has taken it to *)
(* read by position and waits for it again, which is why none gets further. *)
Holds(t) == pc[t] \in InLibrary \cup {"checking"} \/ (pc[t] = "reopen" /\ call[t] = "position")
LockInv ==
  \A t \in Threads :
    (Holds(t) => lock = t) /\ ~(call[t] = "position" /\ pc[t] = "reopening")

(* The types of the variables hold for every set of threads and every bound. *)
THEOREM TypeCorrect == Spec => []TypeOK
<1> USE DEF TypeOK, Places, PlacesOf, Waits, InLibrary, Go
<1>1. Init => TypeOK
  BY DEF Init
<1>2. ASSUME TypeOK, [Next]_vars PROVE TypeOK'
  <2>1. CASE Fork
    BY <1>2, <2>1 DEF Fork
  <2>2. ASSUME NEW t \in Threads, GetDataSlice(t) PROVE TypeOK'
    BY <1>2, <2>2, CallsAssumption DEF GetDataSlice
  <2>3. ASSUME NEW t \in Threads, Lock(t) PROVE TypeOK'
    BY <1>2, <2>3 DEF Lock, Entered
  <2>4. ASSUME NEW t \in Threads, ReopenIfForked(t) PROVE TypeOK'
    BY <1>2, <2>4 DEF ReopenIfForked
  <2>5. ASSUME NEW t \in Threads, Reopen(t) PROVE TypeOK'
    BY <1>2, <2>5 DEF Reopen
  <2>6. ASSUME NEW t \in Threads, Inquire(t) \/ Get(t) PROVE TypeOK'
    BY <1>2, <2>6 DEF Inquire, AfterInquiry, Get, Throw
  <2>7. CASE UNCHANGED vars
    BY <1>2, <2>7 DEF vars
  <2> QED
    BY <1>2, <2>1, <2>2, <2>3, <2>4, <2>5, <2>6, <2>7 DEF Next, Step
<1> QED
  BY <1>1, <1>2, PTL DEF Spec

(* What a step of one thread leaves the others. *)
LEMMA LockStep ==
  ASSUME TypeOK, LockInv, [Next]_vars
  PROVE  LockInv'
<1> SUFFICES ASSUME NEW s \in Threads
             PROVE  (Holds(s)' => lock' = s) /\ ~(call'[s] = "position" /\ pc'[s] = "reopening")
  BY DEF LockInv
<1> USE DEF TypeOK, LockInv, Holds, InLibrary, Places, PlacesOf, Waits, Go
<1>1. CASE Fork
  BY <1>1 DEF Fork
<1>2. ASSUME NEW t \in Threads, GetDataSlice(t)
      PROVE  (Holds(s)' => lock' = s) /\ ~(call'[s] = "position" /\ pc'[s] = "reopening")
  BY <1>2, CallsAssumption DEF GetDataSlice
<1>3. ASSUME NEW t \in Threads, Lock(t)
      PROVE  (Holds(s)' => lock' = s) /\ ~(call'[s] = "position" /\ pc'[s] = "reopening")
  BY <1>3, ThreadsAssumption DEF Lock, Entered
<1>4. ASSUME NEW t \in Threads, ReopenIfForked(t)
      PROVE  (Holds(s)' => lock' = s) /\ ~(call'[s] = "position" /\ pc'[s] = "reopening")
  BY <1>4 DEF ReopenIfForked
<1>5. ASSUME NEW t \in Threads, Reopen(t)
      PROVE  (Holds(s)' => lock' = s) /\ ~(call'[s] = "position" /\ pc'[s] = "reopening")
  BY <1>5 DEF Reopen
<1>6. ASSUME NEW t \in Threads, Inquire(t) \/ Get(t)
      PROVE  (Holds(s)' => lock' = s) /\ ~(call'[s] = "position" /\ pc'[s] = "reopening")
  BY <1>6 DEF Inquire, AfterInquiry, Get, Throw
<1>7. CASE UNCHANGED vars
  BY <1>7 DEF vars
<1> QED
  BY <1>1, <1>2, <1>3, <1>4, <1>5, <1>6, <1>7 DEF Next, Step

(* The lock keeps the library to one thread, however many there are. *)
THEOREM LibraryIsExclusive == Spec => []OneInLibrary
<1>1. Init => LockInv
  BY CallsAssumption DEF Init, LockInv, Holds, InLibrary
<1>2. LockInv => OneInLibrary
  BY DEF LockInv, OneInLibrary, Holds
<1> QED
  BY <1>1, <1>2, LockStep, TypeCorrect, PTL DEF Spec

(* Who goes on to read has seen pid agree with the process; then the handle *)
(* is the process's own, or a thread is still about to open the file.       *)
HandleInv ==
  /\ pid = process => ncId \in {process, Closed} \/ \E t \in Threads : pc[t] \in {"reopen", "reopening"}
  /\ \A t \in Threads :
       pc[t] \in {"reopen", "reopening", "inquire", "inquiring", "relock", "get", "getting"} => pid = process
  /\ pid <= process

(* Once the file is opened again, no thread reads through another process's *)
(* handle: what reopen_if_forked is there for.                              *)
THEOREM OwnHandleAfterReopening == Spec => []OwnHandleOnceReopened
<1>1. Init => HandleInv
  BY DEF Init, HandleInv
<1>2. TypeOK /\ HandleInv /\ [Next]_vars => HandleInv'
  <2> SUFFICES ASSUME TypeOK, HandleInv, [Next]_vars PROVE HandleInv'
    OBVIOUS
  <2> USE DEF HandleInv, TypeOK, Go, Waits
  <2>1. CASE Fork
    BY <2>1 DEF Fork
  <2>2. ASSUME NEW t \in Threads, GetDataSlice(t) PROVE HandleInv'
    BY <2>2 DEF GetDataSlice
  <2>3. ASSUME NEW t \in Threads, Lock(t) PROVE HandleInv'
    BY <2>3 DEF Lock, Entered
  <2>4. ASSUME NEW t \in Threads, ReopenIfForked(t) PROVE HandleInv'
    BY <2>4 DEF ReopenIfForked, Forked
  <2>5. ASSUME NEW t \in Threads, Reopen(t) PROVE HandleInv'
    BY <2>5 DEF Reopen
  <2>6. ASSUME NEW t \in Threads, Inquire(t) PROVE HandleInv'
    BY <2>6 DEF Inquire, AfterInquiry, Throw
  <2>7. ASSUME NEW t \in Threads, Get(t) PROVE HandleInv'
    BY <2>7 DEF Get, Throw
  <2>8. CASE UNCHANGED vars
    BY <2>8 DEF vars
  <2> QED
    BY <2>1, <2>2, <2>3, <2>4, <2>5, <2>6, <2>7, <2>8 DEF Next, Step
<1>3. HandleInv => OwnHandleOnceReopened
  BY DEF HandleInv, OwnHandleOnceReopened
<1> QED
  BY <1>1, <1>2, <1>3, TypeCorrect, PTL DEF Spec

(* The whole promise for a process that reads with one thread: its handle   *)
(* is its own at every read.                                                *)
THEOREM OneThreadReadsItsOwn ==
  ASSUME \A s, t \in Threads : s = t
  PROVE  Spec => []ReadsThroughOwnHandle
<1>1. OwnHandleOnceReopened => ReadsThroughOwnHandle
  <2> SUFFICES ASSUME OwnHandleOnceReopened, NEW t \in Threads, pc[t] = "getting"
               PROVE  ncId \in {process, Closed}
    BY DEF ReadsThroughOwnHandle
  <2>1. \A s \in Threads : pc[s] \notin {"reopen", "reopening"}
    OBVIOUS
  <2> QED
    BY <2>1 DEF OwnHandleOnceReopened
<1> QED
  BY <1>1, OwnHandleAfterReopening, PTL
=============================================================================
