--------------------------- MODULE NetCDF_CDMWriter ---------------------------
(***************************************************************************)
(* writeData: the threads of a parallel loop share the positions of the    *)
(* unlimited dimension, and at each of them read and write the variables   *)
(* one by one. Position -1 is for variables without that dimension. Source *)
(* and file are NetCDF, so that both are used under the library's lock.    *)
(***************************************************************************)
EXTENDS Integers, Sequences, FiniteSets, FiniteSetsExt

CONSTANTS
  Threads,
  Shapes,      \* of the variables, in order: "none", "first", "second" or "both" of the
               \* unlimited dimensions; the models that may be written
  MaxUnLim,    \* length of the first unlimited dimension, 0 when there is none
  Failing,     \* calls of the library that may fail, among "inquire", "put" and "sync"
  Nobody

VARIABLES
  shapes,      \* those of the model that is written
  classic,     \* format < 3: the library does not fill what is not written
  source,      \* what reading a cell brings: "data", "empty" or "throws"
  schedule,    \* which thread OpenMP gives a position
  lock,        \* the holder of Nc::getMutex(), or Nobody
  exceptions,  \* the threads that set the flag
  pc, unLimDimPos, vi, data,
  file, givenUp, outcome

given == <<shapes, classic, source, schedule>>
progress == <<pc, unLimDimPos, vi, data>>
target == <<file, givenUp, outcome>>
vars == <<shapes, classic, source, schedule, lock, exceptions, pc, unLimDimPos, vi, data,
          file, givenUp, outcome>>

ASSUME ThreadsAssumption == Nobody \notin Threads
ASSUME ShapesAssumption == \A S \in Shapes : S \in Seq({"none", "first", "second", "both"})
ASSUME UnlimitedAssumption ==
  MaxUnLim \in Nat /\ (MaxUnLim = 0 => \A S \in Shapes : \A i \in DOMAIN S : S[i] = "none")

Positions == -1 .. MaxUnLim - 1
HasUnlimitedDim(v) == shapes[v] \in {"first", "both"}
NoUnlim(v, p) == p = -1 /\ ~HasUnlimitedDim(v)
WithUnlim(v, p) == p # -1 /\ HasUnlimitedDim(v)
Cells == {c \in (DOMAIN shapes) \X Positions : NoUnlim(c[1], c[2]) \/ WithUnlim(c[1], c[2])}
Fits(v) == shapes[v] \in {"none", "first"}

Waits == {"inquire", "read", "put", "relock", "sync"}
Entered(at) ==
  IF at = "inquire" THEN "inquiring"
  ELSE IF at = "read" THEN "reading"
  ELSE IF at = "put" THEN "putting"
  ELSE IF at = "sync" THEN "syncing" ELSE "leaving"
InLibrary == {"inquiring", "reading", "putting", "syncing"}
Places == Waits \cup InLibrary \cup {"loop", "variable", "recheck", "leaving", "done"}

Go(t, at) == pc' = [pc EXCEPT ![t] = at]
NextVariable(t) == Go(t, "variable") /\ vi' = [vi EXCEPT ![t] = @ + 1]
HoldsData(t, d) == data' = [data EXCEPT ![t] = d]

(* The classic formats have one unlimited dimension.                        *)
Init ==
  /\ shapes \in Shapes
  /\ classic \in {k \in BOOLEAN : k => \A i \in DOMAIN shapes : shapes[i] \in {"none", "first"}}
  /\ source \in [Cells -> {"data", "empty", "throws"}]
  /\ schedule \in [Positions -> Threads]
  /\ lock = Nobody /\ exceptions = {}
  /\ pc = [t \in Threads |-> "loop"]
  /\ unLimDimPos = [t \in Threads |-> -2]
  /\ vi = [t \in Threads |-> 1]
  /\ data = [t \in Threads |-> "none"]
  /\ file = <<>> /\ givenUp = {} /\ outcome = "running"

-----------------------------------------------------------------------------
(* The positions a thread is given come in ascending order.                 *)
NextPosition(t) ==
  /\ pc[t] = "loop"
  /\ LET left == {p \in Positions : schedule[p] = t /\ p > unLimDimPos[t]}
     IN  IF left = {}
           THEN Go(t, "done") /\ UNCHANGED <<unLimDimPos, vi>>
           ELSE /\ unLimDimPos' = [unLimDimPos EXCEPT ![t] = Min(left)]
                /\ vi' = [vi EXCEPT ![t] = 1]
                /\ Go(t, "variable")
  /\ UNCHANGED <<given, lock, exceptions, data, target>>

(* The flag is neither atomic nor locked: what another thread has set may   *)
(* be seen or not.                                                          *)
Sees(t) == IF t \in exceptions THEN {TRUE} ELSE IF exceptions # {} THEN BOOLEAN ELSE {FALSE}

NextInLoop(t) ==
  /\ pc[t] = "variable"
  /\ IF vi[t] > Len(shapes)
       THEN Go(t, IF unLimDimPos[t] >= 0 THEN "sync" ELSE "loop") /\ UNCHANGED vi
       ELSE \E seen \in Sees(t) :
              IF seen THEN NextVariable(t) ELSE Go(t, "inquire") /\ UNCHANGED vi
  /\ UNCHANGED <<given, lock, exceptions, unLimDimPos, data, target>>

Lock(t) ==
  /\ pc[t] \in Waits
  /\ lock = Nobody
  /\ lock' = t
  /\ Go(t, Entered(pc[t]))
  /\ UNCHANGED <<given, exceptions, unLimDimPos, vi, data, target>>

Inquire(t) ==
  /\ pc[t] = "inquiring"
  /\ lock' = Nobody
  /\ IF NoUnlim(vi[t], unLimDimPos[t]) \/ WithUnlim(vi[t], unLimDimPos[t])
       THEN Go(t, "read") /\ UNCHANGED vi
       ELSE NextVariable(t)
  /\ UNCHANGED <<given, exceptions, unLimDimPos, data, target>>

ReadThrows(t) == NextVariable(t) /\ exceptions' = exceptions \cup {t}
Read(t) ==
  /\ pc[t] = "reading"
  /\ lock' = Nobody
  /\ LET brought == source[<<vi[t], unLimDimPos[t]>>]
     IN  IF brought = "throws"
           THEN HoldsData(t, "none") /\ ReadThrows(t)
           ELSE HoldsData(t, brought) /\ Go(t, "recheck") /\ UNCHANGED <<vi, exceptions>>
  /\ UNCHANGED <<given, unLimDimPos, target>>

(* Where the library does not fill, the fill values are written.            *)
(* a slip: what is empty is left out in every format                        *)
MutFillEmpty(d) == d
FillEmpty(d) == IF d = "empty" /\ classic THEN "fill" ELSE d
Recheck(t) ==
  /\ pc[t] = "recheck"
  /\ \E seen \in Sees(t) :
       IF seen THEN NextVariable(t) /\ UNCHANGED data
       ELSE /\ HoldsData(t, FillEmpty(data[t]))
            /\ IF FillEmpty(data[t]) = "empty" THEN NextVariable(t) ELSE Go(t, "put") /\ UNCHANGED vi
  /\ UNCHANGED <<given, lock, exceptions, unLimDimPos, target>>

(* A second unlimited dimension has still length 0 in the file: the data    *)
(* do not fit. What fails is logged without the lock, and the loop goes on. *)
CellOf(t) == <<vi[t], unLimDimPos[t]>>
Put(t) ==
  /\ pc[t] = "putting"
  /\ lock' = Nobody
  /\ \/ /\ Fits(vi[t])
        /\ file' = [c \in DOMAIN file \cup {CellOf(t)} |->
                      IF c = CellOf(t) THEN <<<<vi[t], unLimDimPos[t]>>, data[t]>> ELSE file[c]]
        /\ NextVariable(t)
        /\ UNCHANGED givenUp
     \/ /\ "put" \in Failing \/ ~Fits(vi[t])
        /\ givenUp' = givenUp \cup {CellOf(t)}
        /\ Go(t, "relock")
        /\ UNCHANGED <<file, vi>>
  /\ UNCHANGED <<given, exceptions, unLimDimPos, data, outcome>>

(* a slip: the block is left with the lock                                  *)
MutLeave(t) ==
  /\ pc[t] = "leaving"
  /\ NextVariable(t)
  /\ UNCHANGED <<given, lock, exceptions, unLimDimPos, data, target>>
Leave(t) ==
  /\ pc[t] = "leaving"
  /\ lock' = Nobody
  /\ NextVariable(t)
  /\ UNCHANGED <<given, exceptions, unLimDimPos, data, target>>

Sync(t) ==
  /\ pc[t] = "syncing"
  /\ lock' = Nobody
  /\ Go(t, "loop")
  /\ UNCHANGED <<given, exceptions, unLimDimPos, vi, data, target>>

(* Nothing catches what these calls throw before it leaves the parallel     *)
(* region.                                                                  *)
Terminate(t) ==
  /\ \/ pc[t] = "inquiring" /\ "inquire" \in Failing
     \/ pc[t] = "syncing" /\ "sync" \in Failing
  /\ outcome' = "aborted"
  /\ UNCHANGED <<given, lock, exceptions, progress, file, givenUp>>

Join ==
  /\ \A t \in Threads : pc[t] = "done"
  /\ outcome' = IF exceptions # {} THEN "thrown" ELSE "returned"
  /\ UNCHANGED <<given, lock, exceptions, progress, file, givenUp>>

Step(t) ==
  \/ NextPosition(t) \/ NextInLoop(t) \/ Lock(t) \/ Inquire(t) \/ Read(t)
  \/ Recheck(t) \/ Put(t) \/ Leave(t) \/ Sync(t) \/ Terminate(t)
Next == outcome = "running" /\ (Join \/ \E t \in Threads : Step(t))
Spec == Init /\ [][Next]_vars /\ WF_vars(outcome = "running" /\ Join)
             /\ \A t \in Threads : WF_vars(outcome = "running" /\ Step(t))

-----------------------------------------------------------------------------

(* Reads, writes and inquiries of all threads exclude one another.          *)
OneInLibrary ==
  \A s, t \in Threads : pc[s] \in InLibrary /\ pc[t] \in InLibrary => s = t

\* What the file should hold of a cell in the end.
Wanted(c) ==
  CASE source[c] = "throws" -> "error"
    [] source[c] = "data" -> "data"
    [] OTHER -> IF classic THEN "fill" ELSE "nothing"
Promise == INSTANCE DataWriting WITH wanted <- [c \in Cells |-> Wanted(c)]

(* However the positions are shared out and the threads interleave, every   *)
(* cell gets its own data once, and the call returns only with all written. *)
KeepsThePromise == Promise!Spec

(* The call ends: no thread waits for ever, also when writing fails.        *)
WriteDataEnds == <>(outcome # "running")

(* Models that show every case, for model checking: a fixed variable and one *)
(* along time; one along time and one along a second unlimited dimension;    *)
(* one along both.                                                           *)
SmallModels == {<<"none", "first">>, <<"first", "second">>, <<"both">>}
=============================================================================
