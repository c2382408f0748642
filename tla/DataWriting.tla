------------------------------ MODULE DataWriting ------------------------------
(***************************************************************************)
(* What a writer of data promises: a cell of the file (a variable, or one  *)
(* position of it along the unlimited dimension) is written at most once,  *)
(* with the data the source has for it; the call returns only when nothing *)
(* is missing that was not given up with an error in the log, and throws   *)
(* only when something could not be read.                                  *)
(***************************************************************************)
VARIABLES
  wanted,     \* what belongs in each cell: "data", "fill", "nothing", or "error" when it cannot be read
  file,       \* the cells written, and what with: whose data, or its "fill" value
  givenUp,    \* cells whose writing failed, with a line in the log
  outcome     \* "running", "returned", "thrown" or "aborted"

vars == <<wanted, file, givenUp, outcome>>

Cells == DOMAIN wanted
Written == DOMAIN file
MustBeWritten(c) == wanted[c] \in {"data", "fill"}

Init ==
  /\ \A c \in Cells : wanted[c] \in {"data", "fill", "nothing", "error"}
  /\ file = <<>>
  /\ givenUp = {}
  /\ outcome = "running"

Write(c) ==
  /\ outcome = "running"
  /\ c \notin Written \cup givenUp /\ MustBeWritten(c)
  /\ \/ file' = [x \in Written \cup {c} |-> IF x = c THEN <<c, wanted[c]>> ELSE file[x]] /\ UNCHANGED givenUp
     \/ givenUp' = givenUp \cup {c} /\ UNCHANGED file
  /\ UNCHANGED <<wanted, outcome>>

Return ==
  /\ outcome = "running"
  /\ \A c \in Cells : wanted[c] # "error" /\ (MustBeWritten(c) => c \in Written \cup givenUp)
  /\ outcome' = "returned"
  /\ UNCHANGED <<wanted, file, givenUp>>

Throw ==
  /\ outcome = "running"
  /\ \E c \in Cells : wanted[c] = "error"
  /\ outcome' = "thrown"
  /\ UNCHANGED <<wanted, file, givenUp>>

(* Calls of the library outside of any catch end the program.               *)
Abort ==
  /\ outcome = "running"
  /\ outcome' = "aborted"
  /\ UNCHANGED <<wanted, file, givenUp>>

Next == Return \/ Throw \/ Abort \/ \E c \in Cells : Write(c)
Spec == Init /\ [][Next]_vars
=============================================================================
