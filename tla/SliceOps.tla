------------------------------ MODULE SliceOps ------------------------------
(***************************************************************************)
(* SliceBuilder as a value: the selection of a hyperslab of a variable.    *)
(*                                                                         *)
(* A builder is a record of the C++ members: names (the shape, in order),  *)
(* start, size, max and unlimited (one entry per dimension of the shape)   *)
(* and set (setDims_, the names a caller has set).  A C++ exception is the *)
(* string with its class, "ok" a normal return.  size_t has SizeMod values *)
(* and its sums wrap.                                                      *)
(***************************************************************************)
EXTENDS Naturals, Sequences

CONSTANT SizeMod        \* number of values of size_t

ASSUME SizeModAssumption == SizeMod \in Nat /\ SizeMod > 1

SizeT == 0 .. SizeMod - 1

NamesOf(sb) == {sb.names[i] : i \in DOMAIN sb.names}

(* A map of names to positions is filled from the first dimension to the   *)
(* last, so the last position of a name that occurs twice stays.           *)
DimPos(sb, d) ==
  CHOOSE i \in DOMAIN sb.names :
     /\ sb.names[i] = d
     /\ \A j \in DOMAIN sb.names : sb.names[j] = d => j <= i

(* SliceBuilder::init: the slice of full size, nothing set. *)
NewBuilder(names, lengths, unlimited) ==
  [names |-> names, start |-> [i \in DOMAIN names |-> 0], size |-> lengths,
   max |-> lengths, unlimited |-> unlimited, set |-> {}]

(* A slip: only the start is compared with the length. *)
MutSetResultStartOnly(sb, d, s, n) ==
  IF d \notin NamesOf(sb) THEN "CDMException"
  ELSE LET p == DimPos(sb, d)
       IN  IF ~sb.unlimited[p] /\ sb.max[p] < s THEN "out_of_range" ELSE "ok"

(* setStartAndSize(dimName, start, size): what it returns, ... *)
SetResult(sb, d, s, n) ==
  IF d \notin NamesOf(sb) THEN "CDMException"
  ELSE LET p == DimPos(sb, d)
       IN  IF ~sb.unlimited[p] /\ sb.max[p] < (s + n) % SizeMod
           THEN "out_of_range" ELSE "ok"

(* ... and the builder it leaves: the call that throws leaves it alone. *)
AfterSet(sb, d, s, n) ==
  IF SetResult(sb, d, s, n) # "ok" THEN sb
  ELSE LET p == DimPos(sb, d)
       IN  [sb EXCEPT !.start = [@ EXCEPT ![p] = s],
                      !.size  = [@ EXCEPT ![p] = n],
                      !.set   = @ \cup {d}]

(* setAll(dimName): the full size again, and the dimension counts as set. *)
AllSize(sb, d) == IF d \in NamesOf(sb) THEN sb.max[DimPos(sb, d)] ELSE 0

UnsetNames(sb) == NamesOf(sb) \ sb.set

(* Every dimension that cannot grow is selected inside its length. *)
Inside(sb) ==
  \A i \in DOMAIN sb.names : ~sb.unlimited[i] => sb.start[i] + sb.size[i] <= sb.max[i]
=============================================================================
