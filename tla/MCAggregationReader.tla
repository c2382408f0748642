------------------------ MODULE MCAggregationReader ------------------------
(* Up to three files out of nine that agree, differ in a length or in what   *)
(* is unlimited, have no unlimited dimension, bring a variable of their own  *)
(* or the name of the new dimension; listed or scanned, with coordinate      *)
(* values or without.                                                        *)
EXTENDS AggregationReader

CONSTANTS t, x, y, new, v, w, z

Fixed(k) == [length |-> k, unlimited |-> FALSE]
Growing(k) == [length |-> k, unlimited |-> TRUE]
Var(name, shape) == [name |-> name, shape |-> shape, memory |-> FALSE]
InMemory(name, shape) == [name |-> name, shape |-> shape, memory |-> TRUE]

Contents == {
  [dims |-> (t :> Growing(2)) @@ (x :> Fixed(2)),
   vars |-> <<Var(t, <<t>>), Var(v, <<x, t>>), InMemory(w, <<x>>)>>],
  [dims |-> (t :> Growing(1)) @@ (x :> Fixed(2)),
   vars |-> <<InMemory(v, <<x, t>>), Var(t, <<t>>)>>],
  [dims |-> (t :> Growing(1)) @@ (x :> Fixed(3)),
   vars |-> <<Var(v, <<x, t>>), Var(z, <<x, t>>)>>],
  [dims |-> (t :> Fixed(1)) @@ (x :> Fixed(2)),
   vars |-> <<Var(t, <<t>>), Var(v, <<x, t>>)>>],
  [dims |-> x :> Fixed(2),
   vars |-> <<Var(w, <<x>>), Var(v, <<x>>)>>],
  [dims |-> (y :> Growing(2)) @@ (t :> Fixed(2)),
   vars |-> <<Var(w, <<y>>), Var(v, <<t, y>>)>>],
  [dims |-> (t :> Growing(1)) @@ (y :> Fixed(2)),
   vars |-> <<Var(z, <<y, t>>), Var(w, <<y>>)>>],
  [dims |-> (x :> Fixed(1)) @@ (y :> Fixed(1)),
   vars |-> <<Var(z, <<y, x>>), Var(new, <<y>>)>>],
  [dims |-> (new :> Growing(2)) @@ (x :> Fixed(2)),
   vars |-> <<Var(v, <<x, new>>)>>]}

File(content, coords, scanned) ==
  [dims |-> content.dims, vars |-> content.vars, coords |-> coords, scanned |-> scanned]
Listed == {File(c, k, FALSE) : c \in Contents, k \in 0 .. 2}
Scanned == {File(c, 0, TRUE) : c \in Contents}

MCFiles == Listed \cup Scanned

MCDocuments ==
  {s \in UNION {[1 .. k -> MCFiles] : k \in 0 .. 3} :
     \A i, j \in DOMAIN s : i < j /\ s[i].scanned => s[j].scanned}
=============================================================================
