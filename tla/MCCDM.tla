------------------------------- MODULE MCCDM -------------------------------
(* Two variables, two dimensions, shapes of rank zero to two, one of them   *)
(* with a dimension twice; two attributes of one value.  The variables and  *)
(* the attributes are interchangeable, the dimensions are not (MCShapes).   *)
EXTENDS CDM, TLC

CONSTANTS a, b, g, x, y, p, q

MCShapes == {<<>>, <<y, x>>, <<x, x>>}
Interchangeable == Permutations({a, b}) \cup Permutations({p, q})
=============================================================================
