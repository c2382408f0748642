----------------------------- MODULE Hyperslab ------------------------------
(***************************************************************************)
(* The layout of a multi-dimensional array in the flat memory of a Data    *)
(* object: the first dimension moves fastest.                              *)
(*                                                                         *)
(* An element is known by its index vector in the original array, so an    *)
(* array of data is a sequence of index vectors, and what is wrong with an *)
(* array can only be which elements it holds and in which order.           *)
(***************************************************************************)
EXTENDS Naturals, Sequences, SequencesExt

(* product(sizes), the number of elements *)
Product(sizes) ==
  LET upto[k \in 0 .. Len(sizes)] == IF k = 0 THEN 1 ELSE upto[k - 1] * sizes[k]
  IN  upto[Len(sizes)]

(* orgSliceSize of DataImpl::slice: elements between neighbours along d *)
Strides(sizes) == [d \in DOMAIN sizes |-> Product(SubSeq(sizes, 1, d - 1))]

(* The index vectors of the hyperslab (start, size) in memory order. *)
Slab(start, size) ==
  LET stride == Strides(size)
  IN  [k \in 1 .. Product(size) |->
         [d \in DOMAIN size |-> start[d] + (((k - 1) \div stride[d]) % size[d])]]

(* The position of an index vector in an array of these sizes. *)
Offset(sizes, index) ==
  FoldLeft(LAMBDA a, d : a + index[d] * Strides(sizes)[d], 0, [d \in DOMAIN sizes |-> d])

Origin(sizes) == [d \in DOMAIN sizes |-> 0]
Whole(sizes) == Slab(Origin(sizes), sizes)
=============================================================================
