-------------------------- MODULE CDMExtractorProofs --------------------------
(***************************************************************************)
(* Proofs about CDMExtractor.  A selection with addAuxiliary loses nothing *)
(* that is needed: the rounds are a recursive function over the numbers,   *)
(* which exists (Recursion), and a round that adds something adds one of   *)
(* finitely many variables, so the last round adds nothing.  reduceAxes    *)
(* keeps the right positions: the values below a bound are the first ones  *)
(* (FirstNumbers), so the bounds of the search are where the range begins  *)
(* and ends.  Both are action properties; every step keeps them.           *)
(*                                                                         *)
(* Reads bring what was asked for.  A hyperslab has all elements of its    *)
(* box in the order of memory (SlabRight).  One dimension is cut into      *)
(* pieces that cover the picked positions (ChunksCut, PiecesCut); the loop *)
(* over the dimensions keeps builders that cover the request and lie apart *)
(* (Stage, SplitStage, AllSplit); the joined reads are then all of it,     *)
(* once (JoinedRead), and in the order of memory if the later dimensions   *)
(* allow it: two sequences with the same elements in one order are the     *)
(* same (OneOrder).  ExtractorInv says what the reductions leave behind    *)
(* that the reads rely on.                                                 *)
(***************************************************************************)
EXTENDS CDMExtractor, FiniteSetTheorems, WellFoundedInduction, TLAPS

\* Every set of natural numbers has a least.
LEMMA LeastNatural ==
  ASSUME NEW S, S \subseteq Nat, S # {}
  PROVE  \E m \in S : \A n \in S : m <= n
<1>1. IsWellFoundedOn(OpToRel(<, Nat), Nat)
  BY NatLessThanWellFounded
<1>2. PICK m \in S : \A n \in S : ~ (<<n, m>> \in OpToRel(<, Nat))
  BY <1>1, WFMin
<1>3. \A n \in S : ~ (n < m)
  BY <1>2 DEF OpToRel
<1> QED
  BY <1>3

\* Induction, over a set of numbers.
LEMMA Induction ==
  ASSUME NEW S, 0 \in S, \A n \in Nat : n \in S => n + 1 \in S
  PROVE  Nat \subseteq S
<1> SUFFICES ASSUME Nat \ S # {} PROVE FALSE
  OBVIOUS
<1>1. PICK m \in Nat \ S : \A n \in Nat \ S : m <= n
  BY LeastNatural
<1>2. m # 0 /\ m - 1 \in Nat
  BY <1>1
<1>3. m - 1 \in S
  BY <1>1, <1>2
<1> QED
  BY <1>1, <1>2, <1>3

\* A function on the naturals is defined by its first value and its steps.
LEMMA Recursion ==
  ASSUME NEW A, NEW a \in A, NEW step \in [A -> A]
  PROVE  \E f \in [Nat -> A] : f[0] = a /\ \A n \in Nat : f[n + 1] = step[f[n]]
<1> DEFINE Part(n) == {f \in [0 .. n -> A] : f[0] = a /\ \A k \in 0 .. n - 1 : f[k + 1] = step[f[k]]}
           S == {n \in Nat : Part(n) # {}}
<1>1. 0 \in S
  <2>1. [k \in 0 .. 0 |-> a] \in Part(0)
    OBVIOUS
  <2> QED
    BY <2>1
<1>2. ASSUME NEW n \in Nat, n \in S PROVE n + 1 \in S
  <2>1. PICK f \in Part(n) : TRUE
    BY <1>2
  <2> DEFINE g == [k \in 0 .. n + 1 |-> IF k = n + 1 THEN step[f[n]] ELSE f[k]]
  <2>2. \A k \in 0 .. n : g[k] = f[k] /\ f[k] \in A
    BY <2>1
  <2>3. g \in [0 .. n + 1 -> A] /\ g[n + 1] = step[f[n]]
    BY <2>2
  <2>4. \A k \in 0 .. n : g[k + 1] = step[g[k]]
    <3> SUFFICES ASSUME NEW k \in 0 .. n PROVE g[k + 1] = step[g[k]]
      OBVIOUS
    <3>1. CASE k = n
      BY <2>2, <2>3, <3>1
    <3>2. CASE k # n
      <4>1. k \in 0 .. n - 1 /\ k + 1 \in 0 .. n
        BY <3>2
      <4>2. f[k + 1] = step[f[k]]
        BY <2>1, <4>1
      <4> QED
        BY <2>2, <4>1, <4>2
    <3> QED
      BY <3>1, <3>2
  <2>5. g[0] = a
    BY <2>1, <2>2
  <2>6. g \in Part(n + 1)
    BY <2>3, <2>4, <2>5, SMTT(30)
  <2> HIDE DEF Part
  <2> QED
    BY <2>6
<1>3. \A n \in Nat : Part(n) # {}
  <2> HIDE DEF Part
  <2> QED
    BY <1>1, <1>2, Induction
<1>4. ASSUME NEW n \in Nat, NEW f \in Part(n), NEW g \in Part(n + 1)
      PROVE  f[n] = g[n]
  <2> DEFINE E == {k \in Nat : k <= n => f[k] = g[k]}
  <2>1. 0 \in E
    OBVIOUS
  <2>2. ASSUME NEW k \in Nat, k \in E PROVE k + 1 \in E
    <3>1. CASE k + 1 <= n
      <4>1. k \in 0 .. n - 1 /\ k \in 0 .. n + 1 - 1
        BY <3>1
      <4>2. f[k + 1] = step[f[k]] /\ g[k + 1] = step[g[k]] /\ f[k] = g[k]
        BY <2>2, <4>1
      <4> QED
        BY <4>2
    <3> QED
      BY <3>1
  <2>3. n \in E
    <3> HIDE DEF E
    <3> QED
      BY <2>1, <2>2, Induction
  <2> QED
    BY <2>3
<1> DEFINE chosen(n) == CHOOSE f \in Part(n) : TRUE
           F == [n \in Nat |-> chosen(n)[n]]
<1>5. \A n \in Nat : chosen(n) \in Part(n)
  BY <1>3
<1> HIDE DEF chosen
<1>6. F \in [Nat -> A]
  <2> SUFFICES ASSUME NEW n \in Nat PROVE chosen(n)[n] \in A
    OBVIOUS
  <2>1. chosen(n) \in Part(n)
    BY <1>5
  <2>2. chosen(n) \in [0 .. n -> A] /\ n \in 0 .. n
    BY <2>1
  <2> QED
    BY <2>2
<1>7. F[0] = a
  <2>1. 0 \in Nat
    OBVIOUS
  <2>2. chosen(0) \in Part(0)
    BY <1>5, <2>1
  <2> QED
    BY <2>2
<1>8. \A n \in Nat : F[n + 1] = step[F[n]]
  <2> SUFFICES ASSUME NEW n \in Nat PROVE F[n + 1] = step[F[n]]
    OBVIOUS
  <2>1. chosen(n) \in Part(n) /\ chosen(n + 1) \in Part(n + 1)
    BY <1>5
  <2>2. chosen(n)[n] = chosen(n + 1)[n]
    BY <1>4, <2>1
  <2>3. chosen(n + 1)[n + 1] = step[chosen(n + 1)[n]]
    BY <2>1
  <2> QED
    BY <2>2, <2>3
<1> QED
  BY <1>6, <1>7, <1>8

-----------------------------------------------------------------------------
\* What the extractor shows are variables of the reader below: it only loses some.
KnownVariables == vars \subseteq Vars

LEMMA KnownAlways == Spec => []KnownVariables
<1>1. Init => KnownVariables
  BY DEF Init, KnownVariables
<1>2. KnownVariables /\ [Next]_extractor => KnownVariables'
  BY DEF KnownVariables, Next, extractor, ReduceDimension, Reduce, ReduceRange, ReduceDimensionStartEnd,
         ReduceAxes, ReduceLatLonBoundingBox, RemoveVariable, SelectVariables
<1> QED
  BY <1>1, <1>2, PTL DEF Spec

\* A round of addAuxiliary loses nothing and adds variables of the reader below.
LEMMA Round ==
  ASSUME KnownVariables, NEW S
  PROVE  S \subseteq WithAuxiliary(S) /\ WithAuxiliary(S) \subseteq S \cup Vars
<1> DEFINE all == S \cup UNION {DimsOf(v) \cap vars : v \in S \cap vars}
<1>1. WithAuxiliary(S) = all \cup UNION {Depends[v] : v \in all \cap Vars}
  BY DEF WithAuxiliary
<1>2. S \subseteq all /\ all \subseteq S \cup Vars
  BY DEF KnownVariables
<1>3. UNION {Depends[v] : v \in all \cap Vars} \subseteq Vars
  <2> HIDE DEF all
  <2> QED
    BY ExtractorAssumption
<1> QED
  BY <1>1, <1>2, <1>3

\* After as many rounds as there are variables nothing is added any more.
LEMMA NothingToAdd ==
  ASSUME KnownVariables, NEW S
  PROVE  WithAuxiliary(Auxiliary(S)) = Auxiliary(S)
<1> DEFINE A == SUBSET (S \cup Vars)
           step == [T \in A |-> WithAuxiliary(T)]
           Rounds(f) == f = [n \in Nat |-> IF n = 0 THEN S ELSE WithAuxiliary(f[n - 1])]
           grown == CHOOSE f : Rounds(f)
<1>1. \A T \in A : WithAuxiliary(T) \in A
  BY Round
<1>2. PICK f \in [Nat -> A] : f[0] = S /\ \A n \in Nat : f[n + 1] = step[f[n]]
  <2>1. S \in A
    OBVIOUS
  <2>2. step \in [A -> A]
    BY <1>1
  <2> HIDE DEF A, step
  <2> QED
    BY <2>1, <2>2, Recursion
<1>3. Rounds(f)
  <2>1. \A n \in Nat : f[n] = IF n = 0 THEN S ELSE WithAuxiliary(f[n - 1])
    <3> SUFFICES ASSUME NEW n \in Nat, n # 0 PROVE f[n] = WithAuxiliary(f[n - 1])
      BY <1>2
    <3>1. n - 1 \in Nat /\ f[n - 1] \in A /\ n = (n - 1) + 1
      BY <1>2
    <3>2. f[(n - 1) + 1] = step[f[n - 1]]
      BY <1>2, <3>1
    <3> HIDE DEF A
    <3> QED
      BY <3>1, <3>2
  <2> HIDE DEF A
  <2>2. f = [n \in Nat |-> f[n]]
    BY <1>2
  <2> QED
    BY <2>1, <2>2
<1>4. Rounds(grown)
  BY <1>3
<1>5. Auxiliary(S) = grown[Cardinality(Vars)]
  BY DEF Auxiliary
<1>6. grown[0] = S /\ \A n \in Nat : grown[n + 1] = WithAuxiliary(grown[n])
  <2> HIDE DEF grown
  <2>1. ASSUME NEW n \in Nat PROVE grown[n + 1] = WithAuxiliary(grown[n])
    <3>1. n + 1 \in Nat /\ n + 1 # 0 /\ (n + 1) - 1 = n
      OBVIOUS
    <3> QED
      BY <1>4, <3>1
  <2> QED
    BY <1>4, <2>1
<1> HIDE DEF grown
<1> DEFINE inVars(n) == grown[n] \cap Vars
           fixed(n) == WithAuxiliary(grown[n]) = grown[n]
           E == {n \in Nat : fixed(n) \/ Cardinality(inVars(n)) >= n}
<1>7. IsFiniteSet(Vars)
  BY ExtractorAssumption
<1>8. \A n \in Nat : IsFiniteSet(inVars(n)) /\ Cardinality(inVars(n)) \in Nat
  BY <1>7, FS_Subset, FS_CardinalityType
<1>9. 0 \in E
  <2>1. Cardinality(inVars(0)) >= 0
    <3> HIDE DEF inVars
    <3> QED
      BY <1>8
  <2> QED
    BY <2>1
<1>10. ASSUME NEW n \in Nat, n \in E PROVE n + 1 \in E
  <2>1. CASE fixed(n)
    BY <1>6, <2>1
  <2>2. CASE ~fixed(n)
    <3>1. grown[n] \subseteq grown[n + 1] /\ grown[n + 1] \subseteq grown[n] \cup Vars
      BY <1>6, Round
    <3>2. PICK v \in grown[n + 1] : v \notin grown[n]
      BY <1>6, <2>2, <3>1
    <3>3. v \in Vars /\ v \notin inVars(n) /\ inVars(n) \cup {v} \subseteq inVars(n + 1)
      BY <3>1, <3>2
    <3>4. Cardinality(inVars(n) \cup {v}) = Cardinality(inVars(n)) + 1
      BY <1>8, <3>3, FS_AddElement
    <3>5. IsFiniteSet(inVars(n + 1)) /\ Cardinality(inVars(n + 1)) \in Nat
      BY <1>8
    <3>6. Cardinality(inVars(n) \cup {v}) <= Cardinality(inVars(n + 1))
      <4> HIDE DEF inVars
      <4> QED
        BY <3>3, <3>5, FS_Subset
    <3>7. Cardinality(inVars(n)) >= n
      BY <1>10, <2>2
    <3>8. Cardinality(inVars(n + 1)) >= n + 1
      <4> HIDE DEF inVars
      <4> QED
        BY <1>8, <3>4, <3>5, <3>6, <3>7
    <3> QED
      BY <3>8
  <2> QED
    BY <2>1, <2>2
<1> DEFINE N == Cardinality(Vars)
<1>11. N \in Nat
  BY <1>7, FS_CardinalityType
<1>12. N \in E
  <2> HIDE DEF E, N
  <2> QED
    BY <1>9, <1>10, <1>11, Induction
<1>13. fixed(N)
  <2>1. CASE fixed(N)
    BY <2>1
  <2>2. CASE Cardinality(inVars(N)) >= N
    <3>1. inVars(N) = Vars
      <4>1. inVars(N) \in SUBSET Vars /\ Cardinality(inVars(N)) \in Nat
        BY <1>8, <1>11
      <4>2. Cardinality(inVars(N)) <= Cardinality(Vars)
        BY <1>7, <4>1, FS_Subset
      <4>3. Cardinality(inVars(N)) = Cardinality(Vars)
        <5> HIDE DEF inVars
        <5> QED
          BY <1>11, <2>2, <4>1, <4>2
      <4> QED
        BY <1>7, <4>1, <4>3, FS_Subset
    <3>2. Vars \subseteq grown[N]
      BY <3>1
    <3> QED
      BY <3>2, Round
  <2> QED
    BY <1>12, <2>1, <2>2
<1> QED
  BY <1>5, <1>13

(* Whatever was selected or removed before, and for every model of the reader *)
(* below: with addAuxiliary no kept variable loses a dimension variable or a   *)
(* variable its coordinate system depends on (addAuxiliary, selectVariables).  *)
THEOREM AuxiliaryAlwaysKept == Spec => AuxiliaryKept
<1> DEFINE Kept == \A S \in Selections : SelectVariables(S, TRUE) =>
                     \A v \in vars' : (DimsOf(v) \cup Depends[v]) \cap vars \subseteq vars'
<1>1. ASSUME KnownVariables PROVE Kept
  <2> SUFFICES ASSUME NEW S \in Selections, SelectVariables(S, TRUE), NEW v \in vars'
               PROVE  (DimsOf(v) \cup Depends[v]) \cap vars \subseteq vars'
    OBVIOUS
  <2> DEFINE F == Auxiliary(S)
  <2>1. vars' = vars \cap F
    BY DEF SelectVariables
  <2>2. WithAuxiliary(F) = F
    BY <1>1, NothingToAdd
  <2>3. DimsOf(v) \cap vars \subseteq F /\ Depends[v] \subseteq F
    <3> DEFINE all == F \cup UNION {DimsOf(u) \cap vars : u \in F \cap vars}
    <3> HIDE DEF F
    <3>1. WithAuxiliary(F) = all \cup UNION {Depends[u] : u \in all \cap Vars}
      BY DEF WithAuxiliary
    <3>2. v \in F \cap vars /\ v \in Vars
      BY <1>1, <2>1 DEF KnownVariables
    <3>3. DimsOf(v) \cap vars \subseteq all /\ v \in all
      BY <3>2
    <3>4. Depends[v] \subseteq WithAuxiliary(F)
      <4> HIDE DEF all
      <4> QED
        BY <3>1, <3>2, <3>3
    <3> QED
      BY <2>2, <3>1, <3>3, <3>4
  <2> QED
    BY <2>1, <2>3
<1>2. KnownVariables => [Kept]_extractor
  BY <1>1
<1> QED
  BY <1>2, KnownAlways, PTL DEF AuxiliaryKept

-----------------------------------------------------------------------------
\* Sorted gives a finite set of numbers, each once, the smaller first.
LEMMA SortedHasAll ==
  ASSUME NEW S, S \subseteq Int, IsFiniteSet(S)
  PROVE  /\ Sorted(S) \in [1 .. Cardinality(S) -> S] /\ ToSet(Sorted(S)) = S
         /\ \A i, j \in 1 .. Cardinality(S) : i < j => Sorted(S)[i] < Sorted(S)[j]
<1> DEFINE N == Cardinality(S)
           below(x) == {y \in S : y < x}
           rank == [x \in S |-> Cardinality(below(x)) + 1]
           at(i) == CHOOSE x \in S : Cardinality(below(x)) = i - 1
<1>0. \A x \in S : x \in Int
  OBVIOUS
<1>1. N \in Nat
  BY FS_CardinalityType
<1>2. \A x \in S : IsFiniteSet(below(x)) /\ Cardinality(below(x)) \in 0 .. N - 1
  <2> SUFFICES ASSUME NEW x \in S PROVE IsFiniteSet(below(x)) /\ Cardinality(below(x)) \in 0 .. N - 1
    OBVIOUS
  <2>1. below(x) \in SUBSET S /\ x \notin below(x)
    OBVIOUS
  <2>2. IsFiniteSet(below(x)) /\ Cardinality(below(x)) <= N /\ Cardinality(below(x)) # N
    BY <2>1, FS_Subset
  <2>3. Cardinality(below(x)) \in Nat
    BY <2>2, FS_CardinalityType
  <2> HIDE DEF below, N
  <2> QED
    BY <1>1, <2>2, <2>3
<1>3. ASSUME NEW x \in S, NEW y \in S, x < y PROVE Cardinality(below(x)) < Cardinality(below(y))
  <2>1. below(x) \cup {x} \subseteq below(y) /\ x \notin below(x)
    <3>1. ASSUME NEW z \in S, z < x PROVE z < y
      <4>1. z \in Int /\ x \in Int /\ y \in Int
        BY <1>0
      <4> QED
        BY <1>3, <3>1, <4>1
    <3>2. \A z \in below(x) : z \in below(y)
      BY <3>1
    <3>3. x \in below(y)
      BY <1>3
    <3>4. x \notin below(x)
      BY <1>0
    <3> HIDE DEF below
    <3> QED
      BY <3>2, <3>3, <3>4
  <2>2. Cardinality(below(x) \cup {x}) = Cardinality(below(x)) + 1
    BY <1>2, <2>1, FS_AddElement
  <2>3. Cardinality(below(x) \cup {x}) <= Cardinality(below(y))
    <3>1. IsFiniteSet(below(y)) /\ below(x) \cup {x} \in SUBSET below(y)
      BY <1>2, <2>1
    <3> HIDE DEF below
    <3> QED
      BY <3>1, FS_Subset
  <2> HIDE DEF below, N
  <2> QED
    BY <1>1, <1>2, <2>2, <2>3
<1> HIDE DEF below, N
<1>12. \A x, y \in S : x < y => Cardinality(below(x)) < Cardinality(below(y))
  BY <1>3
<1>13. \A x \in S : Cardinality(below(x)) \in Int
  BY <1>1, <1>2
<1>4. rank \in Injection(S, 1 .. N)
  <2>1. rank \in [S -> 1 .. N]
    BY <1>1, <1>2
  <2>2. ASSUME NEW x \in S, NEW y \in S, rank[x] = rank[y] PROVE x = y
    <3>1. Cardinality(below(x)) = Cardinality(below(y))
      BY <1>13, <2>2
    <3>2. ~ (x < y) /\ ~ (y < x)
      BY <1>12, <1>13, <3>1
    <3> QED
      BY <3>2
  <2> HIDE DEF rank
  <2> QED
    BY <2>1, <2>2 DEF Injection, IsInjective
<1>5. rank \in Surjection(S, 1 .. N)
  <2>1. IsFiniteSet(1 .. N) /\ Cardinality(1 .. N) = N
    BY <1>1, FS_Interval
  <2> HIDE DEF rank
  <2> QED
    BY <1>4, <2>1, FS_Injection DEF N
<1>6. \A i \in 1 .. N : at(i) \in S /\ Cardinality(below(at(i))) = i - 1
  <2> SUFFICES ASSUME NEW i \in 1 .. N PROVE \E x \in S : Cardinality(below(x)) = i - 1
    OBVIOUS
  <2>1. PICK x \in S : rank[x] = i
    <3> HIDE DEF rank
    <3> QED
      BY <1>5 DEF Surjection
  <2>2. rank[x] = Cardinality(below(x)) + 1 /\ Cardinality(below(x)) \in Int
    BY <1>13
  <2>3. Cardinality(below(x)) = i - 1
    BY <2>1, <2>2
  <2> QED
    BY <2>3
<1>7. Sorted(S) = [i \in 1 .. N |-> at(i)]
  BY DEF Sorted, below, N
<1> HIDE DEF at, rank
<1>8. \A x \in S : \E i \in 1 .. N : at(i) = x
  <2> SUFFICES ASSUME NEW x \in S PROVE \E i \in 1 .. N : at(i) = x
    OBVIOUS
  <2> DEFINE k == Cardinality(below(x)) + 1
  <2>1. k \in 1 .. N /\ Cardinality(below(x)) = k - 1
    BY <1>1, <1>2, <1>13
  <2> HIDE DEF k
  <2>2. at(k) \in S /\ Cardinality(below(at(k))) = Cardinality(below(x))
    BY <1>6, <2>1
  <2>3. ~ (x < at(k)) /\ ~ (at(k) < x)
    <3>1. Cardinality(below(x)) \in Int /\ at(k) \in S
      BY <1>13, <2>2
    <3>2. x < at(k) => Cardinality(below(x)) < Cardinality(below(at(k)))
      BY <1>12, <3>1
    <3>3. at(k) < x => Cardinality(below(at(k))) < Cardinality(below(x))
      BY <1>12, <3>1
    <3> QED
      BY <2>2, <3>1, <3>2, <3>3
  <2>5. at(k) \in Int /\ x \in Int
    BY <1>0, <2>2
  <2>4. at(k) = x
    BY <2>3, <2>5
  <2> QED
    BY <2>1, <2>4
<1>9. \A i, j \in 1 .. N : i < j => at(i) < at(j)
  <2> SUFFICES ASSUME NEW i \in 1 .. N, NEW j \in 1 .. N, i < j PROVE at(i) < at(j)
    OBVIOUS
  <2>1. at(i) \in S /\ at(j) \in S /\ Cardinality(below(at(i))) = i - 1 /\ Cardinality(below(at(j))) = j - 1
    BY <1>6
  <2>2. at(i) # at(j) /\ ~ (at(j) < at(i))
    <3>1. Cardinality(below(at(i))) < Cardinality(below(at(j)))
      BY <1>1, <2>1
    <3>2. Cardinality(below(at(i))) \in Int /\ Cardinality(below(at(j))) \in Int
      BY <1>13, <2>1
    <3>3. at(j) < at(i) => Cardinality(below(at(j))) < Cardinality(below(at(i)))
      BY <1>12, <2>1
    <3>4. at(i) = at(j) => Cardinality(below(at(i))) = Cardinality(below(at(j)))
      OBVIOUS
    <3> QED
      BY <3>1, <3>2, <3>3, <3>4
  <2>3. at(i) \in Int /\ at(j) \in Int
    BY <1>0, <2>1
  <2> QED
    BY <2>2, <2>3
<1>10. \A i \in 1 .. N : Sorted(S)[i] = at(i)
  BY <1>7
<1>11. Sorted(S) \in [1 .. N -> S] /\ DOMAIN Sorted(S) = 1 .. N
  BY <1>6, <1>7
<1> QED
  BY <1>8, <1>9, <1>10, <1>11, <1>6 DEF ToSet, N

\* A part of the first numbers that has all below one of its own is all up to its size.
LEMMA FirstNumbers ==
  ASSUME NEW n \in Nat, NEW T, T \subseteq 1 .. n, \A i \in T : \A j \in 1 .. i : j \in T
  PROVE  T = 1 .. Cardinality(T) /\ Cardinality(T) \in 0 .. n
<1> DEFINE Out == {i \in 1 .. n + 1 : i \notin T}
<1>1. Out \subseteq Nat /\ n + 1 \in Out
  OBVIOUS
<1>2. PICK m \in Out : \A i \in Out : m <= i
  BY <1>1, LeastNatural
<1>3. T = 1 .. m - 1 /\ m \in 1 .. n + 1
  <2>1. \A i \in 1 .. m - 1 : i \in T
    BY <1>2
  <2>2. \A i \in T : i < m
    BY <1>2
  <2>3. m \in 1 .. n + 1
    BY <1>2
  <2>4. \A i \in T : i \in 1 .. n
    OBVIOUS
  <2>5. \A i \in T : i \in 1 .. m - 1
    BY <2>2, <2>3, <2>4
  <2> HIDE DEF Out
  <2> QED
    BY <2>1, <2>3, <2>5
<1>4. Cardinality(1 .. m - 1) = m - 1
  BY <1>3, FS_Interval
<1> QED
  BY <1>3, <1>4

\* The two bounds of the search are where the values between lo and hi begin and end.
LEMMA BoundsFound ==
  ASSUME NEW up \in Seq(Int), \A i, j \in DOMAIN up : i < j => up[i] <= up[j], NEW lo \in Int, NEW hi \in Int
  PROVE  /\ LowerBound(up, lo) \in 0 .. Len(up) /\ UpperBound(up, hi) \in 0 .. Len(up)
         /\ \A i \in 1 .. Len(up) : (lo <= up[i] <=> LowerBound(up, lo) < i) /\ (up[i] <= hi <=> i <= UpperBound(up, hi))
<1> DEFINE less == {i \in DOMAIN up : up[i] < lo}
           most == {i \in DOMAIN up : up[i] <= hi}
           n == Len(up)
<1>1. n \in Nat /\ DOMAIN up = 1 .. n /\ \A i \in 1 .. n : up[i] \in Int
  OBVIOUS
<1> HIDE DEF n
<1>2. less = 1 .. Cardinality(less) /\ Cardinality(less) \in 0 .. n
  <2>1. less \subseteq 1 .. n /\ \A i \in less : \A j \in 1 .. i : j \in less
    BY <1>1
  <2> HIDE DEF less
  <2> QED
    BY <1>1, <2>1, FirstNumbers
<1>3. most = 1 .. Cardinality(most) /\ Cardinality(most) \in 0 .. n
  <2>1. most \subseteq 1 .. n /\ \A i \in most : \A j \in 1 .. i : j \in most
    BY <1>1, SMTT(30)
  <2> HIDE DEF most
  <2> QED
    BY <1>1, <2>1, FirstNumbers
<1>4. LowerBound(up, lo) = Cardinality(less) /\ UpperBound(up, hi) = Cardinality(most)
  BY DEF LowerBound, UpperBound
<1>5. \A i \in 1 .. n : (i \in less <=> up[i] < lo) /\ (i \in most <=> up[i] <= hi)
  BY <1>1
<1> HIDE DEF less, most
<1> QED
  BY <1>1, <1>2, <1>3, <1>4, <1>5 DEF n

\* The positions that are picked on an axis.
LEMMA PositionsBetween ==
  ASSUME NEW d \in DOMAIN AxisValues, NEW lo \in Int, NEW hi \in Int
  PROVE  AxisPositions(AxisValues[d], lo, hi) =
           {p \in 0 .. Len(AxisValues[d]) - 1 : lo <= AxisValues[d][p + 1] /\ AxisValues[d][p + 1] <= hi}
<1> DEFINE vals == AxisValues[d]
           up == IF Falling(vals) THEN Reverse(vals) ELSE vals
           first == LowerBound(up, lo)
           end == UpperBound(up, hi)
           N == Len(vals)
<1>1. vals \in Seq(Int) /\ N \in Nat /\ DOMAIN vals = 1 .. N /\ \A i \in 1 .. N : vals[i] \in Int
  BY ExtractorAssumption
<1>2. /\ up \in Seq(Int) /\ Len(up) = N
      /\ \A i \in 1 .. N : up[i] = IF Falling(vals) THEN vals[N - i + 1] ELSE vals[i]
      /\ \A i, j \in DOMAIN up : i < j => up[i] <= up[j]
  <2>1. CASE Falling(vals)
    <3>1. up = [i \in 1 .. N |-> vals[N - i + 1]] /\ \A i \in 1 .. N : N - i + 1 \in 1 .. N
      BY <1>1, <2>1 DEF Reverse
    <3>2. up \in Seq(Int) /\ Len(up) = N
      BY <1>1, <3>1
    <3>3. \A i, j \in 1 .. N : i < j => vals[i] >= vals[j]
      BY <1>1, <2>1, AxesAssumption
    <3>4. \A i, j \in 1 .. N : i < j => up[i] <= up[j]
      <4> SUFFICES ASSUME NEW i \in 1 .. N, NEW j \in 1 .. N, i < j PROVE up[i] <= up[j]
        OBVIOUS
      <4>1. N - j + 1 \in 1 .. N /\ N - i + 1 \in 1 .. N /\ N - j + 1 < N - i + 1
        BY <1>1
      <4>2. vals[N - j + 1] >= vals[N - i + 1]
        BY <3>3, <4>1
      <4>3. up[i] = vals[N - i + 1] /\ up[j] = vals[N - j + 1]
        BY <3>1
      <4>4. vals[N - j + 1] \in Int /\ vals[N - i + 1] \in Int
        BY <1>1, <4>1
      <4> HIDE DEF up, vals, N
      <4> QED
        BY <4>2, <4>3, <4>4
    <3> QED
      BY <2>1, <3>1, <3>2, <3>4
  <2>2. CASE ~Falling(vals)
    BY <1>1, <2>2, AxesAssumption
  <2> QED
    BY <2>1, <2>2
<1> HIDE DEF up
<1>3. /\ first \in 0 .. N /\ end \in 0 .. N
      /\ \A i \in 1 .. N : (lo <= up[i] <=> first < i) /\ (up[i] <= hi <=> i <= end)
  BY <1>2, BoundsFound
<1> DEFINE count == end - first
           start == IF Falling(vals) THEN N - (IF count > 0 THEN count ELSE 0) - first ELSE first
<1>4. AxisPositions(vals, lo, hi) = {start + i : i \in 0 .. count - 1}
  BY DEF AxisPositions, AxisStart, up
<1> HIDE DEF first, end, vals, N
<1>5. ASSUME NEW p \in 0 .. N - 1
      PROVE  (\E i \in 0 .. count - 1 : p = start + i) <=> lo <= vals[p + 1] /\ vals[p + 1] <= hi
  <2>1. CASE Falling(vals)
    <3>1. N - p \in 1 .. N /\ up[N - p] = vals[p + 1]
      <4>1. N - p \in 1 .. N /\ N - (N - p) + 1 = p + 1
        BY <1>1
      <4> QED
        BY <1>2, <2>1, <4>1
    <3>2. (lo <= vals[p + 1] <=> first < N - p) /\ (vals[p + 1] <= hi <=> N - p <= end)
      BY <1>3, <3>1
    <3>3. (\E i \in 0 .. count - 1 : p = start + i) <=> first < N - p /\ N - p <= end
      <4>1. ASSUME NEW i \in 0 .. count - 1, p = start + i PROVE first < N - p /\ N - p <= end
        BY <1>1, <1>3, <2>1, <4>1
      <4>2. ASSUME first < N - p, N - p <= end PROVE \E i \in 0 .. count - 1 : p = start + i
        <5>1. p - start \in 0 .. count - 1 /\ p = start + (p - start)
          BY <1>1, <1>3, <2>1, <4>2
        <5> HIDE DEF start, count
        <5> QED
          BY <5>1
      <4> QED
        BY <4>1, <4>2
    <3> QED
      BY <3>2, <3>3
  <2>2. CASE ~Falling(vals)
    <3>1. p + 1 \in 1 .. N /\ up[p + 1] = vals[p + 1]
      BY <1>1, <1>2, <2>2
    <3>2. (lo <= vals[p + 1] <=> first < p + 1) /\ (vals[p + 1] <= hi <=> p + 1 <= end)
      BY <1>3, <3>1
    <3>3. (\E i \in 0 .. count - 1 : p = start + i) <=> first < p + 1 /\ p + 1 <= end
      <4>1. ASSUME NEW i \in 0 .. count - 1, p = start + i PROVE first < p + 1 /\ p + 1 <= end
        BY <1>1, <1>3, <2>2, <4>1
      <4>2. ASSUME first < p + 1, p + 1 <= end PROVE \E i \in 0 .. count - 1 : p = start + i
        <5>1. p - start \in 0 .. count - 1 /\ p = start + (p - start)
          BY <1>1, <1>3, <2>2, <4>2
        <5> HIDE DEF start, count
        <5> QED
          BY <5>1
      <4> QED
        BY <4>1, <4>2
    <3> QED
      BY <3>2, <3>3
  <2> QED
    BY <2>1, <2>2
<1>6. \A i \in 0 .. count - 1 : start + i \in 0 .. N - 1
  BY <1>1, <1>3
<1>7. AxisPositions(vals, lo, hi) = {p \in 0 .. N - 1 : lo <= vals[p + 1] /\ vals[p + 1] <= hi}
  <2> HIDE DEF start, count
  <2> QED
    BY <1>4, <1>5, <1>6
<1> QED
  BY <1>7 DEF vals, N

(* For axes that grow or fall, of any length and whatever was reduced before: *)
(* reduceAxes keeps exactly the positions with values between its bounds, and  *)
(* leaves reduced dimensions alone (CDMExtractor::reduceAxes).                 *)
THEOREM AxisRangesAreExact == Spec => AxisRangeExact
<1> DEFINE Exact ==
          \A lo, hi \in AxisBounds : ReduceAxes(lo, hi) =>
               \A d \in DOMAIN AxisValues :
                 IF d \in DOMAIN dimSlices THEN dimSlices'[d] = dimSlices[d]
                 ELSE AxisValues[d] # <<>> => ToSet(dimSlices'[d]) =
                        {p \in 0 .. OrgLength[d] - 1 : lo <= AxisValues[d][p + 1] /\ AxisValues[d][p + 1] <= hi}
<1>1. Exact
  <2> SUFFICES ASSUME NEW lo \in AxisBounds, NEW hi \in AxisBounds, ReduceAxes(lo, hi), NEW d \in DOMAIN AxisValues
               PROVE  IF d \in DOMAIN dimSlices THEN dimSlices'[d] = dimSlices[d]
                      ELSE AxisValues[d] # <<>> => ToSet(dimSlices'[d]) =
                        {p \in 0 .. OrgLength[d] - 1 : lo <= AxisValues[d][p + 1] /\ AxisValues[d][p + 1] <= hi}
    OBVIOUS
  <2> DEFINE positions(e) == AxisPositions(AxisValues[e], lo, hi)
             sorted == [e \in AxisDims |-> Sorted(positions(e))]
             T == {p \in 0 .. OrgLength[d] - 1 : lo <= AxisValues[d][p + 1] /\ AxisValues[d][p + 1] <= hi}
  <2>1. dimSlices' = [e \in AxisDims \cup DOMAIN dimSlices |-> IF e \in AxisDims THEN sorted[e] ELSE dimSlices[e]]
    <3>1. Picked(sorted)
      BY DEF ReduceAxes
    <3>2. DOMAIN sorted = AxisDims
      OBVIOUS
    <3> HIDE DEF sorted
    <3> QED
      BY <3>1, <3>2 DEF Picked
  <2>2. CASE d \in DOMAIN dimSlices
    <3>1. d \notin AxisDims
      BY <2>2 DEF AxisDims
    <3> QED
      BY <2>1, <2>2, <3>1
  <2>3. CASE d \notin DOMAIN dimSlices /\ AxisValues[d] # <<>>
    <3>1. AxisValues[d] \in Seq(Int) /\ Len(AxisValues[d]) = OrgLength[d] /\ lo \in Int /\ hi \in Int
      BY ExtractorAssumption
    <3>2. d \in AxisDims
      BY <2>3, <3>1 DEF AxisDims
    <3>3. dimSlices'[d] = Sorted(positions(d))
      BY <2>1, <3>2
    <3>4. positions(d) = T
      BY <3>1, PositionsBetween
    <3>7. T \subseteq Int
      OBVIOUS
    <3>5. IsFiniteSet(T)
      <4>1. OrgLength[d] \in Nat
        BY <3>1
      <4>2. IsFiniteSet(0 .. OrgLength[d] - 1) /\ T \in SUBSET (0 .. OrgLength[d] - 1)
        BY <4>1, FS_Interval
      <4> HIDE DEF T
      <4> QED
        BY <4>2, FS_Subset
    <3> HIDE DEF T, positions
    <3>6. ToSet(dimSlices'[d]) = T
      BY <3>3, <3>4, <3>5, <3>7, SortedHasAll
    <3> QED
      BY <2>3, <3>6 DEF T
  <2> QED
    BY <2>2, <2>3
<1>2. [Exact]_extractor
  BY <1>1
<1> QED
  BY <1>2, PTL DEF AxisRangeExact

-----------------------------------------------------------------------------
(* Numbers, and the layout of a hyperslab.                                 *)

LEMMA Divided ==
  ASSUME NEW a \in Nat, NEW b \in Nat, b > 0
  PROVE  a \div b \in Nat /\ a % b \in 0 .. b - 1 /\ a = (a % b) + b * (a \div b)
OBVIOUS

LEMMA Composed ==
  ASSUME NEW b \in Nat, b > 0, NEW q \in Nat, NEW r \in 0 .. b - 1
  PROVE  (r + b * q) \div b = q /\ (r + b * q) % b = r
OBVIOUS

LEMMA DividedTwice ==
  ASSUME NEW k \in Nat, NEW a \in Nat, NEW b \in Nat, a > 0, b > 0
  PROVE  (k \div a) \div b = k \div (a * b)
OBVIOUS

LEMMA DividedInOrder ==
  ASSUME NEW k \in Nat, NEW l \in Nat, NEW a \in Nat, a > 0, k <= l
  PROVE  k \div a <= l \div a
OBVIOUS

\* The products of the first numbers of s, up to the n-th.
Running(f, s, n) == f = [k \in 0 .. n |-> IF k = 0 THEN 1 ELSE f[k - 1] * s[k]]

LEMMA RunningExists ==
  ASSUME NEW s, NEW n \in Nat
  PROVE  \E f : Running(f, s, n)
<1> DEFINE S == {m \in Nat : \E f : Running(f, s, m)}
<1>1. 0 \in S
  <2>1. Running([k \in 0 .. 0 |-> 1], s, 0)
    BY DEF Running
  <2> QED
    BY <2>1
<1>2. ASSUME NEW m \in Nat, m \in S PROVE m + 1 \in S
  <2>1. PICK f : Running(f, s, m)
    BY <1>2
  <2> DEFINE last == f[m] * s[m + 1]
             g == [k \in 0 .. m + 1 |-> IF k <= m THEN f[k] ELSE last]
  <2>2. \A k \in 0 .. m : f[k] = IF k = 0 THEN 1 ELSE f[k - 1] * s[k]
    BY <2>1 DEF Running
  <2> HIDE DEF last
  <2>3. (\A k \in 0 .. m : g[k] = f[k]) /\ g[m + 1] = last
    OBVIOUS
  <2>4. g = [k \in 0 .. m + 1 |-> g[k]]
    OBVIOUS
  <2> HIDE DEF g
  <2>5. ASSUME NEW k \in 0 .. m + 1
        PROVE  g[k] = IF k = 0 THEN 1 ELSE g[k - 1] * s[k]
    <3>1. CASE k = m + 1
      <4>1. k - 1 = m /\ k # 0 /\ g[m] = f[m]
        BY <2>3, <3>1
      <4> QED
        BY <2>3, <3>1, <4>1 DEF last
    <3>2. CASE k # m + 1
      <4>1. k \in 0 .. m /\ (k # 0 => k - 1 \in 0 .. m)
        BY <3>2
      <4> QED
        BY <2>2, <2>3, <4>1
    <3> QED
      BY <3>1, <3>2
  <2>6. Running(g, s, m + 1)
    BY <2>4, <2>5 DEF Running
  <2> QED
    BY <2>6
<1> HIDE DEF S
<1>3. n \in S
  BY <1>1, <1>2, Induction
<1> QED
  BY <1>3 DEF S

LEMMA RunningSteps ==
  ASSUME NEW s, NEW n \in Nat, NEW f, Running(f, s, n)
  PROVE  f[0] = 1 /\ \A k \in 1 .. n : f[k] = f[k - 1] * s[k]
<1>1. \A k \in 0 .. n : f[k] = IF k = 0 THEN 1 ELSE f[k - 1] * s[k]
  BY DEF Running
<1> QED
  BY <1>1

\* Sequences that begin alike have the same first products.
AgreeUpTo(s, t, n) == \A k \in 1 .. n : s[k] = t[k]

LEMMA RunningAgree ==
  ASSUME NEW s, NEW t, NEW m \in Nat, NEW n \in Nat, m <= n, NEW f, NEW g,
         Running(f, s, m), Running(g, t, n), AgreeUpTo(s, t, m)
  PROVE  \A k \in 0 .. m : f[k] = g[k]
<1> DEFINE S == {k \in Nat : k <= m => f[k] = g[k]}
<1>1. 0 \in S
  <2>1. f[0] = 1 /\ g[0] = 1
    BY RunningSteps
  <2> QED
    BY <2>1
<1>2. ASSUME NEW k \in Nat, k \in S PROVE k + 1 \in S
  <2>1. CASE k + 1 <= m
    <3>1. k + 1 \in 1 .. m /\ k + 1 \in 1 .. n /\ (k + 1) - 1 = k
      BY <2>1
    <3>2. f[k + 1] = f[k] * s[k + 1] /\ g[k + 1] = g[k] * t[k + 1]
      BY <3>1, RunningSteps
    <3>3. f[k] = g[k] /\ s[k + 1] = t[k + 1]
      BY <1>2, <3>1 DEF AgreeUpTo
    <3> QED
      BY <3>2, <3>3
  <2> QED
    BY <2>1
<1> HIDE DEF S
<1>3. Nat \subseteq S
  BY <1>1, <1>2, Induction
<1> QED
  BY <1>3 DEF S

LEMMA ProductIs ==
  ASSUME NEW s, NEW n \in Nat, Len(s) = n, NEW f, Running(f, s, n)
  PROVE  Product(s) = f[n]
<1> DEFINE g == CHOOSE h : Running(h, s, n)
<1>1. Product(s) = g[n]
  BY DEF Product, Running
<1>2. Running(g, s, n)
  BY RunningExists
<1> HIDE DEF g
<1>3. \A k \in 0 .. n : f[k] = g[k]
  <2>1. AgreeUpTo(s, s, n)
    BY DEF AgreeUpTo
  <2> QED
    BY <1>2, <2>1, RunningAgree
<1> QED
  BY <1>1, <1>3

\* The strides are the products of the sizes before them.
Layout(P, size) ==
  /\ P \in [0 .. Len(size) -> Nat \ {0}]
  /\ P[0] = 1 /\ P[Len(size)] = Product(size)
  /\ \A d \in 1 .. Len(size) : P[d] = P[d - 1] * size[d] /\ Strides(size)[d] = P[d - 1]

LEMMA LayoutExists ==
  ASSUME NEW size \in Seq(Nat \ {0})
  PROVE  \E P : Layout(P, size)
<1> DEFINE n == Len(size)
<1>0. n \in Nat /\ DOMAIN size = 1 .. n /\ \A k \in 1 .. n : size[k] \in Nat \ {0}
  OBVIOUS
<1>1. PICK P : Running(P, size, n)
  BY RunningExists, <1>0
<1>2. P[0] = 1 /\ \A k \in 1 .. n : P[k] = P[k - 1] * size[k]
  BY <1>0, <1>1, RunningSteps
<1> DEFINE S == {k \in Nat : k <= n => P[k] \in Nat \ {0}}
<1>3. n \in Nat => Nat \subseteq S
  <2>1. 0 \in S
    BY <1>2
  <2>2. ASSUME NEW k \in Nat, k \in S PROVE k + 1 \in S
    <3>1. CASE k + 1 <= n
      <4>1. k + 1 \in 1 .. n /\ (k + 1) - 1 = k /\ P[k] \in Nat \ {0} /\ size[k + 1] \in Nat \ {0}
        BY <1>0, <2>2, <3>1
      <4>2. P[k + 1] = P[k] * size[k + 1]
        BY <1>2, <4>1
      <4> HIDE DEF n
      <4> QED
        BY <4>1, <4>2
    <3> QED
      BY <1>0, <3>1
  <2> HIDE DEF S
  <2> QED
    BY <2>1, <2>2, Induction
<1>4. P \in [0 .. n -> Nat \ {0}]
  <2>1. \A k \in 0 .. n : P[k] \in Nat \ {0}
    BY <1>0, <1>3
  <2>2. P = [k \in 0 .. n |-> P[k]]
    BY <1>1 DEF Running
  <2> HIDE DEF n
  <2> QED
    BY <2>1, <2>2
<1>5. ASSUME NEW d \in 1 .. n PROVE Strides(size)[d] = P[d - 1]
  <2>1. PICK m \in Nat : m = d - 1 /\ m <= n
    BY <1>0
  <2> DEFINE t == SubSeq(size, 1, m)
  <2>2. Len(t) = m /\ \A k \in 1 .. m : t[k] = size[k]
    BY <1>0, <2>1
  <2>3. Strides(size)[d] = Product(t)
    BY <1>0, <2>1 DEF Strides
  <2> HIDE DEF t, n
  <2>4. PICK G : Running(G, t, m)
    BY RunningExists
  <2>5. Product(t) = G[m]
    BY <2>2, <2>4, ProductIs
  <2>6. \A k \in 0 .. m : G[k] = P[k]
    <3>1. n \in Nat /\ m \in Nat /\ m <= n
      BY <1>0, <2>1
    <3>2. Running(P, size, n) /\ Running(G, t, m)
      BY <1>1, <2>4
    <3>3. AgreeUpTo(t, size, m)
      BY <2>2 DEF AgreeUpTo
    <3> QED
      BY <3>1, <3>2, <3>3, RunningAgree
  <2> QED
    BY <2>1, <2>3, <2>5, <2>6
<1>6. Product(size) = P[n]
  BY <1>0, <1>1, ProductIs
<1>7. Layout(P, size)
  BY <1>2, <1>4, <1>5, <1>6 DEF Layout
<1> QED
  BY <1>7

\* The elements of a hyperslab, and the order of memory: the last dimension decides.
Box(start, size) ==
  {x \in [DOMAIN size -> Nat] : \A d \in DOMAIN size : start[d] <= x[d] /\ x[d] < start[d] + size[d]}
Earlier(x, y) == \E j \in DOMAIN x : x[j] < y[j] /\ \A m \in DOMAIN x : m > j => x[m] = y[m]

\* What is left of a position after some dimensions is a digit and what is left after one more.
Leaves(k, P, size, d) ==
  /\ k \div P[d - 1] \in Nat /\ k \div P[d] \in Nat
  /\ (k \div P[d - 1]) % size[d] \in 0 .. size[d] - 1
  /\ k \div P[d - 1] = ((k \div P[d - 1]) % size[d]) + size[d] * (k \div P[d])

LEMMA Digit ==
  ASSUME NEW size \in Seq(Nat \ {0}), NEW P, Layout(P, size), NEW k \in Nat, NEW d \in 1 .. Len(size)
  PROVE  Leaves(k, P, size, d) /\ k \div P[d] = (k \div P[d - 1]) \div size[d]
<1>1. P[d - 1] \in Nat \ {0} /\ P[d] \in Nat \ {0} /\ size[d] \in Nat \ {0} /\ P[d] = P[d - 1] * size[d]
  BY DEF Layout
<1> DEFINE a == P[d - 1]
           b == size[d]
           c == P[d]
<1>2. a \in Nat /\ b \in Nat /\ a > 0 /\ b > 0 /\ c = a * b /\ c \in Nat /\ c > 0
  BY <1>1
<1> HIDE DEF a, b, c
<1>3. (k \div a) \div b = k \div c
  BY <1>2, DividedTwice
<1>4. k \div a \in Nat
  BY <1>2, Divided
<1> DEFINE q == k \div a
<1>5. q \div b \in Nat /\ q % b \in 0 .. b - 1 /\ q = (q % b) + b * (q \div b)
  <2> HIDE DEF q
  <2> QED
    BY <1>2, <1>4, Divided DEF q
<1> QED
  BY <1>3, <1>4, <1>5 DEF a, b, c, Leaves

\* All positions are below the product: nothing is left of one in the end.
LEMMA NothingLeft ==
  ASSUME NEW size \in Seq(Nat \ {0}), NEW P, Layout(P, size), NEW k \in Nat
  PROVE  (k \div P[Len(size)] = 0 <=> k < P[Len(size)]) /\ k \div P[0] = k
<1>1. P[Len(size)] \in Nat \ {0} /\ P[0] = 1
  BY DEF Layout
<1> DEFINE c == P[Len(size)]
<1>2. c \in Nat /\ c > 0
  BY <1>1
<1> HIDE DEF c
<1>3. k \div c \in Nat /\ k % c \in 0 .. c - 1 /\ k = (k % c) + c * (k \div c)
  BY <1>2, Divided
<1>4. k \div c = 0 => k < c
  <2> SUFFICES ASSUME k \div c = 0 PROVE k < c
    OBVIOUS
  <2>1. c * 0 = 0
    BY <1>2
  <2> QED
    BY <1>2, <1>3, <2>1
<1>5. k < c => k \div c = 0
  <2> SUFFICES ASSUME k < c PROVE k \div c = 0
    OBVIOUS
  <2>1. k \in 0 .. c - 1 /\ k + c * 0 = k
    BY <1>2
  <2>2. (k + c * 0) \div c = 0
    BY <1>2, <2>1, Composed
  <2> QED
    BY <2>1, <2>2
<1>6. k \div 1 = k
  OBVIOUS
<1> QED
  BY <1>1, <1>4, <1>5, <1>6 DEF c

\* The index vector of a position: its digits.
At(P, start, size, k) == [d \in DOMAIN size |-> start[d] + ((k \div P[d - 1]) % size[d])]

Element(start, size, stride, k) == [d \in DOMAIN size |-> start[d] + ((k \div stride[d]) % size[d])]

LEMMA SlabUnfolded ==
  ASSUME NEW size, NEW start
  PROVE  Slab(start, size) = [k \in 1 .. Product(size) |-> Element(start, size, Strides(size), k - 1)]
BY DEF Slab, Element

StridesAre(stride, P, size) == \A d \in DOMAIN size : stride[d] = P[d - 1]

LEMMA ElementIs ==
  ASSUME NEW size, NEW start, NEW stride, NEW P, NEW k, StridesAre(stride, P, size)
  PROVE  Element(start, size, stride, k) = At(P, start, size, k)
BY DEF Element, At, StridesAre

LEMMA SlabIs ==
  ASSUME NEW size \in Seq(Nat \ {0}), NEW P, Layout(P, size), NEW start
  PROVE  Slab(start, size) = [k \in 1 .. P[Len(size)] |-> At(P, start, size, k - 1)]
<1>1. P[Len(size)] = Product(size) /\ StridesAre(Strides(size), P, size)
  BY DEF Layout, StridesAre
<1>2. ASSUME NEW k PROVE Element(start, size, Strides(size), k - 1) = At(P, start, size, k - 1)
  BY <1>1, ElementIs
<1> QED
  BY <1>1, <1>2, SlabUnfolded

\* Of two positions the smaller has the earlier index vector.
LEMMA DigitsInOrder ==
  ASSUME NEW size \in Seq(Nat \ {0}), NEW P, Layout(P, size), NEW start \in [DOMAIN size -> Nat],
         NEW k \in 0 .. P[Len(size)] - 1, NEW l \in 0 .. P[Len(size)] - 1, k < l
  PROVE  Earlier(At(P, start, size, k), At(P, start, size, l))
<1> DEFINE n == Len(size)
           digit(p, d) == (p \div P[d - 1]) % size[d]
           Same == {d \in 0 .. n : k \div P[d] = l \div P[d]}
<1>0. n \in Nat /\ DOMAIN size = 1 .. n /\ k \in Nat /\ l \in Nat /\ P[n] \in Nat
  BY DEF Layout
<1>1. n \in Same /\ 0 \notin Same
  <2>1. k \div P[n] = 0 /\ l \div P[n] = 0 /\ k \div P[0] = k /\ l \div P[0] = l
    BY <1>0, NothingLeft
  <2> QED
    BY <1>0, <2>1
<1>2. PICK j \in Same : \A d \in Same : j <= d
  <2>1. Same \subseteq Nat /\ Same # {}
    BY <1>0, <1>1
  <2> HIDE DEF Same
  <2> QED
    BY <2>1, LeastNatural
<1>3. j \in 1 .. n
  BY <1>1, <1>2
<1>4. \A d \in 1 .. n : Leaves(k, P, size, d) /\ Leaves(l, P, size, d)
  BY <1>0, Digit
<1>5. \A d \in 1 .. n : size[d] \in Nat \ {0}
  OBVIOUS
<1>6. digit(k, j) < digit(l, j)
  <2>1. j - 1 \in 0 .. n /\ j - 1 \notin Same
    BY <1>2, <1>3
  <2>2. k \div P[j - 1] # l \div P[j - 1] /\ k \div P[j] = l \div P[j]
    BY <1>2, <2>1
  <2>3. k \div P[j - 1] <= l \div P[j - 1]
    <3>1. P \in [0 .. n -> Nat \ {0}]
      BY DEF Layout
    <3> DEFINE a == P[j - 1]
    <3>2. a \in Nat /\ a > 0
      BY <2>1, <3>1
    <3>3. k <= l
      BY <1>0
    <3> HIDE DEF a
    <3>4. k \div a <= l \div a
      BY <1>0, <3>2, <3>3, DividedInOrder
    <3> QED
      BY <3>4 DEF a
  <2>4. Leaves(k, P, size, j) /\ Leaves(l, P, size, j)
    BY <1>3, <1>4
  <2> DEFINE t == size[j] * (k \div P[j])
  <2>5. /\ k \div P[j - 1] \in Nat /\ l \div P[j - 1] \in Nat
        /\ k \div P[j - 1] = digit(k, j) + t /\ l \div P[j - 1] = digit(l, j) + t
        /\ digit(k, j) \in Nat /\ digit(l, j) \in Nat /\ t \in Nat
    <3>1. size[j] \in Nat \ {0} /\ k \div P[j] \in Nat
      BY <1>3, <1>5, <2>4 DEF Leaves
    <3>2. t \in Nat
      BY <3>1
    <3>3. /\ digit(k, j) \in 0 .. size[j] - 1 /\ digit(l, j) \in 0 .. size[j] - 1
          /\ k \div P[j - 1] = digit(k, j) + t /\ l \div P[j - 1] = digit(l, j) + t
          /\ k \div P[j - 1] \in Nat /\ l \div P[j - 1] \in Nat
      BY <2>2, <2>4 DEF Leaves
    <3> HIDE DEF digit, t
    <3> QED
      BY <3>1, <3>2, <3>3
  <2> HIDE DEF digit, t
  <2> QED
    BY <2>2, <2>3, <2>5
<1>7. \A d \in Nat : d >= j /\ d <= n => k \div P[d] = l \div P[d]
  <2> DEFINE S == {d \in Nat : d >= j /\ d <= n => k \div P[d] = l \div P[d]}
  <2>1. 0 \in S
    BY <1>3
  <2>2. ASSUME NEW d \in Nat, d \in S PROVE d + 1 \in S
    <3>1. CASE d + 1 > j /\ d + 1 <= n
      <4>1. k \div P[d] = l \div P[d] /\ d + 1 \in 1 .. n /\ (d + 1) - 1 = d
        BY <1>3, <2>2, <3>1
      <4>2. k \div P[d + 1] = (k \div P[d]) \div size[d + 1] /\ l \div P[d + 1] = (l \div P[d]) \div size[d + 1]
        <5> DEFINE e == d + 1
        <5>1. e \in 1 .. n /\ e - 1 = d
          BY <4>1
        <5> HIDE DEF e
        <5>2. k \div P[e] = (k \div P[e - 1]) \div size[e] /\ l \div P[e] = (l \div P[e - 1]) \div size[e]
          BY <1>0, <5>1, Digit
        <5> QED
          BY <5>1, <5>2 DEF e
      <4> QED
        BY <4>1, <4>2
    <3>2. CASE d + 1 = j
      BY <1>2, <3>2
    <3> QED
      BY <1>0, <1>3, <3>1, <3>2
  <2> HIDE DEF S
  <2>3. Nat \subseteq S
    BY <2>1, <2>2, Induction
  <2> QED
    BY <2>3 DEF S
<1>8. \A d \in 1 .. n : d > j => digit(k, d) = digit(l, d)
  <2> SUFFICES ASSUME NEW d \in 1 .. n, d > j PROVE digit(k, d) = digit(l, d)
    OBVIOUS
  <2>1. d - 1 \in Nat /\ d - 1 >= j /\ d - 1 <= n
    BY <1>0, <1>3
  <2>2. k \div P[d - 1] = l \div P[d - 1]
    BY <1>7, <2>1
  <2> QED
    BY <2>2
<1> DEFINE x == At(P, start, size, k)
           y == At(P, start, size, l)
<1>9. DOMAIN x = 1 .. n /\ \A d \in 1 .. n : x[d] = start[d] + digit(k, d) /\ y[d] = start[d] + digit(l, d)
  BY <1>0 DEF At
<1>10. \A d \in 1 .. n : start[d] \in Nat /\ digit(k, d) \in Nat /\ digit(l, d) \in Nat
  <2> SUFFICES ASSUME NEW d \in 1 .. n
               PROVE  start[d] \in Nat /\ digit(k, d) \in Nat /\ digit(l, d) \in Nat
    OBVIOUS
  <2>1. start[d] \in Nat /\ size[d] \in Nat \ {0}
    BY <1>0, <1>5
  <2>2. digit(k, d) \in 0 .. size[d] - 1 /\ digit(l, d) \in 0 .. size[d] - 1
    BY <1>4 DEF Leaves
  <2> HIDE DEF digit
  <2> QED
    BY <2>1, <2>2
<1> HIDE DEF x, y, digit, n
<1>11. x[j] < y[j] /\ \A d \in 1 .. n : d > j => x[d] = y[d]
  <2>1. \A d \in 1 .. n : d > j => x[d] = y[d]
    BY <1>8, <1>9
  <2>2. x[j] = start[j] + digit(k, j) /\ y[j] = start[j] + digit(l, j)
    BY <1>3, <1>9
  <2>3. start[j] \in Nat /\ digit(k, j) \in Nat /\ digit(l, j) \in Nat
    BY <1>3, <1>10
  <2> QED
    BY <1>6, <2>1, <2>2, <2>3
<1>12. Earlier(x, y)
  BY <1>3, <1>9, <1>11 DEF Earlier
<1> QED
  BY <1>12 DEF x, y

\* Positions of which a is left after m dimensions have the given digits in the others.
Completes(a, m, P, size, digits) ==
  \A k \in Nat : k \div P[m] = a =>
    /\ \A d \in m + 1 .. Len(size) : (k \div P[d - 1]) % size[d] = digits[d]
    /\ k \div P[Len(size)] = 0

LEMMA OneMoreDigit ==
  ASSUME NEW size \in Seq(Nat \ {0}), NEW P, Layout(P, size), NEW digits,
         NEW m \in 1 .. Len(size), digits[m] \in 0 .. size[m] - 1,
         NEW a \in Nat, Completes(a, m, P, size, digits)
  PROVE  Completes(digits[m] + size[m] * a, m - 1, P, size, digits)
<1> DEFINE n == Len(size)
           b == size[m]
           r == digits[m]
           whole == r + b * a
<1>0. n \in Nat /\ b \in Nat /\ b > 0 /\ r \in 0 .. b - 1
  OBVIOUS
<1>1. whole \div b = a /\ whole % b = r
  <2> HIDE DEF b, r
  <2> QED
    BY <1>0, Composed
<1> HIDE DEF whole
<1>2. ASSUME NEW k \in Nat, k \div P[m - 1] = whole
      PROVE  /\ \A d \in m .. n : (k \div P[d - 1]) % size[d] = digits[d]
             /\ k \div P[n] = 0
  <2>1. k \div P[m] = (k \div P[m - 1]) \div size[m]
    BY Digit
  <2>2. k \div P[m] = a /\ (k \div P[m - 1]) % size[m] = digits[m]
    BY <1>1, <1>2, <2>1
  <2>3. k \div P[n] = 0 /\ \A d \in m + 1 .. n : (k \div P[d - 1]) % size[d] = digits[d]
    BY <2>2 DEF Completes
  <2>4. \A d \in m .. n : d = m \/ d \in m + 1 .. n
    BY <1>0
  <2> QED
    BY <2>2, <2>3, <2>4
<1>3. (m - 1) + 1 = m
  OBVIOUS
<1> QED
  BY <1>2, <1>3 DEF Completes, whole

DigitsFit(digits, size) == \A d \in DOMAIN size : digits[d] \in 0 .. size[d] - 1

LEMMA DigitsReached ==
  ASSUME NEW size \in Seq(Nat \ {0}), NEW P, Layout(P, size), NEW digits, DigitsFit(digits, size)
  PROVE  \E k \in 0 .. P[Len(size)] - 1 : \A d \in DOMAIN size : (k \div P[d - 1]) % size[d] = digits[d]
<1> DEFINE n == Len(size)
           S == {c \in Nat : c <= n => \E a \in Nat : Completes(a, n - c, P, size, digits)}
<1>0. n \in Nat /\ DOMAIN size = 1 .. n
  OBVIOUS
<1>1. 0 \in S
  <2>1. Completes(0, n, P, size, digits)
    BY <1>0 DEF Completes
  <2>2. n - 0 = n
    BY <1>0
  <2> QED
    BY <2>1, <2>2
<1>2. ASSUME NEW c \in Nat, c \in S PROVE c + 1 \in S
  <2> SUFFICES ASSUME c + 1 <= n PROVE \E a \in Nat : Completes(a, n - (c + 1), P, size, digits)
    OBVIOUS
  <2>1. PICK m \in 1 .. n : m = n - c
    <3>1. n - c \in 1 .. n
      BY <1>0
    <3> QED
      BY <3>1
  <2>2. PICK a \in Nat : Completes(a, m, P, size, digits)
    BY <1>0, <1>2, <2>1
  <2>3. digits[m] \in 0 .. size[m] - 1 /\ size[m] \in Nat
    <3>1. m \in DOMAIN size
      BY <1>0, <2>1
    <3> QED
      BY <3>1 DEF DigitsFit
  <2>4. Completes(digits[m] + size[m] * a, m - 1, P, size, digits)
    BY <2>2, <2>3, OneMoreDigit
  <2>5. digits[m] + size[m] * a \in Nat
    <3> DEFINE b == size[m]
               r == digits[m]
    <3>1. b \in Nat /\ r \in Nat
      BY <2>3
    <3> HIDE DEF b, r
    <3>2. r + b * a \in Nat
      BY <3>1
    <3> QED
      BY <3>2 DEF b, r
  <2>6. n - (c + 1) = m - 1
    BY <1>0, <2>1
  <2> QED
    BY <2>4, <2>5, <2>6
<1>3. n \in S
  <2> HIDE DEF S, n
  <2> QED
    BY <1>0, <1>1, <1>2, Induction
<1>4. PICK k \in Nat : Completes(k, 0, P, size, digits)
  <2>1. n - n = 0
    BY <1>0
  <2> QED
    BY <1>0, <1>3, <2>1
<1>5. k \div P[0] = k /\ (k \div P[n] = 0 <=> k < P[n]) /\ P[n] \in Nat
  <2>1. k \in Nat /\ P[n] \in Nat
    BY <1>4 DEF Layout
  <2> QED
    BY <2>1, NothingLeft
<1>6. k \div P[n] = 0 /\ \A d \in 1 .. n : (k \div P[d - 1]) % size[d] = digits[d]
  BY <1>4, <1>5 DEF Completes
<1>7. k \in 0 .. P[n] - 1
  BY <1>5, <1>6
<1> QED
  BY <1>0, <1>6, <1>7

(* A hyperslab has as many elements as the product of its sizes, has them all, and *)
(* in the order of memory.                                                         *)
LEMMA SlabRight ==
  ASSUME NEW size \in Seq(Nat \ {0}), NEW start \in [DOMAIN size -> Nat]
  PROVE  /\ Product(size) \in Nat \ {0}
         /\ Slab(start, size) \in Seq(Box(start, size)) /\ Len(Slab(start, size)) = Product(size)
         /\ ToSet(Slab(start, size)) = Box(start, size)
         /\ \A k, l \in DOMAIN Slab(start, size) : k < l => Earlier(Slab(start, size)[k], Slab(start, size)[l])
<1>1. PICK P : Layout(P, size)
  BY LayoutExists
<1> DEFINE N == P[Len(size)]
           at(k) == At(P, start, size, k)
           slab == Slab(start, size)
           box == Box(start, size)
<1>2. N \in Nat \ {0} /\ N = Product(size)
  BY <1>1 DEF Layout
<1>3. slab = [k \in 1 .. N |-> at(k - 1)]
  BY <1>1, SlabIs
<1>4. ASSUME NEW k \in Nat PROVE at(k) \in box
  <2>1. \A d \in DOMAIN size : (k \div P[d - 1]) % size[d] \in 0 .. size[d] - 1
    <3> SUFFICES ASSUME NEW d \in DOMAIN size PROVE (k \div P[d - 1]) % size[d] \in 0 .. size[d] - 1
      OBVIOUS
    <3>1. d \in 1 .. Len(size)
      OBVIOUS
    <3>2. Leaves(k, P, size, d)
      BY <1>1, <3>1, Digit
    <3> QED
      BY <3>2 DEF Leaves
  <2>2. ASSUME NEW d \in DOMAIN size
        PROVE  at(k)[d] \in Nat /\ start[d] <= at(k)[d] /\ at(k)[d] < start[d] + size[d]
    <3> DEFINE r == (k \div P[d - 1]) % size[d]
    <3>1. at(k)[d] = start[d] + r /\ r \in 0 .. size[d] - 1
      BY <2>1 DEF At
    <3>2. size[d] \in Nat /\ start[d] \in Nat
      OBVIOUS
    <3> HIDE DEF at, r
    <3> QED
      BY <3>1, <3>2
  <2>3. at(k) = [d \in DOMAIN size |-> at(k)[d]]
    BY DEF At
  <2> HIDE DEF at
  <2> QED
    BY <2>2, <2>3 DEF Box
<1>5. ASSUME NEW x \in box PROVE \E k \in 0 .. N - 1 : at(k) = x
  <2> DEFINE digits == [d \in DOMAIN size |-> x[d] - start[d]]
  <2>1. \A d \in DOMAIN size : /\ x[d] \in Nat /\ start[d] \in Nat /\ size[d] \in Nat
                               /\ start[d] <= x[d] /\ x[d] < start[d] + size[d]
    BY DEF Box
  <2>2. \A d \in DOMAIN size : digits[d] \in 0 .. size[d] - 1 /\ start[d] + digits[d] = x[d]
    BY <2>1
  <2>3. PICK k \in 0 .. N - 1 : \A d \in DOMAIN size : (k \div P[d - 1]) % size[d] = digits[d]
    <3>1. DigitsFit(digits, size)
      BY <2>2 DEF DigitsFit
    <3> HIDE DEF digits
    <3> QED
      BY <1>1, <3>1, DigitsReached
  <2>4. \A d \in DOMAIN size : at(k)[d] = x[d]
    BY <2>2, <2>3 DEF At
  <2>5. at(k) = [d \in DOMAIN size |-> at(k)[d]] /\ x = [d \in DOMAIN size |-> x[d]]
    BY DEF At, Box
  <2> HIDE DEF at
  <2> QED
    BY <2>4, <2>5
<1>6. ASSUME NEW k \in 1 .. N, NEW l \in 1 .. N, k < l PROVE Earlier(at(k - 1), at(l - 1))
  <2>1. k - 1 \in 0 .. N - 1 /\ l - 1 \in 0 .. N - 1 /\ k - 1 < l - 1
    <3> HIDE DEF N
    <3> QED
      BY <1>2, <1>6
  <2> QED
    BY <1>1, <2>1, DigitsInOrder
<1> HIDE DEF at, slab, box, N
<1>7. DOMAIN slab = 1 .. N /\ Len(slab) = N /\ slab \in Seq(box)
  <2>1. \A k \in 1 .. N : at(k - 1) \in box
    BY <1>2, <1>4
  <2>2. slab \in [1 .. N -> box] /\ N \in Nat
    BY <1>2, <1>3, <2>1
  <2> QED
    BY <2>2
<1>8. ToSet(slab) = box
  <2>1. ToSet(slab) \subseteq box
    BY <1>7 DEF ToSet
  <2>2. \A x \in box : x \in ToSet(slab)
    <3> SUFFICES ASSUME NEW x \in box PROVE \E i \in DOMAIN slab : x = slab[i]
      BY DEF ToSet
    <3>1. PICK k \in 0 .. N - 1 : at(k) = x
      BY <1>5
    <3>2. k + 1 \in 1 .. N /\ (k + 1) - 1 = k
      BY <1>2
    <3> QED
      BY <1>3, <3>1, <3>2
  <2> QED
    BY <2>1, <2>2
<1>9. \A k, l \in DOMAIN slab : k < l => Earlier(slab[k], slab[l])
  BY <1>3, <1>6, <1>7
<1> QED
  BY <1>2, <1>7, <1>8, <1>9 DEF slab, box

-----------------------------------------------------------------------------
(* Sequences put together of parts, and their order.  R is a relation.     *)

Ordered(s, R) == \A k, l \in DOMAIN s : k < l => <<s[k], s[l]>> \in R
Across(s, t, R) == \A i \in DOMAIN s, j \in DOMAIN t : <<s[i], t[j]>> \in R
PartsOrdered(ss, R) ==
  /\ \A k \in DOMAIN ss : Ordered(ss[k], R)
  /\ \A k, l \in DOMAIN ss : k < l => Across(ss[k], ss[l], R)

\* The first parts put together, as FlattenSeq does.
Joining(f, ss, n) == f = [i \in 1 .. n |-> IF i = 1 THEN ss[i] ELSE f[i - 1] \o ss[i]]

LEMMA JoiningExists ==
  ASSUME NEW ss, NEW n \in Nat
  PROVE  \E f : Joining(f, ss, n)
<1> DEFINE S == {m \in Nat : \E f : Joining(f, ss, m)}
<1>1. 0 \in S
  <2>1. Joining([k \in 1 .. 0 |-> 1], ss, 0)
    BY DEF Joining
  <2> QED
    BY <2>1
<1>2. ASSUME NEW m \in Nat, m \in S PROVE m + 1 \in S
  <2>1. PICK f : Joining(f, ss, m)
    BY <1>2
  <2> DEFINE last == IF m = 0 THEN ss[1] ELSE f[m] \o ss[m + 1]
             g == [k \in 1 .. m + 1 |-> IF k <= m THEN f[k] ELSE last]
  <2>2. \A k \in 1 .. m : f[k] = IF k = 1 THEN ss[k] ELSE f[k - 1] \o ss[k]
    BY <2>1 DEF Joining
  <2> HIDE DEF last
  <2>3. (\A k \in 1 .. m : g[k] = f[k]) /\ g[m + 1] = last
    OBVIOUS
  <2>4. g = [k \in 1 .. m + 1 |-> g[k]]
    OBVIOUS
  <2> HIDE DEF g
  <2>5. ASSUME NEW k \in 1 .. m + 1
        PROVE  g[k] = IF k = 1 THEN ss[k] ELSE g[k - 1] \o ss[k]
    <3>1. CASE k = m + 1 /\ m = 0
      BY <2>3, <3>1 DEF last
    <3>2. CASE k = m + 1 /\ m # 0
      <4>1. k - 1 = m /\ m \in 1 .. m /\ k # 1
        BY <3>2
      <4>2. g[m] = f[m]
        BY <2>3, <4>1
      <4> QED
        BY <2>3, <3>2, <4>1, <4>2 DEF last
    <3>3. CASE k # m + 1
      <4>1. k \in 1 .. m /\ (k # 1 => k - 1 \in 1 .. m)
        BY <3>3
      <4> QED
        BY <2>2, <2>3, <4>1
    <3> QED
      BY <3>1, <3>2, <3>3
  <2>6. Joining(g, ss, m + 1)
    BY <2>4, <2>5 DEF Joining
  <2> QED
    BY <2>6
<1> HIDE DEF S
<1>3. n \in S
  BY <1>1, <1>2, Induction
<1> QED
  BY <1>3 DEF S

\* The first k parts as one sequence: all elements of the parts, in their order.
Joined(s, ss, k, A, R) ==
  /\ s \in Seq(A) /\ Ordered(s, R)
  /\ \A i \in DOMAIN s : \E l \in 1 .. k : s[i] \in ToSet(ss[l])
  /\ \A l \in 1 .. k : \A i \in DOMAIN ss[l] : ss[l][i] \in ToSet(s)

LEMMA OneMorePart ==
  ASSUME NEW A, NEW R, NEW ss \in Seq(Seq(A)), PartsOrdered(ss, R),
         NEW k \in Nat, k + 1 \in DOMAIN ss, NEW s, Joined(s, ss, k, A, R)
  PROVE  Joined(s \o ss[k + 1], ss, k + 1, A, R)
<1> DEFINE t == ss[k + 1]
           st == s \o t
<1>1. s \in Seq(A) /\ t \in Seq(A)
  BY DEF Joined
<1>2. Ordered(s, R) /\ Ordered(t, R)
  BY DEF Joined, PartsOrdered
<1>3. Across(s, t, R)
  <2> SUFFICES ASSUME NEW i \in DOMAIN s, NEW j \in DOMAIN t PROVE <<s[i], t[j]>> \in R
    BY DEF Across
  <2>1. PICK l \in 1 .. k : s[i] \in ToSet(ss[l])
    BY DEF Joined
  <2>2. PICK m \in DOMAIN ss[l] : s[i] = ss[l][m]
    BY <2>1 DEF ToSet
  <2>3. l \in DOMAIN ss /\ l < k + 1
    BY <2>1
  <2>4. Across(ss[l], t, R)
    BY <2>3 DEF PartsOrdered
  <2> QED
    BY <2>2, <2>4 DEF Across
<1> HIDE DEF t
<1>4. /\ st \in Seq(A) /\ DOMAIN st = 1 .. Len(s) + Len(t) /\ Len(s) \in Nat /\ Len(t) \in Nat
      /\ DOMAIN s = 1 .. Len(s) /\ DOMAIN t = 1 .. Len(t)
      /\ \A i \in DOMAIN s : st[i] = s[i]
      /\ \A i \in DOMAIN st : i > Len(s) => i - Len(s) \in DOMAIN t /\ st[i] = t[i - Len(s)]
      /\ \A j \in DOMAIN t : Len(s) + j \in DOMAIN st /\ st[Len(s) + j] = t[j]
  BY <1>1
<1> HIDE DEF st
<1>5. \A i \in DOMAIN st : i <= Len(s) => i \in DOMAIN s
  BY <1>4
<1>6. Ordered(st, R)
  <2> SUFFICES ASSUME NEW i \in DOMAIN st, NEW j \in DOMAIN st, i < j PROVE <<st[i], st[j]>> \in R
    BY DEF Ordered
  <2>0. i \in Nat /\ j \in Nat
    BY <1>4
  <2>1. CASE j <= Len(s)
    <3>1. i \in DOMAIN s /\ j \in DOMAIN s
      BY <1>4, <1>5, <2>0, <2>1
    <3> QED
      BY <1>2, <1>4, <3>1 DEF Ordered
  <2>2. CASE i <= Len(s) /\ j > Len(s)
    <3>1. i \in DOMAIN s /\ j - Len(s) \in DOMAIN t
      BY <1>4, <1>5, <2>2
    <3> QED
      BY <1>3, <1>4, <2>2, <3>1 DEF Across
  <2>3. CASE i > Len(s)
    <3>1. j > Len(s) /\ i - Len(s) < j - Len(s)
      BY <1>4, <2>0, <2>3
    <3>2. i - Len(s) \in DOMAIN t /\ j - Len(s) \in DOMAIN t
      BY <1>4, <2>3, <3>1
    <3> QED
      BY <1>2, <1>4, <2>3, <3>1, <3>2 DEF Ordered
  <2> QED
    BY <1>4, <2>0, <2>1, <2>2, <2>3
<1>7. \A i \in DOMAIN st : \E l \in 1 .. k + 1 : st[i] \in ToSet(ss[l])
  <2> SUFFICES ASSUME NEW i \in DOMAIN st PROVE \E l \in 1 .. k + 1 : st[i] \in ToSet(ss[l])
    OBVIOUS
  <2>1. CASE i <= Len(s)
    <3>1. PICK l \in 1 .. k : s[i] \in ToSet(ss[l])
      BY <1>5, <2>1 DEF Joined
    <3>2. l \in 1 .. k + 1 /\ st[i] = s[i]
      BY <1>4, <1>5, <2>1, <3>1
    <3> QED
      BY <3>1, <3>2
  <2>2. CASE i > Len(s)
    <3>1. st[i] \in ToSet(t) /\ k + 1 \in 1 .. k + 1
      BY <1>4, <2>2 DEF ToSet
    <3> QED
      BY <3>1 DEF t
  <2> QED
    BY <1>4, <2>1, <2>2
<1>8. ASSUME NEW l \in 1 .. k + 1, NEW i \in DOMAIN ss[l] PROVE ss[l][i] \in ToSet(st)
  <2>1. CASE l = k + 1
    <3>1. i \in DOMAIN t /\ ss[l][i] = t[i]
      BY <2>1 DEF t
    <3> QED
      BY <1>4, <3>1 DEF ToSet
  <2>2. CASE l # k + 1
    <3>1. l \in 1 .. k
      BY <2>2
    <3>2. PICK j \in DOMAIN s : ss[l][i] = s[j]
      BY <3>1 DEF Joined, ToSet
    <3>3. j \in DOMAIN st /\ st[j] = s[j]
      BY <1>4, <3>2
    <3> QED
      BY <3>2, <3>3 DEF ToSet
  <2> QED
    BY <2>1, <2>2
<1>9. Joined(st, ss, k + 1, A, R)
  BY <1>4, <1>6, <1>7, <1>8 DEF Joined
<1> QED
  BY <1>9 DEF st, t

LEMMA Flattened ==
  ASSUME NEW A, NEW R, NEW ss \in Seq(Seq(A)), PartsOrdered(ss, R)
  PROVE  Joined(FlattenSeq(ss), ss, Len(ss), A, R)
<1> DEFINE n == Len(ss)
           f == CHOOSE g : Joining(g, ss, n)
<1>0. n \in Nat /\ DOMAIN ss = 1 .. n
  OBVIOUS
<1>1. Joining(f, ss, n)
  BY <1>0, JoiningExists
<1>2. n # 0 => FlattenSeq(ss) = f[n]
  BY DEF FlattenSeq, Joining
<1>3. n = 0 => FlattenSeq(ss) = <<>>
  BY DEF FlattenSeq
<1> HIDE DEF f
<1>4. \A i \in 1 .. n : f[i] = IF i = 1 THEN ss[i] ELSE f[i - 1] \o ss[i]
  BY <1>1 DEF Joining
<1>5. Joined(<<>>, ss, 0, A, R)
  BY DEF Joined, Ordered
<1> DEFINE S == {k \in Nat : k \in 1 .. n => Joined(f[k], ss, k, A, R)}
<1>6. 0 \in S
  OBVIOUS
<1>7. ASSUME NEW k \in Nat, k \in S PROVE k + 1 \in S
  <2> SUFFICES ASSUME k + 1 \in 1 .. n PROVE Joined(f[k + 1], ss, k + 1, A, R)
    OBVIOUS
  <2>1. CASE k = 0
    <3>1. Joined(<<>> \o ss[1], ss, 1, A, R)
      <4>1. 0 + 1 = 1 /\ 1 \in DOMAIN ss
        BY <1>0, <2>1
      <4>2. Joined(<<>> \o ss[0 + 1], ss, 0 + 1, A, R)
        BY <1>5, <4>1, OneMorePart
      <4> QED
        BY <4>1, <4>2
    <3>2. f[1] = ss[1]
      BY <1>4, <2>1
    <3>3. <<>> \o ss[1] = ss[1]
      BY <1>0, <2>1
    <3> QED
      BY <2>1, <3>1, <3>2, <3>3
  <2>2. CASE k # 0
    <3>1. k \in 1 .. n /\ k + 1 # 1 /\ (k + 1) - 1 = k
      BY <1>0, <2>2
    <3>2. Joined(f[k], ss, k, A, R) /\ f[k + 1] = f[k] \o ss[k + 1]
      BY <1>4, <1>7, <3>1
    <3> QED
      BY <1>0, <3>2, OneMorePart
  <2> QED
    BY <2>1, <2>2
<1>8. n \in S
  <2> HIDE DEF S, n
  <2> QED
    BY <1>0, <1>6, <1>7, Induction
<1>9. CASE n = 0
  BY <1>3, <1>5, <1>9
<1>10. CASE n # 0
  BY <1>0, <1>2, <1>8, <1>10
<1> QED
  BY <1>9, <1>10

\* Two sequences with the same elements, each in an order without ties, are the same.
LEMMA OneOrder ==
  ASSUME NEW R, \A x, y : ~ (<<x, y>> \in R /\ <<y, x>> \in R),
         NEW A, NEW s \in Seq(A), NEW t \in Seq(A), Ordered(s, R), Ordered(t, R), ToSet(s) = ToSet(t)
  PROVE  s = t
<1>0. Len(s) \in Nat /\ Len(t) \in Nat /\ DOMAIN s = 1 .. Len(s) /\ DOMAIN t = 1 .. Len(t)
  OBVIOUS
<1>1. (\A i \in DOMAIN s : \E j \in DOMAIN t : s[i] = t[j]) /\ (\A j \in DOMAIN t : \E i \in DOMAIN s : s[i] = t[j])
  BY DEF ToSet
<1>2. /\ \A i, j \in DOMAIN s : i < j => <<s[i], s[j]>> \in R /\ s[i] # s[j]
      /\ \A i, j \in DOMAIN t : i < j => <<t[i], t[j]>> \in R /\ t[i] # t[j]
  BY DEF Ordered
<1> DEFINE E == {k \in Nat : \A i \in 1 .. k : (i <= Len(s) /\ i <= Len(t)) => s[i] = t[i]}
<1>3. 0 \in E
  OBVIOUS
<1>4. ASSUME NEW k \in Nat, k \in E PROVE k + 1 \in E
  <2> SUFFICES ASSUME k + 1 <= Len(s), k + 1 <= Len(t) PROVE s[k + 1] = t[k + 1]
    <3>1. \A i \in 1 .. k + 1 : i = k + 1 \/ i \in 1 .. k
      OBVIOUS
    <3> QED
      BY <1>4, <3>1
  <2>1. k + 1 \in DOMAIN s /\ k + 1 \in DOMAIN t
    BY <1>0
  <2>2. \A i \in 1 .. k : i \in DOMAIN s /\ i \in DOMAIN t /\ s[i] = t[i] /\ i < k + 1
    BY <1>0, <1>4, <2>1
  <2>3. PICK l \in DOMAIN t : s[k + 1] = t[l]
    BY <1>1, <2>1
  <2>4. PICK m \in DOMAIN s : t[k + 1] = s[m]
    BY <1>1, <2>1
  <2>5. l >= k + 1
    <3> SUFFICES ASSUME l < k + 1 PROVE FALSE
      BY <1>0, <2>3
    <3>1. l \in 1 .. k
      BY <1>0, <2>3
    <3>2. s[l] = s[k + 1] /\ l \in DOMAIN s /\ l < k + 1
      BY <2>2, <2>3, <3>1
    <3> QED
      BY <1>2, <2>1, <3>2
  <2>6. m >= k + 1
    <3> SUFFICES ASSUME m < k + 1 PROVE FALSE
      BY <1>0, <2>4
    <3>1. m \in 1 .. k
      BY <1>0, <2>4
    <3>2. t[m] = t[k + 1] /\ m \in DOMAIN t /\ m < k + 1
      BY <2>2, <2>4, <3>1
    <3> QED
      BY <1>2, <2>1, <3>2
  <2>7. CASE l = k + 1 \/ m = k + 1
    BY <2>3, <2>4, <2>7
  <2>8. CASE l > k + 1 /\ m > k + 1
    <3>1. <<t[k + 1], t[l]>> \in R /\ <<s[k + 1], s[m]>> \in R
      BY <1>2, <2>1, <2>8
    <3> QED
      BY <2>3, <2>4, <3>1
  <2> QED
    BY <1>0, <2>3, <2>4, <2>5, <2>6, <2>7, <2>8
<1>5. Nat \subseteq E
  <2> HIDE DEF E
  <2> QED
    BY <1>3, <1>4, Induction
<1>6. \A i \in DOMAIN s : i \in DOMAIN t => s[i] = t[i]
  <2> SUFFICES ASSUME NEW i \in DOMAIN s, i \in DOMAIN t PROVE s[i] = t[i]
    OBVIOUS
  <2>1. i \in Nat /\ i \in 1 .. i /\ i <= Len(s) /\ i <= Len(t)
    BY <1>0
  <2> QED
    BY <1>5, <2>1
<1>7. ~ (Len(s) < Len(t))
  <2> SUFFICES ASSUME Len(s) < Len(t) PROVE FALSE
    OBVIOUS
  <2>1. Len(s) + 1 \in DOMAIN t
    BY <1>0
  <2>2. PICK i \in DOMAIN s : s[i] = t[Len(s) + 1]
    BY <1>1, <2>1
  <2>3. i \in DOMAIN t /\ i < Len(s) + 1
    BY <1>0, <2>1, <2>2
  <2>4. t[i] = t[Len(s) + 1]
    BY <1>6, <2>2, <2>3
  <2> QED
    BY <1>2, <2>1, <2>3, <2>4
<1>8. ~ (Len(t) < Len(s))
  <2> SUFFICES ASSUME Len(t) < Len(s) PROVE FALSE
    OBVIOUS
  <2>1. Len(t) + 1 \in DOMAIN s
    BY <1>0
  <2>2. PICK i \in DOMAIN t : s[Len(t) + 1] = t[i]
    BY <1>1, <2>1
  <2>3. i \in DOMAIN s /\ i < Len(t) + 1
    BY <1>0, <2>1, <2>2
  <2>4. s[i] = s[Len(t) + 1]
    BY <1>6, <2>2, <2>3
  <2> QED
    BY <1>2, <2>1, <2>3, <2>4
<1> DEFINE a == Len(s)
           b == Len(t)
<1>9. a = b
  <2>1. a \in Nat /\ b \in Nat /\ ~ (a < b) /\ ~ (b < a)
    BY <1>0, <1>7, <1>8
  <2> HIDE DEF a, b
  <2> QED
    BY <2>1
<1> QED
  BY <1>0, <1>6, <1>9

-----------------------------------------------------------------------------
(* The pieces a dimension of a request is cut into.                        *)

Rising(p) == p \in Seq(Nat) /\ \A i, j \in DOMAIN p : i < j => p[i] < p[j]
Span(piece) == piece[1] .. piece[1] + piece[2] - 1

\* Pieces of one position or more, one after the other, which cover just W.
Cuts(pieces, W) ==
  /\ pieces \in Seq(Nat \X (Nat \ {0}))
  /\ \A k \in DOMAIN pieces : Span(pieces[k]) \subseteq W
  /\ \A w \in W : \E k \in DOMAIN pieces : w \in Span(pieces[k])
  /\ \A k, l \in DOMAIN pieces : k < l => pieces[k][1] + pieces[k][2] <= pieces[l][1]

\* Where runs of neighbours begin, and where they end.
RunStarts(p, first, last) == {i \in first .. last : i = first \/ p[i] # p[i - 1] + 1}
RunEnds(p, first, last) == {i \in first .. last : i + 1 \in RunStarts(p, first, last) \/ i = last}

\* The k-th run begins at s[k] and ends at e[k], where the next begins one further.
Runs(s, e, N, p, first, last) ==
  /\ N \in Nat \ {0} /\ s \in [1 .. N -> first .. last] /\ e \in [1 .. N -> first .. last]
  /\ s[1] = first /\ e[N] = last
  /\ \A k \in 1 .. N : k < N => e[k] = s[k + 1] - 1
  /\ \A k, l \in 1 .. N : k < l => s[k] < s[l]
  /\ \A i \in RunStarts(p, first, last) : \E k \in 1 .. N : i = s[k]

LEMMA RunsFound ==
  ASSUME NEW p, NEW first \in Nat, NEW last \in Nat, first <= last
  PROVE  LET s == Sorted(RunStarts(p, first, last))
             e == Sorted(RunEnds(p, first, last))
         IN  DOMAIN s = 1 .. Len(s) /\ Runs(s, e, Len(s), p, first, last)
<1> DEFINE starts == RunStarts(p, first, last)
           ends == RunEnds(p, first, last)
           s == Sorted(starts)
           e == Sorted(ends)
           N == Cardinality(starts)
           f == [k \in 1 .. N |-> IF k = N THEN last ELSE s[k + 1] - 1]
           R == {q \in Int \X Int : q[1] < q[2]}
<1>1. /\ starts \subseteq first .. last /\ ends \subseteq first .. last
      /\ starts \subseteq Int /\ ends \subseteq Int
      /\ first \in starts /\ last \in ends
      /\ \A i \in ends : i = last \/ i + 1 \in starts
      /\ \A i \in first .. last : i + 1 \in starts => i \in ends
  BY DEF RunStarts, RunEnds
<1> HIDE DEF starts, ends
<1>2. IsFiniteSet(starts) /\ IsFiniteSet(ends)
  <2>1. IsFiniteSet(first .. last)
    BY FS_Interval
  <2> QED
    BY <1>1, <2>1, FS_Subset
<1>3. /\ s \in [1 .. N -> starts] /\ ToSet(s) = starts
      /\ \A i, j \in 1 .. N : i < j => s[i] < s[j]
  BY <1>1, <1>2, SortedHasAll
<1>4. /\ e \in [1 .. Cardinality(ends) -> ends] /\ ToSet(e) = ends
      /\ \A i, j \in 1 .. Cardinality(ends) : i < j => e[i] < e[j]
  BY <1>1, <1>2, SortedHasAll
<1>5. N \in Nat /\ Cardinality(ends) \in Nat
  BY <1>2, FS_CardinalityType
<1> HIDE DEF s, e, N
<1>6. DOMAIN s = 1 .. N /\ Len(s) = N /\ \A i \in starts : \E k \in 1 .. N : i = s[k]
  BY <1>3, <1>5 DEF ToSet
<1>7. \A k \in 1 .. N : s[k] \in first .. last
  BY <1>1, <1>3
<1>8. N # 0 /\ s[1] = first
  <2>1. PICK k \in 1 .. N : first = s[k]
    BY <1>1, <1>6
  <2>2. 1 \in 1 .. N
    BY <1>5, <2>1
  <2>3. k = 1 \/ s[1] < s[k]
    BY <1>3, <2>1, <2>2
  <2>4. s[1] >= first /\ s[1] \in Int
    BY <1>7, <2>2
  <2> QED
    BY <1>5, <2>1, <2>2, <2>3, <2>4
<1>9. \A k \in 1 .. N : f[k] \in first .. last
  <2> SUFFICES ASSUME NEW k \in 1 .. N, k # N PROVE s[k + 1] - 1 \in first .. last
    OBVIOUS
  <2>1. k + 1 \in 1 .. N /\ k < k + 1
    BY <1>5
  <2>2. s[k] < s[k + 1] /\ s[k] \in first .. last /\ s[k + 1] \in first .. last
    BY <1>3, <1>7, <2>1
  <2> QED
    BY <2>2
<1>10. ToSet(f) = ends
  <2>1. \A k \in 1 .. N : f[k] \in ends
    <3> SUFFICES ASSUME NEW k \in 1 .. N PROVE f[k] \in ends
      OBVIOUS
    <3>1. CASE k = N
      BY <1>1, <3>1
    <3>2. CASE k # N
      <4>1. k + 1 \in 1 .. N
        BY <1>5, <3>2
      <4>2. s[k + 1] \in starts /\ s[k + 1] \in Int
        BY <1>1, <1>3, <4>1
      <4>3. f[k] = s[k + 1] - 1 /\ f[k] + 1 = s[k + 1]
        BY <3>2, <4>2
      <4>4. f[k] + 1 \in starts /\ f[k] \in first .. last
        BY <1>9, <4>2, <4>3
      <4> HIDE DEF f
      <4> QED
        BY <1>1, <4>4
    <3> QED
      BY <3>1, <3>2
  <2>2. ASSUME NEW i \in ends PROVE \E k \in 1 .. N : i = f[k]
    <3>1. CASE i = last
      <4>1. N \in 1 .. N /\ f[N] = last
        BY <1>5, <1>8
      <4> QED
        BY <3>1, <4>1
    <3>2. CASE i # last
      <4>1. i + 1 \in starts /\ i \in first .. last
        BY <1>1, <2>2, <3>2
      <4>2. PICK j \in 1 .. N : i + 1 = s[j]
        BY <1>6, <4>1
      <4>3. j # 1
        BY <1>8, <4>1, <4>2
      <4>4. j - 1 \in 1 .. N /\ j - 1 # N /\ (j - 1) + 1 = j
        BY <1>5, <4>2, <4>3
      <4>5. f[j - 1] = s[j] - 1
        BY <4>4
      <4>6. f[j - 1] = i
        BY <4>1, <4>2, <4>5
      <4> QED
        BY <4>4, <4>6
    <3> QED
      BY <3>1, <3>2
  <2>3. DOMAIN f = 1 .. N
    OBVIOUS
  <2> HIDE DEF f
  <2> QED
    BY <2>1, <2>2, <2>3 DEF ToSet
<1>11. ASSUME NEW k \in 1 .. N, NEW l \in 1 .. N, k < l PROVE f[k] < f[l]
  <2>1. k # N /\ k + 1 \in 1 .. N
    BY <1>5, <1>11
  <2>2. f[k] = s[k + 1] - 1 /\ s[k + 1] \in first .. last
    BY <1>7, <2>1
  <2>3. CASE l = N
    BY <2>2, <2>3
  <2>4. CASE l # N
    <3>1. l + 1 \in 1 .. N /\ k + 1 < l + 1 /\ f[l] = s[l + 1] - 1
      BY <1>5, <1>11, <2>4
    <3>2. s[k + 1] < s[l + 1] /\ s[l + 1] \in first .. last
      BY <1>3, <1>7, <2>1, <3>1
    <3> QED
      BY <2>2, <3>1, <3>2
  <2> QED
    BY <2>3, <2>4
<1>12. e = f
  <2>1. e \in Seq(Int) /\ f \in Seq(Int) /\ DOMAIN e = 1 .. Cardinality(ends) /\ DOMAIN f = 1 .. N
    <3>1. \A k \in 1 .. N : f[k] \in Int
      BY <1>9
    <3>2. f = [k \in 1 .. N |-> f[k]]
      OBVIOUS
    <3>3. f \in [1 .. N -> Int]
      <4> HIDE DEF f
      <4> QED
        BY <3>1, <3>2
    <3>4. e \in [1 .. Cardinality(ends) -> Int]
      BY <1>1, <1>4
    <3> HIDE DEF f
    <3> QED
      BY <1>5, <3>3, <3>4
  <2>2. Ordered(e, R)
    <3>1. \A i \in DOMAIN e : e[i] \in Int
      BY <1>1, <1>4, <2>1
    <3>2. \A i, j \in DOMAIN e : i < j => e[i] < e[j]
      BY <1>4, <2>1
    <3> QED
      BY <3>1, <3>2 DEF Ordered
  <2>3. Ordered(f, R)
    <3>1. \A i \in DOMAIN f : f[i] \in Int
      <4> HIDE DEF f
      <4> QED
        BY <1>9, <2>1
    <3>2. \A i, j \in DOMAIN f : i < j => f[i] < f[j]
      BY <1>11, <2>1
    <3> HIDE DEF f
    <3> QED
      BY <3>1, <3>2 DEF Ordered
  <2>4. \A x, y : ~ (<<x, y>> \in R /\ <<y, x>> \in R)
    OBVIOUS
  <2> HIDE DEF R, f
  <2> QED
    BY <1>4, <1>10, <2>1, <2>2, <2>3, <2>4, OneOrder
<1>13. Runs(s, f, N, p, first, last)
  <2>1. s \in [1 .. N -> first .. last]
    BY <1>1, <1>3
  <2>2. f \in [1 .. N -> first .. last]
    <3>1. f = [k \in 1 .. N |-> f[k]]
      OBVIOUS
    <3> HIDE DEF f
    <3> QED
      BY <1>9, <3>1
  <2>3. f[N] = last /\ \A k \in 1 .. N : k < N => f[k] = s[k + 1] - 1
    BY <1>5, <1>8
  <2> HIDE DEF f
  <2> QED
    BY <1>3, <1>5, <1>6, <1>8, <2>1, <2>2, <2>3 DEF Runs, starts
<1> HIDE DEF f
<1> QED
  BY <1>6, <1>12, <1>13 DEF s, e, starts, ends

\* In a run the positions are neighbours.
Neighbours(p, first, last, a, b) ==
  /\ a <= b /\ a \in first .. last /\ b \in first .. last
  /\ \A i \in a .. b : i \in DOMAIN p /\ p[i] \in Nat /\ p[i] = p[a] + (i - a)

LEMMA RunOfNeighbours ==
  ASSUME NEW p, Rising(p), NEW first \in DOMAIN p, NEW last \in DOMAIN p, first <= last,
         NEW s, NEW e, NEW N, Runs(s, e, N, p, first, last), NEW k \in 1 .. N
  PROVE  Neighbours(p, first, last, s[k], e[k])
<1>0. first \in Nat /\ last \in Nat /\ first .. last \subseteq DOMAIN p /\ \A i \in DOMAIN p : p[i] \in Nat
  BY DEF Rising
<1>1. /\ N \in Nat \ {0} /\ s[k] \in first .. last /\ e[k] \in first .. last
      /\ \A m \in 1 .. N : s[m] \in first .. last
  BY DEF Runs
<1>2. \A i \in first .. last : i > s[k] /\ i <= e[k] => i \notin RunStarts(p, first, last)
  <2> SUFFICES ASSUME NEW i \in first .. last, i > s[k], i <= e[k], NEW m \in 1 .. N, i = s[m] PROVE FALSE
    BY DEF Runs
  <2>1. m > k
    <3>1. m < k => s[m] < s[k]
      BY DEF Runs
    <3> QED
      BY <1>0, <1>1, <3>1
  <2>2. k + 1 \in 1 .. N /\ k < N /\ e[k] = s[k + 1] - 1
    BY <1>1, <2>1 DEF Runs
  <2>3. m = k + 1 \/ s[k + 1] < s[m]
    BY <2>1, <2>2 DEF Runs
  <2> QED
    BY <1>1, <2>2, <2>3
<1>3. s[k] <= e[k]
  <2>1. CASE k = N
    BY <1>1, <2>1 DEF Runs
  <2>2. CASE k # N
    <3>1. k + 1 \in 1 .. N /\ e[k] = s[k + 1] - 1 /\ s[k] < s[k + 1] /\ s[k + 1] \in first .. last
      BY <1>1, <2>2 DEF Runs
    <3> QED
      BY <1>1, <3>1
  <2> QED
    BY <2>1, <2>2
<1> DEFINE E == {c \in Nat : s[k] + c <= e[k] => p[s[k] + c] = p[s[k]] + c}
<1>4. 0 \in E
  <2>1. s[k] \in DOMAIN p /\ p[s[k]] \in Nat /\ s[k] + 0 = s[k]
    BY <1>0, <1>1
  <2> QED
    BY <2>1
<1>5. ASSUME NEW c \in Nat, c \in E PROVE c + 1 \in E
  <2> SUFFICES ASSUME s[k] + (c + 1) <= e[k] PROVE p[s[k] + (c + 1)] = p[s[k]] + (c + 1)
    OBVIOUS
  <2>1. PICK i \in first .. last : i = s[k] + (c + 1)
    <3>1. s[k] + (c + 1) \in first .. last
      BY <1>0, <1>1
    <3> QED
      BY <3>1
  <2>2. i \notin RunStarts(p, first, last)
    BY <1>0, <1>1, <1>2, <2>1
  <2>3. p[i] = p[i - 1] + 1
    BY <2>1, <2>2 DEF RunStarts
  <2>4. i - 1 = s[k] + c /\ s[k] + c <= e[k]
    BY <1>0, <1>1, <2>1
  <2>5. p[i - 1] = p[s[k]] + c
    BY <1>5, <2>4
  <2>6. p[s[k]] \in Nat
    BY <1>0, <1>1
  <2> QED
    BY <2>1, <2>3, <2>5, <2>6
<1>6. Nat \subseteq E
  <2> HIDE DEF E
  <2> QED
    BY <1>4, <1>5, Induction
<1>7. ASSUME NEW i \in s[k] .. e[k] PROVE i \in DOMAIN p /\ p[i] \in Nat /\ p[i] = p[s[k]] + (i - s[k])
  <2>1. i \in first .. last /\ i - s[k] \in Nat /\ s[k] + (i - s[k]) = i
    BY <1>0, <1>1
  <2>2. i - s[k] \in E
    BY <1>6, <2>1
  <2>3. p[s[k] + (i - s[k])] = p[s[k]] + (i - s[k])
    BY <2>1, <2>2
  <2> QED
    BY <1>0, <2>1, <2>3
<1> QED
  BY <1>1, <1>3, <1>7 DEF Neighbours

LEMMA ChunksCut ==
  ASSUME NEW p, Rising(p), NEW first \in DOMAIN p, NEW last \in DOMAIN p, first <= last
  PROVE  Cuts(Chunks(p, first, last), {p[i] : i \in first .. last})
<1> DEFINE s == Sorted(RunStarts(p, first, last))
           e == Sorted(RunEnds(p, first, last))
           N == Len(s)
           W == {p[i] : i \in first .. last}
           c == [k \in 1 .. N |-> <<p[s[k]], p[e[k]] - p[s[k]] + 1>>]
<1>0. first \in Nat /\ last \in Nat /\ first .. last \subseteq DOMAIN p /\ \A i \in DOMAIN p : p[i] \in Nat
  BY DEF Rising
<1>1. DOMAIN s = 1 .. N /\ Runs(s, e, N, p, first, last)
  BY <1>0, RunsFound
<1>2. Chunks(p, first, last) = c
  BY <1>1 DEF Chunks, RunStarts, RunEnds
<1> HIDE DEF s, e, N
<1>3. \A k \in 1 .. N :
         /\ s[k] <= e[k] /\ s[k] \in first .. last /\ e[k] \in first .. last
         /\ \A i \in s[k] .. e[k] : i \in DOMAIN p /\ p[i] \in Nat /\ p[i] = p[s[k]] + (i - s[k])
  <2> SUFFICES ASSUME NEW k \in 1 .. N
               PROVE  /\ s[k] <= e[k] /\ s[k] \in first .. last /\ e[k] \in first .. last
                      /\ \A i \in s[k] .. e[k] : i \in DOMAIN p /\ p[i] \in Nat /\ p[i] = p[s[k]] + (i - s[k])
    OBVIOUS
  <2>1. Neighbours(p, first, last, s[k], e[k])
    BY <1>1, RunOfNeighbours
  <2> QED
    BY <2>1 DEF Neighbours
<1>4. ASSUME NEW k \in 1 .. N
      PROVE  /\ p[s[k]] \in Nat /\ p[e[k]] \in Nat /\ p[e[k]] = p[s[k]] + (e[k] - s[k])
             /\ c[k] = <<p[s[k]], p[e[k]] - p[s[k]] + 1>> /\ c[k] \in Nat \X (Nat \ {0})
             /\ c[k][1] = p[s[k]] /\ c[k][1] + c[k][2] = p[e[k]] + 1
             /\ Span(c[k]) = p[s[k]] .. p[e[k]]
  <2>1. s[k] \in s[k] .. e[k] /\ e[k] \in s[k] .. e[k] /\ s[k] \in Int /\ e[k] \in Int /\ s[k] <= e[k]
    BY <1>0, <1>3
  <2>2. p[s[k]] \in Nat /\ p[e[k]] \in Nat /\ p[e[k]] = p[s[k]] + (e[k] - s[k])
    BY <1>3, <2>1
  <2>3. c[k] = <<p[s[k]], p[e[k]] - p[s[k]] + 1>>
    OBVIOUS
  <2> HIDE DEF c
  <2> DEFINE a == p[s[k]]
             b == p[e[k]]
  <2>4. a \in Nat /\ b \in Nat /\ a <= b /\ c[k] = <<a, b - a + 1>>
    BY <2>1, <2>2, <2>3
  <2> HIDE DEF a, b
  <2>5. c[k] \in Nat \X (Nat \ {0}) /\ c[k][1] = a /\ c[k][1] + c[k][2] = b + 1 /\ Span(c[k]) = a .. b
    <3>1. b - a + 1 \in Nat \ {0} /\ a + (b - a + 1) = b + 1 /\ a + (b - a + 1) - 1 = b
      BY <2>4
    <3>2. c[k][1] = a /\ c[k][2] = b - a + 1
      BY <2>4
    <3> QED
      BY <2>4, <3>1, <3>2 DEF Span
  <2> QED
    BY <2>2, <2>3, <2>5 DEF a, b
<1>5. DOMAIN c = 1 .. N
  OBVIOUS
<1>6. c \in Seq(Nat \X (Nat \ {0}))
  <2>1. N \in Nat
    BY <1>1 DEF Runs
  <2>2. c = [k \in 1 .. N |-> c[k]]
    OBVIOUS
  <2>3. \A k \in 1 .. N : c[k] \in Nat \X (Nat \ {0})
    BY <1>4
  <2> HIDE DEF c
  <2>4. c \in [1 .. N -> Nat \X (Nat \ {0})]
    BY <2>2, <2>3
  <2> QED
    BY <2>1, <2>4
<1> HIDE DEF c
<1>7. ASSUME NEW k \in 1 .. N, NEW w \in Span(c[k]) PROVE w \in W
  <2>1. w \in p[s[k]] .. p[e[k]]
    BY <1>4
  <2>2. p[s[k]] \in Nat /\ p[e[k]] = p[s[k]] + (e[k] - s[k])
    BY <1>4
  <2>3. s[k] \in Nat /\ e[k] \in Nat /\ s[k] \in first .. last /\ e[k] \in first .. last
    BY <1>0, <1>3
  <2> DEFINE i == s[k] + (w - p[s[k]])
  <2>4. i \in s[k] .. e[k] /\ p[s[k]] + (i - s[k]) = w
    BY <2>1, <2>2, <2>3
  <2> HIDE DEF i
  <2>5. p[i] = w /\ i \in first .. last
    BY <1>0, <1>3, <2>3, <2>4
  <2> QED
    BY <2>5
<1>8. ASSUME NEW i \in first .. last PROVE \E k \in 1 .. N : p[i] \in Span(c[k])
  <2> DEFINE L == {k \in 1 .. N : i <= e[k]}
  <2>1. N \in 1 .. N /\ e[N] = last /\ N \in Nat
    BY <1>1 DEF Runs
  <2>2. N \in L /\ L \subseteq Nat
    BY <1>0, <2>1
  <2>3. PICK k \in L : \A m \in L : k <= m
    <3> HIDE DEF L
    <3> QED
      BY <2>2, LeastNatural
  <2>4. k \in 1 .. N /\ i <= e[k]
    OBVIOUS
  <2>5. s[k] <= i
    <3>1. CASE k = 1
      <4>1. s[1] = first
        BY <1>1 DEF Runs
      <4> QED
        BY <1>0, <3>1, <4>1
    <3>2. CASE k # 1
      <4>1. k - 1 \in 1 .. N /\ k - 1 < N /\ (k - 1) + 1 = k /\ ~ (k <= k - 1)
        BY <2>1, <2>4, <3>2
      <4>2. e[k - 1] = s[k] - 1 /\ e[k - 1] \in first .. last /\ s[k] \in first .. last
        BY <1>1, <1>3, <2>4, <4>1 DEF Runs
      <4>3. ~ (i <= e[k - 1])
        BY <2>3, <4>1
      <4> QED
        BY <1>0, <4>2, <4>3
    <3> QED
      BY <3>1, <3>2
  <2>6. i \in s[k] .. e[k] /\ s[k] \in Nat /\ e[k] \in Nat
    BY <1>0, <1>3, <2>4, <2>5
  <2>7. p[i] = p[s[k]] + (i - s[k]) /\ p[i] \in Nat
    BY <1>3, <2>4, <2>6
  <2>8. p[s[k]] \in Nat /\ p[e[k]] = p[s[k]] + (e[k] - s[k]) /\ Span(c[k]) = p[s[k]] .. p[e[k]]
    BY <1>4, <2>4
  <2>9. p[i] \in Span(c[k])
    BY <2>6, <2>7, <2>8
  <2> QED
    BY <2>4, <2>9
<1>9. ASSUME NEW k \in 1 .. N, NEW l \in 1 .. N, k < l PROVE c[k][1] + c[k][2] <= c[l][1]
  <2>1. k + 1 \in 1 .. N /\ k < N /\ N \in Nat
    BY <1>1, <1>9 DEF Runs
  <2>2. e[k] = s[k + 1] - 1 /\ s[k + 1] \in first .. last /\ s[l] \in first .. last /\ e[k] \in first .. last
    BY <1>1, <1>3, <1>9, <2>1 DEF Runs
  <2>3. l = k + 1 \/ s[k + 1] < s[l]
    <3>1. l = k + 1 \/ k + 1 < l
      BY <1>9
    <3> QED
      BY <1>1, <2>1, <3>1 DEF Runs
  <2>4. e[k] < s[l]
    BY <1>0, <2>2, <2>3
  <2>5. p[e[k]] < p[s[l]]
    BY <1>0, <2>2, <2>4 DEF Rising
  <2>6. c[k][1] + c[k][2] = p[e[k]] + 1 /\ p[e[k]] \in Nat /\ c[l][1] = p[s[l]] /\ p[s[l]] \in Nat
    BY <1>4
  <2> QED
    BY <2>5, <2>6
<1>10. Cuts(c, W)
  <2>1. \A k \in DOMAIN c : Span(c[k]) \subseteq W
    BY <1>5, <1>7
  <2>2. \A w \in W : \E k \in DOMAIN c : w \in Span(c[k])
    BY <1>5, <1>8
  <2>3. \A k, l \in DOMAIN c : k < l => c[k][1] + c[k][2] <= c[l][1]
    BY <1>5, <1>9
  <2> HIDE DEF W
  <2> QED
    BY <1>6, <2>1, <2>2, <2>3 DEF Cuts
<1> QED
  BY <1>2, <1>10 DEF c

\* The positions of the reader below that a request asks for along a dimension.
Shown(d, s, n) == {OrgPosition(d, q) : q \in s .. s + n - 1}
InPicks(d, s, n) ==
  d \in DOMAIN dimSlices => Rising(dimSlices[d]) /\ s + n <= Len(dimSlices[d])

\* The pieces cover what is asked for; when there is more than one builder already, a
\* reduced dimension is read position by position.
Cutting(pieces, d, s, n, oneByOne) ==
  /\ Cuts(pieces, Shown(d, s, n))
  /\ oneByOne /\ d \in DOMAIN dimSlices => \A k \in DOMAIN pieces : pieces[k][2] = 1
  /\ d \notin DOMAIN dimSlices => pieces = <<<<s, n>>>>
  /\ Len(pieces) > 1 /\ ~oneByOne => Gappy(d, s, n)

LEMMA PiecesCut ==
  ASSUME NEW d, NEW s \in Nat, NEW n \in Nat \ {0}, NEW o \in BOOLEAN, InPicks(d, s, n)
  PROVE  Cutting(Pieces(d, s, n, o), d, s, n, o)
<1> DEFINE pieces == Pieces(d, s, n, o)
           p == dimSlices[d]
           W == Shown(d, s, n)
<1>1. CASE d \notin DOMAIN dimSlices
  <2>1. pieces = <<<<s, n>>>>
    BY <1>1 DEF Pieces
  <2>2. W = s .. s + n - 1
    BY <1>1 DEF Shown, OrgPosition
  <2> DEFINE one == <<<<s, n>>>>
  <2>3. one \in Seq(Nat \X (Nat \ {0})) /\ Len(one) = 1 /\ DOMAIN one = {1} /\ one[1] = <<s, n>>
    OBVIOUS
  <2>4. Span(<<s, n>>) = s .. s + n - 1
    BY DEF Span
  <2> HIDE DEF one, W
  <2>5. Cuts(one, W)
    <3>1. \A k \in DOMAIN one : Span(one[k]) \subseteq W
      BY <2>2, <2>3, <2>4
    <3>2. \A w \in W : \E k \in DOMAIN one : w \in Span(one[k])
      BY <2>2, <2>3, <2>4
    <3>3. \A k, l \in DOMAIN one : ~ (k < l)
      BY <2>3
    <3> QED
      BY <2>3, <3>1, <3>2, <3>3 DEF Cuts
  <2>6. pieces = one
    BY <2>1 DEF one
  <2> HIDE DEF pieces
  <2>7. Cutting(pieces, d, s, n, o)
    BY <1>1, <2>3, <2>5, <2>6 DEF Cutting, W, one
  <2> QED
    BY <2>7 DEF pieces
<1>2. CASE d \in DOMAIN dimSlices
  <2>0. /\ Rising(p) /\ Len(p) \in Nat /\ DOMAIN p = 1 .. Len(p) /\ s + n <= Len(p) /\ p # <<>>
        /\ \A i \in DOMAIN p : p[i] \in Nat
    <3>1. Rising(p) /\ s + n <= Len(p)
      BY <1>2 DEF InPicks
    <3>2. p \in Seq(Nat)
      BY <3>1 DEF Rising
    <3> HIDE DEF p
    <3> QED
      BY <3>1, <3>2
  <2>1. W = {p[i] : i \in s + 1 .. s + n}
    <3>1. W = {p[q + 1] : q \in s .. s + n - 1}
      BY <1>2 DEF Shown, OrgPosition
    <3>2. \A q \in s .. s + n - 1 : q + 1 \in s + 1 .. s + n
      OBVIOUS
    <3>3. \A i \in s + 1 .. s + n : i - 1 \in s .. s + n - 1 /\ (i - 1) + 1 = i
      OBVIOUS
    <3> HIDE DEF W, p
    <3>4. \A i \in s + 1 .. s + n : p[i] \in {p[q + 1] : q \in s .. s + n - 1}
      <4> SUFFICES ASSUME NEW i \in s + 1 .. s + n PROVE \E q \in s .. s + n - 1 : p[i] = p[q + 1]
        OBVIOUS
      <4> QED
        BY <3>3
    <3>5. \A q \in s .. s + n - 1 : p[q + 1] \in {p[i] : i \in s + 1 .. s + n}
      BY <3>2
    <3> QED
      BY <3>1, <3>4, <3>5
  <2>2. CASE o
    <3> DEFINE c == [k \in 1 .. n |-> <<p[s + k], 1>>]
    <3>1. pieces = c
      BY <1>2, <2>0, <2>2 DEF Pieces
    <3>2. ASSUME NEW k \in 1 .. n
          PROVE  /\ s + k \in DOMAIN p /\ p[s + k] \in Nat /\ c[k] = <<p[s + k], 1>>
                 /\ c[k][1] = p[s + k] /\ c[k][2] = 1 /\ c[k] \in Nat \X (Nat \ {0})
                 /\ Span(c[k]) = {p[s + k]}
      <4>1. s + k \in DOMAIN p
        BY <2>0
      <4>2. p[s + k] \in Nat
        BY <2>0, <4>1
      <4>3. c[k] = <<p[s + k], 1>>
        OBVIOUS
      <4> HIDE DEF c, p
      <4>4. c[k][1] = p[s + k] /\ c[k][2] = 1 /\ c[k] \in Nat \X (Nat \ {0})
        BY <4>2, <4>3
      <4>5. Span(c[k]) = {p[s + k]}
        BY <4>2, <4>4 DEF Span
      <4> QED
        BY <4>1, <4>2, <4>3, <4>4, <4>5
    <3>3. DOMAIN c = 1 .. n
      OBVIOUS
    <3>4. c \in Seq(Nat \X (Nat \ {0}))
      <4>1. c = [k \in 1 .. n |-> c[k]]
        OBVIOUS
      <4>2. \A k \in 1 .. n : c[k] \in Nat \X (Nat \ {0})
        BY <3>2
      <4> HIDE DEF c
      <4>3. c \in [1 .. n -> Nat \X (Nat \ {0})]
        BY <4>1, <4>2
      <4> QED
        BY <4>3
    <3> HIDE DEF c, p, W
    <3>5. \A k \in DOMAIN c : Span(c[k]) \subseteq W
      <4> SUFFICES ASSUME NEW k \in 1 .. n PROVE p[s + k] \in W
        BY <3>2, <3>3
      <4>1. s + k \in s + 1 .. s + n
        OBVIOUS
      <4> QED
        BY <2>1, <4>1
    <3>6. \A w \in W : \E k \in DOMAIN c : w \in Span(c[k])
      <4> SUFFICES ASSUME NEW i \in s + 1 .. s + n PROVE \E k \in DOMAIN c : p[i] \in Span(c[k])
        BY <2>1
      <4>1. i - s \in 1 .. n /\ s + (i - s) = i
        OBVIOUS
      <4>2. Span(c[i - s]) = {p[s + (i - s)]}
        BY <3>2, <4>1
      <4> QED
        BY <3>3, <4>1, <4>2
    <3>7. ASSUME NEW k \in DOMAIN c, NEW l \in DOMAIN c, k < l PROVE c[k][1] + c[k][2] <= c[l][1]
      <4>1. k \in 1 .. n /\ l \in 1 .. n /\ s + k < s + l
        BY <3>3, <3>7
      <4>2. /\ s + k \in DOMAIN p /\ s + l \in DOMAIN p /\ p[s + k] \in Nat /\ p[s + l] \in Nat
            /\ c[k][1] = p[s + k] /\ c[k][2] = 1 /\ c[l][1] = p[s + l]
        BY <3>2, <4>1
      <4>3. p[s + k] < p[s + l]
        BY <2>0, <4>1, <4>2 DEF Rising
      <4> QED
        BY <4>2, <4>3
    <3>8. Cuts(c, W)
      BY <3>4, <3>5, <3>6, <3>7 DEF Cuts
    <3>9. \A k \in DOMAIN c : c[k][2] = 1
      BY <3>2, <3>3
    <3> HIDE DEF pieces
    <3>10. Cutting(pieces, d, s, n, o)
      BY <1>2, <2>2, <3>1, <3>8, <3>9 DEF Cutting, W
    <3> QED
      BY <3>10 DEF pieces
  <2>3. CASE ~o
    <3>1. pieces = Chunks(p, s + 1, s + n)
      <4>1. n # 0
        OBVIOUS
      <4> HIDE DEF p
      <4>2. dimSlices[d] # <<>>
        BY <2>0 DEF p
      <4> QED
        BY <1>2, <2>3, <4>1, <4>2 DEF Pieces, p
    <3>2. PICK first \in DOMAIN p : first = s + 1
      BY <2>0
    <3>3. PICK last \in DOMAIN p : last = s + n
      BY <2>0
    <3> HIDE DEF p, W, pieces
    <3>4. first <= last
      BY <3>2, <3>3
    <3>5. Cuts(Chunks(p, first, last), {p[i] : i \in first .. last})
      BY <2>0, <3>4, ChunksCut
    <3>6. Cuts(pieces, W)
      BY <2>1, <3>1, <3>2, <3>3, <3>5
    <3>7. Len(pieces) > 1 => Gappy(d, s, n)
      BY <1>2, <3>1 DEF Gappy, p
    <3>8. Cutting(pieces, d, s, n, o)
      BY <1>2, <2>3, <3>6, <3>7 DEF Cutting, W
    <3> QED
      BY <3>8 DEF pieces
  <2> QED
    BY <2>2, <2>3
<1> QED
  BY <1>1, <1>2

-----------------------------------------------------------------------------
(* A request is split into builders, dimension by dimension.               *)

\* No variable has a dimension twice: a builder knows a dimension by its name.
NamedOnce == \A v \in Vars : \A i, j \in DOMAIN Shape[v] : Shape[v][i] = Shape[v][j] => i = j

\* The builders of a variable of the reader below, and its elements.
Builders(v) ==
  [names : {Shape[v]}, start : [DOMAIN Shape[v] -> Nat], size : [DOMAIN Shape[v] -> Nat],
   max : {OrgSizes(v)}, unlimited : {NoLimits(v)}, set : SUBSET Dims]
Elements(v) == [DOMAIN Shape[v] -> Nat]

\* b with other limits along the i-th dimension.
Limited(b, c, i, s, n) ==
  c.start = [b.start EXCEPT ![i] = s] /\ c.size = [b.size EXCEPT ![i] = n]

LEMMA SetPiece ==
  ASSUME NamedOnce, NEW v \in Vars, NEW b \in Builders(v), NEW i \in DOMAIN Shape[v],
         NEW s \in Nat, NEW n \in Nat, s + n <= OrgLength[Shape[v][i]]
  PROVE  /\ SetResult(b, Shape[v][i], s, n) = "ok"
         /\ AfterSet(b, Shape[v][i], s, n) \in Builders(v)
         /\ Limited(b, AfterSet(b, Shape[v][i], s, n), i, s, n)
<1> DEFINE d == Shape[v][i]
           c == AfterSet(b, d, s, n)
<1>0. /\ b.names = Shape[v] /\ b.max = OrgSizes(v) /\ b.unlimited = NoLimits(v) /\ b.set \subseteq Dims
      /\ b.start \in [DOMAIN Shape[v] -> Nat] /\ b.size \in [DOMAIN Shape[v] -> Nat]
  BY DEF Builders
<1>1. Shape[v] \in Seq(Dims) /\ i \in Nat /\ d \in Dims /\ OrgLength[d] \in SizeT
  <2>1. Shape[v] \in Seq(Dims) /\ OrgLength \in [Dims -> SizeT]
    BY ExtractorAssumption
  <2> QED
    BY <2>1
<1>2. d \in NamesOf(b) /\ DimPos(b, d) = i
  <2> DEFINE last(k) == /\ k \in DOMAIN b.names /\ b.names[k] = d
                        /\ \A j \in DOMAIN b.names : b.names[j] = d => j <= k
  <2>1. \A j \in DOMAIN b.names : b.names[j] = d => j = i
    BY <1>0 DEF NamedOnce
  <2>2. i \in DOMAIN b.names /\ b.names[i] = d
    BY <1>0
  <2>3. last(i) /\ \A k : last(k) => k = i
    BY <1>1, <2>1, <2>2
  <2>4. DimPos(b, d) = CHOOSE k : last(k)
    BY DEF DimPos
  <2> HIDE DEF last
  <2>5. DimPos(b, d) = i
    BY <2>3, <2>4
  <2> QED
    BY <2>2, <2>5 DEF NamesOf
<1>3. b.max[i] = OrgLength[d] /\ b.unlimited[i] = FALSE
  BY <1>0 DEF OrgSizes, NoLimits
<1>4. (s + n) % SizeMod = s + n /\ ~ (b.max[i] < s + n)
  <2> DEFINE sum == s + n
             room == OrgLength[d]
  <2>1. sum \in Nat /\ sum <= room /\ room \in 0 .. SizeMod - 1 /\ SizeMod \in Nat
    BY <1>1, SizeModAssumption DEF SizeT
  <2>2. b.max[i] = room
    BY <1>3
  <2> HIDE DEF sum, room
  <2>3. sum % SizeMod = sum /\ ~ (room < sum)
    BY <2>1
  <2> QED
    BY <2>2, <2>3 DEF sum
<1>5. SetResult(b, d, s, n) = "ok"
  BY <1>2, <1>4 DEF SetResult
<1>6. c = [b EXCEPT !.start = [@ EXCEPT ![i] = s],
                    !.size = [@ EXCEPT ![i] = n],
                    !.set = @ \cup {d}]
  BY <1>2, <1>5 DEF AfterSet
<1>7. c = [names |-> b.names, start |-> [b.start EXCEPT ![i] = s],
           size |-> [b.size EXCEPT ![i] = n], max |-> b.max,
           unlimited |-> b.unlimited, set |-> b.set \cup {d}]
  BY <1>6 DEF Builders
<1> HIDE DEF c
<1>8. [b.start EXCEPT ![i] = s] \in [DOMAIN Shape[v] -> Nat] /\ [b.size EXCEPT ![i] = n] \in [DOMAIN Shape[v] -> Nat]
  BY <1>0
<1>9. b.set \cup {d} \subseteq Dims
  BY <1>0, <1>1
<1>10. c \in Builders(v)
  BY <1>0, <1>7, <1>8, <1>9 DEF Builders
<1> QED
  BY <1>5, <1>7, <1>10 DEF Limited, c

\* What a request wants along its m-th dimension, what a builder covers of it, and the
\* elements a request wants in its first dimensions.
Wanted(v, start, size, m) == Shown(Shape[v][m], start[m], size[m])
Covers(b, m) == b.start[m] .. b.start[m] + b.size[m] - 1
Wanting(v, start, size, i) == {x \in Elements(v) : \A m \in 1 .. i : x[m] \in Wanted(v, start, size, m)}
InStep(v, start, size) == PiecesStayInOrder(v, <<start, size>>)
\* How many positions of a later dimension pieces of an earlier one may share.
Shared(v, start, size) == IF InStep(v, start, size) THEN {1} ELSE Nat

\* Requests inside the picked dimensions, of some elements.
Fits(v, start, size) ==
  /\ start \in [DOMAIN Shape[v] -> Nat] /\ size \in [DOMAIN Shape[v] -> Nat \ {0}]
  /\ \A m \in DOMAIN Shape[v] :
        /\ InPicks(Shape[v][m], start[m], size[m])
        /\ Wanted(v, start, size, m) \subseteq 0 .. OrgLength[Shape[v][m]] - 1

\* b covers earlier positions of one dimension than c and the same ones of the later dimensions.
Apart(b, c, i, sizes) ==
  \E j \in 1 .. i :
    /\ b.start[j] + b.size[j] <= c.start[j]
    /\ \A m \in j + 1 .. i : /\ b.start[m] = c.start[m] /\ b.size[m] = c.size[m]
                             /\ b.size[m] \in sizes
ApartIn(v, i, sizes) == {q \in Builders(v) \X Builders(v) : Apart(q[1], q[2], i, sizes)}

\* The builders after i dimensions: together they cover what is wanted, each apart from the others.
Stage(v, start, size, i, bs) ==
  /\ bs \in Seq(Builders(v))
  /\ \A k \in DOMAIN bs : \A m \in 1 .. i : /\ bs[k].size[m] # 0
                                            /\ Covers(bs[k], m) \subseteq Wanted(v, start, size, m)
  /\ \A x \in Wanting(v, start, size, i) : \E k \in DOMAIN bs : \A m \in 1 .. i : x[m] \in Covers(bs[k], m)
  /\ Ordered(bs, ApartIn(v, i, Shared(v, start, size)))
  /\ Len(bs) > 1 => \E j \in 1 .. i : Gappy(Shape[v][j], start[j], size[j])

\* A sequence of one builder and one piece stays one builder.
LEMMA OneOfOne ==
  ASSUME NEW A, NEW ss \in Seq(Seq(A)), Len(ss) <= 1, \A k \in DOMAIN ss : Len(ss[k]) <= 1
  PROVE  Len(FlattenSeq(ss)) <= 1
<1>1. \A k \in DOMAIN ss : ss[k] \in Seq(A)
  OBVIOUS
<1>2. PartsOrdered(ss, {})
  <2>1. \A k \in DOMAIN ss : Ordered(ss[k], {})
    BY <1>1 DEF Ordered
  <2>2. \A k, l \in DOMAIN ss : ~ (k < l)
    OBVIOUS
  <2> QED
    BY <2>1, <2>2 DEF PartsOrdered
<1>3. Joined(FlattenSeq(ss), ss, Len(ss), A, {})
  BY <1>2, Flattened
<1>4. FlattenSeq(ss) \in Seq(A) /\ Ordered(FlattenSeq(ss), {})
  BY <1>3 DEF Joined
<1> DEFINE f == FlattenSeq(ss)
<1> HIDE DEF f
<1>5. f \in Seq(A) /\ \A k, l \in DOMAIN f : ~ (k < l)
  BY <1>4 DEF Ordered, f
<1>6. Len(f) <= 1
  <2> SUFFICES ASSUME Len(f) > 1 PROVE FALSE
    BY <1>5
  <2>1. 1 \in DOMAIN f /\ 2 \in DOMAIN f
    BY <1>5
  <2> QED
    BY <1>5, <2>1
<1> QED
  BY <1>6 DEF f

\* The limits of c along the dimensions, and what it covers.
Moved(b, c, i, s, n, dims) ==
  /\ c.start[i] = s /\ c.size[i] = n /\ Covers(c, i) = s .. s + n - 1
  /\ \A m \in dims : m # i => c.start[m] = b.start[m] /\ c.size[m] = b.size[m] /\ Covers(c, m) = Covers(b, m)

LEMMA LimitedIs ==
  ASSUME NEW v, NEW b \in Builders(v), NEW c, NEW i \in DOMAIN Shape[v], NEW s, NEW n, Limited(b, c, i, s, n)
  PROVE  Moved(b, c, i, s, n, DOMAIN Shape[v])
<1>1. DOMAIN b.start = DOMAIN Shape[v] /\ DOMAIN b.size = DOMAIN Shape[v]
  BY DEF Builders
<1>2. c.start[i] = s /\ c.size[i] = n
  BY <1>1 DEF Limited
<1>3. \A m \in DOMAIN Shape[v] : m # i => c.start[m] = b.start[m] /\ c.size[m] = b.size[m]
  BY <1>1 DEF Limited
<1> QED
  BY <1>2, <1>3 DEF Moved, Covers

\* Pieces of what is wanted of the i-th dimension can be set in every builder.
LEMMA PieceAccepted ==
  ASSUME NamedOnce, NEW v \in Vars, NEW start, NEW size, Fits(v, start, size), NEW i \in DOMAIN Shape[v],
         NEW piece \in Nat \X (Nat \ {0}), Span(piece) \subseteq Wanted(v, start, size, i), NEW b \in Builders(v)
  PROVE  /\ SetResult(b, Shape[v][i], piece[1], piece[2]) = "ok"
         /\ AfterSet(b, Shape[v][i], piece[1], piece[2]) \in Builders(v)
         /\ Moved(b, AfterSet(b, Shape[v][i], piece[1], piece[2]), i, piece[1], piece[2], DOMAIN Shape[v])
<1> DEFINE a == piece[1]
           z == piece[2]
           N == OrgLength[Shape[v][i]]
<1>1. a \in Nat /\ z \in Nat \ {0}
  OBVIOUS
<1>2. N \in Nat
  <2>1. Shape[v] \in Seq(Dims) /\ OrgLength \in [Dims -> SizeT] /\ SizeT \subseteq Nat
    BY ExtractorAssumption, SizeModAssumption DEF SizeT
  <2>2. Shape[v][i] \in Dims
    BY <2>1
  <2> QED
    BY <2>1, <2>2
<1>3. a .. a + z - 1 \subseteq 0 .. N - 1
  BY DEF Fits, Span
<1> HIDE DEF a, z, N
<1>4. a + z <= N
  <2>1. a + z - 1 \in a .. a + z - 1
    BY <1>1
  <2>2. a + z - 1 \in 0 .. N - 1
    BY <1>3, <2>1
  <2> QED
    BY <1>1, <1>2, <2>2
<1> DEFINE c == AfterSet(b, Shape[v][i], a, z)
<1>5. SetResult(b, Shape[v][i], a, z) = "ok" /\ c \in Builders(v) /\ Limited(b, c, i, a, z)
  BY <1>1, <1>4, SetPiece DEF N
<1> HIDE DEF c
<1>6. Moved(b, c, i, a, z, DOMAIN Shape[v])
  BY <1>5, LimitedIs
<1> QED
  BY <1>5, <1>6 DEF a, z, c

\* Two builders that were apart stay so when both read the same piece of the next dimension.
LEMMA StayApart ==
  ASSUME NEW v, NEW i \in DOMAIN Shape[v], i \in Nat \ {0}, 1 .. i \subseteq DOMAIN Shape[v],
         NEW b, NEW c, NEW b2, NEW c2, NEW a, NEW z, NEW sizes,
         Apart(b, c, i - 1, sizes), z \in sizes,
         Moved(b, b2, i, a, z, DOMAIN Shape[v]), Moved(c, c2, i, a, z, DOMAIN Shape[v])
  PROVE  Apart(b2, c2, i, sizes)
<1>1. PICK j \in 1 .. i - 1 :
         /\ b.start[j] + b.size[j] <= c.start[j]
         /\ \A m \in j + 1 .. i - 1 : /\ b.start[m] = c.start[m] /\ b.size[m] = c.size[m]
                                      /\ b.size[m] \in sizes
  BY DEF Apart
<1>2. /\ \A m \in 1 .. i - 1 : /\ b2.start[m] = b.start[m] /\ b2.size[m] = b.size[m]
                               /\ c2.start[m] = c.start[m] /\ c2.size[m] = c.size[m]
      /\ b2.start[i] = a /\ b2.size[i] = z /\ c2.start[i] = a /\ c2.size[i] = z
  <2>1. \A m \in 1 .. i - 1 : m \in DOMAIN Shape[v] /\ m # i
    OBVIOUS
  <2> QED
    BY <2>1 DEF Moved
<1>3. j \in 1 .. i /\ b2.start[j] + b2.size[j] <= c2.start[j]
  BY <1>1, <1>2
<1>4. ASSUME NEW m \in j + 1 .. i
      PROVE  b2.start[m] = c2.start[m] /\ b2.size[m] = c2.size[m] /\ b2.size[m] \in sizes
  <2>1. CASE m = i
    BY <1>2, <2>1
  <2>2. CASE m # i
    <3>1. m \in j + 1 .. i - 1 /\ m \in 1 .. i - 1
      BY <1>1, <2>2
    <3> QED
      BY <1>1, <1>2, <3>1
  <2> QED
    BY <2>1, <2>2
<1> QED
  BY <1>3, <1>4 DEF Apart

LEMMA SplitStage ==
  ASSUME NamedOnce, NEW v \in Vars, NEW start, NEW size, Fits(v, start, size), NEW i \in DOMAIN Shape[v],
         NEW bs, Stage(v, start, size, i - 1, bs)
  PROVE  /\ ~NoSuchPosition(Shape[v][i], start[i])
         /\ ~SplitRejected(bs, Shape[v][i], start[i], size[i])
         /\ Stage(v, start, size, i, Split(bs, Shape[v][i], start[i], size[i]))
<1> DEFINE d == Shape[v][i]
           s == start[i]
           n == size[i]
           o == Len(bs) > 1
           pieces == Pieces(d, s, n, o)
           W == Wanted(v, start, size, i)
           B == Builders(v)
           I == DOMAIN Shape[v]
           sizes == Shared(v, start, size)
           after(k, j) == AfterSet(bs[j], d, pieces[k][1], pieces[k][2])
           ss == [k \in DOMAIN pieces |-> [j \in DOMAIN bs |-> after(k, j)]]
           flat == FlattenSeq(ss)
           R == ApartIn(v, i, sizes)
<1>0. /\ I = 1 .. Len(Shape[v]) /\ Len(Shape[v]) \in Nat /\ i \in Nat \ {0} /\ 1 .. i \subseteq I
      /\ 1 .. i - 1 \subseteq I /\ i \notin 1 .. i - 1 /\ \A m \in 1 .. i : m = i \/ m \in 1 .. i - 1
  <2>1. Shape[v] \in Seq(Dims)
    BY ExtractorAssumption
  <2>2. I = 1 .. Len(Shape[v]) /\ Len(Shape[v]) \in Nat
    BY <2>1
  <2> DEFINE N == Len(Shape[v])
  <2>3. N \in Nat /\ i \in 1 .. N /\ I = 1 .. N
    BY <2>2
  <2> HIDE DEF N, I
  <2>4. i \in Nat \ {0} /\ 1 .. i \subseteq 1 .. N /\ 1 .. i - 1 \subseteq 1 .. N /\ i \notin 1 .. i - 1
    BY <2>3
  <2>5. \A m \in 1 .. i : m = i \/ m \in 1 .. i - 1
    BY <2>3
  <2> QED
    BY <2>3, <2>4, <2>5 DEF N
<1>1. s \in Nat /\ n \in Nat \ {0} /\ InPicks(d, s, n) /\ W = Shown(d, s, n)
  BY DEF Fits, Wanted
<1>2. Cutting(pieces, d, s, n, o)
  <2>1. o \in BOOLEAN
    OBVIOUS
  <2> HIDE DEF o, d, s, n
  <2> QED
    BY <1>1, <2>1, PiecesCut
<1>3. ~NoSuchPosition(d, s)
  <2> SUFFICES ASSUME d \in DOMAIN dimSlices, s >= Len(dimSlices[d]) PROVE FALSE
    BY DEF NoSuchPosition
  <2>1. dimSlices[d] \in Seq(Nat) /\ s + n <= Len(dimSlices[d])
    BY <1>1 DEF InPicks, Rising
  <2>2. Len(dimSlices[d]) \in Nat
    BY <2>1
  <2> HIDE DEF s, n
  <2> QED
    BY <1>1, <2>1, <2>2
<1>4. /\ pieces \in Seq(Nat \X (Nat \ {0}))
      /\ \A k \in DOMAIN pieces : pieces[k] \in Nat \X (Nat \ {0}) /\ Span(pieces[k]) \subseteq W
      /\ \A w \in W : \E k \in DOMAIN pieces : w \in Span(pieces[k])
      /\ \A k, l \in DOMAIN pieces : k < l => pieces[k][1] + pieces[k][2] <= pieces[l][1]
  <2>1. Cuts(pieces, W)
    BY <1>1, <1>2 DEF Cutting
  <2> HIDE DEF pieces, W
  <2>2. pieces \in Seq(Nat \X (Nat \ {0}))
    BY <2>1 DEF Cuts
  <2>3. \A k \in DOMAIN pieces : pieces[k] \in Nat \X (Nat \ {0})
    BY <2>2
  <2> QED
    BY <2>1, <2>2, <2>3 DEF Cuts
<1> HIDE DEF pieces, W
<1>5. bs \in Seq(B) /\ \A j \in DOMAIN bs : bs[j] \in B
  <2>1. bs \in Seq(B)
    BY DEF Stage
  <2> QED
    BY <2>1
<1>6. ASSUME NEW k \in DOMAIN pieces, NEW j \in DOMAIN bs
      PROVE  /\ SetResult(bs[j], d, pieces[k][1], pieces[k][2]) = "ok" /\ after(k, j) \in B
             /\ Moved(bs[j], after(k, j), i, pieces[k][1], pieces[k][2], I)
  <2>1. /\ pieces[k] \in Nat \X (Nat \ {0}) /\ Span(pieces[k]) \subseteq Wanted(v, start, size, i)
        /\ bs[j] \in Builders(v)
    BY <1>4, <1>5 DEF W
  <2> QED
    BY <2>1, PieceAccepted
<1>7. ~SplitRejected(bs, d, s, n)
  BY <1>6 DEF SplitRejected, pieces
<1>8. Split(bs, d, s, n) = flat
  BY DEF Split, pieces
<1> HIDE DEF after
<1>9. /\ ss \in Seq(Seq(B)) /\ DOMAIN ss = DOMAIN pieces /\ Len(ss) = Len(pieces)
      /\ \A k \in DOMAIN pieces : DOMAIN ss[k] = DOMAIN bs /\ Len(ss[k]) = Len(bs)
      /\ \A k \in DOMAIN pieces, j \in DOMAIN bs : ss[k][j] = after(k, j)
  <2>1. \A k \in DOMAIN pieces : [j \in DOMAIN bs |-> after(k, j)] \in [DOMAIN bs -> B]
    BY <1>6
  <2>2. DOMAIN bs = 1 .. Len(bs) /\ Len(bs) \in Nat
    BY <1>5
  <2>3. \A k \in DOMAIN pieces : /\ [j \in DOMAIN bs |-> after(k, j)] \in Seq(B)
                                 /\ Len([j \in DOMAIN bs |-> after(k, j)]) = Len(bs)
    <3> SUFFICES ASSUME NEW k \in DOMAIN pieces, NEW row, row \in [DOMAIN bs -> B] PROVE row \in Seq(B) /\ Len(row) = Len(bs)
      BY <2>1
    <3> QED
      BY <2>2
  <2>4. DOMAIN pieces = 1 .. Len(pieces) /\ Len(pieces) \in Nat
    BY <1>4
  <2>5. ss \in [DOMAIN pieces -> Seq(B)]
    BY <2>3
  <2>6. \A k \in DOMAIN pieces : DOMAIN ss[k] = DOMAIN bs /\ Len(ss[k]) = Len(bs)
    BY <2>3
  <2>7. \A k \in DOMAIN pieces, j \in DOMAIN bs : ss[k][j] = after(k, j)
    OBVIOUS
  <2> HIDE DEF ss
  <2>8. ss \in Seq(Seq(B)) /\ DOMAIN ss = DOMAIN pieces /\ Len(ss) = Len(pieces)
    BY <2>4, <2>5
  <2> QED
    BY <2>6, <2>7, <2>8
<1> HIDE DEF ss, flat, B
<1>10. Len(bs) > 1 => \A k \in DOMAIN pieces : pieces[k][2] \in sizes
  <2> SUFFICES ASSUME InStep(v, start, size), Len(bs) > 1, NEW k \in DOMAIN pieces PROVE pieces[k][2] = 1
    <3>1. \A k \in DOMAIN pieces : pieces[k][2] \in Nat
      BY <1>4
    <3> QED
      BY <3>1 DEF Shared
  <2>1. CASE d \in DOMAIN dimSlices
    BY <1>2, <2>1 DEF Cutting
  <2>2. CASE d \notin DOMAIN dimSlices
    <3>1. pieces = <<<<s, n>>>>
      BY <1>2, <2>2 DEF Cutting
    <3>2. PICK j \in 1 .. i - 1 : Gappy(Shape[v][j], start[j], size[j])
      BY DEF Stage
    <3>3. j \in I /\ j < i
      BY <1>0, <3>2
    <3>4. n = 1
      BY <2>2, <3>2, <3>3 DEF InStep, PiecesStayInOrder
    <3> HIDE DEF n, s
    <3>5. pieces[k] = <<s, n>>
      BY <3>1
    <3> QED
      BY <3>4, <3>5
  <2> QED
    BY <2>1, <2>2
<1>11. PartsOrdered(ss, R)
  <2>1. ASSUME NEW k \in DOMAIN pieces, NEW j \in DOMAIN bs, NEW l \in DOMAIN bs, j < l
        PROVE  <<after(k, j), after(k, l)>> \in R
    <3>1. <<bs[j], bs[l]>> \in ApartIn(v, i - 1, sizes)
      BY <2>1 DEF Stage, Ordered
    <3>2. Apart(bs[j], bs[l], i - 1, sizes)
      BY <3>1 DEF ApartIn
    <3>3. Len(bs) > 1
      BY <1>5, <2>1
    <3>4. pieces[k][2] \in sizes
      BY <1>10, <3>3
    <3>5. /\ Moved(bs[j], after(k, j), i, pieces[k][1], pieces[k][2], I)
          /\ Moved(bs[l], after(k, l), i, pieces[k][1], pieces[k][2], I)
          /\ after(k, j) \in B /\ after(k, l) \in B
      BY <1>6
    <3>6. Apart(after(k, j), after(k, l), i, sizes)
      <4>2. i \in DOMAIN Shape[v] /\ i \in Nat \ {0} /\ 1 .. i \subseteq DOMAIN Shape[v]
        BY <1>0
      <4>3. /\ Moved(bs[j], after(k, j), i, pieces[k][1], pieces[k][2], DOMAIN Shape[v])
            /\ Moved(bs[l], after(k, l), i, pieces[k][1], pieces[k][2], DOMAIN Shape[v])
        BY <3>5
      <4> DEFINE b == bs[j]
                 c == bs[l]
                 b2 == after(k, j)
                 c2 == after(k, l)
                 a == pieces[k][1]
                 z == pieces[k][2]
      <4>4. /\ Apart(b, c, i - 1, sizes) /\ z \in sizes
            /\ Moved(b, b2, i, a, z, DOMAIN Shape[v]) /\ Moved(c, c2, i, a, z, DOMAIN Shape[v])
        BY <3>2, <3>4, <4>3
      <4> HIDE DEF I, d, s, n, o, sizes, b, c, b2, c2, a, z
      <4>5. Apart(b2, c2, i, sizes)
        BY <4>2, <4>4, StayApart
      <4> QED
        BY <4>5 DEF b2, c2
    <3> QED
      BY <3>5, <3>6 DEF ApartIn, B
  <2>2. ASSUME NEW k \in DOMAIN pieces, NEW l \in DOMAIN pieces, k < l, NEW j \in DOMAIN bs, NEW m \in DOMAIN bs
        PROVE  <<after(k, j), after(l, m)>> \in R
    <3>1. /\ Moved(bs[j], after(k, j), i, pieces[k][1], pieces[k][2], I)
          /\ Moved(bs[m], after(l, m), i, pieces[l][1], pieces[l][2], I)
          /\ after(k, j) \in B /\ after(l, m) \in B
      BY <1>6
    <3>2. pieces[k][1] + pieces[k][2] <= pieces[l][1]
      BY <1>4, <2>2
    <3>3. after(k, j).start[i] + after(k, j).size[i] <= after(l, m).start[i]
      BY <3>1, <3>2 DEF Moved
    <3>4. i \in 1 .. i /\ i + 1 .. i = {}
      BY <1>0
    <3>5. Apart(after(k, j), after(l, m), i, sizes)
      BY <3>3, <3>4 DEF Apart
    <3> QED
      BY <3>1, <3>5 DEF ApartIn, B
  <2> HIDE DEF R
  <2>3. \A k \in DOMAIN ss : Ordered(ss[k], R)
    BY <1>9, <2>1 DEF Ordered
  <2>4. \A k, l \in DOMAIN ss : k < l => Across(ss[k], ss[l], R)
    BY <1>9, <2>2 DEF Across
  <2> QED
    BY <2>3, <2>4 DEF PartsOrdered
<1>12. Joined(flat, ss, Len(pieces), B, R)
  <2> HIDE DEF R
  <2> QED
    BY <1>9, <1>11, Flattened DEF flat
<1>13. flat \in Seq(B) /\ Ordered(flat, R)
  BY <1>12 DEF Joined
<1>14. \A q \in DOMAIN flat : \E k \in DOMAIN pieces, j \in DOMAIN bs : flat[q] = after(k, j)
  <2> SUFFICES ASSUME NEW q \in DOMAIN flat PROVE \E k \in DOMAIN pieces, j \in DOMAIN bs : flat[q] = after(k, j)
    OBVIOUS
  <2>1. PICK k \in 1 .. Len(pieces) : flat[q] \in ToSet(ss[k])
    BY <1>12 DEF Joined
  <2>2. k \in DOMAIN pieces
    BY <1>4, <2>1
  <2>3. PICK j \in DOMAIN ss[k] : flat[q] = ss[k][j]
    BY <2>1 DEF ToSet
  <2> QED
    BY <1>9, <2>2, <2>3
<1>15. \A k \in DOMAIN pieces, j \in DOMAIN bs : \E q \in DOMAIN flat : flat[q] = after(k, j)
  <2> SUFFICES ASSUME NEW k \in DOMAIN pieces, NEW j \in DOMAIN bs PROVE \E q \in DOMAIN flat : flat[q] = after(k, j)
    OBVIOUS
  <2>1. k \in 1 .. Len(pieces) /\ j \in DOMAIN ss[k] /\ ss[k][j] = after(k, j)
    BY <1>4, <1>9
  <2>2. ss[k][j] \in ToSet(flat)
    BY <1>12, <2>1 DEF Joined
  <2> QED
    BY <2>1, <2>2 DEF ToSet
<1>16. ASSUME NEW q \in DOMAIN flat, NEW m \in 1 .. i
       PROVE  flat[q].size[m] # 0 /\ Covers(flat[q], m) \subseteq Wanted(v, start, size, m)
  <2>1. PICK k \in DOMAIN pieces, j \in DOMAIN bs : flat[q] = after(k, j)
    BY <1>14
  <2>2. Moved(bs[j], flat[q], i, pieces[k][1], pieces[k][2], I)
    BY <1>6, <2>1
  <2>3. CASE m = i
    <3>1. Covers(flat[q], i) = Span(pieces[k]) /\ flat[q].size[i] = pieces[k][2]
      BY <2>2 DEF Moved, Span
    <3>2. pieces[k] \in Nat \X (Nat \ {0}) /\ Span(pieces[k]) \subseteq W
      BY <1>4
    <3> QED
      BY <2>3, <3>1, <3>2 DEF W
  <2>4. CASE m # i
    <3>1. m \in 1 .. i - 1 /\ m \in I
      BY <1>0, <2>4
    <3>2. bs[j].size[m] # 0 /\ Covers(bs[j], m) \subseteq Wanted(v, start, size, m)
      BY <3>1 DEF Stage
    <3> QED
      BY <2>2, <2>4, <3>1, <3>2 DEF Moved
  <2> QED
    BY <2>3, <2>4
<1>17. ASSUME NEW x \in Wanting(v, start, size, i)
       PROVE  \E q \in DOMAIN flat : \A m \in 1 .. i : x[m] \in Covers(flat[q], m)
  <2>1. x \in Wanting(v, start, size, i - 1) /\ x[i] \in W
    BY <1>0 DEF Wanting, W
  <2>2. PICK j \in DOMAIN bs : \A m \in 1 .. i - 1 : x[m] \in Covers(bs[j], m)
    BY <2>1 DEF Stage
  <2>3. PICK k \in DOMAIN pieces : x[i] \in Span(pieces[k])
    BY <1>4, <2>1
  <2>4. PICK q \in DOMAIN flat : flat[q] = after(k, j)
    BY <1>15
  <2>5. Moved(bs[j], flat[q], i, pieces[k][1], pieces[k][2], I)
    BY <1>6, <2>4
  <2>6. x[i] \in Covers(flat[q], i)
    BY <2>3, <2>5 DEF Moved, Span
  <2>7. \A m \in 1 .. i - 1 : x[m] \in Covers(flat[q], m)
    BY <1>0, <2>2, <2>5 DEF Moved
  <2>8. \A m \in 1 .. i : x[m] \in Covers(flat[q], m)
    BY <1>0, <2>6, <2>7
  <2> QED
    BY <2>8
<1>18. Len(flat) > 1 => \E j \in 1 .. i : Gappy(Shape[v][j], start[j], size[j])
  <2>1. CASE Len(bs) > 1
    <3>1. \E j \in 1 .. i - 1 : Gappy(Shape[v][j], start[j], size[j])
      BY <2>1 DEF Stage
    <3>2. \A j \in 1 .. i - 1 : j \in 1 .. i
      BY <1>0
    <3> QED
      BY <3>1, <3>2
  <2>2. CASE Len(bs) <= 1 /\ Len(pieces) > 1
    <3>1. ~o
      BY <1>5, <2>2
    <3>2. Gappy(d, s, n)
      BY <1>2, <2>2, <3>1 DEF Cutting
    <3>3. i \in 1 .. i
      BY <1>0
    <3> QED
      BY <3>2, <3>3
  <2>3. CASE Len(bs) <= 1 /\ Len(pieces) <= 1
    <3>1. Len(flat) <= 1
      <4>1. \A k \in DOMAIN ss : Len(ss[k]) <= 1
        BY <1>9, <2>3
      <4>2. Len(ss) <= 1
        BY <1>9, <2>3
      <4> QED
        BY <1>9, <4>1, <4>2, OneOfOne DEF flat
    <3>2. Len(flat) \in Nat
      BY <1>13
    <3> QED
      BY <3>1, <3>2
  <2>4. Len(bs) \in Nat /\ Len(pieces) \in Nat
    BY <1>4, <1>5
  <2> QED
    BY <2>1, <2>2, <2>3, <2>4
<1>19. Stage(v, start, size, i, flat)
  BY <1>13, <1>16, <1>17, <1>18 DEF Stage, B
<1> QED
  BY <1>3, <1>7, <1>8, <1>19

\* One turn of the loop over the dimensions, and the loop as SplitAll writes it.
SplitTurn(v, start, size, i, before) ==
  IF before.bad \/ NoSuchPosition(Shape[v][i], start[i])
     \/ SplitRejected(before.builders, Shape[v][i], start[i], size[i])
  THEN [before EXCEPT !.bad = TRUE]
  ELSE [before EXCEPT !.builders = Split(@, Shape[v][i], start[i], size[i])]
Splitting(f, v, start, size, n) ==
  f = [i \in 0 .. n |-> IF i = 0 THEN [builders |-> <<OrgBuilder(v)>>, bad |-> FALSE]
                        ELSE SplitTurn(v, start, size, i, f[i - 1])]

LEMMA SplittingExists ==
  ASSUME NEW v, NEW start, NEW size, NEW n \in Nat
  PROVE  \E f : Splitting(f, v, start, size, n)
<1> DEFINE first == [builders |-> <<OrgBuilder(v)>>, bad |-> FALSE]
           S == {m \in Nat : \E f : Splitting(f, v, start, size, m)}
<1>1. 0 \in S
  <2>1. Splitting([k \in 0 .. 0 |-> first], v, start, size, 0)
    BY DEF Splitting
  <2> QED
    BY <2>1
<1>2. ASSUME NEW m \in Nat, m \in S PROVE m + 1 \in S
  <2>1. PICK f : Splitting(f, v, start, size, m)
    BY <1>2
  <2> DEFINE last == SplitTurn(v, start, size, m + 1, f[m])
             g == [k \in 0 .. m + 1 |-> IF k <= m THEN f[k] ELSE last]
  <2>2. \A k \in 0 .. m : f[k] = IF k = 0 THEN first ELSE SplitTurn(v, start, size, k, f[k - 1])
    BY <2>1 DEF Splitting
  <2> HIDE DEF last, first
  <2>3. (\A k \in 0 .. m : g[k] = f[k]) /\ g[m + 1] = last
    OBVIOUS
  <2>4. g = [k \in 0 .. m + 1 |-> g[k]]
    OBVIOUS
  <2> HIDE DEF g
  <2>5. ASSUME NEW k \in 0 .. m + 1
        PROVE  g[k] = IF k = 0 THEN first ELSE SplitTurn(v, start, size, k, g[k - 1])
    <3>1. CASE k = m + 1
      <4>1. k - 1 = m /\ k # 0 /\ g[m] = f[m]
        BY <2>3, <3>1
      <4> QED
        BY <2>3, <3>1, <4>1 DEF last
    <3>2. CASE k # m + 1
      <4>1. k \in 0 .. m /\ (k # 0 => k - 1 \in 0 .. m)
        BY <3>2
      <4>2. f[k] = IF k = 0 THEN first ELSE SplitTurn(v, start, size, k, f[k - 1])
        BY <2>2, <4>1
      <4>3. g[k] = f[k] /\ (k # 0 => g[k - 1] = f[k - 1])
        BY <2>3, <4>1
      <4> QED
        BY <4>2, <4>3
    <3> QED
      BY <3>1, <3>2
  <2>6. Splitting(g, v, start, size, m + 1)
    BY <2>4, <2>5 DEF Splitting, first
  <2> QED
    BY <2>6
<1> HIDE DEF S
<1>3. n \in S
  BY <1>1, <1>2, Induction
<1> QED
  BY <1>3 DEF S

\* The builder of the reader below covers it all.
LEMMA FirstStage ==
  ASSUME NEW v \in Vars, NEW start, NEW size
  PROVE  Stage(v, start, size, 0, <<OrgBuilder(v)>>)
<1> DEFINE b == OrgBuilder(v)
           one == <<b>>
<1>1. b \in Builders(v)
  <2>1. Shape[v] \in Seq(Dims) /\ OrgLength \in [Dims -> SizeT] /\ SizeT \subseteq Nat
    BY ExtractorAssumption, SizeModAssumption DEF SizeT
  <2>2. OrgSizes(v) \in [DOMAIN Shape[v] -> Nat]
    <3>1. \A i \in DOMAIN Shape[v] : Shape[v][i] \in Dims
      BY <2>1
    <3>2. \A i \in DOMAIN Shape[v] : OrgLength[Shape[v][i]] \in Nat
      BY <2>1, <3>1
    <3> QED
      BY <3>2 DEF OrgSizes
  <2>3. b = [names |-> Shape[v], start |-> [i \in DOMAIN Shape[v] |-> 0], size |-> OrgSizes(v),
             max |-> OrgSizes(v), unlimited |-> NoLimits(v), set |-> {}]
    BY DEF OrgBuilder, NewBuilder
  <2> HIDE DEF b
  <2> QED
    BY <2>2, <2>3 DEF Builders
<1> HIDE DEF b
<1>2. one \in Seq(Builders(v)) /\ Len(one) = 1 /\ DOMAIN one = {1} /\ one[1] = b
  BY <1>1
<1> HIDE DEF one
<1>3. \A m \in 1 .. 0 : FALSE
  OBVIOUS
<1>4. \A k, l \in DOMAIN one : ~ (k < l)
  BY <1>2
<1>5. Ordered(one, ApartIn(v, 0, Shared(v, start, size)))
  BY <1>4 DEF Ordered
<1>6. Stage(v, start, size, 0, one)
  BY <1>2, <1>3, <1>5 DEF Stage
<1> QED
  BY <1>6 DEF one, b

LEMMA AllSplit ==
  ASSUME NamedOnce, NEW v \in Vars, NEW start, NEW size, Fits(v, start, size)
  PROVE  SplitAll(v, start, size).bad = FALSE /\ Stage(v, start, size, Len(Shape[v]), SplitAll(v, start, size).builders)
<1> DEFINE n == Len(Shape[v])
           f == CHOOSE g : Splitting(g, v, start, size, n)
           first == [builders |-> <<OrgBuilder(v)>>, bad |-> FALSE]
<1>0. n \in Nat /\ DOMAIN Shape[v] = 1 .. n
  <2>1. Shape[v] \in Seq(Dims)
    BY ExtractorAssumption
  <2> QED
    BY <2>1
<1>1. Splitting(f, v, start, size, n)
  BY <1>0, SplittingExists
<1>2. SplitAll(v, start, size) = f[n]
  BY DEF SplitAll, Splitting, SplitTurn
<1> HIDE DEF f
<1>3. \A k \in 0 .. n : f[k] = IF k = 0 THEN first ELSE SplitTurn(v, start, size, k, f[k - 1])
  BY <1>1 DEF Splitting
<1> DEFINE Good(r, k) == DOMAIN r = {"builders", "bad"} /\ r.bad = FALSE /\ Stage(v, start, size, k, r.builders)
           S == {k \in Nat : k <= n => Good(f[k], k)}
<1>4. 0 \in S
  <2>1. f[0] = first
    <3> HIDE DEF first, n
    <3>1. 0 \in 0 .. n
      BY <1>0
    <3> QED
      BY <1>3, <3>1
  <2>2. Good(first, 0)
    BY FirstStage
  <2> QED
    BY <2>1, <2>2
<1>5. ASSUME NEW k \in Nat, k \in S PROVE k + 1 \in S
  <2> SUFFICES ASSUME k + 1 <= n PROVE Good(f[k + 1], k + 1)
    <3> HIDE DEF Good
    <3> QED
      OBVIOUS
  <2>1. PICK i \in DOMAIN Shape[v] : i = k + 1
    BY <1>0
  <2>2. i \in 0 .. n /\ i # 0 /\ i - 1 = k /\ k <= n
    BY <1>0, <2>1
  <2> DEFINE r == f[k]
  <2>3. Good(r, i - 1)
    BY <1>5, <2>2
  <2>4. f[i] = SplitTurn(v, start, size, i, r)
    BY <1>3, <2>2
  <2> HIDE DEF r
  <2>5. /\ ~NoSuchPosition(Shape[v][i], start[i])
        /\ ~SplitRejected(r.builders, Shape[v][i], start[i], size[i])
        /\ Stage(v, start, size, i, Split(r.builders, Shape[v][i], start[i], size[i]))
    BY <2>3, SplitStage
  <2>6. f[i] = [r EXCEPT !.builders = Split(@, Shape[v][i], start[i], size[i])]
    BY <2>3, <2>4, <2>5 DEF SplitTurn
  <2>7. DOMAIN f[i] = {"builders", "bad"} /\ f[i].bad = FALSE
        /\ f[i].builders = Split(r.builders, Shape[v][i], start[i], size[i])
    BY <2>3, <2>6
  <2> QED
    BY <2>1, <2>5, <2>7
<1>6. n \in S
  <2> HIDE DEF S, n
  <2> QED
    BY <1>0, <1>4, <1>5, Induction
<1> QED
  BY <1>0, <1>2, <1>6

-----------------------------------------------------------------------------
(* What the builders read, and what was asked for.                         *)

Memory(v) == {q \in Elements(v) \X Elements(v) : Earlier(q[1], q[2])}
Different(v) == {q \in Elements(v) \X Elements(v) : q[1] # q[2]}
Ordering(v, start, size) == IF InStep(v, start, size) THEN Memory(v) ELSE Different(v)

\* Two elements of which one is earlier are not the same, and the other is not earlier.
LEMMA NoTies ==
  ASSUME NEW v \in Vars
  PROVE  /\ Memory(v) \subseteq Different(v)
         /\ \A x, y : ~ (<<x, y>> \in Memory(v) /\ <<y, x>> \in Memory(v))
<1>1. DOMAIN Shape[v] \subseteq Nat
  <2>1. Shape[v] \in Seq(Dims)
    BY ExtractorAssumption
  <2> QED
    BY <2>1
<1>2. ASSUME NEW x \in Elements(v), NEW y \in Elements(v), Earlier(x, y) PROVE ~Earlier(y, x)
  <2>1. DOMAIN x = DOMAIN Shape[v] /\ DOMAIN y = DOMAIN Shape[v]
    BY DEF Elements
  <2>2. PICK j \in DOMAIN Shape[v] : x[j] < y[j] /\ \A m \in DOMAIN Shape[v] : m > j => x[m] = y[m]
    BY <1>2, <2>1 DEF Earlier
  <2>3. SUFFICES ASSUME NEW l \in DOMAIN Shape[v], y[l] < x[l], \A m \in DOMAIN Shape[v] : m > l => y[m] = x[m]
                 PROVE  FALSE
    BY <2>1 DEF Earlier
  <2>4. x[j] \in Nat /\ y[j] \in Nat /\ x[l] \in Nat /\ y[l] \in Nat /\ j \in Nat /\ l \in Nat
    BY <1>1 DEF Elements
  <2>5. ~ (l > j) /\ ~ (j > l)
    BY <2>2, <2>3, <2>4
  <2>6. l = j
    BY <2>4, <2>5
  <2> QED
    BY <2>2, <2>3, <2>4, <2>6
<1>3. Memory(v) \subseteq Different(v)
  BY <1>2 DEF Memory, Different
<1>4. \A x, y : ~ (<<x, y>> \in Memory(v) /\ <<y, x>> \in Memory(v))
  BY <1>2 DEF Memory
<1> QED
  BY <1>3, <1>4

\* What a builder reads: the elements it covers, in the order of memory.
LEMMA BuilderReads ==
  ASSUME NEW v \in Vars, NEW b \in Builders(v), \A m \in DOMAIN Shape[v] : b.size[m] # 0
  PROVE  /\ Read(b) \in Seq(Elements(v)) /\ Ordered(Read(b), Memory(v))
         /\ ToSet(Read(b)) = {x \in Elements(v) : \A m \in DOMAIN Shape[v] : x[m] \in Covers(b, m)}
<1> DEFINE I == DOMAIN Shape[v]
           slab == Slab(b.start, b.size)
           box == Box(b.start, b.size)
<1>1. I = 1 .. Len(Shape[v]) /\ Len(Shape[v]) \in Nat
  <2>1. Shape[v] \in Seq(Dims)
    BY ExtractorAssumption
  <2> QED
    BY <2>1
<1>2. b.start \in [I -> Nat] /\ b.size \in [I -> Nat]
  BY DEF Builders
<1>3. b.size \in Seq(Nat \ {0}) /\ DOMAIN b.size = I /\ b.start \in [DOMAIN b.size -> Nat]
  <2>1. b.size \in [I -> Nat \ {0}]
    BY <1>2
  <2> HIDE DEF I
  <2> QED
    BY <1>1, <1>2, <2>1
<1>4. /\ slab \in Seq(box) /\ ToSet(slab) = box
      /\ \A k, l \in DOMAIN slab : k < l => Earlier(slab[k], slab[l])
  BY <1>3, SlabRight
<1>5. box = {x \in Elements(v) : \A m \in I : x[m] \in Covers(b, m)}
  <2>1. ASSUME NEW x \in Elements(v), NEW m \in I
        PROVE  x[m] \in Covers(b, m) <=> b.start[m] <= x[m] /\ x[m] < b.start[m] + b.size[m]
    <3>1. x[m] \in Nat /\ b.start[m] \in Nat /\ b.size[m] \in Nat
      BY <1>2 DEF Elements
    <3> QED
      BY <3>1 DEF Covers
  <2>2. box = {x \in Elements(v) : \A m \in I : b.start[m] <= x[m] /\ x[m] < b.start[m] + b.size[m]}
    BY <1>3 DEF Box, Elements
  <2> HIDE DEF I, box
  <2> QED
    BY <2>1, <2>2
<1> HIDE DEF slab, box
<1>6. slab \in Seq(Elements(v)) /\ \A k \in DOMAIN slab : slab[k] \in Elements(v)
  <2>1. box \subseteq Elements(v)
    BY <1>5
  <2>2. \A k \in DOMAIN slab : slab[k] \in Elements(v)
    BY <1>4, <2>1
  <2> QED
    BY <1>4, <2>2
<1>7. Ordered(slab, Memory(v))
  BY <1>4, <1>6 DEF Ordered, Memory
<1> QED
  BY <1>4, <1>5, <1>6, <1>7 DEF Read, slab

\* What builders that are apart read are different elements, the earlier ones first
\* where pieces share no more than one position of a later dimension.
LEMMA ApartReads ==
  ASSUME NEW v \in Vars, NEW start, NEW size, NEW b \in Builders(v), NEW c \in Builders(v),
         Apart(b, c, Len(Shape[v]), Shared(v, start, size)),
         NEW x \in Elements(v), NEW y \in Elements(v),
         \A m \in DOMAIN Shape[v] : x[m] \in Covers(b, m) /\ y[m] \in Covers(c, m)
  PROVE  <<x, y>> \in Ordering(v, start, size)
<1> DEFINE I == DOMAIN Shape[v]
           n == Len(Shape[v])
<1>1. I = 1 .. n /\ n \in Nat
  <2>1. Shape[v] \in Seq(Dims)
    BY ExtractorAssumption
  <2> QED
    BY <2>1
<1>2. PICK j \in 1 .. n :
         /\ b.start[j] + b.size[j] <= c.start[j]
         /\ \A m \in j + 1 .. n : /\ b.start[m] = c.start[m] /\ b.size[m] = c.size[m]
                                  /\ b.size[m] \in Shared(v, start, size)
  BY DEF Apart
<1>3. \A m \in I : /\ x[m] \in Nat /\ y[m] \in Nat /\ b.start[m] \in Nat /\ b.size[m] \in Nat
                   /\ c.start[m] \in Nat /\ c.size[m] \in Nat
                   /\ b.start[m] <= x[m] /\ x[m] <= b.start[m] + b.size[m] - 1
                   /\ c.start[m] <= y[m] /\ y[m] <= c.start[m] + c.size[m] - 1
  BY DEF Builders, Elements, Covers
<1>4. x[j] < y[j]
  BY <1>1, <1>2, <1>3
<1>5. CASE InStep(v, start, size)
  <2>1. ASSUME NEW m \in I, m > j PROVE x[m] = y[m]
    <3>1. m \in j + 1 .. n
      BY <1>1, <1>2, <2>1
    <3>2. b.start[m] = c.start[m] /\ b.size[m] = 1 /\ c.size[m] = 1
      BY <1>2, <1>5, <3>1 DEF Shared
    <3> QED
      BY <1>3, <3>2
  <2>2. DOMAIN x = I /\ j \in I
    BY <1>1, <1>2 DEF Elements
  <2>3. Earlier(x, y)
    BY <1>4, <2>1, <2>2 DEF Earlier
  <2> QED
    BY <1>5, <2>3 DEF Ordering, Memory
<1>6. CASE ~InStep(v, start, size)
  <2>1. x # y
    BY <1>1, <1>2, <1>3, <1>4
  <2> QED
    BY <1>6, <2>1 DEF Ordering, Different
<1> QED
  BY <1>5, <1>6

\* A read of some elements, as joined from the builders.
Answered(v, start, size, data) ==
  /\ data \in Seq(Elements(v)) /\ Ordered(data, Ordering(v, start, size))
  /\ ToSet(data) = Wanting(v, start, size, Len(Shape[v]))

LEMMA JoinedRead ==
  ASSUME NEW v \in Vars, NEW start, NEW size, NEW bs, Stage(v, start, size, Len(Shape[v]), bs)
  PROVE  Answered(v, start, size, JoinSlices(bs))
<1> DEFINE I == DOMAIN Shape[v]
           n == Len(Shape[v])
           R == Ordering(v, start, size)
           ss == [k \in DOMAIN bs |-> Read(bs[k])]
           data == FlattenSeq(ss)
           E == Elements(v)
<1>1. I = 1 .. n /\ n \in Nat
  <2>1. Shape[v] \in Seq(Dims)
    BY ExtractorAssumption
  <2> QED
    BY <2>1
<1>2. bs \in Seq(Builders(v)) /\ DOMAIN bs = 1 .. Len(bs) /\ Len(bs) \in Nat /\ \A k \in DOMAIN bs : bs[k] \in Builders(v)
  <2>1. bs \in Seq(Builders(v))
    BY DEF Stage
  <2> QED
    BY <2>1
<1>3. ASSUME NEW k \in DOMAIN bs
      PROVE  /\ Read(bs[k]) \in Seq(E) /\ Ordered(Read(bs[k]), Memory(v))
             /\ ToSet(Read(bs[k])) = {x \in E : \A m \in I : x[m] \in Covers(bs[k], m)}
  <2>1. \A m \in I : bs[k].size[m] # 0
    BY <1>1 DEF Stage
  <2> QED
    BY <1>2, <2>1, BuilderReads
<1>4. /\ ss \in Seq(Seq(E)) /\ DOMAIN ss = DOMAIN bs /\ Len(ss) = Len(bs)
      /\ \A k \in DOMAIN bs : ss[k] = Read(bs[k])
  <2>1. ss \in [DOMAIN bs -> Seq(E)]
    BY <1>3
  <2>2. \A k \in DOMAIN bs : ss[k] = Read(bs[k])
    OBVIOUS
  <2> HIDE DEF ss
  <2> QED
    BY <1>2, <2>1, <2>2
<1> HIDE DEF ss, data
<1>5. PartsOrdered(ss, R)
  <2>1. \A k \in DOMAIN ss : Ordered(ss[k], R)
    <3> SUFFICES ASSUME NEW k \in DOMAIN ss PROVE Ordered(ss[k], R)
      OBVIOUS
    <3>1. Ordered(ss[k], Memory(v))
      BY <1>3, <1>4
    <3>2. Memory(v) \subseteq R
      BY NoTies DEF Ordering
    <3> QED
      BY <3>1, <3>2 DEF Ordered
  <2>2. ASSUME NEW k \in DOMAIN ss, NEW l \in DOMAIN ss, k < l, NEW i \in DOMAIN ss[k], NEW j \in DOMAIN ss[l]
        PROVE  <<ss[k][i], ss[l][j]>> \in R
    <3> DEFINE x == ss[k][i]
               y == ss[l][j]
    <3>1. x \in ToSet(Read(bs[k])) /\ y \in ToSet(Read(bs[l]))
      BY <1>4 DEF ToSet
    <3> HIDE DEF x, y, R
    <3>2. x \in E /\ y \in E /\ \A m \in I : x[m] \in Covers(bs[k], m) /\ y[m] \in Covers(bs[l], m)
      BY <1>3, <1>4, <3>1
    <3>3. Apart(bs[k], bs[l], n, Shared(v, start, size)) /\ bs[k] \in Builders(v) /\ bs[l] \in Builders(v)
      BY <1>2, <1>4, <2>2 DEF Stage, Ordered, ApartIn
    <3>4. <<x, y>> \in R
      BY <3>2, <3>3, ApartReads DEF R
    <3> QED
      BY <3>4 DEF x, y
  <2> HIDE DEF R
  <2>3. \A k, l \in DOMAIN ss : k < l => Across(ss[k], ss[l], R)
    BY <2>2 DEF Across
  <2> QED
    BY <2>1, <2>3 DEF PartsOrdered
<1>6. Joined(data, ss, Len(ss), E, R)
  <2> HIDE DEF R, E
  <2> QED
    BY <1>4, <1>5, Flattened DEF data
<1>7. data \in Seq(E) /\ Ordered(data, R)
  BY <1>6 DEF Joined
<1>8. \A x \in ToSet(data) : x \in Wanting(v, start, size, n)
  <2> SUFFICES ASSUME NEW i \in DOMAIN data PROVE data[i] \in Wanting(v, start, size, n)
    BY DEF ToSet
  <2>1. PICK k \in 1 .. Len(ss) : data[i] \in ToSet(ss[k])
    BY <1>6 DEF Joined
  <2>2. k \in DOMAIN bs
    BY <1>2, <1>4, <2>1
  <2>3. data[i] \in E /\ \A m \in I : data[i][m] \in Covers(bs[k], m)
    BY <1>3, <1>4, <2>1, <2>2
  <2>4. \A m \in 1 .. n : Covers(bs[k], m) \subseteq Wanted(v, start, size, m)
    BY <2>2 DEF Stage
  <2> QED
    BY <1>1, <2>3, <2>4 DEF Wanting
<1>9. ASSUME NEW x \in Wanting(v, start, size, n) PROVE x \in ToSet(data)
  <2>1. PICK k \in DOMAIN bs : \A m \in 1 .. n : x[m] \in Covers(bs[k], m)
    BY DEF Stage
  <2>2. x \in E
    BY DEF Wanting
  <2>3. x \in ToSet(ss[k])
    BY <1>1, <1>3, <1>4, <2>1, <2>2
  <2>4. PICK i \in DOMAIN ss[k] : x = ss[k][i]
    BY <2>3 DEF ToSet
  <2>5. k \in 1 .. Len(ss)
    BY <1>2, <1>4
  <2> QED
    BY <1>6, <2>4, <2>5 DEF Joined
<1>10. ToSet(data) = Wanting(v, start, size, n)
  BY <1>8, <1>9
<1>11. JoinSlices(bs) = data
  BY DEF JoinSlices, data, ss
<1> QED
  BY <1>7, <1>10, <1>11 DEF Answered

LEMMA PiecesAnswer ==
  ASSUME NamedOnce, NEW v \in Vars, NEW start, NEW size, Fits(v, start, size)
  PROVE  ReadPieces(v, start, size).status = "ok" /\ Answered(v, start, size, ReadPieces(v, start, size).data)
         /\ ReadPieces(v, start, size) = Answer("ok", ReadPieces(v, start, size).data)
<1> DEFINE all == SplitAll(v, start, size)
<1>1. all.bad = FALSE /\ Stage(v, start, size, Len(Shape[v]), all.builders)
  BY AllSplit
<1>2. ReadPieces(v, start, size) = Answer("ok", JoinSlices(all.builders))
  BY <1>1 DEF ReadPieces
<1> HIDE DEF all
<1>3. Answered(v, start, size, JoinSlices(all.builders))
  BY <1>1, JoinedRead
<1> QED
  BY <1>2, <1>3 DEF Answer

-----------------------------------------------------------------------------
(* What a read promises, as a sequence.                                    *)

\* Along a dimension, a later position the extractor shows is a later one of the reader below.
LEMMA PositionsRise ==
  ASSUME NEW d, NEW s \in Nat, NEW n \in Nat, InPicks(d, s, n),
         NEW q \in s .. s + n - 1, NEW r \in s .. s + n - 1, q < r
  PROVE  OrgPosition(d, q) \in Nat /\ OrgPosition(d, r) \in Nat /\ OrgPosition(d, q) < OrgPosition(d, r)
<1>1. CASE d \notin DOMAIN dimSlices
  BY <1>1 DEF OrgPosition
<1>2. CASE d \in DOMAIN dimSlices
  <2> DEFINE p == dimSlices[d]
  <2>1. p \in Seq(Nat) /\ (\A i, j \in DOMAIN p : i < j => p[i] < p[j]) /\ s + n <= Len(p)
    BY <1>2 DEF InPicks, Rising
  <2>2. q + 1 \in DOMAIN p /\ r + 1 \in DOMAIN p /\ q + 1 < r + 1
    BY <2>1
  <2>3. OrgPosition(d, q) = p[q + 1] /\ OrgPosition(d, r) = p[r + 1]
    BY <1>2 DEF OrgPosition
  <2> HIDE DEF p
  <2>4. p[q + 1] \in Nat /\ p[r + 1] \in Nat /\ p[q + 1] < p[r + 1]
    BY <2>1, <2>2
  <2> QED
    BY <2>3, <2>4
<1> QED
  BY <1>1, <1>2

\* Everything a request promises, in the order of memory.
Promised(v, start, size, data) ==
  /\ data \in Seq(Elements(v)) /\ Len(data) = Product(size) /\ Ordered(data, Memory(v))
  /\ ToSet(data) = Wanting(v, start, size, Len(Shape[v]))

\* The element of the reader below that an element of the extractor shows.
Shows(v, x) == [i \in DOMAIN Shape[v] |-> OrgPosition(Shape[v][i], x[i])]

LEMMA OriginsOf ==
  ASSUME NEW v \in Vars, NEW start, NEW size, Fits(v, start, size), NEW x \in Box(start, size)
  PROVE  /\ Shows(v, x) \in Wanting(v, start, size, Len(Shape[v]))
         /\ \A y \in Box(start, size) : Earlier(x, y) => Earlier(Shows(v, x), Shows(v, y))
<1> DEFINE I == DOMAIN Shape[v]
           n == Len(Shape[v])
           box == Box(start, size)
<1>1. I = 1 .. n /\ n \in Nat
  <2>1. Shape[v] \in Seq(Dims)
    BY ExtractorAssumption
  <2> QED
    BY <2>1
<1>2. start \in [I -> Nat] /\ size \in [I -> Nat \ {0}] /\ DOMAIN size = I
  BY DEF Fits
<1>3. ASSUME NEW y \in box, NEW i \in I PROVE y[i] \in start[i] .. start[i] + size[i] - 1 /\ DOMAIN y = I
  <2>1. y \in [I -> Nat] /\ start[i] <= y[i] /\ y[i] < start[i] + size[i]
    BY <1>2 DEF Box
  <2>2. start[i] \in Nat /\ size[i] \in Nat /\ y[i] \in Nat
    BY <1>2, <2>1
  <2> QED
    BY <2>1, <2>2
<1>4. \A i \in I : OrgPosition(Shape[v][i], x[i]) \in Wanted(v, start, size, i)
  BY <1>3 DEF Wanted, Shown
<1>5. \A i \in I : Wanted(v, start, size, i) \subseteq Nat
  <2>1. \A m : 0 .. m - 1 \subseteq Nat
    OBVIOUS
  <2> QED
    BY <2>1 DEF Fits
<1>6. Shows(v, x) \in Wanting(v, start, size, n)
  BY <1>1, <1>4, <1>5 DEF Wanting, Shows, Elements
<1>7. ASSUME NEW y \in box, Earlier(x, y) PROVE Earlier(Shows(v, x), Shows(v, y))
  <2>1. PICK j \in I : x[j] < y[j] /\ \A m \in I : m > j => x[m] = y[m]
    BY <1>1, <1>3, <1>7 DEF Earlier, Box, Fits
  <2>2. OrgPosition(Shape[v][j], x[j]) < OrgPosition(Shape[v][j], y[j])
    <3>1. InPicks(Shape[v][j], start[j], size[j]) /\ start[j] \in Nat /\ size[j] \in Nat
      BY <1>2 DEF Fits
    <3> QED
      BY <1>3, <2>1, <3>1, PositionsRise
  <2>3. DOMAIN Shows(v, x) = I
    BY DEF Shows
  <2> QED
    BY <2>1, <2>2, <2>3 DEF Earlier, Shows
<1> QED
  BY <1>6, <1>7

LEMMA RestrictionIs ==
  ASSUME NEW v \in Vars, NEW start, NEW size, Fits(v, start, size)
  PROVE  Promised(v, start, size, Restriction(v, start, size)) /\ Product(size) \in Nat \ {0}
<1> DEFINE I == DOMAIN Shape[v]
           n == Len(Shape[v])
           box == Box(start, size)
           slab == Slab(start, size)
           data == Restriction(v, start, size)
           E == Elements(v)
           W == Wanting(v, start, size, n)
<1>1. I = 1 .. n /\ n \in Nat
  <2>1. Shape[v] \in Seq(Dims)
    BY ExtractorAssumption
  <2> QED
    BY <2>1
<1>2. start \in [I -> Nat] /\ size \in [I -> Nat \ {0}] /\ DOMAIN size = I
  BY DEF Fits
<1>3. size \in Seq(Nat \ {0}) /\ start \in [DOMAIN size -> Nat]
  <2> HIDE DEF I
  <2> QED
    BY <1>1, <1>2
<1>4. /\ Product(size) \in Nat \ {0}
      /\ slab \in Seq(box) /\ Len(slab) = Product(size) /\ ToSet(slab) = box
      /\ \A k, l \in DOMAIN slab : k < l => Earlier(slab[k], slab[l])
  BY <1>3, SlabRight
<1>5. data = [k \in DOMAIN slab |-> Shows(v, slab[k])]
  BY DEF Restriction, Shows
<1> HIDE DEF slab, data, box, W
<1>6. DOMAIN slab = 1 .. Len(slab) /\ \A k \in DOMAIN slab : slab[k] \in box
  BY <1>4
<1>7. \A k \in DOMAIN slab : data[k] \in W
  BY <1>5, <1>6, OriginsOf DEF box, W
<1>8. W \subseteq E
  BY DEF W, Wanting
<1>9. data \in Seq(E) /\ Len(data) = Product(size) /\ DOMAIN data = DOMAIN slab
  <2>1. data \in [1 .. Product(size) -> E]
    BY <1>4, <1>5, <1>6, <1>7, <1>8
  <2> HIDE DEF E
  <2> QED
    BY <1>4, <1>5, <1>6, <2>1
<1>10. Ordered(data, Memory(v))
  <2> SUFFICES ASSUME NEW k \in DOMAIN slab, NEW l \in DOMAIN slab, k < l PROVE <<data[k], data[l]>> \in Memory(v)
    BY <1>9 DEF Ordered
  <2>1. Earlier(data[k], data[l])
    BY <1>4, <1>5, <1>6, OriginsOf DEF box
  <2> QED
    BY <1>7, <1>8, <2>1 DEF Memory
<1>11. ASSUME NEW x \in W PROVE x \in ToSet(data)
  <2>1. x \in E /\ \A i \in I : x[i] \in Shown(Shape[v][i], start[i], size[i])
    BY <1>1 DEF W, Wanting, Wanted
  <2> DEFINE shown(i, q) == q \in start[i] .. start[i] + size[i] - 1 /\ x[i] = OrgPosition(Shape[v][i], q)
             y == [i \in I |-> CHOOSE q : shown(i, q)]
  <2>2. \A i \in I : shown(i, y[i])
    <3> SUFFICES ASSUME NEW i \in I PROVE shown(i, y[i])
      OBVIOUS
    <3>1. \E q : shown(i, q)
      BY <2>1 DEF Shown
    <3> QED
      BY <3>1
  <2> HIDE DEF y
  <2>3. y \in box
    <3>1. ASSUME NEW i \in I PROVE y[i] \in Nat /\ start[i] <= y[i] /\ y[i] < start[i] + size[i]
      <4>1. start[i] \in Nat /\ size[i] \in Nat
        BY <1>2
      <4> QED
        BY <2>2, <4>1
    <3>2. y = [i \in I |-> y[i]]
      BY DEF y
    <3> QED
      BY <1>2, <3>1, <3>2 DEF box, Box
  <2>4. Shows(v, y) = x
    <3>1. x = [i \in I |-> x[i]]
      BY <2>1 DEF Elements
    <3> QED
      BY <2>2, <3>1 DEF Shows
  <2>5. PICK k \in DOMAIN slab : y = slab[k]
    BY <1>4, <2>3 DEF ToSet
  <2> QED
    BY <1>5, <1>9, <2>4, <2>5 DEF ToSet
<1>12. ToSet(data) = W
  BY <1>7, <1>9, <1>11 DEF ToSet
<1> QED
  BY <1>4, <1>9, <1>10, <1>12 DEF Promised, data, W

\* Two sequences that hold each of their elements once, and the same ones, are equally long.
LEMMA SameLength ==
  ASSUME NEW v \in Vars, NEW s \in Seq(Elements(v)), NEW t \in Seq(Elements(v)),
         Ordered(s, Different(v)), Ordered(t, Different(v)), ToSet(s) = ToSet(t)
  PROVE  Len(s) = Len(t)
<1>1. ASSUME NEW q \in Seq(Elements(v)), Ordered(q, Different(v))
      PROVE  Cardinality(ToSet(q)) = Len(q)
  <2> DEFINE n == Len(q)
             S == ToSet(q)
  <2>1. n \in Nat /\ DOMAIN q = 1 .. n
    OBVIOUS
  <2>2. q \in [1 .. n -> S] /\ \A x \in S : \E i \in 1 .. n : q[i] = x
    BY <2>1 DEF ToSet
  <2>3. \A i, j \in 1 .. n : q[i] = q[j] => i = j
    <3> SUFFICES ASSUME NEW i \in 1 .. n, NEW j \in 1 .. n, i # j PROVE q[i] # q[j]
      OBVIOUS
    <3>1. i < j \/ j < i
      BY <2>1
    <3> QED
      BY <1>1, <2>1, <3>1 DEF Ordered, Different
  <2> HIDE DEF S, n
  <2>4. q \in Injection(1 .. n, S) /\ q \in Surjection(1 .. n, S)
    BY <2>2, <2>3 DEF Injection, Surjection, IsInjective
  <2>5. ExistsBijection(1 .. n, S)
    BY <2>4 DEF ExistsBijection, Bijection
  <2>6. Cardinality(S) = n
    BY <2>1, <2>5, FS_CountingElements
  <2> QED
    BY <2>6 DEF S, n
<1> QED
  BY <1>1

-----------------------------------------------------------------------------
(* What holds in every state of the extractor.                             *)

ExtractorInv ==
  /\ length \in [Dims -> Nat]
  /\ DOMAIN dimSlices \subseteq Dims
  /\ \A d \in DOMAIN dimSlices : Rising(dimSlices[d]) /\ Len(dimSlices[d]) = length[d]
  /\ \A d \in Dims \ DOMAIN dimSlices : length[d] = OrgLength[d]
  /\ mem \subseteq vars /\ vars \subseteq Vars
  /\ \A v \in mem : DimsOf(v) \cap DOMAIN dimSlices = {}

\* A reduction, whatever it is called: of each dimension in its domain, at picks these positions.
Reducing(at) ==
  /\ length' = [d \in Dims |-> IF d \in DOMAIN at THEN Cardinality(at[d]) ELSE length[d]]
  /\ dimSlices' = [d \in DOMAIN at \cup DOMAIN dimSlices |->
                     IF d \in DOMAIN at THEN Sorted(at[d]) ELSE dimSlices[d]]
  /\ mem' = mem \ {v \in vars : DimsOf(v) \cap DOMAIN at # {}}
  /\ UNCHANGED vars

LEMMA SortedRises ==
  ASSUME NEW S, S \subseteq Nat, IsFiniteSet(S)
  PROVE  Rising(Sorted(S)) /\ Len(Sorted(S)) = Cardinality(S) /\ Cardinality(S) \in Nat
<1> DEFINE N == Cardinality(S)
<1>1. N \in Nat
  BY FS_CardinalityType
<1>2. Sorted(S) \in [1 .. N -> S] /\ \A i, j \in 1 .. N : i < j => Sorted(S)[i] < Sorted(S)[j]
  <2>1. S \subseteq Int
    OBVIOUS
  <2> QED
    BY <2>1, SortedHasAll
<1> DEFINE s == Sorted(S)
<1> HIDE DEF N, s
<1>3. s \in [1 .. N -> Nat]
  BY <1>2 DEF s
<1>4. s \in Seq(Nat) /\ Len(s) = N /\ DOMAIN s = 1 .. N
  BY <1>1, <1>3
<1> QED
  BY <1>1, <1>2, <1>4 DEF N, s, Rising

LEMMA ReducingKeeps ==
  ASSUME ExtractorInv, NEW at, DOMAIN at \subseteq Dims,
         \A d \in DOMAIN at : at[d] \subseteq Nat /\ IsFiniteSet(at[d]), Reducing(at)
  PROVE  ExtractorInv'
<1> DEFINE P == DOMAIN at
           Q == DOMAIN dimSlices
<1>1. DOMAIN dimSlices' = P \cup Q /\ P \cup Q \subseteq Dims
  BY DEF Reducing, ExtractorInv
<1>2. \A d \in P : /\ Rising(Sorted(at[d])) /\ Len(Sorted(at[d])) = Cardinality(at[d])
                   /\ Cardinality(at[d]) \in Nat
  BY SortedRises
<1>3. \A d \in P : dimSlices'[d] = Sorted(at[d]) /\ length'[d] = Cardinality(at[d])
  BY DEF Reducing
<1>4. \A d \in Dims : d \notin P => length'[d] = length[d] /\ length[d] \in Nat
  BY DEF Reducing, ExtractorInv
<1>5. \A d \in Q : d \notin P => dimSlices'[d] = dimSlices[d]
  BY DEF Reducing
<1>6. length' \in [Dims -> Nat]
  <2>1. length' = [d \in Dims |-> length'[d]]
    BY DEF Reducing
  <2>2. \A d \in Dims : length'[d] \in Nat
    BY <1>2, <1>3, <1>4
  <2> QED
    BY <2>1, <2>2
<1>7. \A d \in P \cup Q : Rising(dimSlices'[d]) /\ Len(dimSlices'[d]) = length'[d]
  <2> SUFFICES ASSUME NEW d \in P \cup Q PROVE Rising(dimSlices'[d]) /\ Len(dimSlices'[d]) = length'[d]
    OBVIOUS
  <2>1. CASE d \in P
    BY <1>2, <1>3, <2>1
  <2>2. CASE d \notin P
    <3>1. Rising(dimSlices[d]) /\ Len(dimSlices[d]) = length[d] /\ d \in Dims
      BY <1>1, <2>2 DEF ExtractorInv
    <3> QED
      BY <1>4, <1>5, <2>2, <3>1
  <2> QED
    BY <2>1, <2>2
<1>8. \A d \in Dims \ (P \cup Q) : length'[d] = OrgLength[d]
  BY <1>4 DEF ExtractorInv
<1>9. mem' \subseteq vars' /\ vars' \subseteq Vars
  BY DEF Reducing, ExtractorInv
<1>10. \A v \in mem' : DimsOf(v) \cap (P \cup Q) = {}
  BY DEF Reducing, ExtractorInv
<1> HIDE DEF P, Q
<1> QED
  BY <1>1, <1>6, <1>7, <1>8, <1>9, <1>10 DEF ExtractorInv, Rising, DimsOf

\* Sets of array positions are finite.
LEMMA FiniteSizes ==
  ASSUME NEW S, S \subseteq SizeT
  PROVE  S \subseteq Nat /\ IsFiniteSet(S)
<1>1. SizeMod - 1 \in Nat
  BY SizeModAssumption
<1>2. IsFiniteSet(0 .. SizeMod - 1)
  BY <1>1, FS_Interval
<1>3. S \in SUBSET (0 .. SizeMod - 1)
  BY DEF SizeT
<1>4. IsFiniteSet(S)
  <2> DEFINE T == 0 .. SizeMod - 1
  <2> HIDE DEF T
  <2>1. IsFiniteSet(T) /\ S \in SUBSET T
    BY <1>2, <1>3 DEF T
  <2> QED
    BY <2>1, FS_Subset
<1>5. S \subseteq Nat
  BY <1>3
<1> QED
  BY <1>4, <1>5

\* reduceDimension of a known set of positions.
LEMMA ReduceKeeps ==
  ASSUME ExtractorInv, NEW d \in Dims, NEW S, S \subseteq SizeT, Reduce(d, S)
  PROVE  ExtractorInv'
<1> DEFINE at == [e \in {d} |-> S]
<1>1. DOMAIN at = {d} /\ at[d] = S
  OBVIOUS
<1>2. Reducing(at)
  <2>1. length' = [e \in Dims |-> IF e \in {d} THEN Cardinality(S) ELSE length[e]]
    BY DEF Reduce, ExtractorInv
  <2> DEFINE sorted == [e \in {d} |-> Sorted(S)]
  <2>2. Picked(sorted) /\ DOMAIN sorted = {d} /\ sorted[d] = Sorted(S)
    BY DEF Reduce
  <2> HIDE DEF sorted
  <2>3. dimSlices' = [e \in {d} \cup DOMAIN dimSlices |-> IF e \in {d} THEN Sorted(S) ELSE dimSlices[e]]
    BY <2>2 DEF Picked
  <2>4. \A v \in vars : DimsOf(v) \cap {d} # {} <=> d \in DimsOf(v)
    OBVIOUS
  <2>5. mem' = mem \ {v \in vars : DimsOf(v) \cap {d} # {}} /\ vars' = vars
    BY <2>4 DEF Reduce
  <2> QED
    BY <1>1, <2>1, <2>3, <2>5 DEF Reducing
<1>3. S \subseteq Nat /\ IsFiniteSet(S)
  BY FiniteSizes
<1> HIDE DEF at
<1> QED
  BY <1>1, <1>2, <1>3, ReducingKeeps

\* A call that leaves everything but its result as it was.
LEMMA NothingReduced ==
  ASSUME ExtractorInv, UNCHANGED <<length, dimSlices, vars, mem>>
  PROVE  ExtractorInv'
BY DEF ExtractorInv, Rising, DimsOf

LEMMA DimensionKeeps ==
  ASSUME ExtractorInv, NEW d \in Dims, NEW S, S \subseteq SizeT, ReduceDimension(d, S)
  PROVE  ExtractorInv'
BY ReduceKeeps, NothingReduced DEF ReduceDimension

LEMMA RangeKeeps ==
  ASSUME ExtractorInv, NEW d \in Dims, NEW start \in SizeT, NEW n \in SizeT, ReduceRange(d, start, n)
  PROVE  ExtractorInv'
<1> DEFINE S == {(start + i) % SizeMod : i \in 0 .. n - 1}
<1>1. S \subseteq SizeT
  <2>1. \A i \in 0 .. n - 1 : (start + i) % SizeMod \in 0 .. SizeMod - 1
    <3> SUFFICES ASSUME NEW i \in 0 .. n - 1 PROVE (start + i) % SizeMod \in 0 .. SizeMod - 1
      OBVIOUS
    <3>1. start + i \in Nat /\ SizeMod \in Nat /\ SizeMod > 0
      BY SizeModAssumption DEF SizeT
    <3> QED
      BY <3>1
  <2> QED
    BY <2>1 DEF SizeT
<1> HIDE DEF S
<1>2. ReduceDimension(d, S) \/ UNCHANGED <<length, dimSlices, vars, mem>>
  BY DEF ReduceRange, S
<1> QED
  BY <1>1, <1>2, DimensionKeeps, NothingReduced

LEMMA StartEndKeeps ==
  ASSUME ExtractorInv, NEW d \in Dims, NEW start \in SizeT, NEW end \in Int,
         ReduceDimensionStartEnd(d, start, end)
  PROVE  ExtractorInv'
<1> DEFINE n == StartEndLength(d, start, end)
<1>1. n \in SizeT
  <2>1. start \in Int /\ length[d] \in Int /\ SizeMod \in Nat /\ SizeMod > 0
    BY SizeModAssumption DEF SizeT, ExtractorInv
  <2>2. \A k \in Int : k % SizeMod \in 0 .. SizeMod - 1
    BY <2>1
  <2>3. end - start + 1 \in Int /\ length[d] - start + end \in Int
    BY <2>1
  <2> QED
    BY <2>2, <2>3 DEF StartEndLength, SizeT
<1> HIDE DEF n
<1>2. ReduceRange(d, start, n)
  BY DEF ReduceDimensionStartEnd, n
<1> QED
  BY <1>1, <1>2, RangeKeeps

LEMMA AxesKeep ==
  ASSUME ExtractorInv, NEW lo \in Int, NEW hi \in Int, ReduceAxes(lo, hi)
  PROVE  ExtractorInv'
<1> DEFINE positions(d) == AxisPositions(AxisValues[d], lo, hi)
           at == [d \in AxisDims |-> positions(d)]
           sorted == [d \in AxisDims |-> Sorted(positions(d))]
<1>1. DOMAIN at = AxisDims /\ \A d \in AxisDims : at[d] = positions(d)
  OBVIOUS
<1>2. AxisDims \subseteq DOMAIN AxisValues /\ AxisDims \subseteq Dims
  BY ExtractorAssumption DEF AxisDims
<1>3. \A d \in AxisDims : positions(d) \subseteq Nat /\ IsFiniteSet(positions(d))
  <2> SUFFICES ASSUME NEW d \in AxisDims PROVE positions(d) \subseteq Nat /\ IsFiniteSet(positions(d))
    OBVIOUS
  <2> DEFINE N == Len(AxisValues[d])
  <2>1. N \in Nat
    BY <1>2, ExtractorAssumption
  <2>2. d \in DOMAIN AxisValues
    BY <1>2
  <2>3. positions(d) \subseteq 0 .. N - 1
    BY <2>2, PositionsBetween
  <2> HIDE DEF positions, N
  <2> DEFINE T == 0 .. N - 1
  <2>4. IsFiniteSet(T) /\ positions(d) \in SUBSET T /\ T \subseteq Nat
    BY <2>1, <2>3, FS_Interval
  <2> HIDE DEF T
  <2>5. IsFiniteSet(positions(d))
    BY <2>4, FS_Subset
  <2> QED
    BY <2>4, <2>5
<1>4. Reducing(at)
  <2>1. length' = [d \in Dims |-> IF d \in AxisDims THEN Cardinality(positions(d)) ELSE length[d]]
    BY DEF ReduceAxes
  <2>2. Picked(sorted) /\ DOMAIN sorted = AxisDims /\ \A d \in AxisDims : sorted[d] = Sorted(positions(d))
    BY DEF ReduceAxes
  <2>3. mem' = mem \ {v \in vars : DimsOf(v) \cap AxisDims # {}} /\ vars' = vars
    BY DEF ReduceAxes
  <2> HIDE DEF at, sorted, positions
  <2> QED
    BY <1>1, <2>1, <2>2, <2>3 DEF Reducing, Picked
<1> HIDE DEF at, positions
<1> QED
  BY <1>1, <1>2, <1>3, <1>4, ReducingKeeps

LEMMA BoxKeeps ==
  ASSUME ExtractorInv, NEW box \in Boxes, ReduceLatLonBoundingBox(box)
  PROVE  ExtractorInv'
<1> DEFINE xs == {p[1] : p \in box}
           ys == {p[2] : p \in box}
           at == [d \in {XDim, YDim} |-> IF d = XDim THEN xs ELSE ys]
           sorted == [d \in {XDim, YDim} |-> Sorted(IF d = XDim THEN xs ELSE ys)]
<1>1. xs \subseteq SizeT /\ ys \subseteq SizeT /\ XDim \in Dims /\ YDim \in Dims /\ XDim # YDim
  BY ExtractorAssumption
<1>2. CASE OutOfBounds(XDim, xs)
  BY <1>2, NothingReduced DEF ReduceLatLonBoundingBox
<1>3. CASE ~OutOfBounds(XDim, xs) /\ OutOfBounds(YDim, ys)
  <2>1. Reduce(XDim, xs)
    BY <1>3 DEF ReduceLatLonBoundingBox
  <2> HIDE DEF xs
  <2> QED
    BY <1>1, <2>1, ReduceKeeps
<1>4. CASE ~OutOfBounds(XDim, xs) /\ ~OutOfBounds(YDim, ys)
  <2>1. /\ length' = [length EXCEPT ![XDim] = Cardinality(xs), ![YDim] = Cardinality(ys)]
        /\ Picked(sorted) /\ vars' = vars
        /\ mem' = mem \ {v \in vars : DimsOf(v) \cap {XDim, YDim} # {}}
    BY <1>4 DEF ReduceLatLonBoundingBox
  <2>2. DOMAIN at = {XDim, YDim} /\ DOMAIN sorted = {XDim, YDim}
        /\ \A d \in {XDim, YDim} : at[d] = (IF d = XDim THEN xs ELSE ys) /\ sorted[d] = Sorted(at[d])
    OBVIOUS
  <2> HIDE DEF xs, ys, at, sorted
  <2>3. length' = [d \in Dims |-> IF d \in {XDim, YDim} THEN Cardinality(at[d]) ELSE length[d]]
    BY <1>1, <2>1, <2>2 DEF ExtractorInv
  <2>4. Reducing(at)
    BY <2>1, <2>2, <2>3 DEF Reducing, Picked
  <2>5. xs \subseteq Nat /\ IsFiniteSet(xs) /\ ys \subseteq Nat /\ IsFiniteSet(ys)
    BY <1>1, FiniteSizes
  <2> QED
    BY <1>1, <2>2, <2>4, <2>5, ReducingKeeps
<1> QED
  BY <1>2, <1>3, <1>4

LEMMA FewerVariables ==
  ASSUME ExtractorInv, vars' \subseteq vars, mem' \subseteq mem, mem' \subseteq vars',
         UNCHANGED <<length, dimSlices>>
  PROVE  ExtractorInv'
BY DEF ExtractorInv, Rising, DimsOf

(* Whatever is reduced, selected or removed: the positions kept for a reduced dimension   *)
(* are there once each, in rising order and as many as the model says the dimension has,  *)
(* the other dimensions are as long as in the reader below, and what carries its data in  *)
(* the model has no reduced dimension (reduceDimension and all that ends in it).          *)
THEOREM PicksAreInOrder == Spec => []ExtractorInv
<1>1. Init => ExtractorInv
  <2> SUFFICES ASSUME Init PROVE ExtractorInv
    OBVIOUS
  <2>1. OrgLength \in [Dims -> Nat] /\ InMemory \subseteq Vars
    BY ExtractorAssumption DEF SizeT
  <2>2. DOMAIN dimSlices = {}
    BY DEF Init
  <2> QED
    BY <2>1, <2>2 DEF Init, ExtractorInv
<1>2. ExtractorInv /\ [Next]_extractor => ExtractorInv'
  <2> SUFFICES ASSUME ExtractorInv, [Next]_extractor PROVE ExtractorInv'
    OBVIOUS
  <2>1. ASSUME NEW d \in Dims, NEW S \in Picks, ReduceDimension(d, S) PROVE ExtractorInv'
    <3>1. S \subseteq SizeT
      BY ExtractorAssumption
    <3> QED
      BY <2>1, <3>1, DimensionKeeps
  <2>2. ASSUME NEW d \in Dims, NEW start \in Starts, NEW n \in Counts, ReduceRange(d, start, n)
        PROVE  ExtractorInv'
    <3>1. start \in SizeT /\ n \in SizeT
      BY ExtractorAssumption
    <3> QED
      BY <2>2, <3>1, RangeKeeps
  <2>3. ASSUME NEW d \in Dims, NEW start \in Starts, NEW end \in Ends, ReduceDimensionStartEnd(d, start, end)
        PROVE  ExtractorInv'
    <3>1. start \in SizeT /\ end \in Int
      BY ExtractorAssumption
    <3> QED
      BY <2>3, <3>1, StartEndKeeps
  <2>4. ASSUME NEW lo \in AxisBounds, NEW hi \in AxisBounds, ReduceAxes(lo, hi) PROVE ExtractorInv'
    <3>1. lo \in Int /\ hi \in Int
      BY ExtractorAssumption
    <3> QED
      BY <2>4, <3>1, AxesKeep
  <2>5. ASSUME NEW box \in Boxes, ReduceLatLonBoundingBox(box) PROVE ExtractorInv'
    BY <2>5, BoxKeeps
  <2>6. ASSUME NEW v, RemoveVariable(v) PROVE ExtractorInv'
    <3>1. mem \subseteq vars
      BY DEF ExtractorInv
    <3> QED
      BY <2>6, <3>1, FewerVariables DEF RemoveVariable
  <2>7. ASSUME NEW S, NEW aux \in BOOLEAN, SelectVariables(S, aux) PROVE ExtractorInv'
    BY <2>7, FewerVariables DEF SelectVariables
  <2>8. CASE UNCHANGED extractor
    BY <2>8, NothingReduced DEF extractor
  <2> QED
    BY <2>1, <2>2, <2>3, <2>4, <2>5, <2>6, <2>7, <2>8 DEF Next
<1> QED
  BY <1>1, <1>2, PTL DEF Spec

-----------------------------------------------------------------------------
(* Reads answer what was asked for.                                        *)

\* A request inside what the extractor shows, of some elements, is one of the reader below.
LEMMA RequestFits ==
  ASSUME ExtractorInv, PicksInside, NEW v \in Vars, NEW start, NEW size,
         start \in [DOMAIN Shape[v] -> Nat], size \in [DOMAIN Shape[v] -> Nat \ {0}],
         \A m \in DOMAIN Shape[v] : start[m] + size[m] <= length[Shape[v][m]]
  PROVE  Fits(v, start, size)
<1>1. \A m \in DOMAIN Shape[v] : Shape[v][m] \in Dims
  <2>1. Shape[v] \in Seq(Dims)
    BY ExtractorAssumption
  <2> QED
    BY <2>1
<1>2. ASSUME NEW m \in DOMAIN Shape[v]
      PROVE  InPicks(Shape[v][m], start[m], size[m])
             /\ Wanted(v, start, size, m) \subseteq 0 .. OrgLength[Shape[v][m]] - 1
  <2> DEFINE d == Shape[v][m]
             s == start[m]
             n == size[m]
  <2>1. d \in Dims /\ s \in Nat /\ n \in Nat /\ s + n <= length[d] /\ length[d] \in Nat
    BY <1>1 DEF ExtractorInv
  <2>2. OrgLength[d] \in Nat
    BY <2>1, ExtractorAssumption DEF SizeT
  <2> HIDE DEF d, s, n
  <2>3. InPicks(d, s, n)
    BY <2>1 DEF InPicks, ExtractorInv
  <2>4. ASSUME NEW q \in s .. s + n - 1 PROVE OrgPosition(d, q) \in 0 .. OrgLength[d] - 1
    <3>1. CASE d \in DOMAIN dimSlices
      <4> DEFINE p == dimSlices[d]
      <4>1. p \in Seq(Nat) /\ Len(p) = length[d]
        BY <3>1 DEF ExtractorInv, Rising
      <4>2. q + 1 \in DOMAIN p
        BY <2>1, <4>1
      <4>3. p[q + 1] \in Nat /\ p[q + 1] < OrgLength[d]
        BY <3>1, <4>1, <4>2 DEF PicksInside, ToSet
      <4>4. OrgPosition(d, q) = p[q + 1]
        BY <3>1 DEF OrgPosition
      <4> HIDE DEF p
      <4> QED
        BY <2>2, <4>3, <4>4
    <3>2. CASE d \notin DOMAIN dimSlices
      <4>1. length[d] = OrgLength[d]
        BY <2>1, <3>2 DEF ExtractorInv
      <4>2. OrgPosition(d, q) = q
        BY <3>2 DEF OrgPosition
      <4> QED
        BY <2>1, <2>2, <4>1, <4>2
    <3> QED
      BY <3>1, <3>2
  <2> QED
    BY <2>3, <2>4 DEF Wanted, Shown, d, s, n
<1> QED
  BY <1>2 DEF Fits

LEMMA RequestsFit ==
  ASSUME ExtractorInv, PicksInside, NEW v \in Vars, NEW r \in Requests(v), Nonempty(r)
  PROVE  Fits(v, r[1], r[2])
<1> DEFINE I == DOMAIN Shape[v]
           P == UNION {Parts(length[d]) : d \in DimsOf(v)}
<1>1. PICK q \in [I -> P] : /\ \A i \in I : q[i] \in Parts(length[Shape[v][i]])
                            /\ r = <<[i \in I |-> q[i][1]], [i \in I |-> q[i][2]]>>
  BY DEF Requests
<1>2. \A i \in I : length[Shape[v][i]] \in Nat
  <2>1. Shape[v] \in Seq(Dims)
    BY ExtractorAssumption
  <2> QED
    BY <2>1 DEF ExtractorInv
<1>3. ASSUME NEW i \in I PROVE q[i][1] \in Nat /\ q[i][2] \in Nat /\ q[i][1] + q[i][2] <= length[Shape[v][i]]
  BY <1>1, <1>2 DEF Parts
<1>4. \A i \in I : q[i][2] > 0
  BY <1>1 DEF Nonempty
<1>5. r[1] \in [I -> Nat] /\ r[2] \in [I -> Nat \ {0}]
  BY <1>1, <1>3, <1>4
<1>6. \A i \in I : r[1][i] + r[2][i] <= length[Shape[v][i]]
  BY <1>1, <1>3
<1> QED
  BY <1>5, <1>6, RequestFits

\* Where no dimension is reduced, what is shown is what is below.
LEMMA AsBelow ==
  ASSUME NEW v \in Vars, NEW start, NEW size, Fits(v, start, size),
         DimsOf(v) \cap DOMAIN dimSlices = {}
  PROVE  Slab(start, size) = Restriction(v, start, size)
<1> DEFINE I == DOMAIN Shape[v]
           slab == Slab(start, size)
           n == Len(Shape[v])
<1>1. I = 1 .. n /\ n \in Nat
  <2>1. Shape[v] \in Seq(Dims)
    BY ExtractorAssumption
  <2> QED
    BY <2>1
<1>2. size \in Seq(Nat \ {0}) /\ DOMAIN size = I /\ start \in [DOMAIN size -> Nat]
  <2>1. start \in [I -> Nat] /\ size \in [I -> Nat \ {0}]
    BY DEF Fits
  <2> HIDE DEF I
  <2> QED
    BY <1>1, <2>1
<1>3. slab \in Seq(Box(start, size))
  BY <1>2, SlabRight
<1>4. \A k \in DOMAIN slab : slab[k] \in [I -> Nat]
  <2>1. Box(start, size) \subseteq [I -> Nat]
    BY <1>2 DEF Box
  <2> HIDE DEF slab
  <2> QED
    BY <1>3, <2>1
<1>5. \A i \in I : \A p : OrgPosition(Shape[v][i], p) = p
  BY DEF OrgPosition, DimsOf
<1>6. ASSUME NEW k \in DOMAIN slab
      PROVE  [i \in I |-> OrgPosition(Shape[v][i], slab[k][i])] = slab[k]
  <2>1. slab[k] = [i \in I |-> slab[k][i]]
    BY <1>4
  <2> HIDE DEF slab
  <2> QED
    BY <1>5, <2>1
<1>7. Restriction(v, start, size) = [k \in DOMAIN slab |-> [i \in I |-> OrgPosition(Shape[v][i], slab[k][i])]]
  BY DEF Restriction
<1>8. slab = [k \in DOMAIN slab |-> slab[k]]
  <2> HIDE DEF slab
  <2> QED
    BY <1>3
<1> HIDE DEF slab
<1>9. Restriction(v, start, size) = [k \in DOMAIN slab |-> slab[k]]
  BY <1>6, <1>7
<1> QED
  BY <1>8, <1>9 DEF slab

\* A variable with its data in memory is there as it is below, and not empty.
LEMMA MemoryIsBelow ==
  ASSUME ExtractorInv, NEW v \in mem, \A i \in DOMAIN Shape[v] : length[Shape[v][i]] # 0
  PROVE  /\ Sizes(v) = OrgSizes(v) /\ Product(OrgSizes(v)) # 0
         /\ OrgSizes(v) \in Seq(Nat \ {0}) /\ v \in Vars
<1>1. v \in Vars /\ DimsOf(v) \cap DOMAIN dimSlices = {}
  BY DEF ExtractorInv
<1>2. Shape[v] \in Seq(Dims)
  BY <1>1, ExtractorAssumption
<1>3. \A i \in DOMAIN Shape[v] : /\ length[Shape[v][i]] = OrgLength[Shape[v][i]]
                                 /\ length[Shape[v][i]] \in Nat \ {0}
  BY <1>1, <1>2 DEF ExtractorInv, DimsOf
<1>4. Sizes(v) = OrgSizes(v)
  BY <1>3 DEF Sizes, OrgSizes
<1>5. OrgSizes(v) \in [1 .. Len(Shape[v]) -> Nat \ {0}] /\ Len(Shape[v]) \in Nat
  BY <1>2, <1>3 DEF OrgSizes
<1>6. OrgSizes(v) \in Seq(Nat \ {0})
  BY <1>5
<1>7. Product(OrgSizes(v)) \in Nat \ {0}
  <2>1. [i \in DOMAIN OrgSizes(v) |-> 0] \in [DOMAIN OrgSizes(v) -> Nat]
    OBVIOUS
  <2> QED
    BY <1>6, <2>1, SlabRight
<1> QED
  BY <1>1, <1>4, <1>6, <1>7

\* A read answers, and each answer is one of the two.
LEMMA SliceAnswers ==
  ASSUME NamedOnce, ExtractorInv, NEW v \in vars, NEW start, NEW size, Fits(v, start, size)
  PROVE  LET answer == GetDataSlice(v, start, size)
         IN  /\ answer.status = "ok"
             /\ \/ answer.data = Restriction(v, start, size)
                \/ Answered(v, start, size, answer.data)
<1> DEFINE answer == GetDataSlice(v, start, size)
<1>0. v \in Vars
  BY DEF ExtractorInv
<1>1. CASE v \in mem
  <2>1. DimsOf(v) \cap DOMAIN dimSlices = {}
    BY <1>1 DEF ExtractorInv
  <2>2. \A i \in DOMAIN Shape[v] : length[Shape[v][i]] # 0
    <3> SUFFICES ASSUME NEW i \in DOMAIN Shape[v] PROVE length[Shape[v][i]] # 0
      OBVIOUS
    <3> DEFINE d == Shape[v][i]
    <3>1. d \in Dims /\ d \notin DOMAIN dimSlices
      <4>1. Shape[v] \in Seq(Dims)
        BY <1>0, ExtractorAssumption
      <4> QED
        BY <2>1, <4>1 DEF DimsOf
    <3>2. length[d] = OrgLength[d] /\ OrgLength[d] \in Nat
      BY <3>1, ExtractorAssumption DEF ExtractorInv, SizeT
    <3>3. Wanted(v, start, size, i) \subseteq 0 .. OrgLength[d] - 1
      BY DEF Fits
    <3>4. start[i] \in Nat /\ size[i] \in Nat \ {0}
      BY DEF Fits
    <3>5. OrgPosition(d, start[i]) \in Wanted(v, start, size, i)
      <4>1. start[i] \in start[i] .. start[i] + size[i] - 1
        BY <3>4
      <4> QED
        BY <4>1 DEF Wanted, Shown
    <3>6. OrgPosition(d, start[i]) \in 0 .. OrgLength[d] - 1
      BY <3>3, <3>5
    <3> HIDE DEF d
    <3> QED
      BY <3>2, <3>6 DEF d
  <2>3. Sizes(v) = OrgSizes(v) /\ Product(OrgSizes(v)) # 0
    BY <1>1, <2>2, MemoryIsBelow
  <2>4. answer = FromMemory(v, start, size)
    BY <1>1 DEF GetDataSlice
  <2>5. FromMemory(v, start, size) = Answer("ok", Slab(start, size))
    BY <2>3 DEF FromMemory
  <2>6. Slab(start, size) = Restriction(v, start, size)
    BY <1>0, <2>1, AsBelow
  <2> HIDE DEF answer
  <2> QED
    BY <2>4, <2>5, <2>6 DEF Answer, answer
<1>2. CASE v \notin mem /\ DOMAIN dimSlices = {}
  <2>1. answer = Answer("ok", Slab(start, size))
    BY <1>2 DEF GetDataSlice
  <2>2. Slab(start, size) = Restriction(v, start, size)
    BY <1>0, <1>2, AsBelow
  <2> HIDE DEF answer
  <2> QED
    BY <2>1, <2>2 DEF Answer, answer
<1>3. CASE v \notin mem /\ DOMAIN dimSlices # {}
  <2>1. answer = ReadPieces(v, start, size)
    BY <1>3 DEF GetDataSlice
  <2>2. answer.status = "ok" /\ Answered(v, start, size, answer.data)
    BY <1>0, <2>1, PiecesAnswer
  <2> HIDE DEF answer
  <2> QED
    BY <2>2 DEF answer
<1> QED
  BY <1>1, <1>2, <1>3

\* What is answered is what was promised, but for the order.
LEMMA AnswersMatch ==
  ASSUME NEW v \in Vars, NEW start, NEW size, Fits(v, start, size), NEW data,
         Answered(v, start, size, data)
  PROVE  /\ ToSet(data) = ToSet(Restriction(v, start, size))
         /\ Len(data) = Len(Restriction(v, start, size))
         /\ InStep(v, start, size) => data = Restriction(v, start, size)
<1> DEFINE t == Restriction(v, start, size)
<1>1. Promised(v, start, size, t)
  BY RestrictionIs
<1> HIDE DEF t
<1>2. /\ data \in Seq(Elements(v)) /\ Ordered(data, Ordering(v, start, size))
      /\ t \in Seq(Elements(v)) /\ Ordered(t, Memory(v)) /\ ToSet(data) = ToSet(t)
  BY <1>1 DEF Answered, Promised
<1>3. Ordered(data, Different(v)) /\ Ordered(t, Different(v))
  BY <1>2, NoTies DEF Ordered, Ordering
<1>4. Len(data) = Len(t)
  BY <1>2, <1>3, SameLength
<1>5. ASSUME InStep(v, start, size) PROVE data = t
  <2>1. Ordered(data, Memory(v))
    BY <1>2, <1>5 DEF Ordering
  <2>2. \A x, y : ~ (<<x, y>> \in Memory(v) /\ <<y, x>> \in Memory(v))
    BY NoTies
  <2> QED
    BY <1>2, <2>1, <2>2, OneOrder
<1> QED
  BY <1>2, <1>4, <1>5 DEF t

(* Whatever was reduced in whatever order, along however many dimensions: a read of    *)
(* some elements brings back exactly the picked elements, none twice, none missing,    *)
(* none of another position (getDataSlice, getDataSlice_, joinSlices).  Assumed is that *)
(* no variable has a dimension twice, which netCDF allows: builders go by the name.     *)
THEOREM PickedElementsAreRead == ASSUME NamedOnce PROVE Spec => []ReadsPickedElements
<1>1. ASSUME ExtractorInv PROVE ReadsPickedElements
  <2> SUFFICES ASSUME PicksInside, NEW v \in vars, NEW r \in Requests(v), Nonempty(r)
               PROVE  LET answer == GetDataSlice(v, r[1], r[2])
                      IN  /\ answer.status = "ok"
                          /\ Len(answer.data) = Product(r[2])
                          /\ ToSet(answer.data) = ToSet(Restriction(v, r[1], r[2]))
    BY DEF ReadsPickedElements
  <2> DEFINE answer == GetDataSlice(v, r[1], r[2])
             t == Restriction(v, r[1], r[2])
  <2>1. v \in Vars
    BY <1>1 DEF ExtractorInv
  <2>2. Fits(v, r[1], r[2])
    BY <1>1, <2>1, RequestsFit
  <2>3. Len(t) = Product(r[2])
    BY <2>1, <2>2, RestrictionIs DEF Promised
  <2>4. answer.status = "ok" /\ (answer.data = t \/ Answered(v, r[1], r[2], answer.data))
    BY <1>1, <2>2, SliceAnswers
  <2> HIDE DEF answer
  <2>5. Answered(v, r[1], r[2], answer.data) => ToSet(answer.data) = ToSet(t) /\ Len(answer.data) = Len(t)
    BY <2>1, <2>2, AnswersMatch
  <2> HIDE DEF t
  <2> QED
    BY <2>3, <2>4, <2>5 DEF t, answer
<1>2. ExtractorInv => ReadsPickedElements
  BY <1>1
<1> QED
  BY <1>2, PicksAreInOrder, PTL

-----------------------------------------------------------------------------
(* ... in the order of memory.                                             *)

\* All of the variable's dimensions have some positions, and pieces of it stay in order.
Readable(v) ==
  /\ \A i \in DOMAIN Shape[v] : length[Shape[v][i]] > 0
  /\ PiecesStayInOrder(v, <<Origin(Sizes(v)), AtSize(v)>>)

\* The read of one position along the unlimited dimension, or of a variable without it.
LEMMA PositionRead ==
  ASSUME NamedOnce, ExtractorInv, PicksInside, NEW v \in vars \ mem, Readable(v),
         NEW pos \in Nat, HasUnlimited(v) => pos < length[Unlimited]
  PROVE  /\ GetDataSliceAt(v, pos) = Answer("ok", Restriction(v, AtStart(v, pos), AtSize(v)))
         /\ Fits(v, AtStart(v, pos), AtSize(v))
<1> DEFINE I == DOMAIN Shape[v]
           start == AtStart(v, pos)
           size == AtSize(v)
<1>1. v \in Vars /\ v \in vars /\ v \notin mem
  BY DEF ExtractorInv
<1>2. Shape[v] \in Seq(Dims) /\ I = 1 .. Len(Shape[v]) /\ Len(Shape[v]) \in Nat
  <2>1. Shape[v] \in Seq(Dims)
    BY <1>1, ExtractorAssumption
  <2> QED
    BY <2>1
<1>3. \A i \in I : length[Shape[v][i]] \in Nat \ {0}
  BY <1>2 DEF ExtractorInv, Readable
<1>4. \A i \in I : /\ start[i] = IF Shape[v][i] = Unlimited THEN pos ELSE 0
                   /\ size[i] = IF Shape[v][i] = Unlimited THEN 1 ELSE length[Shape[v][i]]
  BY DEF AtStart, AtSize
<1>5. start \in [I -> Nat] /\ size \in [I -> Nat \ {0}]
  <2>1. start = [i \in I |-> start[i]] /\ size = [i \in I |-> size[i]]
    BY DEF AtStart, AtSize
  <2> HIDE DEF start, size, I
  <2> QED
    BY <1>3, <1>4, <2>1
<1>6. \A i \in I : start[i] + size[i] <= length[Shape[v][i]]
  <2> SUFFICES ASSUME NEW i \in I PROVE start[i] + size[i] <= length[Shape[v][i]]
    OBVIOUS
  <2>1. CASE Shape[v][i] = Unlimited
    <3>1. pos < length[Unlimited] /\ length[Unlimited] \in Nat
      BY <1>3, <2>1 DEF HasUnlimited, DimsOf
    <3> QED
      BY <1>4, <2>1, <3>1
  <2>2. CASE Shape[v][i] # Unlimited
    BY <1>3, <1>4, <2>2
  <2> QED
    BY <2>1, <2>2
<1> HIDE DEF start, size
<1>7. Fits(v, start, size)
  BY <1>1, <1>5, <1>6, RequestFits
<1>8. InStep(v, start, size)
  <2> DEFINE whole == <<Origin(Sizes(v)), AtSize(v)>>
  <2>1. PiecesStayInOrder(v, whole)
    BY DEF Readable
  <2>2. ASSUME NEW i \in I, NEW j \in I, i < j PROVE whole[1][i] = start[i] /\ whole[2] = size
    <3>1. Shape[v][i] # Unlimited
      BY <1>1, <1>2, <2>2, ExtractorAssumption
    <3>2. whole[1][i] = 0
      BY DEF Origin, Sizes
    <3> QED
      BY <1>4, <3>1, <3>2 DEF size
  <2> HIDE DEF whole
  <2>3. \A i, j \in I : i < j /\ Gappy(Shape[v][i], start[i], size[i])
                          => Shape[v][j] \in DOMAIN dimSlices \/ size[j] = 1
    BY <2>1, <2>2 DEF PiecesStayInOrder
  <2> QED
    BY <2>3 DEF InStep, PiecesStayInOrder
<1>9. CASE DOMAIN dimSlices = {}
  <2>1. GetDataSliceAt(v, pos) = Answer("ok", Slab(start, size))
    BY <1>1, <1>9 DEF GetDataSliceAt, start, size
  <2>2. Slab(start, size) = Restriction(v, start, size)
    BY <1>1, <1>7, <1>9, AsBelow
  <2> QED
    BY <1>7, <2>1, <2>2 DEF start, size
<1>10. CASE DOMAIN dimSlices # {}
  <2>1. ~ (HasUnlimited(v) /\ pos >= length[Unlimited])
    <3> SUFFICES ASSUME HasUnlimited(v) PROVE ~ (pos >= length[Unlimited])
      OBVIOUS
    <3>1. length[Unlimited] \in Nat
      BY <1>3 DEF HasUnlimited, DimsOf
    <3> QED
      BY <3>1
  <2>2. GetDataSliceAt(v, pos) = ReadPieces(v, start, size)
    BY <1>1, <1>10, <2>1 DEF GetDataSliceAt, start, size
  <2> DEFINE answer == ReadPieces(v, start, size)
  <2>3. answer = Answer("ok", answer.data) /\ Answered(v, start, size, answer.data)
    BY <1>1, <1>7, PiecesAnswer
  <2> HIDE DEF answer
  <2>4. answer.data = Restriction(v, start, size)
    BY <1>1, <1>7, <1>8, <2>3, AnswersMatch
  <2> QED
    BY <1>7, <2>2, <2>3, <2>4 DEF start, size, answer
<1> QED
  BY <1>9, <1>10

\* The positions along the unlimited dimension, one after the other, are the whole.
LEMMA PositionsJoined ==
  ASSUME NamedOnce, ExtractorInv, PicksInside, NEW v \in vars \ mem, Readable(v), HasUnlimited(v)
  PROVE  LET n == length[Unlimited]
         IN  FlattenSeq([i \in 1 .. n |-> Restriction(v, AtStart(v, i - 1), AtSize(v))])
               = Restriction(v, Origin(Sizes(v)), Sizes(v))
<1> DEFINE I == DOMAIN Shape[v]
           n == Len(Shape[v])
           u == length[Unlimited]
           E == Elements(v)
           R == Memory(v)
           start(i) == AtStart(v, i - 1)
           size == AtSize(v)
           part(i) == Restriction(v, start(i), size)
           ss == [i \in 1 .. u |-> part(i)]
           whole == Restriction(v, Origin(Sizes(v)), Sizes(v))
<1>1. v \in Vars /\ v \in vars /\ v \notin mem
  BY DEF ExtractorInv
<1>2. Shape[v] \in Seq(Dims) /\ I = 1 .. n /\ n \in Nat
  <2>1. Shape[v] \in Seq(Dims)
    BY <1>1, ExtractorAssumption
  <2> QED
    BY <2>1
<1>3. n \in I /\ Shape[v][n] = Unlimited /\ Unlimited \in Dims /\ \A i \in I : Shape[v][i] = Unlimited => i = n
  <2>1. PICK i \in I : Shape[v][i] = Unlimited
    BY DEF HasUnlimited, DimsOf
  <2>2. \A j \in I : Shape[v][j] = Unlimited => j = n
    BY <1>1, ExtractorAssumption
  <2> QED
    BY <1>2, <2>1, <2>2
<1>4. \A i \in I : length[Shape[v][i]] \in Nat \ {0}
  BY <1>2 DEF ExtractorInv, Readable
<1>5. u \in Nat \ {0}
  BY <1>3, <1>4
<1>6. ASSUME NEW i \in 1 .. u
      PROVE  Fits(v, start(i), size) /\ Promised(v, start(i), size, part(i))
  <2>1. i - 1 \in Nat /\ i - 1 < u
    BY <1>5
  <2>2. Fits(v, start(i), size)
    BY <1>1, <2>1, PositionRead
  <2> HIDE DEF start, size
  <2> QED
    BY <1>1, <2>2, RestrictionIs
<1>7. Promised(v, Origin(Sizes(v)), Sizes(v), whole)
  <2>1. /\ Origin(Sizes(v)) \in [I -> Nat] /\ Sizes(v) \in [I -> Nat \ {0}]
        /\ \A i \in I : Origin(Sizes(v))[i] = 0 /\ Sizes(v)[i] = length[Shape[v][i]]
    BY <1>4 DEF Origin, Sizes
  <2>2. \A i \in I : Origin(Sizes(v))[i] + Sizes(v)[i] <= length[Shape[v][i]]
    BY <1>4, <2>1
  <2>3. Fits(v, Origin(Sizes(v)), Sizes(v))
    BY <1>1, <2>1, <2>2, RequestFits
  <2> QED
    BY <1>1, <2>3, RestrictionIs
\* What a position wants, and what the whole wants.
<1>8. ASSUME NEW x \in E, NEW i \in 1 .. u
      PROVE  x \in Wanting(v, start(i), size, n)
               <=> /\ x[n] = OrgPosition(Unlimited, i - 1)
                   /\ \A m \in I : m # n => x[m] \in Wanted(v, Origin(Sizes(v)), Sizes(v), m)
  <2>1. \A m \in I : m # n => Wanted(v, start(i), size, m) = Wanted(v, Origin(Sizes(v)), Sizes(v), m)
    BY <1>3 DEF Wanted, AtStart, AtSize, Origin, Sizes
  <2>2. Wanted(v, start(i), size, n) = {OrgPosition(Unlimited, i - 1)}
    <3>1. start(i)[n] = i - 1 /\ size[n] = 1
      BY <1>3 DEF AtStart, AtSize
    <3>2. (i - 1) .. (i - 1) + 1 - 1 = {i - 1}
      BY <1>5
    <3> HIDE DEF start, size
    <3> QED
      BY <1>3, <3>1, <3>2 DEF Wanted, Shown
  <2> HIDE DEF start, size
  <2> QED
    BY <1>2, <1>3, <2>1, <2>2 DEF Wanting
<1>9. ASSUME NEW x \in E
      PROVE  x \in Wanting(v, Origin(Sizes(v)), Sizes(v), n)
               <=> \E i \in 1 .. u : x \in Wanting(v, start(i), size, n)
  <2> DEFINE others == \A m \in I : m # n => x[m] \in Wanted(v, Origin(Sizes(v)), Sizes(v), m)
  <2>1. Wanted(v, Origin(Sizes(v)), Sizes(v), n) = {OrgPosition(Unlimited, q) : q \in 0 .. u - 1}
    <3>1. Origin(Sizes(v))[n] = 0 /\ Sizes(v)[n] = u
      BY <1>3 DEF Origin, Sizes
    <3>2. 0 .. 0 + u - 1 = 0 .. u - 1
      BY <1>5
    <3> HIDE DEF u
    <3> QED
      BY <1>3, <3>1, <3>2 DEF Wanted, Shown
  <2>2. x[n] \in Wanted(v, Origin(Sizes(v)), Sizes(v), n) <=> \E i \in 1 .. u : x[n] = OrgPosition(Unlimited, i - 1)
    <3>1. \A q \in 0 .. u - 1 : q + 1 \in 1 .. u /\ (q + 1) - 1 = q
      BY <1>5
    <3>2. \A i \in 1 .. u : i - 1 \in 0 .. u - 1
      BY <1>5
    <3> HIDE DEF u
    <3> QED
      BY <2>1, <3>1, <3>2
  <2>3. x \in Wanting(v, Origin(Sizes(v)), Sizes(v), n)
          <=> others /\ x[n] \in Wanted(v, Origin(Sizes(v)), Sizes(v), n)
    BY <1>2, <1>3 DEF Wanting
  <2> HIDE DEF others
  <2>4. \A i \in 1 .. u : x \in Wanting(v, start(i), size, n) <=> x[n] = OrgPosition(Unlimited, i - 1) /\ others
    BY <1>8 DEF others
  <2> HIDE DEF start, size, u
  <2> QED
    BY <2>2, <2>3, <2>4
<1> HIDE DEF start, size, part
<1>10. \A i \in 1 .. u : /\ part(i) \in Seq(E) /\ Ordered(part(i), R)
                         /\ ToSet(part(i)) = Wanting(v, start(i), size, n)
  BY <1>6 DEF Promised
<1>11. /\ ss \in Seq(Seq(E)) /\ DOMAIN ss = 1 .. u /\ Len(ss) = u
       /\ \A i \in 1 .. u : ss[i] = part(i)
  <2>1. ss \in [1 .. u -> Seq(E)]
    BY <1>10
  <2>2. \A i \in 1 .. u : ss[i] = part(i)
    OBVIOUS
  <2> HIDE DEF ss, E
  <2> QED
    BY <1>5, <2>1, <2>2
<1> HIDE DEF ss
<1>12. PartsOrdered(ss, R)
  <2>1. ASSUME NEW k \in 1 .. u, NEW l \in 1 .. u, k < l, NEW a \in DOMAIN ss[k], NEW b \in DOMAIN ss[l]
        PROVE  <<ss[k][a], ss[l][b]>> \in R
    <3> DEFINE x == ss[k][a]
               y == ss[l][b]
    <3>1. x \in Wanting(v, start(k), size, n) /\ y \in Wanting(v, start(l), size, n)
      BY <1>10, <1>11 DEF ToSet
    <3>2. x \in E /\ y \in E
      BY <3>1 DEF Wanting
    <3>3. x[n] = OrgPosition(Unlimited, k - 1) /\ y[n] = OrgPosition(Unlimited, l - 1)
      <4> HIDE DEF x, y
      <4> QED
        BY <1>8, <3>1, <3>2
    <3>4. x[n] < y[n]
      <4>1. InPicks(Unlimited, 0, u)
        BY <1>5 DEF ExtractorInv, InPicks
      <4>2. k - 1 \in 0 .. 0 + u - 1 /\ l - 1 \in 0 .. 0 + u - 1 /\ k - 1 < l - 1
        BY <1>5, <2>1
      <4> HIDE DEF x, y, u
      <4> QED
        BY <1>5, <3>3, <4>1, <4>2, PositionsRise
    <3>5. Earlier(x, y)
      <4>1. DOMAIN x = I /\ \A m \in I : ~ (m > n)
        BY <1>2, <3>2 DEF Elements
      <4> HIDE DEF x, y
      <4> QED
        BY <1>3, <3>4, <4>1 DEF Earlier
    <3> HIDE DEF x, y
    <3>6. <<x, y>> \in R
      BY <3>2, <3>5 DEF Memory
    <3> QED
      BY <3>6 DEF x, y
  <2> HIDE DEF R
  <2>2. \A k, l \in 1 .. u : k < l => Across(ss[k], ss[l], R)
    BY <2>1 DEF Across
  <2>3. \A k \in 1 .. u : Ordered(ss[k], R)
    BY <1>10, <1>11
  <2> QED
    BY <1>11, <2>2, <2>3 DEF PartsOrdered
<1> DEFINE data == FlattenSeq(ss)
<1>13. Joined(data, ss, u, E, R)
  <2> HIDE DEF R, E
  <2> QED
    BY <1>11, <1>12, Flattened
<1> HIDE DEF data
<1>14. data \in Seq(E) /\ Ordered(data, R)
  BY <1>13 DEF Joined
<1>15. ToSet(data) = Wanting(v, Origin(Sizes(v)), Sizes(v), n)
  <2>1. ASSUME NEW x \in ToSet(data) PROVE x \in Wanting(v, Origin(Sizes(v)), Sizes(v), n)
    <3>1. PICK a \in DOMAIN data : x = data[a]
      BY DEF ToSet
    <3>2. PICK k \in 1 .. u : x \in ToSet(ss[k])
      BY <1>13, <3>1 DEF Joined
    <3>3. x \in Wanting(v, start(k), size, n) /\ x \in E
      BY <1>10, <1>11, <3>2 DEF Wanting
    <3> QED
      BY <1>9, <3>2, <3>3
  <2>2. ASSUME NEW x \in Wanting(v, Origin(Sizes(v)), Sizes(v), n) PROVE x \in ToSet(data)
    <3>1. x \in E
      BY <2>2 DEF Wanting
    <3>2. PICK k \in 1 .. u : x \in Wanting(v, start(k), size, n)
      BY <1>9, <2>2, <3>1
    <3>3. PICK a \in DOMAIN ss[k] : x = ss[k][a]
      BY <1>10, <1>11, <3>2 DEF ToSet
    <3> QED
      BY <1>13, <3>2, <3>3 DEF Joined
  <2> QED
    BY <2>1, <2>2
<1>16. data = whole
  <2>1. whole \in Seq(E) /\ Ordered(whole, R) /\ ToSet(whole) = Wanting(v, Origin(Sizes(v)), Sizes(v), n)
    BY <1>7 DEF Promised
  <2>2. \A x, y : ~ (<<x, y>> \in R /\ <<y, x>> \in R)
    BY <1>1, NoTies
  <2> HIDE DEF whole, E, R
  <2> QED
    BY <1>14, <1>15, <2>1, <2>2, OneOrder
<1> QED
  BY <1>16 DEF data, ss, part, start, size

\* getData is the whole array.
LEMMA AllOfIt ==
  ASSUME NamedOnce, ExtractorInv, PicksInside, NEW v \in vars, Readable(v)
  PROVE  GetData(v) = Answer("ok", Restriction(v, Origin(Sizes(v)), Sizes(v)))
<1> DEFINE I == DOMAIN Shape[v]
           whole == Restriction(v, Origin(Sizes(v)), Sizes(v))
<1>1. v \in Vars
  BY DEF ExtractorInv
<1>2. \A i \in I : length[Shape[v][i]] \in Nat \ {0}
  <2>1. Shape[v] \in Seq(Dims)
    BY <1>1, ExtractorAssumption
  <2> QED
    BY <2>1 DEF ExtractorInv, Readable
<1>3. CASE v \in mem
  <2>1. GetData(v) = Answer("ok", Whole(OrgSizes(v)))
    BY <1>3 DEF GetData
  <2>2. Sizes(v) = OrgSizes(v) /\ DimsOf(v) \cap DOMAIN dimSlices = {}
    BY <1>2, <1>3, MemoryIsBelow DEF ExtractorInv
  <2>3. Fits(v, Origin(Sizes(v)), Sizes(v))
    <3>1. /\ Origin(Sizes(v)) \in [I -> Nat] /\ Sizes(v) \in [I -> Nat \ {0}]
          /\ \A i \in I : Origin(Sizes(v))[i] = 0 /\ Sizes(v)[i] = length[Shape[v][i]]
      BY <1>2 DEF Origin, Sizes
    <3>2. \A i \in I : Origin(Sizes(v))[i] + Sizes(v)[i] <= length[Shape[v][i]]
      BY <1>2, <3>1
    <3> QED
      BY <1>1, <3>1, <3>2, RequestFits
  <2>4. Whole(OrgSizes(v)) = whole
    BY <1>1, <2>2, <2>3, AsBelow DEF Whole
  <2> QED
    BY <2>1, <2>4
<1>4. CASE v \notin mem /\ ~HasUnlimited(v)
  <2>1. GetData(v) = GetDataSliceAt(v, 0)
    BY <1>4 DEF GetData
  <2>2. GetDataSliceAt(v, 0) = Answer("ok", Restriction(v, AtStart(v, 0), AtSize(v)))
    BY <1>4, PositionRead
  <2>3. \A i \in I : Shape[v][i] # Unlimited
    BY <1>4 DEF HasUnlimited, DimsOf
  <2>4. AtStart(v, 0) = Origin(Sizes(v)) /\ AtSize(v) = Sizes(v)
    BY <2>3 DEF AtStart, AtSize, Origin, Sizes
  <2> QED
    BY <2>1, <2>2, <2>4
<1>5. CASE v \notin mem /\ HasUnlimited(v)
  <2> DEFINE u == length[Unlimited]
             parts == [i \in 1 .. u |-> GetDataSliceAt(v, i - 1)]
             part(i) == Restriction(v, AtStart(v, i - 1), AtSize(v))
  <2>1. u \in Nat
    BY <1>2, <1>5 DEF HasUnlimited, DimsOf
  <2>2. \A i \in 1 .. u : parts[i] = Answer("ok", part(i))
    <3> SUFFICES ASSUME NEW i \in 1 .. u PROVE GetDataSliceAt(v, i - 1) = Answer("ok", part(i))
      OBVIOUS
    <3>1. i - 1 \in Nat /\ i - 1 < u
      BY <2>1
    <3> QED
      BY <1>5, <3>1, PositionRead
  <2> HIDE DEF part
  <2>3. \A i \in 1 .. u : parts[i].status = "ok" /\ parts[i].data = part(i)
    <3> SUFFICES ASSUME NEW i \in 1 .. u PROVE parts[i].status = "ok" /\ parts[i].data = part(i)
      OBVIOUS
    <3> DEFINE p == parts[i]
               q == part(i)
    <3>1. p = Answer("ok", q)
      BY <2>2
    <3> HIDE DEF p, q
    <3>2. p.status = "ok" /\ p.data = q
      BY <3>1 DEF Answer
    <3> QED
      BY <3>2 DEF p, q
  <2>4. GetData(v) = Answer("ok", FlattenSeq([i \in DOMAIN parts |-> parts[i].data]))
    <3>1. DOMAIN parts = 1 .. u
      OBVIOUS
    <3>2. ~ \E i \in DOMAIN parts : parts[i].status # "ok"
      BY <2>3, <3>1
    <3> HIDE DEF part
    <3> QED
      BY <1>5, <3>2 DEF GetData
  <2>5. [i \in DOMAIN parts |-> parts[i].data] = [i \in 1 .. u |-> part(i)]
    BY <2>3
  <2>6. FlattenSeq([i \in 1 .. u |-> part(i)]) = whole
    BY <1>5, PositionsJoined DEF part
  <2> QED
    BY <2>4, <2>5, <2>6
<1> QED
  BY <1>3, <1>4, <1>5

(* ... and in the order of memory, when every dimension slower than one with gaps is     *)
(* itself reduced or read one position at a time; getData, which reads the unlimited     *)
(* dimension position by position, shows the same array as one request for the whole     *)
(* variable promises (joinSlices, CDMReader::getData).                                   *)
THEOREM ElementsAreReadInOrder == ASSUME NamedOnce PROVE Spec => []ReadsInOrder
<1>1. ASSUME ExtractorInv, PicksInside, NEW v \in vars, NEW r \in Requests(v), Nonempty(r), PiecesStayInOrder(v, r)
      PROVE  GetDataSlice(v, r[1], r[2]).data = Restriction(v, r[1], r[2])
  <2>1. v \in Vars
    BY <1>1 DEF ExtractorInv
  <2>2. Fits(v, r[1], r[2])
    BY <1>1, <2>1, RequestsFit
  <2>3. InStep(v, r[1], r[2])
    BY <1>1 DEF InStep, PiecesStayInOrder
  <2> DEFINE answer == GetDataSlice(v, r[1], r[2])
  <2>4. answer.data = Restriction(v, r[1], r[2]) \/ Answered(v, r[1], r[2], answer.data)
    BY <1>1, <2>2, SliceAnswers
  <2> HIDE DEF answer
  <2>5. answer.data = Restriction(v, r[1], r[2])
    BY <2>1, <2>2, <2>3, <2>4, AnswersMatch
  <2> QED
    BY <2>5 DEF answer
<1>2. ASSUME ExtractorInv, PicksInside, NEW v \in vars, Nonempty(<<Origin(Sizes(v)), Sizes(v)>>),
             PiecesStayInOrder(v, <<Origin(Sizes(v)), AtSize(v)>>)
      PROVE  GetData(v) = Answer("ok", Restriction(v, Origin(Sizes(v)), Sizes(v)))
  <2>1. Readable(v)
    BY <1>2 DEF Nonempty, Sizes, Readable
  <2> QED
    BY <1>2, <2>1, AllOfIt
<1>3. ExtractorInv => ReadsInOrder
  <2> SUFFICES ASSUME ExtractorInv PROVE ReadsInOrder
    OBVIOUS
  <2>1. ASSUME PicksInside, NEW v \in vars
        PROVE  /\ \A r \in Requests(v) :
                    Nonempty(r) /\ PiecesStayInOrder(v, r)
                      => GetDataSlice(v, r[1], r[2]).data = Restriction(v, r[1], r[2])
               /\ LET whole == <<Origin(Sizes(v)), AtSize(v)>>
                  IN  Nonempty(<<whole[1], Sizes(v)>>) /\ PiecesStayInOrder(v, whole)
                        => GetData(v) = Answer("ok", Restriction(v, whole[1], Sizes(v)))
    BY <1>1, <1>2, <2>1
  <2> QED
    BY <2>1 DEF ReadsInOrder
<1> QED
  BY <1>3, PicksAreInOrder, PTL
=============================================================================
