------------------------ MODULE NetCDF_CDMWriterProofs ------------------------
(***************************************************************************)
(* For every number of threads, variables and positions, and whichever     *)
(* calls fail: the threads of writeData exclude one another in the library,*)
(* and the call keeps the promise of DataWriting.                          *)
(***************************************************************************)
EXTENDS NetCDF_CDMWriter, WellFoundedInduction, TLAPS

(* Whoever uses the library, or leaves the block after an error, holds the  *)
(* lock.                                                                    *)
Holds(t) == pc[t] \in InLibrary \cup {"leaving"}
LockInv ==
  /\ pc \in [Threads -> Places]
  /\ \A t \in Threads : Holds(t) => lock = t

LEMMA LockStep ==
  ASSUME LockInv, [Next]_vars
  PROVE  LockInv'
<1> USE DEF LockInv, Holds, InLibrary, Places, Waits, Go, NextVariable
<1>1. ASSUME NEW t \in Threads, NextPosition(t) PROVE LockInv'
  BY <1>1 DEF NextPosition
<1>2. ASSUME NEW t \in Threads, NextInLoop(t) PROVE LockInv'
  BY <1>2 DEF NextInLoop
<1>3. ASSUME NEW t \in Threads, Lock(t) PROVE LockInv'
  BY <1>3, ThreadsAssumption DEF Lock, Entered
<1>4. ASSUME NEW t \in Threads, Inquire(t) PROVE LockInv'
  BY <1>4 DEF Inquire
<1>5. ASSUME NEW t \in Threads, Read(t) PROVE LockInv'
  BY <1>5 DEF Read, ReadThrows
<1>6. ASSUME NEW t \in Threads, Recheck(t) PROVE LockInv'
  BY <1>6 DEF Recheck
<1>7. ASSUME NEW t \in Threads, Put(t) PROVE LockInv'
  BY <1>7 DEF Put
<1>8. ASSUME NEW t \in Threads, Leave(t) \/ Sync(t) PROVE LockInv'
  BY <1>8 DEF Leave, Sync
<1>9. ASSUME NEW t \in Threads, Terminate(t) PROVE LockInv'
  BY <1>9 DEF Terminate, progress
<1>10. CASE Join
  BY <1>10 DEF Join, progress
<1>11. CASE UNCHANGED vars
  BY <1>11 DEF vars
<1> QED
  BY <1>1, <1>2, <1>3, <1>4, <1>5, <1>6, <1>7, <1>8, <1>9, <1>10, <1>11 DEF Next, Step

(* Reads, writes, inquiries and syncs never overlap, also after errors. *)
THEOREM WriterIsExclusive == Spec => []OneInLibrary
<1>1. Init => LockInv
  BY DEF Init, LockInv, Holds, InLibrary, Places
<1>2. LockInv => OneInLibrary
  BY DEF LockInv, OneInLibrary, Holds
<1> QED
  BY <1>1, <1>2, LockStep, PTL DEF Spec

-----------------------------------------------------------------------------
(* The promise.  Each cell belongs to the thread that is given its position *)
(* and is passed by it once: behind where that thread is, everything is     *)
(* written or given up unless something could not be read; ahead of it,     *)
(* nothing is.  In between the thread holds what belongs in its cell.       *)

Owner(c) == schedule[c[2]]
Passed(c) ==
  \/ c[2] < unLimDimPos[Owner(c)]
  \/ c[2] = unLimDimPos[Owner(c)] /\ c[1] < vi[Owner(c)]
Handled == DOMAIN file \cup givenUp
MustBeWritten(c) == Wanted(c) \in {"data", "fill"}

BetweenPositions == {"loop", "sync", "syncing", "done"}
WithCell == {"read", "reading", "recheck", "put", "putting", "relock", "leaving"}
GivingUp == {"relock", "leaving"}

Typed ==
  /\ shapes \in Seq({"none", "first", "second", "both"})
  /\ classic \in BOOLEAN
  /\ source \in [Cells -> {"data", "empty", "throws"}]
  /\ schedule \in [Positions -> Threads]
  /\ exceptions \subseteq Threads
  /\ pc \in [Threads -> Places]
  /\ unLimDimPos \in [Threads -> Int]
  /\ vi \in [Threads -> Nat]
  /\ data \in [Threads -> {"none", "data", "empty", "fill"}]

\* Where a thread is.
AtItsPlace(t) ==
  /\ unLimDimPos[t] >= -2 /\ vi[t] >= 1
  /\ IF pc[t] \in BetweenPositions
     THEN unLimDimPos[t] = -2 \/ vi[t] > Len(shapes)
     ELSE unLimDimPos[t] \in Positions /\ schedule[unLimDimPos[t]] = t
  /\ pc[t] \notin BetweenPositions \cup {"variable"} => vi[t] <= Len(shapes)
  /\ pc[t] = "done" => \A p \in Positions : schedule[p] = t => p <= unLimDimPos[t]

\* What it holds for its cell.
HoldsItsData(t) ==
  /\ pc[t] \in WithCell => CellOf(t) \in Cells
  /\ pc[t] = "recheck" => data[t] = source[CellOf(t)] /\ data[t] # "throws"
  /\ pc[t] \in {"put", "putting"} => data[t] = Wanted(CellOf(t)) /\ MustBeWritten(CellOf(t))
  /\ pc[t] \in GivingUp => CellOf(t) \in givenUp /\ MustBeWritten(CellOf(t))

NothingAhead ==
  \A c \in Handled :
    c \in Cells /\ (Passed(c) \/ (c = CellOf(Owner(c)) /\ pc[Owner(c)] \in GivingUp))
NothingMissing ==
  exceptions = {} =>
    \A c \in Cells : Passed(c) => Wanted(c) # "error" /\ (MustBeWritten(c) => c \in Handled)
ErrorsAreReal == exceptions # {} => \E c \in Cells : Wanted(c) = "error"

PromiseInv ==
  /\ Typed
  /\ \A t \in Threads : AtItsPlace(t) /\ HoldsItsData(t)
  /\ NothingAhead /\ NothingMissing /\ ErrorsAreReal

-----------------------------------------------------------------------------
LEMMA LeastNatural ==
  ASSUME NEW S, S \subseteq Nat, S # {}
  PROVE  \E m \in S : \A n \in S : m <= n
<1>1. IsWellFoundedOn(OpToRel(<, Nat), Nat)
  BY NatLessThanWellFounded
<1>2. PICK m \in S : \A n \in S : ~ (<<n, m>> \in OpToRel(<, Nat))
  BY <1>1, WFMin
<1>3. \A n \in S : ~ (n < m)
  BY <1>2 DEF OpToRel
<1> QED
  BY <1>3

\* Min of a set of integers that is bounded from below.
LEMMA MinIsLeast ==
  ASSUME NEW S, NEW lo \in Int, S \subseteq {i \in Int : lo <= i}, S # {}
  PROVE  Min(S) \in S /\ \A n \in S : Min(S) <= n
<1> DEFINE T == {n - lo : n \in S}
<1>1. T \subseteq Nat /\ T # {}
  OBVIOUS
<1>2. PICK k \in T : \A n \in T : k <= n
  BY <1>1, LeastNatural
<1>3. PICK m \in S : k = m - lo
  OBVIOUS
<1>4. \A n \in S : m <= n
  <2> SUFFICES ASSUME NEW n \in S PROVE m <= n
    OBVIOUS
  <2>1. k <= n - lo
    BY <1>2
  <2>2. n \in Int /\ m \in Int
    OBVIOUS
  <2> QED
    BY <1>3, <2>1, <2>2
<1> QED
  BY <1>4 DEF Min

LEMMA CellsHaveOwners ==
  ASSUME Typed, NEW c \in Cells
  PROVE  /\ c = <<c[1], c[2]>>
         /\ c[1] \in 1 .. Len(shapes) /\ c[2] \in Positions
         /\ c[2] \in Int /\ c[2] >= -1
         /\ Owner(c) \in Threads
         /\ Wanted(c) \in {"data", "fill", "nothing", "error"}
         /\ source[c] \in {"data", "empty", "throws"}
<1>1. c = <<c[1], c[2]>> /\ c[1] \in DOMAIN shapes /\ c[2] \in Positions
  BY DEF Cells
<1>2. source[c] \in {"data", "empty", "throws"}
  BY DEF Typed
<1> QED
  BY <1>1, <1>2, UnlimitedAssumption DEF Typed, Owner, Wanted, Positions

\* What is to be written does not change while it is written.
LEMMA GivenStays ==
  ASSUME UNCHANGED given
  PROVE  /\ Cells' = Cells
         /\ \A c : Wanted(c)' = Wanted(c) /\ Owner(c)' = Owner(c) /\ MustBeWritten(c)' = MustBeWritten(c)
<1>1. shapes' = shapes /\ classic' = classic /\ source' = source /\ schedule' = schedule
  BY DEF given
<1> QED
  BY <1>1 DEF Cells, NoUnlim, WithUnlim, HasUnlimitedDim, Wanted, Owner, MustBeWritten

LEMMA NextKeepsGiven == [Next]_vars => UNCHANGED given
  BY DEF Next, Step, NextPosition, NextInLoop, Lock, Inquire, Read, Recheck, Put, Leave, Sync,
         Terminate, Join, vars, given

\* Going on to the next variable passes the thread's cell and no other.
LEMMA NextVariablePasses ==
  ASSUME Typed, NEW t \in Threads, schedule[unLimDimPos[t]] = t,
         UNCHANGED <<given, unLimDimPos>>, vi' = [vi EXCEPT ![t] = @ + 1],
         NEW c \in Cells
  PROVE  Passed(c)' <=> Passed(c) \/ c = CellOf(t)
<1>1. Owner(c)' = Owner(c) /\ Owner(c) \in Threads /\ c = <<c[1], c[2]>> /\ c[1] \in Nat
  BY CellsHaveOwners, GivenStays
<1>2. CASE Owner(c) # t
  BY <1>1, <1>2 DEF Passed, Typed, CellOf, Owner
<1>3. CASE Owner(c) = t
  BY <1>1, <1>3 DEF Passed, Typed, CellOf
<1> QED
  BY <1>2, <1>3

\* A thread keeps its place and its data while another moves.
LEMMA OthersStay ==
  ASSUME NEW u \in Threads, AtItsPlace(u), HoldsItsData(u), UNCHANGED given, givenUp \subseteq givenUp',
         pc'[u] = pc[u], unLimDimPos'[u] = unLimDimPos[u], vi'[u] = vi[u], data'[u] = data[u]
  PROVE  AtItsPlace(u)' /\ HoldsItsData(u)'
<1>1. shapes' = shapes /\ schedule' = schedule /\ source' = source
  BY DEF given
<1>2. CellOf(u)' = CellOf(u)
  BY DEF CellOf
<1>3. Cells' = Cells /\ Wanted(CellOf(u))' = Wanted(CellOf(u))
      /\ MustBeWritten(CellOf(u))' = MustBeWritten(CellOf(u))
  BY <1>2, GivenStays DEF Wanted, MustBeWritten
<1>4. AtItsPlace(u)'
  BY <1>1 DEF AtItsPlace, Positions
<1>5. HoldsItsData(u)'
  BY <1>1, <1>2, <1>3 DEF HoldsItsData
<1> QED
  BY <1>4, <1>5

\* A step within a cell, or around the lock, leaves what is handled alone.
LEMMA StepInside ==
  ASSUME PromiseInv, NEW t \in Threads, NEW at, Go(t, at),
         UNCHANGED <<given, unLimDimPos, vi, exceptions, file, givenUp>>,
         pc[t] \in GivingUp => at \in GivingUp
  PROVE  NothingAhead' /\ NothingMissing' /\ ErrorsAreReal'
<1>1. Cells' = Cells /\ Handled' = Handled /\ exceptions' = exceptions
      /\ \A c : /\ Wanted(c)' = Wanted(c) /\ Owner(c)' = Owner(c)
                /\ MustBeWritten(c)' = MustBeWritten(c)
  BY GivenStays DEF Handled
<1>2. \A c : Passed(c)' = Passed(c)
  BY <1>1 DEF Passed
<1>3. \A u : CellOf(u)' = CellOf(u)
  BY DEF CellOf
<1>4. \A u \in Threads : pc[u] \in GivingUp => pc'[u] \in GivingUp
  BY DEF Go, PromiseInv, Typed
<1>5. NothingAhead'
  <2> SUFFICES ASSUME NEW c \in Handled
               PROVE  c \in Cells /\ (Passed(c) \/ (c = CellOf(Owner(c)) /\ pc'[Owner(c)] \in GivingUp))
    BY <1>1, <1>2, <1>3 DEF NothingAhead
  <2>1. c \in Cells /\ (Passed(c) \/ (c = CellOf(Owner(c)) /\ pc[Owner(c)] \in GivingUp))
    BY DEF PromiseInv, NothingAhead
  <2>2. Owner(c) \in Threads
    BY <2>1, CellsHaveOwners DEF PromiseInv
  <2> QED
    BY <2>1, <2>2, <1>4
<1>6. NothingMissing'
  BY <1>1, <1>2 DEF PromiseInv, NothingMissing
<1>7. ErrorsAreReal'
  BY <1>1 DEF PromiseInv, ErrorsAreReal
<1> QED
  BY <1>5, <1>6, <1>7

\* Going on to the next variable is right once the cell is done with.
LEMMA StepOn ==
  ASSUME PromiseInv, NEW t \in Threads, NextVariable(t), pc[t] \notin BetweenPositions,
         UNCHANGED <<given, unLimDimPos>>,
         Handled \subseteq Handled', Handled' \subseteq Handled \cup (Cells \cap {CellOf(t)}),
         exceptions \subseteq exceptions',
         exceptions' # {} => exceptions # {} \/ \E c \in Cells : Wanted(c) = "error",
         exceptions' = {} /\ CellOf(t) \in Cells =>
           Wanted(CellOf(t)) # "error" /\ (MustBeWritten(CellOf(t)) => CellOf(t) \in Handled')
  PROVE  NothingAhead' /\ NothingMissing' /\ ErrorsAreReal'
<1>1. Cells' = Cells
      /\ \A c : /\ Wanted(c)' = Wanted(c) /\ Owner(c)' = Owner(c)
                /\ MustBeWritten(c)' = MustBeWritten(c)
  BY GivenStays
<1>2. schedule[unLimDimPos[t]] = t
  BY DEF PromiseInv, AtItsPlace
<1>3. \A c \in Cells : Passed(c)' <=> Passed(c) \/ c = CellOf(t)
  BY <1>2, NextVariablePasses DEF PromiseInv, NextVariable
<1>4. NothingAhead'
  <2> SUFFICES ASSUME NEW c \in Handled'
               PROVE  c \in Cells /\ (Passed(c)' \/ (c = CellOf(Owner(c))' /\ pc'[Owner(c)] \in GivingUp))
    BY <1>1 DEF NothingAhead
  <2>1. CASE c = CellOf(t)
    <3>1. c \in Cells
      BY <2>1 DEF PromiseInv, NothingAhead
    <3> QED
      BY <2>1, <3>1, <1>3
  <2>2. CASE c # CellOf(t)
    <3>1. c \in Cells /\ (Passed(c) \/ (c = CellOf(Owner(c)) /\ pc[Owner(c)] \in GivingUp))
      BY <2>2 DEF PromiseInv, NothingAhead
    <3>2. CASE Passed(c)
      BY <3>1, <3>2, <1>3
    <3>3. CASE c = CellOf(Owner(c)) /\ pc[Owner(c)] \in GivingUp
      <4>1. Owner(c) # t /\ Owner(c) \in Threads
        BY <2>2, <3>1, <3>3, CellsHaveOwners DEF PromiseInv
      <4> QED
        BY <1>1, <3>1, <3>3, <4>1 DEF NextVariable, Go, CellOf, PromiseInv, Typed
    <3> QED
      BY <3>1, <3>2, <3>3
  <2> QED
    BY <2>1, <2>2
<1>5. NothingMissing'
  <2> SUFFICES ASSUME exceptions' = {}, NEW c \in Cells, Passed(c)'
               PROVE  Wanted(c) # "error" /\ (MustBeWritten(c) => c \in Handled')
    BY <1>1 DEF NothingMissing
  <2>1. CASE c = CellOf(t)
    BY <2>1
  <2>2. CASE c # CellOf(t)
    BY <2>2, <1>3 DEF PromiseInv, NothingMissing
  <2> QED
    BY <2>1, <2>2
<1>6. ErrorsAreReal'
  BY <1>1 DEF PromiseInv, ErrorsAreReal
<1> QED
  BY <1>4, <1>5, <1>6

\* The positions of a thread come one after the other.
LEMMA NextPositionKeeps ==
  ASSUME PromiseInv, NEW t \in Threads, NextPosition(t)
  PROVE  PromiseInv'
<1> DEFINE left == {p \in Positions : schedule[p] = t /\ p > unLimDimPos[t]}
<1>1. PromiseInv /\ Typed /\ AtItsPlace(t) /\ HoldsItsData(t)
  BY DEF PromiseInv
<1>2. CASE left = {}
  <2>1. Go(t, "done") /\ UNCHANGED <<given, lock, exceptions, unLimDimPos, vi, data, file, givenUp>>
    BY <1>2 DEF NextPosition, target
  <2>2. NothingAhead' /\ NothingMissing' /\ ErrorsAreReal'
    BY <2>1, StepInside DEF NextPosition, GivingUp
  <2>3. Typed'
    BY <1>1, <2>1, GivenStays DEF Typed, Go, Places, given, Positions
  <2>4. AtItsPlace(t)' /\ HoldsItsData(t)'
    <3>1. pc[t] = "loop" /\ pc'[t] = "done"
      BY <1>1, <2>1 DEF NextPosition, Go, Typed
    <3>2. \A p \in Positions : schedule[p] = t => p <= unLimDimPos[t]
      <4> SUFFICES ASSUME NEW p \in Positions, schedule[p] = t PROVE p <= unLimDimPos[t]
        OBVIOUS
      <4>1. p \in Int /\ unLimDimPos[t] \in Int
        BY <1>1, UnlimitedAssumption DEF Positions, Typed
      <4>2. ~ (p > unLimDimPos[t])
        BY <1>2
      <4> QED
        BY <4>1, <4>2
    <3>3. AtItsPlace(t)'
      BY <1>1, <2>1, <3>1, <3>2 DEF AtItsPlace, given, Positions, BetweenPositions
    <3>4. HoldsItsData(t)'
      BY <3>1 DEF HoldsItsData, WithCell, GivingUp
    <3> QED
      BY <3>3, <3>4
  <2>5. \A u \in Threads \ {t} : AtItsPlace(u)' /\ HoldsItsData(u)'
    BY <1>1, <2>1, OthersStay DEF PromiseInv, Go, Typed
  <2> QED
    BY <2>2, <2>3, <2>4, <2>5 DEF PromiseInv
<1>3. CASE left # {}
  <2>1. /\ unLimDimPos' = [unLimDimPos EXCEPT ![t] = Min(left)] /\ vi' = [vi EXCEPT ![t] = 1]
        /\ Go(t, "variable") /\ UNCHANGED <<given, lock, exceptions, data, file, givenUp>>
        /\ pc[t] = "loop"
    BY <1>3 DEF NextPosition, target
  <2>2. Min(left) \in left /\ \A p \in left : Min(left) <= p
    <3>1. left \subseteq {i \in Int : -1 <= i}
      BY UnlimitedAssumption DEF Positions
    <3> QED
      BY <1>3, <3>1, MinIsLeast
  <2>3. Typed'
    BY <1>1, <2>1, <2>2, GivenStays DEF Typed, Go, Places, given, Positions
  <2>4. AtItsPlace(t)' /\ HoldsItsData(t)'
    BY <1>1, <2>1, <2>2, UnlimitedAssumption DEF AtItsPlace, HoldsItsData, Typed, Go, given, Positions,
       BetweenPositions, WithCell, GivingUp
  <2>5. \A u \in Threads \ {t} : AtItsPlace(u)' /\ HoldsItsData(u)'
    BY <1>1, <2>1, OthersStay DEF PromiseInv, Go, Typed
  <2>6. Cells' = Cells /\ Handled' = Handled /\ exceptions' = exceptions
        /\ \A c : /\ Wanted(c)' = Wanted(c) /\ Owner(c)' = Owner(c)
                  /\ MustBeWritten(c)' = MustBeWritten(c)
    BY <2>1, GivenStays DEF Handled
  <2>7. \A c \in Cells : Passed(c)' <=> Passed(c)
    <3> SUFFICES ASSUME NEW c \in Cells PROVE Passed(c)' <=> Passed(c)
      OBVIOUS
    <3>1. c[1] \in 1 .. Len(shapes) /\ c[2] \in Positions /\ c[2] \in Int /\ c[2] >= -1 /\ Owner(c) \in Threads
      BY <1>1, CellsHaveOwners
    <3>2. CASE Owner(c) # t
      BY <2>1, <2>6, <3>1, <3>2 DEF Passed, Typed
    <3>3. CASE Owner(c) = t
      <4>1. c[2] \in left <=> c[2] > unLimDimPos[t]
        BY <3>1, <3>3 DEF Owner
      <4>2. unLimDimPos[t] \in Int /\ vi[t] \in Nat /\ Len(shapes) \in Nat /\ Min(left) \in Int
        BY <1>1, <2>2, UnlimitedAssumption DEF Typed, Positions
      <4>3. unLimDimPos[t] = -2 \/ vi[t] > Len(shapes)
        BY <1>1, <2>1 DEF AtItsPlace, BetweenPositions
      <4>4. Passed(c) <=> c[2] <= unLimDimPos[t]
        BY <3>1, <3>3, <4>2, <4>3 DEF Passed
      <4>5. unLimDimPos'[t] = Min(left) /\ vi'[t] = 1
        BY <1>1, <2>1 DEF Typed
      <4>6. Passed(c)' <=> c[2] < Min(left)
        BY <2>6, <3>1, <3>3, <4>2, <4>5 DEF Passed
      <4>7. Min(left) > unLimDimPos[t] /\ (c[2] \in left => Min(left) <= c[2])
        BY <2>2
      <4> HIDE DEF left
      <4> QED
        BY <3>1, <4>1, <4>2, <4>4, <4>6, <4>7
    <3> QED
      BY <3>2, <3>3
  <2>8. NothingAhead'
    <3> SUFFICES ASSUME NEW c \in Handled
                 PROVE  c \in Cells /\ (Passed(c)' \/ (c = CellOf(Owner(c))' /\ pc'[Owner(c)] \in GivingUp))
      BY <2>6 DEF NothingAhead
    <3>1. c \in Cells /\ (Passed(c) \/ (c = CellOf(Owner(c)) /\ pc[Owner(c)] \in GivingUp))
      BY <1>1 DEF PromiseInv, NothingAhead
    <3>2. CASE Passed(c)
      BY <3>1, <3>2, <2>7
    <3>3. CASE c = CellOf(Owner(c)) /\ pc[Owner(c)] \in GivingUp
      <4>1. Owner(c) # t /\ Owner(c) \in Threads
        BY <1>1, <2>1, <3>1, <3>3, CellsHaveOwners DEF GivingUp
      <4> QED
        BY <1>1, <2>1, <2>6, <3>1, <3>3, <4>1 DEF Go, CellOf, Typed
    <3> QED
      BY <3>1, <3>2, <3>3
  <2>9. NothingMissing' /\ ErrorsAreReal'
    BY <1>1, <2>6, <2>7 DEF PromiseInv, NothingMissing, ErrorsAreReal
  <2> QED
    BY <2>3, <2>4, <2>5, <2>8, <2>9 DEF PromiseInv
<1> QED
  BY <1>2, <1>3

\* It is enough to look at the thread that moves.
LEMMA OneThreadMoves ==
  ASSUME PromiseInv, NEW t \in Threads, UNCHANGED given, givenUp \subseteq givenUp',
         \A u \in Threads \ {t} : /\ pc'[u] = pc[u] /\ unLimDimPos'[u] = unLimDimPos[u]
                                  /\ vi'[u] = vi[u] /\ data'[u] = data[u],
         Typed', AtItsPlace(t)', HoldsItsData(t)', NothingAhead' /\ NothingMissing' /\ ErrorsAreReal'
  PROVE  PromiseInv'
<1>1. \A u \in Threads \ {t} : AtItsPlace(u)' /\ HoldsItsData(u)'
  BY OthersStay DEF PromiseInv
<1> QED
  BY <1>1 DEF PromiseInv

\* Going on to the next variable: only the cell has to be looked at.
LEMMA NextVariableKeeps ==
  ASSUME PromiseInv, NEW t \in Threads, NextVariable(t), pc[t] \notin BetweenPositions \cup {"variable"},
         UNCHANGED <<given, unLimDimPos>>, exceptions' \subseteq Threads,
         \A u \in Threads \ {t} : data'[u] = data[u],
         data' \in [Threads -> {"none", "data", "empty", "fill"}],
         givenUp \subseteq givenUp', NothingAhead' /\ NothingMissing' /\ ErrorsAreReal'
  PROVE  PromiseInv'
<1>1. Typed /\ AtItsPlace(t) /\ Positions' = Positions
  BY DEF PromiseInv, Positions
<1>2. Typed'
  BY <1>1, GivenStays DEF Typed, NextVariable, Go, Places, given
<1>3. pc'[t] = "variable" /\ vi'[t] = vi[t] + 1 /\ vi[t] \in Nat
  BY <1>1 DEF NextVariable, Go, Typed
<1>4. AtItsPlace(t)'
  BY <1>1, <1>3 DEF AtItsPlace, given, BetweenPositions
<1>5. HoldsItsData(t)'
  BY <1>3 DEF HoldsItsData, WithCell, GivingUp
<1>6. \A u \in Threads \ {t} : pc'[u] = pc[u] /\ unLimDimPos'[u] = unLimDimPos[u] /\ vi'[u] = vi[u]
  BY <1>1 DEF NextVariable, Go, Typed
<1> QED
  BY <1>2, <1>4, <1>5, <1>6, OneThreadMoves

LEMMA NextInLoopKeeps ==
  ASSUME PromiseInv, NEW t \in Threads, NextInLoop(t)
  PROVE  PromiseInv'
<1>1. /\ pc[t] = "variable" /\ UNCHANGED <<given, lock, exceptions, unLimDimPos, data, file, givenUp>>
      /\ Typed /\ AtItsPlace(t)
  BY DEF NextInLoop, target, PromiseInv
<1>2. CASE vi[t] > Len(shapes)
  <2> DEFINE at == IF unLimDimPos[t] >= 0 THEN "sync" ELSE "loop"
  <2>1. Go(t, at) /\ UNCHANGED vi
    BY <1>2 DEF NextInLoop
  <2>2. NothingAhead' /\ NothingMissing' /\ ErrorsAreReal'
    BY <1>1, <2>1, StepInside DEF GivingUp
  <2>3. pc'[t] \in {"sync", "loop"} /\ vi'[t] > Len(shapes) /\ unLimDimPos'[t] = unLimDimPos[t]
    BY <1>1, <1>2, <2>1 DEF Go, Typed
  <2>4. Typed'
    BY <1>1, <2>1, GivenStays DEF Typed, Go, Places, Waits, given, Positions
  <2>5. AtItsPlace(t)'
    BY <1>1, <2>1, <2>3 DEF AtItsPlace, given, Positions, BetweenPositions
  <2>6. HoldsItsData(t)'
    BY <2>3 DEF HoldsItsData, WithCell, GivingUp
  <2>7. \A u \in Threads \ {t} : pc'[u] = pc[u]
    BY <1>1, <2>1 DEF Go, Typed
  <2> QED
    BY <1>1, <2>1, <2>2, <2>4, <2>5, <2>6, <2>7, OneThreadMoves
<1>3. CASE ~ (vi[t] > Len(shapes)) /\ Go(t, "inquire") /\ UNCHANGED vi
  <2>2. NothingAhead' /\ NothingMissing' /\ ErrorsAreReal'
    BY <1>1, <1>3, StepInside DEF GivingUp
  <2>3. pc'[t] = "inquire"
    BY <1>1, <1>3 DEF Go, Typed
  <2>4. Typed'
    BY <1>1, <1>3, GivenStays DEF Typed, Go, Places, Waits, given, Positions
  <2>5. AtItsPlace(t)'
    BY <1>1, <1>3, <2>3 DEF AtItsPlace, given, Positions, BetweenPositions, Typed
  <2>6. HoldsItsData(t)'
    BY <2>3 DEF HoldsItsData, WithCell, GivingUp
  <2>7. \A u \in Threads \ {t} : pc'[u] = pc[u]
    BY <1>1, <1>3 DEF Go, Typed
  <2> QED
    BY <1>1, <1>3, <2>2, <2>4, <2>5, <2>6, <2>7, OneThreadMoves
<1>4. CASE ~ (vi[t] > Len(shapes)) /\ exceptions # {} /\ NextVariable(t)
  <2>1. NothingAhead' /\ NothingMissing' /\ ErrorsAreReal'
    BY <1>1, <1>4, StepOn DEF Handled, BetweenPositions
  <2>2. Typed'
    BY <1>1, <1>4, GivenStays DEF Typed, NextVariable, Go, Places, given, Positions
  <2>3. pc'[t] = "variable" /\ vi'[t] = vi[t] + 1 /\ vi[t] \in Nat
    BY <1>1, <1>4 DEF NextVariable, Go, Typed
  <2>4. AtItsPlace(t)'
    BY <1>1, <2>3 DEF AtItsPlace, given, Positions, BetweenPositions
  <2>5. HoldsItsData(t)'
    BY <2>3 DEF HoldsItsData, WithCell, GivingUp
  <2>6. \A u \in Threads \ {t} : pc'[u] = pc[u] /\ vi'[u] = vi[u]
    BY <1>1, <1>4 DEF NextVariable, Go, Typed
  <2> QED
    BY <1>1, <2>1, <2>2, <2>4, <2>5, <2>6, OneThreadMoves
<1> QED
  BY <1>2, <1>3, <1>4 DEF NextInLoop, Sees

LEMMA LockKeeps ==
  ASSUME PromiseInv, NEW t \in Threads, Lock(t)
  PROVE  PromiseInv'
<1>1. /\ pc[t] \in Waits /\ Go(t, Entered(pc[t]))
      /\ UNCHANGED <<given, exceptions, unLimDimPos, vi, data, file, givenUp>>
      /\ Typed /\ AtItsPlace(t) /\ HoldsItsData(t)
  BY DEF Lock, target, PromiseInv
<1>2. NothingAhead' /\ NothingMissing' /\ ErrorsAreReal'
  BY <1>1, StepInside DEF GivingUp, Entered
<1>3. pc'[t] = Entered(pc[t])
  BY <1>1 DEF Go, Typed
<1>4. Typed'
  BY <1>1, GivenStays DEF Typed, Go, Places, Waits, InLibrary, Entered, given, Positions
<1>5. AtItsPlace(t)'
  BY <1>1, <1>3 DEF AtItsPlace, given, Positions, BetweenPositions, Waits, Entered
<1>6. HoldsItsData(t)'
  <2>1. CellOf(t)' = CellOf(t) /\ Cells' = Cells /\ Wanted(CellOf(t))' = Wanted(CellOf(t))
        /\ MustBeWritten(CellOf(t))' = MustBeWritten(CellOf(t))
    BY <1>1, GivenStays DEF CellOf, Wanted, MustBeWritten, given
  <2> QED
    BY <1>1, <1>3, <2>1 DEF HoldsItsData, WithCell, GivingUp, Waits, Entered
<1>7. \A u \in Threads \ {t} : pc'[u] = pc[u]
  BY <1>1 DEF Go, Typed
<1> QED
  BY <1>1, <1>2, <1>4, <1>5, <1>6, <1>7, OneThreadMoves

LEMMA InquireKeeps ==
  ASSUME PromiseInv, NEW t \in Threads, Inquire(t)
  PROVE  PromiseInv'
<1>1. /\ pc[t] = "inquiring" /\ UNCHANGED <<given, exceptions, unLimDimPos, data, file, givenUp>>
      /\ Typed /\ AtItsPlace(t)
  BY DEF Inquire, target, PromiseInv
<1>2. /\ vi[t] \in DOMAIN shapes /\ unLimDimPos[t] \in Positions
  BY <1>1 DEF AtItsPlace, BetweenPositions, Typed
<1>3. CellOf(t) \in Cells <=> NoUnlim(vi[t], unLimDimPos[t]) \/ WithUnlim(vi[t], unLimDimPos[t])
  BY <1>2 DEF CellOf, Cells
<1>4. CASE CellOf(t) \in Cells
  <2>1. Go(t, "read") /\ UNCHANGED vi
    BY <1>3, <1>4 DEF Inquire
  <2>2. NothingAhead' /\ NothingMissing' /\ ErrorsAreReal'
    BY <1>1, <2>1, StepInside DEF GivingUp
  <2>3. pc'[t] = "read"
    BY <1>1, <2>1 DEF Go, Typed
  <2>4. Typed'
    BY <1>1, <2>1, GivenStays DEF Typed, Go, Places, Waits, given, Positions
  <2>5. AtItsPlace(t)'
    BY <1>1, <2>1, <2>3 DEF AtItsPlace, given, Positions, BetweenPositions
  <2>6. CellOf(t)' = CellOf(t) /\ Cells' = Cells
    BY <1>1, <2>1, GivenStays DEF CellOf
  <2>7. HoldsItsData(t)'
    BY <1>4, <2>3, <2>6 DEF HoldsItsData, WithCell, GivingUp
  <2>8. \A u \in Threads \ {t} : pc'[u] = pc[u]
    BY <1>1, <2>1 DEF Go, Typed
  <2> QED
    BY <1>1, <2>1, <2>2, <2>4, <2>5, <2>7, <2>8, OneThreadMoves
<1>5. CASE CellOf(t) \notin Cells
  <2>1. NextVariable(t)
    BY <1>3, <1>5 DEF Inquire
  <2>2. NothingAhead' /\ NothingMissing' /\ ErrorsAreReal'
    BY <1>1, <1>5, <2>1, StepOn DEF Handled, BetweenPositions
  <2> QED
    BY <1>1, <2>1, <2>2, NextVariableKeeps DEF BetweenPositions, Typed
<1> QED
  BY <1>4, <1>5

\* What cannot be read is an error of the cell, which sets the flag.
LEMMA ReadKeeps ==
  ASSUME PromiseInv, NEW t \in Threads, Read(t)
  PROVE  PromiseInv'
<1>1. /\ pc[t] = "reading" /\ UNCHANGED <<given, unLimDimPos, file, givenUp>>
      /\ Typed /\ AtItsPlace(t) /\ HoldsItsData(t)
  BY DEF Read, target, PromiseInv
<1> DEFINE c == CellOf(t)
<1>2. c \in Cells /\ source[c] \in {"data", "empty", "throws"}
  BY <1>1, CellsHaveOwners DEF HoldsItsData, WithCell
<1>3. CASE source[c] = "throws"
  <2>1. NextVariable(t) /\ exceptions' = exceptions \cup {t} /\ HoldsData(t, "none")
    BY <1>3 DEF Read, ReadThrows, CellOf
  <2>2. Wanted(c) = "error"
    BY <1>3, Zenon DEF Wanted
  <2>3. NothingAhead' /\ NothingMissing' /\ ErrorsAreReal'
    BY <1>1, <1>2, <2>1, <2>2, StepOn DEF Handled, BetweenPositions
  <2> QED
    BY <1>1, <2>1, <2>3, NextVariableKeeps DEF BetweenPositions, HoldsData, Typed
<1>4. CASE source[c] # "throws"
  <2>1. HoldsData(t, source[c]) /\ Go(t, "recheck") /\ UNCHANGED <<vi, exceptions>>
    BY <1>4 DEF Read, CellOf
  <2>2. NothingAhead' /\ NothingMissing' /\ ErrorsAreReal'
    BY <1>1, <2>1, StepInside DEF GivingUp
  <2>3. pc'[t] = "recheck" /\ data'[t] = source[c]
    BY <1>1, <2>1 DEF Go, HoldsData, Typed
  <2>4. Typed'
    BY <1>1, <1>2, <1>4, <2>1, GivenStays DEF Typed, Go, HoldsData, Places, given, Positions
  <2>5. AtItsPlace(t)'
    BY <1>1, <2>1, <2>3 DEF AtItsPlace, given, Positions, BetweenPositions
  <2>6. CellOf(t)' = c /\ Cells' = Cells /\ source' = source
    BY <1>1, <2>1, GivenStays DEF CellOf, given
  <2>7. HoldsItsData(t)'
    BY <1>2, <1>4, <2>3, <2>6 DEF HoldsItsData, WithCell, GivingUp
  <2>8. \A u \in Threads \ {t} : pc'[u] = pc[u] /\ data'[u] = data[u]
    BY <1>1, <2>1 DEF Go, HoldsData, Typed
  <2> QED
    BY <1>1, <2>1, <2>2, <2>4, <2>5, <2>7, <2>8, OneThreadMoves
<1> QED
  BY <1>3, <1>4

\* What is to be put is what belongs in the cell; nothing is put only where nothing belongs.
LEMMA FilledIsWanted ==
  ASSUME NEW c \in Cells, source[c] \in {"data", "empty"}
  PROVE  /\ Wanted(c) # "error"
         /\ FillEmpty(source[c]) = "empty" => Wanted(c) = "nothing"
         /\ FillEmpty(source[c]) # "empty" => Wanted(c) = FillEmpty(source[c]) /\ MustBeWritten(c)
<1>1. CASE source[c] = "data"
  <2>1. Wanted(c) = "data"
    BY <1>1, Zenon DEF Wanted
  <2> QED
    BY <1>1, <2>1 DEF FillEmpty, MustBeWritten
<1>2. CASE source[c] = "empty"
  <2>1. Wanted(c) = IF classic THEN "fill" ELSE "nothing"
    BY <1>2, Zenon DEF Wanted
  <2> QED
    BY <1>2, <2>1 DEF FillEmpty, MustBeWritten
<1> QED
  BY <1>1, <1>2

LEMMA RecheckKeeps ==
  ASSUME PromiseInv, NEW t \in Threads, Recheck(t)
  PROVE  PromiseInv'
<1>1. /\ pc[t] = "recheck" /\ UNCHANGED <<given, exceptions, unLimDimPos, file, givenUp>>
      /\ Typed /\ AtItsPlace(t) /\ HoldsItsData(t)
  BY DEF Recheck, target, PromiseInv
<1> DEFINE c == CellOf(t)
           d == FillEmpty(data[t])
<1>2. c \in Cells /\ data[t] = source[c] /\ source[c] \in {"data", "empty"}
  BY <1>1, CellsHaveOwners DEF HoldsItsData, WithCell
<1>3. d \in {"data", "empty", "fill"}
  BY <1>2 DEF FillEmpty
<1>4. CASE exceptions # {} /\ NextVariable(t) /\ UNCHANGED data
  <2>1. NothingAhead' /\ NothingMissing' /\ ErrorsAreReal'
    BY <1>1, <1>4, StepOn DEF Handled, BetweenPositions
  <2> QED
    BY <1>1, <1>4, <2>1, NextVariableKeeps DEF BetweenPositions, Typed
<1>5. CASE HoldsData(t, d) /\ d = "empty" /\ NextVariable(t)
  <2>1. Wanted(c) # "error" /\ ~ MustBeWritten(c)
    BY <1>2, <1>5, FilledIsWanted DEF MustBeWritten
  <2>2. NothingAhead' /\ NothingMissing' /\ ErrorsAreReal'
    BY <1>1, <1>5, <2>1, StepOn DEF Handled, BetweenPositions
  <2>3. data' \in [Threads -> {"none", "data", "empty", "fill"}] /\ \A u \in Threads \ {t} : data'[u] = data[u]
    BY <1>1, <1>5 DEF HoldsData, Typed
  <2> QED
    BY <1>1, <1>5, <2>2, <2>3, NextVariableKeeps DEF BetweenPositions, Typed
<1>6. CASE HoldsData(t, d) /\ d # "empty" /\ Go(t, "put") /\ UNCHANGED vi
  <2>1. Wanted(c) = d /\ MustBeWritten(c)
    BY <1>2, <1>6, FilledIsWanted
  <2>2. NothingAhead' /\ NothingMissing' /\ ErrorsAreReal'
    BY <1>1, <1>6, StepInside DEF GivingUp
  <2>3. pc'[t] = "put" /\ data'[t] = d
    BY <1>1, <1>6 DEF Go, HoldsData, Typed
  <2>4. Typed'
    BY <1>1, <1>3, <1>6, GivenStays DEF Typed, Go, HoldsData, Places, Waits, given, Positions
  <2>5. AtItsPlace(t)'
    BY <1>1, <1>6, <2>3 DEF AtItsPlace, given, Positions, BetweenPositions
  <2>6. CellOf(t)' = c /\ Cells' = Cells /\ Wanted(c)' = Wanted(c) /\ MustBeWritten(c)' = MustBeWritten(c)
    BY <1>1, <1>6, GivenStays DEF CellOf, Wanted, MustBeWritten, given
  <2>7. HoldsItsData(t)'
    BY <1>2, <2>1, <2>3, <2>6 DEF HoldsItsData, WithCell, GivingUp
  <2>8. \A u \in Threads \ {t} : pc'[u] = pc[u] /\ data'[u] = data[u]
    BY <1>1, <1>6 DEF Go, HoldsData, Typed
  <2> QED
    BY <1>1, <1>6, <2>2, <2>4, <2>5, <2>7, <2>8, OneThreadMoves
<1> QED
  BY <1>4, <1>5, <1>6 DEF Recheck, Sees

\* A cell is put once: until its thread has put it, nothing is there.
LEMMA CellIsFree ==
  ASSUME PromiseInv, NEW t \in Threads, pc[t] = "putting"
  PROVE  CellOf(t) \in Cells /\ Owner(CellOf(t)) = t /\ CellOf(t) \notin Handled
<1>1. Typed /\ AtItsPlace(t) /\ HoldsItsData(t)
  BY DEF PromiseInv
<1>2. CellOf(t) \in Cells /\ Owner(CellOf(t)) = t
  BY <1>1 DEF AtItsPlace, HoldsItsData, WithCell, BetweenPositions, Owner, CellOf
<1>3. ~ Passed(CellOf(t)) /\ pc[t] \notin GivingUp
  BY <1>1, <1>2 DEF Passed, CellOf, Typed, GivingUp
<1> QED
  BY <1>2, <1>3 DEF PromiseInv, NothingAhead

LEMMA PutKeeps ==
  ASSUME PromiseInv, NEW t \in Threads, Put(t)
  PROVE  PromiseInv'
<1> DEFINE c == CellOf(t)
<1>1. /\ pc[t] = "putting" /\ UNCHANGED <<given, exceptions, unLimDimPos, data>>
      /\ Typed /\ AtItsPlace(t) /\ HoldsItsData(t)
  BY DEF Put, PromiseInv
<1>2. c \in Cells /\ Owner(c) = t /\ c \notin Handled /\ MustBeWritten(c)
  BY <1>1, CellIsFree DEF HoldsItsData
<1>3. CASE DOMAIN file' = DOMAIN file \cup {c} /\ NextVariable(t) /\ UNCHANGED givenUp
  <2>1. Handled' = Handled \cup {c}
    BY <1>3 DEF Handled
  <2>2. Wanted(c) # "error"
    BY <1>2 DEF MustBeWritten
  <2>3. NothingAhead' /\ NothingMissing' /\ ErrorsAreReal'
    BY <1>1, <1>2, <1>3, <2>1, <2>2, StepOn DEF BetweenPositions
  <2> QED
    BY <1>1, <1>3, <2>3, NextVariableKeeps DEF BetweenPositions, Typed
<1>4. CASE givenUp' = givenUp \cup {c} /\ Go(t, "relock") /\ UNCHANGED <<file, vi>>
  <2>1. pc'[t] = "relock" /\ \A u \in Threads \ {t} : pc'[u] = pc[u]
    BY <1>1, <1>4 DEF Go, Typed
  <2>2. Typed'
    BY <1>1, <1>4, GivenStays DEF Typed, Go, Places, Waits, given, Positions
  <2>3. AtItsPlace(t)'
    BY <1>1, <1>4, <2>1 DEF AtItsPlace, given, Positions, BetweenPositions
  <2>4. Cells' = Cells /\ exceptions' = exceptions
        /\ \A x : /\ Wanted(x)' = Wanted(x) /\ Owner(x)' = Owner(x)
                  /\ MustBeWritten(x)' = MustBeWritten(x) /\ Passed(x)' = Passed(x)
    BY <1>1, <1>4, GivenStays DEF Passed
  <2>5. (\A u : CellOf(u)' = CellOf(u)) /\ Handled' = Handled \cup {c}
    BY <1>1, <1>4 DEF CellOf, Handled
  <2>6. HoldsItsData(t)'
    BY <1>2, <1>4, <2>1, <2>4, <2>5 DEF HoldsItsData, WithCell, GivingUp
  <2>7. NothingAhead'
    <3> SUFFICES ASSUME NEW x \in Handled'
                 PROVE  x \in Cells /\ (Passed(x) \/ (x = CellOf(Owner(x)) /\ pc'[Owner(x)] \in GivingUp))
      BY <2>4, <2>5 DEF NothingAhead
    <3>1. CASE x = c
      BY <1>2, <2>1, <3>1 DEF GivingUp
    <3>2. CASE x # c
      <4>1. x \in Cells /\ (Passed(x) \/ (x = CellOf(Owner(x)) /\ pc[Owner(x)] \in GivingUp))
        BY <2>5, <3>2 DEF PromiseInv, NothingAhead
      <4>2. Owner(x) \in Threads
        BY <1>1, <4>1, CellsHaveOwners
      <4> QED
        BY <2>1, <4>1, <4>2 DEF GivingUp
    <3> QED
      BY <3>1, <3>2
  <2>8. NothingMissing' /\ ErrorsAreReal'
    BY <2>4, <2>5 DEF PromiseInv, NothingMissing, ErrorsAreReal
  <2> QED
    BY <1>1, <1>4, <2>1, <2>2, <2>3, <2>6, <2>7, <2>8, OneThreadMoves
<1> QED
  BY <1>3, <1>4 DEF Put

LEMMA LeaveKeeps ==
  ASSUME PromiseInv, NEW t \in Threads, Leave(t)
  PROVE  PromiseInv'
<1>1. /\ pc[t] = "leaving" /\ UNCHANGED <<given, exceptions, unLimDimPos, data, file, givenUp>>
      /\ NextVariable(t) /\ Typed /\ AtItsPlace(t) /\ HoldsItsData(t)
  BY DEF Leave, target, PromiseInv
<1>2. CellOf(t) \in Handled /\ CellOf(t) \in Cells
  BY <1>1 DEF HoldsItsData, WithCell, GivingUp, Handled
<1>3. Wanted(CellOf(t)) # "error"
  BY <1>1 DEF HoldsItsData, GivingUp, MustBeWritten
<1>4. NothingAhead' /\ NothingMissing' /\ ErrorsAreReal'
  BY <1>1, <1>2, <1>3, StepOn DEF Handled, BetweenPositions
<1> QED
  BY <1>1, <1>4, NextVariableKeeps DEF BetweenPositions, Typed

LEMMA SyncKeeps ==
  ASSUME PromiseInv, NEW t \in Threads, Sync(t)
  PROVE  PromiseInv'
<1>1. /\ pc[t] = "syncing" /\ UNCHANGED <<given, exceptions, unLimDimPos, vi, data, file, givenUp>>
      /\ Go(t, "loop") /\ Typed /\ AtItsPlace(t)
  BY DEF Sync, target, PromiseInv
<1>2. NothingAhead' /\ NothingMissing' /\ ErrorsAreReal'
  BY <1>1, StepInside DEF GivingUp
<1>3. pc'[t] = "loop" /\ \A u \in Threads \ {t} : pc'[u] = pc[u]
  BY <1>1 DEF Go, Typed
<1>4. Typed'
  BY <1>1, GivenStays DEF Typed, Go, Places, given, Positions
<1>5. AtItsPlace(t)'
  BY <1>1, <1>3 DEF AtItsPlace, given, Positions, BetweenPositions
<1>6. HoldsItsData(t)'
  BY <1>3 DEF HoldsItsData, WithCell, GivingUp
<1> QED
  BY <1>1, <1>2, <1>3, <1>4, <1>5, <1>6, OneThreadMoves

\* The end of the call, one way or the other, is not a step of a thread.
LEMMA EndKeeps ==
  ASSUME PromiseInv, UNCHANGED <<given, exceptions, progress, file, givenUp>>
  PROVE  PromiseInv'
<1>1. UNCHANGED <<shapes, classic, source, schedule, exceptions, pc, unLimDimPos, vi, data, file, givenUp>>
  BY DEF given, progress
<1>2. Typed'
  BY <1>1, GivenStays DEF PromiseInv, Typed, Positions
<1>3. \A u \in Threads : AtItsPlace(u)' /\ HoldsItsData(u)'
  BY <1>1, OthersStay DEF PromiseInv
<1>4. Cells' = Cells /\ Handled' = Handled
      /\ \A x : /\ Wanted(x)' = Wanted(x) /\ Owner(x)' = Owner(x)
                /\ MustBeWritten(x)' = MustBeWritten(x) /\ Passed(x)' = Passed(x)
  BY <1>1, GivenStays DEF Passed, Handled
<1>5. \A u : CellOf(u)' = CellOf(u)
  BY <1>1 DEF CellOf
<1>6. NothingAhead' /\ NothingMissing' /\ ErrorsAreReal'
  BY <1>1, <1>4, <1>5 DEF PromiseInv, NothingAhead, NothingMissing, ErrorsAreReal
<1> QED
  BY <1>2, <1>3, <1>6 DEF PromiseInv

LEMMA PromiseStep ==
  ASSUME PromiseInv, [Next]_vars
  PROVE  PromiseInv'
<1>1. ASSUME NEW t \in Threads, Step(t) PROVE PromiseInv'
  <2>1. CASE Terminate(t)
    BY <2>1, EndKeeps DEF Terminate
  <2> QED
    BY <1>1, <2>1, NextPositionKeeps, NextInLoopKeeps, LockKeeps, InquireKeeps, ReadKeeps,
       RecheckKeeps, PutKeeps, LeaveKeeps, SyncKeeps DEF Step
<1>2. CASE Join
  BY <1>2, EndKeeps DEF Join
<1>3. CASE UNCHANGED vars
  BY <1>3, EndKeeps DEF vars, given, progress
<1> QED
  BY <1>1, <1>2, <1>3 DEF Next

LEMMA PromiseInitially == Init => PromiseInv
<1> SUFFICES ASSUME Init PROVE PromiseInv
  OBVIOUS
<1>1. Typed
  BY ShapesAssumption DEF Init, Typed, Places
<1>2. Handled = {} /\ exceptions = {}
  BY DEF Init, Handled
<1>3. \A t \in Threads : AtItsPlace(t) /\ HoldsItsData(t)
  BY DEF Init, AtItsPlace, HoldsItsData, BetweenPositions, WithCell, GivingUp
<1>4. \A c \in Cells : ~ Passed(c)
  BY <1>1, CellsHaveOwners DEF Init, Passed
<1> QED
  BY <1>1, <1>2, <1>3, <1>4 DEF PromiseInv, NothingAhead, NothingMissing, ErrorsAreReal

\* Each end is one the promise allows: at the join every cell is passed.
LEMMA JoinKeepsPromise ==
  ASSUME PromiseInv, Join, outcome = "running"
  PROVE  Promise!Return \/ Promise!Throw
<1>1. /\ UNCHANGED <<given, file, givenUp>> /\ Typed
      /\ \A t \in Threads : pc[t] = "done"
  BY DEF Join, PromiseInv
<1>2. Cells' = Cells /\ \A c \in Cells : Wanted(c)' = Wanted(c)
  BY <1>1, GivenStays
<1> DEFINE wanted == [c \in Cells |-> Wanted(c)]
<1>3. wanted' = wanted
  BY <1>2
<1>4. \A c \in Cells : Passed(c)
  <2> SUFFICES ASSUME NEW c \in Cells PROVE Passed(c)
    OBVIOUS
  <2>1. /\ c[1] \in 1 .. Len(shapes) /\ c[2] \in Positions /\ c[2] \in Int /\ c[2] >= -1
        /\ Owner(c) \in Threads
    BY <1>1, CellsHaveOwners
  <2>2. AtItsPlace(Owner(c)) /\ pc[Owner(c)] = "done"
    BY <1>1, <2>1 DEF PromiseInv
  <2>3. c[2] <= unLimDimPos[Owner(c)]
    BY <2>1, <2>2 DEF AtItsPlace, Owner
  <2> QED
    BY <1>1, <2>1, <2>2, <2>3 DEF AtItsPlace, BetweenPositions, Passed, Typed
<1>5. CASE exceptions = {}
  <2>1. outcome' = "returned"
    BY <1>5 DEF Join
  <2>2. \A c \in Cells : Wanted(c) # "error" /\ (MustBeWritten(c) => c \in Handled)
    BY <1>4, <1>5 DEF PromiseInv, NothingMissing
  <2> QED
    BY <1>1, <1>3, <2>1, <2>2 DEF Promise!Return, Promise!Cells, Promise!MustBeWritten, Promise!Written,
       MustBeWritten, Handled
<1>6. CASE exceptions # {}
  <2>1. outcome' = "thrown"
    BY <1>6 DEF Join
  <2>2. \E c \in Cells : Wanted(c) = "error"
    BY <1>6 DEF PromiseInv, ErrorsAreReal
  <2> QED
    BY <1>1, <1>3, <2>1, <2>2 DEF Promise!Throw, Promise!Cells
<1> QED
  BY <1>5, <1>6

\* A put is a write of a cell that nothing was written to, or gives it up.
LEMMA PutKeepsPromise ==
  ASSUME PromiseInv, NEW t \in Threads, Put(t), outcome = "running"
  PROVE  \E c \in Cells : Promise!Write(c)
<1> DEFINE c == CellOf(t)
           wanted == [x \in Cells |-> Wanted(x)]
<1>1. UNCHANGED <<given, outcome>> /\ pc[t] = "putting" /\ HoldsItsData(t)
  BY DEF Put, PromiseInv
<1>2. c \in Cells /\ c \notin Handled /\ MustBeWritten(c) /\ data[t] = Wanted(c)
  BY <1>1, CellIsFree DEF HoldsItsData
<1>3. Cells' = Cells /\ \A x \in Cells : Wanted(x)' = Wanted(x)
  BY <1>1, GivenStays
<1>4. wanted' = wanted /\ wanted[c] = Wanted(c)
  BY <1>2, <1>3
<1>5. \/ /\ file' = [x \in DOMAIN file \cup {c} |-> IF x = c THEN <<c, Wanted(c)>> ELSE file[x]]
         /\ UNCHANGED givenUp
      \/ givenUp' = givenUp \cup {c} /\ UNCHANGED file
  BY <1>2 DEF Put, CellOf
<1>6. Promise!Write(c)
  BY <1>1, <1>2, <1>4, <1>5 DEF Promise!Write, Promise!Written, Promise!MustBeWritten, MustBeWritten, Handled
<1> QED
  BY <1>2, <1>6

(* However positions are shared out among any number of threads and their  *)
(* steps interleave, and whichever calls fail: writeData implements the    *)
(* promise.  It writes each cell at most once and with its own data, returns*)
(* only with nothing missing that was not given up, and throws only if      *)
(* something could not be read.                                             *)
THEOREM WriterKeepsThePromise == Spec => KeepsThePromise
<1>1. Init => Promise!Init
  <2> SUFFICES ASSUME Init PROVE Promise!Init
    OBVIOUS
  <2>1. \A c \in Cells : Wanted(c) \in {"data", "fill", "nothing", "error"}
    BY PromiseInitially, CellsHaveOwners DEF PromiseInv
  <2> QED
    BY <2>1 DEF Init, Promise!Init, Promise!Cells
<1>2. PromiseInv /\ [Next]_vars => [Promise!Next]_(Promise!vars)
  <2> SUFFICES ASSUME PromiseInv, [Next]_vars PROVE [Promise!Next]_(Promise!vars)
    OBVIOUS
  <2> DEFINE wanted == [c \in Cells |-> Wanted(c)]
  <2>1. wanted' = wanted
    BY NextKeepsGiven, GivenStays
  <2>2. ASSUME outcome = "running", NEW t \in Threads, Put(t) PROVE Promise!Next
    BY <2>2, PutKeepsPromise DEF Promise!Next, Promise!Cells
  <2>3. CASE outcome = "running" /\ Join
    BY <2>3, JoinKeepsPromise DEF Promise!Next
  <2>4. ASSUME outcome = "running", NEW t \in Threads, Terminate(t) PROVE Promise!Next
    BY <2>1, <2>4 DEF Terminate, Promise!Abort, Promise!Next
  <2>5. ASSUME NEW t \in Threads, Step(t), ~ Put(t), ~ Terminate(t) PROVE UNCHANGED <<file, givenUp, outcome>>
    BY <2>5 DEF Step, NextPosition, NextInLoop, Lock, Inquire, Read, Recheck, Leave, Sync, target
  <2>6. UNCHANGED <<file, givenUp, outcome>> => UNCHANGED Promise!vars
    BY <2>1 DEF Promise!vars
  <2>7. CASE UNCHANGED vars
    BY <2>6, <2>7 DEF vars
  <2> QED
    BY <2>2, <2>3, <2>4, <2>5, <2>6, <2>7 DEF Next
<1> QED
  BY <1>1, <1>2, PromiseInitially, PromiseStep, PTL DEF Spec, KeepsThePromise, Promise!Spec
=============================================================================
