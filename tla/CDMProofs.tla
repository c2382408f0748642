----------------------------- MODULE CDMProofs -----------------------------
(***************************************************************************)
(* For all sets of names, shapes and attributes: attributes are filed only *)
(* under names that exist, cached coordinate systems are those of the      *)
(* present model, checked calls never leave a shape without its            *)
(* dimensions, and a rename moves all that was filed under the old name.   *)
(***************************************************************************)
EXTENDS CDM, TLAPS

(* What dropping from and adding to a map does to its domain and values. *)
LEMMA DropFacts ==
  ASSUME NEW f, NEW k
  PROVE  /\ DOMAIN Drop(f, k) = DOMAIN f \ {k}
         /\ \A x \in DOMAIN f \ {k} : Drop(f, k)[x] = f[x]
BY DEF Drop

LEMMA WithFacts ==
  ASSUME NEW f, NEW k, NEW y
  PROVE  /\ DOMAIN With(f, k, y) = DOMAIN f \cup {k}
         /\ With(f, k, y)[k] = y
         /\ \A x \in DOMAIN f \ {k} : With(f, k, y)[x] = f[x]
BY DEF With

(* Dropping keeps a partial map one, adding a member of its range too. *)
LEMMA PartialMapsKept ==
  ASSUME NEW S, NEW T, NEW f, IsPartialMap(f, S, T), NEW k
  PROVE  /\ IsPartialMap(Drop(f, k), S, T)
         /\ \A y \in T : k \in S => IsPartialMap(With(f, k, y), S, T)
BY DEF IsPartialMap, Drop, With

(* Renaming a dimension keeps the shapes sequences of names. *)
LEMMA ReplacedTyped ==
  ASSUME NEW shape \in Seq(DimNames), NEW old, NEW new \in DimNames
  PROVE  /\ Replaced(shape, old, new) \in Seq(DimNames)
         /\ DOMAIN Replaced(shape, old, new) = DOMAIN shape
         /\ \A i \in DOMAIN shape :
              Replaced(shape, old, new)[i] = IF shape[i] = old THEN new ELSE shape[i]
BY DEF Replaced

(* The actions whose effect on the variables is not the identity. *)
LEMMA VariablesStep ==
  ASSUME VariablesOK, [Next]_vars
  PROVE  VariablesOK'
<1> USE DEF VariablesOK
<1>1. ASSUME NEW v \in Names, NEW about \in Abouts, NEW shape \in Shapes, AddVariable(v, about, shape)
      PROVE  VariablesOK'
  <2>1. [about |-> about, shape |-> shape] \in Variable
    BY ShapesAssumption DEF Variable
  <2>2. CASE variables' = variables
    BY <2>2
  <2>3. CASE variables' = With(variables, v, [about |-> about, shape |-> shape])
    <3>1. IsPartialMap(With(variables, v, [about |-> about, shape |-> shape]), Names, Variable)
      BY <2>1, PartialMapsKept
    <3> QED
      BY <2>3, <3>1
  <2> QED
    BY <1>1, <2>2, <2>3 DEF AddVariable
<1>2. ASSUME NEW v \in Names, RemoveVariable(v)
      PROVE  VariablesOK'
  BY <1>2, PartialMapsKept DEF RemoveVariable
<1>3. ASSUME NEW old \in Names, NEW new \in Names, RenameVariable(old, new)
      PROVE  VariablesOK'
  <2>1. CASE HasVariable(old) /\ old # new
    <3>1. variables[old] \in Variable
      BY <2>1 DEF HasVariable, IsPartialMap
    <3>2. IsPartialMap(Drop(Drop(variables, new), old), Names, Variable)
      BY PartialMapsKept
    <3> QED
      BY <1>3, <2>1, <3>1, <3>2, PartialMapsKept DEF RenameVariable, RenamedVariables
  <2>2. CASE ~(HasVariable(old) /\ old # new)
    BY <1>3, <2>2, PartialMapsKept DEF RenameVariable
  <2> QED
    BY <2>1, <2>2
<1>4. ASSUME NEW v \in Names, NEW shape \in Shapes, SetShape(v, shape)
      PROVE  VariablesOK'
  <2>1. \A w \in DOMAIN variables : variables[w] \in Variable
    BY DEF IsPartialMap
  <2>2. variables' = [variables EXCEPT ![v].shape = shape] /\ v \in DOMAIN variables
    BY <1>4 DEF SetShape, HasVariable
  <2>3. [variables[v] EXCEPT !.shape = shape] \in Variable
    BY <2>1, <2>2, ShapesAssumption DEF Variable
  <2> QED
    BY <2>2, <2>3 DEF IsPartialMap
<1>5. ASSUME NEW old \in DimNames, NEW new \in DimNames, NEW ignore \in BOOLEAN,
             RenameDimension(old, new, ignore)
      PROVE  VariablesOK'
  <2>1. CASE variables' = variables
    BY <2>1 DEF IsPartialMap
  <2>2. CASE variables' = [v \in DOMAIN variables |->
                             [variables[v] EXCEPT !.shape = Replaced(@, old, new)]]
    <3>1. \A v \in DOMAIN variables :
            [variables[v] EXCEPT !.shape = Replaced(@, old, new)] \in Variable
      <4>1. TAKE v \in DOMAIN variables
      <4>2. variables[v] \in Variable
        BY DEF IsPartialMap
      <4>3. variables[v].shape \in Seq(DimNames)
        BY <4>2 DEF Variable
      <4>4. Replaced(variables[v].shape, old, new) \in Seq(DimNames)
        BY <4>3, ReplacedTyped
      <4> QED
        BY <4>2, <4>4 DEF Variable
    <3> QED
      BY <2>2, <3>1 DEF IsPartialMap
  <2> QED
    BY <1>5, <2>1, <2>2 DEF RenameDimension
<1>6. CASE UNCHANGED variables
  BY <1>6 DEF IsPartialMap
<1> QED
  BY <1>1, <1>2, <1>3, <1>4, <1>5, <1>6
     DEF Next, ChangeVariables, ChangeDimensions, ChangeAttributes, AddDimension, RemoveDimension,
         AddAttribute, AddOrReplaceAttribute, RemoveAttribute, Enhance, model, vars

(* Variables are at all times records under names, their shapes sequences. *)
THEOREM VariablesTyped == Spec => []VariablesOK
<1>1. Init => VariablesOK
  BY DEF Init, VariablesOK, IsPartialMap
<1>2. VariablesOK /\ [Next]_vars => VariablesOK'
  BY VariablesStep
<1> QED
  BY <1>1, <1>2, PTL DEF Spec

-----------------------------------------------------------------------------
(* A step that keeps the owners of attributes and files no new ones. *)
LEMMA OwnedKept ==
  ASSUME AttributesOwned, DOMAIN variables \subseteq DOMAIN variables',
         DOMAIN attributes' \subseteq DOMAIN attributes
  PROVE  AttributesOwned'
BY DEF AttributesOwned

(* Every action keeps AttributesOwned, which needs nothing but itself. *)
LEMMA OwnedStep ==
  ASSUME AttributesOwned, [Next]_vars
  PROVE  AttributesOwned'
<1>1. ASSUME NEW v \in Names, RemoveVariable(v)
      PROVE  AttributesOwned'
  BY <1>1, DropFacts DEF RemoveVariable, AttributesOwned
<1>2. ASSUME NEW old \in Names, NEW new \in Names, RenameVariable(old, new)
      PROVE  AttributesOwned'
  <2>1. CASE HasVariable(old) /\ old # new
    <3> DEFINE rest == Drop(Drop(attributes, new), old)
    <3>1. variables' = RenamedVariables(old, new) /\ attributes' = RenamedAttributes(old, new)
      BY <1>2, <2>1 DEF RenameVariable
    <3>2. DOMAIN variables' = (DOMAIN variables \ {old}) \cup {new}
      <4> DEFINE kept == Drop(Drop(variables, new), old)
      <4>1. DOMAIN kept = (DOMAIN variables \ {new}) \ {old}
        BY DropFacts
      <4>2. variables' = With(kept, new, variables[old])
        BY <3>1 DEF RenamedVariables
      <4>3. DOMAIN variables' = DOMAIN kept \cup {new}
        BY <4>2, WithFacts
      <4> HIDE DEF kept
      <4> QED
        BY <2>1, <4>1, <4>3
    <3>3. DOMAIN rest = (DOMAIN attributes \ {new}) \ {old}
      BY DropFacts
    <3>4. DOMAIN With(rest, new, attributes[old]) = DOMAIN rest \cup {new}
      BY WithFacts
    <3>5. attributes' = rest \/ attributes' = With(rest, new, attributes[old])
      BY <3>1 DEF RenamedAttributes
    <3>6. DOMAIN attributes' \subseteq (DOMAIN attributes \ {old}) \cup {new}
      <4> HIDE DEF rest
      <4> QED
        BY <3>3, <3>4, <3>5, Zenon
    <3> QED
      BY <3>2, <3>6 DEF AttributesOwned
  <2>2. CASE ~(HasVariable(old) /\ old # new)
    <3>1. variables' = Drop(variables, new) /\ attributes' = Drop(attributes, new)
      BY <1>2, <2>2 DEF RenameVariable
    <3> QED
      BY <3>1, DropFacts DEF AttributesOwned
  <2> QED
    BY <2>1, <2>2
<1>3. ASSUME NEW v \in Names, NEW about \in Abouts, NEW shape \in Shapes, AddVariable(v, about, shape)
      PROVE  AttributesOwned'
  <2>1. attributes' = attributes
    BY <1>3 DEF AddVariable
  <2>2. CASE variables' = variables
    BY <2>1, <2>2 DEF AttributesOwned
  <2>3. CASE variables' = With(variables, v, [about |-> about, shape |-> shape])
    <3>1. DOMAIN variables' = DOMAIN variables \cup {v}
      BY <2>3, WithFacts
    <3> QED
      BY <2>1, <3>1 DEF AttributesOwned
  <2> QED
    BY <1>3, <2>2, <2>3 DEF AddVariable
<1>4. ASSUME NEW v \in Names, NEW shape \in Shapes, SetShape(v, shape)
      PROVE  AttributesOwned'
  BY <1>4, OwnedKept DEF SetShape
<1>5. ASSUME NEW old \in DimNames, NEW new \in DimNames, NEW ignore \in BOOLEAN,
             RenameDimension(old, new, ignore)
      PROVE  AttributesOwned'
  BY <1>5, OwnedKept DEF RenameDimension
<1>6. ASSUME NEW v \in Names \cup {Global}, NEW a,
             AddAttribute(v, a) \/ AddOrReplaceAttribute(v, a)
      PROVE  AttributesOwned'
  <2>1. variables' = variables
    BY <1>6 DEF AddAttribute, AddOrReplaceAttribute
  <2>2. CASE attributes' = attributes
    BY <2>1, <2>2 DEF AttributesOwned
  <2>3. CASE attributes' # attributes
    <3>1. v = Global \/ HasVariable(v)
      BY <1>6, <2>3 DEF AddAttribute, AddOrReplaceAttribute
    <3>2. PICK y : attributes' = With(attributes, v, y)
      <4>1. CASE AddAttribute(v, a)
        BY <4>1, <2>3 DEF AddAttribute
      <4>2. CASE AddOrReplaceAttribute(v, a)
        BY <4>2, <2>3 DEF AddOrReplaceAttribute
      <4> QED
        BY <1>6, <4>1, <4>2
    <3>3. DOMAIN attributes' = DOMAIN attributes \cup {v}
      BY <3>2, WithFacts
    <3> QED
      BY <2>1, <3>1, <3>3 DEF AttributesOwned, HasVariable
  <2> QED
    BY <2>2, <2>3
<1>7. ASSUME NEW v \in Names \cup {Global}, NEW n \in AttrNames, RemoveAttribute(v, n)
      PROVE  AttributesOwned'
  <2>1. variables' = variables
    BY <1>7 DEF RemoveAttribute
  <2>2. CASE v \in DOMAIN attributes
    <3>1. attributes' = With(attributes, v, WithoutAttribute(attributes[v], n))
      BY <1>7, <2>2 DEF RemoveAttribute
    <3>2. DOMAIN attributes' = DOMAIN attributes \cup {v}
      BY <3>1, WithFacts
    <3> QED
      BY <2>1, <2>2, <3>2 DEF AttributesOwned
  <2>3. CASE v \notin DOMAIN attributes
    BY <1>7, <2>1, <2>3 DEF RemoveAttribute, AttributesOwned
  <2> QED
    BY <2>2, <2>3
<1>8. CASE UNCHANGED <<variables, attributes>>
  BY <1>8, OwnedKept
<1> QED
  BY <1>1, <1>2, <1>3, <1>4, <1>5, <1>6, <1>7, <1>8
     DEF Next, ChangeVariables, ChangeDimensions, ChangeAttributes, AddDimension, RemoveDimension,
         Enhance, model, vars

(* Attributes are never filed under the name of a variable that is not there. *)
THEOREM AttributesHaveOwners == Spec => []AttributesOwned
<1>1. Init => AttributesOwned
  BY DEF Init, AttributesOwned
<1>2. AttributesOwned /\ [Next]_vars => AttributesOwned'
  BY OwnedStep
<1> QED
  BY <1>1, <1>2, PTL DEF Spec

(* Cached coordinate systems are those of the present model, unless a shape *)
(* was set through a reference meanwhile.                                  *)
THEOREM CacheIsFresh == Spec => []CacheFresh
<1>1. Init => CacheFresh
  BY DEF Init, CacheFresh
<1>2. ASSUME CacheFresh, [Next]_vars
      PROVE  CacheFresh'
  <2>1. CASE coordsInitialized' = FALSE
    BY <2>1 DEF CacheFresh
  <2>2. CASE UNCHANGED <<cache, model>>
    BY <1>2, <2>2 DEF CacheFresh, cache, model
  <2>3. CASE Enhance
    BY <2>3 DEF Enhance, CacheFresh, model
  <2>4. ASSUME NEW v \in Names, NEW shape \in Shapes, SetShape(v, shape)
        PROVE  CacheFresh'
    BY <2>4 DEF SetShape, CacheFresh
  <2> QED
    BY <1>2, <2>1, <2>2, <2>3, <2>4
       DEF Next, ChangeVariables, ChangeDimensions, ChangeAttributes, AddVariable, RemoveVariable,
           RenameVariable, AddDimension, RemoveDimension, RenameDimension, AddAttribute,
           AddOrReplaceAttribute, RemoveAttribute, Forget, cache, model, vars
<1> QED
  BY <1>1, <1>2, PTL DEF Spec

-----------------------------------------------------------------------------
(* A call that respects dimensions in use leaves each shape its dimensions: *)
(* the one that goes is in no shape, the one renamed is renamed in all.    *)
LEMMA SafeCallKeeps ==
  ASSUME VariablesOK, SafeCall, NEW v \in DOMAIN variables, KnownShape(v)
  PROVE  HasVariable(v)' /\ KnownShape(v)'
<1>1. \A i \in DOMAIN variables[v].shape : variables[v].shape[i] \in DOMAIN dimensions
  BY DEF KnownShape, HasDimension
<1>2. ASSUME NEW d \in DimNames, RemoveDimension(d, FALSE)
      PROVE  HasVariable(v)' /\ KnownShape(v)'
  <2>1. variables' = variables
    BY <1>2 DEF RemoveDimension
  <2>2. CASE dimensions' = dimensions
    BY <1>1, <2>1, <2>2 DEF HasVariable, HasDimension, KnownShape
  <2>3. CASE dimensions' # dimensions
    <3>1. /\ dimensions' = Drop(dimensions, d)
          /\ ~TestDimensionInUse(d) /\ HasDimension(d)
      BY <1>2, <2>3 DEF RemoveDimension, MayRemoveDimension
    <3>2. \A i \in DOMAIN variables[v].shape : variables[v].shape[i] # d
      BY <3>1 DEF TestDimensionInUse, CheckDimension, InShape
    <3>3. DOMAIN dimensions' = DOMAIN dimensions \ {d}
      BY <3>1, DropFacts
    <3> QED
      BY <1>1, <2>1, <3>2, <3>3 DEF HasVariable, HasDimension, KnownShape
  <2> QED
    BY <2>2, <2>3
<1>3. ASSUME NEW old \in DimNames, NEW new \in DimNames, RenameDimension(old, new, FALSE)
      PROVE  HasVariable(v)' /\ KnownShape(v)'
  <2>1. CASE UNCHANGED <<variables, dimensions>>
    BY <1>1, <2>1 DEF HasVariable, HasDimension, KnownShape
  <2>2. CASE HasDimension(old) /\ MayRemoveDimension(new, FALSE)
    <3>1. new \in DOMAIN dimensions => \A i \in DOMAIN variables[v].shape : variables[v].shape[i] # new
      BY <2>2 DEF MayRemoveDimension, TestDimensionInUse, CheckDimension, InShape, HasDimension
    <3>2. CASE old = new
      <4>1. variables' = variables /\ dimensions' = Drop(dimensions, new)
        BY <1>3, <2>2, <3>2 DEF RenameDimension
      <4>2. DOMAIN dimensions' = DOMAIN dimensions \ {new}
        BY <4>1, DropFacts
      <4> QED
        BY <1>1, <2>2, <3>1, <3>2, <4>1, <4>2 DEF HasVariable, HasDimension, KnownShape
    <3>3. CASE old # new
      <4> DEFINE kept == Drop(Drop(dimensions, new), old)
      <4>1. dimensions' = With(kept, new, dimensions[old])
        BY <1>3, <2>2, <3>3 DEF RenameDimension
      <4>2. DOMAIN kept = (DOMAIN dimensions \ {new}) \ {old}
        BY DropFacts
      <4>3. DOMAIN dimensions' = DOMAIN kept \cup {new}
        BY <4>1, WithFacts
      <4>4. variables' = [w \in DOMAIN variables |->
                            [variables[w] EXCEPT !.shape = Replaced(@, old, new)]]
        BY <1>3, <2>2, <3>3 DEF RenameDimension
      <4>5. variables[v] \in Variable
        BY DEF VariablesOK, IsPartialMap
      <4>6. variables[v].shape \in Seq(DimNames)
        BY <4>5 DEF Variable
      <4>7. variables'[v].shape = Replaced(variables[v].shape, old, new)
        BY <4>4, <4>5 DEF Variable
      <4>8. /\ DOMAIN variables'[v].shape = DOMAIN variables[v].shape
            /\ \A i \in DOMAIN variables[v].shape :
                 variables'[v].shape[i] = IF variables[v].shape[i] = old THEN new ELSE variables[v].shape[i]
        BY <4>6, <4>7, ReplacedTyped
      <4>9. DOMAIN dimensions' = ((DOMAIN dimensions \ {new}) \ {old}) \cup {new}
        BY <4>2, <4>3
      <4>10. \A i \in DOMAIN variables'[v].shape : variables'[v].shape[i] \in DOMAIN dimensions'
        BY <1>1, <4>8, <4>9
      <4>11. v \in DOMAIN variables'
        BY <4>4
      <4> QED
        BY <4>10, <4>11 DEF HasVariable, HasDimension, KnownShape
    <3> QED
      BY <3>2, <3>3
  <2> QED
    BY <1>3, <2>1, <2>2 DEF RenameDimension
<1> QED
  BY <1>2, <1>3 DEF SafeCall

(* No call that respects dimensions in use takes a dimension out of a shape's reach. *)
THEOREM ShapesAreKept == Spec => CheckedCallsKeepShapes
<1>1. VariablesOK /\ [Next]_vars =>
        [SafeCall => \A v \in DOMAIN variables : KnownShape(v) => HasVariable(v)' /\ KnownShape(v)']_vars
  BY SafeCallKeeps
<1>2. Spec => []VariablesOK
  BY VariablesTyped
<1> QED
  BY <1>1, <1>2, PTL DEF Spec, CheckedCallsKeepShapes

(* A rename that finds the old name moves the variable and its attributes, *)
(* whole and in order, and touches no other.                               *)
THEOREM RenameMoves == Spec => RenameMovesAll
<1> DEFINE Moved(old, new) ==
      /\ variables'[new] = variables[old] /\ ~HasVariable(old)'
      /\ AttributesOf(new)' = AttributesOf(old)
      /\ \A v \in DOMAIN variables \ {old, new} :
           variables'[v] = variables[v] /\ AttributesOf(v)' = AttributesOf(v)
<1>1. ASSUME NEW old \in Names, NEW new \in Names,
             RenameVariable(old, new), HasVariable(old), old # new
      PROVE  Moved(old, new)
  <2> DEFINE vs == Drop(Drop(variables, new), old)
             as == Drop(Drop(attributes, new), old)
  <2>1. /\ DOMAIN vs = (DOMAIN variables \ {new}) \ {old}
        /\ \A v \in DOMAIN vs : vs[v] = variables[v]
    BY DEF Drop
  <2>2. /\ DOMAIN as = (DOMAIN attributes \ {new}) \ {old}
        /\ \A v \in DOMAIN as : as[v] = attributes[v]
    BY DEF Drop
  <2>3. variables' = With(vs, new, variables[old])
    BY <1>1 DEF RenameVariable, RenamedVariables
  <2>4. attributes' = IF AttributesOf(old) = <<>> THEN as ELSE With(as, new, attributes[old])
    BY <1>1 DEF RenameVariable, RenamedAttributes
  <2> HIDE DEF vs, as
  <2>5. /\ variables'[new] = variables[old]
        /\ old \notin DOMAIN variables'
        /\ \A v \in DOMAIN variables \ {old, new} : variables'[v] = variables[v]
    <3>1. /\ DOMAIN variables' = DOMAIN vs \cup {new}
          /\ variables'[new] = variables[old]
          /\ \A v \in DOMAIN vs \ {new} : variables'[v] = vs[v]
      BY <2>3 DEF With
    <3> QED
      BY <1>1, <2>1, <3>1
  <2>6. /\ (AttributesOf(new))' = AttributesOf(old)
        /\ \A v \in DOMAIN variables \ {old, new} : (AttributesOf(v))' = AttributesOf(v)
    <3>1. CASE AttributesOf(old) = <<>>
      BY <1>1, <2>2, <2>4, <3>1 DEF AttributesOf
    <3>2. CASE AttributesOf(old) # <<>>
      <4>1. old \in DOMAIN attributes /\ AttributesOf(old) = attributes[old]
        BY <3>2 DEF AttributesOf
      <4>2. /\ DOMAIN attributes' = DOMAIN as \cup {new}
            /\ attributes'[new] = attributes[old]
            /\ \A v \in DOMAIN as \ {new} : attributes'[v] = as[v]
        <5>1. attributes' = With(as, new, attributes[old])
          BY <2>4, <3>2
        <5> QED
          BY <5>1 DEF With
      <4> QED
        BY <1>1, <2>2, <4>1, <4>2 DEF AttributesOf
    <3> QED
      BY <3>1, <3>2
  <2> QED
    BY <2>5, <2>6 DEF HasVariable
<1>2. [Next]_vars => [\A old, new \in Names :
        RenameVariable(old, new) /\ HasVariable(old) /\ old # new => Moved(old, new)]_vars
  BY <1>1
<1> QED
  BY <1>2, PTL DEF Spec, RenameMovesAll
=============================================================================
