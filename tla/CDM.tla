-------------------------------- MODULE CDM --------------------------------
(***************************************************************************)
(* The Common Data Model: dimensions, variables whose shapes name them,    *)
(* attributes filed under the variables' names, and the coordinate systems *)
(* found in all of these, computed on demand and kept until a change.      *)
(***************************************************************************)
EXTENDS Sequences, FiniteSets, Functions, SequencesExt

CONSTANTS
  Names,        \* names of variables
  Global,       \* globalAttributeNS(), the name global attributes are filed under
  DimNames,     \* names of dimensions
  Dims,         \* what a dimension is besides its name: length, unlimited
  Shapes,       \* the shapes of variables when they are added
  Abouts,       \* what a variable is besides name and shape: type, data, vector
  AttrNames, Values,
  MaxAttributes \* bound: attributes filed under one name

VARIABLES
  variables,          \* name -> [about, shape]
  dimensions,         \* name -> member of Dims
  attributes,         \* name -> sequence of [name, value]
  coordsInitialized,
  coordSystems,       \* what the coordinate systems were computed from
  touched,            \* history: a shape was set through a reference meanwhile
  result              \* how the last call ended: "ok", "false" or "thrown"

model == <<variables, dimensions, attributes>>
cache == <<coordsInitialized, coordSystems, touched>>
vars == <<variables, dimensions, attributes, coordsInitialized, coordSystems, touched, result>>

ASSUME NamesAssumption == Global \notin Names
ASSUME ShapesAssumption == Shapes \subseteq Seq(DimNames)

Variable == [about: Abouts, shape: Seq(DimNames)]
Attribute == [name: AttrNames, value: Values]
IsPartialMap(f, S, T) == DOMAIN f \subseteq S /\ f \in [DOMAIN f -> T]

HasVariable(v) == v \in DOMAIN variables
HasDimension(d) == d \in DOMAIN dimensions
InShape(d, shape) == \E i \in DOMAIN shape : shape[i] = d
CheckDimension(v, d) == InShape(d, variables[v].shape)
TestDimensionInUse(d) == HasDimension(d) /\ \E v \in DOMAIN variables : CheckDimension(v, d)
Drop(f, k) == [x \in DOMAIN f \ {k} |-> f[x]]
With(f, k, y) == [x \in DOMAIN f \cup {k} |-> IF x = k THEN y ELSE f[x]]
AttributesOf(v) == IF v \in DOMAIN attributes THEN attributes[v] ELSE <<>>
HasAttribute(v, n) == \E i \in DOMAIN AttributesOf(v) : AttributesOf(v)[i].name = n
WithoutAttribute(seq, n) == SelectSeq(seq, LAMBDA a : a.name # n)

(* slips: the flag stays set; only the flag is reset *)
MutForgetNothing == UNCHANGED cache
(* Every change of the model forgets the coordinate systems; nobody reads  *)
(* the old ones any more, enhance() overwrites them.                       *)
Forget == coordsInitialized' = FALSE /\ touched' = FALSE /\ coordSystems' = <<>>
Return(r) == result' = r

Init ==
  /\ variables = <<>> /\ dimensions = <<>> /\ attributes = <<>>
  /\ coordsInitialized = FALSE /\ coordSystems = <<>> /\ touched = FALSE
  /\ result = "ok"

-----------------------------------------------------------------------------
AddVariable(v, about, shape) ==
  /\ Forget
  /\ UNCHANGED <<dimensions, attributes>>
  /\ IF HasVariable(v)
       THEN UNCHANGED variables /\ Return("thrown")
       ELSE variables' = With(variables, v, [about |-> about, shape |-> shape]) /\ Return("ok")

RemoveVariable(v) ==
  /\ Forget
  /\ variables' = Drop(variables, v)
  /\ attributes' = Drop(attributes, v)
  /\ UNCHANGED dimensions
  /\ Return("ok")

(* a slip: the attributes stay under the old name *)
MutRenamedAttributes(old, new) == Drop(attributes, new)
(* The variable of the new name goes first; then the old one is looked up,  *)
(* and when it is missing, or was the same, the exception becomes false.    *)
RenamedVariables(old, new) == With(Drop(Drop(variables, new), old), new, variables[old])
RenamedAttributes(old, new) ==
  LET rest == Drop(Drop(attributes, new), old)
  IN  IF AttributesOf(old) = <<>> THEN rest ELSE With(rest, new, attributes[old])
RenameVariable(old, new) ==
  /\ Forget
  /\ UNCHANGED dimensions
  /\ IF HasVariable(old) /\ old # new
       THEN /\ variables' = RenamedVariables(old, new)
            /\ attributes' = RenamedAttributes(old, new)
            /\ Return("ok")
       ELSE /\ variables' = Drop(variables, new)
            /\ attributes' = Drop(attributes, new)
            /\ Return("false")

AddDimension(d, about) ==
  /\ Forget
  /\ UNCHANGED <<variables, attributes>>
  /\ IF HasDimension(d)
       THEN UNCHANGED dimensions /\ Return("thrown")
       ELSE dimensions' = With(dimensions, d, about) /\ Return("ok")

MayRemoveDimension(d, ignoreInUse) == ignoreInUse \/ ~TestDimensionInUse(d)
RemoveDimension(d, ignoreInUse) ==
  /\ UNCHANGED <<variables, attributes>>
  /\ IF MayRemoveDimension(d, ignoreInUse) /\ HasDimension(d)
       THEN Forget /\ dimensions' = Drop(dimensions, d) /\ Return("ok")
       ELSE /\ UNCHANGED <<dimensions, cache>>
            /\ Return(IF MayRemoveDimension(d, ignoreInUse) THEN "false" ELSE "thrown")

(* a slip: only the first of a shape is replaced *)
MutReplaced(shape, old, new) ==
  [i \in DOMAIN shape |-> IF shape[i] = old /\ i = 1 THEN new ELSE shape[i]]
(* The dimension of the new name is removed first, if it may; then the old  *)
(* one is renamed and replaced in the shape of every variable.              *)
Replaced(shape, old, new) == [i \in DOMAIN shape |-> IF shape[i] = old THEN new ELSE shape[i]]
RenameDimension(old, new, ignoreInUse) ==
  /\ Forget
  /\ UNCHANGED attributes
  /\ \/ /\ ~HasDimension(old)
        /\ UNCHANGED <<variables, dimensions>>
        /\ Return("false")
     \/ /\ HasDimension(old)
        /\ ~MayRemoveDimension(new, ignoreInUse)
        /\ UNCHANGED <<variables, dimensions>>
        /\ Return("thrown")
     \/ /\ HasDimension(old)
        /\ MayRemoveDimension(new, ignoreInUse)
        /\ IF old = new
             THEN /\ dimensions' = Drop(dimensions, new)
                  /\ UNCHANGED variables
                  /\ Return("thrown")
             ELSE /\ dimensions' = With(Drop(Drop(dimensions, new), old), new, dimensions[old])
                  /\ variables' = [v \in DOMAIN variables |->
                       [variables[v] EXCEPT !.shape = Replaced(@, old, new)]]
                  /\ Return("ok")

AddAttribute(v, a) ==
  /\ Forget
  /\ UNCHANGED <<variables, dimensions>>
  /\ IF v # Global /\ ~HasVariable(v)
       THEN UNCHANGED attributes /\ Return("thrown")
       ELSE IF HasAttribute(v, a.name)
              THEN UNCHANGED attributes /\ Return("thrown")
              ELSE attributes' = With(attributes, v, Append(AttributesOf(v), a)) /\ Return("ok")

(* What addOrReplaceAttribute leaves under v: the attribute comes last. *)
AfterReplace(v, a) == Append(WithoutAttribute(AttributesOf(v), a.name), a)
AddOrReplaceAttribute(v, a) ==
  /\ Forget
  /\ UNCHANGED <<variables, dimensions>>
  /\ IF v # Global /\ ~HasVariable(v)
       THEN UNCHANGED attributes /\ Return("thrown")
       ELSE attributes' = With(attributes, v, AfterReplace(v, a)) /\ Return("ok")

RemoveAttribute(v, n) ==
  /\ Forget
  /\ UNCHANGED <<variables, dimensions>>
  /\ attributes' = IF v \in DOMAIN attributes
                     THEN With(attributes, v, WithoutAttribute(attributes[v], n)) ELSE attributes
  /\ Return("ok")

(* getVariable(v).setShape(shape): through the reference, unseen by the CDM. *)
SetShape(v, shape) ==
  /\ HasVariable(v)
  /\ variables' = [variables EXCEPT ![v].shape = shape]
  /\ touched' = coordsInitialized
  /\ UNCHANGED <<dimensions, attributes, coordsInitialized, coordSystems>>
  /\ Return("ok")

(* enhance, called by getProjectionOf, getTimeAxis and the other queries. *)
Enhance ==
  /\ ~coordsInitialized
  /\ coordsInitialized' = TRUE /\ touched' = FALSE
  /\ coordSystems' = model
  /\ UNCHANGED model
  /\ Return("ok")

-----------------------------------------------------------------------------
ChangeVariables ==
  \/ \E v \in Names, about \in Abouts, shape \in Shapes : AddVariable(v, about, shape)
  \/ \E v \in Names : RemoveVariable(v)
  \/ \E old, new \in Names : RenameVariable(old, new)
  \/ \E v \in Names, shape \in Shapes : SetShape(v, shape)
ChangeDimensions ==
  \/ \E d \in DimNames, about \in Dims : AddDimension(d, about)
  \/ \E d \in DimNames, ignore \in BOOLEAN : RemoveDimension(d, ignore)
  \/ \E old, new \in DimNames, ignore \in BOOLEAN : RenameDimension(old, new, ignore)
ChangeAttributes ==
  \E v \in Names \cup {Global}, n \in AttrNames :
     \/ \E x \in Values :
          \/ Len(AttributesOf(v)) < MaxAttributes /\ AddAttribute(v, [name |-> n, value |-> x])
          \/ /\ Len(AttributesOf(v)) < MaxAttributes \/ HasAttribute(v, n)
             /\ AddOrReplaceAttribute(v, [name |-> n, value |-> x])
     \/ RemoveAttribute(v, n)
Next == ChangeVariables \/ ChangeDimensions \/ ChangeAttributes \/ Enhance
Spec == Init /\ [][Next]_vars

-----------------------------------------------------------------------------
VariablesOK == IsPartialMap(variables, Names, Variable)

(* Attributes are filed only under the global name and the names of        *)
(* variables that exist, after every sequence of additions, removals and   *)
(* renames (renameVariable, removeVariable and addAttribute keep two maps  *)
(* in step): a variable added later never inherits attributes.             *)
AttributesOwned == DOMAIN attributes \subseteq DOMAIN variables \cup {Global}

(* Cached coordinate systems are those of the present model, unless a      *)
(* reference returned by getVariable was used since (enhance()'s flag).    *)
CacheFresh == coordsInitialized /\ ~touched => coordSystems = model

KnownShape(v) == \A i \in DOMAIN variables[v].shape : HasDimension(variables[v].shape[i])
SafeCall ==
  \/ \E d \in DimNames : RemoveDimension(d, FALSE)
  \/ \E old, new \in DimNames : RenameDimension(old, new, FALSE)

(* Removing and renaming without ignoreInUse never leave a variable with a *)
(* dimension that is gone, whatever shapes earlier calls have left.        *)
CheckedCallsKeepShapes ==
  [][SafeCall => \A v \in DOMAIN variables :
       KnownShape(v) => HasVariable(v)' /\ KnownShape(v)']_vars

(* After a rename that succeeds the new name carries what the old one did, *)
(* attributes in their order included, and the other variables theirs.     *)
RenameMovesAll ==
  [][\A old, new \in Names :
       RenameVariable(old, new) /\ HasVariable(old) /\ old # new =>
         /\ variables'[new] = variables[old] /\ ~HasVariable(old)'
         /\ AttributesOf(new)' = AttributesOf(old)
         /\ \A v \in DOMAIN variables \ {old, new} :
              variables'[v] = variables[v] /\ AttributesOf(v)' = AttributesOf(v)]_vars
=============================================================================
