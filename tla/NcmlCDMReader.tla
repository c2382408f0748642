--------------------------- MODULE NcmlCDMReader ---------------------------
(***************************************************************************)
(* A reader that changes the model of another reader as an NcML document   *)
(* says, element by element, and sends reads of its variables to the other *)
(* reader under the names they have there.                                 *)
(***************************************************************************)
EXTENDS Naturals, Sequences, Functions

CONSTANTS
  Names, Global, DimNames, AttrNames, Values, Types,
  None,         \* an attribute the XML element does not have
  Source,       \* the model of the other reader: variables, dimensions, attributes
  Documents     \* documents: the sequences removes, dims, vars and atts of elements

VARIABLES
  variables, dimensions, attributes, coordsInitialized, coordSystems, touched, result,
  doc,                   \* the document
  phase, at,             \* the init... method that runs, and the element it is at
  variableNameChanges,   \* names here -> names there
  variableTypeChanges,
  dimensionNameChanges   \* names there -> names here

Abouts == [of: Names \cup {None}, type: Types, memory: BOOLEAN]
Model == INSTANCE CDM WITH
  Dims <- Nat, Shapes <- Seq(DimNames), MaxAttributes <- 0

cache == <<coordsInitialized, coordSystems, touched>>
model == <<variables, dimensions, attributes, cache, result>>
changes == <<variableNameChanges, variableTypeChanges, dimensionNameChanges>>
vars == <<model, doc, phase, at, changes>>

Phases == <<"remove", "dimName", "dimLength", "shape", "varName", "varAdd", "type", "values",
            "attName", "attSet", "ready">>
Elements ==
  CASE phase = "remove" -> doc.removes
    [] phase \in {"dimName", "dimLength"} -> doc.dims
    [] phase \in {"shape", "varName", "varAdd", "type", "values"} -> doc.vars
    [] phase \in {"attName", "attSet"} -> doc.atts
    [] OTHER -> <<>>
e == Elements[at]
At(p) == phase = p /\ at <= Len(Elements)

Init ==
  /\ doc \in Documents
  /\ variables = Source.variables
  /\ dimensions = Source.dimensions
  /\ attributes = Source.attributes
  /\ coordsInitialized = FALSE /\ coordSystems = <<>> /\ touched = FALSE /\ result = "ok"
  /\ phase = "remove" /\ at = 1
  /\ variableNameChanges = <<>> /\ variableTypeChanges = <<>> /\ dimensionNameChanges = <<>>

(* The next element, or, when a call threw, the end of the constructor. *)
Continue ==
  /\ UNCHANGED doc
  /\ IF result' = "thrown" THEN phase' = "failed" /\ UNCHANGED at
                           ELSE at' = at + 1 /\ UNCHANGED phase
Skip == UNCHANGED <<model, changes>> /\ at' = at + 1 /\ UNCHANGED <<phase, doc>>
NextPhase ==
  /\ phase \notin {"ready", "failed"}
  /\ at > Len(Elements)
  /\ phase' = Phases[1 + CHOOSE i \in DOMAIN Phases : Phases[i] = phase]
  /\ at' = 1
  /\ UNCHANGED <<model, doc, changes>>

-----------------------------------------------------------------------------
InitRemove ==
  /\ At("remove")
  /\ \/ e.type = "variable" /\ Model!RemoveVariable(e.name)
     \/ e.type = "dimension" /\ Model!RemoveDimension(e.name, FALSE)
     \/ e.type = "attribute" /\ Model!RemoveAttribute(e.owner, e.name)
  /\ UNCHANGED changes
  /\ Continue

(* The map of the changed dimensions is keyed by the name in the source. *)
InitDimensionNameChange ==
  /\ At("dimName")
  /\ IF e.orgName # None /\ Model!HasDimension(e.orgName)
       THEN /\ Model!RenameDimension(e.orgName, e.name, e.overwrite)
            /\ dimensionNameChanges' =
                 IF result' = "thrown" THEN dimensionNameChanges
                 ELSE Model!With(dimensionNameChanges, e.orgName, e.name)
            /\ UNCHANGED <<variableNameChanges, variableTypeChanges>>
            /\ Continue
       ELSE Skip

(* A length is given to a new dimension, or changed through the reference. *)
InitDimensionLength ==
  /\ At("dimLength")
  /\ \/ e.length = None /\ Skip
     \/ /\ e.length # None /\ ~Model!HasDimension(e.name)
        /\ Model!AddDimension(e.name, e.length)
        /\ UNCHANGED changes
        /\ Continue
     \/ /\ e.length # None /\ Model!HasDimension(e.name)
        /\ dimensions' = [dimensions EXCEPT ![e.name] = e.length]
        /\ UNCHANGED <<variables, attributes, cache, changes>>
        /\ Model!Return("ok")
        /\ Continue

InitVariableShapeChange ==
  /\ At("shape")
  /\ LET name == IF e.orgName # None THEN e.orgName ELSE e.name
     IN  IF e.shape # None /\ Model!HasVariable(name)
           THEN Model!SetShape(name, e.shape) /\ UNCHANGED changes /\ Continue
           ELSE Skip

(* a slip: keyed by the name in the source, as the dimensions are *)
MutNameNoted == Model!With(variableNameChanges, e.orgName, e.name)
(* What initVariableNameChange notes, whether or not the rename succeeded. *)
NameNoted == Model!With(variableNameChanges, e.name, e.orgName)
InitVariableNameChange ==
  /\ At("varName")
  /\ IF e.orgName # None /\ Model!HasVariable(e.orgName)
       THEN /\ Model!RenameVariable(e.orgName, e.name)
            /\ variableNameChanges' = NameNoted
            /\ UNCHANGED <<variableTypeChanges, dimensionNameChanges>>
            /\ Continue
       ELSE Skip

(* Variables the source does not have are added with empty data in memory. *)
InitVariableAdd ==
  /\ At("varAdd")
  /\ IF e.orgName = None /\ e.type # None /\ ~Model!HasVariable(e.name)
       THEN /\ Model!AddVariable(e.name, [of |-> None, type |-> e.type, memory |-> TRUE],
                                 IF e.shape = None THEN <<>> ELSE e.shape)
            /\ UNCHANGED changes
            /\ Continue
       ELSE Skip

TypeNoted == Model!With(variableTypeChanges, e.name, e.type)
(* Noted only when the type differs from the present one; data held in     *)
(* memory have the old type and are dropped by setDataType.                *)
InitVariableTypeChange ==
  /\ At("type")
  /\ IF e.type # None /\ Model!HasVariable(e.name) /\ variables[e.name].about.type # e.type
       THEN /\ variables' = [variables EXCEPT ![e.name].about.type = e.type,
                                           ![e.name].about.memory = FALSE]
            /\ variableTypeChanges' = TypeNoted
            /\ UNCHANGED <<dimensions, attributes, cache, variableNameChanges, dimensionNameChanges>>
            /\ Model!Return("ok")
            /\ Continue
       ELSE Skip

(* Values replace the data; a shape with an unknown dimension throws. *)
InitVariableDataChange ==
  /\ At("values")
  /\ IF e.values /\ Model!HasVariable(e.name)
       THEN /\ IF Model!KnownShape(e.name)
                 THEN /\ variables' = [variables EXCEPT ![e.name].about.memory = TRUE]
                      /\ Model!Return("ok")
                 ELSE UNCHANGED variables /\ Model!Return("thrown")
            /\ UNCHANGED <<dimensions, attributes, cache, changes>>
            /\ Continue
       ELSE Skip

(* initAttributeNameChange takes a reference to the attribute, removes the  *)
(* others of the new name from the vector it lies in, then renames through *)
(* the reference, which stays at its place in the vector. Behind the end   *)
(* (undefined behaviour) the vector does not change, or the program stops. *)
Position(v, n) == CHOOSE i \in DOMAIN Model!AttributesOf(v) : Model!AttributesOf(v)[i].name = n
AfterAttributeRename(v, old, new) ==
  LET rest == Model!WithoutAttribute(Model!AttributesOf(v), new)
      i == Position(v, old)
  IN  IF i \in DOMAIN rest THEN [rest EXCEPT ![i].name = new] ELSE rest
BehindTheEnd(v, old, new) ==
  Position(v, old) > Len(Model!WithoutAttribute(Model!AttributesOf(v), new))
InitAttributeNameChange ==
  /\ At("attName")
  /\ IF e.orgName # None /\ Model!HasAttribute(e.owner, e.orgName)
       THEN /\ attributes' = [attributes EXCEPT
                 ![e.owner] = AfterAttributeRename(e.owner, e.orgName, e.name)]
            /\ UNCHANGED <<variables, dimensions, changes>>
            /\ Model!Forget
            /\ Model!Return("ok")
            /\ \/ Continue
               \/ /\ BehindTheEnd(e.owner, e.orgName, e.name)
                  /\ phase' = "failed" /\ UNCHANGED <<at, doc>>
       ELSE Skip

(* removeAttribute and addAttribute; the latter throws without a variable. *)
InitAddReassignAttribute ==
  /\ At("attSet")
  /\ IF e.value # None
       THEN /\ Model!AddOrReplaceAttribute(e.owner, [name |-> e.name, value |-> e.value])
            /\ UNCHANGED changes
            /\ Continue
       ELSE Skip

Next ==
  \/ NextPhase \/ InitRemove \/ InitDimensionNameChange \/ InitDimensionLength
  \/ InitVariableShapeChange \/ InitVariableNameChange \/ InitVariableAdd
  \/ InitVariableTypeChange \/ InitVariableDataChange \/ InitAttributeNameChange
  \/ InitAddReassignAttribute
Spec == Init /\ [][Next]_vars

-----------------------------------------------------------------------------
(* getDataSlice(v, sb): sb selects start and size in each dimension here;  *)
(* what is read is a selection in each dimension of the variable there.    *)
OrgName(v) == IF v \in DOMAIN variableNameChanges THEN variableNameChanges[v] ELSE v
NewDim(d) == IF d \in DOMAIN dimensionNameChanges THEN dimensionNameChanges[d] ELSE d
OrgShape(v) == Source.variables[OrgName(v)].shape
Outside(v, start, size) ==
  \E i \in DOMAIN OrgShape(v) :
     /\ Model!CheckDimension(v, NewDim(OrgShape(v)[i]))
     /\ start[NewDim(OrgShape(v)[i])] + size[NewDim(OrgShape(v)[i])] > Source.dimensions[OrgShape(v)[i]]
OrgSelection(v, start, size) ==
  [i \in DOMAIN OrgShape(v) |->
     LET d == NewDim(OrgShape(v)[i])
     IN  IF Model!CheckDimension(v, d) THEN <<start[d], size[d]>> ELSE <<0, 1>>]
GetDataSlice(v, start, size) ==
  IF variables[v].about.memory THEN [from |-> "memory"]
  ELSE IF OrgName(v) \notin DOMAIN Source.variables THEN [from |-> "thrown"]
  ELSE IF Outside(v, start, size) THEN [from |-> "empty", type |-> variables[v].about.type]
  ELSE [from |-> "source", of |-> OrgName(v), selection |-> OrgSelection(v, start, size),
        type |-> IF v \in DOMAIN variableTypeChanges THEN variableTypeChanges[v]
                 ELSE Source.variables[OrgName(v)].about.type]

-----------------------------------------------------------------------------

(* An element that renames what an earlier element gave its name to.       *)
Chained(elements) ==
  \E i, j \in DOMAIN elements :
     i < j /\ elements[i].orgName # None /\ elements[j].orgName = elements[i].name
NamedTwice(elements) ==
  \E i, j \in DOMAIN elements : i < j /\ elements[i].name = elements[j].name
DimensionsAsInSource ==
  /\ \A i \in DOMAIN doc.dims : ~doc.dims[i].overwrite /\ doc.dims[i].length = None
  /\ \A i \in DOMAIN doc.vars : doc.vars[i].shape = None

(* The variables whose data come from the source, and the reads of them.   *)
Opened(v) ==
  /\ phase = "ready"
  /\ Model!HasVariable(v) /\ ~variables[v].about.memory /\ Model!KnownShape(v)
ShapeDims(v) == {variables[v].shape[i] : i \in DOMAIN variables[v].shape}
SlabsUpTo(n) == {p \in (0 .. n) \X (0 .. n) : p[1] + p[2] <= n}
Requests(v) ==
  {r \in [ShapeDims(v) -> UNION {SlabsUpTo(dimensions[d]) : d \in ShapeDims(v)}] :
     \A d \in ShapeDims(v) : r[d] \in SlabsUpTo(dimensions[d])}
DataOf(v, r) == GetDataSlice(v, [d \in ShapeDims(v) |-> r[d][1]], [d \in ShapeDims(v) |-> r[d][2]])

(* Whatever is renamed, removed, added and retyped, in documents that say  *)
(* one thing of a variable, a read brings data of the very variable the    *)
(* description of which it is asked under, in the type announced for it;   *)
(* and when the dimensions are those of the source under new names, it     *)
(* takes from each dimension there what was asked of its new name here.    *)
ReadsDescribed ==
  ~Chained(doc.vars) /\ ~NamedTwice(doc.vars) => \A v \in Names : Opened(v) => \A r \in Requests(v) :
     LET data == DataOf(v, r)
     IN  /\ data.from \in {"source", "empty"}
         /\ data.from = "source" => data.of = variables[v].about.of
         /\ data.type = variables[v].about.type
         /\ DimensionsAsInSource /\ ~Chained(doc.dims) =>
              /\ data.from = "source"
              /\ data.selection = [i \in DOMAIN variables[v].shape |-> r[variables[v].shape[i]]]

(* A renamed attribute is known by one name, though the rename goes        *)
(* through a reference into a vector from which others were removed.       *)
AttributesDistinct ==
  \A v \in DOMAIN attributes : \A i, j \in DOMAIN attributes[v] :
     attributes[v][i].name = attributes[v][j].name => i = j

(* What is described is what is read, after any document (the constructor   *)
(* of NcmlCDMReader, getDataSlice).                                         *)
ModelAsDescribed == ReadsDescribed /\ AttributesDistinct
=============================================================================
