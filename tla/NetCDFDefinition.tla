-------------------------- MODULE NetCDFDefinition --------------------------
(***************************************************************************)
(* The constructor of NetCDF_CDMWriter around its writeData: a file of the *)
(* format asked for is created, a copy of the reader's model is changed as *)
(* the configuration says, the file's dimensions, variables and attributes *)
(* are defined from it, and each datum is converted from what the reader's *)
(* model says of it to what the changed one says.  A wrong configuration,  *)
(* or a call of the library that fails, ends the constructor with an       *)
(* exception wherever it is; the file is there from the first step on.     *)
(***************************************************************************)
EXTENDS Integers, Sequences, FiniteSets, SequencesExt

CONSTANTS
  Models,        \* of readers: [dims, vars, atts], sequences in the order of the model
  Configs,       \* the documents /cdm_ncwriter_config
  UnitClasses    \* sets of units that convert into one another

VARIABLES
  config,        \* the document
  cdmReader,     \* the model of the reader, or of the one ncmlConfig puts in front of it
  cdm,           \* the copy
  variableNameChanges, dimensionNameChanges, variableCompression,
  nc,            \* the file: [format, dims, vars, atts, packed]
  step           \* of the constructor; "failed" after an exception, "terminated" when it
                 \* leaves the parallel loop

definitionVars == <<config, cdmReader, cdm, variableNameChanges, dimensionNameChanges, variableCompression, nc, step>>

Global == "/"
NoFile == [format |-> "none", dims |-> << >>, vars |-> << >>, atts |-> << >>, packed |-> << >>]

NamesIn(elements) == {e.name : e \in ToSet(elements)}
Named(elements, name) == CHOOSE e \in ToSet(elements) : e.name = name
\* std::map: of several elements for a name the last one counts.
LastOf(elements, name) == SelectLastInSeq(elements, LAMBDA e : e.name = name)
AsMap(elements, Value(_)) == [name \in NamesIn(elements) |-> Value(elements[LastOf(elements, name)])]
Renamed(changes, name) == IF name \in DOMAIN changes THEN changes[name] ELSE name

AttsOf(model, owner) == IF owner \in DOMAIN model.atts THEN model.atts[owner] ELSE << >>
HasAtt(model, owner, name) == name \in NamesIn(AttsOf(model, owner))
Att(model, owner, name) == Named(AttsOf(model, owner), name)
RemoveAttribute(model, owner, name) ==
  IF owner \notin DOMAIN model.atts THEN model
  ELSE [model EXCEPT !.atts[owner] = SelectSeq(@, LAMBDA a : a.name # name)]
AddAttribute(model, owner, att) == [model EXCEPT !.atts = (owner :> Append(AttsOf(model, owner), att)) @@ @]
RemoveVariable(model, name) ==
  [model EXCEPT !.vars = SelectSeq(@, LAMBDA v : v.name # name),
                !.atts = [o \in DOMAIN @ \ {name} |-> @[o]]]
InUse(model, dim) == \E v \in ToSet(model.vars) : dim \in ToSet(v.shape)
RemoveUnused(model, Unwanted(_)) ==
  [model EXCEPT !.dims = SelectSeq(@, LAMBDA d : InUse(model, d.name) \/ ~Unwanted(d.name))]

-----------------------------------------------------------------------------
Goto(next) == step' = next
Throw == step' = "failed"
changes == <<variableNameChanges, dimensionNameChanges, variableCompression>>

(* getNcVersion: an unknown version is 3, an unknown file type an exception *)
(* before the file is there.  What was in a file of that name is gone.      *)
FormatOf(version, filetype) ==
  IF filetype = "" THEN IF version = 4 THEN "netcdf4classic" ELSE "netcdf3" ELSE filetype
Formats == {"netcdf3", "netcdf3_64bit", "netcdf4", "netcdf4classic"}
Create ==
  /\ step = "create"
  /\ LET format == FormatOf(config.version, config.filetype)
     IN IF format \in Formats THEN nc' = [nc EXCEPT !.format = format] /\ Goto("ncml")
        ELSE Throw /\ UNCHANGED nc
  /\ UNCHANGED <<config, cdmReader, cdm, changes>>

InitNcmlReader ==
  /\ step = "ncml"
  /\ IF Len(config.ncml) > 1 THEN Throw /\ UNCHANGED <<cdmReader, cdm>>
     ELSE /\ cdmReader' = IF config.ncml = << >> THEN cdmReader ELSE Head(config.ncml)
          /\ cdm' = cdmReader'
          /\ Goto("remove")
  /\ UNCHANGED <<config, changes, nc>>

(* Attributes, then variables, then dimensions, of which those in use stay; *)
(* at last all dimensions nothing uses, if that is not switched off.        *)
InitRemove ==
  /\ step = "remove"
  /\ LET of(type) == SelectSeq(config.removes, LAMBDA r : r.type = type)
         lessAtts == FoldLeft(LAMBDA model, r : RemoveAttribute(model, r.owner, r.name), cdm, of("attribute"))
         lessVars == FoldLeft(LAMBDA model, r : RemoveVariable(model, r.name), lessAtts, of("variable"))
         unwanted(d) == config.autoRemove \/ d \in NamesIn(of("dimension"))
     IN cdm' = RemoveUnused(lessVars, unwanted)
  /\ Goto("variables")
  /\ UNCHANGED <<config, cdmReader, changes, nc>>

(* New names, types and compressions.  A type that is not understood is     *)
(* "NAT"; the types are changed in the copy.                                *)
InitFillRenameVariable ==
  /\ step = "variables"
  /\ IF ~(NamesIn(config.renames) \union NamesIn(config.types) \subseteq NamesIn(cdm.vars))
     THEN Throw /\ UNCHANGED <<cdm, variableNameChanges, variableCompression>>
     ELSE /\ variableNameChanges' = AsMap(config.renames, LAMBDA e : e.newname)
          /\ LET types == AsMap(config.types, LAMBDA e : e.type)
             IN cdm' = [cdm EXCEPT !.vars = [i \in DOMAIN @ |->
                         [@[i] EXCEPT !.type = IF cdm.vars[i].name \in DOMAIN types THEN types[cdm.vars[i].name] ELSE @]]]
          /\ variableCompression' = AsMap(config.compressions, LAMBDA e : e.level) @@ [name \in NamesIn(cdm.vars) |-> config.compression]
          /\ Goto("dimensions")
  /\ UNCHANGED <<config, cdmReader, dimensionNameChanges, nc>>

(* The variable of a dimension takes its new name, unless it has its own.   *)
VariablesOfDimensions(renamed) == variableNameChanges @@ renamed
InitFillRenameDimension ==
  /\ step = "dimensions"
  /\ IF ~(NamesIn(config.dimRenames) \subseteq NamesIn(cdm.dims))
     THEN Throw /\ UNCHANGED <<variableNameChanges, dimensionNameChanges>>
     ELSE /\ dimensionNameChanges' = AsMap(config.dimRenames, LAMBDA e : e.newname)
          \* the first element for a dimension names its variable, the last one the dimension
          /\ LET first == AsMap(Reverse(config.dimRenames), LAMBDA e : e.newname)
             IN variableNameChanges' = VariablesOfDimensions(first)
          /\ Goto("attributes")
  /\ UNCHANGED <<config, cdmReader, cdm, variableCompression, nc>>

(* An attribute is removed and added again, under its new name and with its *)
(* new value; without a type the old value stays, whatever value is given.  *)
Failed == [failed |-> TRUE]
WithAttribute(model, e) ==
  LET newname == IF e.newname = "" THEN e.name ELSE e.newname
      without == RemoveAttribute(model, e.owner, e.name)
      old == Att(model, e.owner, e.name)
  IN IF "failed" \in DOMAIN model \/ e.owner \notin NamesIn(model.vars) \union {Global}
        \/ (e.type = "" /\ ~HasAtt(model, e.owner, e.name)) \/ HasAtt(without, e.owner, newname)
     THEN Failed
     ELSE AddAttribute(without, e.owner,
            IF e.type = "" THEN [old EXCEPT !.name = newname] ELSE [name |-> newname, type |-> e.type, value |-> e.value])
InitFillRenameAttribute ==
  /\ step = "attributes"
  /\ LET model == FoldLeft(WithAttribute, cdm, config.attributes)
     IN IF model = Failed THEN Throw /\ UNCHANGED cdm ELSE cdm' = model /\ Goto("defineDimensions")
  /\ UNCHANGED <<config, cdmReader, changes, nc>>

-----------------------------------------------------------------------------
(* A dimension of length 0 gets 1, for 0 means unlimited to the library.    *)
(* The classic model has one unlimited dimension.                           *)
Distinct(names) == \A i, j \in DOMAIN names : names[i] = names[j] => i = j
Classic == nc.format # "netcdf4"
Unlimited == 0
DefineDimensions ==
  /\ step = "defineDimensions"
  /\ LET defined == [i \in DOMAIN cdm.dims |->
           [name |-> Renamed(dimensionNameChanges, cdm.dims[i].name),
            length |-> IF cdm.dims[i].unlimited THEN Unlimited ELSE IF cdm.dims[i].length = 0 THEN 1 ELSE cdm.dims[i].length]]
     IN IF ~Distinct([i \in DOMAIN defined |-> defined[i].name])
           \/ (Classic /\ Cardinality({i \in DOMAIN defined : defined[i].length = Unlimited}) > 1)
        THEN Throw /\ UNCHANGED nc
        ELSE nc' = [nc EXCEPT !.dims = defined] /\ Goto("defineVariables")
  /\ UNCHANGED <<config, cdmReader, cdm, changes>>

(* Chunks are whole in the first dimensions of the model, up to a size.     *)
(* size is the product of the lengths, not of the chunks.                   *)
DEFAULT_CHUNK == 2097152
MIN_CHUNK == 131072
Clamped(low, value, high) == IF value < low THEN low ELSE IF value < high THEN value ELSE high
ConfiguredChunk(length, configured) == Clamped(1, length, configured)
WithChunk(acc, dim) ==
  LET d == Named(cdm.dims, dim)
      length == IF d.unlimited THEN 1 ELSE d.length
      configured == AsMap(config.chunks, LAMBDA e : e.size)
      whole == acc.size * length
      own == IF dim \in DOMAIN configured THEN ConfiguredChunk(length, configured[dim])
             ELSE IF whole < DEFAULT_CHUNK THEN length
             ELSE IF length > 1 /\ acc.size < MIN_CHUNK THEN Clamped(1, whole \div MIN_CHUNK, length) ELSE 1
  IN [size |-> acc.size * (IF dim \in DOMAIN configured THEN own ELSE length), chunks |-> <<own>> \o acc.chunks]
Chunks(shape) ==
  LET all == FoldLeft(WithChunk, [size |-> 1, chunks |-> << >>], shape)
  IN IF all.size > 0 THEN all.chunks ELSE << >>

(* Above 10 the level stands for shuffling too: 10 itself stays 10.         *)
Level(name) == IF variableCompression[name] > 10 THEN variableCompression[name] - 10 ELSE variableCompression[name]
Compressed(v) == nc.format \in {"netcdf4", "netcdf4classic"} /\ Level(v.name) > 0 /\ v.shape # << >>
FileType(v) == IF v.type = "NAT" /\ v.shape = << >> THEN "int" ELSE v.type
Known(type) == type # "NAT" /\ (Classic => type \notin {"uint", "strings"})
DefineVariables ==
  /\ step = "defineVariables"
  /\ LET defined == [i \in DOMAIN cdm.vars |->
           [name |-> Renamed(variableNameChanges, cdm.vars[i].name), type |-> FileType(cdm.vars[i]),
            dims |-> Reverse([j \in DOMAIN cdm.vars[i].shape |-> Renamed(dimensionNameChanges, cdm.vars[i].shape[j])]),
            chunks |-> IF Compressed(cdm.vars[i]) THEN Chunks(cdm.vars[i].shape) ELSE << >>]]
     IN IF ~Distinct([i \in DOMAIN defined |-> defined[i].name])
           \/ \E i \in DOMAIN defined : ~Known(defined[i].type) \/ (Compressed(cdm.vars[i]) /\ Level(cdm.vars[i].name) > 9)
        THEN Throw /\ UNCHANGED nc
        ELSE nc' = [nc EXCEPT !.vars = defined] /\ Goto("writeAttributes")
  /\ UNCHANGED <<config, cdmReader, cdm, changes>>

(* Several texts have no place in a file of the classic model.              *)
WriteAttributes ==
  /\ step = "writeAttributes"
  /\ IF \E o \in DOMAIN cdm.atts : \E a \in ToSet(cdm.atts[o]) : ~Known(a.type)
     THEN Throw /\ UNCHANGED nc
     ELSE nc' = [nc EXCEPT !.atts = cdm.atts] /\ Goto("writeData")
  /\ UNCHANGED <<config, cdmReader, cdm, changes>>

-----------------------------------------------------------------------------
(* How a model says that the data of a variable are packed.                 *)
Throws == "throws"
GetFillValue(model, name) ==
  LET v == Named(model.vars, name)
      given == {n \in {"_FillValue", "missing_value"} : HasAtt(model, name, n)}
      att == Att(model, name, IF "_FillValue" \in given THEN "_FillValue" ELSE "missing_value")
  IN IF given = {} THEN "fill of " \o v.type ELSE IF att.type = v.type THEN att.value ELSE Throws
ValueOf(model, name, att, default) == IF HasAtt(model, name, att) THEN Att(model, name, att).value ELSE default
Packing(model, name) ==
  [fill |-> GetFillValue(model, name), unit |-> ValueOf(model, name, "units", ""),
   scale |-> ValueOf(model, name, "scale_factor", "1"), offset |-> ValueOf(model, name, "add_offset", "0")]
Convertible(from, to) == from = to \/ \E class \in UnitClasses : {from, to} \subseteq class

(* Data whose units do not convert are written as they were read.           *)
(* A slip: the units alone are compared.                                    *)
MutConvertData(v) ==
  LET old == Packing(cdmReader, v.name) new == Packing(cdm, v.name)
  IN IF v.type # "NAT" /\ old.unit # new.unit /\ Convertible(old.unit, new.unit) THEN new ELSE old
ConvertData(v) ==
  LET old == Packing(cdmReader, v.name) new == Packing(cdm, v.name)
  IN IF v.type # "NAT" /\ old # new /\ Convertible(old.unit, new.unit) THEN new ELSE old

(* A variable whose model and fill value disagree stops the writing; when   *)
(* it has no data, in a file that the library does not fill, the exception  *)
(* is not caught.  Data of no type are not written.                         *)
Disagree(v) == Throws \in {GetFillValue(cdmReader, v.name), GetFillValue(cdm, v.name)}
WriteData ==
  /\ step = "writeData"
  /\ LET all == ToSet(cdm.vars)
         \* nc_set_fill: format < 3
         unfilled == {v \in all : v.empty /\ nc.format \in {"netcdf3", "netcdf3_64bit"}}
         written == {v \in all : ~v.empty /\ v.type # "NAT"}
         stops == \E v \in all : ~v.empty /\ Disagree(v)
         leaves == \E v \in unfilled : GetFillValue(cdm, v.name) = Throws
     IN \/ stops /\ Throw /\ UNCHANGED nc
        \/ leaves /\ Goto("terminated") /\ UNCHANGED nc
        \/ /\ ~stops /\ ~leaves
           /\ nc' = [nc EXCEPT !.packed = [name \in {v.name : v \in written} |-> ConvertData(Named(cdm.vars, name))]]
           /\ Goto("written")
  /\ UNCHANGED <<config, cdmReader, cdm, changes>>

DefinitionInit ==
  /\ config \in Configs /\ cdmReader \in Models /\ cdm = cdmReader
  /\ variableNameChanges = << >> /\ dimensionNameChanges = << >> /\ variableCompression = << >>
  /\ nc = NoFile /\ step = "create"

DefinitionNext ==
  \/ Create \/ InitNcmlReader \/ InitRemove \/ InitFillRenameVariable \/ InitFillRenameDimension
  \/ InitFillRenameAttribute \/ DefineDimensions \/ DefineVariables \/ WriteAttributes \/ WriteData

DefinitionSpec == DefinitionInit /\ [][DefinitionNext]_definitionVars

-----------------------------------------------------------------------------
(* What a file that was written should be, from the reader and the document *)
(* alone.                                                                   *)
Kept == {v \in ToSet(cdmReader.vars) : ~\E r \in ToSet(config.removes) : r.type = "variable" /\ r.name = v.name}
Asked(elements, name) == {e.newname : e \in {x \in ToSet(elements) : x.name = name}}
NamesFor(v) ==
  IF Asked(config.renames, v.name) # {} THEN Asked(config.renames, v.name)
  ELSE IF Asked(config.dimRenames, v.name) # {} THEN Asked(config.dimRenames, v.name) ELSE {v.name}
DimNamesFor(dim) == IF Asked(config.dimRenames, dim) # {} THEN Asked(config.dimRenames, dim) ELSE {dim}

EachVariableOnce ==
  /\ Cardinality(Kept) = Len(nc.vars)
  /\ \A v \in Kept : \E f \in ToSet(nc.vars) :
       /\ f.name \in NamesFor(v) /\ Len(f.dims) = Len(v.shape)
       /\ \A j \in DOMAIN v.shape :
            LET dim == f.dims[Len(v.shape) + 1 - j] d == Named(cdmReader.dims, v.shape[j])
            IN /\ dim \in DimNamesFor(v.shape[j])
               /\ d.unlimited \/ Named(nc.dims, dim).length = (IF d.length = 0 THEN 1 ELSE d.length)
ChunksFit ==
  \A f \in ToSet(nc.vars) : \A j \in DOMAIN f.chunks :
    LET length == Named(nc.dims, f.dims[j]).length
    IN f.chunks[j] >= 1 /\ (length = Unlimited \/ f.chunks[j] <= length)
PackedAsSaid ==
  \A name \in DOMAIN nc.packed :
    LET said == Packing([vars |-> cdm.vars, atts |-> nc.atts], name)
    IN Convertible(Packing(cdmReader, name).unit, said.unit) => nc.packed[name] = said

\* A file that was written without an exception holds each variable that was not removed once,
\* under the name asked for it or else for its dimension, over the dimensions of the reader; no
\* chunk is longer than its dimension; and what the attributes in the file say of units, scale and
\* fill is true of the data, unless the units do not convert (initRemove, initFillRename...,
\* defineDimensions, defineVariables, writeAttributes, convertData).
FileAsConfigured == step = "written" => EachVariableOnce /\ ChunksFit /\ PackedAsSaid
=============================================================================
