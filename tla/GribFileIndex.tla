--------------------------- MODULE GribFileIndex ---------------------------
(* Indexing GRIB files: GribFileMessage decodes the header of one message,  *)
(* GribFileIndex lists the messages of a file and joins that list to an     *)
(* index stored as text (grbml), and every entry finds its message again by *)
(* the file, the position and the part of a multi-message.  The program     *)
(* fiIndexGribs makes an index of several files or appends one to a stored  *)
(* index; it truncates the text before it writes it, so that a run that     *)
(* ends early leaves part of it.                                            *)
EXTENDS Integers, FiniteSets, Sequences, SequencesExt

CONSTANTS
  GribFiles,     \* file -> possible contents: each a sequence of multi-messages
  IndexInputs,   \* the lists of files a run may be given, none of them twice
  IndexOptions,  \* what a configuration may say: [figure, keys], no figure: ""
  Flushed,       \* numbers of messages that may have reached a text that is cut short
  Members,       \* names of the ensemble members: file -> member, or none
  MaxIndexed     \* bound on the number of runs

(* A degree has thousand units; NotANumber is outside every range in use.   *)
NotANumber == -1000000000

VARIABLES
  gribDisk,      \* file -> contents
  grbml,         \* the stored index: [messages, end]; a message is a sequence of
                 \* elements, the end is "ended", "between" or "inside" a message
  indexed        \* the latest run: [inputs, append, outcome, n] and, kept for the properties,
                 \* the entries the text was written from
indexVars == <<gribDisk, grbml, indexed>>

-----------------------------------------------------------------------------
(* The grid of a message.  A division is rounded down where the code keeps  *)
(* the fraction.                                                            *)
Decimal(value, factor) == IF factor >= 0 THEN value * 10^factor ELSE value \div 10^(-factor)

Oblate(raw) == [a |-> Decimal(raw.major, raw.majorFactor),
                b |-> Decimal(raw.minor, raw.minorFactor)]

EarthsFigure(edition, raw, overrule) ==
  CASE overrule # "" -> [of |-> overrule]
    [] overrule = "" /\ edition = 1 -> [of |-> IF raw.shape = 0 THEN "sphere" ELSE "oblate"]
    [] overrule = "" /\ edition # 1 /\ raw.shape = 1 -> [radius |-> raw.major]
    [] overrule = "" /\ edition # 1 /\ raw.shape \in {3, 7} -> Oblate(raw)
    [] overrule = "" /\ edition # 1 /\ raw.shape \notin {1, 3, 7} -> [code |-> raw.shape]

UnknownFigure(edition, raw, overrule) ==
  overrule = "" /\ edition # 1 /\ raw.shape \notin 0..8

Apart(a, b) == a - b > 1 \/ b - a > 1

(* The increment of an axis from its end points, or as given when they      *)
(* disagree, as around the date line.                                       *)
SignedIncrement(g) == IF g.backward THEN -g.increment ELSE g.increment

RegularIncrement(g) ==
  IF g.n = 1 THEN NotANumber
  ELSE LET between == (g.last - g.first) \div (g.n - 1)
       IN  IF g.increment # 0 /\ Apart(SignedIncrement(g), between)
           THEN SignedIncrement(g) ELSE between

RotatedIncrement(g) ==
  IF g.increment = 0 THEN (g.last - g.first) \div g.n ELSE SignedIncrement(g)

KnownGrids == {"regular_ll", "rotated_ll", "lambert", "lambert_lam", "mercator",
               "polar_stereographic"}

(* The first point is known to the precision of the edition: one unit, or   *)
(* less than a unit.                                                        *)
LonLatResolution(edition) == IF edition = 1 THEN 1 ELSE 0

Turned(longitude) == (longitude + 360000) % 360000

ProjectionOf(typeOfGrid) == IF typeOfGrid = "lambert_lam" THEN "lambert" ELSE typeOfGrid

GridOf(edition, g, overrule) ==
  [projection |-> ProjectionOf(g.type), figure |-> EarthsFigure(edition, g, overrule),
   n |-> g.n, increment |-> CASE g.type = "regular_ll" -> RegularIncrement(g)
                   [] g.type = "rotated_ll" -> RotatedIncrement(g)
                   [] OTHER -> g.increment,
   start |-> g.first, lonStart |-> Turned(g.first), resolution |-> LonLatResolution(edition)]

-----------------------------------------------------------------------------
(* The ensemble of a message: the keys of the message, the member its file  *)
(* stands for, or a cluster.  -1 is a key the message does not have.        *)
MemberOf(file) ==
  IF \E i \in DOMAIN Members : Members[i] = file
  THEN [number |-> SelectInSeq(Members, LAMBDA f : f = file) - 1, total |-> Len(Members)]
  ELSE [number |-> 0, total |-> 0]

ForecastOf(raw, file) ==
  CASE raw.total >= 0 /\ raw.number >= 0 -> [number |-> raw.number, total |-> raw.total]
    [] raw.total >= 0 /\ raw.number < 0 -> [number |-> 0, total |-> 0]
    [] raw.total < 0 -> MemberOf(file)

Ensemble(raw, file) ==
  LET forecast == ForecastOf(raw, file)
  IN  CASE forecast.total # 0 -> forecast
        [] forecast.total = 0 /\ raw.clusters >= 0 ->
             [number |-> IF raw.cluster < 0 THEN 0 ELSE raw.cluster, total |-> raw.clusters]
        [] forecast.total = 0 /\ raw.clusters < 0 -> [number |-> 0, total |-> 0]

(* What becomes of a message: it is listed, it is left out with a warning   *)
(* (CDMException), or the whole call fails (any other exception).           *)
Fate(raw, overrule) ==
  CASE raw.edition \notin {1, 2} \/ ~raw.complete -> "fails"
    [] raw.edition \in {1, 2} /\ raw.complete
         /\ (raw.grid.type \notin KnownGrids \/ raw.asimof
             \/ UnknownFigure(raw.edition, raw.grid, overrule)) -> "ignored"
    [] OTHER -> "listed"

(* The keys of a configuration that the message has.                        *)
OtherKeys(raw, keys) == Restrict(raw.keys, keys \intersect DOMAIN raw.keys)

Decoded(raw, file, at, part, options) ==
  LET ensemble == Ensemble(raw, file)
  IN  [file |-> file, at |-> at, part |-> part, edition |-> raw.edition,
       param |-> raw.param, name |-> IF raw.name = "unknown" THEN raw.param ELSE raw.name,
       others |-> OtherKeys(raw, options.keys),
       levelType |-> raw.levelType, level |-> raw.level,
       reference |-> raw.reference, unit |-> raw.unit, stepType |-> raw.stepType, step |-> raw.step,
       number |-> ensemble.number, total |-> ensemble.total,
       typeOfGrid |-> raw.grid.type, grid |-> GridOf(raw.edition, raw.grid, options.figure)]

(* The messages of a file: [at, part] of every one in the order of the file.*)
Places(contents) ==
  FlattenSeq([i \in DOMAIN contents |->
               [p \in DOMAIN contents[i] |-> [at |-> i, part |-> p - 1]]])

RawAt(contents, place) == contents[place.at][place.part + 1]

(* A slip: a part that is left out does not count.                          *)
MutListed(contents, file, options) ==
  LET kept == SelectSeq(Places(contents),
                        LAMBDA p : Fate(RawAt(contents, p), options.figure) = "listed")
      PartOf(i) == Cardinality({j \in 1..(i - 1) : kept[j].at = kept[i].at})
  IN  [i \in DOMAIN kept |->
        Decoded(RawAt(contents, kept[i]), file, kept[i].at, PartOf(i), options)]

Listed(contents, file, options) ==
  LET kept == SelectSeq(Places(contents),
                        LAMBDA p : Fate(RawAt(contents, p), options.figure) = "listed")
  IN  [i \in DOMAIN kept |->
        Decoded(RawAt(contents, kept[i]), file, kept[i].at, kept[i].part, options)]

FailsAt(file, options) ==
  \E p \in ToSet(Places(gribDisk[file])) : Fate(RawAt(gribDisk[file], p), options.figure) = "fails"

Entries(files, options) ==
  FlattenSeq([i \in DOMAIN files |-> Listed(gribDisk[files[i]], files[i], options)])

-----------------------------------------------------------------------------
(* The text of an entry (GribFileMessage::toString): its elements in order. *)
(* A unit of time without a text ends the writing.                          *)
StepUnits ==
  13 :> "s" @@ 0 :> "m" @@ 1 :> "h" @@ 10 :> "3h" @@ 11 :> "6h" @@ 12 :> "12h" @@
  2 :> "D" @@ 3 :> "M" @@ 4 :> "Y" @@ 5 :> "10Y" @@ 6 :> "30Y" @@ 7 :> "C"

Writable(e) == e.unit \in DOMAIN StepUnits

Element(name, attributes) == [name |-> name, attributes |-> attributes]

EnsembleElements(e) ==
  IF e.total > 0 THEN <<Element("ensemble", [no |-> e.number, total |-> e.total])>> ELSE << >>

ExtraKeyElements(e) ==
  SetToSeq({Element("extraKey", [name |-> key, value |-> e.others[key]]) : key \in DOMAIN e.others})

Text(e) ==
  << Element("gribMessage", [url |-> e.file, seekPos |-> e.at, messagePos |-> e.part]),
     Element("parameter", [name |-> e.name]),
     Element(IF e.edition = 1 THEN "grib1" ELSE "grib2", [ids |-> e.param]),
     Element("level", [type |-> e.levelType, no |-> e.level]) >>
  \o EnsembleElements(e) \o ExtraKeyElements(e)
  \o << Element("time", [reference |-> e.reference, stepUnits |-> StepUnits[e.unit],
                         stepType |-> e.stepType, stepEnd |-> e.step]),
        Element("typeOfGrid", [name |-> e.typeOfGrid]),
        Element("gridDefinition", [proj4 |-> <<e.grid.projection, e.grid.figure>>, size |-> e.grid.n, incr |-> e.grid.increment,
                                   start |-> e.grid.start, startLon |-> e.grid.lonStart]) >>

(* The entry a text stands for: every element sets what it names, over the  *)
(* defaults of the reader.  The precision of the grid is that of the        *)
(* edition read so far.                                                     *)
UnsetEntry ==
  [file |-> "", at |-> 0, part |-> 0, edition |-> -1, param |-> "", name |-> "", others |-> << >>,
   levelType |-> -1, level |-> -1, reference |-> 0, unit |-> 1, stepType |-> "", step |-> 0,
   number |-> 0, total |-> 0, typeOfGrid |-> "", grid |-> << >>]

GridFrom(a, edition) ==
  [projection |-> a.proj4[1], figure |-> a.proj4[2], n |-> a.size, increment |-> a.incr, start |-> a.start,
   lonStart |-> Turned(a.startLon), resolution |-> LonLatResolution(edition)]

WithElement(e, element) ==
  LET a == element.attributes
  IN  CASE element.name = "gribMessage" -> [e EXCEPT !.file = a.url, !.at = a.seekPos, !.part = a.messagePos]
        [] element.name = "parameter" -> [e EXCEPT !.name = a.name]
        [] element.name = "grib1" -> [e EXCEPT !.edition = 1, !.param = a.ids]
        [] element.name = "grib2" -> [e EXCEPT !.edition = 2, !.param = a.ids]
        [] element.name = "level" -> [e EXCEPT !.levelType = a.type, !.level = a.no]
        [] element.name = "ensemble" -> [e EXCEPT !.number = a.no, !.total = a.total]
        [] element.name = "extraKey" -> [e EXCEPT !.others = (a.name :> a.value) @@ @]
        [] element.name = "time" ->
             [e EXCEPT !.reference = a.reference, !.stepType = a.stepType, !.step = a.stepEnd,
                       !.unit = CHOOSE u \in DOMAIN StepUnits : StepUnits[u] = a.stepUnits]
        [] element.name = "typeOfGrid" -> [e EXCEPT !.typeOfGrid = a.name]
        [] element.name = "gridDefinition" -> [e EXCEPT !.grid = GridFrom(a, e.edition)]

EntryOf(text) == FoldLeft(WithElement, UnsetEntry, text)
EntriesOf(texts) == [i \in DOMAIN texts |-> EntryOf(texts[i])]

(* GribFileIndex::init with a stored index: without the entries of the file.*)
Joined(stored, file, entries) ==
  SelectSeq(stored, LAMBDA e : e.file # file) \o entries

-----------------------------------------------------------------------------
(* The valid time: the reference time and the step in its unit.  Units of a *)
(* day and longer compute an offset and drop it: the offset that is added   *)
(* was never set.                                                           *)
UnitSeconds ==
  [u \in {13, 0, 1, 10, 11, 12} |->
    CASE u = 13 -> 1 [] u = 0 -> 60 [] u = 1 -> 3600
      [] u = 10 -> 10800 [] u = 11 -> 21600 [] u = 12 -> 43200]
LongUnits == 2..7
UnsetOffsets == {0, 86400}   \* two of the values memory may hold

ValidTimes(e) ==
  IF e.unit \in LongUnits THEN {e.reference + o : o \in UnsetOffsets}
  ELSE {e.reference + UnitSeconds[e.unit] * e.step}
UnknownUnit(e) == e.unit \notin LongUnits \union DOMAIN UnitSeconds

-----------------------------------------------------------------------------
(* A run of fiIndexGribs that has opened its output: all entries are        *)
(* written and the text is closed, or the run ends before: an exception, or *)
(* a process that is stopped.  What the stream held back is lost.           *)
WrittenWhole(inputs, append, entries) ==
  /\ \A i \in DOMAIN entries : Writable(entries[i])
  /\ grbml' = [messages |-> [i \in DOMAIN entries |-> Text(entries[i])], end |-> "ended"]
  /\ indexed' = [inputs |-> inputs, append |-> append, outcome |-> "listed", n |-> indexed.n + 1,
                 entries |-> entries]

BeforeFirst(entries, Bad(_)) ==
  SubSeq(entries, 1, Min({Len(entries)} \union {i - 1 : i \in {j \in DOMAIN entries : Bad(entries[j])}}))

CutShort(inputs, append, entries) ==
  LET writable == BeforeFirst(entries, LAMBDA e : ~Writable(e))
  IN  \E k \in Flushed \intersect 0..Len(writable), end \in {"between", "inside"} :
        /\ end = "inside" => k < Len(writable)
        /\ grbml' = [messages |-> [i \in 1..k |-> Text(writable[i])], end |-> end]
        /\ indexed' = [inputs |-> inputs, append |-> append, outcome |-> "cut", n |-> indexed.n + 1,
                       entries |-> SubSeq(writable, 1, k)]

(* indexGribs: the output is opened before the first input is looked at.    *)
IndexGribs(inputs, options) ==
  LET readable == BeforeFirst(inputs, LAMBDA file : FailsAt(file, options))
      entries == Entries(readable, options)
  IN  /\ indexed.n < MaxIndexed
      /\ \/ readable = inputs /\ WrittenWhole(inputs, FALSE, entries)
         \/ CutShort(inputs, FALSE, entries)
      /\ UNCHANGED gribDisk

(* indexGribAppend: the stored index is read and the input listed before    *)
(* the text is opened.  A text without its end is taken as far as it goes,  *)
(* one that ends inside a message is refused.                               *)
IndexGribAppend(file, options) ==
  LET stored == EntriesOf(grbml.messages)
      entries == Joined(stored, file, Entries(<<file>>, options))
  IN  /\ indexed.n < MaxIndexed
      /\ IF grbml.end = "inside" \/ FailsAt(file, options)
         THEN /\ indexed' = [indexed EXCEPT !.inputs = <<file>>, !.append = TRUE, !.outcome = "failed", !.n = @ + 1]
              /\ UNCHANGED grbml
         ELSE WrittenWhole(<<file>>, TRUE, entries) \/ CutShort(<<file>>, TRUE, entries)
      /\ UNCHANGED gribDisk

(* The file is written anew between two calls.                              *)
ReplaceGrib(file) ==
  /\ \E contents \in GribFiles[file] : gribDisk' = [gribDisk EXCEPT ![file] = contents]
  /\ UNCHANGED <<grbml, indexed>>

IndexInit ==
  /\ gribDisk \in {d \in [DOMAIN GribFiles -> UNION {GribFiles[f] : f \in DOMAIN GribFiles}] :
                     \A f \in DOMAIN GribFiles : d[f] \in GribFiles[f]}
  /\ grbml = [messages |-> << >>, end |-> "between"]
  /\ indexed = [inputs |-> << >>, append |-> FALSE, outcome |-> "none", n |-> 0, entries |-> << >>]

IndexNext ==
  \/ \E options \in IndexOptions :
       \/ \E inputs \in IndexInputs : IndexGribs(inputs, options)
       \/ \E file \in DOMAIN GribFiles : IndexGribAppend(file, options)
  \/ \E file \in DOMAIN GribFiles : ReplaceGrib(file)

IndexSpec == IndexInit /\ [][IndexNext]_indexVars

-----------------------------------------------------------------------------
FindsItsMessage(e) ==
  /\ e.at \in DOMAIN gribDisk[e.file]
  /\ e.part + 1 \in DOMAIN gribDisk[e.file][e.at]
  /\ LET raw == RawAt(gribDisk[e.file], e)
     IN  /\ raw.complete
         /\ <<raw.edition, raw.param, raw.levelType, raw.level, raw.reference, raw.step, raw.unit>>
              = <<e.edition, e.param, e.levelType, e.level, e.reference, e.step, e.unit>>

EntriesFor(entries, file) == SelectSeq(entries, LAMBDA e : e.file = file)
EntriesWithout(entries, files) == SelectSeq(entries, LAMBDA e : e.file \notin ToSet(files))

(* After a run that ends well the text, read again, holds for every file it *)
(* was given exactly the messages of that file that can be decoded, each    *)
(* found again at its position and part whatever was left out before it,    *)
(* once and in their order, and beside them nothing but entries the text    *)
(* was written from before, unchanged, as many as an earlier run that ended *)
(* early has left (GribFileIndex::init, initByGrib, toString and the        *)
(* constructor from text, createGribHandle).                                *)
IndexedAsStored ==
  [][ indexed'.n > indexed.n /\ indexed'.outcome = "listed" =>
      LET after == EntriesOf(grbml'.messages)
          others == EntriesWithout(after, indexed'.inputs)
      IN  /\ others = IF indexed'.append THEN EntriesWithout(indexed.entries, indexed'.inputs) ELSE << >>
          /\ \A file \in ToSet(indexed'.inputs) :
               LET own == EntriesFor(after, file)
                   there == SelectSeq(Places(gribDisk[file]),
                              LAMBDA p : LET raw == RawAt(gribDisk[file], p)
                                         IN  raw.grid.type \in KnownGrids /\ ~raw.asimof)
               IN  /\ Len(own) = Len(there)
                   /\ \A i \in DOMAIN own :
                        /\ [at |-> own[i].at, part |-> own[i].part] = there[i]
                        /\ FindsItsMessage(own[i]) ]_indexVars
=============================================================================
