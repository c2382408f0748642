# TLA+ models of fimex

fimex reads gridded, mostly meteorological, data (NetCDF, GRIB, Felt, NcML, ...)
into one Common Data Model, passes them through a chain of readers that select,
rename, interpolate and combine them, and writes them to NetCDF, GRIB or NcML.
This directory holds TLA+ modules that model parts of the library, TLC
configurations that check them on small instances, and TLAPS proofs of what
holds for every instance. Paths such as `CDM.cc:190` are below `src/src/`,
headers below `src/include/fimex/`.

- [The system](#the-system): its parts, their state, how they interact
- [The modules](#the-modules): what each models, and how it corresponds to the code
- [The runs](#the-runs): what TLC checks, the bounds, and what the runs show
- [The proofs](#the-proofs): theorems, invariants, assumptions
- [Disagreements](#disagreements-between-code-and-documentation)
- [Not modelled](#not-modelled-and-why)
- [Plan](#plan)

## The system

Everything is built around two types. A `CDM` describes: dimensions, variables
(whose shapes name dimensions), attributes (filed under variable names), and the
coordinate systems computed from these. A `CDMReader` owns a `CDM` and answers
requests for data: by position of the unlimited dimension
(`getDataSlice(var, pos)`), by hyperslab (`getDataSlice(var, SliceBuilder)`) or
in full (`getData`). Most components are readers built around another reader:
they change a copy of its `CDM` in the constructor or by later calls, and
translate each read to reads of the one below. A writer pulls all data of a
reader through this interface.

```
file readers            readers around readers                       writers
NetCDF, GRIB, Felt --> NcML -> extractor -> interpolators, --> NetCDF, GRIB, NcML,
aggregation                    quality, process, merge, ...    null; FillWriter
       \____________________ CDM, SliceBuilder, Data _______________/
```

| Component | State | Operations | What is hard about it | What makes it correct |
|---|---|---|---|---|
| CDM (`CDM.cc`) | vectors of dimensions and variables, map of attributes, flag and vectors of coordinate systems | add, remove, rename of each kind; queries that compute coordinate systems on demand | two maps kept in step by name; a cache invalidated by hand in each method, and not at all through references | attributes belong to existing variables; shapes keep their dimensions; the cache is that of the present model |
| SliceBuilder (`SliceBuilder.cc`, `CoordinateSystemSliceBuilder.cc`) | start, size, full size per dimension; names already set | set a dimension, an axis, a type of axis, the (reference) time; derive a builder for the time variable | calls that throw half-way; unsigned sums; axes that are not dimensions | the selection stays inside the dimensions; what is not set is full |
| Data (`DataImpl.h`, `RecursiveSliceCopy.h`) | an array | slices, conversion of types, copy into another | index arithmetic | a slice is what its start and size describe |
| Extractor (`CDMExtractor.cc`) | picked positions per dimension | reductions by positions, range, axis values, time, bounding box; choice of variables; reads | a read becomes several reads that are joined; a later reduction meets the effects of an earlier one | the picked elements, in the announced order |
| NcML reader (`NcmlCDMReader.cc`) | maps from new to old names, types, ... | the constructor applies an NcML document to the CDM; reads go back through the maps | sequences of renames applied to a model that changes; references into vectors | a name leads to what the document describes |
| Coordinate systems (`coordSys/*Builder.cc`, `CoordinateSystem.cc`, `CDMReaderUtils.cc`) | none of their own; variables and vectors added to the CDM | list the systems, choose the horizontal ones, pair vectors, generate longitudes and latitudes | listing changes the model, also when it throws; names decide the order; what was listed is used after the model changed | every variable has its own system, mapping and coordinates, however often they are asked for |
| Projections (`coordSys/*Projection.cc`) | name and parameters | to and from proj4 text and attributes | a table per class and direction; a figure of the earth kept in two exclusive ways | the text makes the same projection again |
| Processor (`CDMProcessor.cc`) | variables to sum, to take differences of, vectors and directions to turn | configuration in any order; reads | a slice is made of other slices, each through the chain of what is configured | every slice counts once, both components of a vector are turned with each other |
| Merger, smoothing, overlay (`CDMMerger.cc`, `CDMBorderSmoothing*`, `CDMOverlay.cc`) | settings; readers made of them | set smoothing, outer use, target grid; reads | settings after the target grid was made | inner data where they exist, mixed at the rim, outer elsewhere |
| Quality extractor (`CDMQualityExtractor.cc`) | status variable, allowed values per variable | configuration; reads that read the status | status of another shape, of itself, of another reader | only allowed elements remain, all of them |
| Time interpolator (`CDMTimeInterpolator.cc`, `TimeSpec.cc`) | new times and the two old ones of each | change of the axis, reads | ends of the axis, units, slices without data | the slice is that of its time |
| Horizontal interpolator (`CDMInterpolator.cc`, `Cached*Interpolation.cc`, `interpolation.c`) | per coordinate system an interpolation, matrices of vectors, a reduced domain, a changed CDM | changes of the grid in several ways; reads | changes on changes; index arithmetic at seams, rims and one-element axes; buffers shared by threads | a variable is served on the grid it announces, from the cells at its places |
| Vertical interpolator, level converters (`CDMVerticalInterpolator.cc`, `coordSys/verticalTransform/`) | kind of levels, levels or template | interpolate to levels, an axis or a variable; reads | which terms a coordinate has; levels in both directions; extrapolation | a field linear in the coordinate is given back |
| Pressure conversions (`CDMPressureConversions.cc`) | converters per variable | a list of operations in the constructor; reads | operations that meet what earlier ones added or removed | every announced variable has its sources |
| NetCDF reader (`NetCDF_CDMReader.cc`, `NetCDF_Utils.cc`) | handle of the file, process that opened it | reads and writes of slices under the global lock | threads; forks; a lock that is not recursive | one thread in the library; every process its own handle; every read returns |
| NetCDF writer (`NetCDF_CDMWriter.cc`) | the file; copy of the model; new names, units, chunks | configures and defines the model, then writes all data with an OpenMP loop | configuration errors after the file is created; threads share a flag, a lock, a file; exceptions in a parallel region | the file is as configured; every slice is written once in its place, or an error |
| Aggregation (`AggregationReader.cc`) | readers, position each begins at | joinExisting, joinNew, union | positions of the join to positions of a reader; readers that disagree about the model | every joined position is read from its reader |
| FillWriter (`FillWriter.cc`) | an existing file | fills slices by matching coordinate values; parallel over variables | appending while others look up positions; a process that ends in the loop, and the fill after it | a value goes to the position of its coordinates |
| GRIB index and reader (`io/grib/GribFileIndex.cc`, `GribCDMReader.cc`, `fiIndexGribs.cc`) | text of the index; axes and a table of messages | index, append, open, read | an index cut short, files written again after indexing, messages of one key, levels from coefficients | an entry finds its message; a cell holds the message of its keys, on its own axes |
| GRIB writer (`GribApiCDMWriter_Impl*.cc`) | one handle, filled again for each message | write all | what is not set again stays; loops that fail anywhere | a message tells the time, level, parameter and grid of its values |
| Felt reader (`io/felt/`) | fields by parameter, axes, one stream | open, read by threads | seek and read in several steps; grids and members that differ | a slice holds the fields of its time, level and member |
| Units, logger, factories (`Units.cc`, `Logger.cc`, `CDMFileReaderFactory.cc`) | global objects | lazily created, shared by threads | creation and reset while in use, one status for all threads | nobody uses what is gone, nobody gets another's error |
| Program `fimex` | options | stages around a reader, merge with a second stream, fill, write | order of stages, options that need others | what is written is what was asked |
| C interface, other programs, NcML and null writers | - | forward | - | - |

Interactions that matter for the models:

- **calls downwards**: an extractor turns one read into several reads, with
  builders made from the *lower* reader's CDM; a NcML reader translates names of
  variables and dimensions first. The lower reader never changes meanwhile.
- **references**: `getVariable(name)` hands out references into the CDM; several
  components set shapes and data through them, past the CDM's bookkeeping.
- **shared lock**: `Nc::getMutex()` is one lock for all open NetCDF files, so a
  writer and the readers it pulls from exclude one another.
- **failure** is an exception that a caller may catch before it goes on using
  the object. The models continue after every call that throws.

## The modules

| Module | Models |
|---|---|
| `SliceOps` | a builder as a record, its construction and `setStartAndSize` |
| `SliceBuilder`, `SliceBuilderProofs` | all calls of `SliceBuilder` and `CoordinateSystemSliceBuilder` |
| `Hyperslab` | layout of arrays: which element is where in memory |
| `CDMExtractor`, `CDMExtractorProofs` | the extractor on a reader that never changes, with its reads |
| `CDM`, `CDMProofs` | the data model and its cache |
| `NcmlCDMReader` | the NcML reader, its model an instance of `CDM` |
| `AggregationReader`, `AggregationReaderProofs` | files added to an aggregation, and its reads |
| `NetCDF_CDMReader` | slices read by threads, lock, forks; its proofs |
| `DataWriting` | abstract: what a writer of data promises |
| `NetCDF_CDMWriter`, `NetCDF_CDMWriterProofs` | `writeData`, implementing `DataWriting`; the run is of the module itself |
| `NetCDFDefinition` | the writer's constructor before `writeData`: configuration, definition of the file, conversion of data |
| `FillWriter` | fills of one file after the other; its proofs are in `GlobalObjectsProofs` |
| `Logger`, `Units`, `CDMFileReaderFactory`, `GlobalObjectsProofs` | the global objects; proofs about the first two, the felt reader, the program and `FillWriter` |
| `FimexProgram` | the program's stages |
| `CDMProcessor`, `CDMMerger`, `CDMTimeInterpolator`, `CDMQualityExtractor`, `CDMPressureConversions` | one reader each |
| `StreamsProofs` | proofs about the merger, the horizontal interpolator, the aggregation in its cells, the time interpolator, the quality extractor, the processor, the pressure conversions, the altitudes of the level converters and the reduced domain |
| `CDMInterpolator` | which grid and which interpolation each variable has, over changes of the grid |
| `Interpolation` | `points2position`, nearest, bilinear, bicubic |
| `CachedInterpolation`, `CachedForwardInterpolation` | interpolation objects: the reduced domain, the aggregators shared by threads |
| `FieldInterpolation` | whole fields: gaps, distances of cells, the closest cell, cross sections |
| `VerticalTransformation`, `CDMVerticalInterpolator` | level converters and the reader that uses them |
| `CoordinateSystem` | the builders of coordinate systems and what is asked of a model through them |
| `Projection` | projections, their texts and parameters |
| `GribFileIndex`, `GribCDMReader` | index of GRIB files, its text, the reader that opens it |
| `GribApiCDMWriter` | GRIB messages from a stream |
| `FeltCDMReader2` | a felt file and threads that read it |
| `MCStreams` | the readers around readers, and their algorithms, as parts of one run |
| `MCProcess` | everything else of a process, as parts of one run |
| other `MC...` | names and inputs of an instance; values are in the `.cfg` files |

`MCStreams` and `MCProcess` hold several modules each. The variable `part` is chosen
in the beginning and says which module a behaviour is of; the others keep their
first state. A property of a part is the module's property, under `part = "..."` where
the module is an instance; modules with a theorem are extended. No
behaviour mixes parts: they would be independent anyway.

Operators named `Mut...` stand next to a definition and describe a slip in it (a
dropped reset, swapped loops); they are used only to see that a property notices.

### SliceOps and SliceBuilder

`SliceOps` translates the constructor (`NewBuilder`) and
`SliceBuilder::setStartAndSize` as a pair of operators, `SetResult` (returns or
throws, `SliceBuilder.cc:105`) and `AfterSet` (the members afterwards; nothing
changes when it throws). Numbers are `0 .. SizeMod - 1` and sums wrap, as
`size_t` does: the range check is made on the wrapped sum.

`SliceBuilder` keeps one builder `sb`, whether it is a
`CoordinateSystemSliceBuilder` (`coords`), and how the last call ended. There is
one action per public setter. `SetAxisStartAndSize` is the one with inner order:
`CoordinateSystemSliceBuilder::setAxisStartAndSize` sets every axis of the type
in turn and stops at the first that throws, so `AfterType` changes those before
it. `TimeBuilderAccepts` is `getTimeVariableSliceBuilder`, which changes nothing.
Coordinate systems are an input: axes with type, shape and whether they are
explicit. A shape that names a dimension twice is left out (the constructor's map
from names to positions keeps the last).

### Hyperslab and CDMExtractor

An array is a sequence of index vectors of the original array, so that data can
only be wrong by which elements they hold and in which order. `Slab` lays a
hyperslab out in memory, first dimension fastest.

`CDMExtractor` holds the extractor's own lengths, the picked positions
(`dimSlices`), its variables and those of them that have their data in memory.
The actions are `reduceDimension` in its three forms, `reduceAxes`,
`reduceLatLonBoundingBox`, `removeVariable`, `selectVariables`. Reads are
functions of the state: `Chunks`, `Pieces`, `Split` and `SplitAll` follow the
loops of `getDataSlice_` (`CDMExtractor.cc:85-160`), including their nesting, and
`JoinSlices` appends. The reader below delivers every hyperslab inside its
dimensions. Inputs abstracted: the grid points a bounding box keeps (a set of
points), values of axes (small numbers), dependencies of coordinate systems.

### CDM

`variables`, `dimensions` and `attributes` are partial functions from names. A
variable is its shape plus everything else (`about`), which nothing here looks at;
an attribute is a name and a value, kept in order. `Forget` is the
`coordsInitialized = false` of each method; `Enhance` computes the coordinate
systems, kept as the model they were computed from. `SetShape` is the assignment
through the reference `getVariable` returns, which the CDM does not see: the
history variable `touched` records it, so that `CacheFresh` demands only what
`enhance`'s flag can keep. Renames are translated in the order of the code:
`renameVariable` removes the variable of the new name before it looks the old one
up; `renameDimension` checks shapes only when a dimension of the new name exists.

### NcmlCDMReader

Its model is an instance of `CDM` (`Model == INSTANCE CDM`): every element of the
document performs CDM actions on it. The state adds the phase of the constructor,
the document, and the maps kept for reads (variable names, types, dimension names,
data added). Actions are the phases of `init` in its order: removals, dimensions
(rename, then length), shapes, names, types, data, attribute names, attributes
added or reassigned; each element is one step. After the last phase the reader only
answers: `GetDataSlice` is a function of the maps. Documents are chosen in `Init`
from the sets an MC module gives. Unlimited dimensions, spatial vectors and XML
are left out.

### AggregationReader

One step per file. `pending` holds the files in the order in which the constructor of
`NcmlAggregationReader` adds them: `<netcdf>` elements first, then scanned files. A
file is its dimensions, its variables in order with their shapes, and the number of
its coordinate values. `agg` is what `addFirstReader` and `addOtherReader` change of
the model, with `joinVars` and `unionReaders`; `AfterAdding` composes them in the
order of the code: the part of the type (`Joined`), `extendJoinedUnLimDimBy`
(`Extended`, `CoordsFit`), then the variables that are not joined (`UnionVariable`).
Loops over variables are folds or recursive functions, because what one variable adds
the next one meets.
An exception ends the construction for an element (`GiveUp`); for a scanned file it
is caught, and `AddReader` leaves what had been done so far: the reader in `readers`
at least. `InStep` tells that this has not happened to a join.

Reads are functions of the state: `FindJoinReader` and `PositionIn` search the table
of ends, `CheckDims` decides between data and fill values, `ReadPosition` and
`ReadSelected` are the two `getDataSlice`. A slice is known by file, position and
size. The history variable `shares` notes which positions each file was given when
it was added, from the file and not from the table. Types of values, attributes and
the opening of files are left out, and so are documents without an aggregation or
with several.

### NetCDF_CDMReader

Threads, each in one of the two `getDataSlice` methods or idle. `pc` tells where:
in `Waits` the thread is about to lock, in `InLibrary` it uses the library. `Lock`
is `OmpMutex::lock`: blocking, not recursive. The build is one with OpenMP; without
it there is one thread and the lock is empty.
`ReopenIfForked` is the test and assignment of `Nc::pid`, before the lock inside is
taken (`NetCDF_Utils.cc:107-112`); `Reopen` what follows. By position the outer lock
is held already; by slice it is not. `ncId` is the process that opened the
handle. A fork happens when no thread reads, as documented, and the model follows
the child. Every call of the library may throw; `nc_close` of an open handle is
taken to succeed. `putDataSlice` and variables with data in memory are left out.

### DataWriting and NetCDF_CDMWriter

`writeData` (`NetCDF_CDMWriter.cc:579-736`). OpenMP may give positions to threads
as it likes: `schedule` is any function, fixed at the beginning; each thread takes
its positions in ascending order and loops over the variables. Where the code
locks, `pc` passes a member of `Waits`. Reading takes the same lock, the source
being a NetCDF file, too. `exceptions` is a `bool` written and read without
synchronisation: it is the set of threads that set it, and a thread that did not
may see either value (`Sees`). The final test comes after the loop's barrier.
Failing writes are logged with the lock given back and taken again (`relock`,
`leaving`). Inquiries and syncs are outside of any `try`: an exception leaves the
parallel region and the program ends (`Terminate`). Variables have none, the
first, a second or both unlimited dimensions; the second has length 0 in the new
file when it is asked for, so such data never fit (`Fits`). MPI is left out;
`convertData` is part of reading, and `NetCDFDefinition` is what comes before.

`DataWriting` is the promise: cells written at most once, each with what the
source has for it, nothing missing after a return except what a line of the log
gave up, an exception only because of a read. `KeepsThePromise` is the refinement
(`INSTANCE DataWriting`): `file`, `givenUp` and `outcome` map to themselves, and
`wanted` is what reading each cell brings, an empty slice being wanted as fill values
in the classic formats and not at all in the others.

### NetCDFDefinition

The constructor of the NetCDF writer, phase by phase, in the order of the code:
`Create` (the file is made or truncated), the configuration (`InitNcmlReader`,
`InitRemove`, `InitFillRename...`), the definition (`DefineDimensions`,
`DefineVariables`, `WriteAttributes`) and `WriteData`, each datum converted from what
the reader's model says of it to what the changed one says. Every phase can throw, as
its conditions say. `FileAsConfigured` compares the file with what the document and
the reader ask for, computed without the writer's intermediate maps.

### FillWriter

`Begin` computes `dimSlices`: where each input position goes, from the lengths the file
had when it was opened. `FillSlice(v)` is the next slice of a variable in the OpenMP
loop; `Abort` ends the process in the loop, after which `Open` may follow for the next
fill. A datum is its coordinates in the input, so data in the wrong place are seen.
`FillAssumption` takes for granted that a variable named like a dimension has that dimension
only and that an input has each value of a coordinate once; with a value twice the later
position would overwrite the earlier one.

### Logger, Units, CDMFileReaderFactory

`Logger` gives each thread a stack of the functions it is in. The lock is held within
a function and given back before another is called: those are the steps, and
`ClassFirst` says whether the class is set before threads start. `Units` has the
library's one status, set by `Parse` of any thread and tested by `CheckStatus`, a
system that `Unload` frees, and units that belong to a system. `CDMFileReaderFactory`
scans directories one library at a time (`LoadPlugin`) after its flag is set, and
`Find` asks the factories for their match.

### FimexProgram

A stack of streams, each at a stage. `RunStage` refuses, adds readers, or opens the
inner stream of a merge, whose options are its own; `MergeInner` puts it together.
Then `Fill` and `Write`. A command line is a set of options; a reader is the list of
what was put around the input.

### Readers around readers

- `CDMProcessor`: a slice is a map from positions to how often each is contained, so
  that sums and differences are exact; a rotation is appended to the slice with the
  counterpart's. `AsVector` is what the variables announce, changed before the tests that may throw.
- `CDMMerger`: values are "I", "O", "mix" or "undef"; `SetTargetGrid` makes the chain
  of smoothing, interpolation and overlay from the settings of that moment.
- `CDMTimeInterpolator`: the datum at a time is that time; `TimeSpec` as operators.
- `CDMQualityExtractor`: statuses are read through the extractor itself
  (`QualitySlice`, a recursive function over variables and positions).
- `CDMPressureConversions`: `Operate` takes the next operation, with what the language
  leaves undefined as outcomes of its own.
- `CDMInterpolator`: each way to change the grid is an action that may stop at each
  point at which the code throws; `cdm_` is announced, `projectionVariables` and the
  cached interpolation serve.

### Algorithms of interpolation

`Interpolation` translates `interpolation.c`: a position on an axis in units of 1/Q
cells, and values as recipes of cells and weights. `CachedInterpolation` reduces the
domain and undoes nothing: `CellsOfThePlaces` undoes it and compares with the recipe
in the whole field. `CachedForwardInterpolation` has the buffers of one object shared
by threads. `FieldInterpolation` handles whole fields: `mifi_fill2d_f`,
`mifi_creepfill2d_f` (values are sets of cells they are made of), `mifi_griddistance`,
the closest distinct element (a kd-tree in the code, a minimum here), and points along
cross sections.

### VerticalTransformation and CDMVerticalInterpolator

A coordinate system is a record of its axis and terms, the converter is chosen from
them as the code does, and `CDMVerticalInterpolator` follows one column: levels found,
the two neighbours, the method, undefined values. `VerticalCall` is one of the ways to
set it up, `VerticalRead` one slice.

### CoordinateSystem and Projection

A listing is the file it leaves and the systems, or an exception and the file it leaves.
`ListCF` and `ListWRF` are the builders; `AskReader` and `AskModel` are what is asked of
a list: itself, the best horizontal systems, the axes of one variable, coordinates to be
generated. `AskProjection` is `getProjectionAndAxesUnits`, `EnhanceVectorProperties`
pairs vectors. `csAnswer` keeps the answer and the one before it. Names are ordered by
the sequence `Alphabet`, as the code's maps order them.

`Projection` makes the proj4 text of parameters (`GiveText`) and parameters of a text
(`ReadText`), with one table per class as in the code: which keys, in which order of
preference, and which are dropped.

### GRIB

`GribFileIndex`: a file is a function from offsets to parts of messages, an index a
list of entries. `IndexGribs` truncates its output first and may be cut short at any of
`Flushed` lengths of text; `IndexGribAppend` reads the stored index and writes it again;
`ReplaceGrib` writes another file at the path of an indexed one. `GribCDMReader` extends
it: `OpenReader` makes axes and the table of messages, and `ReadGrib`, `ReadTime` follow
axes, levels made from coefficients included. `GribApiCDMWriter` has one handle for all
messages (`keys`), changed by `WriteField` only in the keys the code sets.

### FeltCDMReader2

`OpenFelt` reads the headers, joins fields of one parameter to arrays and makes the
axes; a thread's read is `StartSlice`, then per field `SeekField` and `FetchField`, which
are one critical section in the code only together with the lock they hold.

## The runs

`tlc -config X.cfg M` for each. Runs expected to pass explore all states. Those
marked *violated* check one statement of the documentation, or of a comment, that the
code does not keep; see [below](#disagreements-between-code-and-documentation).

| Run | Config | Checks | Shows |
|---|---|---|---|
| slicebuilder | `MCSliceBuilder.cfg` (of `SliceBuilder`) | `SelectionInside`, `TimeSliceFollows` | after any sequence of calls, also ones that throw half-way through the axes of a type, the selection is inside, and the time variable's builder accepts it |
| extractor | `MCCDMExtractor.cfg` | `ReadsPickedElements`, `ReadsInOrder`, `AxisRangeExact`, `AuxiliaryKept` | after every sequence of reductions and choices of variables, every hyperslab of every variable brings exactly the picked elements, in order where pieces can be joined; kept variables keep what they depend on |
| extractor_join_order | `MCCDMExtractorOrder.cfg` | `JoinsInLogicalOrder` *violated* | pieces joined in the wrong order |
| cdm | `MCCDM.cfg` | `CacheFresh`, `CheckedCallsKeepShapes`, `AttributesOwned`, `RenameMovesAll` | the cache, shapes under calls that respect dimensions in use, and attributes that follow their variables, in every order of changes and queries |
| aggregation | `MCAggregationReader.cfg` | `WholeFilesJoined`, `DeliveredAsAnnounced`, `CoordinatePerPosition` | all sequences of up to three files, in each type of aggregation: a position leads to its file, slices are as long as announced, every announced variable can be read |
| nc_reader | `MCNetCDF_CDMReader.cfg` | `OwnHandleOnceReopened`, `ReadsReturnUnlessSelfWaiting` | three threads, both kinds of reads, forks, every call of the library failing |
| nc_writer | `MCNetCDF_CDMWriter.cfg` | `KeepsThePromise`, `WriteDataEnds` | two threads, every outcome of each read, every call failing, formats that fill and that do not, one and two unlimited dimensions |
| streams | `MCStreams.cfg` | eleven properties, one per part (below) | the readers that compute, and their algorithms |
| process | `MCProcess.cfg` | twelve properties, one or two per part (below) | the global objects, the program, file formats, coordinate systems and the configuration of files |
| forward_threads | `MCForwardThreads.cfg` | `AggregatesOwnCells` *violated* | two threads read through one forward interpolation |
| vertical_hybrid | `MCVerticalHybrid.cfg` | `LinearFieldReproduced` *violated* | levels of a hybrid sigma coordinate with `p0` |
| grid_distances | `MCFieldDistances.cfg` | `DistancesOfNeighbours` *violated* | distances of cells in the last row |

| Part of `streams` | Property | What it says |
|---|---|---|
| processor | `ProcessedAsAsked` | every slice counts once in a sum, differences are those of neighbours, both components of a vector are turned the same way and together, whatever was read before |
| merger | `MergedAsSet` | inner data inside, mixed at the rim, outer outside, as set when the target grid was made; undefined inner values are replaced |
| time | `SliceOfNewTime` | a slice between old times is made of its two neighbours and is that of its time |
| quality | `OnlyAllowedRemain` | an element remains only with an allowed status, which itself remained where it is masked |
| cached | `CellsOfThePlaces` | the reduced domain changes no result and nothing outside of it is taken but the row below the last, on axes in either direction and across the date line; weights are those of a mean |
| horizontal | `ServedOnAnnouncedGrid` | after any sequence of changes, a variable is read on the grid announced |
| forward | `AggregatesOwnCells` | a cell aggregates the defined values that lie in it (one thread) |
| vertical | `LinearFieldReproduced`, `AltitudeFromTheGround` | a field linear in the coordinate is given back; altitudes are summed from the ground |
| pressure | `EveryVariableHasASource` | every announced variable has a converter whose sources exist |
| fields | `FieldsKept` | only gaps are filled, from defined cells; the closest cell is closest; sections hold their points |

| Part of `process` | Property | What it says |
|---|---|---|
| log | `ClassesOutliveCalls` | nobody uses an implementation or class that was deleted |
| units | `OnlyOwnErrors` | a call fails for a wrong unit of its own only |
| program | `WrittenAsAsked` | what reaches the writer went through every stage asked for, in the program's order, or the status tells of an error; merges in merges up to `MaxNested` |
| fill | `FillsByCoordinate` | a value stands where the file has its coordinates, also after a fill that ended half-way |
| grib, gribindex | `IndexedAsStored`, `CellsByKey` | an entry finds its message or the reader fails; a cell holds a message of its keys, on its axes |
| gribwrite | `WrittenFieldsAreTold` | each message tells the time, level, parameter and grid of its values |
| felt | `FeltServesTheFile` | a slice read by several threads holds the fields of its time, level and member |
| projection, plugins | `SameAgain` | the text of a projection makes the same projection again (`SameProjectionBack`); a file is opened by the same factory whatever was opened before (`SameFactoryAlways`) |
| coords | `SystemsFitTheFile` | systems, mappings, axes and generated coordinates belong to the variables they are given for; listing again gives the same list |
| ncml | `ModelAsDescribed` | every name leads to the variable the document describes; attributes stay distinct |
| ncdefine | `FileAsConfigured` | a file that was written is what document and reader ask for, data converted |

**Bounds.** Each is a constant.

- SliceBuilder: arguments `0 .. 2` against dimensions of length 0 and 2 meet
  every side of every comparison; the axes include two of one type (a call that
  stops half-way), an implicit one and a two-dimensional time. No sum of two
  arguments reaches `SizeMod`; what happens when one does is said
  [below](#disagreements-between-code-and-documentation).
- Extractor: three positions are the fewest with a gap between two; `x`, `y` and
  the unlimited `time` are the fewest dimensions with a reduced one before, between
  and after others. What `x` depends on is found in two rounds. `MaxElements` is
  what a set of positions may hold before memory ends. Sequences of calls are
  unbounded, as a reduction replaces what it repeats.
- CDM: two variables, two dimensions (a rename onto an existing one) and two
  attributes (a replacement that is not last), with symmetry over the variables and
  over the attributes; no liveness is checked there. `MaxAttributes` bounds the
  attributes of one owner. What a rename leaves of other variables needs a third
  name and is covered by the proof of `RenameMovesAll`.
- NcML: two elements of one kind and one removal; two elements are the fewest in which
  one meets what the other did. Lengths 1 and 2 let a renamed or reshaped variable ask
  for more, and for less, than the source has.
- Aggregation: nine files differ from one another in each condition of the code: the
  unlimited dimension (the same, another, none, fixed), a length, the order of a
  shape, a variable or a dimension the others lack, the new dimension's name. Three
  files let the third meet what the second left. Lengths 1 and 2 make positions
  inside, at the beginning and at the end of a file.
- NetCDF reader: `MaxCalls` reads per thread and process, `MaxProcess` processes.
  A third thread adds waiting behind a waiting thread. Deadlock checking is off
  because a thread ends after its last read.
- Writer: two positions and variables at each side of the unlimited dimension,
  so that threads write slices of one variable in either order. It ends.
- NetCDF definition: two models of five dimensions; documents in three families (names,
  content, chunks) that combine pairs of elements of a family; levels 0, 3, 10, 13, 20
  and chunk sizes 0, 7, 3000 lie at each side of every test.
- Processor: `MaxSetUp` = 2 calls of set-up and `MaxReads` = 3 reads, the fewest in which
  a read can meet what an earlier one left. Merger: `MaxCalls` = 4 lets each setting
  come before or after the grid. Horizontal: `MaxChanges` = 3. Time:
  `MaxTimeChanges` = 1, lists inside, before and behind the old axis. Pressure: `MaxPOps` = 3
  operations. Vertical: `MaxVerticalCalls` = `MaxVerticalReads` = 1.
- Interpolation: a circle of `Circle` = 16 units and positions in quarters of a cell
  (`Q` = 4), axes of two to four cells in both directions. Longitudes
  exactly half-way across the seam are left out: rounding decides there.
- Fields: sizes 2×3, 3×3, 4×3, 3×2 with gaps at corners, rims and inside, or all of it;
  `MaxLoops` 2 and 6 lie at each side of the test for convergence.
- Fill: `MaxOpens` = `MaxFills` = 2, inputs inside, across and outside of the file's
  coordinates. Logger: `MaxClasses` = `MaxImpls` = 3, two threads. Units: `MaxSystems` = 2,
  two threads.
- GRIB: `MaxIndexed` = 2 runs of the indexer, cut after 0 or 2 messages; one read. GRIB
  writer: `MaxGribWriters` = 2 streams, steps at the limits of each unit. Felt: two
  threads with one read each, the fewest that can disturb one another.
- Coordinate systems: sixteen files that differ in the conditions of the builders,
  `MaxCsCalls` = 2 calls in every order: one call meets what one other left.
- Projection: degrees and metres are whole; two ellipsoids.

Deadlock checking is off in the runs of several parts, as a part may come to its end.

**Fairness.** Only two modules have liveness properties.
`ReadsReturnUnlessSelfWaiting` assumes weak fairness of each thread: a thread that can go on
eventually does, which the operating system's scheduler provides. That suffices
for the lock, although `omp_set_lock` promises no fairness, because other threads
make finitely many reads; for endless readers nothing is claimed. `WriteDataEnds`
assumes the same for each thread and for the end of the parallel region; each
thread has finitely many steps. The other parts promise nothing about time: their
calls are sequential and end, or are loops named below that may not.

## The proofs

`tlapm M.tla` for the seven `...Proofs` modules, and for `NetCDF_CDMReader`, which
holds its own. Each part names the invariant and why it takes that form.

- **SliceBuilderProofs**, for all shapes, lengths, arguments, axes and widths of
  `size_t`: `TypeCorrect` (members keep their types and sizes);
  `SelectionStaysInside` under `NoWrap` (without it the code does not keep the
  selection inside); `UnsetStaysFull`; `TimeSliceAlwaysFollows`: whatever calls came
  before, `getTimeVariableSliceBuilder` can copy the slices of the time axes. The copy
  calls `setStartAndSize` again, so the invariant has to say that every member would be
  accepted by it (`Fitted`: its sum, wrapped, does not pass the length) and that the
  shape is one the coordinate system is complete for, without dimensions that grow
  (`ForItsSystem`). Lemmas state what `AfterSet` and the step of one axis type do to a
  builder (`Reached`); each action is a use of one of them.
- **CDMExtractorProofs**, for any number of variables and dimensions: the action
  properties `AuxiliaryAlwaysKept` and `AxisRangesAreExact`. For the first, the rounds of
  `selectVariables` are a function of the number of rounds (`Recursion` shows that it
  exists); a round that adds something adds one of finitely many variables, so after as
  many rounds as there are variables nothing is missing. For the second, the values below
  a bound are the first ones of a sorted axis, so that counting them is the binary search,
  and a falling axis is the mirror of a rising one. It assumes that axes are sorted
  (`AxesAssumption`), as the code does (`CDMExtractor.cc:356`).
  And the reads: `PickedElementsAreRead` and `ElementsAreReadInOrder`, under `NamedOnce`
  (no variable has a dimension twice: a `SliceBuilder` knows dimensions by name). Both
  follow from `ExtractorInv` (`PicksAreInOrder`), which every reduction keeps because all
  of them end in `Sorted` sets. The argument: a hyperslab holds every index vector of its
  box once, in the order of memory (`SlabRight`, by the uniqueness of mixed-radix digits);
  the pieces of one dimension are apart and cover exactly the picked positions
  (`PiecesCut`; `Chunks` are the maximal runs, `RunsFound`); after i dimensions the
  builders cover exactly what is wanted in these dimensions and any two are apart in one
  of them, sharing the later ones (`Stage`; one step is `SplitStage`), so the joined data
  are the wanted elements once each (`JoinedRead`, `Flattened`); `InStep` says that what is
  shared is one position, and then the data are ordered as memory is, which leaves only one
  sequence (`OneOrder`). `getData` reads position by position along the last dimension;
  the positions are apart in it (`PositionsJoined`).
- **CDMProofs**, for all names, shapes and attributes: `AttributesHaveOwners`,
  `CacheIsFresh`, and the action properties `ShapesAreKept` and `RenameMoves`.
  `AttributesOwned` and `CacheFresh` are inductive by themselves (the cache
  because every change forgets, so that `model` is unchanged whenever the flag
  stays). The action properties need that variables are a partial map of typed
  variables (`VariablesTyped`). The rest of `TypeOK`, and `AttributesDistinct`,
  involve `SelectSeq`, about which the provers know nothing: they are model-checked only.
- **AggregationReaderProofs**, for all files, in any number and order, listed or
  scanned: the three properties of the run. `AggregationInv` has four parts.
  `TablesInv`: the table of ends ascends and, as long as each reader has an entry, agrees
  with what each file was given (`shares`); adding a file appends behind the last end, and
  the first end behind a position is that of its file (`FindsItsFile`), whatever files
  without positions lie between: `ReadsComeFromTheirFile`. `CoordsTyped` and
  `CoordsInPlace`: the values given so far are as many as the positions, each in the share
  of its file: `CoordinatesAreTheirFiles`. `ModelInv`: `agg` is a model (`IsModel`), its
  join dimension is as long as the last end (`LengthIsTheEnd`), a dimension unlimited in
  a file is so in the model (`SameUnlimitedDim`), no variable is both joined and read
  from one file (`OneWay`), one that is joined has a file that agrees with it
  (`JoinedSomewhere`), and those read from one file agree with that file
  (`UnionTaken`, `LengthenedJoin`): `WhatIsAnnouncedIsDelivered`. The loops over the
  variables of a file are recursive functions; they are shown to exist and followed
  variable by variable, by induction on a set of numbers.

  `WhatIsAnnouncedIsDelivered` has a hypothesis for joinNew, `NewDimIsNew`: no variable of
  a file has a dimension with the new one's name. Without it the statement is false. The
  code asks the first file only, where adding the dimension throws; a later file's variable
  that has such a dimension is taken as announced and read with another length. The run
  has a file that breaks the hypothesis, but none in which the lengths differ. For
  joinExisting and union nothing is assumed.
- **NetCDF_CDMReader**, for every set of threads and any number of reads and
  forks: `TypeCorrect`; `LibraryIsExclusive`. That a user of the library holds the
  lock is not inductive: a reader by position takes the lock again inside, and the
  inner block would give it back too early. `LockInv` adds that such a thread never
  gets there, as it holds the lock it waits for: the self-deadlock of a fork
  is what makes the exclusion true.
  `OwnHandleAfterReopening`: once no thread is about to open the file, all read
  through the process's own handle. `HandleInv` says that `pid` lags behind, or the
  handle is the process's own, or a thread is about to open it; and that whoever is
  past the test has seen `pid` agree. `OneThreadReadsItsOwn` follows: with one
  thread per process no read goes through an inherited handle.
- **NetCDF_CDMWriterProofs**, for any number of threads, variables of every shape and
  positions, and any set of failing calls: `WriterIsExclusive`, by the invariant that
  threads in the library or leaving the handler of a failed write hold the lock; and the
  refinement `WriterKeepsThePromise`: `writeData` with its threads implements
  `DataWriting`. A cell belongs to the thread that has its position (`Owner`) and is passed by it
  once. `PromiseInv` says that nothing ahead of a thread is written (`NothingAhead`, hence
  at most once), that what is behind it is written or given up unless some thread noted an
  error (`NothingMissing`), that the thread holds what its cell is to get
  (`HoldsItsData`), and that an error noted is one of a read (`ErrorsAreReal`). A write maps to
  writing one cell, the log of a failed write to giving it up, the end of the region to
  the return or the exception, everything else to a stutter.
- **GlobalObjectsProofs**, the logger, for every number of threads, loggers and changes of the class:
  `ClassOutlivesCalls`, if a class is set before anybody logs (`ClassFirst`, as `fimex`
  does) and changed only while nobody else is in a call (not `SetWhileLogging`). The code
  does not enforce either, and without them the property fails (the disagreements below); the
  theorem is about programs that keep to them. So `LogInv` says that all threads are idle or log
  (`Calm`), or exactly one changes the class while the others are idle (`Changes`); and
  for each place in these calls what the stack, the values returned and the class's
  loggers have to do with one another, down to the loop that resets loggers one by one, each
  asking for the class again. An implementation belongs to one logger (`OwnImpl`), also
  between its creation and its storing.
  The units, for every number of threads, names and unit systems: `ErrorsAreOwn`, which
  is `OnlyOwnErrors` of the process run, from the assumption that `Free` is no thread.
  The status of the library is one global, so `UnitsInv` says why a thread may trust it:
  between its lock and its release (`InLibrary`) it has the mutex, and the status is that
  of its own last parse; a system is present from `Lock` on; and every `TimeUnit` is of
  the system in use. The last two hold as `Unload` is only called with no thread in a
  call and no `TimeUnit` left: an obligation of its callers, not a check in the code.

  The felt reader, for every file, configuration and number of threads:
  `ThreadsGetTheirFields`, which is `FeltServesTheFile`, from the assumption that headers
  hold numbers and `Unlocked` is no thread. `FeltInv` says of a thread that reads
  (`SliceInv`) that its time is the one of its position, and that the cells it has are, layer
  by layer, those of `CellOf`; and of one that fetches (`Fetching`) that it has the lock and
  the stream stands at the field it wants. The axes are sorted sets: that they are
  sequences needs that a file gives finitely many arrays of finitely many fields, which
  `FieldsRead` shows of the loop over the entries. The latitudes hold for both directions of
  a grid. "One grid" (`OneGrid`) includes the field that gave an array its size, also when
  one of another type of data replaced it since: otherwise the property fails.

  The program, for every command line, every configuration of an inner stream and any nesting
  of merges, without a hypothesis: `ProgramWritesAsAsked`, which is `WrittenAsAsked`. A reader
  only grows at its end. `StreamInv` says of every stream, the ones that wait for an inner
  one included (they stand at the merge), that what the stages behind it add is in its
  reader (`Holds`), that an operation the order is about comes from a stage behind it
  (`AddedUntil`), and that the order holds already (`Ordered`). Each such operation is
  added by one stage only (`AddedBy`, `Alone`), so between stages the order is that of the stages
  (`JoinedInOrder`); within the extractor's it is that of its list, of which `Ops`, a recursive
  function, leaves out what is not asked for and swaps nothing (`OpsInOrder`). What is filled and
  written is the reader of the one stream that is left (`Through`).

  The file that is filled, for every file, all inputs and configurations, any number of fills
  and every order of the threads' slices: `FillGoesByCoordinate`, which is
  `FillsByCoordinate`, if the file is opened for each fill (`~ReuseWriter`), as the program
  does. `FillInv` says while a fill goes on that the positions of a dimension that fits have
  places of their own (`PlacesApart`), that what the file has at the place of a coordinate is
  that coordinate, if anything (`PlacesFollow`), and that the slices written until now are
  there (`SlicesWritten`). The first two hold when it begins, as a place is where the
  coordinate was found or behind the end (`ComparedPlaced`), which needs that no cell is
  outside the lengths io knows (`CellsFit`) and that an input has each coordinate once;
  writing keeps them since the coordinate variables go to the same places. That
  every element of a variable is in one of its slices is about the loop that makes the slices,
  a recursive function (`SlicesCover`).
- **StreamsProofs**, readers around readers, for all that they are put around and any
  order and number of calls.

  `MergesAsSet`: a merged slice follows the settings. Each cell is looked at
  where it is computed (`ServedAsSet`), which is arithmetic on distances to the rim. What
  needs an invariant is that the smoothing reader, made by `setTargetGrid`, has settings
  of its own: `MergerInv` says that once it is there it was told what is set now. The
  calls that set the smoothing and the use of outer values pass them on, those it cannot
  be told of throw. Assumed of the axes: sequences of integers.

  `ServesTheAnnouncedGrid`: the announced grid, the systems of variables and their
  interpolations are three members replaced at different points of each of the calls that
  change the grid, which may throw in between. `OnOneGrid` says that after a change that did
  not throw the interpolations that variables are led to are all of this change. It does
  not hold for matrices of vectors, which may be an earlier grid's (the disagreements below).

  `SourcesAreThere`: an added variable has one converter, whose sources the reader has on
  one system, and the others are the reader's own. `PressureInv` adds that variables of the reader that
  are not announced were taken away by an operation. The hypothesis `NamesAreNew` (no
  operation names its result like a theta or omega that one takes away) is needed: the
  code only asks whether the name is announced *now*, and the name of a removed variable
  is free again, so that the reader's name gets another meaning. The run keeps to it;
  with an operation that does not, TLC finds the property violated in two steps. The
  order of variables is not needed: positions, of which the first is the least.

  `NewTimesAreInterpolated`: a slice at a new time between old ones is made of the two old
  slices next to it, weighted so that it stands for that time, or of the one that has data.
  The two loops of `changeTimeAxis` carry a state: the position at which the search for the
  next time goes on, and the values read so far from a list with dots. Both are
  recursive functions over a list, and the lemmas say what holds after each turn: the
  position is that of a search from the start (`MappedByLowerBound`, as later times are not
  found before earlier ones), and what is read ascends and stays before the numbers
  to come (`TokenizedAscends`; the dots, a count in the model, stop in time as the steps that
  stay before the next number are the first ones). `TimeInv` then says that mapping, old times in the new unit
  and new values are of one change, and that a slice is the one they give. The hypotheses
  are what the code does not test: the times asked for ascend (`TimesAscend`; else the
  search goes on behind them), and a later change follows only changes that keep the unit (`UnitIsKept`;
  else it takes the first's unit for the old times, see the disagreements).

  `CellsAreAggregated`: with one reader at a time, every cell of the output is the aggregate
  of the defined values in it, for all sizes, positions, methods and values, and whatever the
  domain is reduced to. The constructor's part of it: a list holds each cell that lies in an
  output cell once (`InOrderHasAll`), and leads to the same cell of the reduced domain, by
  division with another row length (`FindsItsValue`). The reader's part: `ForwardInv` says
  that a thread has pushed the defined values of the cells it has visited (`Gathered`), that
  the buffer is empty between cells of the output, and what was delivered before. The buffer
  is a sequence in the order of pushing and the promise a sum or an extreme over a set of
  cells; `SumOverMore` adds one cell to a sum over a set whichever comes first
  (`MapThenSumSet` chooses an order, shown to exist by `SumsExist`, and to be of no
  account by `SumsAgree`). The hypothesis `OneReader` is what the code needs and does not
  ensure: with two, the run `forward_threads` finds the property violated.

  `DeliveredElementsAreAllowed`: what a masked slice keeps had a status that is allowed, in a
  status that was delivered, masked itself. The slice of a variable is defined by that of
  its status, that by its own, and so on. The code does not look for a cycle; its header
  makes it "the task of the writer of the configuration", which the guard of `Configured`
  states. `QualityInv` says that reads have no cycle and that the entries fit the shapes. Then one slice exists for each
  variable and position: otherwise the variables without one would be, by the status each of
  them needs, a cycle (`Circular` is any set of variables that goes round). Masking takes
  elements away only, so that what is left of a status is what the file has. Assumed: the fill
  value is no allowed status (`ConfigsAssumption`), and slices are of numbers
  (`SlicesAssumption`).

  `SumsAndTurnsAreOnce`: a summed slice has each slice up to its position once, wherever the
  sum begins. It may begin with what the cache has of an earlier position of the same variable,
  so `ProcInv` says what that is. Two exceptions are the code's: a variable that differences are
  taken of as well, because `deAccumulate` subtracts in place from the array that the cache has,
  and one whose name a failed call gave to geopotential height. The loop is a function with
  a set for each turn (`SumsOnce`): that of a position has the terms before it, once each. The
  second part, that a component is turned as it is announced, rests on the set-up being over
  at the first read: `TurnedAsAnnounced` compares the tables of rotations with the variables as
  they are changed, unless a call threw. Assumed is what the code does not test: rotations
  go one way (`OneDirection`; the matrix of a coordinate system is made once for the way asked
  first) and no variable is the first component of one vector and the second of another
  (`VectorsHaveSides`; the table of first components is looked at first).

  `AltitudesAreFromTheGround`: whatever part of a column is asked for, the altitude of a level
  is that of the ground and the thickness of each layer below it. The loop starts at the end
  with the higher pressure and goes down through positions, offsets and an output position of
  their own when that is the far end; the promise is a sum over the set of levels with a
  higher pressure, which knows of no end. One lemma says that this set is what the loop has
  passed (`UnderneathIsPassed`), another that the pressure it carries along is the least of
  those (`EdgeIsPassed`), and a turn adds one layer to the set (`ClimbsToTheAltitude`, by
  `SumOverMore`). Assumed is what the code infers from the first and the last pressure: that
  they go one way in between (`ColumnsAssumption`).

  `ReadingLessChangesNothing` (`ReducedAsWhole`, a part of `CellsOfThePlaces`): a field read in
  the reduced domain gives every cell of the output the same cells with the same weights as the
  whole field, and nothing outside of the domain is taken. The methods ask whether a point has
  its neighbours in a field of the *reduced* size, so the invariant (`CachedInv`, `Spared`) says
  that a side was cut off only where every point keeps two more cells; with that the question
  has one answer in both fields (`NearOrBothShifted`, `FourAroundShifted`). `lround` moves with
  the domain only for positions that are not negative, which is why a side that was cut needs
  cells on the near side, too. The rest is a column and a row put together to a cell and taken
  apart again (`ProductInWhole`). The row below the last is the code's exception
  (`RowBelow`, see the disagreements). Assumed are axes of two values or more on which
  every point has a position (`CachedAssumption`); that the search finds the right one and that
  the weights add up stay with TLC.

Assumptions are those named `...Assumption` in the modules: names kept apart
(`Nobody` is no thread, the global attributes' name is no variable), shapes made of
dimension names, lengths that are natural numbers, sorted axes, files whose variables
have distinct names and existing dimensions, one of them unlimited at most. They
describe inputs, not behaviour.

How far induction goes: the theorems of the library that take an operator as a parameter
cannot be used, but the least element of a set of numbers can be had (`WFMin` with
`NatLessThanWellFounded`), and with it induction over a set and the existence of recursive
functions on the numbers (`Induction`, `Recursion`; in `StreamsProofs` with a set for each
turn of a loop, which is the loop's invariant). Folds, `SelectSeq`, `SortSeq` and
`@@` stay opaque; where a proof needed them the model has a recursive function or a count
in their place.

Model-checked only: the interpolation between levels (`LinearFieldReproduced`); positions on axes
and the sums of weights (`NearestOnCircle`, `WeightsOfAMean`), the filling of fields, the closest
cell and cross sections; the other file formats, the coordinate systems and the configuration of files
(folds and recursive functions over data); `SameFactoryAlways`; and
liveness, which is out of the prover's reach, as is ENABLED.

## Disagreements between code and documentation

Those with a run are its counterexample:

| Run | Code | What happens |
|---|---|---|
| extractor_join_order | `CDMExtractor.cc:128` | a gap in a fast dimension and a slower dimension not picked: pieces are joined in the wrong order |
| forward_threads | `CachedForwardInterpolation.cc:205` | reads are documented as thread-safe, but the aggregators belong to the interpolation: values of two slices are mixed |
| vertical_hybrid | `HybridSigmaPressure2.cc:35` | `p0` and `ps` are swapped against the documented formula |
| grid_distances | `interpolation.c:879` | the last row takes its distance from the cell `ny` before it, not `nx`; in a field that is not square that is another column's |

The models follow the code in these as well; they can be read off the definitions
named, or shown by checking the negation:

**Slices, models, NcML, aggregation**

- `SliceBuilder.cc:112` (`SetResult`): a start near the largest `size_t` makes
  start + size wrap, and the range check passes.
- `CoordinateSystemSliceBuilder.cc:58` (`SetAll`, `SetStartAndSize`): inherited calls
  select several reference times of a builder said to fetch a single one.
- `CDMExtractor.cc:142` (`Pieces`): a request of size 0 along a picked dimension
  brings one position.
- `CDMExtractor.cc:261-263` (`OutOfBounds`): the position behind the last is accepted,
  and a second reduction is checked against the reduced length, where the header
  speaks of the original dimension.
- `CDMExtractor.cc:293` (`StartEndLength`): an end before the start becomes a huge
  length, whose positions are collected before any is checked.
- `CDM.cc:190` (`RenameVariable`): a variable renamed to its own name, or from a name
  that is missing, loses the variable of the new name; the header promises that a
  rename succeeds when the old name exists.
- `CDM.cc:306-310` (`RenameDimension`): an unused dimension renamed to itself is
  removed; a name in use for a dimension that is missing is not refused.
- `NcmlCDMReader.cc:439` (`NewDim`): a dimension renamed twice is not found again
  from the source's name, and one position of it is read.
- `NetCDF_Utils.cc:111` (`ReopenIfForked`): the new process is noted before the lock is
  taken, so that a second thread of a forked process may read through the parent's
  handle before the first has opened the file again. `ReadsThroughOwnHandle` says
  that none does; it is proved for one thread, and fails with two.
- `AggregationReader.cc:143` (`FirstJoinNew`): data in memory stay with a variable
  that gets the new dimension, and answer its reads.
- `AggregationReader.cc:265` (`OtherJoinNew`): the shape of a variable that a later
  file brings to joinNew names dimensions that nobody adds; every read throws.
- `AggregationReader.cc:136` (`NewDimIsNew`): that the dimension of joinNew is new is asked of the
  first file only. A variable of a later file along a dimension of that name is announced with the
  length joined so far, not with its own; `DeliveredAsAnnounced` does not hold then.
- `AggregationReader.cc:450` (`ReadPosition`): the fill of joinNew is as many times
  too long as files are joined.
- `AggregationReader.cc:462`: with joinNew, a variable that is not joined but has the
  first file's unlimited dimension, announced as fixed, is read at one position by
  `getData`. Such reads are not modelled.
- `AggregationReader.cc:170` (`CoordValues`): values given for some files of
  joinExisting and not for others are fewer than the positions, without an error.
- `NetCDF_CDMWriter.cc` (`Put`): with nothing in the repository that says otherwise,
  `writeData` returns normally after failed writes that were only logged, data along
  a second unlimited dimension among them (`givenUp`).
- `NcmlCDMReader.cc:411`: after b becomes a and a becomes c, c leads
  to the source's a. `NcmlCDMReader.cc:506`: a reference is used
  after the vector was shifted, and another attribute gets the name.
- `AggregationReader.cc:97` (`InStep`): a scanned file that throws is a reader
  without an entry in the table of positions; later positions are read from the file before.
- `NetCDF_CDMReader.cc:141` (`ReadsReturn`): with OpenMP, the first read by position after
  a fork waits for itself.

**Files written**

- `NetCDFDefinition`: the file is truncated before the configuration is examined, so a
  wrong configuration costs the old file. Units that do not convert leave the data as
  they were while the file says otherwise (`NetCDF_CDMWriter.cc:571`, a warning). A type
  changed without its `_FillValue` makes every read throw; for empty data in the classic
  formats the exception leaves the OpenMP loop and the process ends. An unknown type text
  makes the variable `NAT`, which is never written. Chunks take size / `MIN_CHUNK`
  elements where the comment (`NetCDF_CDMWriter.cc:441`) speaks of a total; the compression
  level 10 does not shuffle (`cdmWriterConfig.xml:8` says 10 to 19 do) and, like 20, is not
  a valid level.
- `FillWriter`: the lengths are those of opening, so a second fill through one writer does
  not see what the first appended (`FillWriter.h:41-45` says it may be reused); an output
  shape that is longer passes the test at `:220`; the condition at `:178` is inverted.
- `GribApiCDMWriter`: `rtPos` is never advanced, so the messages of several reference
  times all have the first; steps before the reference wrap; keys that are not set again
  (optional attributes, `pv`) stay for the next message; levels below or at 0 are never found
  in the configuration; Impl2 misspells `polar_stereograhpic`; hybrid borders are off by one
  and read behind the array (`GribApiCDMWriter_Impl2.cc:401`).

**Program and global objects**

- `Logger.cc:125`: setting the class while another thread logs uses what was deleted
  (a FIXME says so); what `Logger.h:111` says about the end does not hold
  (`ShutDownDestroys`).
- `Units.h:90`: `unload(false)` never succeeds. `CDMFileReaderFactory.cc:81`: a second
  thread that opens a file while the first scans finds no plug-in.
- `fimex.cc`: options that need others are ignored without them
  (`extract.reduceTime.end`, `verticalInterpolate` without type and method, `merge.*`);
  unequal `reduceDimension` starts and ends are only logged.

**Readers that compute**

- `CDMMerger.cc`, `MergeUtils.cc:270`: the unit of the x-axis is used for both axes;
  without the outer values an undefined inner one does not always stay so
  (`UndefinedInnerStays`, `CDMMerger.h:66`); lengths wrap in `CDMBorderSmoothing_Linear.cc:50`.
- `CDMTimeInterpolator`: a slice read before the axis is changed dereferences `end()`; a
  second change interpolates on the first's values; times before a start are
  extrapolated. A value 0 can be before the start (`ZeroNotBeforeStart`, `TimeSpec.h:55`).
- `CDMQualityExtractor.cc:214`: the search for the highest and lowest flag does not end where
  a value is defined, and what is kept is not the highest (`HighestSelected`,
  `doxydoc.txt:371`); autoconf is shadowed at `:63`.
- `CDMInterpolator.cc:432`, `:1275`: matrices of an earlier grid stay in use for vectors (`TurnedForThisGrid`);
  a slice of a second system throws; `setDistanceOfInterest`, in metres
  (`CDMInterpolator.h:266`), is multiplied by the earth's radius on degree grids; a second
  change to cross sections throws.
- `mifi_constants.h:137`: the methods that should hand on undefined values do not always
  (`UndefinedIsPropagated`); the text `forward_undef_min` makes the plain minimum.
- `interpolation.c:322`: where the nearest column is taken, the nearest row may be the one below
  the last (`y0 <= iy`, `RowBelow`): a point at the rim of the columns and half a cell or more below
  the last row gets a value of the next layer, or of what lies behind the field, and is not
  undefined (`interpolation.h:84`).
  A longitude half a cell before the first of a circular axis is brought round to half a cell
  after the last, and finds no cell.
- `interpolation.c`: filling fields of one row or column reads outside; gaps only at the
  border converge in the first test and stay at the mean (`interpolation.h:238` says
  otherwise); `maxLoop < 5` wraps; the number of rounds of `creepfill` is limited, so a
  creeping field may not reach every gap; a grid with one defined cell finds nothing as
  the closest.
- `FindNeighborElements.h:84`: both neighbours may be the same level (`NeighboursDistinct`);
  `CDMVerticalInterpolator.cc:418`: with an unlimited time the bounds of valid levels are
  those of another time (`ValidAtItsTime`).
- `CDMPressureConversions.cc:217`: a reference outlives its object (`ReadFromItsSources`); `:193`: the result of a
  replacement is discarded. `:283`, `:484`: an operation can give its result the name of a variable
  that an earlier one took away, which then means something else (`NamesAreNew`).

**Coordinate systems and projections**

- `CDMInterpolator.cc:697` ("make sure lat/lon points exist for all projections"): WRF
  systems ignore the coordinates attribute, so every call of
  `generateProjectionCoordinates` adds another pair and no system gets them.
- `CDMReaderUtils.cc:233`: the coordinates attribute of a variable is replaced, and its
  other coordinates are lost; two mappings on the same axes share coordinates computed by
  the last.
- `WRFCoordSysBuilder.cc`: axes are added before a missing attribute throws, and stay. A
  file of both conventions is listed differently the second time. The axes' standard
  names (`projection_x_axis`) are none of CF.
- `AlbersConicalEqualAreaProjection.cc:92`, `LambertConformalConicProjection.cc:90`: two
  parallels are written as the first twice ("there may be 1 or 2 values", tested as > 2).
- Scale factors are written as `+k_0` and read as `+k`; geostationary reads `sweep_axis`
  and writes `sweep_angle_axis`; `+rf` is written and never read; a longitude of origin in
  a UTM text is truncated and loses its sign.

**GRIB and Felt files**

- `fiIndexGribs` truncates its output before it looks at an input; an unknown unit of
  steps throws in the middle; a stored index without its end is appended to silently.
- `GribFileIndex.cc:1063`: steps from days to centuries get an offset that is computed and
  dropped. `GribCDMReader.cc:575`: the second level of the last full level throws. A message
  of a later grid with as many points is served on the first one's axes, as grids are
  compared with a tolerance.
- `FeltCDMReader2.cc:631`: the position behind the last passes the test. A single ensemble
  member other than 0 is served as fill values; fields of other grids are served on the
  first array's axes, and one that runs the other way upside down
  (`FeltGridDefinition.cpp:331`); an exception is made and not thrown (`FeltParameters.cc:64`).

## Not modelled, and why

- **Thin layers**: C interface, NcML and null writers, programs other than `fimex` and
  `fiIndexGribs`: they forward.
- **Utilities** for strings, mathematics and files: pure functions without state.
- **Floating point**: values are recipes (cells and weights), whole numbers or kinds. What
  rounding does is not seen; nor are the formulas of projections (PROJ), the thermodynamics of
  the pressure conversions, or `nanoflann`'s tree, which is vendored: its answer, the closest
  point, is modelled. Vertical velocity (`interpolation.c:885-1060`) is one formula.
- **External formats**: the bits of GRIB and Felt, XML, udunits' texts.
- **Data**: the pointer walk of `RecursiveSliceCopy` and the conversion of types;
  `Hyperslab` is the layout they produce.
- **In the modelled parts**: MPI; `putDataSlice` of the NetCDF reader other than by
  `FillWriter`; unlimited dimensions and spatial vectors in the NcML reader; ensemble
  names and the racy figure of the earth (`GribFileIndex.cc:142`) in the GRIB index.

## Plan

1. Proofs about the parts that are only model-checked: the messages of the GRIB writer and
   the coordinate systems.
2. Composition: an extractor on a NcML reader, both on one abstract reader: a stack of
   faithful readers is faithful.
3. `SliceCopy`: `RecursiveSliceCopy` and `ArrayLoop` against `Hyperslab` for all shapes up
   to rank three.
4. The NcML and null writers, and the C interface's ownership of readers.
