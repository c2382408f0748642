---------------------------- MODULE FimexProgram ----------------------------
(* The program fimex: it opens the input, wraps the reader in one stage     *)
(* after the other as the options ask, merges a second stream that goes     *)
(* through the same stages with the options of its own files, fills a file  *)
(* and writes a file, and reports a failure by its status.                  *)
EXTENDS Integers, Sequences

CONSTANTS
  CommandLines,  \* the sets of options given
  InnerOptions,  \* the sets of options merge.inner.cfg gives for the inner stream
  MaxNested      \* bound on merges within merges

VARIABLES
  streams,       \* the streams being built, the innermost last: [options, stage, reader]
  program        \* [phase, status, filled, written]
programVars == <<streams, program>>

Stages == <<"process", "qualityExtract", "extract", "timeInterpolate", "interpolate",
            "verticalInterpolate", "merge", "qualityExtract2", "ncml">>

Given(options, some) == options \intersect some # {}
All(options, all) == all \subseteq options
Ops(options, order) ==
  LET kept[i \in 0 .. Len(order)] ==
        IF i = 0 THEN << >>
        ELSE IF order[i] \in options THEN Append(kept[i - 1], [op |-> order[i], inner |-> << >>])
        ELSE kept[i - 1]
  IN  kept[Len(order)]

-----------------------------------------------------------------------------
(* What a stage adds to the reader, in order, and when it refuses.  An      *)
(* option that ends in "=bad" is given a value the stage does not know.     *)
ProcessOps(o) ==
  IF ~Given(o, {"process.accumulateVariable", "process.deaccumulateVariable",
                "process.rotateVector.direction", "process.rotateVector.direction=bad",
                "process.addVerticalVelocity", "process.addGeopotentialHeight"})
  THEN << >>
  ELSE <<"process.deaccumulateVariable", "process.accumulateVariable">>
       \o (CASE "process.rotateVector.direction" \notin o -> << >>
             [] "process.rotateVector.direction" \in o
                  /\ All(o, {"process.rotateVector.x", "process.rotateVector.y"}) ->
                  <<"process.rotateVector.x", "process.rotateVector.y", "process.rotateVector.angle">>
             [] OTHER -> <<"process.rotateVector.all", "process.rotateVector.angle">>)
       \o <<"process.addVerticalVelocity", "process.addGeopotentialHeight">>

ProcessRefuses(o) ==
  \/ "process.rotateVector.direction=bad" \in o
  \/ /\ "process.rotateVector.direction" \in o
     /\ ~All(o, {"process.rotateVector.x", "process.rotateVector.y"})
     /\ ~Given(o, {"process.rotateVector.all", "process.rotateVector.angle"})

BoundingBox == {"extract.reduceToBoundingBox.south", "extract.reduceToBoundingBox.north",
                "extract.reduceToBoundingBox.west", "extract.reduceToBoundingBox.east"}

(* The end of the time is missing in the list: its start stands twice.      *)
ExtractWanted(o) ==
  Given(o, BoundingBox \union
           {"extract.reduceDimension.name", "extract.pickDimension.name", "extract.removeVariable",
            "extract.selectVariables", "extract.reduceTime.start", "extract.reduceVerticalAxis.unit"})

(* A slip: the variables are selected before the axes are cut.              *)
MutExtractOps(o) ==
  IF ~ExtractWanted(o) THEN << >>
  ELSE <<"extract.selectVariables", "extract.removeVariable", "extract.reduceDimension.name",
         "extract.pickDimension.name", "extract.reduceTime.start", "extract.reduceTime.end",
         "extract.reduceVerticalAxis.unit", "extract.reduceToBoundingBox.south">>

ExtractOps(o) ==
  IF ~ExtractWanted(o) THEN << >>
  ELSE <<"extract.reduceDimension.name", "extract.pickDimension.name", "extract.reduceTime.start",
         "extract.reduceTime.end", "extract.reduceVerticalAxis.unit",
         "extract.reduceToBoundingBox.south", "extract.selectVariables", "extract.removeVariable">>

ExtractRefuses(o) ==
  /\ ExtractWanted(o)
  /\ \/ "extract.reduceDimension.name" \in o
          /\ ~All(o, {"extract.reduceDimension.start", "extract.reduceDimension.end"})
     \/ "extract.pickDimension.name" \in o /\ "extract.pickDimension.list" \notin o
     \/ "extract.reduceVerticalAxis.unit" \in o
          /\ ~All(o, {"extract.reduceVerticalAxis.start", "extract.reduceVerticalAxis.end"})
     \/ Given(o, BoundingBox) /\ ~All(o, BoundingBox)

(* The key that is asked for is "autoConfigString", which is no option.     *)
QualityOps(version, o) ==
  IF version = "" THEN <<"qualityExtract.config">> ELSE <<"qualityExtract2.config">>

InterpolateOps(o) ==
  CASE "interpolate.projString" \in o -> <<"interpolate.projString">>
    [] "interpolate.projString" \notin o /\ "interpolate.template" \in o -> <<"interpolate.template">>
    [] ~Given(o, {"interpolate.projString", "interpolate.template"})
         /\ "interpolate.vcrossNames" \in o -> <<"interpolate.vcrossNames">>
    [] OTHER -> <<"interpolate.latitudeValues">>

InterpolateRefuses(o) ==
  CASE InterpolateOps(o) = <<"interpolate.projString">> ->
         ~All(o, {"interpolate.xAxisUnit", "interpolate.yAxisUnit",
                  "interpolate.xAxisValues", "interpolate.yAxisValues"})
    [] InterpolateOps(o) = <<"interpolate.vcrossNames">> ->
         ~All(o, {"interpolate.vcrossNoPoints", "interpolate.longitudeValues", "interpolate.latitudeValues"})
    [] InterpolateOps(o) = <<"interpolate.latitudeValues">> ->
         "interpolate.latitudeValues" \in o /\ "interpolate.longitudeValues" \notin o
    [] OTHER -> FALSE

(* Without both a type and a method nothing is interpolated.                *)
VerticalWanted(o) == All(o, {"verticalInterpolate.type", "verticalInterpolate.method"})

VerticalOps(o) ==
  <<"verticalInterpolate.config", "verticalInterpolate.dataConversion">>
  \o (CASE ~VerticalWanted(o) -> << >>
        [] VerticalWanted(o) /\ "verticalInterpolate.toAxis" \in o -> <<"verticalInterpolate.toAxis">>
        [] VerticalWanted(o) /\ "verticalInterpolate.toAxis" \notin o ->
             IF "verticalInterpolate.templateVar" \in o THEN <<"verticalInterpolate.templateVar">>
             ELSE <<"verticalInterpolate.level1">>)

VerticalRefuses(o) ==
  \/ "verticalInterpolate.dataConversion=bad" \in o
  \/ VerticalWanted(o) /\ ~Given(o, {"verticalInterpolate.toAxis", "verticalInterpolate.templateVar",
                                     "verticalInterpolate.level1"})

MergeWanted(o) ==
  Given(o, {"merge.inner.file", "merge.inner.type", "merge.inner.config", "merge.smoothing", "merge.method"})

MergeRefuses(o) ==
  /\ MergeWanted(o)
  /\ \/ "merge.inner.file" \notin o
     \/ "merge.projString" \in o
          /\ ~All(o, {"merge.xAxisUnit", "merge.yAxisUnit", "merge.xAxisValues", "merge.yAxisValues"})

MergeOps(o) ==
  IF ~MergeWanted(o) THEN << >>
  ELSE <<"merge.inner.file", "merge.smoothing", "merge.keepOuterVariables", "merge.projString">>

StageRefuses(stage, o) ==
  CASE stage = "process" -> ProcessRefuses(o)
    [] stage = "extract" -> ExtractRefuses(o)
    [] stage = "interpolate" -> InterpolateRefuses(o)
    [] stage = "verticalInterpolate" -> VerticalRefuses(o)
    [] stage = "merge" -> MergeRefuses(o)
    [] OTHER -> FALSE

Added(stage, o) ==
  Ops(o, CASE stage = "process" -> ProcessOps(o)
           [] stage = "qualityExtract" -> QualityOps("", o)
           [] stage = "extract" -> ExtractOps(o)
           [] stage = "timeInterpolate" -> <<"timeInterpolate.timeSpec">>
           [] stage = "interpolate" -> InterpolateOps(o)
           [] stage = "verticalInterpolate" -> VerticalOps(o)
           [] stage = "merge" -> MergeOps(o)
           [] stage = "qualityExtract2" -> QualityOps("2", o)
           [] stage = "ncml" -> <<"ncml.config">>)

-----------------------------------------------------------------------------
Current == streams[Len(streams)]
Outer == SubSeq(streams, 1, Len(streams) - 1)
Stream(options) == [options |-> options, stage |-> 1, reader |-> << >>]
Stops(status) ==
  /\ program' = [program EXCEPT !.phase = "done", !.status = status]
  /\ UNCHANGED streams

(* run: help and version end the program, otherwise the input is opened.    *)
Start ==
  /\ program.phase = "start"
  /\ \/ /\ Given(Current.options, {"help", "version"})
        /\ Stops(0)
     \/ /\ ~Given(Current.options, {"help", "version"}) /\ "input.file" \notin Current.options
        /\ Stops(1)
     \/ /\ ~Given(Current.options, {"help", "version"}) /\ "input.file" \in Current.options
        /\ program' = [program EXCEPT !.phase = "stages"]
        /\ UNCHANGED streams

(* One stage of applyFimexStreamTasks: it refuses, or an exception of the   *)
(* reader it makes ends the program, or the stream goes on wrapped.         *)
NextStage(reader) ==
  Outer \o << [Current EXCEPT !.stage = @ + 1, !.reader = reader] >>

RunStage ==
  /\ program.phase = "stages" /\ Current.stage \in DOMAIN Stages
  /\ LET stage == Stages[Current.stage]
         opensInner == stage = "merge" /\ MergeWanted(Current.options)
     IN  \/ /\ StageRefuses(stage, Current.options)
            /\ Stops(1)
         \/ /\ Added(stage, Current.options) # << >>
            /\ Stops(1)
         \/ /\ ~StageRefuses(stage, Current.options) /\ ~opensInner
            /\ streams' = NextStage(Current.reader \o Added(stage, Current.options))
            /\ UNCHANGED program
         \/ /\ ~StageRefuses(stage, Current.options) /\ opensInner
            /\ Len(streams) <= MaxNested
            /\ \E inner \in InnerOptions :
                 streams' = Append(streams,
                              IF "merge.inner.cfg" \in Current.options THEN Stream(inner)
                              ELSE [Stream({}) EXCEPT !.stage = Len(Stages) + 1])
            /\ UNCHANGED program

(* The inner stream has been through its stages: it is merged.              *)
MergeInner ==
  /\ program.phase = "stages" /\ Current.stage \notin DOMAIN Stages /\ Len(streams) > 1
  /\ LET outer == streams[Len(streams) - 1]
     IN  streams' = SubSeq(streams, 1, Len(streams) - 2)
                    \o << [outer EXCEPT !.stage = @ + 1,
                                        !.reader = @ \o Added("merge", outer.options)
                                                     \o <<[op |-> "merged", inner |-> Current.reader]>>] >>
  /\ UNCHANGED program

StagesDone ==
  /\ program.phase = "stages" /\ Current.stage \notin DOMAIN Stages /\ Len(streams) = 1
  /\ program' = [program EXCEPT !.phase = "fill"]
  /\ UNCHANGED streams

(* fillWriteCDM: an exception leaves main with status 1.                    *)
Fill ==
  /\ program.phase = "fill"
  /\ \/ /\ program' = [program EXCEPT !.phase = "write",
                                      !.filled = IF "output.fillFile" \in Current.options
                                                 THEN <<Current.reader>> ELSE << >>]
        /\ UNCHANGED streams
     \/ /\ "output.fillFile" \in Current.options
        /\ Stops(1)

(* writeCDM: an exception of the writer ends the program too.               *)
Write ==
  /\ program.phase = "write"
  /\ \/ /\ program' = [program EXCEPT !.phase = "done",
                                      !.written = IF "output.file" \in Current.options
                                                  THEN <<Current.reader>> ELSE << >>]
        /\ UNCHANGED streams
     \/ /\ "output.file" \in Current.options
        /\ Stops(1)

ProgramInit ==
  /\ \E options \in CommandLines : streams = <<Stream(options)>>
  /\ program = [phase |-> "start", status |-> 0, filled |-> << >>, written |-> << >>]

ProgramNext == Start \/ RunStage \/ MergeInner \/ StagesDone \/ Fill \/ Write

ProgramSpec == ProgramInit /\ [][ProgramNext]_programVars

-----------------------------------------------------------------------------
(* The operations a command line may ask for, in the order a reader of the  *)
(* options expects: axes are cut before variables are dropped that hold     *)
(* them, all before the horizontal interpolation, which is before the       *)
(* vertical one and the merge.                                              *)
Before(first, second, reader) ==
  \A i, j \in DOMAIN reader : reader[i].op = first /\ reader[j].op = second => i < j

(* A program that reports success has written what it was asked to write,   *)
(* of the input with every stage applied, the same stream it has filled a   *)
(* file from; axes are cut while the variables that describe them are       *)
(* there, and the inner stream is merged after the stages of its own        *)
(* options, before the outer one goes on (run, applyFimexStreamTasks,       *)
(* getCDMExtractor).                                                        *)
WrittenAsAsked ==
  program.phase = "done" /\ program.status = 0 /\ ~Given(Current.options, {"help", "version"}) =>
    LET reader == Current.reader
    IN  /\ Len(streams) = 1
        /\ "output.file" \in Current.options => program.written = <<reader>>
        /\ "output.fillFile" \in Current.options => program.filled = <<reader>>
        /\ \A cut \in BoundingBox \union {"extract.reduceTime.start", "extract.reduceVerticalAxis.unit"} :
             /\ Before(cut, "extract.selectVariables", reader)
             /\ Before(cut, "extract.removeVariable", reader)
        /\ Before("extract.removeVariable", "interpolate.projString", reader)
        /\ Before("interpolate.projString", "verticalInterpolate.level1", reader)
        /\ MergeWanted(Current.options) => \E i \in DOMAIN reader : reader[i].op = "merged"
        /\ \A k \in DOMAIN Stages : \A i \in DOMAIN Added(Stages[k], Current.options) :
             \E j \in DOMAIN reader : reader[j] = Added(Stages[k], Current.options)[i]

(* An option that asks for an operation is followed or refused, never       *)
(* passed over (the description of every option in fimex.cc:108-235).       *)
AskedOps == {"extract.reduceTime.end", "qualityExtract.autoConfString"}
NeverPassedOver ==
  program.phase = "done" /\ program.status = 0 /\ ~Given(Current.options, {"help", "version"}) =>
    \A o \in AskedOps \intersect Current.options : \E i \in DOMAIN Current.reader : Current.reader[i].op = o
=============================================================================
