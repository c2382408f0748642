------------------------ MODULE CDMFileReaderFactory ------------------------
(* Opening files by type: the first call scans the directories of plug-ins  *)
(* and installs a factory for each library that loads, under its name, into *)
(* a map of the whole process; every call then asks the factories for the   *)
(* best match of the given type, of the first bytes and of the name.  The   *)
(* flag of the scan is set before the scan: nothing makes a second thread   *)
(* wait for the first.                                                      *)
EXTENDS Integers, FiniteSets, Sequences, SequencesExt

CONSTANTS
  Openers,       \* threads
  PluginFiles,   \* sequence of [name, loads, types, magics, endings, urls] as found
  FactoryOrder,  \* the names of the factories, in the order of the map
  OpenRequests,  \* set of [type, ending, magic, url, write]: what a file looks like
  MaxOpens       \* bound on the number of opened files

VARIABLES
  haveScanned,   \* haveScannedForIoPlugins
  factories,     \* names installed -> plug-in file
  opening        \* thread -> [at, next, request, found]; at is where it stands
factoryVars == <<haveScanned, factories, opening>>

NoFactory == 0
NoRequest == [type |-> "", ending |-> "", magic |-> "", url |-> "", write |-> FALSE]

(* How well a factory fits, by type, by the first bytes and by the name.  A *)
(* type decides for a name too: by its ending.                              *)
TypeMatch(f, request) == IF request.type \in PluginFiles[f].types THEN 1 ELSE 0
MagicMatch(f, request) == IF request.magic \in PluginFiles[f].magics THEN 1 ELSE 0
NameMatch(f, request) ==
  CASE request.ending \in PluginFiles[f].endings -> 1
    [] request.ending \notin PluginFiles[f].endings /\ request.url \in PluginFiles[f].urls -> 2
    [] OTHER -> 0

(* The first factory of the map with the greatest positive match.           *)
BestOf(installed, MatchOf(_)) ==
  LET order == SelectSeq(FactoryOrder, LAMBDA name : name \in DOMAIN installed)
      Score(i) == MatchOf(installed[order[i]])
      best == {i \in DOMAIN order : Score(i) > 0 /\ \A j \in DOMAIN order : Score(j) <= Score(i)}
  IN  IF best = {} THEN NoFactory ELSE installed[order[Min(best)]]

FindFactory(installed, request) ==
  LET byType == BestOf(installed, LAMBDA f : TypeMatch(f, request))
      byMagic == BestOf(installed, LAMBDA f : MagicMatch(f, request))
  IN  CASE request.type # "" /\ byType # NoFactory -> byType
        [] ~(request.type # "" /\ byType # NoFactory) /\ ~request.write /\ byMagic # NoFactory -> byMagic
        [] OTHER -> BestOf(installed, LAMBDA f : NameMatch(f, request))

Go(t, at, next) == opening' = [opening EXCEPT ![t].at = at, ![t].next = next]

-----------------------------------------------------------------------------
(* scanForIoPlugins: the test and the setting of the flag.                  *)
StartOpen(t, request) ==
  /\ opening[t].at = "idle" /\ opening[t].n < MaxOpens
  /\ opening' = [opening EXCEPT ![t] = [at |-> IF haveScanned THEN "find" ELSE "scan",
                                        next |-> 1, request |-> request, found |-> NoFactory,
                                        n |-> @.n + 1]]
  /\ haveScanned' = TRUE
  /\ UNCHANGED factories

(* One library: it loads or is left out with an error, and a name that is   *)
(* taken keeps its factory.                                                 *)
LoadPlugin(t) ==
  LET next == opening[t].next
      plugin == PluginFiles[next]
  IN  /\ opening[t].at = "scan" /\ next \in DOMAIN PluginFiles
      /\ factories' = IF plugin.loads /\ plugin.name \notin DOMAIN factories
                      THEN [name \in DOMAIN factories \union {plugin.name} |->
                              IF name = plugin.name THEN next ELSE factories[name]]
                      ELSE factories
      /\ Go(t, "scan", next + 1)
      /\ UNCHANGED haveScanned

EndScan(t) ==
  /\ opening[t].at = "scan" /\ opening[t].next \notin DOMAIN PluginFiles
  /\ Go(t, "find", 1)
  /\ UNCHANGED <<haveScanned, factories>>

Find(t) ==
  /\ opening[t].at = "find"
  /\ opening' = [opening EXCEPT ![t].at = "found",
                                ![t].found = FindFactory(factories, opening[t].request)]
  /\ UNCHANGED <<haveScanned, factories>>

Close(t) ==
  /\ opening[t].at = "found"
  /\ Go(t, "idle", 1)
  /\ UNCHANGED <<haveScanned, factories>>

FactoryInit ==
  /\ haveScanned = FALSE
  /\ factories = << >>
  /\ opening = [t \in Openers |-> [at |-> "idle", next |-> 1, request |-> NoRequest,
                                    found |-> NoFactory, n |-> 0]]

FactoryNext ==
  \E t \in Openers :
    \/ \E request \in OpenRequests : StartOpen(t, request)
    \/ LoadPlugin(t) \/ EndScan(t) \/ Find(t) \/ Close(t)

FactorySpec == FactoryInit /\ [][FactoryNext]_factoryVars

-----------------------------------------------------------------------------
\* The libraries that load and have a name of their own.
Loaded == {f \in DOMAIN PluginFiles : PluginFiles[f].loads
                /\ \A g \in 1..(f - 1) : PluginFiles[g].loads => PluginFiles[g].name # PluginFiles[f].name}

(* A file is opened by a factory of a library that loads, the same one      *)
(* whatever was opened before and by whomever: one that claims the type     *)
(* when any does, never one that only knows the old contents of a file to   *)
(* be written, and none only when none knows the file (findFactory;         *)
(* "several threads can create their own Fimex objects").                   *)
SameFactoryAlways ==
  \A t \in Openers : opening[t].at = "found" =>
    LET request == opening[t].request
        typed == {f \in Loaded : request.type \in PluginFiles[f].types /\ request.type # ""}
        opened == {f \in Loaded : request.magic \in PluginFiles[f].magics /\ ~request.write}
        named == {f \in Loaded : request.ending \in PluginFiles[f].endings
                                 \/ request.url \in PluginFiles[f].urls}
    IN  /\ typed # {} => opening[t].found \in typed
        /\ typed = {} /\ opened # {} => opening[t].found \in opened
        /\ typed = {} /\ opened = {} /\ named # {} => opening[t].found \in named
        /\ typed \union opened \union named = {} => opening[t].found = NoFactory
=============================================================================
