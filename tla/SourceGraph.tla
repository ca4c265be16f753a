----------------------------- MODULE SourceGraph -----------------------------
(***************************************************************************)
(* The index of the sources (service/source-graph): a generation holds the *)
(* hash of every file, the dependencies between files and the calls that   *)
(* were linked to declarations in other files (SourceGraphIndexer.ts,      *)
(* SourceGraphLinker.ts, SourceGraphInventory.ts).                         *)
(*                                                                         *)
(* A full build analyzes and links every file.  An incremental one looks   *)
(* for what changed since the last generation, analyzes and links that and *)
(* what may link differently because of it, and takes over the rest.       *)
(* People go on editing meanwhile: a build reads each file at some moment  *)
(* of a phase (detecting, analyzing, linking), and an edit in that phase   *)
(* comes before it or after it.  Builds run one at a time.                 *)
(*                                                                         *)
(* A text declares the one name of interest or not, calls it through an    *)
(* import, forwards all that another file declares (re-export), and may    *)
(* not parse.  Hashes are equal if the texts are: an edit that is undone   *)
(* leaves no trace (SourceGraphInventory.ts:105-110).                      *)
(***************************************************************************)
EXTENDS Naturals, Sequences

CONSTANTS Sources,      \* the files of the inventory
          Config,       \* the one that says what Alias means (tsconfig.json)
          Specifiers, Alias, NoSpecifier,
          Candidates,   \* the files a relative specifier may mean, by priority
          Rest,         \* what else a text may say
          MayHold,      \* bound: the texts each file may have
          Hints,        \* bound: what a caller may say of a build
          NoSource,      \* no such file, no generation
          Unread,       \* a file the build has not read in this phase
          MaxEdits      \* bound: the edits

VARIABLES tree,       \* the files
          graph,      \* the last generation
          build,      \* the build at work
          missed,     \* history: the files whose readers were not all linked with what is recorded
          edits       \* the edits so far

graphVars == <<tree, graph, build, missed, edits>>

Texts == [parses : BOOLEAN, declares : BOOLEAN,
          imports : Specifiers \cup {NoSpecifier}, forwards : Specifiers \cup {NoSpecifier},
          alias : Specifiers \cup {NoSpecifier}, rest : Rest]
Trees == [Sources -> Texts \cup {NoSource}]
Readings == [Sources -> Texts \cup {NoSource, Unread}]
Generations == [hash : Trees, depends : SUBSET (Sources \X Sources \X BOOLEAN),
                calls : SUBSET (Sources \X Sources), configured : BOOLEAN]
Builds == [stage : {"idle", "detecting", "analyzing", "linking"}, full : BOOLEAN,
           hinted : SUBSET Sources, gone : SUBSET Sources,
           found : Readings, read : Readings, target : Readings]

NothingRead == [f \in Sources |-> Unread]
Existing(t) == {f \in Sources : t[f] # NoSource}
NoBuild == [stage |-> "idle", full |-> FALSE, hinted |-> {}, gone |-> {},
            found |-> NothingRead, read |-> NothingRead, target |-> NothingRead]

GraphTypeOK == /\ tree \in Trees /\ graph \in Generations \cup {NoSource}
               /\ build \in Builds /\ missed \subseteq Sources /\ edits \in 0..MaxEdits

GraphInit == /\ tree \in [Sources -> UNION {MayHold[f] : f \in Sources} \cup {NoSource}]
             /\ \A f \in Existing(tree) : tree[f] \in MayHold[f]
             /\ graph = NoSource /\ build = NoBuild /\ missed = {} /\ edits = 0

(* The configuration is no module: a JSON file declares and imports nothing. *)
ASSUME GraphAssumption ==
    /\ Config \in Sources /\ Candidates \in [Specifiers -> Seq(Sources)]
    /\ \A f \in Sources : MayHold[f] \subseteq Texts
    /\ \A t \in MayHold[Config] : ~t.parses
    /\ \A h \in Hints : h.changed \subseteq Sources /\ h.gone \subseteq Sources
    /\ NoSource \notin Texts \cup Sources
    /\ Unread \notin Texts \cup {NoSource}
    /\ MaxEdits \in Nat

-----------------------------------------------------------------------------
(* Linking, over the files that exist to the build (known), what it may    *)
(* use of each (facts; NoSource: it does not parse, or has changed) and    *)
(* what gives Alias its meaning (NoSource: there is no configuration).     *)

(* resolveModuleSpecifier: the candidates of Alias are those of the        *)
(* specifier the configuration gives.                                      *)
Resolved(spec, known, alias) ==
    LET meant == IF spec # Alias THEN spec
                 ELSE IF alias = NoSource THEN NoSpecifier ELSE alias.alias
        at == IF meant = NoSpecifier THEN {} ELSE
              {i \in DOMAIN Candidates[meant] : Candidates[meant][i] \in known}
    IN  IF at = {} THEN NoSource
        ELSE Candidates[meant][CHOOSE i \in at : \A j \in at : i <= j]

(* linkModuleDependencies: one dependency on each file, marked if a        *)
(* declaration is forwarded from there.                                    *)
Depends(f, text, known, alias) ==
    LET to(spec) == {Resolved(spec, known, alias)} \ {NoSource}
        forwarded == to(text.forwards)
    IN  {<<f, g, g \in forwarded>> : g \in to(text.imports) \cup forwarded}

(* What a walk from these files along these steps comes to: the least set  *)
(* that holds them and that no step leaves.                                *)
Reached(files, steps) ==
    LET closed == {S \in SUBSET Sources :
                      files \subseteq S /\ \A p \in steps : p[1] \in S => p[2] \in S}
    IN  {f \in Sources : \A S \in closed : f \in S}

(* resolveExportedDeclaration: a file's own declaration, else the one it   *)
(* forwards; a cycle has none.  Asked: the files whose facts it reads.     *)
Forwarding(known, facts, alias) ==
    {p \in Sources \X Sources :
        /\ facts[p[1]] # NoSource /\ ~facts[p[1]].declares
        /\ p[2] = Resolved(facts[p[1]].forwards, known, alias)}
Asked(from, known, facts, alias) == Reached({from}, Forwarding(known, facts, alias))
Declaring(from, known, facts, alias) ==
    {f \in Asked(from, known, facts, alias) : facts[f] # NoSource /\ facts[f].declares}

(* linkCalls: the call goes to the declaration that is imported. *)
CallsOf(f, text, known, facts, alias) ==
    LET from == Resolved(text.imports, known, alias)
    IN  IF from \in {NoSource, f} THEN {}
        ELSE {<<f, to>> : to \in Declaring(from, known, facts, alias)}

(* linkFile for each of the files that were analyzed and parse. *)
LinkedFrom(files, known, facts, alias) ==
    LET parsed == {f \in files : facts[f] # NoSource}
    IN  [depends |-> UNION {Depends(f, facts[f], known, alias) : f \in parsed},
         calls |-> UNION {CallsOf(f, facts[f], known, facts, alias) : f \in parsed}]

(* What these links read of others: the files whose facts their searches   *)
(* ask for, and the configuration, if an alias is met.                     *)
AskedFor(files, known, facts, alias) ==
    LET callers == {f \in files : facts[f] # NoSource}
        targets == {Resolved(facts[f].imports, known, alias) : f \in callers} \ {NoSource}
    IN  UNION {Asked(g, known, facts, alias) : g \in targets}
Consulted(files, known, facts, alias) ==
    \/ \E f \in files : facts[f] # NoSource /\ Alias \in {facts[f].imports, facts[f].forwards}
    \/ \E f \in AskedFor(files, known, facts, alias) :
          facts[f] # NoSource /\ ~facts[f].declares /\ facts[f].forwards = Alias

(* What analyzeInventoryFile gives the linker. *)
Parsed(t) == [f \in Sources |-> IF t[f] # NoSource /\ t[f].parses THEN t[f] ELSE NoSource]

(* The graph of a tree: what a full build of it yields. *)
Exact(t) == LinkedFrom(Sources, Existing(t), Parsed(t), t[Config])

-----------------------------------------------------------------------------
(* What an incremental build finds to do.  A file that was found and that  *)
(* a caller says is gone is neither taken over nor linked again.           *)
FoundSources == Existing(build.found)
ChangedSources ==
    {f \in FoundSources : build.full \/ f \in build.hinted \/ build.found[f] # graph.hash[f]}
DeletedSources ==
    IF build.full THEN {} ELSE (Existing(graph.hash) \ FoundSources) \cup build.gone
LinksAllAgain == \/ ChangedSources \ Existing(graph.hash) # {} \/ DeletedSources # {}
                 \/ graph.configured /\ Config \in ChangedSources

(* collectImporterClosure: who imports what changed, on through the files  *)
(* that forward it.                                                        *)
ImporterClosureFlat(depends, files) ==   \* Mutant: only those who import it themselves
    {d[1] : d \in {e \in depends : e[2] \in files}}
ImporterClosure(depends, files) ==
    LET forwarders == {<<e[2], e[1]>> : e \in {e \in depends : e[3]}}
    IN  {d[1] : d \in {e \in depends : e[2] \in Reached(files, forwarders)}}

Relinked == IF LinksAllAgain THEN Sources \ {Config}
            ELSE ImporterClosure(graph.depends, ChangedSources)
Reparsed == IF build.full THEN {}
            ELSE (Relinked \cap FoundSources) \ (ChangedSources \cup DeletedSources)
Indexed == ChangedSources \cup Reparsed
Preserved == IF build.full THEN {}
             ELSE (Existing(graph.hash) \cap FoundSources) \ (Indexed \cup DeletedSources)

(* The edges that are taken over: a dependency unless its file is linked   *)
(* again or its target is gone, a call unless its target changed, too.     *)
PreservedDepends ==
    IF build.full THEN {} ELSE
    LET indexed == Indexed  gone == DeletedSources
    IN  {d \in graph.depends : d[1] \notin indexed /\ {d[1], d[2]} \cap gone = {}}
PreservedCalls ==
    IF build.full THEN {} ELSE
    LET indexed == Indexed  outdated == ChangedSources \cup DeletedSources
    IN  {c \in graph.calls : c[1] \notin indexed /\ {c[1], c[2]} \cap outdated = {}}

-----------------------------------------------------------------------------
(* The files a build reads in a phase, and where it puts them. *)
Reads(stage) == CASE stage = "detecting" -> Sources
                  [] stage = "analyzing" -> Indexed
                  [] stage = "linking" -> Preserved \cup {Config}
                  [] OTHER -> {}
Field(stage) == CASE stage = "detecting" -> "found"
                  [] stage = "analyzing" -> "read"
                  [] OTHER -> "target"
(* A file that was not read before an edit is read now, at the latest. *)
Reading(stage) == [f \in Sources |-> IF build[Field(stage)][f] = Unread THEN tree[f]
                                     ELSE build[Field(stage)][f]]

(* A file is written, or removed.  A build that is to read it has done so  *)
(* or has not; one that finds no file where it expects one fails.          *)
EditSource(f, now) ==
    /\ edits < MaxEdits /\ edits' = edits + 1 /\ now # tree[f]
    /\ tree' = [tree EXCEPT ![f] = now]
    /\ \/ UNCHANGED build
       \/ LET field == Field(build.stage) IN
          /\ f \in Reads(build.stage) /\ build[field][f] = Unread
          /\ tree[f] # NoSource \/ build.stage = "detecting"
          /\ build' = [build EXCEPT ![field][f] = tree[f]]
    /\ UNCHANGED <<graph, missed>>

BuildFull == /\ build.stage = "idle"
             /\ build' = [NoBuild EXCEPT !.stage = "detecting", !.full = TRUE]
             /\ UNCHANGED <<tree, graph, missed, edits>>

(* The caller may name files that changed or are gone, from an earlier     *)
(* look or from the events of the file system.                             *)
BuildIncremental(changed, gone) ==
    /\ build.stage = "idle" /\ graph # NoSource
    /\ build' = [NoBuild EXCEPT !.stage = "detecting", !.hinted = changed, !.gone = gone]
    /\ UNCHANGED <<tree, graph, missed, edits>>

Detected == /\ build.stage = "detecting"
            /\ build' = [build EXCEPT !.found = Reading("detecting"), !.stage = "analyzing"]
            /\ UNCHANGED <<tree, graph, missed, edits>>

Analyzed == LET files == Indexed  read == Reading("analyzing") IN
            /\ build.stage = "analyzing"
            /\ \A f \in files : read[f] # NoSource
            /\ build' = [build EXCEPT !.stage = "linking",
                           !.read = [f \in Sources |-> IF f \in files THEN read[f] ELSE Unread]]
            /\ UNCHANGED <<tree, graph, missed, edits>>

(* buildGeneration.  A file that is taken over is a target only while it   *)
(* is what was recorded (readPreservedFacts); the configuration is read    *)
(* as it is.  One of these that is needed and cannot be read fails the     *)
(* build.  Missed are those that were not what is recorded, and the files  *)
(* that were only to be linked again and had changed when they were read,  *)
(* until a build finds them changed or links all again.                    *)
TargetFacts(indexed, preserved, now) ==
    Parsed([f \in Sources |-> IF f \in indexed THEN build.read[f]
                              ELSE IF f \in preserved /\ now[f] = graph.hash[f]
                                   THEN graph.hash[f] ELSE NoSource])
Recorded(indexed, preserved) ==
    [f \in Sources |-> IF f \in indexed THEN build.read[f]
                       ELSE IF f \in preserved THEN graph.hash[f] ELSE NoSource]
PublishGraph ==
    LET indexed == Indexed
        preserved == Preserved
        known == indexed \cup preserved
        now == Reading("linking")
        facts == TargetFacts(indexed, preserved, now)
        alias == IF Config \in known THEN now[Config] ELSE NoSource
        linked == LinkedFrom(indexed, known, facts, alias)
        consulted == Consulted(indexed, known, facts, alias)
        recorded == Recorded(indexed, preserved)
        needed == {f \in AskedFor(indexed, known, facts, alias) \cap preserved : recorded[f].parses}
                    \cup (IF consulted THEN {Config} \cap known ELSE {})
        stillMissed == IF build.full \/ LinksAllAgain THEN {}
                       ELSE (missed \ ChangedSources)
                              \cup {f \in Reparsed : build.read[f] # graph.hash[f]}
    IN  /\ build.stage = "linking"
        /\ \A f \in needed : now[f] # NoSource
        /\ graph' = [hash |-> recorded,
                     depends |-> PreservedDepends \cup linked.depends,
                     calls |-> PreservedCalls \cup linked.calls,
                     configured |-> Config \in known /\ ((~build.full /\ graph.configured) \/ consulted)]
        /\ missed' = stillMissed \cup {f \in needed : now[f] # recorded[f]}
        /\ build' = NoBuild
        /\ UNCHANGED <<tree, edits>>

(* It is cancelled, or a file cannot be read: the last generation stays. *)
AbortBuild == /\ build.stage # "idle" /\ build' = NoBuild
              /\ UNCHANGED <<tree, graph, missed, edits>>

GraphNext ==
    \/ \E f \in Sources : \/ EditSource(f, NoSource)
                          \/ \E t \in MayHold[f] : EditSource(f, t)
    \/ BuildFull \/ \E h \in Hints : BuildIncremental(h.changed, h.gone)
    \/ Detected \/ Analyzed \/ PublishGraph \/ AbortBuild

GraphSpec == GraphInit /\ [][GraphNext]_graphVars

-----------------------------------------------------------------------------
(* SourceGraphFreshnessService.inspect finds nothing that changed. *)
LooksFresh == graph # NoSource /\ graph.hash = tree

(* A generation that looks fresh is the graph of the sources: incremental  *)
(* builds among edits, each over the last, yield what a full build would,  *)
(* unless a file is missed: a build read it at linking, or linked it       *)
(* again, with another text than the one compared, and that edit was       *)
(* undone, or went into what was recorded, before a build found it.        *)
FreshGraphIsExact == LooksFresh /\ missed = {} =>
    /\ graph.depends = Exact(tree).depends
    /\ graph.calls = Exact(tree).calls

=============================================================================
