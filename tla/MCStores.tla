------------------------------ MODULE MCStores ------------------------------
(***************************************************************************)
(* The stores for TLC: the vector store, the store of certified facts, the *)
(* synchronisation of the vector index, the files of the recipes with      *)
(* their rows, the sessions, and the index of the sources.  They share no  *)
(* state, so a behaviour is one of a single store ("focus"), never an      *)
(* interleaving of two.                                                    *)
(***************************************************************************)
EXTENDS VectorWal, FactsStore, VectorSync, KnowledgeFiles, Sessions, SourceGraph

CONSTANTS sa, sb, sc, sk, modB, modC, modAlias

VARIABLE focus

walVars == vars
allVars == <<focus, walVars, factsVars, syncVars, filesVars, sessionsVars, graphVars>>

(* The names of a kind are alike: what is written or changed first is,     *)
(* up to a renaming, the ones chosen here.                                 *)
Id1 == CHOOSE i \in Ids : TRUE
VectorsBreak == calls = 0 /\ calls' = 1 => Head(wal').id = Id1
Entry1 == CHOOSE e \in Entries : TRUE
Version1 == CHOOSE v \in Versions : TRUE
SyncBreaks == changes = 0 /\ changes' = 1 => db'[Entry1] = Version1
Recipe1 == CHOOSE r \in Recipes : TRUE
Slug1 == CHOOSE s \in Slugs : TRUE
FilesBreak == revs = 0 /\ revs' = 1 => op'.id = Recipe1 /\ op'.entry.at[2] = Slug1
(* Bound: the other recipe is a candidate as long as it is there.          *)
FilesBound == revs' # revs => op'.id = Recipe1 \/ op'.entry.life = "candidate"

(* The sources: sa imports by the alias, which sk makes sb (sc if there is *)
(* no sb) or sc; sb declares, forwards sc, or does not parse.              *)
Text(parses, declares, imports, forwards, alias) ==
    [parses |-> parses, declares |-> declares, imports |-> imports,
     forwards |-> forwards, alias |-> alias, rest |-> 0]
TheCandidates == [s \in {modB, modC, modAlias} |->
                    CASE s = modB -> <<sb, sc>> [] s = modC -> <<sc>> [] OTHER -> <<>>]
TheTexts ==
    LET no == NoSpecifier
    IN  [f \in {sa, sb, sc, sk} |->
           CASE f = sa -> {Text(TRUE, FALSE, modAlias, no, no)}
             [] f = sb -> {Text(TRUE, TRUE, no, no, no), Text(TRUE, FALSE, no, modC, no),
                           Text(FALSE, FALSE, no, no, no)}
             [] f = sc -> {Text(TRUE, d, no, no, no) : d \in BOOLEAN}
             [] f = sk -> {Text(FALSE, FALSE, no, no, i) : i \in {modB, modC}}]
TheHints == {[changed |-> {}, gone |-> {}], [changed |-> {sb}, gone |-> {sc}]}
(* Bounds: sa stays, people edit while a build is at work, the first build *)
(* alone is a full one, and a caller that knows better comes last.         *)
GraphBound == /\ tree'[sa] = tree[sa]
              /\ edits' # edits => build.stage # "idle"
              /\ build'.full => graph = NoSource \/ build.full
              /\ build'.gone # {} => edits = MaxEdits

StoresInit == /\ focus \in {"vectors", "facts", "sync", "knowledge", "sessions", "sources"}
              /\ Init /\ FactsInit /\ SyncInit /\ FilesInit /\ SessionsInit
              /\ GraphInit
              /\ IF focus = "sources" THEN tree[sa] # NoSource ELSE Existing(tree) = {}
StoresNext ==
    /\ UNCHANGED focus
    /\ \/ /\ focus = "vectors" /\ Next /\ VectorsBreak
          /\ UNCHANGED <<factsVars, syncVars, filesVars, sessionsVars, graphVars>>
       \/ /\ focus = "facts" /\ FactsNext
          /\ UNCHANGED <<walVars, syncVars, filesVars, sessionsVars, graphVars>>
       \/ /\ focus = "sync" /\ SyncNext /\ SyncBreaks
          /\ UNCHANGED <<walVars, factsVars, filesVars, sessionsVars, graphVars>>
       \/ /\ focus = "knowledge" /\ FilesNext /\ FilesBreak /\ FilesBound
          /\ UNCHANGED <<walVars, factsVars, syncVars, sessionsVars, graphVars>>
       \/ /\ focus = "sessions" /\ SessionsNext
          /\ UNCHANGED <<walVars, factsVars, syncVars, filesVars, graphVars>>
       \/ /\ focus = "sources" /\ GraphNext /\ GraphBound
          /\ UNCHANGED <<walVars, factsVars, syncVars, filesVars, sessionsVars>>
StoresSpec == StoresInit /\ [][StoresNext]_allVars /\ Fairness

(* The type invariant of the store at work (the others stay as they were). *)
StoresTypeOK == CASE focus = "vectors" -> TypeOK
                  [] focus = "facts" -> FactsTypeOK
                  [] focus = "sync" -> SyncTypeOK
                  [] focus = "knowledge" -> FilesTypeOK
                  [] focus = "sessions" -> SessionsTypeOK
                  [] focus = "sources" -> GraphTypeOK
=============================================================================
