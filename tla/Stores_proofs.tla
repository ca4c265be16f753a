---------------------------- MODULE Stores_proofs ----------------------------
(***************************************************************************)
(* The stores together, as they are model-checked: a behaviour of all of   *)
(* them is, for each store, a behaviour of that store, whose theorems are  *)
(* then about the whole.                                                   *)
(***************************************************************************)
EXTENDS MCStores, Vectors_proofs, FactsStore_proofs, Files_proofs, SourceGraph_proofs

(* One of the stores is at work. *)
Focused == focus \in {"vectors", "facts", "sync", "knowledge", "sessions", "sources"}

LEMMA StoresStart ==
    ASSUME StoresInit
    PROVE  Focused /\ Init /\ FactsInit /\ SyncInit /\ FilesInit /\ SessionsInit /\ GraphInit
BY DEF StoresInit, Focused

LEMMA StoresStep ==
    ASSUME [StoresNext]_allVars
    PROVE  /\ Focused => Focused'
           /\ [Next]_vars /\ [FactsNext]_factsVars /\ [SyncNext]_syncVars
           /\ [FilesNext]_filesVars /\ [SessionsNext]_sessionsVars /\ [GraphNext]_graphVars
<1>1. UNCHANGED focus => (Focused => Focused')
  BY DEF Focused
<1>2. CASE UNCHANGED allVars
  BY <1>1, <1>2 DEF allVars, walVars
<1>3. CASE StoresNext
  BY <1>1, <1>3 DEF StoresNext, walVars
<1> QED
  BY <1>2, <1>3

(* StoresTypeOK: each store keeps its types, with sync() in the process    *)
(* that writes, no reconcile() beside the batches, and one manager.        *)
THEOREM StoresTyped ==
    ASSUME SyncElsewhere = FALSE, Racing = FALSE, OneManager
    PROVE  StoresSpec => []StoresTypeOK
<1>1. TypeOK /\ FactsTypeOK /\ SyncTypeOK /\ FilesTypeOK /\ SessionsTypeOK /\ GraphTypeOK /\ Focused
         => StoresTypeOK
  BY DEF StoresTypeOK, Focused
<1>2. StoresInit => /\ Focused /\ Init /\ FactsInit /\ SyncInit /\ FilesInit
                    /\ SessionsInit /\ GraphInit
  BY StoresStart
<1>3. [StoresNext]_allVars =>
         /\ Focused => Focused'
         /\ [Next]_vars /\ [FactsNext]_factsVars /\ [SyncNext]_syncVars
         /\ [FilesNext]_filesVars /\ [SessionsNext]_sessionsVars /\ [GraphNext]_graphVars
  BY StoresStep
<1>4. Spec => []TypeOK
  BY TypeCorrect
<1>5. FactsSpec => []FactsTypeOK
  BY StoreTyped
<1>6. SyncSpec => []SyncTypeOK
  BY SyncTyped
<1>7. FilesSpec => []FilesTypeOK
  BY FilesTyped
<1>8. SessionsSpec => []SessionsTypeOK
  BY SessionsTyped
<1>9. GraphSpec => []GraphTypeOK
  BY GraphTyped
<1> QED
  BY <1>1, <1>2, <1>3, <1>4, <1>5, <1>6, <1>7, <1>8, <1>9, PTL
  DEF StoresSpec, Spec, FactsSpec, SyncSpec, FilesSpec, SessionsSpec, GraphSpec
=============================================================================
