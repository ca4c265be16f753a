----------------------------- MODULE VectorOps -----------------------------
(***************************************************************************)
(* The operations of a vector store and what a sequence of them leaves     *)
(* behind (infrastructure/vector/HnswVectorAdapter.ts: upsert, remove,     *)
(* clear and #replayOp).  A document is one value: its content, vector and *)
(* metadata are always written together.                                   *)
(***************************************************************************)
EXTENDS Naturals, Sequences

CONSTANTS Ids,     \* the documents
          Vals,    \* what a document may hold
          None     \* no such document

ASSUME NoneAssumption == None \notin Vals

Contents == [Ids -> Vals \cup {None}]

(* A line of the journal.  "none" is a line recover() skips: its checksum  *)
(* does not match, or the operation could not be serialized.               *)
Ops == [kind : {"upsert", "remove", "clear", "none"}, id : Ids, val : Vals]

Touches(op, k) == \/ op.kind = "clear"
                  \/ op.kind \in {"upsert", "remove"} /\ op.id = k
(* Mutant: the operation itself is what a document holds. *)
EffectTombstone(op) == op.kind
Effect(op) == IF op.kind = "upsert" THEN op.val ELSE None
Touched(s, k) == \E i \in DOMAIN s : Touches(s[i], k)
LastTouch(s, k) == CHOOSE i \in DOMAIN s :
                      /\ Touches(s[i], k)
                      /\ \A j \in DOMAIN s : Touches(s[j], k) => j <= i

(* What the operations of s, in this order, make of the contents m. *)
Replay(m, s) == [k \in Ids |-> IF Touched(s, k) THEN Effect(s[LastTouch(s, k)]) ELSE m[k]]

(* The calls of the store: upsert, remove, clear, and batchUpsert of two   *)
(* documents.                                                              *)
Upserts == {op \in Ops : op.kind = "upsert"}
Removes(a) == {op \in Ops : op.kind = "remove" /\ op.val = a}
Clears(i, a) == {op \in Ops : op.kind = "clear" /\ op.id = i /\ op.val = a}
Calls == LET i == CHOOSE i \in Ids : TRUE
             a == CHOOSE a \in Vals : TRUE
         IN  {<<op>> : op \in Upserts \cup Removes(a) \cup Clears(i, a)}
             \cup {s \in Upserts \X Upserts : s[1].id # s[2].id}
=============================================================================
