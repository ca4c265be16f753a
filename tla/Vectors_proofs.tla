--------------------------- MODULE Vectors_proofs ---------------------------
(***************************************************************************)
(* The persistence of the vector store, for any documents, batch size and  *)
(* number of calls: the snapshot and the journal are always enough.  And   *)
(* the queue and the batches of SyncCoordinator, for any recipes, batch    *)
(* sizes and faults, when reconcile() does not run beside them.            *)
(***************************************************************************)
EXTENDS VectorWal, VectorSync, SequenceTheorems, WellFoundedInduction, TLAPS

-----------------------------------------------------------------------------
(* Replaying operations.                                                   *)

(* A set of naturals that is not empty has a least element.                *)
Less == {p \in Nat \X Nat : p[1] < p[2]}
LEMMA LessIsWellFounded == IsWellFoundedOn(Less, Nat)
<1>1. Less = OpToRel(<, Nat)
  BY DEF Less, OpToRel
<1> QED
  BY <1>1, NatLessThanWellFounded
LEMMA Least == ASSUME NEW T \in SUBSET Nat, T # {}
               PROVE  \E n \in T : \A o \in T : n <= o
<1>1. PICK n \in T : \A o \in T : ~(<<o, n>> \in Less)
  BY LessIsWellFounded, WFMin
<1>2. ASSUME NEW o \in T PROVE n <= o
  <2>1. o \in Nat /\ n \in Nat
    OBVIOUS
  <2>2. ~(<<o, n>> \in Less)
    BY <1>1
  <2>3. ~(o < n)
    BY <2>1, <2>2 DEF Less
  <2> QED
    BY <2>1, <2>3
<1> QED
  BY <1>2

(* A document that some operation of s touches has a last one that does.   *)
LEMMA LastTouchIs == ASSUME NEW s \in Seq(Ops), NEW k, Touched(s, k)
                     PROVE  /\ LastTouch(s, k) \in DOMAIN s
                            /\ Touches(s[LastTouch(s, k)], k)
                            /\ \A j \in DOMAIN s : Touches(s[j], k) => j <= LastTouch(s, k)
<1> DEFINE T == {n \in Nat : Len(s) - n \in DOMAIN s /\ Touches(s[Len(s) - n], k)}
<1>1. Len(s) \in Nat /\ DOMAIN s = 1..Len(s)
  BY LenProperties
<1>2. PICK i \in DOMAIN s : Touches(s[i], k)
  BY DEF Touched
<1>3. Len(s) - i \in T
  <2>1. Len(s) - i \in Nat /\ Len(s) - (Len(s) - i) = i
    BY <1>1
  <2> QED
    BY <2>1, <1>2
<1>4. T \in SUBSET Nat /\ T # {}
  BY <1>3
<1>5. PICK n \in T : \A o \in T : n <= o
  <2> HIDE DEF T
  <2> QED
    BY <1>4, Least
<1>7. \A j \in DOMAIN s : Touches(s[j], k) => j <= Len(s) - n
  <2> SUFFICES ASSUME NEW j \in DOMAIN s, Touches(s[j], k)
               PROVE  j <= Len(s) - n
    OBVIOUS
  <2>1. Len(s) - j \in Nat /\ Len(s) - (Len(s) - j) = j
    BY <1>1
  <2>2. n <= Len(s) - j
    BY <2>1, <1>5
  <2> QED
    BY <2>1, <2>2, <1>1
<1>8. \E l \in DOMAIN s : /\ Touches(s[l], k)
                          /\ \A j \in DOMAIN s : Touches(s[j], k) => j <= l
  BY <1>7
<1> QED
  BY <1>8 DEF LastTouch

(* What is left of a document is the effect of the last that touches it.   *)
LEMMA ReplayAt == ASSUME NEW m, NEW s \in Seq(Ops), NEW k \in Ids, NEW i \in DOMAIN s,
                         Touches(s[i], k), \A j \in DOMAIN s : Touches(s[j], k) => j <= i
                  PROVE  Touched(s, k) /\ Replay(m, s)[k] = Effect(s[i])
<1>1. Touched(s, k)
  BY DEF Touched
<1>2. LastTouch(s, k) = i
  BY <1>1, LastTouchIs, LenProperties
<1> QED
  BY <1>1, <1>2 DEF Replay

LEMMA ReplayType == ASSUME NEW m \in Contents, NEW s \in Seq(Ops)
                    PROVE  Replay(m, s) \in Contents
<1>1. ASSUME NEW k \in Ids, Touched(s, k) PROVE Effect(s[LastTouch(s, k)]) \in Vals \cup {None}
  <2>1. LastTouch(s, k) \in DOMAIN s
    BY <1>1, LastTouchIs
  <2>2. s[LastTouch(s, k)] \in Ops
    BY <2>1, ElementOfSeq, LenProperties
  <2> QED
    BY <2>2 DEF Ops, Effect
<1> QED
  BY <1>1 DEF Replay, Contents

(* A document that s touches is what s makes of it, another stays.         *)
LEMMA ReplayKeeps == ASSUME NEW m, NEW n, NEW s, NEW k \in Ids
                     PROVE  /\ Touched(s, k) => Replay(m, s)[k] = Replay(n, s)[k]
                            /\ ~Touched(s, k) => Replay(m, s)[k] = m[k]
  BY DEF Replay

LEMMA ReplayNothing == ASSUME NEW m \in Contents PROVE Replay(m, <<>>) = m
<1>1. \A k \in Ids : ~Touched(<<>>, k)
  BY DEF Touched
<1> QED
  BY <1>1 DEF Replay, Contents

(* What a concatenation leaves of a document: of its second part, if that  *)
(* touches it, else of the first.                                          *)
LEMMA ConcatAt == ASSUME NEW m, NEW s \in Seq(Ops), NEW t \in Seq(Ops), NEW k \in Ids
                  PROVE  /\ Touched(s \o t, k) <=> Touched(s, k) \/ Touched(t, k)
                         /\ Replay(m, s \o t)[k] = IF Touched(t, k) THEN Replay(m, t)[k]
                                                                  ELSE Replay(m, s)[k]
<1>1. /\ s \o t \in Seq(Ops) /\ DOMAIN (s \o t) = 1..(Len(s) + Len(t))
      /\ DOMAIN s = 1..Len(s) /\ DOMAIN t = 1..Len(t) /\ Len(s) \in Nat /\ Len(t) \in Nat
      /\ \A i \in 1..(Len(s) + Len(t)) : (s \o t)[i] = IF i <= Len(s) THEN s[i]
                                                      ELSE t[i - Len(s)]
  BY ConcatProperties, LenProperties
<1>2. CASE Touched(t, k)
  <2> DEFINE l == LastTouch(t, k)
  <2>1. l \in DOMAIN t /\ Touches(t[l], k) /\ \A j \in DOMAIN t : Touches(t[j], k) => j <= l
    BY <1>2, LastTouchIs
  <2>2. Len(s) + l \in DOMAIN (s \o t) /\ (s \o t)[Len(s) + l] = t[l]
    BY <2>1, <1>1
  <2>3. \A j \in DOMAIN (s \o t) : Touches((s \o t)[j], k) => j <= Len(s) + l
    <3> SUFFICES ASSUME NEW j \in DOMAIN (s \o t), Touches((s \o t)[j], k), j > Len(s)
                 PROVE  j <= Len(s) + l
      BY <2>1, <1>1
    <3>1. j - Len(s) \in DOMAIN t /\ Touches(t[j - Len(s)], k)
      BY <1>1
    <3> QED
      BY <3>1, <2>1, <1>1
  <2>4. Replay(m, s \o t)[k] = Effect(t[l]) /\ Touched(s \o t, k)
    <3> DEFINE st == s \o t
               i == Len(s) + l
    <3>1. /\ st \in Seq(Ops) /\ i \in DOMAIN st /\ st[i] = t[l]
          /\ Touches(st[i], k) /\ \A j \in DOMAIN st : Touches(st[j], k) => j <= i
      BY <2>1, <2>2, <2>3, <1>1
    <3>2. Touched(st, k) /\ Replay(m, st)[k] = Effect(st[i])
      <4> HIDE DEF st, i
      <4> QED
        BY <3>1, ReplayAt
    <3> QED
      BY <3>1, <3>2
  <2>5. Replay(m, t)[k] = Effect(t[l])
    BY <1>2 DEF Replay
  <2> QED
    BY <1>2, <2>4, <2>5
<1>3. CASE ~Touched(t, k) /\ Touched(s, k)
  <2> DEFINE l == LastTouch(s, k)
  <2>1. l \in DOMAIN s /\ Touches(s[l], k) /\ \A j \in DOMAIN s : Touches(s[j], k) => j <= l
    BY <1>3, LastTouchIs
  <2>2. l \in DOMAIN (s \o t) /\ (s \o t)[l] = s[l]
    BY <2>1, <1>1
  <2>3. \A j \in DOMAIN (s \o t) : Touches((s \o t)[j], k) => j <= l
    <3> SUFFICES ASSUME NEW j \in DOMAIN (s \o t), Touches((s \o t)[j], k), j > Len(s)
                 PROVE  FALSE
      BY <2>1, <1>1
    <3>1. j - Len(s) \in DOMAIN t /\ Touches(t[j - Len(s)], k)
      BY <1>1
    <3> QED
      BY <3>1, <1>3 DEF Touched
  <2>4. Replay(m, s \o t)[k] = Effect(s[l]) /\ Touched(s \o t, k)
    <3> DEFINE st == s \o t
               i == l
    <3>1. /\ st \in Seq(Ops) /\ i \in DOMAIN st /\ st[i] = s[l]
          /\ Touches(st[i], k) /\ \A j \in DOMAIN st : Touches(st[j], k) => j <= i
      BY <2>1, <2>2, <2>3, <1>1
    <3>2. Touched(st, k) /\ Replay(m, st)[k] = Effect(st[i])
      <4> HIDE DEF st, i
      <4> QED
        BY <3>1, ReplayAt
    <3> QED
      BY <3>1, <3>2
  <2>5. Replay(m, s)[k] = Effect(s[l])
    BY <1>3 DEF Replay
  <2> QED
    BY <1>3, <2>4, <2>5
<1>4. CASE ~Touched(t, k) /\ ~Touched(s, k)
  <2>1. ~Touched(s \o t, k)
    <3> SUFFICES ASSUME NEW j \in DOMAIN (s \o t), Touches((s \o t)[j], k)
                 PROVE  FALSE
      BY DEF Touched
    <3>1. CASE j <= Len(s)
      BY <3>1, <1>1, <1>4 DEF Touched
    <3>2. CASE j > Len(s)
      <4>1. j - Len(s) \in DOMAIN t /\ Touches(t[j - Len(s)], k)
        BY <3>2, <1>1
      <4> QED
        BY <4>1, <1>4 DEF Touched
    <3> QED
      BY <3>1, <3>2, <1>1
  <2> QED
    BY <2>1, <1>4 DEF Replay
<1> QED
  BY <1>2, <1>3, <1>4

(* Replaying in two goes is replaying at once, replaying again changes     *)
(* nothing.                                                                *)
LEMMA ReplayConcat == ASSUME NEW m \in Contents, NEW s \in Seq(Ops), NEW t \in Seq(Ops)
                      PROVE  Replay(m, s \o t) = Replay(Replay(m, s), t)
<1>1. \A k \in Ids : Replay(m, s \o t)[k] = Replay(Replay(m, s), t)[k]
  <2> SUFFICES ASSUME NEW k \in Ids PROVE Replay(m, s \o t)[k] = Replay(Replay(m, s), t)[k]
    OBVIOUS
  <2>1. Replay(m, s \o t)[k] = IF Touched(t, k) THEN Replay(m, t)[k] ELSE Replay(m, s)[k]
    BY ConcatAt
  <2>2. /\ Touched(t, k) => Replay(Replay(m, s), t)[k] = Replay(m, t)[k]
        /\ ~Touched(t, k) => Replay(Replay(m, s), t)[k] = Replay(m, s)[k]
    BY ReplayKeeps
  <2> QED
    BY <2>1, <2>2
<1> QED
  BY <1>1 DEF Replay
LEMMA ReplayAgain == ASSUME NEW m \in Contents, NEW s \in Seq(Ops)
                     PROVE  Replay(Replay(m, s), s) = Replay(m, s)
<1>1. ASSUME NEW k \in Ids PROVE Replay(Replay(m, s), s)[k] = Replay(m, s)[k]
  BY DEF Replay
<1> QED
  BY <1>1 DEF Replay

(* s says nothing that the contents m do not say already. *)
Settles(m, s) == Replay(m, s) = m

(* It stays so when both go on by the same operations, and so it is for    *)
(* the end of s.                                                           *)
LEMMA SettlesOn == ASSUME NEW m \in Contents, NEW s \in Seq(Ops), NEW t \in Seq(Ops),
                          Settles(m, s)
                   PROVE  Settles(Replay(m, t), s \o t)
<1> DEFINE n == Replay(m, t)
<1>1. ASSUME NEW k \in Ids PROVE Replay(n, s \o t)[k] = n[k]
  <2>1. Replay(n, s \o t)[k] = IF Touched(t, k) THEN Replay(n, t)[k] ELSE Replay(n, s)[k]
    BY ConcatAt
  <2>2. Touched(t, k) => Replay(n, t)[k] = n[k]
    BY ReplayKeeps
  <2>3. CASE ~Touched(t, k)
    <3>1. n[k] = m[k] /\ Replay(m, s)[k] = m[k]
      BY <2>3, ReplayKeeps DEF Settles
    <3>2. Replay(n, s)[k] = m[k]
      <4>1. CASE Touched(s, k)
        <5>1. Replay(n, s)[k] = Replay(m, s)[k]
          BY <4>1, ReplayKeeps
        <5> QED
          BY <5>1, <3>1
      <4>2. CASE ~Touched(s, k)
        <5>1. Replay(n, s)[k] = n[k]
          BY <4>2, ReplayKeeps
        <5> QED
          BY <5>1, <3>1
      <4> QED
        BY <4>1, <4>2
    <3> QED
      BY <2>1, <2>3, <3>1, <3>2
  <2> QED
    BY <2>1, <2>2, <2>3
<1>2. n \in Contents /\ s \o t \in Seq(Ops)
  BY ReplayType, ConcatProperties
<1>3. Replay(n, s \o t) \in Contents
  BY <1>2, ReplayType
<1> QED
  BY <1>1, <1>2, <1>3 DEF Contents, Settles
LEMMA SettlesEnd == ASSUME NEW m \in Contents, NEW s \in Seq(Ops), NEW t \in Seq(Ops),
                           Settles(m, s \o t)
                    PROVE  Settles(m, t)
<1>1. ASSUME NEW k \in Ids PROVE Replay(m, t)[k] = m[k]
  <2>1. CASE Touched(t, k)
    <3>1. Replay(m, s \o t)[k] = IF Touched(t, k) THEN Replay(m, t)[k] ELSE Replay(m, s)[k]
      BY ConcatAt
    <3> QED
      BY <2>1, <3>1 DEF Settles
  <2>2. CASE ~Touched(t, k)
    BY <2>2, ReplayKeeps
  <2> QED
    BY <2>1, <2>2
<1>2. Replay(m, t) \in Contents
  BY ReplayType
<1> QED
  BY <1>1, <1>2 DEF Contents, Settles

-----------------------------------------------------------------------------
(* The inductive invariant.                                                *)

(* Nothing runs in a process that is down. *)
DownIsBlank == phase = "down" =>
    /\ ~dirty /\ pending = <<>> /\ ~timer /\ flush = "idle" /\ batch = <<>>
    /\ saver = "none" /\ ~stale /\ caller = "none"
WalStages == /\ flush = "idle" => batch = <<>>
             /\ saver = "wal" <=> flush = "saving"

(* What is queued has been done to the memory: it may be replayed on it.   *)
QueueIsDone == phase \in Running => Settles(mem, batch \o pending)
(* A clean memory is saved once nothing is being written.                  *)
CleanIsSaved == phase \in Running /\ saver = "none" /\ ~dirty => snap = mem
(* The snapshot in the making does as well as the present one: with the    *)
(* journal, and with the queue alone when the journal is to be replaced.   *)
EncodedIsEnough ==
    /\ saver # "none" => /\ Replay(enc, wal) = mem
                         /\ ~stale => enc = mem
    /\ saver = "wal" \/ (saver = "own" /\ flush = "confirm") => Replay(enc, pending) = mem
(* A confirmed batch is in the snapshot: the rest of the journal suffices. *)
ConfirmedIsSaved == flush = "confirm" => Replay(snap, pending) = mem

WalInv == /\ TypeOK /\ ~torn /\ DownIsBlank /\ WalStages /\ MemoryIsRecoverable
          /\ QueueIsDone /\ CleanIsSaved /\ EncodedIsEnough /\ ConfirmedIsSaved

USE SizeAssumption, NoneAssumption

LEMMA CallsAre == ASSUME NEW ops \in Calls
                  PROVE  ops \in Seq(Ops) /\ ops # <<>> /\ Len(ops) \in {1, 2}
<1> DEFINE i == CHOOSE i \in Ids : TRUE
           a == CHOOSE a \in Vals : TRUE
<1>1. CASE \E op \in Upserts \cup Removes(a) \cup Clears(i, a) : ops = <<op>>
  <2>1. PICK op \in Ops : ops = <<op>>
    BY <1>1 DEF Upserts, Removes, Clears
  <2> QED
    BY <2>1
<1>2. CASE ops \in {s \in Upserts \X Upserts : s[1].id # s[2].id}
  <2>1. PICK u \in Ops, v \in Ops : ops = <<u, v>>
    BY <1>2 DEF Upserts
  <2> QED
    BY <2>1
<1> QED
  BY <1>1, <1>2 DEF Calls

LEMMA EmptyType == Empty \in Contents /\ <<>> \in Seq(Ops)
  BY DEF Empty, Contents

(* What the invariant says of replaying, in the form the steps need.       *)
LEMMA Known == ASSUME WalInv
               PROVE  /\ batch \o pending \in Seq(Ops)
                      /\ Replay(snap, wal) \in Contents
                      /\ phase \in Running => /\ Replay(snap, wal) = mem
                                              /\ Replay(mem, wal) = mem
                                              /\ Settles(mem, batch \o pending)
                                              /\ Settles(mem, pending)
                                              /\ flush = "idle" => batch \o pending = pending
                      /\ phase \notin Running => phase = "down"
<1> USE DEF WalInv, TypeOK
<1>1. batch \o pending \in Seq(Ops)
  BY ConcatProperties
<1>2. Replay(snap, wal) \in Contents
  BY ReplayType
<1>3. ASSUME phase \in Running
      PROVE  /\ Replay(snap, wal) = mem
             /\ Replay(mem, wal) = mem
             /\ Settles(mem, batch \o pending)
             /\ Settles(mem, pending)
             /\ flush = "idle" => batch \o pending = pending
  <2>1. Replay(snap, wal) = mem
    BY <1>3 DEF MemoryIsRecoverable
  <2>2. Replay(mem, wal) = mem
    BY <2>1, ReplayAgain
  <2>3. Settles(mem, batch \o pending)
    BY <1>3 DEF QueueIsDone
  <2>4. Settles(mem, pending)
    BY <2>3, SettlesEnd
  <2>5. flush = "idle" => batch \o pending = pending
    BY ConcatEmptySeq DEF WalStages
  <2> QED
    BY <2>1, <2>2, <2>3, <2>4, <2>5
<1> QED
  BY <1>1, <1>2, <1>3

-----------------------------------------------------------------------------
(* Every step.                                                             *)

(* A flush that starts when no other is at work, with what is queued.      *)
TheRest == /\ WalStages /\ QueueIsDone /\ CleanIsSaved /\ EncodedIsEnough /\ ConfirmedIsSaved
LEMMA StartFlushStep ==
    ASSUME NEW b \in Seq(Ops), NEW q \in Seq(Ops), NEW m \in Contents, NEW changed \in BOOLEAN,
           TypeOK, StartFlush(b, q, m, changed), saver # "wal",
           mem' = m, dirty' = (dirty \/ changed), m = Replay(m, wal'), Settles(m, b \o q),
           saver = "none" /\ ~(dirty \/ changed) => snap' = m,
           saver # "none" => Replay(enc, wal') = m /\ (~(stale \/ changed) => enc = m)
    PROVE  /\ TheRest' /\ pending' \in Seq(Ops) /\ batch' \in Seq(Ops) /\ timer' = FALSE
           /\ flush' \in {"waiting", "saving", "confirm"} /\ saver' \in {"none", "wal", "own"}
           /\ enc' \in Contents /\ stale' \in BOOLEAN
<1> USE DEF StartFlush, TypeOK
<1>1. Settles(m, q)
  BY SettlesEnd
<1>2. pending' = q /\ batch' = b /\ timer' = FALSE
  OBVIOUS
<1>3. QueueIsDone'
  BY <1>2 DEF QueueIsDone
<1>4. CASE saver = "none" /\ (dirty \/ changed) /\ flush' = "saving" /\ Encode("wal", m)
  BY <1>1, <1>2, <1>3, <1>4
  DEF Encode, TheRest, WalStages, CleanIsSaved, EncodedIsEnough, ConfirmedIsSaved, Settles
<1>5. CASE /\ saver = "none" /\ ~(dirty \/ changed) /\ flush' = "confirm"
           /\ UNCHANGED <<saver, enc, stale>>
  BY <1>1, <1>2, <1>3, <1>5
  DEF TheRest, WalStages, CleanIsSaved, EncodedIsEnough, ConfirmedIsSaved, Settles
<1>6. CASE /\ saver # "none" /\ flush' = "waiting" /\ stale' = (stale \/ changed)
           /\ UNCHANGED <<saver, enc>>
  BY <1>1, <1>2, <1>3, <1>6
  DEF TheRest, WalStages, CleanIsSaved, EncodedIsEnough, ConfirmedIsSaved
<1> QED
  BY <1>4, <1>5, <1>6

LEMMA WriteStep == ASSUME WalInv, NEW ops \in Calls, Write(ops)
                   PROVE  WalInv' /\ mem' = Replay(mem, ops)
<1> DEFINE m == Replay(mem, ops)
           all == pending \o ops
<1> USE DEF Write
<1>1. /\ ops \in Seq(Ops) /\ ops # <<>> /\ Len(ops) \in {1, 2}
      /\ mem \in Contents /\ pending \in Seq(Ops) /\ batch \in Seq(Ops) /\ wal \in Seq(Ops)
      /\ snap \in Contents /\ enc \in Contents /\ stale \in BOOLEAN /\ dirty \in BOOLEAN
      /\ TypeOK
  BY CallsAre DEF WalInv, TypeOK
<1>2. phase \in Running /\ phase' = phase /\ phase = "up" /\ mem' = m /\ dirty' = TRUE /\ snap' = snap
  BY DEF Running
<1>11. calls' \in 0..MaxCalls /\ caller' \in {"none", "wal", "own"}
  BY DEF WalInv, TypeOK
<1>3. wal' = wal \o ops /\ torn' = FALSE
  BY DEF Glued, WalInv
<1>4. m \in Contents /\ all \in Seq(Ops) /\ wal' \in Seq(Ops)
  BY <1>1, <1>3, ReplayType, ConcatProperties
<1>5. MemoryIsRecoverable'
  <2>1. Replay(snap, wal \o ops) = Replay(Replay(snap, wal), ops)
    BY <1>1, ReplayConcat
  <2> QED
    BY <2>1, <1>2, <1>3, Known DEF MemoryIsRecoverable
<1>6. Replay(m, wal') = m
  BY <1>1, <1>2, <1>3, Known, SettlesOn DEF Settles
<1>7. saver # "none" => Replay(enc, wal') = m
  <2> SUFFICES ASSUME saver # "none" PROVE Replay(enc, wal') = m
    OBVIOUS
  <2>1. Replay(enc, wal) = mem
    BY DEF WalInv, EncodedIsEnough
  <2> QED
    BY <2>1, <1>1, <1>3, ReplayConcat
<1>8. Settles(m, all)
  BY <1>1, <1>2, Known, SettlesOn
<1>9. TypeOK' /\ TheRest'
  <2>1. CASE /\ flush = "idle" /\ Len(all) >= BatchSize
             /\ StartFlush(SubSeq(all, 1, Cut), SubSeq(all, Cut + 1, Len(all)), m, TRUE)
    <3> DEFINE b == SubSeq(all, 1, Cut)
               q == SubSeq(all, Cut + 1, Len(all))
    <3>1. Len(all) = Len(pending) + Len(ops) /\ Len(pending) \in Nat
      BY <1>1, ConcatProperties, LenProperties
    <3>2. Cut \in 1..Len(all)
      BY <3>1, <2>1, <1>1 DEF Cut
    <3>3. b \in Seq(Ops) /\ q \in Seq(Ops)
      BY <3>1, <3>2, <1>4, <1>1, SubSeqProperties, LenProperties
    <3>4. b \o q = all
      <4>1. SubSeq(all, 1, Cut) \o SubSeq(all, Cut + 1, Len(all)) = SubSeq(all, 1, Len(all))
        <5> HIDE DEF all
        <5> QED
          BY <3>1, <3>2, <1>4, <1>1, ConcatAdjacentSubSeq
      <4> QED
        BY <4>1, <1>4, SubSeqFull
    <3>5. saver # "wal"
      BY <2>1 DEF WalInv, WalStages
    <3>6. /\ TheRest' /\ pending' \in Seq(Ops) /\ batch' \in Seq(Ops) /\ timer' = FALSE
          /\ flush' \in {"waiting", "saving", "confirm"} /\ saver' \in {"none", "wal", "own"}
          /\ enc' \in Contents /\ stale' \in BOOLEAN
      <4> HIDE DEF b, q, m
      <4>1. StartFlush(b, q, m, TRUE)
        BY <2>1 DEF b, q
      <4>2. Settles(m, b \o q)
        BY <1>8, <3>4
      <4> QED
        BY <4>1, <4>2, <3>3, <3>5, <1>1, <1>2, <1>4, <1>6, <1>7, StartFlushStep DEF m
    <3>7. TypeOK'
      <4> HIDE DEF Write, m
      <4> QED
        BY <3>6, <1>1, <1>2, <1>3, <1>4, <1>11 DEF TypeOK
    <3> QED
      BY <3>6, <3>7
  <2>2. CASE /\ ~(flush = "idle" /\ Len(all) >= BatchSize)
             /\ pending' = all /\ stale' = TRUE /\ timer' = (timer \/ flush = "idle")
             /\ UNCHANGED <<flush, batch, saver, enc>>
    <3>1. TypeOK'
      <4> HIDE DEF Write, m, all
      <4> QED
        BY <2>2, <1>1, <1>2, <1>3, <1>4, <1>11 DEF TypeOK
    <3>2. Settles(m, batch' \o pending')
      <4>1. (batch \o pending) \o ops = batch \o (pending \o ops)
        <5> HIDE DEF Write
        <5> QED
          BY <1>1, ConcatAssociative
      <4>2. batch \o pending \in Seq(Ops) /\ Settles(mem, batch \o pending)
        BY <1>2, Known
      <4>3. Settles(m, (batch \o pending) \o ops)
        BY <4>2, <1>1, SettlesOn
      <4> QED
        BY <4>1, <4>3, <2>2
    <3>3. ASSUME NEW e \in Contents, Replay(e, pending) = mem PROVE Replay(e, all) = m
      BY <3>3, <1>1, ReplayConcat
    <3>4. QueueIsDone' /\ CleanIsSaved' /\ WalStages'
      BY <3>2, <2>2, <1>2 DEF WalInv, QueueIsDone, CleanIsSaved, WalStages
    <3>5. EncodedIsEnough' /\ ConfirmedIsSaved'
      <4> HIDE DEF Write, m, all
      <4> QED
        BY <3>3, <2>2, <1>1, <1>2, <1>7 DEF WalInv, EncodedIsEnough, ConfirmedIsSaved
    <3> QED
      BY <3>1, <3>4, <3>5 DEF TheRest
  <2> QED
    BY <2>1, <2>2
<1>10. DownIsBlank'
  BY <1>2 DEF DownIsBlank
<1> QED
  BY <1>2, <1>3, <1>5, <1>9, <1>10 DEF WalInv, TheRest

(* A flush that the timer, flush() or a rewritten journal starts with all  *)
(* that is pending.                                                        *)
LEMMA FlushPending ==
    ASSUME WalInv, phase \in Running, saver # "wal", StartFlush(pending, <<>>, mem, FALSE),
           Settles(mem, pending), UNCHANGED <<mem, dirty, snap, torn, phase, calls>>,
           caller' \in {"none", "wal", "own"},
           wal' \in Seq(Ops), Replay(snap, wal') = mem, saver # "none" => Replay(enc, wal') = mem
    PROVE  WalInv'
<1>1. /\ TypeOK /\ pending \in Seq(Ops) /\ mem \in Contents /\ <<>> \in Seq(Ops)
      /\ snap \in Contents /\ dirty \in BOOLEAN /\ stale \in BOOLEAN
  BY EmptyType DEF WalInv, TypeOK
<1>2. Settles(mem, pending \o <<>>)
  BY <1>1, ConcatEmptySeq
<1>3. mem = Replay(mem, wal')
  BY <1>1, ReplayAgain
<1>4. saver = "none" /\ ~dirty => snap' = mem
  BY DEF WalInv, CleanIsSaved
<1>5. saver # "none" /\ ~stale => enc = mem
  BY DEF WalInv, EncodedIsEnough
<1>6. dirty' = (dirty \/ FALSE) /\ ~(stale \/ FALSE) = ~stale
  BY <1>1
<1>7. /\ TheRest' /\ pending' \in Seq(Ops) /\ batch' \in Seq(Ops) /\ timer' = FALSE
      /\ flush' \in {"waiting", "saving", "confirm"} /\ saver' \in {"none", "wal", "own"}
      /\ enc' \in Contents /\ stale' \in BOOLEAN
  BY <1>1, <1>2, <1>3, <1>4, <1>5, <1>6, StartFlushStep
<1>8. TypeOK'
  BY <1>7, <1>1 DEF TypeOK
<1>9. DownIsBlank' /\ MemoryIsRecoverable' /\ torn' = FALSE
  BY DEF DownIsBlank, MemoryIsRecoverable, Running, WalInv, TypeOK
<1> QED
  BY <1>7, <1>8, <1>9 DEF WalInv, TheRest

LEMMA TimerStep == ASSUME WalInv, TimerFires PROVE WalInv'
<1>1. phase \in Running /\ saver # "wal"
  BY Known DEF TimerFires, WalInv, DownIsBlank, WalStages
<1>2. CASE pending # <<>> /\ StartFlush(pending, <<>>, mem, FALSE)
  <2>1. /\ UNCHANGED <<mem, dirty, snap, torn, phase, calls, wal>>
        /\ caller' \in {"none", "wal", "own"} /\ wal' \in Seq(Ops)
        /\ Replay(snap, wal') = mem /\ (saver # "none" => Replay(enc, wal') = mem)
        /\ Settles(mem, pending)
    BY <1>1, Known DEF TimerFires, disk, WalInv, TypeOK, EncodedIsEnough
  <2> QED
    BY <1>1, <1>2, <2>1, FlushPending
<1>3. CASE pending = <<>> /\ timer' = FALSE /\ UNCHANGED <<pending, tasks>>
  BY <1>1, <1>3
  DEF TimerFires, disk, tasks, WalInv, TypeOK, DownIsBlank, WalStages, MemoryIsRecoverable,
      QueueIsDone, CleanIsSaved, EncodedIsEnough, ConfirmedIsSaved
<1> QED
  BY <1>2, <1>3 DEF TimerFires

LEMMA TurnStep == ASSUME WalInv, TakesTurn PROVE WalInv'
<1>1. phase \in Running
  BY Known DEF TakesTurn, WalInv, DownIsBlank
<1>2. Replay(mem, wal) = mem /\ Replay(mem, pending) = mem
  BY <1>1, Known DEF Settles
<1>3. WalStages' /\ TypeOK' /\ DownIsBlank' /\ torn' = FALSE
  BY <1>1 DEF TakesTurn, Encode, disk, WalInv, TypeOK, DownIsBlank, WalStages, Running
<1>4. QueueIsDone' /\ CleanIsSaved' /\ MemoryIsRecoverable'
  BY <1>1 DEF TakesTurn, Encode, disk, WalInv, TypeOK, QueueIsDone, CleanIsSaved, MemoryIsRecoverable
<1>5. EncodedIsEnough' /\ ConfirmedIsSaved'
  BY <1>1, <1>2
  DEF TakesTurn, Encode, disk, WalInv, TypeOK, CleanIsSaved, EncodedIsEnough, ConfirmedIsSaved
<1> QED
  BY <1>3, <1>4, <1>5 DEF WalInv

LEMMA SaveDoneStep == ASSUME WalInv, SaveDone PROVE WalInv'
<1>1. phase \in Running
  BY Known DEF SaveDone, WalInv, DownIsBlank
<1>2. Replay(mem, wal) = mem /\ Replay(mem, pending) = mem
  BY <1>1, Known DEF Settles
<1>3. WalStages' /\ TypeOK' /\ DownIsBlank' /\ torn' = FALSE
  BY <1>1 DEF SaveDone, WalInv, TypeOK, DownIsBlank, WalStages, Running
<1>4. QueueIsDone' /\ EncodedIsEnough'
  BY <1>1 DEF SaveDone, WalInv, QueueIsDone, EncodedIsEnough
<1>5. CleanIsSaved' /\ MemoryIsRecoverable'
  BY <1>1, <1>2 DEF SaveDone, WalInv, TypeOK, CleanIsSaved, EncodedIsEnough, MemoryIsRecoverable
<1>6. ConfirmedIsSaved'
  BY <1>1, <1>2 DEF SaveDone, WalInv, TypeOK, WalStages, EncodedIsEnough, ConfirmedIsSaved
<1> QED
  BY <1>3, <1>4, <1>5, <1>6 DEF WalInv

(* A batch that is put back is the queue again. *)
LEMMA PutBackStep == ASSUME WalInv, phase \in Running, PutBack, mem' = mem
                     PROVE  /\ pending' = batch \o pending /\ pending' \in Seq(Ops)
                            /\ batch' = <<>> /\ flush' = "idle" /\ timer' \in BOOLEAN
                            /\ phase' \in Running /\ Settles(mem', batch' \o pending')
<1>1. /\ pending' = batch \o pending /\ pending' \in Seq(Ops)
      /\ batch' = <<>> /\ flush' = "idle" /\ timer' \in BOOLEAN /\ phase' \in Running
  BY Known DEF PutBack, Running
<1>2. batch' \o pending' = batch \o pending
  BY <1>1, ConcatEmptySeq
<1> QED
  BY <1>1, <1>2, Known

LEMMA SaveFailsStep == ASSUME WalInv, SaveFails PROVE WalInv'
<1>1. phase \in Running
  BY Known DEF SaveFails, WalInv, DownIsBlank
<1>2. snap' \in Contents /\ Replay(snap', wal) = mem /\ mem' = mem /\ wal' = wal
  BY <1>1, Known DEF SaveFails, WalInv, TypeOK, EncodedIsEnough
<1>3. saver # "none" /\ saver' = "none" /\ dirty' = TRUE /\ torn' = FALSE
  BY DEF SaveFails, WalInv, TypeOK
<1>4. CASE flush \in {"saving", "waiting"} /\ PutBack
  <2>1. /\ pending' \in Seq(Ops) /\ batch' = <<>> /\ flush' = "idle" /\ timer' \in BOOLEAN
        /\ phase' \in Running /\ Settles(mem', batch' \o pending')
    BY <1>1, <1>2, <1>4, PutBackStep
  <2>2. TypeOK' /\ DownIsBlank' /\ WalStages'
    BY <2>1, <1>2, <1>3, EmptyType DEF SaveFails, WalInv, TypeOK, DownIsBlank, WalStages, Running
  <2>3. QueueIsDone' /\ CleanIsSaved' /\ MemoryIsRecoverable' /\ EncodedIsEnough'
    BY <2>1, <1>2, <1>3 DEF QueueIsDone, CleanIsSaved, MemoryIsRecoverable, EncodedIsEnough
  <2> QED
    BY <2>1, <2>2, <2>3, <1>3 DEF WalInv, ConfirmedIsSaved
<1>5. CASE flush \notin {"saving", "waiting"} /\ UNCHANGED <<pending, batch, flush, timer, phase>>
  <2>1. saver = "own"
    BY <1>3, <1>5 DEF WalInv, TypeOK, WalStages
  <2>2. TypeOK' /\ DownIsBlank' /\ WalStages'
    BY <1>1, <1>2, <1>3, <1>5 DEF SaveFails, WalInv, TypeOK, DownIsBlank, WalStages, Running
  <2>3. QueueIsDone' /\ CleanIsSaved' /\ MemoryIsRecoverable' /\ EncodedIsEnough'
    BY <1>5, <1>2, <1>3 DEF WalInv, QueueIsDone, CleanIsSaved, MemoryIsRecoverable, EncodedIsEnough
  <2>4. ConfirmedIsSaved'
    BY <1>5, <1>2, <2>1 DEF SaveFails, WalInv, EncodedIsEnough, ConfirmedIsSaved
  <2> QED
    BY <2>2, <2>3, <2>4, <1>3 DEF WalInv
<1> QED
  BY <1>4, <1>5 DEF SaveFails

LEMMA ClearWalStep == ASSUME WalInv, ClearWal PROVE WalInv'
<1>1. phase \in Running
  BY Known DEF ClearWal, WalInv, DownIsBlank
<1>2. saver # "wal" /\ snap = mem /\ (saver # "none" => enc = mem)
  BY ReplayNothing DEF ClearWal, WalInv, TypeOK, WalStages, ConfirmedIsSaved, EncodedIsEnough
<1>3. Replay(mem, <<>>) = mem /\ Replay(mem, wal) = mem /\ <<>> \o <<>> = <<>>
  BY <1>1, Known, ReplayNothing, EmptyType, ConcatEmptySeq DEF WalInv, TypeOK
<1>4. TypeOK' /\ DownIsBlank' /\ WalStages' /\ torn' = FALSE
  BY <1>1, EmptyType DEF ClearWal, WalInv, TypeOK, DownIsBlank, WalStages, Running
<1>5. QueueIsDone' /\ CleanIsSaved' /\ MemoryIsRecoverable' /\ EncodedIsEnough'
  BY <1>1, <1>2, <1>3
  DEF ClearWal, WalInv, QueueIsDone, CleanIsSaved, MemoryIsRecoverable, EncodedIsEnough, Settles
<1> QED
  BY <1>4, <1>5 DEF WalInv, ClearWal, ConfirmedIsSaved

LEMMA RewriteStep == ASSUME WalInv, RewriteWal PROVE WalInv'
<1>1. phase \in Running /\ saver # "wal" /\ Settles(mem, pending) /\ pending \in Seq(Ops)
  BY Known DEF RewriteWal, WalInv, TypeOK, DownIsBlank, WalStages
<1>2. Replay(snap, pending) = mem /\ (saver # "none" => Replay(enc, pending) = mem)
  BY <1>1 DEF RewriteWal, WalInv, TypeOK, ConfirmedIsSaved, EncodedIsEnough
<1>3. wal' = pending /\ torn' = FALSE /\ UNCHANGED <<mem, dirty, snap, phase, calls, caller>>
  BY DEF RewriteWal
<1>4. caller' \in {"none", "wal", "own"} /\ torn' = torn
  BY <1>3 DEF WalInv, TypeOK
<1>5. CASE StartFlush(pending, <<>>, mem, FALSE)
  BY <1>1, <1>2, <1>3, <1>4, <1>5, FlushPending
<1>6. CASE /\ flush' = "idle" /\ batch' = <<>> /\ timer' = (phase # "closed")
           /\ UNCHANGED <<pending, saver, enc, stale>>
  <2>1. TypeOK' /\ DownIsBlank' /\ WalStages'
    BY <1>1, <1>3, <1>4, <1>6, EmptyType DEF WalInv, TypeOK, DownIsBlank, WalStages, Running
  <2>2. batch' \o pending' = pending
    BY <1>1, <1>6, ConcatEmptySeq
  <2>3. QueueIsDone' /\ CleanIsSaved' /\ MemoryIsRecoverable' /\ EncodedIsEnough'
    BY <2>2, <1>1, <1>2, <1>3, <1>6
    DEF WalInv, QueueIsDone, CleanIsSaved, MemoryIsRecoverable, EncodedIsEnough
  <2> QED
    BY <2>1, <2>3, <1>3, <1>6 DEF WalInv, ConfirmedIsSaved
<1> QED
  BY <1>5, <1>6 DEF RewriteWal

LEMMA RewriteFailsStep == ASSUME WalInv, RewriteFails PROVE WalInv'
<1>1. phase \in Running /\ saver # "wal"
  BY Known DEF RewriteFails, WalInv, DownIsBlank, WalStages
<1>2. UNCHANGED <<snap, wal, torn, mem, dirty, saver, enc, stale, calls>>
  BY DEF RewriteFails, disk
<1>3. /\ pending' \in Seq(Ops) /\ batch' = <<>> /\ flush' = "idle" /\ timer' \in BOOLEAN
      /\ phase' \in Running /\ Settles(mem', batch' \o pending')
  BY <1>1, <1>2, PutBackStep DEF RewriteFails
<1>4. TypeOK' /\ DownIsBlank' /\ WalStages' /\ torn' = FALSE
  BY <1>1, <1>2, <1>3, EmptyType
  DEF RewriteFails, WalInv, TypeOK, DownIsBlank, WalStages, Running
<1>5. QueueIsDone' /\ CleanIsSaved' /\ MemoryIsRecoverable' /\ EncodedIsEnough'
  BY <1>1, <1>2, <1>3
  DEF WalInv, QueueIsDone, CleanIsSaved, MemoryIsRecoverable, EncodedIsEnough
<1> QED
  BY <1>3, <1>4, <1>5 DEF WalInv, ConfirmedIsSaved

(* flush(), the timer's and the batch's part in it aside. *)
LEMMA FlushStep == ASSUME WalInv, FlushCalled \/ FlushedWal \/ OwnPersist \/ FlushReturns
                   PROVE  WalInv'
<1>1. phase \in Running /\ phase' \in Running
  BY Known DEF FlushCalled, FlushedWal, OwnPersist, FlushReturns, WalInv, DownIsBlank, Running
<1>2. UNCHANGED <<snap, wal, torn, mem, dirty, pending, flush, batch, calls>>
  BY DEF FlushCalled, FlushedWal, OwnPersist, FlushReturns, disk, tasks
<1>3. \/ UNCHANGED <<saver, enc, stale>>
      \/ saver = "none" /\ dirty /\ Encode("own", mem)
  BY DEF FlushCalled, FlushedWal, OwnPersist, FlushReturns, disk, tasks
<1>4. timer' \in BOOLEAN /\ caller' \in {"none", "wal", "own"}
  BY DEF FlushCalled, FlushedWal, OwnPersist, FlushReturns, WalInv, TypeOK
<1>5. Replay(mem, wal) = mem /\ Replay(mem, pending) = mem
  BY <1>1, Known DEF Settles
<1>6. TypeOK' /\ DownIsBlank' /\ WalStages' /\ torn' = FALSE
  BY <1>1, <1>2, <1>3, <1>4 DEF Encode, WalInv, TypeOK, DownIsBlank, WalStages, Running
<1>7. QueueIsDone' /\ CleanIsSaved' /\ MemoryIsRecoverable' /\ ConfirmedIsSaved'
  BY <1>1, <1>2, <1>3
  DEF Encode, WalInv, QueueIsDone, CleanIsSaved, MemoryIsRecoverable, ConfirmedIsSaved
<1>8. EncodedIsEnough'
  BY <1>2, <1>3, <1>5 DEF Encode, WalInv, EncodedIsEnough
<1> QED
  BY <1>6, <1>7, <1>8 DEF WalInv

LEMMA FlushBatchStep == ASSUME WalInv, FlushBatch PROVE WalInv'
<1>1. phase \in Running /\ saver # "wal"
  BY Known DEF FlushBatch, WalInv, DownIsBlank, WalStages
<1>2. /\ UNCHANGED <<mem, dirty, snap, torn, phase, calls, wal>>
      /\ caller' \in {"none", "wal", "own"} /\ wal' \in Seq(Ops)
      /\ Replay(snap, wal') = mem /\ (saver # "none" => Replay(enc, wal') = mem)
      /\ Settles(mem, pending)
  BY <1>1, Known DEF FlushBatch, disk, WalInv, TypeOK, EncodedIsEnough
<1> QED
  BY <1>1, <1>2, FlushPending DEF FlushBatch

(* What a restart reads. *)
LEMMA StartedIs == ASSUME WalInv, Started
                   PROVE  /\ mem' \in Contents /\ mem' = Replay(snap, wal)
                          /\ Replay(mem', wal) = mem'
                          /\ ~Lines => mem' = snap
                          /\ calls' \in 0..MaxCalls /\ wal \in Seq(Ops) /\ snap \in Contents
                          /\ ~dirty /\ pending = <<>> /\ flush = "idle" /\ batch = <<>>
                          /\ saver = "none" /\ ~stale /\ caller = "none" /\ torn = FALSE
<1>1. wal \in Seq(Ops) /\ snap \in Contents /\ calls' \in 0..MaxCalls /\ torn = FALSE
  BY DEF WalInv, TypeOK, Started
<1>2. mem' \in Contents /\ mem' = Replay(snap, wal) /\ Replay(mem', wal) = mem'
  BY <1>1, ReplayType, ReplayAgain DEF Started
<1>3. ASSUME ~Lines PROVE mem' = snap
  <2>1. \A k \in Ids : ~Touched(wal, k)
    BY <1>3 DEF Lines, Touched, Touches
  <2>2. \A k \in Ids : mem'[k] = snap[k]
    BY <2>1, <1>2, ReplayKeeps
  <2> QED
    BY <2>2, <1>1, <1>2 DEF Contents
<1> QED
  BY <1>1, <1>2, <1>3 DEF Started, WalInv, DownIsBlank

LEMMA StartAsyncStep == ASSUME WalInv, StartAsync PROVE WalInv'
<1>1. UNCHANGED <<snap, wal, torn>>
  BY DEF StartAsync, disk
<1>2. Started
  BY DEF StartAsync
<1>3. MemoryIsRecoverable'
  BY <1>1, <1>2, StartedIs DEF MemoryIsRecoverable
<1>4. CASE /\ Lines /\ dirty' = TRUE
           /\ phase' = "starting" /\ caller' = "wal"
           /\ StartFlush(wal, <<>>, Replay(snap, wal), TRUE)
  <2>1. /\ pending' = <<>> /\ batch' = wal /\ timer' = FALSE
        /\ flush' = "saving" /\ saver' = "wal" /\ enc' = mem' /\ stale' = FALSE
    BY <1>2, <1>4, StartedIs DEF StartFlush, Encode
  <2>2. Settles(mem', batch' \o pending')
    <3>1. batch' \o pending' = wal
      BY <2>1, <1>2, StartedIs, ConcatEmptySeq
    <3>2. Replay(mem', wal) = mem'
      BY <1>2, StartedIs
    <3> QED
      BY <3>1, <3>2 DEF Settles
  <2>3. Replay(mem', <<>>) = mem'
    BY <1>2, StartedIs, ReplayNothing
  <2>4. TypeOK' /\ DownIsBlank' /\ WalStages' /\ torn' = FALSE
    BY <1>1, <1>2, <1>4, <2>1, StartedIs, EmptyType DEF TypeOK, DownIsBlank, WalStages, Running
  <2>6. Replay(mem', wal) = mem'
    BY <1>2, StartedIs
  <2>5. QueueIsDone' /\ CleanIsSaved' /\ EncodedIsEnough' /\ ConfirmedIsSaved'
    BY <2>1, <2>2, <2>3, <2>6, <1>1, <1>4
    DEF QueueIsDone, CleanIsSaved, EncodedIsEnough, ConfirmedIsSaved
  <2> QED
    BY <1>3, <2>4, <2>5 DEF WalInv
<1>5. CASE /\ ~Lines /\ dirty' = FALSE /\ phase' = "up"
           /\ UNCHANGED <<pending, timer, tasks, caller>>
  <2>1. /\ pending' = <<>> /\ batch' = <<>> /\ flush' = "idle" /\ saver' = "none"
        /\ caller' = "none" /\ mem' = snap' /\ UNCHANGED <<timer, enc, stale>>
    BY <1>1, <1>2, <1>5, StartedIs DEF tasks
  <2>2. Settles(mem', batch' \o pending')
    <3>1. batch' \o pending' = <<>>
      BY <2>1, EmptyType, ConcatEmptySeq
    <3>2. Replay(mem', <<>>) = mem'
      BY <1>2, StartedIs, ReplayNothing
    <3> QED
      BY <3>1, <3>2 DEF Settles
  <2>3. TypeOK' /\ DownIsBlank' /\ WalStages' /\ torn' = FALSE
    BY <1>1, <1>2, <1>5, <2>1, StartedIs, EmptyType
    DEF WalInv, TypeOK, DownIsBlank, WalStages, Running
  <2>4. QueueIsDone' /\ CleanIsSaved' /\ EncodedIsEnough' /\ ConfirmedIsSaved'
    BY <2>1, <2>2 DEF QueueIsDone, CleanIsSaved, EncodedIsEnough, ConfirmedIsSaved
  <2> QED
    BY <1>3, <2>3, <2>4 DEF WalInv
<1> QED
  BY <1>4, <1>5 DEF StartAsync

LEMMA StartSyncStep == ASSUME WalInv, StartSync PROVE WalInv'
<1>1. Started /\ UNCHANGED <<wal, torn, flush, batch, saver, enc, stale, caller>>
  BY DEF StartSync, tasks
<1>2. /\ pending' = wal /\ timer' = TRUE /\ phase' \in {"up", "failed"} /\ dirty' \in BOOLEAN
      /\ snap' \in {mem', snap} /\ (dirty' = FALSE => snap' = mem')
  BY <1>1, StartedIs DEF StartSync
<1>3. Settles(mem', batch' \o pending')
  <2>1. batch' \o pending' = wal
    BY <1>1, <1>2, StartedIs, ConcatEmptySeq
  <2>2. Replay(mem', wal) = mem'
    BY <1>1, StartedIs
  <2> QED
    BY <2>1, <2>2 DEF Settles
<1>4. TypeOK' /\ DownIsBlank' /\ WalStages' /\ torn' = FALSE
  BY <1>1, <1>2, StartedIs, EmptyType DEF WalInv, TypeOK, DownIsBlank, WalStages, Running
<1>5. /\ MemoryIsRecoverable' /\ QueueIsDone' /\ CleanIsSaved' /\ EncodedIsEnough'
      /\ ConfirmedIsSaved'
  <2>1. Replay(mem', wal) = mem' /\ mem' = Replay(snap, wal) /\ saver' = "none" /\ flush' = "idle"
    BY <1>1, StartedIs
  <2>2. QueueIsDone' /\ EncodedIsEnough' /\ ConfirmedIsSaved'
    BY <2>1, <1>3 DEF QueueIsDone, EncodedIsEnough, ConfirmedIsSaved
  <2>3. MemoryIsRecoverable'
    <3>1. Replay(snap', wal) = mem'
      BY <2>1, <1>2
    <3> QED
      BY <3>1, <1>1 DEF MemoryIsRecoverable
  <2>4. CleanIsSaved'
    BY <1>2 DEF CleanIsSaved
  <2> QED
    BY <2>2, <2>3, <2>4
<1> QED
  BY <1>4, <1>5 DEF WalInv

LEMMA DestroyStep == ASSUME WalInv, Destroy PROVE WalInv'
<1>1. phase \in Running /\ phase' \in Running
  BY DEF Destroy, Running
<1>2. Replay(mem, wal) = mem /\ Replay(mem, pending) = mem
  BY <1>1, Known DEF Settles
<1>3. TypeOK' /\ DownIsBlank' /\ WalStages' /\ torn' = FALSE
  BY <1>1 DEF Destroy, tasks, WalInv, TypeOK, DownIsBlank, WalStages, Running
<1>4. QueueIsDone' /\ EncodedIsEnough'
  BY <1>1 DEF Destroy, tasks, WalInv, QueueIsDone, EncodedIsEnough
<1>5. CleanIsSaved' /\ MemoryIsRecoverable' /\ ConfirmedIsSaved'
  BY <1>1, <1>2
  DEF Destroy, tasks, WalInv, TypeOK, CleanIsSaved, MemoryIsRecoverable, ConfirmedIsSaved
<1> QED
  BY <1>3, <1>4, <1>5 DEF WalInv

LEMMA CrashStep == ASSUME WalInv, Crash PROVE WalInv'
<1>1. TypeOK' /\ DownIsBlank' /\ WalStages' /\ torn' = FALSE
  BY EmptyType DEF Crash, Died, disk, WalInv, TypeOK, DownIsBlank, WalStages
<1>2. /\ MemoryIsRecoverable' /\ QueueIsDone' /\ CleanIsSaved' /\ EncodedIsEnough'
      /\ ConfirmedIsSaved'
  BY DEF Crash, Died, Running, MemoryIsRecoverable, QueueIsDone, CleanIsSaved, EncodedIsEnough,
         ConfirmedIsSaved
<1> QED
  BY <1>1, <1>2 DEF WalInv

-----------------------------------------------------------------------------
(* The theorems.                                                           *)

LEMMA WalInit == Init => WalInv
<1> SUFFICES ASSUME Init PROVE WalInv
  OBVIOUS
<1>1. TypeOK
  <2>1. snap = Empty /\ mem = Empty /\ enc = Empty /\ wal = <<>> /\ pending = <<>> /\ batch = <<>>
    BY DEF Init
  <2>2. /\ snap \in Contents /\ mem \in Contents /\ enc \in Contents
        /\ wal \in Seq(Ops) /\ pending \in Seq(Ops) /\ batch \in Seq(Ops)
    BY <2>1, EmptyType, Zenon
  <2>3. /\ torn = FALSE /\ dirty = FALSE /\ timer = FALSE /\ stale = FALSE
        /\ phase = "down" /\ flush = "idle" /\ saver = "none" /\ caller = "none" /\ calls = 0
    BY DEF Init
  <2>4. calls \in 0..MaxCalls
    BY <2>3
  <2>5. phase \in Running \cup {"down"}
    BY <2>3
  <2> QED
    BY <2>2, <2>3, <2>4, <2>5, Zenon DEF TypeOK
<1>2. phase \notin Running /\ torn = FALSE /\ flush = "idle" /\ saver = "none"
  BY DEF Init, Running
<1>3. DownIsBlank /\ WalStages
  BY DEF Init, DownIsBlank, WalStages
<1>4. MemoryIsRecoverable /\ QueueIsDone /\ CleanIsSaved /\ EncodedIsEnough /\ ConfirmedIsSaved
  BY <1>2
  DEF MemoryIsRecoverable, QueueIsDone, CleanIsSaved, EncodedIsEnough, ConfirmedIsSaved
<1> QED
  BY <1>1, <1>2, <1>3, <1>4 DEF WalInv

LEMMA WalStep == WalInv /\ [Next]_vars => WalInv'
<1> SUFFICES ASSUME WalInv, [Next]_vars PROVE WalInv'
  OBVIOUS
<1>1. ASSUME NEW ops \in Calls, Write(ops) PROVE WalInv'
  BY <1>1, WriteStep
<1>2. CASE TimerFires
  BY <1>2, TimerStep
<1>3. CASE TakesTurn
  BY <1>3, TurnStep
<1>4. CASE FlushBatch
  BY <1>4, FlushBatchStep
<1>5. CASE FlushCalled \/ FlushedWal \/ OwnPersist \/ FlushReturns
  BY <1>5, FlushStep
<1>6. CASE SaveDone
  BY <1>6, SaveDoneStep
<1>7. CASE SaveFails
  BY <1>7, SaveFailsStep
<1>8. CASE ClearWal
  BY <1>8, ClearWalStep
<1>9. CASE RewriteWal
  BY <1>9, RewriteStep
<1>10. CASE RewriteFails
  BY <1>10, RewriteFailsStep
<1>11. CASE StartAsync
  BY <1>11, StartAsyncStep
<1>12. CASE StartSync
  BY <1>12, StartSyncStep
<1>13. CASE Destroy
  BY <1>13, DestroyStep
<1>14. CASE Crash
  BY <1>14, CrashStep
<1>15. CASE UNCHANGED vars
  BY <1>15
  DEF vars, WalInv, TypeOK, DownIsBlank, WalStages, MemoryIsRecoverable, QueueIsDone, CleanIsSaved,
      EncodedIsEnough, ConfirmedIsSaved
<1> QED
  BY <1>1, <1>2, <1>3, <1>4, <1>5, <1>6, <1>7, <1>8, <1>9, <1>10, <1>11, <1>12, <1>13, <1>14,
     <1>15 DEF Next

(* The invariant, of which the theorems below are consequences. *)
THEOREM WalInvariant == Spec => []WalInv
  BY WalInit, WalStep, PTL DEF Spec

(* Every variable of the adapter and of its files keeps its type. *)
THEOREM TypeCorrect == Spec => []TypeOK
<1>1. WalInv => TypeOK
  BY DEF WalInv
<1> QED
  BY <1>1, WalInvariant, PTL

(* A process that dies at any moment, but in the middle of an append,      *)
(* loses no call that returned, and restarts with the memory it had.       *)
THEOREM Recoverable == Spec => []MemoryIsRecoverable
<1>1. WalInv => MemoryIsRecoverable
  BY DEF WalInv
<1> QED
  BY <1>1, WalInvariant, PTL

(* An explicit flush() returns with all of the memory in the snapshot,     *)
(* what other callers wrote meanwhile included.                            *)
THEOREM FlushSaves == Spec => FlushMeansSaved
<1>1. WalInv /\ [Next]_vars => [FlushReturns => snap = mem]_vars
  <2> SUFFICES ASSUME WalInv, FlushReturns PROVE snap = mem
    OBVIOUS
  <2>1. phase \in Running
    BY Known DEF FlushReturns, WalInv, DownIsBlank
  <2> QED
    BY <2>1 DEF FlushReturns, WalInv, CleanIsSaved
<1> QED
  BY <1>1, WalInvariant, PTL DEF Spec, FlushMeansSaved

-----------------------------------------------------------------------------
(* The refinement of DurableMap.                                           *)

(* The operations that DurableMap takes from VectorOps are those of here.  *)
LEMMA DurableOps == /\ \A m, s : Durable!Replay(m, s) = Replay(m, s)
                    /\ Durable!Calls = Calls
<1>1. \A m, s : Durable!Replay(m, s) = Replay(m, s)
  BY Zenon DEF Durable!Replay, Durable!Touched, Durable!LastTouch, Durable!Touches, Durable!Effect,
               Replay, Touched, LastTouch, Touches, Effect
<1>2. Durable!Calls = Calls
  BY Zenon DEF Durable!Calls, Durable!Upserts, Durable!Removes, Durable!Clears, Durable!Ops,
               Calls, Upserts, Removes, Clears, Ops
<1> QED
  BY <1>1, <1>2

(* What a restart would find changes by whole calls alone. *)
LEMMA DurableStep == ASSUME WalInv, [Next]_vars
                     PROVE  \/ \E ops \in Calls :
                                 Replay(snap, wal)' = Replay(Replay(snap, wal), ops)
                            \/ Replay(snap, wal)' = Replay(snap, wal)
<1>1. ASSUME NEW ops \in Calls, Write(ops)
      PROVE  Replay(snap, wal)' = Replay(Replay(snap, wal), ops)
  <2>1. WalInv' /\ mem' = Replay(mem, ops) /\ phase \in Running /\ phase' \in Running
    BY <1>1, WriteStep DEF Write, Running
  <2>2. Replay(snap, wal)' = mem' /\ Replay(snap, wal) = mem
    BY <2>1 DEF WalInv, MemoryIsRecoverable
  <2> QED
    BY <2>1, <2>2
<1>2. CASE StartAsync \/ Crash \/ UNCHANGED vars
  BY <1>2 DEF StartAsync, Crash, disk, vars
<1>3. CASE StartSync
  <2>1. wal' = wal /\ (snap' = Replay(snap, wal) \/ snap' = snap)
    BY <1>3 DEF StartSync
  <2>2. Replay(Replay(snap, wal), wal) = Replay(snap, wal)
    BY ReplayAgain DEF WalInv, TypeOK
  <2> QED
    BY <2>1, <2>2
<1>4. CASE \/ TimerFires \/ TakesTurn \/ FlushBatch \/ FlushedWal \/ OwnPersist \/ FlushReturns
           \/ SaveDone \/ SaveFails \/ ClearWal \/ RewriteWal \/ RewriteFails
           \/ FlushCalled \/ Destroy
  <2>1. mem' = mem
    BY <1>4 DEF TimerFires, TakesTurn, FlushBatch, FlushedWal, OwnPersist, FlushReturns, SaveDone,
                SaveFails, ClearWal, RewriteWal, RewriteFails, FlushCalled, Destroy
  <2>2. phase \in Running
    BY <1>4, Known
    DEF TimerFires, TakesTurn, FlushBatch, FlushedWal, OwnPersist, FlushReturns, SaveDone,
        SaveFails, ClearWal, RewriteWal, RewriteFails, FlushCalled, Destroy, WalInv, DownIsBlank,
        Running
  <2>3. phase' \in Running
    BY <1>4, <2>2
    DEF TimerFires, TakesTurn, FlushBatch, FlushedWal, OwnPersist, FlushReturns, SaveDone,
        SaveFails, PutBack, ClearWal, RewriteWal, RewriteFails, FlushCalled, Destroy, Running
  <2>4. WalInv'
    BY WalStep
  <2> QED
    BY <2>1, <2>2, <2>3, <2>4 DEF WalInv, MemoryIsRecoverable
<1> QED
  BY <1>1, <1>2, <1>3, <1>4 DEF Next

(* The store that restarts see is the map of whole calls: journal,         *)
(* snapshots, failed and concurrent flushes and crashes implement          *)
(* DurableMap, step by step.                                               *)
THEOREM Implements == Spec => ImplementsDurableMap
<1>1. Init => Durable!Init
  <2> SUFFICES ASSUME Init PROVE Durable!Init
    OBVIOUS
  <2>1. snap = Empty /\ wal = <<>>
    BY DEF Init
  <2>2. Replay(snap, wal) = Empty
    BY <2>1, EmptyType, ReplayNothing
  <2> QED
    BY <2>2 DEF Durable!Init, Empty
<1>2. WalInv /\ [Next]_vars => [Durable!Next]_(Replay(snap, wal))
  <2> SUFFICES ASSUME WalInv, [Next]_vars, Replay(snap, wal)' # Replay(snap, wal)
               PROVE  Durable!Next
    OBVIOUS
  <2>1. PICK ops \in Calls : Replay(snap, wal)' = Replay(Replay(snap, wal), ops)
    BY DurableStep
  <2>2. Durable!Call(ops)
    BY <2>1, DurableOps, Zenon DEF Durable!Call
  <2> QED
    BY <2>2, DurableOps DEF Durable!Next
<1> QED
  BY <1>1, <1>2, WalInvariant, PTL DEF Spec, ImplementsDurableMap, Durable!Spec

-----------------------------------------------------------------------------
(* The synchronisation of the index.                                       *)

(* What is queued, and what the batch has still to do where nothing newer  *)
(* is queued, is the last event.                                           *)
QueueIsLast == \A e \in Entries : queued[e] # Same => queued[e] = last[e]
BatchIsLast == \A e \in Entries : queued[e] = Same /\ taken[e] # Same => taken[e] = last[e]

(* Only upserts are given up. *)
LostAreUpserts == \A e \in lost : last[e] \in Versions

(* Where nothing is to be done, it is done. *)
Settled == rec # "cleaning" =>
    \A e \in Entries \ lost :
        queued[e] = Same /\ taken[e] = Same => index[e] = Expected(last)[e]

(* What a batch knows at each of its stages. *)
BatchKnows ==
    /\ stage = "idle" => taken = NoChanges
    /\ stage \in {"embedding", "cleaning"} => ToRemove(taken) = {}
    /\ stage = "embedding" => listed = index
    /\ stage = "cleaning" =>
        \A e \in Entries : index[e] = IF taken[e] \in Versions THEN listed[e] \cup {taken[e]}
                                                               ELSE listed[e]

(* What reconcile() knows, when nothing runs beside it. *)
ReconcileKnows ==
    /\ rec # "idle" => stage = "idle" /\ queued = NoChanges
    /\ rec \in {"read", "embedding", "cleaning"} => recDb = db
    /\ rec \in {"listed", "read", "embedding"} => recListed = index
    /\ rec = "cleaning" => \A e \in Entries : index[e] = recListed[e] \cup Expected(recDb)[e]
    /\ rec \in {"embedding", "cleaning"} =>
        \A e \in Entries : db[e] = Gone /\ recListed[e] # {} => recErrors /\ e \in lost

Coordinated == /\ SyncTypeOK /\ QueueIsLast /\ BatchIsLast /\ LostAreUpserts /\ Settled
               /\ BatchKnows /\ ReconcileKnows /\ NothingStranded

-----------------------------------------------------------------------------
LEMMA SyncInitially == SyncInit => Coordinated
<1> SUFFICES ASSUME SyncInit PROVE Coordinated
  OBVIOUS
<1> USE ChangesAssumption DEF SyncInit, States, NoChanges, Changed, Nothing
<1>1. SyncTypeOK
  BY DEF SyncTypeOK
<1>2. QueueIsLast /\ BatchIsLast /\ LostAreUpserts
  BY DEF QueueIsLast, BatchIsLast, LostAreUpserts
<1>3. Settled
  BY DEF Settled, Expected
<1>4. BatchKnows /\ ReconcileKnows
  BY DEF BatchKnows, ReconcileKnows
<1>5. NothingStranded
  BY DEF NothingStranded
<1> QED
  BY <1>1, <1>2, <1>3, <1>4, <1>5 DEF Coordinated

-----------------------------------------------------------------------------
(* A step that takes the queue p as the next batch, or leaves it queued    *)
(* behind the batch that runs.                                             *)
LEMMA ProcessingKeeps ==
    ASSUME Coordinated, NEW p \in [Entries -> States \cup {Same}], ProcessBatch(p)
    PROVE  /\ queued' \in [Entries -> States \cup {Same}]
           /\ taken' \in [Entries -> States \cup {Same}]
           /\ stage' \in {"idle", "removing", "embedding", "cleaning"}
           /\ refused' \in BOOLEAN
           /\ \/ queued' = p /\ taken' = taken /\ stage' = stage /\ refused' = refused
                 /\ (stage # "idle" \/ Changed(p) = {})
              \/ /\ queued' = NoChanges /\ taken' = p /\ stage' = "removing"
                 /\ stage = "idle" /\ taken = NoChanges /\ Changed(p) # {}
<1> USE DEF States, NoChanges
<1>1. CASE stage = "idle" /\ Changed(p) # {}
  BY <1>1 DEF ProcessBatch, BeginBatch, Coordinated, BatchKnows, SyncTypeOK
<1>2. CASE ~(stage = "idle" /\ Changed(p) # {})
  BY <1>2 DEF ProcessBatch, Coordinated, SyncTypeOK
<1> QED
  BY <1>1, <1>2

LEMMA ChangeKeeps ==
    ASSUME Racing = FALSE, Coordinated, NEW e \in Entries, NEW c \in States, Change(e, c)
    PROVE  Coordinated'
<1> DEFINE p == [queued EXCEPT ![e] = c]
<1>1. SyncTypeOK /\ p \in [Entries -> States \cup {Same}] /\ c # Same
  BY ChangesAssumption DEF Coordinated, SyncTypeOK, States
<1>2. rec = "idle" /\ rec' = "idle" /\ db' = [db EXCEPT ![e] = c] /\ index' = index
      /\ changes' = changes + 1 /\ UNCHANGED <<listed, bound, waiting, recDb, recListed, recErrors>>
  BY DEF Change, reconciling
<1>3. CASE bound /\ Enqueue(e, c)
  <2>1. last' = [last EXCEPT ![e] = c] /\ lost' = lost \ {e} /\ debounce' \in BOOLEAN
    BY <1>3 DEF Enqueue
  <2>2. /\ queued' \in [Entries -> States \cup {Same}]
        /\ taken' \in [Entries -> States \cup {Same}]
        /\ stage' \in {"idle", "removing", "embedding", "cleaning"}
        /\ refused' \in BOOLEAN
        /\ \/ /\ queued' = p /\ taken' = taken /\ stage' = stage /\ refused' = refused
              /\ (debounce' \/ stage # "idle" \/ Changed(p) = {})
           \/ /\ queued' = NoChanges /\ taken' = p /\ stage' = "removing"
              /\ stage = "idle" /\ taken = NoChanges
    <3>1. CASE Cardinality(Changed(p)) >= MaxBatchSize
      BY <1>1, <1>3, <3>1, ProcessingKeeps DEF Enqueue
    <3>2. CASE ~(Cardinality(Changed(p)) >= MaxBatchSize)
      BY <1>1, <1>3, <3>2 DEF Enqueue, Coordinated, SyncTypeOK
    <3> QED
      BY <3>1, <3>2
  <2> HIDE <1>3
  <2>3. SyncTypeOK'
    BY <1>1, <1>2, <2>1, <2>2 DEF SyncTypeOK, States
  <2>4. QueueIsLast' /\ BatchIsLast'
    BY <1>1, <2>1, <2>2 DEF Coordinated, QueueIsLast, BatchIsLast, NoChanges, SyncTypeOK
  <2>5. LostAreUpserts'
    BY <1>1, <2>1 DEF Coordinated, LostAreUpserts, SyncTypeOK
  <2>6. Settled'
    BY <1>1, <1>2, <2>1, <2>2 DEF Coordinated, Settled, NoChanges, SyncTypeOK, Expected
  <2>7. BatchKnows'
    BY <1>1, <1>2, <2>1, <2>2 DEF Coordinated, BatchKnows, ToRemove
  <2>8. ReconcileKnows'
    BY <1>2 DEF ReconcileKnows
  <2>9. NothingStranded'
    BY <1>2, <2>2 DEF NothingStranded
  <2> QED
    BY <2>3, <2>4, <2>5, <2>6, <2>7, <2>8, <2>9 DEF Coordinated
<1>4. CASE UNCHANGED <<queued, debounce, taken, stage, last, lost, refused>>
  <2>1. SyncTypeOK'
    BY <1>1, <1>2, <1>4 DEF SyncTypeOK, States
  <2>2. ReconcileKnows'
    BY <1>2 DEF ReconcileKnows
  <2> QED
    BY <1>2, <1>4, <2>1, <2>2 DEF Coordinated, QueueIsLast, BatchIsLast, LostAreUpserts, Settled,
       Expected, BatchKnows, ToRemove, NothingStranded, Changed
<1> QED
  BY <1>3, <1>4 DEF Change

(* The timer, flush() and destroy() take the queue as it is. *)
LEMMA TakingKeeps ==
    ASSUME Coordinated, ProcessBatch(queued), debounce' \in BOOLEAN, bound' \in BOOLEAN,
           waiting' \in BOOLEAN,
           UNCHANGED <<db, index, listed, reconciling, last, lost, changes>>
    PROVE  Coordinated'
<1>1. SyncTypeOK /\ UNCHANGED <<rec, recDb, recListed, recErrors>>
  BY DEF Coordinated, reconciling
<1>2. /\ queued' \in [Entries -> States \cup {Same}]
      /\ taken' \in [Entries -> States \cup {Same}]
      /\ stage' \in {"idle", "removing", "embedding", "cleaning"}
      /\ refused' \in BOOLEAN
      /\ \/ queued' = queued /\ taken' = taken /\ stage' = stage /\ refused' = refused
            /\ (stage # "idle" \/ Changed(queued) = {})
         \/ /\ queued' = NoChanges /\ taken' = queued /\ stage' = "removing"
            /\ stage = "idle" /\ taken = NoChanges /\ Changed(queued) # {}
  BY <1>1, ProcessingKeeps DEF SyncTypeOK
<1>3. SyncTypeOK'
  BY <1>1, <1>2 DEF SyncTypeOK
<1>4. QueueIsLast' /\ BatchIsLast'
  BY <1>1, <1>2 DEF Coordinated, QueueIsLast, BatchIsLast, NoChanges, SyncTypeOK
<1>5. LostAreUpserts'
  BY DEF Coordinated, LostAreUpserts
<1>6. Settled'
  BY <1>1, <1>2 DEF Coordinated, Settled, NoChanges, SyncTypeOK, Expected
<1>7. BatchKnows'
  BY <1>1, <1>2 DEF Coordinated, BatchKnows, ToRemove
<1>8. ReconcileKnows'
  BY <1>1, <1>2 DEF Coordinated, ReconcileKnows, Changed, NoChanges, Expected
<1>9. NothingStranded'
  BY <1>1, <1>2 DEF NothingStranded, NoChanges, Changed
<1> QED
  BY <1>3, <1>4, <1>5, <1>6, <1>7, <1>8, <1>9 DEF Coordinated

-----------------------------------------------------------------------------
LEMMA RemoveRecipeKeeps ==
    ASSUME Coordinated, NEW e \in Entries, RemoveRecipe(e)
    PROVE  Coordinated'
<1> USE DEF RemoveRecipe, reconciling
<1>1. SyncTypeOK'
  BY DEF Coordinated, SyncTypeOK
<1>2. QueueIsLast' /\ BatchIsLast' /\ LostAreUpserts'
  BY DEF Coordinated, SyncTypeOK, QueueIsLast, BatchIsLast, LostAreUpserts
<1>3. Settled'
  BY ChangesAssumption DEF Coordinated, SyncTypeOK, BatchIsLast, LostAreUpserts, Settled, Expected, States
<1>4. BatchKnows' /\ ReconcileKnows' /\ NothingStranded'
  BY DEF Coordinated, BatchKnows, ReconcileKnows, NothingStranded, Changed
<1> QED
  BY <1>1, <1>2, <1>3, <1>4 DEF Coordinated

(* What is put back is queued behind what is newer. *)
LEMMA RemoveFailsKeeps ==
    ASSUME Coordinated, NEW e \in Entries, RemoveFails(e)
    PROVE  Coordinated'
<1>1. PICK left \in SUBSET index[e] : index' = [index EXCEPT ![e] = left]
  BY DEF RemoveFails
<1>2. /\ stage = "removing" /\ taken[e] = Gone /\ stage' = "idle" /\ refused' = TRUE
      /\ waiting' = FALSE /\ taken' = NoChanges
      /\ queued' = [f \in Entries |-> IF queued[f] = Same THEN taken[f] ELSE queued[f]]
      /\ UNCHANGED <<db, debounce, listed, bound, rec, recDb, recListed, recErrors, last, lost, changes>>
  BY DEF RemoveFails, PutBackChanges, reconciling
<1>3. SyncTypeOK'
  BY <1>1, <1>2 DEF Coordinated, SyncTypeOK, NoChanges
<1>4. QueueIsLast' /\ BatchIsLast' /\ LostAreUpserts'
  BY <1>2 DEF Coordinated, SyncTypeOK, QueueIsLast, BatchIsLast, LostAreUpserts, NoChanges
<1>5. Settled'
  BY <1>1, <1>2, ChangesAssumption DEF Coordinated, SyncTypeOK, Settled, Expected, NoChanges
<1>6. BatchKnows' /\ ReconcileKnows' /\ NothingStranded'
  BY <1>2 DEF Coordinated, BatchKnows, ReconcileKnows, NothingStranded
<1> QED
  BY <1>3, <1>4, <1>5, <1>6 DEF Coordinated

LEMMA BeginUpsertsKeeps ==
    ASSUME Coordinated, BeginUpserts
    PROVE  Coordinated'
<1> USE DEF BeginUpserts, reconciling
<1>1. SyncTypeOK'
  BY DEF Coordinated, SyncTypeOK
<1>2. QueueIsLast' /\ BatchIsLast' /\ LostAreUpserts' /\ Settled'
  BY DEF Coordinated, QueueIsLast, BatchIsLast, LostAreUpserts, Settled, Expected
<1>3. BatchKnows' /\ ReconcileKnows' /\ NothingStranded'
  BY DEF Coordinated, BatchKnows, ToRemove, ReconcileKnows, NothingStranded, Changed
<1> QED
  BY <1>1, <1>2, <1>3 DEF Coordinated

LEMMA StoreChunksKeeps ==
    ASSUME Coordinated, StoreChunks
    PROVE  Coordinated'
<1>1. /\ stage = "embedding" /\ stage' = "cleaning" /\ listed = index
      /\ index' = [e \in Entries |-> IF Missing(e) THEN index[e] \cup {taken[e]} ELSE index[e]]
      /\ UNCHANGED <<db, queued, debounce, taken, listed, bound, waiting, rec, recDb, recListed,
                     recErrors, last, lost, refused, changes>>
  BY DEF StoreChunks, Stored, reconciling, Coordinated, BatchKnows
<1>2. SyncTypeOK'
  BY <1>1 DEF Coordinated, SyncTypeOK, Missing
<1>3. QueueIsLast' /\ BatchIsLast' /\ LostAreUpserts'
  BY <1>1 DEF Coordinated, QueueIsLast, BatchIsLast, LostAreUpserts
<1>4. Settled'
  BY <1>1, ChangesAssumption DEF Coordinated, SyncTypeOK, Settled, Expected, Missing
<1>5. BatchKnows'
  <2>1. SyncTypeOK /\ ToRemove(taken) = {}
    BY <1>1 DEF Coordinated, BatchKnows
  <2>2. ASSUME NEW e \in Entries
        PROVE  index'[e] = IF taken[e] \in Versions THEN listed[e] \cup {taken[e]} ELSE listed[e]
    <3>1. CASE Missing(e)
      BY <1>1, <3>1 DEF Missing
    <3>2. CASE ~Missing(e)
      <4>1. index'[e] = listed[e]
        BY <1>1, <3>2
      <4>2. taken[e] \in Versions => taken[e] \in listed[e]
        BY <3>2 DEF Missing
      <4> QED
        BY <4>1, <4>2
    <3> QED
      BY <3>1, <3>2
  <2> QED
    BY <1>1, <2>1, <2>2 DEF BatchKnows, ToRemove
<1>6. ReconcileKnows' /\ NothingStranded'
  BY <1>1 DEF Coordinated, ReconcileKnows, NothingStranded, Changed
<1> QED
  BY <1>2, <1>3, <1>4, <1>5, <1>6 DEF Coordinated

-----------------------------------------------------------------------------
(* The end of a batch, of which failed was given up and the rest done.     *)
LEMMA EndingKeeps ==
    ASSUME Coordinated, stage # "idle",
           NEW failed \in SUBSET ToUpsert(taken), GiveUp(failed), BatchDone,
           index' \in [Entries -> SUBSET Versions],
           \A e \in Entries : taken[e] = Same => index'[e] = index[e],
           \A e \in Entries \ failed :
               taken[e] # Same /\ queued[e] = Same => index'[e] = Expected(last)[e],
           UNCHANGED <<db, debounce, bound, reconciling, last, changes>>
    PROVE  Coordinated'
<1>1. SyncTypeOK /\ UNCHANGED <<rec, recDb, recListed, recErrors>> /\ rec = "idle"
  BY DEF Coordinated, reconciling, SyncTypeOK, ReconcileKnows
<1>2. \/ /\ taken' = queued /\ queued' = NoChanges /\ stage' = "removing"
         /\ refused' = FALSE /\ waiting' = waiting
      \/ /\ taken' = NoChanges /\ queued' = queued /\ stage' = "idle"
         /\ refused' = refused /\ waiting' = FALSE /\ Changed(queued) = {}
  BY DEF BatchDone, BeginBatch
<1>3. listed' = Nothing /\ lost' = lost \cup {e \in failed : queued[e] = Same}
  BY DEF BatchDone, GiveUp
<1>4. SyncTypeOK'
  BY <1>1, <1>2, <1>3 DEF SyncTypeOK, NoChanges, Nothing, ToUpsert
<1>5. QueueIsLast' /\ BatchIsLast'
  BY <1>1, <1>2 DEF Coordinated, SyncTypeOK, QueueIsLast, BatchIsLast, NoChanges
<1>6. LostAreUpserts'
  BY <1>1, <1>3, ChangesAssumption
  DEF Coordinated, SyncTypeOK, LostAreUpserts, BatchIsLast, ToUpsert
<1>7. Settled'
  <2> SUFFICES ASSUME NEW e \in Entries, e \notin lost', queued'[e] = Same, taken'[e] = Same
               PROVE  index'[e] = Expected(last)[e]
    BY DEF Settled, Expected
  <2>1. queued[e] = Same /\ e \notin lost /\ e \notin failed
    BY <1>1, <1>2, <1>3 DEF SyncTypeOK, NoChanges, Changed
  <2>2. CASE taken[e] = Same
    BY <1>1, <2>1, <2>2 DEF Coordinated, Settled
  <2>3. CASE taken[e] # Same
    BY <2>1, <2>3
  <2> QED
    BY <2>2, <2>3
<1>8. BatchKnows' /\ ReconcileKnows' /\ NothingStranded'
  BY <1>1, <1>2 DEF BatchKnows, ReconcileKnows, NothingStranded, NoChanges, Changed
<1> QED
  BY <1>4, <1>5, <1>6, <1>7, <1>8 DEF Coordinated

LEMMA SkipUpsertsKeeps ==
    ASSUME Coordinated, SkipUpserts
    PROVE  Coordinated'
<1>1. SyncTypeOK /\ index' = index /\ stage = "removing" /\ ToRemove(taken) = {}
      /\ GiveUp(ToUpsert(taken)) /\ BatchDone
      /\ UNCHANGED <<db, debounce, bound, reconciling, last, changes>>
  BY DEF SkipUpserts, Coordinated
<1>2. \A e \in Entries \ ToUpsert(taken) : taken[e] = Same
  BY <1>1 DEF SyncTypeOK, States, ToUpsert, ToRemove
<1> QED
  BY <1>1, <1>2, EndingKeeps DEF SyncTypeOK

LEMMA StoreFailsKeeps ==
    ASSUME Coordinated, StoreFails
    PROVE  Coordinated'
<1>1. PICK S \in SUBSET {e \in Entries : Missing(e)} : index' = Stored(S)
  BY DEF StoreFails
<1>2. SyncTypeOK /\ stage = "embedding" /\ ToRemove(taken) = {}
      /\ GiveUp(ToUpsert(taken)) /\ BatchDone
      /\ UNCHANGED <<db, debounce, bound, reconciling, last, changes>>
  BY DEF StoreFails, Coordinated, BatchKnows
<1>3. \A e \in Entries \ ToUpsert(taken) : taken[e] = Same
  BY <1>2 DEF SyncTypeOK, States, ToUpsert, ToRemove
<1>4. index' \in [Entries -> SUBSET Versions]
  BY <1>1, <1>2 DEF Stored, SyncTypeOK, Missing
<1>5. \A e \in Entries : taken[e] = Same => index'[e] = index[e]
  BY <1>1, <1>2, ChangesAssumption DEF Stored, Missing, SyncTypeOK
<1> QED
  BY <1>2, <1>3, <1>4, <1>5, EndingKeeps

LEMMA CleanStaleKeeps ==
    ASSUME Coordinated, CleanStale
    PROVE  Coordinated'
<1>1. SyncTypeOK /\ stage = "cleaning" /\ ToRemove(taken) = {} /\ BatchDone
      /\ UNCHANGED <<db, debounce, bound, reconciling, last, changes>>
  BY DEF CleanStale, Coordinated, BatchKnows
<1>2. \A e \in Entries \ ToUpsert(taken) : taken[e] = Same
  BY <1>1 DEF SyncTypeOK, States, ToUpsert, ToRemove
<1>3. CASE GiveUp(ToUpsert(taken)) /\ UNCHANGED index
  BY <1>1, <1>2, <1>3, EndingKeeps DEF SyncTypeOK
<1>4. ASSUME NEW failed \in [Entries -> SUBSET Versions],
             \A e \in Entries : failed[e] \subseteq StaleOf(e) \cap index[e],
             index' = [e \in Entries |-> (index[e] \ StaleOf(e)) \cup failed[e]],
             GiveUp({e \in Entries : failed[e] # {}})
      PROVE  Coordinated'
  <2> DEFINE F == {e \in Entries : failed[e] # {}}
  <2>1. F \subseteq ToUpsert(taken)
    BY <1>4 DEF StaleOf, ToUpsert
  <2>2. index' \in [Entries -> SUBSET Versions]
    BY <1>1, <1>4 DEF SyncTypeOK
  <2>3. ASSUME NEW e \in Entries, taken[e] = Same
        PROVE  index'[e] = index[e]
    <3>1. StaleOf(e) = {}
      BY <2>3, ChangesAssumption DEF StaleOf
    <3> QED
      BY <1>4, <3>1
  <2>4. ASSUME NEW e \in Entries \ F, taken[e] # Same, queued[e] = Same
        PROVE  index'[e] = Expected(last)[e]
    <3>1. taken[e] \in Versions /\ last[e] = taken[e]
      BY <1>1, <1>2, <2>4 DEF ToUpsert, Coordinated, BatchIsLast
    <3>2. Expected(last)[e] = {taken[e]}
      BY <3>1, ChangesAssumption DEF Expected
    <3>3. index[e] = listed[e] \cup {taken[e]}
      BY <1>1, <3>1 DEF Coordinated, BatchKnows
    <3>4. index'[e] = index[e] \ (listed[e] \ {taken[e]})
      BY <1>4, <2>4, <3>1 DEF StaleOf
    <3> QED
      BY <3>2, <3>3, <3>4
  <2> QED
    BY <1>1, <1>4, <2>1, <2>2, <2>3, <2>4, EndingKeeps
<1> QED
  BY <1>3, <1>4 DEF CleanStale

-----------------------------------------------------------------------------
(* reconcile(), when nothing runs beside it.                               *)
LEMMA RecListKeeps ==
    ASSUME Racing = FALSE, Coordinated, RecList
    PROVE  Coordinated'
<1> USE DEF RecList, queue
<1>1. SyncTypeOK'
  BY DEF Coordinated, SyncTypeOK
<1>2. QueueIsLast' /\ BatchIsLast' /\ LostAreUpserts' /\ Settled'
  BY DEF Coordinated, QueueIsLast, BatchIsLast, LostAreUpserts, Settled, Expected
<1>3. BatchKnows' /\ NothingStranded'
  BY DEF Coordinated, BatchKnows, ToRemove, NothingStranded, Changed
<1>4. queued = NoChanges
  BY DEF Coordinated, SyncTypeOK, Changed, NoChanges
<1>5. ReconcileKnows'
  BY <1>4 DEF ReconcileKnows
<1> QED
  BY <1>1, <1>2, <1>3, <1>5 DEF Coordinated

LEMMA RecReadKeeps ==
    ASSUME Coordinated, RecRead
    PROVE  Coordinated'
<1> USE DEF RecRead, queue
<1>1. SyncTypeOK'
  BY DEF Coordinated, SyncTypeOK
<1>2. QueueIsLast' /\ BatchIsLast' /\ LostAreUpserts' /\ Settled'
  BY DEF Coordinated, QueueIsLast, BatchIsLast, LostAreUpserts, Settled, Expected
<1>3. BatchKnows' /\ NothingStranded' /\ ReconcileKnows'
  BY DEF Coordinated, BatchKnows, ToRemove, NothingStranded, ReconcileKnows, Changed
<1> QED
  BY <1>1, <1>2, <1>3 DEF Coordinated

LEMMA RecUnreadKeeps ==
    ASSUME Coordinated, RecUnread
    PROVE  Coordinated'
<1> USE DEF RecUnread, RecEnds, queue
<1>1. SyncTypeOK'
  BY DEF Coordinated, SyncTypeOK, Nothing
<1>2. QueueIsLast' /\ BatchIsLast' /\ LostAreUpserts' /\ Settled'
  BY DEF Coordinated, QueueIsLast, BatchIsLast, LostAreUpserts, Settled, Expected
<1>3. BatchKnows' /\ NothingStranded' /\ ReconcileKnows'
  BY DEF Coordinated, BatchKnows, ToRemove, NothingStranded, ReconcileKnows, Changed
<1> QED
  BY <1>1, <1>2, <1>3 DEF Coordinated

(* What a step of reconcile() that tells the index of the recipes of S     *)
(* leaves as it was.                                                       *)
LEMMA TellingKeeps ==
    ASSUME Coordinated, rec \in {"read", "embedding", "cleaning"}, NEW S \in SUBSET Entries,
           Told(S), UNCHANGED <<db, queue, bound, refused, changes>>
    PROVE  /\ SyncTypeOK /\ recDb = db /\ stage = "idle"
           /\ queued = NoChanges /\ taken = NoChanges
           /\ UNCHANGED <<db, queued, debounce, stage, taken, listed, waiting, bound, refused, changes>>
           /\ Heard(S) = S
           /\ last' = [e \in Entries |-> IF e \in S THEN db[e] ELSE last[e]]
           /\ last' \in [Entries -> States]
           /\ QueueIsLast' /\ BatchIsLast' /\ BatchKnows' /\ NothingStranded'
<1>1. /\ SyncTypeOK /\ recDb = db /\ stage = "idle" /\ queued = NoChanges /\ taken = NoChanges
      /\ UNCHANGED <<db, queued, debounce, stage, taken, listed, waiting, bound, refused, changes>>
  BY DEF Coordinated, ReconcileKnows, BatchKnows, queue
<1>2. Heard(S) = S
  BY <1>1 DEF Heard, NoChanges
<1>3. last' = [e \in Entries |-> IF e \in S THEN db[e] ELSE last[e]]
  BY <1>1, <1>2 DEF Told
<1>4. last' \in [Entries -> States]
  BY <1>1, <1>3 DEF SyncTypeOK
<1>5. QueueIsLast' /\ BatchIsLast'
  BY <1>1 DEF QueueIsLast, BatchIsLast, NoChanges
<1>6. BatchKnows' /\ NothingStranded'
  BY <1>1 DEF BatchKnows, NothingStranded, NoChanges, Changed
<1> QED
  BY <1>1, <1>2, <1>3, <1>4, <1>5, <1>6

(* What could not be removed was there. *)
LEMMA FailingIsSmaller ==
    ASSUME NEW c \in [Entries -> SUBSET Versions], NEW f \in Failing(c)
    PROVE  /\ f \in [Entries -> SUBSET Versions]
           /\ \A e \in Entries : f[e] \subseteq c[e]
BY DEF Failing

LEMMA RecDoneKeeps ==
    ASSUME Coordinated, RecDone
    PROVE  Coordinated' /\ index' = Expected(db)
<1>1. /\ rec = "read" /\ SyncTypeOK /\ recDb = db /\ index' = Expected(db)
      /\ RecEnds /\ Told(Entries) /\ lost' = lost \ Heard(Entries)
      /\ UNCHANGED <<db, queue, bound, recErrors, refused, changes>>
  BY DEF RecDone, Coordinated, ReconcileKnows
<1>2. /\ Heard(Entries) = Entries /\ stage = "idle" /\ queued = NoChanges /\ taken = NoChanges
      /\ UNCHANGED <<db, queued, debounce, stage, taken, listed, waiting, bound, refused, changes>>
      /\ last' = [e \in Entries |-> IF e \in Entries THEN db[e] ELSE last[e]]
      /\ last' \in [Entries -> States]
      /\ QueueIsLast' /\ BatchIsLast' /\ BatchKnows' /\ NothingStranded'
  BY <1>1, TellingKeeps
<1>3. /\ lost' = {} /\ last' = db /\ rec' = "idle" /\ recListed' = Nothing /\ recDb' = recDb
      /\ recErrors' = recErrors
  BY <1>1, <1>2 DEF RecEnds, SyncTypeOK
<1>4. SyncTypeOK'
  BY <1>1, <1>2, <1>3 DEF SyncTypeOK, Nothing, Expected, States
<1>5. LostAreUpserts' /\ Settled' /\ ReconcileKnows'
  BY <1>1, <1>2, <1>3 DEF LostAreUpserts, Settled, ReconcileKnows
<1> QED
  BY <1>1, <1>2, <1>4, <1>5 DEF Coordinated

(* The chunks of recipes that are no more are removed, but those of f.     *)
LEMMA RemovingOrphansKeeps ==
    ASSUME Coordinated, rec = "read", NEW f \in [Entries -> SUBSET Versions],
           \A e \in Entries : f[e] \subseteq Orphans[e],
           index' = WithOrphans(f), ToldRemoves(f), recErrors' \in BOOLEAN,
           \A e \in Entries : f[e] # {} => recErrors',
           \/ RecEnds
           \/ rec' = "embedding" /\ recListed' = index' /\ recDb' = recDb,
           UNCHANGED <<db, queue, bound, refused, changes>>
    PROVE  Coordinated'
<1> DEFINE gone == {e \in ToRemove(recDb) : f[e] = {}}
<1>1. SyncTypeOK /\ recDb = db /\ recListed = index
  BY DEF Coordinated, ReconcileKnows
<1>2. Told(gone) /\ lost' = (lost \ Heard(gone)) \cup {e \in Entries : f[e] # {}}
  BY DEF ToldRemoves
<1>3. gone \in SUBSET Entries
  BY DEF ToRemove
<1>4. index' = [e \in Entries |-> IF db[e] = Gone THEN f[e] ELSE index[e]]
  BY <1>1 DEF WithOrphans, SyncTypeOK
<1>5. \A e \in Entries : f[e] # {} => db[e] = Gone /\ f[e] \subseteq index[e]
  BY <1>1 DEF Orphans
<1>6. /\ Heard(gone) = gone
      /\ stage = "idle" /\ queued = NoChanges /\ taken = NoChanges
      /\ UNCHANGED <<db, queued, debounce, stage, taken, listed, waiting, bound, refused, changes>>
      /\ last' = [e \in Entries |-> IF e \in gone THEN db[e] ELSE last[e]]
      /\ last' \in [Entries -> States]
      /\ QueueIsLast' /\ BatchIsLast' /\ BatchKnows' /\ NothingStranded'
  <2> HIDE DEF gone
  <2> QED
    BY <1>1, <1>2, <1>3, TellingKeeps
<1>7. SyncTypeOK'
  BY <1>1, <1>2, <1>4, <1>6 DEF SyncTypeOK, RecEnds, Nothing
<1>8. LostAreUpserts'
  <2> SUFFICES ASSUME NEW e \in lost' PROVE last'[e] \in Versions
    BY DEF LostAreUpserts
  <2>1. CASE e \in lost /\ e \notin gone
    BY <1>1, <1>6, <2>1 DEF Coordinated, LostAreUpserts, SyncTypeOK
  <2>2. CASE e \notin lost /\ f[e] # {} /\ e \in Entries
    <3>1. index[e] = Expected(last)[e] /\ index[e] # {}
      BY <1>1, <1>5, <1>6, <2>2 DEF Coordinated, Settled, NoChanges
    <3>2. last[e] # Gone
      BY <2>2, <3>1 DEF Expected
    <3> QED
      BY <1>1, <1>6, <2>2, <3>2 DEF SyncTypeOK, States
  <2>3. CASE e \in lost /\ f[e] # {} /\ e \in Entries
    BY <1>1, <1>6, <2>3 DEF Coordinated, LostAreUpserts, SyncTypeOK
  <2> QED
    BY <1>1, <1>2, <1>6, <2>1, <2>2, <2>3 DEF SyncTypeOK
<1>9. Settled'
  <2> SUFFICES ASSUME NEW e \in Entries, e \notin lost'
               PROVE  index'[e] = Expected(last)'[e]
    BY DEF Settled
  <2>1. f[e] = {}
    BY <1>2
  <2>2. CASE db[e] = Gone
    BY <1>1, <1>4, <1>6, <2>1, <2>2 DEF Expected, ToRemove
  <2>3. CASE db[e] # Gone
    <3>1. last'[e] = last[e] /\ e \notin lost /\ index'[e] = index[e]
      BY <1>1, <1>2, <1>4, <1>6, <2>3 DEF ToRemove
    <3>2. index[e] = Expected(last)[e]
      BY <1>1, <1>6, <3>1 DEF Coordinated, Settled, NoChanges
    <3> QED
      BY <3>1, <3>2 DEF Expected
  <2> QED
    BY <2>2, <2>3
<1>10. ReconcileKnows'
  <2>1. \A e \in Entries : db[e] = Gone /\ index'[e] # {} => recErrors' /\ e \in lost'
    BY <1>2, <1>4
  <2> QED
    BY <1>1, <1>6, <2>1 DEF ReconcileKnows, RecEnds
<1> QED
  BY <1>6, <1>7, <1>8, <1>9, <1>10 DEF Coordinated

LEMMA RecDegradedKeeps ==
    ASSUME Coordinated, RecDegraded
    PROVE  Coordinated'
<1>1. Orphans \in [Entries -> SUBSET Versions]
  BY DEF Orphans, Coordinated, SyncTypeOK
<1>2. PICK f \in Failing(Orphans) :
          /\ rec = "read" /\ index' = WithOrphans(f) /\ RecEnds /\ ToldRemoves(f)
          /\ recErrors' = TRUE /\ UNCHANGED <<db, queue, bound, refused, changes>>
  BY DEF RecDegraded
<1>3. f \in [Entries -> SUBSET Versions] /\ \A e \in Entries : f[e] \subseteq Orphans[e]
  BY <1>1, <1>2, FailingIsSmaller
<1> QED
  BY <1>2, <1>3, RemovingOrphansKeeps

LEMMA RecBeginKeeps ==
    ASSUME Coordinated, RecBegin
    PROVE  Coordinated'
<1>1. Orphans \in [Entries -> SUBSET Versions]
  BY DEF Orphans, Coordinated, SyncTypeOK
<1>2. PICK f \in Failing(Orphans) : \E g \in Failing(f) :
          /\ rec = "read" /\ index' = WithOrphans(g) /\ ToldRemoves(g)
          /\ rec' = "embedding" /\ recListed' = index' /\ recDb' = recDb
          /\ recErrors' = (f # Nothing) /\ UNCHANGED <<db, queue, bound, refused, changes>>
  BY DEF RecBegin
<1>3. f \in [Entries -> SUBSET Versions] /\ \A e \in Entries : f[e] \subseteq Orphans[e]
  BY <1>1, <1>2, FailingIsSmaller
<1>4. PICK g \in Failing(f) :
          /\ rec = "read" /\ index' = WithOrphans(g) /\ ToldRemoves(g)
          /\ rec' = "embedding" /\ recListed' = index' /\ recDb' = recDb
          /\ recErrors' = (f # Nothing) /\ UNCHANGED <<db, queue, bound, refused, changes>>
  BY <1>2
<1>5. g \in [Entries -> SUBSET Versions] /\ \A e \in Entries : g[e] \subseteq Orphans[e]
  BY <1>3, <1>4, FailingIsSmaller
<1>6. recErrors' \in BOOLEAN /\ \A e \in Entries : g[e] # {} => recErrors'
  <2>1. \A e \in Entries : g[e] \subseteq f[e]
    BY <1>3, <1>4, FailingIsSmaller
  <2> QED
    BY <1>4, <2>1 DEF Nothing
<1> QED
  BY <1>4, <1>5, <1>6, RemovingOrphansKeeps

LEMMA RecStoreKeeps ==
    ASSUME Coordinated, RecStore
    PROVE  Coordinated'
<1> USE DEF RecStore, queue
<1>1. SyncTypeOK'
  BY DEF Coordinated, SyncTypeOK, Expected, States
<1>2. QueueIsLast' /\ BatchIsLast' /\ LostAreUpserts' /\ Settled'
  BY DEF Coordinated, QueueIsLast, BatchIsLast, LostAreUpserts, Settled
<1>3. BatchKnows' /\ NothingStranded'
  BY DEF Coordinated, BatchKnows, NothingStranded, ReconcileKnows, NoChanges, Changed
<1>4. ReconcileKnows'
  BY DEF Coordinated, ReconcileKnows, Expected
<1> QED
  BY <1>1, <1>2, <1>3, <1>4 DEF Coordinated

LEMMA RecFailsKeeps ==
    ASSUME Coordinated, RecFails
    PROVE  Coordinated'
<1>1. rec = "embedding" /\ SyncTypeOK /\ recDb = db
      /\ rec' = "idle" /\ recListed' = Nothing /\ recDb' = recDb /\ recErrors' = TRUE
      /\ UNCHANGED <<db, queue, bound, refused, changes>>
  BY DEF RecFails, RecEnds, Coordinated, ReconcileKnows
<1>2. PICK S \in SUBSET ToUpsert(recDb) :
          /\ index' = [e \in Entries |-> IF e \in S THEN index[e] \cup {recDb[e]} ELSE index[e]]
          /\ Told(S) /\ lost' = lost \cup {e \in S : index'[e] # {recDb[e]}}
  BY DEF RecFails
<1>3. S \subseteq Entries
  BY <1>2 DEF ToUpsert
<1>4. /\ stage = "idle" /\ queued = NoChanges /\ taken = NoChanges
      /\ UNCHANGED <<db, queued, debounce, stage, taken, listed, waiting, bound, refused, changes>>
      /\ last' = [e \in Entries |-> IF e \in S THEN db[e] ELSE last[e]]
      /\ last' \in [Entries -> States]
      /\ QueueIsLast' /\ BatchIsLast' /\ BatchKnows' /\ NothingStranded'
  BY <1>1, <1>2, <1>3, TellingKeeps
<1>5. SyncTypeOK'
  BY <1>1, <1>2, <1>3, <1>4 DEF SyncTypeOK, ToUpsert, Nothing
<1>6. LostAreUpserts'
  BY <1>1, <1>2, <1>3, <1>4 DEF Coordinated, LostAreUpserts, SyncTypeOK, ToUpsert
<1>7. Settled'
  <2> SUFFICES ASSUME NEW e \in Entries, e \notin lost'
               PROVE  index'[e] = Expected(last)'[e]
    BY DEF Settled
  <2>1. CASE e \in S
    BY <1>1, <1>2, <1>4, <2>1, ChangesAssumption DEF ToUpsert, Expected
  <2>2. CASE e \notin S
    <3>1. last'[e] = last[e] /\ e \notin lost /\ index'[e] = index[e]
      BY <1>2, <1>4, <2>2
    <3>2. index[e] = Expected(last)[e]
      BY <1>1, <1>4, <3>1 DEF Coordinated, Settled, NoChanges
    <3> QED
      BY <3>1, <3>2 DEF Expected
  <2> QED
    BY <2>1, <2>2
<1>8. ReconcileKnows'
  BY <1>1 DEF ReconcileKnows
<1> QED
  BY <1>4, <1>5, <1>6, <1>7, <1>8 DEF Coordinated

(* What it makes of the index, but for the chunks it cannot remove. *)
LEMMA RecCleanKeeps ==
    ASSUME Coordinated, RecClean
    PROVE  Coordinated' /\ (recErrors' \/ index' = Expected(db))
<1> DEFINE told == {e \in Entries : recDb[e] # Gone \/ recListed[e] = {}}
<1>1. PICK f \in Failing(Outdated) :
          /\ rec = "cleaning" /\ RecEnds /\ Told(told)
          /\ lost' = (lost \ Heard(told)) \cup {e \in Entries : f[e] # {}}
          /\ index' = [e \in Entries |-> (index[e] \ Outdated[e]) \cup f[e]]
          /\ recErrors' = (recErrors \/ f # Nothing)
          /\ UNCHANGED <<db, queue, bound, refused, changes>>
  BY DEF RecClean
<1>2. /\ SyncTypeOK /\ recDb = db
      /\ \A e \in Entries : index[e] = recListed[e] \cup Expected(db)[e]
      /\ \A e \in Entries : db[e] = Gone /\ recListed[e] # {} => recErrors /\ e \in lost
  BY <1>1 DEF Coordinated, ReconcileKnows
<1>3. rec' = "idle" /\ recListed' = Nothing /\ recDb' = recDb
  BY <1>1 DEF RecEnds
<1>4. /\ Outdated \in [Entries -> SUBSET Versions]
      /\ \A e \in Entries : Outdated[e] = IF db[e] = Gone THEN {} ELSE index[e] \cap (recListed[e] \ {db[e]})
  BY <1>2 DEF Outdated, SyncTypeOK
<1>5. f \in [Entries -> SUBSET Versions] /\ \A e \in Entries : f[e] \subseteq Outdated[e]
  BY <1>1, <1>4, FailingIsSmaller
<1>6. told \in SUBSET Entries /\ told = {e \in Entries : db[e] # Gone \/ recListed[e] = {}}
  BY <1>2
<1> HIDE DEF told
<1>7. /\ stage = "idle" /\ queued = NoChanges /\ taken = NoChanges
      /\ UNCHANGED <<db, queued, debounce, stage, taken, listed, waiting, bound, refused, changes>>
      /\ Heard(told) = told
      /\ last' = [e \in Entries |-> IF e \in told THEN db[e] ELSE last[e]]
      /\ last' \in [Entries -> States]
      /\ QueueIsLast' /\ BatchIsLast' /\ BatchKnows' /\ NothingStranded'
  BY <1>1, <1>6, TellingKeeps
<1>8. \A e \in Entries : f[e] = {} /\ e \in told => index'[e] = Expected(db)[e]
  <2> SUFFICES ASSUME NEW e \in Entries, f[e] = {}, e \in told
               PROVE  index'[e] = Expected(db)[e]
    OBVIOUS
  <2>1. CASE db[e] = Gone
    BY <1>1, <1>2, <1>4, <1>6, <2>1 DEF Expected
  <2>2. CASE db[e] # Gone
    BY <1>1, <1>2, <1>4, <2>2 DEF Expected
  <2> QED
    BY <2>1, <2>2
<1>9. SyncTypeOK'
  <2>1. index' \in [Entries -> SUBSET Versions] /\ lost' \subseteq Entries
    BY <1>1, <1>2, <1>5 DEF SyncTypeOK
  <2>2. recErrors' \in BOOLEAN
    BY <1>1, <1>2 DEF SyncTypeOK
  <2> QED
    BY <1>2, <1>3, <1>7, <2>1, <2>2 DEF SyncTypeOK, Nothing
<1>10. LostAreUpserts'
  <2> SUFFICES ASSUME NEW e \in lost' PROVE last'[e] \in Versions
    BY DEF LostAreUpserts
  <2>1. e \in Entries /\ (e \in told => f[e] # {})
    BY <1>1, <1>2, <1>7 DEF SyncTypeOK
  <2>2. CASE e \in told
    <3>1. db[e] # Gone
      BY <1>4, <1>5, <2>1, <2>2
    <3> QED
      BY <1>2, <1>7, <2>1, <2>2, <3>1 DEF SyncTypeOK, States
  <2>3. CASE e \notin told
    <3>1. e \in lost
      BY <1>2, <1>6, <2>1, <2>3
    <3> QED
      BY <1>7, <2>1, <2>3, <3>1 DEF Coordinated, LostAreUpserts
  <2> QED
    BY <2>2, <2>3
<1>11. Settled'
  <2> SUFFICES ASSUME NEW e \in Entries, e \notin lost'
               PROVE  index'[e] = Expected(last)'[e]
    BY DEF Settled
  <2>1. f[e] = {}
    BY <1>1
  <2>2. e \in told
    BY <1>1, <1>2, <1>6, <1>7
  <2>3. index'[e] = Expected(db)[e] /\ last'[e] = db[e]
    BY <1>7, <1>8, <2>1, <2>2
  <2> QED
    BY <2>3 DEF Expected
<1>12. ReconcileKnows'
  BY <1>3 DEF ReconcileKnows
<1>13. recErrors' \/ index' = Expected(db)
  <2> SUFFICES ASSUME ~recErrors' PROVE index' = Expected(db)
    OBVIOUS
  <2>1. f = Nothing /\ ~recErrors
    BY <1>1
  <2>2. \A e \in Entries : f[e] = {} /\ e \in told
    BY <1>2, <1>6, <2>1 DEF Nothing
  <2>3. \A e \in Entries : index'[e] = Expected(db)[e]
    BY <1>8, <2>2
  <2> QED
    BY <1>1, <2>3 DEF Expected
<1> QED
  BY <1>7, <1>9, <1>10, <1>11, <1>12, <1>13 DEF Coordinated

-----------------------------------------------------------------------------
LEMMA SyncStepKeeps ==
    ASSUME Racing = FALSE, Coordinated, [SyncNext]_syncVars
    PROVE  Coordinated'
<1>1. ASSUME NEW e \in Entries, NEW c \in States, Change(e, c) PROVE Coordinated'
  BY <1>1, ChangeKeeps
<1>2. CASE DebounceFires
  BY <1>2, TakingKeeps DEF DebounceFires, Coordinated, SyncTypeOK
<1>3. ASSUME NEW b \in BOOLEAN, Flush(b) PROVE Coordinated'
  BY <1>3, TakingKeeps DEF Flush, Coordinated, SyncTypeOK
<1>4. CASE DrainCalled \/ DestroyCalled
  BY <1>3, <1>4 DEF DrainCalled, DestroyCalled
<1>5. CASE BatchStep
  BY <1>5, RemoveRecipeKeeps, BeginUpsertsKeeps, StoreChunksKeeps, CleanStaleKeeps DEF BatchStep
<1>6. CASE SkipUpserts \/ StoreFails
  BY <1>6, SkipUpsertsKeeps, StoreFailsKeeps
<1>7. ASSUME NEW e \in Entries, RemoveFails(e) PROVE Coordinated'
  BY <1>7, RemoveFailsKeeps
<1>8. CASE \/ RecList \/ RecRead \/ RecUnread \/ RecDone \/ RecDegraded
           \/ RecBegin \/ RecStore \/ RecFails \/ RecClean
  BY <1>8, RecListKeeps, RecReadKeeps, RecUnreadKeeps, RecDoneKeeps, RecDegradedKeeps,
     RecBeginKeeps, RecStoreKeeps, RecFailsKeeps, RecCleanKeeps
<1>9. CASE UNCHANGED syncVars
  BY <1>9 DEF syncVars, Coordinated, SyncTypeOK, QueueIsLast, BatchIsLast, LostAreUpserts, Settled,
     Expected, BatchKnows, ToRemove, ReconcileKnows, NothingStranded, Changed
<1> QED
  BY <1>1, <1>2, <1>4, <1>5, <1>6, <1>7, <1>8, <1>9 DEF SyncNext

(* The queue and the batches agree with the events in every state.         *)
THEOREM CoordinatedAlways == ASSUME Racing = FALSE PROVE SyncSpec => []Coordinated
<1>1. SyncInit => Coordinated
  BY SyncInitially
<1>2. Coordinated /\ [SyncNext]_syncVars => Coordinated'
  BY SyncStepKeeps
<1> QED
  BY <1>1, <1>2, PTL DEF SyncSpec

(* The variables of the coordinator hold what SyncTypeOK says. *)
THEOREM SyncTyped == ASSUME Racing = FALSE PROVE SyncSpec => []SyncTypeOK
<1>1. Coordinated => SyncTypeOK
  BY DEF Coordinated
<1> QED
  BY <1>1, CoordinatedAlways, PTL

(* Whatever overlaps and fails, the index follows the last event of every  *)
(* recipe, and a deletion is never given up (#enqueue,                     *)
(* #processSingleBatch).                                                   *)
THEOREM LastWins == ASSUME Racing = FALSE PROVE SyncSpec => []LastChangeWins
<1>1. Coordinated => LastChangeWins
  <2> SUFFICES ASSUME Coordinated, rec # "cleaning", NEW e \in Entries
               PROVE  \/ index[e] = Expected(last)[e]
                      \/ queued[e] = last[e]
                      \/ queued[e] = Same /\ taken[e] = last[e]
                      \/ e \in lost /\ last[e] # Gone
    BY DEF LastChangeWins
  <2>1. CASE e \in lost
    BY <2>1, ChangesAssumption DEF Coordinated, LostAreUpserts
  <2>2. CASE e \notin lost
    BY <2>2 DEF Coordinated, Settled, QueueIsLast, BatchIsLast
  <2> QED
    BY <2>1, <2>2
<1> QED
  BY <1>1, CoordinatedAlways, PTL

(* No queued change is forgotten: a timer or a batch will take it, but     *)
(* after a failed deletion.                                                *)
THEOREM NothingIsStranded == ASSUME Racing = FALSE PROVE SyncSpec => []NothingStranded
<1>1. Coordinated => NothingStranded
  BY DEF Coordinated
<1> QED
  BY <1>1, CoordinatedAlways, PTL

(* reconcile() that ends without an error, having read the recipes.       *)
LEMMA EndsExactly ==
    ASSUME Coordinated, SyncNext, rec \notin {"idle", "listed"}, rec' = "idle", ~recErrors'
    PROVE  index' = Expected(db)
<1>1. CASE RecDone
  BY <1>1, RecDoneKeeps
<1>2. CASE RecUnread \/ RecDegraded \/ RecFails
  BY <1>2 DEF RecUnread, RecDegraded, RecFails
<1>3. CASE RecClean
  BY <1>3, RecCleanKeeps
<1>4. CASE RecList \/ RecRead \/ RecBegin \/ RecStore
  BY <1>4 DEF RecList, RecRead, RecBegin, RecStore
<1>5. ASSUME NEW e \in Entries, NEW c \in States, Change(e, c) PROVE FALSE
  BY <1>5 DEF Change, reconciling
<1>6. CASE DebounceFires \/ DrainCalled \/ DestroyCalled
  BY <1>6 DEF DebounceFires, DrainCalled, DestroyCalled, Flush, reconciling
<1>7. CASE BatchStep \/ SkipUpserts \/ StoreFails
  BY <1>7 DEF BatchStep, RemoveRecipe, BeginUpserts, StoreChunks, CleanStale, SkipUpserts,
     StoreFails, reconciling
<1>8. ASSUME NEW e \in Entries, RemoveFails(e) PROVE FALSE
  BY <1>8 DEF RemoveFails, reconciling
<1> QED
  BY <1>1, <1>2, <1>3, <1>4, <1>5, <1>6, <1>7, <1>8 DEF SyncNext

(* A reconcile() that could read the recipes and ends without an error     *)
(* leaves the index as they call for, whatever failed, was given up or     *)
(* never announced before (SyncCoordinator.reconcile); one that could not  *)
(* read them ends without an error too, and repairs nothing.               *)
THEOREM ReconcileIsRepair == ASSUME Racing = FALSE PROVE SyncSpec => ReconcileRepairs
<1>1. Coordinated /\ [SyncNext]_syncVars
       => [rec \notin {"idle", "listed"} /\ rec' = "idle" /\ ~recErrors'
              => index' = Expected(db)]_syncVars
  BY EndsExactly
<1> QED
  BY <1>1, CoordinatedAlways, PTL DEF ReconcileRepairs, SyncSpec
=============================================================================
