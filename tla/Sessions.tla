------------------------------ MODULE Sessions ------------------------------
(***************************************************************************)
(* The leases of generation (GenerateSession.ts): one session per project, *)
(* kept in the memory of a manager and in active-sessions.json, which      *)
(* other managers and later processes read.                                *)
(*                                                                         *)
(* A call is synchronous: in its process it is one step.  Other processes  *)
(* see its two ends, what it reads when it begins and the rename that      *)
(* publishes the manager's whole map.  The write before the rename may     *)
(* fail, and the process may die anywhere.  Time is counted in hours.      *)
(* Hosts hold session objects; an object its manager no longer has (old)   *)
(* still takes calls, and these publish the manager's map without it.      *)
(***************************************************************************)
EXTENDS Integers, FiniteSets

CONSTANTS Managers, Projects, Dimensions,
          NoSession,      \* no session, no file, no lease
          MaxSessions,    \* bound: the sessions created
          MaxClock        \* bound: the hours

ASSUME SessionsAssumption == MaxSessions \in Nat /\ MaxClock \in Nat

VARIABLES sessionsFile,   \* active-sessions.json
          known,          \* #sessionsByProject of each manager
          doing,          \* what it does: down, idle, or saving
          asked,          \* the call that saves: what its host is told when it returns
          old,            \* the sessions with an object the manager no longer has
          born,           \* the sessions created so far
          clock,
          lease           \* history: what the host of a session relies on

sessionsVars == <<sessionsFile, known, doing, asked, old, born, clock, lease>>

Ttl == 2         \* SESSION_TTL_MS
Extension == 1   \* extendTtl's minimumTtlMs

SessionIds == 1..MaxSessions
SessionRecords == [id : SessionIds, done : SUBSET Dimensions, expires : Nat]
Maps == [Projects -> SessionRecords \cup {NoSession}]
EmptyMap == [p \in Projects |-> NoSession]
Agreements == [project : Projects, tried : SUBSET Dimensions, told : SUBSET Dimensions,
               expires : Nat]
(* What a call adds to a lease: its first grant, a completion, a longer    *)
(* life; nothing for the calls whose answer a host does not build on.      *)
Answers == [id : SessionIds \cup {0}, project : Projects \cup {NoSession},
            done : SUBSET Dimensions, expires : Nat]
ASSUME NoSessionAssumption ==
           NoSession \notin SessionRecords \cup Maps \cup Agreements \cup Projects
NoAnswer == [id |-> 0, project |-> NoSession, done |-> {}, expires |-> 0]

SessionsTypeOK ==
    /\ sessionsFile \in Maps \cup {NoSession}
    /\ known \in [Managers -> Maps]
    /\ doing \in [Managers -> {"down", "idle", "saving"}]
    /\ asked \in [Managers -> Answers]
    /\ old \in [Managers -> SUBSET SessionIds]
    /\ born \in 0..MaxSessions /\ clock \in 0..MaxClock
    /\ lease \in [SessionIds -> Agreements \cup {NoSession}]

SessionsInit ==
    /\ sessionsFile = NoSession
    /\ known = [m \in Managers |-> EmptyMap]
    /\ doing = [m \in Managers |-> "down"]
    /\ asked = [m \in Managers |-> NoAnswer]
    /\ old = [m \in Managers |-> {}]
    /\ born = 0 /\ clock = 0
    /\ lease = [i \in SessionIds |-> NoSession]

-----------------------------------------------------------------------------
(* Mutant: it expires at expiresAt, not after it. *)
BlockingBefore(s) == s # NoSession /\ clock < s.expires /\ s.done # Dimensions
Blocking(s) == s # NoSession /\ clock <= s.expires /\ s.done # Dimensions

(* #loadFromDisk: what the manager has then, and the sessions whose object *)
(* it drops: the one of a session that is in both is kept, and refreshed.  *)
Loaded(m) == IF sessionsFile = NoSession THEN known[m] ELSE sessionsFile
IdsOf(map) == {map[p].id : p \in {q \in Projects : map[q] # NoSession}}
(* Mutant: every object is replaced by the one just read. *)
DroppedAll(was, is) == IdsOf(was)
Dropped(was, is) == IdsOf(was) \ IdsOf(is)

Becomes(m, map) == /\ known' = [known EXCEPT ![m] = map]
                   /\ old' = [old EXCEPT ![m] = @ \cup Dropped(known[m], map)]
Saves(m, answer) == /\ doing' = [doing EXCEPT ![m] = "saving"]
                    /\ asked' = [asked EXCEPT ![m] = answer]

(* Hosts stop relying on the sessions of gone. *)
Relying(gone) == [i \in SessionIds |-> IF i \in gone THEN NoSession ELSE lease[i]]
LeasesOf(p) == {i \in SessionIds : lease[i] # NoSession /\ lease[i].project = p}

(* A process starts, or a host makes itself a manager. *)
OpenManager(m) ==
    /\ doing[m] = "down" /\ doing' = [doing EXCEPT ![m] = "idle"]
    /\ known' = [known EXCEPT ![m] = Loaded(m)]
    /\ UNCHANGED <<sessionsFile, asked, old, born, clock, lease>>

RefuseSession(m, p) ==
    /\ doing[m] = "idle" /\ Blocking(Loaded(m)[p])
    /\ Becomes(m, Loaded(m))
    /\ UNCHANGED <<sessionsFile, doing, asked, born, clock, lease>>

NewSession(m, p) == [id |-> born + 1, done |-> {}, expires |-> clock + Ttl]
CreateSession(m, p, replace) ==
    LET map == Loaded(m) IN
    /\ doing[m] = "idle" /\ born < MaxSessions
    /\ Blocking(map[p]) => replace
    /\ Becomes(m, [map EXCEPT ![p] = NewSession(m, p)])
    /\ born' = born + 1
    /\ lease' = Relying(IF replace THEN LeasesOf(p) ELSE {})
    /\ Saves(m, [id |-> born + 1, project |-> p, done |-> {}, expires |-> clock + Ttl])
    /\ UNCHANGED <<sessionsFile, clock>>

(* A call on the object of session i changes the manager's map if it is    *)
(* the object the manager has.                                             *)
HasSession(m, p, i) == known[m][p] # NoSession /\ known[m][p].id = i
Later(a, b) == IF a < b THEN b ELSE a

MarkComplete(m, i, d) ==
    /\ doing[m] = "idle"
    /\ \/ i \in old[m] /\ UNCHANGED known
       \/ \E p \in Projects : HasSession(m, p, i)
                              /\ known' = [known EXCEPT ![m][p].done = @ \cup {d}]
    /\ lease' = IF lease[i] = NoSession THEN lease
                ELSE [lease EXCEPT ![i].tried = @ \cup {d}]
    /\ Saves(m, [id |-> i, project |-> NoSession, done |-> {d}, expires |-> 0])
    /\ UNCHANGED <<sessionsFile, old, born, clock>>

(* extendTtl; the calls that store hints, caches, contexts or submissions  *)
(* save in the same way and are no longer here.                            *)
ExtendTtl(m, i) ==
    /\ doing[m] = "idle"
    /\ \/ i \in old[m] /\ UNCHANGED known
          /\ Saves(m, [id |-> i, project |-> NoSession, done |-> {},
                       expires |-> clock + Extension])
       \/ \E p \in Projects :
             LET expires == Later(known[m][p].expires, clock + Extension) IN
             /\ HasSession(m, p, i)
             /\ known' = [known EXCEPT ![m][p].expires = expires]
             /\ Saves(m, [id |-> i, project |-> NoSession, done |-> {}, expires |-> expires])
    /\ UNCHANGED <<sessionsFile, old, born, clock, lease>>

(* clearSession of one session, or of all; releaseProjectLease.            *)
Forget(m, gone, given) ==
    /\ doing[m] = "idle"
    /\ Becomes(m, [p \in Projects |-> IF p \in gone THEN NoSession ELSE known[m][p]])
    /\ lease' = Relying(given)
    /\ Saves(m, NoAnswer)
    /\ UNCHANGED <<sessionsFile, born, clock>>
ClearSession(m, i) == i <= born /\ Forget(m, {p \in Projects : HasSession(m, p, i)}, {i})
ClearSessions(m) == Forget(m, Projects, SessionIds)
ReleaseProjectLease(m, p) == /\ known[m][p] # NoSession
                             /\ Forget(m, {p}, LeasesOf(p))

(* #persist: the rename, and the call returns. *)
Persist(m) ==
    LET a == asked[m] IN
    /\ doing[m] = "saving" /\ doing' = [doing EXCEPT ![m] = "idle"]
    /\ sessionsFile' = known[m]
    /\ asked' = [asked EXCEPT ![m] = NoAnswer]
    /\ lease' = [i \in SessionIds |->
          IF i # a.id THEN lease[i]
          ELSE IF a.project # NoSession
          THEN [project |-> a.project, tried |-> {}, told |-> {}, expires |-> a.expires]
          ELSE IF lease[i] = NoSession THEN NoSession
          ELSE [lease[i] EXCEPT !.told = @ \cup a.done, !.expires = Later(@, a.expires)]]
    /\ UNCHANGED <<known, old, born, clock>>

(* The call throws.  The memory keeps what it did. *)
PersistFails(m) ==
    /\ doing[m] = "saving" /\ doing' = [doing EXCEPT ![m] = "idle"]
    /\ asked' = [asked EXCEPT ![m] = NoAnswer]
    /\ UNCHANGED <<sessionsFile, known, old, born, clock, lease>>

ManagerDies(m) ==
    /\ doing[m] # "down" /\ doing' = [doing EXCEPT ![m] = "down"]
    /\ known' = [known EXCEPT ![m] = EmptyMap]
    /\ asked' = [asked EXCEPT ![m] = NoAnswer]
    /\ old' = [old EXCEPT ![m] = {}]
    /\ UNCHANGED <<sessionsFile, born, clock, lease>>

(* An hour; no host relies on a lease that expired. *)
Hour == /\ clock < MaxClock /\ clock' = clock + 1
        /\ \A m \in Managers : doing[m] # "saving"
        /\ lease' = Relying({i \in SessionIds : lease[i] # NoSession
                                                /\ lease[i].expires < clock'})
        /\ UNCHANGED <<sessionsFile, known, doing, asked, old, born>>

SessionsNext ==
    \/ Hour
    \/ \E m \in Managers :
          \/ OpenManager(m) \/ ManagerDies(m) \/ Persist(m) \/ PersistFails(m)
          \/ ClearSessions(m)
          \/ \E p \in Projects : \/ RefuseSession(m, p) \/ ReleaseProjectLease(m, p)
                                 \/ \E replace \in BOOLEAN : CreateSession(m, p, replace)
          \/ \E i \in SessionIds : \/ ExtendTtl(m, i) \/ ClearSession(m, i)
                                   \/ \E d \in Dimensions : MarkComplete(m, i, d)

SessionsSpec == SessionsInit /\ [][SessionsNext]_sessionsVars

(* Managers whose calls do not overlap. *)
InTurn == \A m, n \in Managers : doing[m] = "saving" /\ doing[n] = "saving" => m = n
TurnsSpec == SessionsInit /\ [][SessionsNext /\ InTurn']_sessionsVars

-----------------------------------------------------------------------------
(* The session i was granted, and is neither given up, expired, nor        *)
(* complete for all its host did.                                          *)
Live(i) == lease[i] # NoSession /\ lease[i].tried # Dimensions

(* A project has one running session at a time (GenerateSessionManager:    *)
(* "one unexpired session per project"), restarts, failed writes and       *)
(* objects the manager dropped notwithstanding.                            *)
OneSessionPerProject ==
    \A i, j \in SessionIds :
        Live(i) /\ Live(j) /\ lease[i].project = lease[j].project => i = j

(* The file has every running session, with each completion its host was   *)
(* told of: a restart resumes the same session (module comment).           *)
ProgressIsKept ==
    \A i \in SessionIds : Live(i) =>
        LET p == lease[i].project IN
        /\ sessionsFile # NoSession /\ sessionsFile[p] # NoSession
        /\ sessionsFile[p].id = i /\ lease[i].told \subseteq sessionsFile[p].done
=============================================================================
