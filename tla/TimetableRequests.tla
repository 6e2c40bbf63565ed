--------------------------- MODULE TimetableRequests ---------------------------
(***************************************************************************)
(* GenerateScheduleService, ScheduleEditingService and the views of a      *)
(* version over AcademicYear.                                              *)
(* A request runs several short transactions with nothing held in between: *)
(* checks, reads, a long solve on a detached snapshot, and one persisting  *)
(* transaction.  Other requests, configuration writes and draft openings   *)
(* happen in the gaps; a request may fail or its process die anywhere.     *)
(***************************************************************************)
EXTENDS AcademicYear

CONSTANTS
    Request,    \* concurrent requests (worker threads of the API)
    Moves       \* <<t, u>>: some allowed manual move turns t into u

ASSUME MovesAssumption == Moves \subseteq Timetable \X Timetable

\* A problem without requirements has the timetable without entries.
ASSUME TimetableAssumption == Timetable # {}

EditKind == {"move", "lock", "unlock", "reoptimize", "restore"}
Kind == {"none", "generate", "regenerate", "view"} \union EditKind

VARIABLES
    pc,         \* the next transaction of each request
    kind,       \* the operation it performs
    base,       \* base_version_number, sent by the caller
    confirmed,  \* confirmed_incompatible_lock_keys, sent by the caller
    target,     \* the revision it reads (for edits: its revision_number)
    unread,     \* the tables a configuration read has still to fetch
    problem,    \* the detached SchedulingProblem it works on
    timetable,  \* the entries it has read, then those it will persist
    locks       \* the locked occurrences that go with them

request == <<pc, kind, base, confirmed, target, unread, problem, timetable, locks>>
vars == <<year, request>>

Stage == {"idle", "resolveRevision", "readTables", "solve", "persistInitial",
          "loadActive", "loadRevision", "loadSource", "persistEdited",
          "loadDraft", "persistRegenerated"}

SomeTimetable == CHOOSE t \in Timetable : TRUE

RequestsIdle ==
    /\ pc = [c \in Request |-> "idle"]
    /\ kind = [c \in Request |-> "none"]
    /\ base = [c \in Request |-> 0]
    /\ confirmed = [c \in Request |-> {}]
    /\ target = [c \in Request |-> 0]
    /\ unread = [c \in Request |-> {}]
    /\ problem = [c \in Request |-> Unseen]
    /\ timetable = [c \in Request |-> SomeTimetable]
    /\ locks = [c \in Request |-> {}]

RequestInit == Init /\ RequestsIdle

\* The request is over, answered or failed; what it held in memory is gone.
Finish(c) ==
    /\ pc' = [pc EXCEPT ![c] = "idle"]
    /\ kind' = [kind EXCEPT ![c] = "none"]
    /\ base' = [base EXCEPT ![c] = 0]
    /\ confirmed' = [confirmed EXCEPT ![c] = {}]
    /\ target' = [target EXCEPT ![c] = 0]
    /\ unread' = [unread EXCEPT ![c] = {}]
    /\ problem' = [problem EXCEPT ![c] = Unseen]
    /\ timetable' = [timetable EXCEPT ![c] = SomeTimetable]
    /\ locks' = [locks EXCEPT ![c] = {}]

At(c, stage) == pc[c] = stage

\* verify, of a timetable read under the problem it is verified for.
Verifies(p, t) == <<p, p, t>> \in Fits

Goto(c, stage) == pc' = [pc EXCEPT ![c] = stage]

\* An error answer decided in memory: preflight, solver, lock classification or
\* verifier, always before anything is written.
Refuse(c) ==
    /\ pc[c] \in {"solve", "loadRevision", "loadSource", "loadDraft"}
    /\ Finish(c)
    /\ UNCHANGED year

\* An exception or the end of the process, anywhere.  Nothing is committed.
Die(c) ==
    /\ pc[c] # "idle"
    /\ Finish(c)
    /\ UNCHANGED year

-----------------------------------------------------------------------------
(* generate *)

\* get_active_schedule must find none; otherwise ScheduleAlreadyExistsError.
StartGenerate(c) ==
    /\ At(c, "idle")
    /\ ~HasSchedule
    /\ Goto(c, "resolveRevision")
    /\ kind' = [kind EXCEPT ![c] = "generate"]
    /\ UNCHANGED <<year, base, confirmed, target, unread, problem, timetable, locks>>

\* load_by_school_and_year reads the year row without a lock ...
ResolveRevision(c) ==
    /\ At(c, "resolveRevision")
    /\ Goto(c, "readTables")
    /\ target' = [target EXCEPT ![c] = CurrentRevision]
    /\ unread' = [unread EXCEPT ![c] = Part]
    /\ UNCHANGED <<year, kind, base, confirmed, problem, timetable, locks>>

\* ... and then one table per SELECT, each seeing what is committed by then.
ReadTable(c, part) ==
    /\ At(c, "readTables")
    /\ part \in unread[c]
    /\ problem' = [problem EXCEPT ![c][part] = revisions[target[c]].content[part]]
    /\ unread' = [unread EXCEPT ![c] = @ \ {part}]
    /\ pc' = [pc EXCEPT ![c] = IF unread[c] = {part} THEN "solve" ELSE @]
    /\ UNCHANGED <<year, kind, base, confirmed, target, timetable, locks>>

\* Preflight, solve and verify on the snapshot.
Solve(c, t) ==
    /\ At(c, "solve")
    /\ Verifies(problem[c], t)
    /\ Goto(c, "persistInitial")
    /\ timetable' = [timetable EXCEPT ![c] = t]
    /\ UNCHANGED <<year, kind, base, confirmed, target, unread, problem, locks>>

\* Mutated: a refused first version starts over instead of being answered.
FinishGenerateRetried(c) ==
    /\ At(c, "persistInitial")
    /\ \/ PersistInitialVersion(problem[c], timetable[c]) /\ Finish(c)
       \/ /\ ~InitialAccepted(problem[c])
          /\ Goto(c, "resolveRevision")
          /\ UNCHANGED <<year, kind, base, confirmed, target, unread, problem, timetable, locks>>

\* ConfigurationChangedDuringGenerationError, ScheduleAlreadyExistsError or a
\* first version.
FinishGenerate(c) ==
    /\ At(c, "persistInitial")
    /\ \/ PersistInitialVersion(problem[c], timetable[c])
       \/ ~InitialAccepted(problem[c]) /\ UNCHANGED year
    /\ Finish(c)

-----------------------------------------------------------------------------
(* move, lock, unlock, reoptimize, restore *)

\* _reject_if_out_of_date, in a transaction of its own.  The caller's base is
\* a version number some page has shown.
StartEdit(c, k, b) ==
    /\ At(c, "idle")
    /\ ~OutOfDate
    /\ Goto(c, "loadActive")
    /\ kind' = [kind EXCEPT ![c] = k]
    /\ base' = [base EXCEPT ![c] = b]
    /\ UNCHANGED <<year, confirmed, target, unread, problem, timetable, locks>>

\* _load_active_for_edit, and the same read in regenerate: the active version
\* with its payload and the number of its revision; NoActiveScheduleError,
\* StaleScheduleVersionError.
LoadActive(c) ==
    /\ At(c, "loadActive")
    /\ IF EditAccepted(base[c])
       THEN /\ timetable' = [timetable EXCEPT ![c] = Active.timetable]
            /\ locks' = [locks EXCEPT ![c] = Active.locks]
            /\ target' = [target EXCEPT ![c] = revisions[Active.revision].number]
            /\ Goto(c, IF kind[c] = "regenerate" THEN "loadDraft" ELSE "loadRevision")
            /\ UNCHANGED <<kind, base, confirmed, unread, problem>>
       ELSE Finish(c)
    /\ UNCHANGED year

\* What an edit makes of the timetable t with locks ls under problem p.  Hand
\* edits of a timetable that does not verify are refused.
EditResults(k, p, t, ls) ==
    CASE k = "move" /\ Verifies(p, t) ->
            {<<u, ls>> : u \in {v \in Timetable : <<t, v>> \in Moves /\ Verifies(p, v)}}
      [] k = "lock" /\ Verifies(p, t) ->
            {<<t, ls \union {key}>> : key \in Placed[t]}
      [] k = "unlock" /\ Verifies(p, t) ->
            {<<t, ls \ {key}>> : key \in Placed[t]}
      [] k = "reoptimize" ->
            {<<u, ls>> : u \in {v \in Timetable :
                            Verifies(p, v) /\ ls \intersect Placed[t] \subseteq Placed[v]}}
      [] OTHER -> {}

\* load_for_revision finds the revision by number; the rest is in memory.
LoadRevision(c) ==
    /\ At(c, "loadRevision")
    /\ kind[c] # "view"
    /\ \E r \in Live :
        /\ revisions[r].number = target[c]
        /\ problem' = [problem EXCEPT ![c] = revisions[r].content]
        /\ IF kind[c] = "restore"
           THEN /\ Goto(c, "loadSource")
                /\ UNCHANGED <<timetable, locks>>
           ELSE \E result \in EditResults(kind[c], revisions[r].content, timetable[c], locks[c]) :
                /\ timetable' = [timetable EXCEPT ![c] = result[1]]
                /\ locks' = [locks EXCEPT ![c] = result[2]]
                /\ Goto(c, "persistEdited")
    /\ UNCHANGED <<year, kind, base, confirmed, target, unread>>

ContentOf(v) == revisions[versions[v].revision].content

\* restore reads the version to copy, another number than the base.  Its
\* entries come with the teachers, resources and classes of its own revision
\* and are verified like that, but only their places are copied.
LoadSource(c, source) ==
    /\ At(c, "loadSource")
    /\ versions[source].number # base[c]
    /\ <<problem[c], ContentOf(source), versions[source].timetable>> \in Fits
    /\ timetable' = [timetable EXCEPT ![c] = versions[source].timetable]
    /\ locks' = [locks EXCEPT ![c] = versions[source].locks]
    /\ Goto(c, "persistEdited")
    /\ UNCHANGED <<year, kind, base, confirmed, target, unread, problem>>

\* StaleScheduleVersionError or a new version.
FinishEdit(c) ==
    /\ At(c, "persistEdited")
    /\ \/ PersistEditedVersion(base[c], timetable[c], locks[c])
       \/ ~EditAccepted(base[c]) /\ UNCHANGED year
    /\ Finish(c)

-----------------------------------------------------------------------------
(* The timetable of a class, a teacher or all teachers *)

\* A version, the active or an earlier one, and the number of its revision.
StartView(c, v) ==
    /\ At(c, "idle")
    /\ Goto(c, "loadRevision")
    /\ kind' = [kind EXCEPT ![c] = "view"]
    /\ base' = [base EXCEPT ![c] = versions[v].number]
    /\ target' = [target EXCEPT ![c] = revisions[versions[v].revision].number]
    /\ UNCHANGED <<year, confirmed, unread, problem, timetable, locks>>

\* Its configuration, in a transaction of its own.  Nothing is written.
ShowView(c) ==
    /\ At(c, "loadRevision")
    /\ kind[c] = "view"
    /\ \E r \in Live : revisions[r].number = target[c]
    /\ Finish(c)
    /\ UNCHANGED year

-----------------------------------------------------------------------------
(* regenerate *)

\* get_state must show an open draft; otherwise NoConfigurationDraftError.
StartRegenerate(c, b, keys) ==
    /\ At(c, "idle")
    /\ draft # NULL
    /\ Goto(c, "loadActive")
    /\ kind' = [kind EXCEPT ![c] = "regenerate"]
    /\ base' = [base EXCEPT ![c] = b]
    /\ confirmed' = [confirmed EXCEPT ![c] = keys]
    /\ UNCHANGED <<year, target, unread, problem, timetable, locks>>

\* load_draft_snapshot takes the row lock, so key and content belong together.
\* Then classify_locks, the confirmation check, the pinned solve and verify.
LoadDraft(c, t) ==
    LET content == revisions[draft].content
        compatible == Compatible(content, timetable[c], locks[c])
    IN  /\ At(c, "loadDraft")
        /\ draft # NULL
        /\ locks[c] \ compatible = confirmed[c]
        /\ Verifies(content, t)
        /\ compatible \subseteq Placed[t]
        /\ target' = [target EXCEPT ![c] = draft]
        /\ problem' = [problem EXCEPT ![c] = content]
        /\ timetable' = [timetable EXCEPT ![c] = t]
        /\ locks' = [locks EXCEPT ![c] = compatible]
        /\ Goto(c, "persistRegenerated")
        /\ UNCHANGED <<year, kind, base, confirmed, unread>>

FinishRegenerate(c) ==
    /\ At(c, "persistRegenerated")
    /\ \/ PersistRegeneratedVersion(base[c], target[c], problem[c],
                                    timetable[c], locks[c], confirmed[c])
       \/ /\ ~RegenerationAccepted(base[c], target[c], problem[c], confirmed[c])
          /\ UNCHANGED year
    /\ Finish(c)

-----------------------------------------------------------------------------
ConfigurationStep ==
    /\ \/ BeginDraft
       \/ DiscardDraft
       \/ \E part \in Part, value \in Value : WriteConfiguration(part, value)
    /\ UNCHANGED request

Start(c) ==
    \/ StartGenerate(c)
    \/ \E k \in EditKind, b \in 1..Len(versions) : StartEdit(c, k, b)
    \/ \E b \in 1..Len(versions), keys \in SUBSET Placement : StartRegenerate(c, b, keys)
    \/ \E v \in 1..Len(versions) : StartView(c, v)

Proceed(c) ==
    \/ ResolveRevision(c)
    \/ \E part \in Part : ReadTable(c, part)
    \/ \E t \in Timetable : Solve(c, t)
    \/ FinishGenerate(c)
    \/ LoadActive(c)
    \/ LoadRevision(c)
    \/ \E source \in 1..Len(versions) : LoadSource(c, source)
    \/ FinishEdit(c)
    \/ ShowView(c)
    \/ \E t \in Timetable : LoadDraft(c, t)
    \/ FinishRegenerate(c)
    \/ Refuse(c)

RequestStep(c) == Start(c) \/ Proceed(c) \/ Die(c)

RequestNext == ConfigurationStep \/ \E c \in Request : RequestStep(c)

RequestSpec == RequestInit /\ [][RequestNext]_vars

(***************************************************************************)
(* A started request keeps its worker thread, every transaction gets the   *)
(* row lock in the end (no holder waits for anything else) and the solver  *)
(* runs under a time limit.  Nobody has to start a request, to write, to   *)
(* open or to discard a draft, and a process may die or not.               *)
(***************************************************************************)
FairRequestSpec == RequestSpec /\ \A c \in Request : WF_vars(Proceed(c))

-----------------------------------------------------------------------------
(***************************************************************************)
(* The abstract history this implements: the version chain with each       *)
(* revision replaced by its content.                                       *)
(***************************************************************************)
DraftContent == IF draft = NULL THEN Unseen ELSE revisions[draft].content

VersionEntries ==
    [v \in 1..Len(versions) |->
        [problem   |-> ContentOf(v),
         timetable |-> versions[v].timetable,
         locks     |-> versions[v].locks]]

Abstract == INSTANCE TimetableHistory
    WITH draft <- DraftContent, history <- VersionEntries, NoDraft <- Unseen

(***************************************************************************)
(* Linearizability of the whole service: the staged requests, with their   *)
(* torn reads and stale snapshots, commit only what they would have        *)
(* committed running alone at that instant.  In particular no edit is      *)
(* computed from a version that was superseded before it committed, and no *)
(* timetable is published for a configuration it was not solved for.       *)
(***************************************************************************)
ImplementsHistory == Abstract!HistorySpec

RequestTypeOK ==
    /\ TypeOK
    /\ pc \in [Request -> Stage]
    /\ kind \in [Request -> Kind]
    /\ base \in [Request -> Nat]
    /\ confirmed \in [Request -> SUBSET Placement]
    /\ target \in [Request -> Nat]
    /\ unread \in [Request -> SUBSET Part]
    /\ problem \in [Request -> Snapshot]
    /\ timetable \in [Request -> Timetable]
    /\ locks \in [Request -> SUBSET Placement]

(***************************************************************************)
(* No timetable is on record that the verifier did not accept for the      *)
(* configuration it is filed under, however requests and configuration     *)
(* changes were interleaved: it was verified with the people and rooms of  *)
(* its own revision or of an earlier version it is a copy of.              *)
(***************************************************************************)
VersionsWereVerified ==
    \A v \in 1..Len(versions) : \E u \in 1..v :
        /\ versions[u].timetable = versions[v].timetable
        /\ <<ContentOf(v), ContentOf(u), versions[v].timetable>> \in Fits

(***************************************************************************)
(* The documented rule that verification gates every persisted timetable:  *)
(* what a version shows when it is read back is a timetable the verifier   *)
(* accepts.                                                                *)
(***************************************************************************)
VersionsFitTheirRevision ==
    \A v \in 1..Len(versions) : Verifies(ContentOf(v), versions[v].timetable)

(***************************************************************************)
(* The RuntimeError of load_for_revision is unreachable: the number an     *)
(* edit or a view carries from one transaction to the next still names a   *)
(* revision, and it is the one its version was made for, though numbers    *)
(* are given out again after a discard.                                    *)
(***************************************************************************)
ReadersFindTheirRevision ==
    \A c \in Request : At(c, "loadRevision") =>
        \E v \in 1..Len(versions) :
            /\ versions[v].number = base[c]
            /\ {r \in Live : revisions[r].number = target[c]} = {versions[v].revision}

(***************************************************************************)
(* A lock disappears in a regeneration only if the caller confirmed losing *)
(* exactly the locks that disappear, against the draft that gets published.*)
(***************************************************************************)
LocksLostOnlyByConsent ==
    [][\A c \in Request :
        (At(c, "persistRegenerated") /\ versions' # versions /\ pc'[c] = "idle")
            => Active.locks \ versions'[active'].locks = confirmed[c]]_vars

(***************************************************************************)
(* Regeneration publishes the draft row it read.  Revision numbers, and    *)
(* contents, can come back after a discard; the row does not.              *)
(***************************************************************************)
RegenerationPublishesItsDraft ==
    [][\A c \in Request :
        (At(c, "persistRegenerated") /\ versions' # versions /\ pc'[c] = "idle")
            => published' = target[c]]_vars

(***************************************************************************)
(* The documented rule that the active timetable is read-only while the    *)
(* configuration draft differs from what it was made for.                  *)
(***************************************************************************)
ReadOnlyWhileOutOfDate ==
    [][\A c \in Request :
        (At(c, "persistEdited") /\ pc'[c] = "idle" /\ OutOfDate) => UNCHANGED versions]_vars

(***************************************************************************)
(* Every request is answered, however the configuration keeps changing and *)
(* other requests keep committing: what a service cannot commit it refuses,*)
(* it never waits for the others or starts over.  (A version beyond the    *)
(* bound cannot be appended in the model.)                                 *)
(***************************************************************************)
RequestsEnd ==
    \A c \in Request : pc[c] # "idle" ~> (pc[c] = "idle" \/ Len(versions) = MaxVersions)
=============================================================================
