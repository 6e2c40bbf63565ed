----------------------------- MODULE AcademicYear -----------------------------
(***************************************************************************)
(* The persisted state of one academic year and the transactions that      *)
(* change it: configuration revisions (at most one open draft, immutable   *)
(* published ones) and the append-only chain of schedule versions.         *)
(*                                                                         *)
(* Every transaction below takes SELECT ... FOR UPDATE on the              *)
(* academic_year row first and commits or rolls back as a whole, so each   *)
(* is one action; what a request does between two of its transactions is   *)
(* in TimetableRequests.  Every write carries the values its caller        *)
(* supplies, whatever they are: this module states what the repositories   *)
(* guarantee against any caller.                                           *)
(***************************************************************************)
EXTENDS Integers, Sequences, FiniteSetsExt

CONSTANTS
    Part,           \* the tables a configuration is spread over
    Shared,         \* the tables whose writers touch every revision (the calendar)
    Value,          \* what one table of a configuration may hold
    NoRows,         \* what a SELECT finds in a table of a deleted revision
    Provisioned,    \* the configuration a new school year starts with
    Timetable,      \* complete sets of schedule entries
    Placement,      \* lockable occurrences (requirement, day, anchor period)
    Placed,         \* Placed[t]: the occurrences timetable t contains
    Fits,           \* <<p, q, t>>: the verifier accepts, for problem p, the
                    \* entries of t with the teachers, resources and classes of q
    LockFits,       \* <<p, t, k>>: k, an occurrence of t, is feasible under p
    MaxRevisions,   \* bound on configuration_revision rows ever inserted
    MaxVersions     \* bound on schedule_version rows

Problem == [Part -> Value]
Snapshot == [Part -> Value \union {NoRows}]   \* what a reader may have seen

ASSUME ConfigurationAssumption ==
    /\ Part # {}
    /\ Shared \subseteq Part
    /\ NoRows \notin Value
    /\ Provisioned \in Problem
    /\ Fits \subseteq Problem \X Problem \X Timetable
    /\ LockFits \subseteq Problem \X Timetable \X Placement
    /\ Placed \in [Timetable -> SUBSET Placement]

ASSUME BoundAssumption == MaxRevisions \in Nat \ {0} /\ MaxVersions \in Nat

NULL == 0           \* surrogate keys are drawn from 1, 2, ...
RevisionId == 1..MaxRevisions
Unseen == [p \in Part |-> NoRows]

Revision ==
    [number  : Nat,
     status  : {"ABSENT", "DRAFT", "PUBLISHED"},
     content : Snapshot]

Version ==
    [number    : Nat,
     parent    : Nat,
     revision  : RevisionId,
     timetable : Timetable,
     locks     : SUBSET Placement]

VARIABLES
    revisions,      \* configuration_revision and its fifteen content tables
    lastRevision,   \* the surrogate key sequence of configuration_revision
    draft,          \* academic_year.draft_revision_id
    published,      \* academic_year.published_revision_id
    versions,       \* schedule_version rows by surrogate key
    active          \* schedule.active_version_id; NULL: no schedule row

configuration == <<revisions, lastRevision, draft, published>>
history == <<versions, active>>
year == <<configuration, history>>

-----------------------------------------------------------------------------
AbsentRevision == [number |-> 0, status |-> "ABSENT", content |-> Unseen]

\* Provisioning inserts the year with revision 1 as its open draft.
Init ==
    /\ revisions = [r \in RevisionId |->
            IF r = 1 THEN [number |-> 1, status |-> "DRAFT", content |-> Provisioned]
                     ELSE AbsentRevision]
    /\ lastRevision = 1
    /\ draft = 1
    /\ published = NULL
    /\ versions = <<>>
    /\ active = NULL

\* The migration that introduced revisions: all the rows of a year there was go
\* to revision 1, published if the year had a timetable and a draft if not.
MigratedInit ==
    \E problem \in Problem, n \in 0..MaxVersions :
    \E filed \in [1..n -> [timetable : Timetable, locks : SUBSET Placement]] :
        /\ revisions = [r \in RevisionId |->
                IF r = 1 THEN [number  |-> 1,
                               status  |-> IF n = 0 THEN "DRAFT" ELSE "PUBLISHED",
                               content |-> problem]
                         ELSE AbsentRevision]
        /\ lastRevision = 1
        /\ draft = IF n = 0 THEN 1 ELSE NULL
        /\ published = IF n = 0 THEN NULL ELSE 1
        /\ versions = [v \in 1..n |->
                [number    |-> v,
                 parent    |-> v - 1,
                 revision  |-> 1,
                 timetable |-> filed[v].timetable,
                 locks     |-> filed[v].locks]]
        /\ active = n

Live == {r \in RevisionId : revisions[r].status # "ABSENT"}

\* Mutated form: the new revision takes the highest number instead of the next.
NextRevisionNumberNotAdvanced == Max({revisions[r].number : r \in Live})

\* MAX(revision_number) and MAX(version_number), plus one.
NextRevisionNumber == Max({revisions[r].number : r \in Live}) + 1
NextVersionNumber == Max({versions[v].number : v \in 1..Len(versions)}) + 1

HasSchedule == active # NULL
Active == versions[active]

\* The revision a configuration read resolves to: the draft when one is open.
CurrentRevision == IF draft # NULL THEN draft ELSE published

\* ConfigurationRevisionState.timetable_out_of_date, derived from contents.
OutOfDate ==
    /\ HasSchedule
    /\ draft # NULL
    /\ revisions[draft].content # revisions[Active.revision].content

\* classify_locks: the locks of timetable t that are feasible under problem p, each
\* judged by itself (LockCompatibility has the code's judgement beside those kept).
Compatible(p, t, locks) == {k \in locks : <<p, t, k>> \in LockFits}

-----------------------------------------------------------------------------
(* The draft lifecycle and the configuration writers. *)

\* Mutated form: opens a draft whether or not there is one, from what is current.
BeginDraftTwice ==
    /\ lastRevision < MaxRevisions
    /\ lastRevision' = lastRevision + 1
    /\ draft' = lastRevision + 1
    /\ revisions' = [revisions EXCEPT ![lastRevision + 1] =
            [number  |-> NextRevisionNumber,
             status  |-> "DRAFT",
             content |-> revisions[CurrentRevision].content]]
    /\ UNCHANGED <<published, history>>

\* begin_draft: clone the published revision; a no-op when a draft is open.
BeginDraft ==
    /\ draft = NULL
    /\ published # NULL
    /\ lastRevision < MaxRevisions
    /\ lastRevision' = lastRevision + 1
    /\ draft' = lastRevision + 1
    /\ revisions' = [revisions EXCEPT ![lastRevision + 1] =
            [number  |-> NextRevisionNumber,
             status  |-> "DRAFT",
             content |-> revisions[published].content]]
    /\ UNCHANGED <<published, history>>

\* Mutated form: clears the pointer and leaves the row behind.
DiscardPointerOnly ==
    /\ draft # NULL
    /\ published # NULL
    /\ draft' = NULL
    /\ UNCHANGED <<revisions, lastRevision, published, history>>

\* discard_draft: clear the pointer, then delete the row and what hangs off it.
\* The initial draft and a draft some version refers to are refused.
DiscardDraft ==
    /\ draft # NULL
    /\ published # NULL
    /\ \A v \in 1..Len(versions) : versions[v].revision # draft
    /\ draft' = NULL
    /\ revisions' = [revisions EXCEPT ![draft] = AbsentRevision]
    /\ UNCHANGED <<lastRevision, published, history>>

\* Mutated form: no recheck under the lock that a draft is open.
WriteWithoutDraft(part, value) ==
    /\ revisions' = [revisions EXCEPT ![CurrentRevision].content[part] = value]
    /\ UNCHANGED <<lastRevision, draft, published, history>>

\* A configuration writer: rejected unless a draft is open, and directed to
\* that draft.  Which edits a writer accepts is left open here.
WriteConfiguration(part, value) ==
    /\ draft # NULL
    /\ part \notin Shared
    /\ revisions' = [revisions EXCEPT ![draft].content[part] = value]
    /\ UNCHANGED <<lastRevision, draft, published, history>>

\* The calendar writers look their rows up by year and renumber the rows of
\* every revision (CalendarRevisions has what they write).
WriteAcrossRevisions(part, values) ==
    /\ draft # NULL
    /\ part \in Shared
    /\ revisions' = [r \in RevisionId |->
            IF r \in Live THEN [revisions[r] EXCEPT !.content[part] = values[r]]
                          ELSE revisions[r]]
    /\ UNCHANGED <<lastRevision, draft, published, history>>

-----------------------------------------------------------------------------
(* The three ways a schedule version is appended. *)

\* Mutated form: the new version is stored and not made the active one.
AppendWithoutPromotion(parent, revision, timetable, locks) ==
    /\ versions' = Append(versions,
            [number    |-> IF versions = <<>> THEN 1 ELSE NextVersionNumber,
             parent    |-> parent,
             revision  |-> revision,
             timetable |-> timetable,
             locks     |-> locks])
    /\ active' = IF active = NULL THEN 1 ELSE active

\* The new row takes the next number and becomes the active version.
AppendVersion(parent, revision, timetable, locks) ==
    /\ versions' = Append(versions,
            [number    |-> IF versions = <<>> THEN 1 ELSE NextVersionNumber,
             parent    |-> parent,
             revision  |-> revision,
             timetable |-> timetable,
             locks     |-> locks])
    /\ active' = Len(versions) + 1

PublishDraft ==
    /\ revisions' = [revisions EXCEPT ![draft].status = "PUBLISHED"]
    /\ published' = draft
    /\ draft' = NULL
    /\ UNCHANGED lastRevision

\* Mutated form: no reload and comparison under the row lock.
InitialAcceptedUnchecked(problem) == ~HasSchedule

\* persist_initial_version accepts the timetable solved for problem: the
\* configuration reloaded under the row lock is the one solved, and the insert
\* of the schedule row does not meet the one-schedule-per-year constraint.
InitialAccepted(problem) ==
    /\ revisions[CurrentRevision].content = problem
    /\ ~HasSchedule

PersistInitialVersion(problem, timetable) ==
    /\ InitialAccepted(problem)
    /\ Len(versions) < MaxVersions
    /\ AppendVersion(NULL, CurrentRevision, timetable, {})
    /\ IF draft # NULL THEN PublishDraft ELSE UNCHANGED configuration

\* Mutated form: the base version is not compared with the active one.
EditAcceptedOnAnyBase(base) == HasSchedule

\* The caller's base is still the active version.
EditAccepted(base) == HasSchedule /\ Active.number = base

\* Mutated form: the new version is stamped with the open draft.
PersistEditOnDraft(base, timetable, locks) ==
    /\ EditAccepted(base)
    /\ Len(versions) < MaxVersions
    /\ AppendVersion(active, draft, timetable, locks)
    /\ UNCHANGED configuration

\* Mutated form: the new version is stamped with the revision reads resolve to.
PersistEditOnCurrent(base, timetable, locks) ==
    /\ EditAccepted(base)
    /\ Len(versions) < MaxVersions
    /\ AppendVersion(active, CurrentRevision, timetable, locks)
    /\ UNCHANGED configuration

\* persist_edited_version: the version stays on the active one's revision.
PersistEditedVersion(base, timetable, locks) ==
    /\ EditAccepted(base)
    /\ Len(versions) < MaxVersions
    /\ AppendVersion(active, Active.revision, timetable, locks)
    /\ UNCHANGED configuration

\* Mutated form: the draft is recognised by its content, not by its key.
RegenerationAcceptedByContent(base, expectedDraft, problem, confirmed) ==
    /\ draft # NULL
    /\ revisions[draft].content = problem
    /\ HasSchedule
    /\ Active.number = base
    /\ Active.locks \ Compatible(problem, Active.timetable, Active.locks) = confirmed

\* persist_regenerated_version rechecks, under the row lock, the identity and
\* the content of the draft, the base version and the confirmed locks.
RegenerationAccepted(base, expectedDraft, problem, confirmed) ==
    /\ draft # NULL
    /\ draft = expectedDraft
    /\ revisions[draft].content = problem
    /\ HasSchedule
    /\ Active.number = base
    /\ Active.locks \ Compatible(problem, Active.timetable, Active.locks) = confirmed

\* Mutated form: the compatible locks are not written with the new version.
PersistRegeneratedWithoutLocks(base, expectedDraft, problem, timetable, locks, confirmed) ==
    /\ RegenerationAccepted(base, expectedDraft, problem, confirmed)
    /\ Len(versions) < MaxVersions
    /\ AppendVersion(active, draft, timetable, {})
    /\ PublishDraft

\* Publishes the draft and appends the version made for it, or does neither.
PersistRegeneratedVersion(base, expectedDraft, problem, timetable, locks, confirmed) ==
    /\ RegenerationAccepted(base, expectedDraft, problem, confirmed)
    /\ locks = Compatible(problem, Active.timetable, Active.locks)
    /\ Len(versions) < MaxVersions
    /\ AppendVersion(active, draft, timetable, locks)
    /\ PublishDraft

-----------------------------------------------------------------------------
\* The repositories under arbitrary callers.
Next ==
    \/ BeginDraft
    \/ DiscardDraft
    \/ \E part \in Part, value \in Value : WriteConfiguration(part, value)
    \/ \E part \in Part, values \in [RevisionId -> Value] : WriteAcrossRevisions(part, values)
    \/ \E problem \in Snapshot, t \in Timetable : PersistInitialVersion(problem, t)
    \/ \E base \in 1..MaxVersions, t \in Timetable, locks \in SUBSET Placement :
            PersistEditedVersion(base, t, locks)
    \/ \E base \in 1..MaxVersions, expected \in RevisionId, problem \in Snapshot,
          t \in Timetable, locks, confirmed \in SUBSET Placement :
            PersistRegeneratedVersion(base, expected, problem, t, locks, confirmed)

Spec == (Init \/ MigratedInit) /\ [][Next]_year

-----------------------------------------------------------------------------
TypeOK ==
    /\ revisions \in [RevisionId -> Revision]
    /\ lastRevision \in RevisionId
    /\ draft \in RevisionId \union {NULL}
    /\ published \in RevisionId \union {NULL}
    /\ versions \in Seq(Version)
    /\ active \in Nat

(***************************************************************************)
(* A year always has a configuration to show: its draft, its published     *)
(* revision or both, they are different rows, and no draft row is left     *)
(* behind that the year does not point to.                                 *)
(***************************************************************************)
OneDraftAtMost ==
    /\ draft # NULL \/ published # NULL
    /\ draft # NULL => revisions[draft].status = "DRAFT"
    /\ published # NULL => revisions[published].status = "PUBLISHED"
    /\ \A r \in RevisionId : revisions[r].status = "DRAFT" => r = draft

(***************************************************************************)
(* persist_initial_version maps natural ids to rows without naming a       *)
(* revision.  That is sound only while the year has a single revision:     *)
(* a second set of rows would make the map ambiguous.                      *)
(***************************************************************************)
SingleRevisionBeforeSchedule == ~HasSchedule => Live = {CurrentRevision}

(***************************************************************************)
(* load_for_revision finds a revision by its number, and a discarded       *)
(* draft's number is given out again: no two existing revisions may share  *)
(* one, whatever sequence of discards came before.                         *)
(***************************************************************************)
RevisionNumbersIdentify ==
    \A r, s \in Live : revisions[r].number = revisions[s].number => r = s

(***************************************************************************)
(* Every version, current or historical, refers to a revision that exists  *)
(* and can no longer be written, and the published revision is the one     *)
(* the active timetable was made for.                                      *)
(***************************************************************************)
VersionsOnPublishedRevisions ==
    /\ \A v \in 1..Len(versions) : revisions[versions[v].revision].status = "PUBLISHED"
    /\ HasSchedule => Active.revision = published

(***************************************************************************)
(* History is one chain: numbers count up by one, each version's parent is *)
(* its predecessor, and the active version is the newest.  The numbers are *)
(* what callers present as the base of an edit.                            *)
(***************************************************************************)
LinearHistory ==
    /\ active = Len(versions)
    /\ \A v \in 1..Len(versions) :
            versions[v].number = v /\ versions[v].parent = v - 1

(***************************************************************************)
(* Once published, a revision is never unpublished, deleted or renumbered, *)
(* and nothing is written to its tables but to the shared ones, so what a  *)
(* historical version is shown against cannot change in any other.         *)
(***************************************************************************)
KeptOutsideShared(r) ==
    /\ revisions'[r].status = revisions[r].status
    /\ revisions'[r].number = revisions[r].number
    /\ \A part \in Part \ Shared : revisions'[r].content[part] = revisions[r].content[part]

PublishedRevisionsImmutable ==
    [][\A r \in RevisionId :
        revisions[r].status = "PUBLISHED" => KeptOutsideShared(r)]_year
=============================================================================
