------------------------ MODULE TimetableRequestsProofs ------------------------
(***************************************************************************)
(* The invariants of the staged requests, and that every interleaving of   *)
(* them is a history of one-step requests, for any number of requests,     *)
(* tables, timetables, locks and versions.                                 *)
(***************************************************************************)
EXTENDS TimetableRequests, AcademicYearProofs

\* What the request works on, held in memory between its transactions.
Memory(c) == <<pc[c], kind[c], base[c], confirmed[c], target[c], unread[c],
               problem[c], timetable[c], locks[c]>>

\* The types of the year are those of AcademicYear.
RequestsTyped ==
    /\ pc \in [Request -> Stage]
    /\ kind \in [Request -> Kind]
    /\ base \in [Request -> Nat]
    /\ confirmed \in [Request -> SUBSET Placement]
    /\ target \in [Request -> Nat]
    /\ unread \in [Request -> SUBSET Part]
    /\ problem \in [Request -> Snapshot]
    /\ timetable \in [Request -> Timetable]
    /\ locks \in [Request -> SUBSET Placement]

\* What a request may carry on after the version it was made from was read: the
\* base is a version, and the rest is what that version and its revision say.
FromBase(c) == timetable[c] = versions[base[c]].timetable /\ locks[c] = versions[base[c]].locks

EditVerified(c) ==
    \/ /\ kind[c] = "restore"
       /\ \E source \in 1..Len(versions) :
            /\ source # base[c]
            /\ timetable[c] = versions[source].timetable
            /\ locks[c] = versions[source].locks
            /\ <<problem[c], ContentOf(source), timetable[c]>> \in Fits
    \/ /\ kind[c] # "restore"
       /\ <<timetable[c], locks[c]>> \in
            EditResults(kind[c], problem[c], versions[base[c]].timetable, versions[base[c]].locks)

InFlight(c) ==
    /\ At(c, "readTables") => target[c] \in RevisionId
    /\ At(c, "loadActive") => kind[c] \in EditKind \union {"regenerate"}
    /\ At(c, "persistInitial") => Verifies(problem[c], timetable[c])
    /\ pc[c] \in {"loadRevision", "loadSource", "persistEdited", "loadDraft", "persistRegenerated"}
            => base[c] \in 1..Len(versions)
    /\ At(c, "loadRevision") =>
            /\ target[c] = revisions[versions[base[c]].revision].number
            /\ kind[c] # "view" => kind[c] \in EditKind /\ FromBase(c)
    /\ At(c, "loadSource") => kind[c] = "restore" /\ problem[c] = ContentOf(base[c])
    /\ At(c, "persistEdited") => problem[c] = ContentOf(base[c]) /\ EditVerified(c)
    /\ At(c, "loadDraft") => FromBase(c)
    /\ At(c, "persistRegenerated") =>
            /\ Verifies(problem[c], timetable[c])
            /\ locks[c] = Compatible(problem[c], versions[base[c]].timetable, versions[base[c]].locks)
            /\ locks[c] \subseteq Placed[timetable[c]]
            /\ versions[base[c]].locks \ locks[c] = confirmed[c]

RequestInv ==
    /\ YearInv
    /\ RequestsTyped
    /\ \A c \in Request : InFlight(c)
    /\ VersionsWereVerified

-----------------------------------------------------------------------------
(* One request's step leaves the others' memory alone. *)

LEMMA FinishedIsTyped ==
    ASSUME RequestsTyped, NEW c \in Request, Finish(c)
    PROVE  RequestsTyped' /\ \A d \in Request \ {c} : UNCHANGED Memory(d)
  <1>1. PICK t \in Timetable : t = timetable[c]
    BY DEF RequestsTyped
  <1>2. SomeTimetable \in Timetable
    BY <1>1, Zenon DEF SomeTimetable
  <1>3. Unseen \in Snapshot
    BY DEF Unseen, Snapshot
  <1>4. "idle" \in Stage /\ "none" \in Kind
    BY DEF Stage, Kind
  <1>5. RequestsTyped'
    BY <1>2, <1>3, <1>4 DEF RequestsTyped, Finish
  <1>6. \A d \in Request \ {c} : UNCHANGED Memory(d)
    BY DEF RequestsTyped, Finish, Memory
  <1> QED BY <1>5, <1>6

\* What a request finds in a row of the version table and its revision.
LEMMA VersionIsTyped ==
    ASSUME YearInv, NEW v \in 1..Len(versions)
    PROVE  /\ versions[v].number = v /\ v \in Nat
           /\ versions[v].timetable \in Timetable
           /\ versions[v].locks \in SUBSET Placement
           /\ versions[v].revision \in RevisionId
           /\ versions[v].revision \in Live
           /\ revisions[versions[v].revision].status = "PUBLISHED"
           /\ revisions[versions[v].revision].number \in Nat
           /\ ContentOf(v) \in Problem
  <1>1. versions \in Seq(Version)
    BY DEF YearInv, TypeOK
  <1>2. versions[v] \in Version
    BY <1>1
  <1>3. /\ versions[v].revision \in RevisionId
        /\ revisions[versions[v].revision].status = "PUBLISHED"
    BY <1>2 DEF Version, YearInv, VersionsOnPublishedRevisions
  <1>4. versions[v].revision \in Live
    BY <1>3 DEF Live
  <1>5. revisions[versions[v].revision].number \in Nat
    BY <1>3 DEF YearInv, TypeOK, Revision
  <1>6. versions[v].number = v /\ v \in Nat
    BY DEF YearInv, LinearHistory
  <1> QED BY <1>2, <1>3, <1>4, <1>5, <1>6 DEF Version, ContentOf, YearInv, RowsFollowSequence

\* The version an edit is accepted on, and the one it then works on.
LEMMA ActiveIsNewest ==
    ASSUME YearInv, HasSchedule
    PROVE  /\ active = Len(versions) /\ active \in 1..Len(versions)
           /\ Active.number = active /\ Active.revision = published
           /\ versions # <<>> /\ Len(versions) \in Nat
  <1>1. active = Len(versions) /\ active \in Nat /\ active # 0
    BY DEF YearInv, TypeOK, LinearHistory, HasSchedule, NULL
  <1>2. active \in 1..Len(versions)
    BY <1>1
  <1>3. versions[active].number = active
    BY <1>2, VersionIsTyped
  <1> QED BY <1>1, <1>2, <1>3 DEF Active, YearInv, VersionsOnPublishedRevisions

\* A request starts with typed fields; only a generation has tables to read.
LEMMA StartKeepsTypes ==
    ASSUME RequestsTyped, YearInv, NEW c \in Request, Start(c)
    PROVE  RequestsTyped' /\ \A d \in Request \ {c} : UNCHANGED Memory(d)
  <1> USE DEF RequestsTyped, Memory, Goto, Stage, Kind, EditKind
  <1>0. versions \in Seq(Version) /\ Len(versions) \in Nat /\ 1..Len(versions) \subseteq Nat
    BY DEF YearInv, TypeOK
  <1>1. CASE StartGenerate(c)
    BY <1>1 DEF StartGenerate
  <1>2. CASE \E k \in EditKind, b \in 1..Len(versions) : StartEdit(c, k, b)
    BY <1>0, <1>2 DEF StartEdit
  <1>3. CASE \E b \in 1..Len(versions), keys \in SUBSET Placement : StartRegenerate(c, b, keys)
    BY <1>0, <1>3 DEF StartRegenerate
  <1>4. CASE \E v \in 1..Len(versions) : StartView(c, v)
    <2>1. PICK v \in 1..Len(versions) : StartView(c, v)
      BY <1>4
    <2> QED BY <2>1, VersionIsTyped DEF StartView
  <1> QED BY <1>1, <1>2, <1>3, <1>4 DEF Start

\* Whatever an edit makes of a timetable is one, with locks.
LEMMA EditResultsAreTyped ==
    ASSUME NEW k, NEW p, NEW t \in Timetable, NEW ls \in SUBSET Placement,
           NEW result \in EditResults(k, p, t, ls)
    PROVE  /\ result = <<result[1], result[2]>>
           /\ result[1] \in Timetable /\ result[2] \in SUBSET Placement
           /\ Verifies(p, result[1])
  <1>1. Placed[t] \subseteq Placement
    BY ConfigurationAssumption
  <1> USE <1>1 DEF EditResults
  <1>2. CASE k = "move"
    <2>1. PICK u \in Timetable : Verifies(p, u) /\ result = <<u, ls>>
      BY <1>2
    <2> QED BY <2>1
  <1>3. CASE k = "lock"
    BY <1>3
  <1>4. CASE k = "unlock"
    BY <1>4
  <1>5. CASE k = "reoptimize"
    BY <1>5
  <1>6. k \in {"move", "lock", "unlock", "reoptimize"}
    OBVIOUS
  <1> QED BY <1>2, <1>3, <1>4, <1>5, <1>6

\* Loading a revision turns a number into a snapshot, and decides an edit.
LEMMA LoadRevisionKeepsTypes ==
    ASSUME RequestsTyped, YearInv, NEW c \in Request, LoadRevision(c)
    PROVE  RequestsTyped' /\ \A d \in Request \ {c} : UNCHANGED Memory(d)
  <1> USE DEF RequestsTyped, Memory, Goto, Stage
  <1>1. PICK r \in Live :
            /\ problem' = [problem EXCEPT ![c] = revisions[r].content]
            /\ IF kind[c] = "restore"
               THEN /\ Goto(c, "loadSource")
                    /\ UNCHANGED <<timetable, locks>>
               ELSE \E result \in EditResults(kind[c], revisions[r].content, timetable[c], locks[c]) :
                    /\ timetable' = [timetable EXCEPT ![c] = result[1]]
                    /\ locks' = [locks EXCEPT ![c] = result[2]]
                    /\ Goto(c, "persistEdited")
    BY DEF LoadRevision
  <1>2. revisions[r].content \in Snapshot
    BY DEF YearInv, TypeOK, Live, Revision
  <1>3. UNCHANGED <<kind, base, confirmed, target, unread>>
    BY DEF LoadRevision
  <1>4. CASE kind[c] = "restore"
    BY <1>1, <1>2, <1>3, <1>4
  <1>5. CASE kind[c] # "restore"
    <2>1. PICK result \in EditResults(kind[c], revisions[r].content, timetable[c], locks[c]) :
                    /\ timetable' = [timetable EXCEPT ![c] = result[1]]
                    /\ locks' = [locks EXCEPT ![c] = result[2]]
                    /\ Goto(c, "persistEdited")
      BY <1>1, <1>5
    <2>2. result[1] \in Timetable /\ result[2] \in SUBSET Placement
      BY EditResultsAreTyped
    <2> QED BY <1>1, <1>2, <1>3, <2>1, <2>2
  <1> QED BY <1>4, <1>5

\* Each stage of a request writes fields of their types.
LEMMA ProceedKeepsTypes ==
    ASSUME RequestsTyped, YearInv, NEW c \in Request, InFlight(c), Proceed(c)
    PROVE  RequestsTyped' /\ \A d \in Request \ {c} : UNCHANGED Memory(d)
  <1> USE DEF RequestsTyped, Memory, Goto, Stage
  <1>1. CASE Finish(c)
    BY <1>1, FinishedIsTyped
  <1>2. CASE ResolveRevision(c)
    BY <1>2, BoundAssumption DEF ResolveRevision, CurrentRevision, YearInv, TypeOK, RevisionId, NULL
  <1>3. CASE \E part \in Part : ReadTable(c, part)
    <2>1. PICK part \in Part : ReadTable(c, part)
      BY <1>3
    <2>2. revisions[target[c]].content \in Snapshot
      BY <2>1 DEF YearInv, TypeOK, Revision, InFlight, ReadTable, At
    <2>3. revisions[target[c]].content[part] \in Value \union {NoRows}
      BY <2>2 DEF Snapshot
    <2>4. problem' \in [Request -> Snapshot]
      BY <2>1, <2>3 DEF ReadTable, Snapshot
    <2> QED BY <2>1, <2>4 DEF ReadTable
  <1>4. CASE \E t \in Timetable : Solve(c, t)
    BY <1>4 DEF Solve
  <1>5. CASE LoadActive(c) /\ ~Finish(c)
    <2>1. Active.timetable \in Timetable /\ Active.locks \in SUBSET Placement
          /\ revisions[Active.revision].number \in Nat
      BY <1>5, ActiveIsNewest, VersionIsTyped DEF LoadActive, EditAccepted, Active
    <2> QED BY <1>5, <2>1 DEF LoadActive
  <1>6. CASE LoadRevision(c)
    BY <1>6, LoadRevisionKeepsTypes
  <1>7. CASE \E source \in 1..Len(versions) : LoadSource(c, source)
    BY <1>7, VersionIsTyped DEF LoadSource
  <1>8. CASE \E t \in Timetable : LoadDraft(c, t)
    <2>1. PICK t \in Timetable : LoadDraft(c, t)
      BY <1>8
    <2>2. /\ draft \in Nat
          /\ revisions[draft].content \in Snapshot
      BY <2>1 DEF LoadDraft, YearInv, TypeOK, Revision, RevisionId, NULL
    <2>3. Compatible(revisions[draft].content, timetable[c], locks[c]) \in SUBSET Placement
      BY DEF Compatible
    <2> QED BY <2>1, <2>2, <2>3 DEF LoadDraft
  <1> QED BY <1>1, <1>2, <1>3, <1>4, <1>5, <1>6, <1>7, <1>8
          DEF Proceed, FinishGenerate, FinishEdit, ShowView, FinishRegenerate, Refuse

-----------------------------------------------------------------------------
(* What requests do to the year. *)

CommitInitial(c) ==
    At(c, "persistInitial") /\ PersistInitialVersion(problem[c], timetable[c])

CommitEdited(c) ==
    At(c, "persistEdited") /\ PersistEditedVersion(base[c], timetable[c], locks[c])

CommitRegenerated(c) ==
    /\ At(c, "persistRegenerated")
    /\ PersistRegeneratedVersion(base[c], target[c], problem[c], timetable[c], locks[c], confirmed[c])

RequestOnYear ==
    \/ BeginDraft
    \/ DiscardDraft
    \/ \E part \in Part, value \in Value : WriteConfiguration(part, value)
    \/ \E c \in Request : CommitInitial(c) \/ CommitEdited(c) \/ CommitRegenerated(c)
    \/ UNCHANGED year

\* All they do to it are the transactions of the repositories.
LEMMA RequestsActOnYear == [RequestNext]_vars => RequestOnYear
  <1>1. ASSUME NEW c \in Request, RequestStep(c) PROVE RequestOnYear
    <2>1. Start(c) => UNCHANGED year
      BY DEF Start, StartGenerate, StartEdit, StartRegenerate, StartView
    <2>2. Proceed(c) => RequestOnYear
      BY DEF Proceed, ResolveRevision, ReadTable, Solve, FinishGenerate, LoadActive, LoadRevision,
             LoadSource, FinishEdit, ShowView, LoadDraft, FinishRegenerate, Refuse, RequestOnYear,
             CommitInitial, CommitEdited, CommitRegenerated
    <2>3. Die(c) => UNCHANGED year
      BY DEF Die
    <2> QED BY <1>1, <2>1, <2>2, <2>3 DEF RequestStep, RequestOnYear
  <1>2. ConfigurationStep => RequestOnYear
    BY DEF ConfigurationStep, RequestOnYear
  <1>3. UNCHANGED vars => UNCHANGED year
    BY DEF vars
  <1> QED BY <1>1, <1>2, <1>3 DEF RequestNext, RequestOnYear

\* The base, draft and problem a request presents are of the types that
\* AcademicYear enumerates, whenever they are accepted.
LEMMA RequestsCallRepositories ==
    ASSUME YearInv, RequestsTyped, RequestOnYear
    PROVE  [Next]_year
  <1> USE DEF RequestsTyped
  <1>1. CASE BeginDraft \/ DiscardDraft
             \/ \E part \in Part, value \in Value : WriteConfiguration(part, value)
    BY <1>1 DEF Next
  <1>2. ASSUME NEW c \in Request, CommitInitial(c) PROVE [Next]_year
    BY <1>2 DEF Next, CommitInitial
  <1>3. ASSUME NEW c \in Request, CommitEdited(c) PROVE [Next]_year
    <2>1. base[c] \in 1..MaxVersions
      BY <1>3, ActiveIsNewest, BoundAssumption DEF CommitEdited, PersistEditedVersion, EditAccepted
    <2> QED BY <1>3, <2>1 DEF Next, CommitEdited
  <1>4. ASSUME NEW c \in Request, CommitRegenerated(c) PROVE [Next]_year
    <2>1. base[c] \in 1..MaxVersions
      BY <1>4, ActiveIsNewest, BoundAssumption
         DEF CommitRegenerated, PersistRegeneratedVersion, RegenerationAccepted
    <2>2. target[c] \in RevisionId
      BY <1>4 DEF CommitRegenerated, PersistRegeneratedVersion, RegenerationAccepted, YearInv, TypeOK, NULL
    <2> QED BY <1>4, <2>1, <2>2 DEF Next, CommitRegenerated
  <1> QED BY <1>1, <1>2, <1>3, <1>4 DEF RequestOnYear

(***************************************************************************)
(* What is on record stays: versions are only added, and the revisions     *)
(* they were made for keep their numbers and contents.                     *)
(***************************************************************************)
RecordKept ==
    /\ 1..Len(versions) \subseteq 1..Len(versions')
    /\ \A v \in 1..Len(versions) :
        /\ versions'[v] = versions[v]
        /\ ContentOf(v)' = ContentOf(v)
        /\ revisions'[versions'[v].revision].number = revisions[versions[v].revision].number

\* A transaction writes the draft or a fresh row, and appends at most.
LEMMA AppendKeepsVersions ==
    ASSUME YearInv, NEW parent, NEW revision, NEW t, NEW ls, AppendVersion(parent, revision, t, ls)
    PROVE  /\ Len(versions') = Len(versions) + 1 /\ Len(versions) \in Nat
           /\ \A v \in 1..Len(versions) : versions'[v] = versions[v]
           /\ versions'[Len(versions) + 1].revision = revision
           /\ versions'[Len(versions) + 1].timetable = t
           /\ versions'[Len(versions) + 1].locks = ls
  BY DEF AppendVersion, YearInv, TypeOK

\* No step takes a version, or a fact about one, away.
LEMMA RequestsKeepRecord ==
    ASSUME YearInv, RequestOnYear
    PROVE  RecordKept
  <1>1. \A v \in 1..Len(versions) : /\ versions[v].revision \in RevisionId
                                    /\ revisions[versions[v].revision].status = "PUBLISHED"
    BY VersionIsTyped
  <1>2. ASSUME /\ Len(versions) \in Nat /\ Len(versions') \in {Len(versions), Len(versions) + 1}
               /\ \A v \in 1..Len(versions) : versions'[v] = versions[v]
               /\ \A r \in RevisionId : revisions[r].status = "PUBLISHED" =>
                    /\ revisions'[r].content = revisions[r].content
                    /\ revisions'[r].number = revisions[r].number
        PROVE  RecordKept
    BY <1>1, <1>2 DEF RecordKept, ContentOf
  <1>3. Len(versions) \in Nat
    BY DEF YearInv, TypeOK
  <1>4. /\ revisions \in [RevisionId -> Revision]
        /\ \A r \in RevisionId : revisions[r].status = "PUBLISHED" => r # lastRevision + 1
        /\ \A r \in RevisionId : revisions[r].status = "PUBLISHED" /\ draft # NULL => r # draft
    BY DEF YearInv, TypeOK, OneDraftAtMost, RowsFollowSequence, RevisionId
  <1>5. CASE BeginDraft
    BY <1>2, <1>3, <1>4, <1>5 DEF BeginDraft, history
  <1>6. CASE DiscardDraft
    BY <1>2, <1>3, <1>4, <1>6 DEF DiscardDraft, history
  <1>7. CASE \E part \in Part, value \in Value : WriteConfiguration(part, value)
    BY <1>2, <1>3, <1>4, <1>7 DEF WriteConfiguration, history
  <1>8. CASE UNCHANGED year
    BY <1>2, <1>3, <1>8 DEF year, configuration, history
  <1>9. ASSUME PublishDraft /\ draft # NULL, NEW parent, NEW revision, NEW t, NEW ls,
               AppendVersion(parent, revision, t, ls)
        PROVE  RecordKept
    BY <1>2, <1>3, <1>4, <1>9, AppendKeepsVersions DEF PublishDraft
  <1>10. ASSUME UNCHANGED configuration, NEW parent, NEW revision, NEW t, NEW ls,
               AppendVersion(parent, revision, t, ls)
        PROVE  RecordKept
    BY <1>2, <1>3, <1>4, <1>10, AppendKeepsVersions DEF configuration
  <1> QED BY <1>5, <1>6, <1>7, <1>8, <1>9, <1>10
          DEF RequestOnYear, CommitInitial, CommitEdited, CommitRegenerated,
              PersistInitialVersion, PersistEditedVersion,
              PersistRegeneratedVersion, RegenerationAccepted

-----------------------------------------------------------------------------
(* What a request carries stays true while others act. *)

LEMMA InFlightIsStable ==
    ASSUME YearInv, RequestsTyped, NEW c \in Request, InFlight(c), RecordKept, UNCHANGED Memory(c)
    PROVE  InFlight(c)'
  <1>1. /\ pc'[c] = pc[c] /\ kind'[c] = kind[c] /\ base'[c] = base[c]
        /\ confirmed'[c] = confirmed[c] /\ target'[c] = target[c]
        /\ problem'[c] = problem[c] /\ timetable'[c] = timetable[c] /\ locks'[c] = locks[c]
    BY DEF Memory
  <1>2. base[c] \in 1..Len(versions) =>
            /\ base[c] \in 1..Len(versions')
            /\ versions'[base[c]] = versions[base[c]]
            /\ ContentOf(base[c])' = ContentOf(base[c])
            /\ revisions'[versions'[base[c]].revision].number = revisions[versions[base[c]].revision].number
    BY <1>1 DEF RecordKept, ContentOf
  <1>3. base[c] \in 1..Len(versions) /\ FromBase(c) => FromBase(c)'
    BY <1>1, <1>2 DEF FromBase
  <1>4. base[c] \in 1..Len(versions) /\ EditVerified(c) => EditVerified(c)'
    BY <1>1, <1>2 DEF EditVerified, RecordKept, ContentOf
  <1> QED BY <1>1, <1>2, <1>3, <1>4 DEF InFlight, At

\* Stages at which a request carries nothing from the record.
LEMMA NothingCarried ==
    ASSUME NEW c, pc'[c] \in {"idle", "resolveRevision", "solve"}
    PROVE  InFlight(c)'
  BY DEF InFlight, At

\* What a request starts with is in flight: it carries nothing yet.
LEMMA StartsInFlight ==
    ASSUME YearInv, RequestsTyped, NEW c \in Request, Start(c)
    PROVE  InFlight(c)'
  <1> USE DEF RequestsTyped, Goto
  <1>1. CASE StartGenerate(c)
    BY <1>1, NothingCarried DEF StartGenerate
  <1>2. CASE \E k \in EditKind, b \in 1..Len(versions) : StartEdit(c, k, b)
    <2>1. pc'[c] = "loadActive" /\ kind'[c] \in EditKind
      BY <1>2 DEF StartEdit
    <2> QED BY <2>1 DEF InFlight, At
  <1>3. CASE \E b \in 1..Len(versions), keys \in SUBSET Placement : StartRegenerate(c, b, keys)
    <2>1. pc'[c] = "loadActive" /\ kind'[c] = "regenerate"
      BY <1>3 DEF StartRegenerate
    <2> QED BY <2>1 DEF InFlight, At
  <1>4. CASE \E v \in 1..Len(versions) : StartView(c, v)
    <2>1. PICK v \in 1..Len(versions) : StartView(c, v)
      BY <1>4
    <2>2. /\ pc'[c] = "loadRevision" /\ kind'[c] = "view" /\ base'[c] = v
          /\ target'[c] = revisions[versions[v].revision].number
          /\ versions' = versions /\ revisions' = revisions
      BY <2>1, VersionIsTyped DEF StartView, year, configuration, history
    <2> QED BY <2>2 DEF InFlight, At
  <1> QED BY <1>1, <1>2, <1>3, <1>4 DEF Start

\* The tables of the year are read key by key: the key is one of a revision.
LEMMA GenerateStaysInFlight ==
    ASSUME YearInv, RequestsTyped, NEW c \in Request, InFlight(c),
           \/ ResolveRevision(c)
           \/ \E part \in Part : ReadTable(c, part)
           \/ \E t \in Timetable : Solve(c, t)
    PROVE  InFlight(c)'
  <1> USE DEF RequestsTyped, Goto, At
  <1>1. CASE ResolveRevision(c)
    <2>1. CurrentRevision \in RevisionId
      BY DEF YearInv, TypeOK, OneDraftAtMost, CurrentRevision
    <2>2. pc'[c] = "readTables" /\ target'[c] \in RevisionId
      BY <1>1, <2>1 DEF ResolveRevision
    <2> QED BY <2>2 DEF InFlight
  <1>2. CASE \E part \in Part : ReadTable(c, part)
    <2>1. pc'[c] \in {"readTables", "solve"} /\ target'[c] \in RevisionId
      BY <1>2 DEF ReadTable, InFlight
    <2> QED BY <2>1 DEF InFlight
  <1>3. CASE \E t \in Timetable : Solve(c, t)
    <2>1. pc'[c] = "persistInitial" /\ Verifies(problem'[c], timetable'[c])
      BY <1>3 DEF Solve
    <2> QED BY <2>1 DEF InFlight
  <1> QED BY <1>1, <1>2, <1>3

\* The active version, when there is one, is the base a request goes on with.
LEMMA LoadActiveStaysInFlight ==
    ASSUME YearInv, RequestsTyped, NEW c \in Request, InFlight(c), LoadActive(c)
    PROVE  InFlight(c)'
  <1> USE DEF RequestsTyped, Goto, At
  <1>1. CASE ~EditAccepted(base[c])
    BY <1>1, NothingCarried DEF LoadActive, Finish
  <1>2. CASE EditAccepted(base[c])
    <2>1. base[c] = active /\ active \in 1..Len(versions)
      BY <1>2, ActiveIsNewest DEF EditAccepted
    <2>2. versions' = versions /\ revisions' = revisions
      BY DEF LoadActive, year, configuration, history
    <2>3. /\ base'[c] = base[c] /\ kind'[c] = kind[c]
          /\ target'[c] = revisions[versions[base[c]].revision].number
          /\ timetable'[c] = versions[base[c]].timetable
          /\ locks'[c] = versions[base[c]].locks
          /\ pc'[c] = IF kind[c] = "regenerate" THEN "loadDraft" ELSE "loadRevision"
      BY <1>2, <2>1 DEF LoadActive, Active
    <2>4. kind[c] \in EditKind \union {"regenerate"}
      BY DEF LoadActive, InFlight
    <2>5. FromBase(c)'
      BY <2>2, <2>3 DEF FromBase
    <2> QED BY <2>1, <2>2, <2>3, <2>4, <2>5 DEF InFlight
  <1> QED BY <1>1, <1>2

\* The revision found by number is the one its version was made for.
LEMMA NumberFindsRevision ==
    ASSUME YearInv, NEW v \in 1..Len(versions), NEW r \in Live,
           revisions[r].number = revisions[versions[v].revision].number
    PROVE  r = versions[v].revision
  BY VersionIsTyped DEF YearInv, RevisionNumbersIdentify

\* The revision found is the base's own, so that what an edit computes from it is right.
LEMMA LoadRevisionStaysInFlight ==
    ASSUME YearInv, RequestsTyped, NEW c \in Request, InFlight(c), LoadRevision(c)
    PROVE  InFlight(c)'
  <1> USE DEF RequestsTyped, Goto, At
  <1>1. PICK r \in Live :
            /\ revisions[r].number = target[c]
            /\ problem' = [problem EXCEPT ![c] = revisions[r].content]
            /\ IF kind[c] = "restore"
               THEN /\ Goto(c, "loadSource")
                    /\ UNCHANGED <<timetable, locks>>
               ELSE \E result \in EditResults(kind[c], revisions[r].content, timetable[c], locks[c]) :
                    /\ timetable' = [timetable EXCEPT ![c] = result[1]]
                    /\ locks' = [locks EXCEPT ![c] = result[2]]
                    /\ Goto(c, "persistEdited")
    BY DEF LoadRevision
  <1>2. /\ base[c] \in 1..Len(versions)
        /\ kind[c] \in EditKind /\ FromBase(c)
        /\ target[c] = revisions[versions[base[c]].revision].number
    BY DEF InFlight, LoadRevision
  <1>3. r = versions[base[c]].revision
    BY <1>1, <1>2, NumberFindsRevision
  <1>4. /\ versions' = versions /\ revisions' = revisions
        /\ base'[c] = base[c] /\ kind'[c] = kind[c]
    BY DEF LoadRevision, year, configuration, history
  <1>5. problem'[c] = ContentOf(base[c]) /\ ContentOf(base[c])' = ContentOf(base[c])
    BY <1>1, <1>3, <1>4 DEF ContentOf
  <1>6. CASE kind[c] = "restore"
    BY <1>1, <1>2, <1>4, <1>5, <1>6 DEF InFlight
  <1>7. CASE kind[c] # "restore"
    <2>1. PICK result \in EditResults(kind[c], revisions[r].content, timetable[c], locks[c]) :
                    /\ timetable' = [timetable EXCEPT ![c] = result[1]]
                    /\ locks' = [locks EXCEPT ![c] = result[2]]
                    /\ Goto(c, "persistEdited")
      BY <1>1, <1>7
    <2>2. <<timetable'[c], locks'[c]>> = result
      <3>1. result = <<result[1], result[2]>>
        BY EditResultsAreTyped
      <3>2. timetable'[c] = result[1] /\ locks'[c] = result[2]
        BY <2>1
      <3> QED BY <3>1, <3>2, Zenon
    <2>3. result \in EditResults(kind'[c], problem'[c], versions'[base'[c]].timetable,
                                 versions'[base'[c]].locks)
      BY <1>2, <1>3, <1>4, <1>5, <2>1 DEF FromBase, ContentOf
    <2>4. EditVerified(c)'
      BY <1>4, <1>7, <2>2, <2>3 DEF EditVerified
    <2> QED BY <1>2, <1>4, <1>5, <2>1, <2>4 DEF InFlight
  <1> QED BY <1>6, <1>7

\* A restore takes its timetable from another version that exists.
LEMMA LoadSourceStaysInFlight ==
    ASSUME YearInv, RequestsTyped, NEW c \in Request, InFlight(c),
           NEW source \in 1..Len(versions), LoadSource(c, source)
    PROVE  InFlight(c)'
  <1> USE DEF RequestsTyped, Goto, At
  <1>1. /\ base[c] \in 1..Len(versions)
        /\ kind[c] = "restore" /\ problem[c] = ContentOf(base[c])
    BY DEF InFlight, LoadSource
  <1>2. /\ versions' = versions /\ revisions' = revisions
        /\ base'[c] = base[c] /\ kind'[c] = kind[c] /\ problem'[c] = problem[c]
        /\ timetable'[c] = versions[source].timetable
        /\ locks'[c] = versions[source].locks
        /\ pc'[c] = "persistEdited"
    BY DEF LoadSource, year, configuration, history
  <1>3. source # base[c] /\ <<problem[c], ContentOf(source), versions[source].timetable>> \in Fits
    BY VersionIsTyped DEF LoadSource
  <1>4. EditVerified(c)'
    BY <1>1, <1>2, <1>3 DEF EditVerified, ContentOf
  <1> QED BY <1>1, <1>2, <1>4 DEF InFlight, ContentOf

\* The draft is read, solved and pinned in one stage, from the base's own timetable.
LEMMA LoadDraftStaysInFlight ==
    ASSUME YearInv, RequestsTyped, NEW c \in Request, InFlight(c),
           NEW t \in Timetable, LoadDraft(c, t)
    PROVE  InFlight(c)'
  <1> USE DEF RequestsTyped, Goto, At
  <1>1. base[c] \in 1..Len(versions) /\ FromBase(c)
    BY DEF InFlight, LoadDraft
  <1>2. /\ versions' = versions
        /\ base'[c] = base[c] /\ confirmed'[c] = confirmed[c]
        /\ problem'[c] = revisions[draft].content
        /\ timetable'[c] = t
        /\ locks'[c] = Compatible(problem'[c], timetable[c], locks[c])
        /\ pc'[c] = "persistRegenerated"
    BY DEF LoadDraft, year, history
  <1>3. /\ Verifies(problem'[c], t) /\ locks'[c] \subseteq Placed[t]
        /\ locks[c] \ locks'[c] = confirmed[c]
    BY <1>2 DEF LoadDraft
  <1> QED BY <1>1, <1>2, <1>3 DEF InFlight, FromBase

\* No step of any request disturbs what any request carries.
LEMMA StepStaysInFlight ==
    ASSUME YearInv, RequestsTyped, NEW c \in Request, InFlight(c), RequestStep(c)
    PROVE  InFlight(c)'
  <1>1. CASE Finish(c)
    <2>1. pc'[c] = "idle"
      BY <1>1 DEF Finish, RequestsTyped
    <2> QED BY <2>1, NothingCarried
  <1> QED BY <1>1, StartsInFlight, GenerateStaysInFlight, LoadActiveStaysInFlight, LoadRevisionStaysInFlight,
             LoadSourceStaysInFlight, LoadDraftStaysInFlight
          DEF RequestStep, Proceed, Die, FinishGenerate, FinishEdit, ShowView, FinishRegenerate, Refuse

-----------------------------------------------------------------------------
(* What is filed was verified. *)

\* The step appends this entry.
Committed(p, t, ls) ==
    /\ Len(versions') = Len(versions) + 1
    /\ revisions'[versions'[Len(versions) + 1].revision].content = p
    /\ versions'[Len(versions) + 1].timetable = t
    /\ versions'[Len(versions) + 1].locks = ls

\* Publishing changes the draft's status and not what is in it.
LEMMA PublicationCommits ==
    ASSUME YearInv, draft # NULL, PublishDraft, NEW parent, NEW t, NEW ls,
           AppendVersion(parent, draft, t, ls)
    PROVE  /\ Committed(revisions[draft].content, t, ls)
           /\ draft' = NULL /\ published' = draft
  <1>1. revisions'[draft].content = revisions[draft].content
    BY DEF YearInv, TypeOK, PublishDraft
  <1> QED BY <1>1, AppendKeepsVersions DEF Committed, PublishDraft

\* A first generation files a timetable of the problem it read.
LEMMA InitialCommits ==
    ASSUME YearInv, NEW c \in Request, CommitInitial(c)
    PROVE  /\ versions = <<>> /\ draft # NULL /\ draft' = NULL
           /\ problem[c] = revisions[draft].content
           /\ Committed(problem[c], timetable[c], {})
  <1>1. /\ ~HasSchedule
        /\ AppendVersion(NULL, CurrentRevision, timetable[c], {})
        /\ IF draft # NULL THEN PublishDraft ELSE UNCHANGED configuration
        /\ revisions[CurrentRevision].content = problem[c]
    BY DEF CommitInitial, PersistInitialVersion, InitialAccepted
  <1>2. draft # NULL /\ CurrentRevision = draft /\ versions = <<>>
    BY <1>1 DEF YearInv, TypeOK, PublishedWithSchedule, OneDraftAtMost, LinearHistory,
                HasSchedule, CurrentRevision, NULL
  <1> QED BY <1>1, <1>2, PublicationCommits

\* An edit that finds its base active files what it computed from that version.
LEMMA EditCommits ==
    ASSUME YearInv, NEW c \in Request, CommitEdited(c)
    PROVE  /\ base[c] = Len(versions) /\ Len(versions) \in 1..Len(versions)
           /\ UNCHANGED configuration
           /\ Committed(ContentOf(Len(versions)), timetable[c], locks[c])
  <1>1. /\ HasSchedule /\ Active.number = base[c]
        /\ AppendVersion(active, Active.revision, timetable[c], locks[c])
        /\ UNCHANGED configuration
    BY DEF CommitEdited, PersistEditedVersion, EditAccepted
  <1>2. active = Len(versions) /\ active \in 1..Len(versions) /\ Active.number = active
    BY <1>1, ActiveIsNewest
  <1>3. Committed(revisions[Active.revision].content, timetable[c], locks[c])
    BY <1>1, AppendKeepsVersions DEF Committed, configuration
  <1> QED BY <1>1, <1>2, <1>3 DEF Active, ContentOf

\* A regeneration files a timetable of the draft that it publishes.
LEMMA RegenerationCommits ==
    ASSUME YearInv, NEW c \in Request, CommitRegenerated(c)
    PROVE  /\ base[c] = Len(versions) /\ Len(versions) \in 1..Len(versions)
           /\ draft # NULL /\ draft' = NULL
           /\ draft = target[c] /\ published' = draft
           /\ problem[c] = revisions[draft].content
           /\ Committed(problem[c], timetable[c], locks[c])
  <1>1. /\ HasSchedule /\ Active.number = base[c]
        /\ draft # NULL /\ draft = target[c] /\ revisions[draft].content = problem[c]
        /\ AppendVersion(active, draft, timetable[c], locks[c])
        /\ PublishDraft
    BY DEF CommitRegenerated, PersistRegeneratedVersion, RegenerationAccepted
  <1>2. active = Len(versions) /\ active \in 1..Len(versions) /\ Active.number = active
    BY <1>1, ActiveIsNewest
  <1> QED BY <1>1, <1>2, PublicationCommits

\* What no edit's result lacks: the verifier's answer.
LEMMA EditIsVerified ==
    ASSUME RequestsTyped, NEW c \in Request, EditVerified(c), base[c] \in 1..Len(versions), YearInv
    PROVE  \/ <<problem[c], problem[c], timetable[c]>> \in Fits
           \/ \E u \in 1..Len(versions) : /\ timetable[c] = versions[u].timetable
                                           /\ <<problem[c], ContentOf(u), timetable[c]>> \in Fits
  <1>1. CASE kind[c] = "restore"
    BY <1>1 DEF EditVerified
  <1>2. CASE kind[c] # "restore"
    <2>1. <<timetable[c], locks[c]>> \in
            EditResults(kind[c], problem[c], versions[base[c]].timetable, versions[base[c]].locks)
      BY <1>2 DEF EditVerified
    <2>2. Verifies(problem[c], <<timetable[c], locks[c]>>[1])
      BY <2>1, EditResultsAreTyped, VersionIsTyped
    <2> QED BY <2>2 DEF Verifies
  <1> QED BY <1>1, <1>2

\* The versions there were keep their timetables and configurations.
LEMMA VerifiedStays ==
    ASSUME RecordKept, VersionsWereVerified, NEW v \in 1..Len(versions)
    PROVE  \E u \in 1..v :
             /\ versions'[u].timetable = versions'[v].timetable
             /\ <<ContentOf(v)', ContentOf(u)', versions'[v].timetable>> \in Fits
  <1>1. PICK u \in 1..v :
             /\ versions[u].timetable = versions[v].timetable
             /\ <<ContentOf(v), ContentOf(u), versions[v].timetable>> \in Fits
    BY DEF VersionsWereVerified
  <1>2. u \in 1..Len(versions)
    OBVIOUS
  <1> QED BY <1>1, <1>2 DEF RecordKept

\* A new version is verified against its own configuration or an earlier one's.
LEMMA CommittedIsVerified ==
    ASSUME YearInv, RecordKept, VersionsWereVerified, NEW p, NEW t, NEW ls, Committed(p, t, ls),
           \/ <<p, p, t>> \in Fits
           \/ \E u \in 1..Len(versions) : versions[u].timetable = t /\ <<p, ContentOf(u), t>> \in Fits
    PROVE  VersionsWereVerified'
  <1> DEFINE n == Len(versions) + 1
  <1>1. Len(versions) \in Nat /\ Len(versions') = n
    BY DEF YearInv, TypeOK, Committed
  <1>2. versions'[n].timetable = t /\ revisions'[versions'[n].revision].content = p
    BY DEF Committed
  <1>3. \A u \in 1..Len(versions) : /\ versions'[u].timetable = versions[u].timetable
                                    /\ revisions'[versions'[u].revision].content = ContentOf(u)
    BY DEF RecordKept, ContentOf
  <1>4. \E u \in 1..n : /\ versions'[u].timetable = versions'[n].timetable
                        /\ <<p, revisions'[versions'[u].revision].content, t>> \in Fits
    <2>1. CASE <<p, p, t>> \in Fits
      <3>1. n \in 1..n
        BY <1>1
      <3> QED BY <1>2, <2>1, <3>1
    <2>2. CASE \E u \in 1..Len(versions) : versions[u].timetable = t /\ <<p, ContentOf(u), t>> \in Fits
      <3>1. PICK u \in 1..Len(versions) : versions[u].timetable = t /\ <<p, ContentOf(u), t>> \in Fits
        BY <2>2
      <3>2. u \in 1..n
        BY <1>1
      <3> QED BY <1>2, <1>3, <3>1, <3>2
    <2> QED BY <2>1, <2>2
  <1>5. \A v \in 1..n : v \in 1..Len(versions) \/ v = n
    BY <1>1
  <1> SUFFICES ASSUME NEW v \in 1..n
               PROVE  \E u \in 1..v :
                        /\ versions'[u].timetable = versions'[v].timetable
                        /\ <<revisions'[versions'[v].revision].content,
                             revisions'[versions'[u].revision].content, versions'[v].timetable>> \in Fits
    BY <1>1 DEF VersionsWereVerified, ContentOf
  <1>6. CASE v = n
    BY <1>2, <1>4, <1>6
  <1>7. CASE v \in 1..Len(versions)
    BY <1>7, VerifiedStays DEF ContentOf
  <1> QED BY <1>5, <1>6, <1>7

\* Every step leaves the record verified.
LEMMA StepKeepsVerified ==
    ASSUME YearInv, RequestsTyped, \A c \in Request : InFlight(c), VersionsWereVerified,
           RequestOnYear
    PROVE  VersionsWereVerified'
  <1>1. RecordKept
    BY RequestsKeepRecord
  <1>2. ASSUME NEW c \in Request, CommitInitial(c) PROVE VersionsWereVerified'
    <2>1. <<problem[c], problem[c], timetable[c]>> \in Fits
      BY <1>2 DEF CommitInitial, InFlight, Verifies
    <2> QED BY <1>1, <1>2, <2>1, InitialCommits, CommittedIsVerified
  <1>3. ASSUME NEW c \in Request, CommitEdited(c) PROVE VersionsWereVerified'
    <2>1. base[c] \in 1..Len(versions) /\ EditVerified(c) /\ problem[c] = ContentOf(base[c])
      BY <1>3 DEF CommitEdited, InFlight, At
    <2>2. Committed(problem[c], timetable[c], locks[c])
      BY <1>3, <2>1, EditCommits
    <2> QED BY <1>1, <2>1, <2>2, EditIsVerified, CommittedIsVerified
  <1>4. ASSUME NEW c \in Request, CommitRegenerated(c) PROVE VersionsWereVerified'
    <2>1. <<problem[c], problem[c], timetable[c]>> \in Fits
      BY <1>4 DEF CommitRegenerated, InFlight, Verifies
    <2> QED BY <1>1, <1>4, <2>1, RegenerationCommits, CommittedIsVerified
  <1>5. CASE UNCHANGED versions
    BY <1>1, <1>5, VerifiedStays DEF VersionsWereVerified, ContentOf
  <1> QED BY <1>2, <1>3, <1>4, <1>5
          DEF RequestOnYear, BeginDraft, DiscardDraft, WriteConfiguration, year, history

-----------------------------------------------------------------------------
\* The inductive step.
LEMMA RequestStepKeepsRequestInv ==
    ASSUME RequestInv, [RequestNext]_vars
    PROVE  RequestInv'
  <1>1. YearInv /\ RequestsTyped /\ \A c \in Request : InFlight(c)
    BY DEF RequestInv
  <1>2. RequestOnYear
    BY RequestsActOnYear
  <1>3. YearInv'
    BY <1>1, <1>2, RequestsCallRepositories, StepKeepsYearInv
  <1>4. RecordKept
    BY <1>1, <1>2, RequestsKeepRecord
  <1>5. ASSUME NEW c \in Request, RequestStep(c)
        PROVE  RequestsTyped' /\ \A d \in Request \ {c} : UNCHANGED Memory(d)
    <2>1. CASE Start(c)
      BY <1>1, <2>1, StartKeepsTypes
    <2>2. CASE Proceed(c)
      BY <1>1, <2>2, ProceedKeepsTypes
    <2>3. CASE Die(c)
      BY <1>1, <2>3, FinishedIsTyped DEF Die
    <2> QED BY <1>5, <2>1, <2>2, <2>3 DEF RequestStep
  <1>6. ASSUME UNCHANGED request
        PROVE  RequestsTyped' /\ \A d \in Request : UNCHANGED Memory(d)
    BY <1>1, <1>6 DEF request, RequestsTyped, Memory
  <1>7. RequestsTyped' /\ \A d \in Request : InFlight(d)'
    <2>1. ASSUME NEW c \in Request, RequestStep(c)
          PROVE  RequestsTyped' /\ \A d \in Request : InFlight(d)'
      BY <1>1, <1>4, <1>5, <2>1, StepStaysInFlight, InFlightIsStable
    <2>2. ASSUME UNCHANGED request
          PROVE  RequestsTyped' /\ \A d \in Request : InFlight(d)'
      BY <1>1, <1>4, <1>6, <2>2, InFlightIsStable
    <2> QED BY <2>1, <2>2 DEF RequestNext, ConfigurationStep, vars
  <1>8. VersionsWereVerified'
    BY <1>1, <1>2, StepKeepsVerified DEF RequestInv
  <1> QED BY <1>3, <1>7, <1>8 DEF RequestInv

\* The invariant holds before any request.
LEMMA RequestsStartInvariant == RequestInit => RequestInv
  <1> SUFFICES ASSUME RequestInit PROVE RequestInv
    OBVIOUS
  <1>1. YearInv
    BY InitEstablishesYearInv DEF RequestInit
  <1>2. RequestsTyped
    <2>1. SomeTimetable \in Timetable
      BY TimetableAssumption, Zenon DEF SomeTimetable
    <2>2. Unseen \in Snapshot
      BY DEF Unseen, Snapshot
    <2> QED BY <2>1, <2>2 DEF RequestInit, RequestsIdle, RequestsTyped, Stage, Kind
  <1>3. ASSUME NEW c \in Request PROVE InFlight(c)
    <2>1. pc[c] = "idle"
      BY DEF RequestInit, RequestsIdle
    <2> QED BY <2>1 DEF InFlight, At
  <1>4. VersionsWereVerified
    BY DEF RequestInit, Init, VersionsWereVerified
  <1> QED BY <1>1, <1>2, <1>3, <1>4 DEF RequestInv

(***************************************************************************)
(* The inductive invariant of the requests.                                *)
(***************************************************************************)
THEOREM RequestInvariant == RequestSpec => []RequestInv
  <1>1. RequestInv /\ [RequestNext]_vars => RequestInv'
    BY RequestStepKeepsRequestInv
  <1> QED BY <1>1, RequestsStartInvariant, PTL DEF RequestSpec

(***************************************************************************)
(* Whatever requests do, the year behaves as AcademicYear specifies, and   *)
(* all that is proved of it holds.                                         *)
(***************************************************************************)
THEOREM RequestsUseTheYear == RequestSpec => Spec
  <1>1. RequestInit => Init \/ MigratedInit
    BY DEF RequestInit
  <1>2. RequestInv /\ [RequestNext]_vars => [Next]_year
    BY RequestsActOnYear, RequestsCallRepositories DEF RequestInv
  <1> QED BY <1>1, <1>2, RequestInvariant, PTL DEF RequestSpec, Spec

(***************************************************************************)
(* The memory of every request and the rows of the year are well formed.   *)
(***************************************************************************)
THEOREM RequestsAreTyped == RequestSpec => []RequestTypeOK
  <1>1. RequestInv => RequestTypeOK
    BY DEF RequestInv, YearInv, RequestsTyped, RequestTypeOK
  <1> QED BY <1>1, RequestInvariant, PTL

(***************************************************************************)
(* No timetable is on record that the verifier did not accept for the      *)
(* configuration it is filed under.                                        *)
(***************************************************************************)
THEOREM RecordIsVerified == RequestSpec => []VersionsWereVerified
  <1>1. RequestInv => VersionsWereVerified
    BY DEF RequestInv
  <1> QED BY <1>1, RequestInvariant, PTL

(***************************************************************************)
(* load_for_revision always finds the revision its caller's version was    *)
(* made for, and no other of that number.                                  *)
(***************************************************************************)
THEOREM RevisionsAreFound == RequestSpec => []ReadersFindTheirRevision
  <1>1. RequestInv => ReadersFindTheirRevision
    <2> SUFFICES ASSUME RequestInv, NEW c \in Request, At(c, "loadRevision")
                 PROVE  \E v \in 1..Len(versions) :
                          /\ versions[v].number = base[c]
                          /\ {r \in Live : revisions[r].number = target[c]} = {versions[v].revision}
      BY DEF ReadersFindTheirRevision
    <2>1. /\ base[c] \in 1..Len(versions)
          /\ target[c] = revisions[versions[base[c]].revision].number
          /\ YearInv
      BY DEF RequestInv, InFlight, At
    <2>2. versions[base[c]].number = base[c] /\ versions[base[c]].revision \in Live
      BY <2>1, VersionIsTyped
    <2>3. \A r \in Live : revisions[r].number = target[c] => r = versions[base[c]].revision
      BY <2>1, NumberFindsRevision
    <2>4. {r \in Live : revisions[r].number = target[c]} = {versions[base[c]].revision}
      BY <2>1, <2>2, <2>3
    <2> QED BY <2>1, <2>2, <2>4
  <1> QED BY <1>1, RequestInvariant, PTL

-----------------------------------------------------------------------------
\* A version appears and a request that was to publish is over: it was that one.
LEMMA RegenerationEnds ==
    ASSUME RequestInv, [RequestNext]_vars, NEW c \in Request,
           At(c, "persistRegenerated"), versions' # versions, pc'[c] = "idle"
    PROVE  CommitRegenerated(c)
  <1>1. RequestsTyped /\ YearInv /\ InFlight(c)
    BY DEF RequestInv
  <1>2. PICK d \in Request : RequestStep(d)
    BY DEF RequestNext, ConfigurationStep, BeginDraft, DiscardDraft, WriteConfiguration,
           vars, request, year, history, At
  <1>3. d = c
    <2>1. d # c => UNCHANGED Memory(c)
      <3>1. CASE Start(d)
        BY <1>1, <3>1, StartKeepsTypes
      <3>2. CASE Proceed(d)
        BY <3>2, ProceedKeepsTypes DEF RequestInv
      <3>3. CASE Die(d)
        BY <1>1, <3>3, FinishedIsTyped DEF Die
      <3> QED BY <1>2, <3>1, <3>2, <3>3 DEF RequestStep
    <2> QED BY <2>1 DEF Memory, At
  <1>4. CASE Start(c)
    BY <1>4 DEF Start, StartGenerate, StartEdit, StartRegenerate, StartView, At
  <1>5. CASE Die(c)
    BY <1>5 DEF Die, year, history
  <1>6. CASE Proceed(c)
    BY <1>6 DEF Proceed, ResolveRevision, ReadTable, Solve, FinishGenerate, LoadActive, LoadRevision,
             LoadSource, FinishEdit, ShowView, LoadDraft, FinishRegenerate, Refuse,
             CommitRegenerated, year, history, At
  <1> QED BY <1>2, <1>3, <1>4, <1>5, <1>6 DEF RequestStep

(***************************************************************************)
(* A regeneration publishes the draft row it read.                         *)
(***************************************************************************)
THEOREM ReadDraftIsPublished == RequestSpec => RegenerationPublishesItsDraft
  <1>1. RequestInv /\ [RequestNext]_vars =>
            [\A c \in Request :
                (At(c, "persistRegenerated") /\ versions' # versions /\ pc'[c] = "idle")
                    => published' = target[c]]_vars
    BY RegenerationEnds, RegenerationCommits DEF RequestInv
  <1> QED BY <1>1, RequestInvariant, PTL DEF RequestSpec, RegenerationPublishesItsDraft

(***************************************************************************)
(* The locks a regeneration drops are those its caller confirmed.          *)
(***************************************************************************)
THEOREM LossIsConfirmed == RequestSpec => LocksLostOnlyByConsent
  <1>1. ASSUME RequestInv, [RequestNext]_vars, NEW c \in Request,
               At(c, "persistRegenerated"), versions' # versions, pc'[c] = "idle"
        PROVE  Active.locks \ versions'[active'].locks = confirmed[c]
    <2>1. CommitRegenerated(c) /\ YearInv /\ InFlight(c)
      BY <1>1, RegenerationEnds DEF RequestInv
    <2>2. versions'[Len(versions) + 1].locks = locks[c] /\ base[c] = Len(versions)
      BY <2>1, RegenerationCommits DEF Committed
    <2>3. active' = Len(versions) + 1 /\ active = Len(versions)
      BY <2>1, ActiveIsNewest
         DEF CommitRegenerated, PersistRegeneratedVersion, RegenerationAccepted, AppendVersion
    <2>4. versions[base[c]].locks \ locks[c] = confirmed[c]
      BY <1>1, <2>1 DEF InFlight
    <2> QED BY <2>2, <2>3, <2>4 DEF Active
  <1>2. RequestInv /\ [RequestNext]_vars =>
            [\A c \in Request :
                (At(c, "persistRegenerated") /\ versions' # versions /\ pc'[c] = "idle")
                    => Active.locks \ versions'[active'].locks = confirmed[c]]_vars
    BY <1>1
  <1> QED BY <1>2, RequestInvariant, PTL DEF RequestSpec, LocksLostOnlyByConsent

-----------------------------------------------------------------------------
(***************************************************************************)
(* The staged requests implement TimetableHistory: every step of theirs is *)
(* one step of the history, or none.                                       *)
(***************************************************************************)

EntryOf(v) == [problem |-> ContentOf(v), timetable |-> versions[v].timetable, locks |-> versions[v].locks]
AnEntry == [problem : Problem, timetable : Timetable, locks : SUBSET Placement]

\* A function on an initial interval is a sequence, and one place more appends.
LEMMA FunctionIsSequence ==
    ASSUME NEW S, NEW n \in Nat, NEW f \in [1..n -> S]
    PROVE  f \in Seq(S) /\ Len(f) = n
  OBVIOUS

\* A sequence is a function on its places.
LEMMA SequenceIsFunction ==
    ASSUME NEW S, NEW s \in Seq(S)
    PROVE  s \in [1..Len(s) -> S]
  OBVIOUS

\* A sequence with one place more, the same in the others, is the old one appended to.
LEMMA OnePlaceMore ==
    ASSUME NEW S, NEW s \in Seq(S), NEW e \in S, NEW f \in [1..(Len(s) + 1) -> S],
           \A v \in 1..Len(s) : f[v] = s[v], f[Len(s) + 1] = e
    PROVE  f = Append(s, e)
  <1>1. Len(s) \in Nat /\ Append(s, e) \in Seq(S) /\ Len(Append(s, e)) = Len(s) + 1
    OBVIOUS
  <1>2. Append(s, e) \in [1..(Len(s) + 1) -> S]
    <2>1. Append(s, e) \in [1..Len(Append(s, e)) -> S]
      BY <1>1, SequenceIsFunction
    <2> QED BY <1>1, <2>1
  <1>3. \A v \in 1..(Len(s) + 1) : v \in 1..Len(s) \/ v = Len(s) + 1
    BY <1>1
  <1>4. \A v \in 1..Len(s) : Append(s, e)[v] = s[v]
    OBVIOUS
  <1>5. Append(s, e)[Len(s) + 1] = e
    OBVIOUS
  <1>6. \A v \in 1..(Len(s) + 1) : f[v] = Append(s, e)[v]
    BY <1>3, <1>4, <1>5
  <1> QED BY <1>2, <1>6

-----------------------------------------------------------------------------
(* The record and the draft as the history shows them. *)

LEMMA EntriesAreVersions ==
    ASSUME YearInv
    PROVE  /\ VersionEntries \in [1..Len(versions) -> AnEntry]
           /\ VersionEntries \in Seq(AnEntry)
           /\ Len(VersionEntries) = Len(versions) /\ Len(versions) \in Nat
           /\ \A v \in 1..Len(versions) : VersionEntries[v] = EntryOf(v)
           /\ VersionEntries = <<>> <=> versions = <<>>
  <1>1. versions \in Seq(Version) /\ Len(versions) \in Nat
    BY DEF YearInv, TypeOK
  <1>2. \A v \in 1..Len(versions) : /\ ContentOf(v) \in Problem
                                  /\ versions[v].timetable \in Timetable
                                  /\ versions[v].locks \in SUBSET Placement
    BY VersionIsTyped
  <1>3. VersionEntries \in [1..Len(versions) -> AnEntry]
    BY <1>2 DEF VersionEntries, AnEntry
  <1>4. VersionEntries \in Seq(AnEntry) /\ Len(VersionEntries) = Len(versions)
    BY <1>1, <1>3, FunctionIsSequence
  <1>5. \A v \in 1..Len(versions) : VersionEntries[v] = EntryOf(v)
    BY DEF VersionEntries, EntryOf
  <1>6. VersionEntries = <<>> <=> versions = <<>>
    BY <1>1, <1>4
  <1> QED BY <1>1, <1>3, <1>4, <1>5, <1>6

\* A step that leaves the versions and the rows behind them alone leaves the entries alone.
LEMMA EntriesStay ==
    ASSUME RecordKept, UNCHANGED versions
    PROVE  VersionEntries' = VersionEntries
  BY DEF RecordKept, VersionEntries, ContentOf

\* A version more is an entry more at the end.
LEMMA EntriesGrow ==
    ASSUME YearInv, RecordKept, NEW p \in Problem, NEW t \in Timetable, NEW ls \in SUBSET Placement,
           Committed(p, t, ls)
    PROVE  VersionEntries' = Append(VersionEntries, Abstract!Entry(p, t, ls))
  <1> DEFINE n == Len(versions) + 1
  <1>1. /\ Len(versions') = n /\ Len(versions) \in Nat
        /\ VersionEntries' = [v \in 1..n |-> [problem   |-> revisions'[versions'[v].revision].content,
                                            timetable |-> versions'[v].timetable,
                                            locks     |-> versions'[v].locks]]
    BY DEF YearInv, TypeOK, Committed, VersionEntries, ContentOf
  <1>2. VersionEntries'[n] = Abstract!Entry(p, t, ls)
    BY <1>1 DEF Committed, Abstract!Entry
  <1>3. \A v \in 1..Len(versions) : VersionEntries'[v] = VersionEntries[v]
    BY <1>1 DEF RecordKept, VersionEntries, ContentOf
  <1>4. Abstract!Entry(p, t, ls) \in AnEntry
    BY DEF Abstract!Entry, AnEntry
  <1>5. /\ VersionEntries \in Seq(AnEntry) /\ Len(VersionEntries) = Len(versions)
        /\ VersionEntries \in [1..Len(versions) -> AnEntry]
    BY EntriesAreVersions
  <1>6. VersionEntries' \in [1..n -> AnEntry]
    <2>1. \A v \in 1..n : v \in 1..Len(versions) \/ v = n
      BY <1>1
    <2>2. \A v \in 1..n : VersionEntries'[v] \in AnEntry
      BY <1>2, <1>3, <1>4, <1>5, <2>1
    <2> QED BY <1>1, <2>2
  <1> QED BY <1>2, <1>3, <1>4, <1>5, <1>6, OnePlaceMore

\* The newest entry is the active version's, and every extension is a change.
LEMMA NewestEntry ==
    ASSUME YearInv, Len(versions) \in 1..Len(versions)
    PROVE  /\ Abstract!Current = EntryOf(Len(versions))
           /\ Abstract!Current.problem = ContentOf(Len(versions))
           /\ Abstract!Current.timetable = versions[Len(versions)].timetable
           /\ Abstract!Current.locks = versions[Len(versions)].locks
           /\ VersionEntries # <<>>
  BY EntriesAreVersions DEF Abstract!Current, EntryOf

\* An entry more changes the history, whatever the entry is.
LEMMA ExtensionIsChange ==
    ASSUME YearInv, NEW entry, VersionEntries' = Append(VersionEntries, entry)
    PROVE  Abstract!HistoryVars' # Abstract!HistoryVars
  <1>1. Len(VersionEntries') = Len(VersionEntries) + 1 /\ Len(VersionEntries) \in Nat
    BY EntriesAreVersions
  <1>2. VersionEntries' # VersionEntries
    BY <1>1
  <1> QED BY <1>2 DEF Abstract!HistoryVars

\* The draft of the history is a problem exactly when a draft exists.
LEMMA DraftIsAProblem ==
    ASSUME YearInv
    PROVE  /\ draft = NULL => DraftContent = Unseen
           /\ draft # NULL => DraftContent = revisions[draft].content /\ DraftContent \in Problem
           /\ Unseen \notin Problem
  <1>1. draft # NULL => draft \in Live
    BY DEF YearInv, TypeOK, OneDraftAtMost, Live
  <1>2. Unseen \notin Problem
    <2>1. PICK part \in Part : TRUE
      BY ConfigurationAssumption
    <2>2. Unseen[part] = NoRows
      BY DEF Unseen
    <2> QED BY <2>2, ConfigurationAssumption DEF Problem
  <1> QED BY <1>1, <1>2 DEF DraftContent, YearInv, RowsFollowSequence

\* The step that appends an entry, as the history sees it.
LEMMA Extends ==
    ASSUME YearInv, RecordKept, NEW p \in Problem, NEW t \in Timetable, NEW ls \in SUBSET Placement,
           Committed(p, t, ls)
    PROVE  /\ Abstract!Extend(Abstract!Entry(p, t, ls))
           /\ Abstract!HistoryVars' # Abstract!HistoryVars
  BY EntriesGrow, ExtensionIsChange DEF Abstract!Extend

-----------------------------------------------------------------------------
(* The draft. *)

LEMMA BeginImplements ==
    ASSUME YearInv, YearInv', RecordKept, BeginDraft
    PROVE  Abstract!HistoryNext
  <1>1. /\ draft = NULL /\ draft' = lastRevision + 1 /\ lastRevision + 1 \in RevisionId
        /\ revisions'[lastRevision + 1].content = revisions[published].content
        /\ UNCHANGED <<published, versions, active>>
    BY BoundAssumption DEF YearInv, TypeOK, BeginDraft, RevisionId, history
  <1>2. HasSchedule
    BY DEF YearInv, PublishedWithSchedule, BeginDraft
  <1>3. Len(versions) \in 1..Len(versions) /\ versions[Len(versions)].revision = published
    BY <1>2, ActiveIsNewest DEF Active
  <1>4. Abstract!Current.problem = revisions[published].content
    BY <1>3, NewestEntry DEF ContentOf
  <1>5. draft' # NULL
    BY <1>1 DEF RevisionId, NULL
  <1>6. DraftContent' = Abstract!Current.problem
    BY <1>1, <1>4, <1>5 DEF DraftContent
  <1>7. DraftContent = Unseen /\ VersionEntries' = VersionEntries
    BY <1>1, DraftIsAProblem, EntriesStay
  <1>8. Abstract!Current.problem \in Problem
    BY <1>3, NewestEntry, VersionIsTyped
  <1>9. DraftContent' # DraftContent
    BY <1>6, <1>7, <1>8, DraftIsAProblem
  <1> QED BY <1>6, <1>7, <1>9 DEF Abstract!HistoryNext, Abstract!OpenDraft, Abstract!HistoryVars

\* Discarding the draft brings the newest entry's problem back.
LEMMA DiscardImplements ==
    ASSUME YearInv, RecordKept, DiscardDraft
    PROVE  Abstract!HistoryNext
  <1>1. draft # NULL /\ draft' = NULL /\ published # NULL /\ UNCHANGED versions
    BY DEF DiscardDraft, history
  <1>2. HasSchedule
    BY <1>1 DEF YearInv, PublishedWithSchedule
  <1>3. VersionEntries # <<>> /\ VersionEntries' = VersionEntries
    BY <1>1, <1>2, ActiveIsNewest, EntriesAreVersions, EntriesStay
  <1>4. DraftContent' = Unseen
    BY <1>1 DEF DraftContent
  <1>5. DraftContent # Unseen
    BY <1>1, DraftIsAProblem
  <1> QED BY <1>3, <1>4, <1>5 DEF Abstract!HistoryNext, Abstract!DropDraft, Abstract!HistoryVars

\* A configuration write changes the draft of the history alone.
LEMMA WriteImplements ==
    ASSUME YearInv, RecordKept, NEW part \in Part, NEW value \in Value, WriteConfiguration(part, value)
    PROVE  [Abstract!HistoryNext]_(Abstract!HistoryVars)
  <1>1. draft # NULL /\ draft' = draft /\ UNCHANGED versions /\ draft \in RevisionId
    BY DEF WriteConfiguration, history, YearInv, TypeOK
  <1>2. DraftContent = revisions[draft].content /\ DraftContent \in Problem /\ DraftContent # Unseen
    BY <1>1, DraftIsAProblem
  <1>3. revisions'[draft].content = [revisions[draft].content EXCEPT ![part] = value]
    BY <1>1 DEF WriteConfiguration, YearInv, TypeOK, Revision
  <1>4. DraftContent' = [DraftContent EXCEPT ![part] = value]
    BY <1>1, <1>2, <1>3 DEF DraftContent
  <1>5. DraftContent' \in Problem
    BY <1>2, <1>4 DEF Problem
  <1>6. VersionEntries' = VersionEntries
    BY <1>1, EntriesStay
  <1> QED BY <1>2, <1>5, <1>6 DEF Abstract!HistoryNext, Abstract!EditDraft, Abstract!HistoryVars

-----------------------------------------------------------------------------
(* The three commits. *)

LEMMA InitialImplements ==
    ASSUME YearInv, RequestsTyped, RecordKept, NEW c \in Request, InFlight(c), CommitInitial(c)
    PROVE  Abstract!HistoryNext
  <1>1. /\ versions = <<>> /\ draft # NULL /\ draft' = NULL
        /\ problem[c] = revisions[draft].content
        /\ Committed(problem[c], timetable[c], {})
    BY InitialCommits
  <1>2. problem[c] = DraftContent /\ problem[c] \in Problem /\ timetable[c] \in Timetable
    BY <1>1, DraftIsAProblem DEF RequestsTyped
  <1>3. /\ Abstract!Extend(Abstract!Entry(DraftContent, timetable[c], {}))
        /\ Abstract!HistoryVars' # Abstract!HistoryVars
    BY <1>1, <1>2, Extends
  <1>4. <<DraftContent, DraftContent, timetable[c]>> \in Fits
    BY <1>2 DEF CommitInitial, InFlight, Verifies
  <1>5. VersionEntries = <<>> /\ DraftContent' = Unseen
    BY <1>1, EntriesAreVersions DEF DraftContent
  <1>6. Abstract!Generate
    BY <1>2, <1>3, <1>4, <1>5 DEF Abstract!Generate
  <1> QED BY <1>3, <1>6 DEF Abstract!HistoryNext, Abstract!Extending

\* A regeneration that commits is a Regenerate of the draft and of the newest entry.
LEMMA RegenerationImplements ==
    ASSUME YearInv, RequestsTyped, RecordKept, NEW c \in Request, InFlight(c), CommitRegenerated(c)
    PROVE  Abstract!HistoryNext
  <1>1. /\ base[c] = Len(versions) /\ Len(versions) \in 1..Len(versions)
        /\ draft # NULL /\ draft' = NULL
        /\ problem[c] = revisions[draft].content
        /\ Committed(problem[c], timetable[c], locks[c])
    BY RegenerationCommits
  <1>2. /\ problem[c] = DraftContent /\ problem[c] \in Problem
        /\ timetable[c] \in Timetable /\ locks[c] \in SUBSET Placement
    BY <1>1, DraftIsAProblem DEF RequestsTyped
  <1>3. /\ Abstract!Extend(Abstract!Entry(DraftContent, timetable[c], locks[c]))
        /\ Abstract!HistoryVars' # Abstract!HistoryVars
    BY <1>1, <1>2, Extends
  <1>4. /\ VersionEntries # <<>>
        /\ Abstract!Current.timetable = versions[base[c]].timetable
        /\ Abstract!Current.locks = versions[base[c]].locks
    BY <1>1, NewestEntry
  <1>5. locks[c] = {k \in Abstract!Current.locks : <<DraftContent, Abstract!Current.timetable, k>> \in LockFits}
    BY <1>2, <1>4 DEF CommitRegenerated, InFlight, Compatible
  <1>6. <<DraftContent, DraftContent, timetable[c]>> \in Fits /\ locks[c] \subseteq Placed[timetable[c]]
    BY <1>2 DEF CommitRegenerated, InFlight, Verifies
  <1>7. DraftContent # Unseen /\ DraftContent' = Unseen
    BY <1>1, DraftIsAProblem DEF DraftContent
  <1>8. Abstract!Regenerate
    BY <1>2, <1>3, <1>4, <1>5, <1>6, <1>7, Zenon DEF Abstract!Regenerate
  <1> QED BY <1>3, <1>8 DEF Abstract!HistoryNext, Abstract!Extending

\* What an edit may make of a timetable, kind by kind.
LEMMA EditResultsAre ==
    ASSUME NEW k, NEW p, NEW t, NEW ls, NEW u, NEW ms, <<u, ms>> \in EditResults(k, p, t, ls)
    PROVE  \/ Verifies(p, t) /\ u \in Timetable /\ <<t, u>> \in Moves /\ Verifies(p, u) /\ ms = ls
           \/ Verifies(p, t) /\ u = t /\ \E key \in Placed[t] : ms = ls \union {key}
           \/ Verifies(p, t) /\ u = t /\ \E key \in Placed[t] : ms = ls \ {key}
           \/ u \in Timetable /\ Verifies(p, u) /\ ls \intersect Placed[t] \subseteq Placed[u] /\ ms = ls
  <1>1. CASE k = "move"
    <2>1. Verifies(p, t) /\ <<u, ms>> \in
            {<<w, ls>> : w \in {v \in Timetable : <<t, v>> \in Moves /\ Verifies(p, v)}}
      BY <1>1 DEF EditResults
    <2> QED BY <2>1
  <1>2. CASE k = "lock"
    <2>1. Verifies(p, t) /\ <<u, ms>> \in {<<t, ls \union {key}>> : key \in Placed[t]}
      BY <1>2 DEF EditResults
    <2> QED BY <2>1
  <1>3. CASE k = "unlock"
    <2>1. Verifies(p, t) /\ <<u, ms>> \in {<<t, ls \ {key}>> : key \in Placed[t]}
      BY <1>3 DEF EditResults
    <2> QED BY <2>1
  <1>4. CASE k = "reoptimize"
    <2>1. <<u, ms>> \in {<<w, ls>> : w \in {v \in Timetable :
                            Verifies(p, v) /\ ls \intersect Placed[t] \subseteq Placed[v]}}
      BY <1>4 DEF EditResults
    <2> QED BY <2>1
  <1>5. k \in {"move", "lock", "unlock", "reoptimize"}
    BY DEF EditResults
  <1> QED BY <1>1, <1>2, <1>3, <1>4, <1>5

\* An edit that commits is the edit of the newest entry it was asked for.
LEMMA EditImplements ==
    ASSUME YearInv, RequestsTyped, RecordKept, NEW c \in Request, InFlight(c), CommitEdited(c)
    PROVE  Abstract!HistoryNext
  <1> DEFINE cur == versions[Len(versions)]
             p == ContentOf(Len(versions))
  <1>1. /\ base[c] = Len(versions) /\ Len(versions) \in 1..Len(versions)
        /\ UNCHANGED configuration
        /\ Committed(p, timetable[c], locks[c])
    BY EditCommits
  <1>2. /\ p \in Problem /\ timetable[c] \in Timetable /\ locks[c] \in SUBSET Placement
        /\ cur.timetable \in Timetable /\ cur.locks \in SUBSET Placement
    BY <1>1, VersionIsTyped DEF RequestsTyped
  <1>3. /\ Abstract!Extend(Abstract!Entry(p, timetable[c], locks[c]))
        /\ Abstract!HistoryVars' # Abstract!HistoryVars
    BY <1>1, <1>2, Extends
  <1>4. /\ VersionEntries # <<>>
        /\ Abstract!Current = Abstract!Entry(p, cur.timetable, cur.locks)
        /\ Abstract!Current.problem = p
        /\ Abstract!Current.timetable = cur.timetable
        /\ Abstract!Current.locks = cur.locks
    BY <1>1, NewestEntry DEF EntryOf, Abstract!Entry
  <1>5. DraftContent' = DraftContent
    BY <1>1 DEF configuration, DraftContent
  <1>6. EditVerified(c) /\ problem[c] = p
    BY <1>1 DEF CommitEdited, InFlight, At
  <1>7. CASE kind[c] = "restore"
    <2>1. PICK source \in 1..Len(versions) :
            /\ source # base[c]
            /\ timetable[c] = versions[source].timetable
            /\ locks[c] = versions[source].locks
            /\ <<p, ContentOf(source), timetable[c]>> \in Fits
      BY <1>6, <1>7 DEF EditVerified
    <2>2. source \in 1..(Len(VersionEntries) - 1)
      BY <1>1, <2>1, EntriesAreVersions
    <2>3. /\ VersionEntries[source].problem = ContentOf(source)
          /\ VersionEntries[source].timetable = timetable[c]
          /\ VersionEntries[source].locks = locks[c]
      BY <2>1, EntriesAreVersions DEF EntryOf
    <2>4. Abstract!Restore
      BY <1>3, <1>4, <1>5, <2>1, <2>2, <2>3 DEF Abstract!Restore
    <2> QED BY <1>3, <2>4 DEF Abstract!HistoryNext, Abstract!Extending
  <1>8. CASE kind[c] # "restore"
    <2>1. <<timetable[c], locks[c]>> \in EditResults(kind[c], p, cur.timetable, cur.locks)
      BY <1>1, <1>6, <1>8 DEF EditVerified
    <2>2. Abstract!Valid <=> Verifies(p, cur.timetable)
      BY <1>4 DEF Abstract!Valid, Verifies
    <2>3. CASE /\ Verifies(p, cur.timetable) /\ <<cur.timetable, timetable[c]>> \in Moves
               /\ Verifies(p, timetable[c]) /\ locks[c] = cur.locks
      <3>1. Abstract!Move
        BY <1>2, <1>3, <1>4, <1>5, <2>2, <2>3 DEF Abstract!Move, Verifies
      <3> QED BY <1>3, <3>1 DEF Abstract!HistoryNext, Abstract!Extending
    <2>4. ASSUME Verifies(p, cur.timetable), timetable[c] = cur.timetable,
                 NEW key \in Placed[cur.timetable], locks[c] = cur.locks \union {key}
          PROVE  Abstract!HistoryNext
      <3>1. Abstract!Lock
        BY <1>3, <1>4, <1>5, <2>2, <2>4 DEF Abstract!Lock
      <3> QED BY <1>3, <3>1 DEF Abstract!HistoryNext, Abstract!Extending
    <2>5. ASSUME Verifies(p, cur.timetable), timetable[c] = cur.timetable,
                 NEW key \in Placed[cur.timetable], locks[c] = cur.locks \ {key}
          PROVE  Abstract!HistoryNext
      <3>1. Abstract!Unlock
        BY <1>3, <1>4, <1>5, <2>2, <2>5 DEF Abstract!Unlock
      <3> QED BY <1>3, <3>1 DEF Abstract!HistoryNext, Abstract!Extending
    <2>6. CASE /\ Verifies(p, timetable[c]) /\ locks[c] = cur.locks
               /\ cur.locks \intersect Placed[cur.timetable] \subseteq Placed[timetable[c]]
      <3>1. Abstract!Reoptimize
        BY <1>2, <1>3, <1>4, <1>5, <2>6 DEF Abstract!Reoptimize, Verifies
      <3> QED BY <1>3, <3>1 DEF Abstract!HistoryNext, Abstract!Extending
    <2>7. \/ /\ Verifies(p, cur.timetable) /\ <<cur.timetable, timetable[c]>> \in Moves
             /\ Verifies(p, timetable[c]) /\ locks[c] = cur.locks
          \/ /\ Verifies(p, cur.timetable) /\ timetable[c] = cur.timetable
             /\ \E key \in Placed[cur.timetable] : locks[c] = cur.locks \union {key}
          \/ /\ Verifies(p, cur.timetable) /\ timetable[c] = cur.timetable
             /\ \E key \in Placed[cur.timetable] : locks[c] = cur.locks \ {key}
          \/ /\ Verifies(p, timetable[c]) /\ locks[c] = cur.locks
             /\ cur.locks \intersect Placed[cur.timetable] \subseteq Placed[timetable[c]]
      BY <2>1, EditResultsAre
    <2> QED BY <2>3, <2>4, <2>5, <2>6, <2>7
  <1> QED BY <1>7, <1>8

-----------------------------------------------------------------------------
\* Every step of the requests is a step of the history or leaves it alone.
LEMMA StepImplementsHistory ==
    ASSUME RequestInv, [RequestNext]_vars
    PROVE  [Abstract!HistoryNext]_(Abstract!HistoryVars)
  <1>1. YearInv /\ RequestsTyped /\ \A c \in Request : InFlight(c)
    BY DEF RequestInv
  <1>2. RequestOnYear /\ RecordKept
    BY <1>1, RequestsActOnYear, RequestsKeepRecord
  <1>3. YearInv'
    BY RequestStepKeepsRequestInv DEF RequestInv
  <1>4. CASE UNCHANGED year
    <2>1. DraftContent' = DraftContent
      BY <1>4 DEF year, configuration, DraftContent
    <2>2. VersionEntries' = VersionEntries
      BY <1>2, <1>4, EntriesStay DEF year, history
    <2> QED BY <2>1, <2>2 DEF Abstract!HistoryVars
  <1>5. CASE BeginDraft
    BY <1>1, <1>2, <1>3, <1>5, BeginImplements
  <1>6. CASE DiscardDraft
    BY <1>1, <1>2, <1>6, DiscardImplements
  <1>7. CASE \E part \in Part, value \in Value : WriteConfiguration(part, value)
    BY <1>1, <1>2, <1>7, WriteImplements
  <1>8. ASSUME NEW c \in Request, CommitInitial(c) \/ CommitEdited(c) \/ CommitRegenerated(c)
        PROVE  Abstract!HistoryNext
    BY <1>1, <1>2, <1>8, InitialImplements, EditImplements, RegenerationImplements
  <1> QED BY <1>2, <1>4, <1>5, <1>6, <1>7, <1>8 DEF RequestOnYear

\* A provisioned year is a history without entries, with the draft it starts with.
LEMMA StartImplementsHistory == RequestInit => Abstract!HistoryInit
  <1> SUFFICES ASSUME RequestInit PROVE Abstract!HistoryInit
    OBVIOUS
  <1>1. /\ draft = 1 /\ versions = <<>>
        /\ revisions[1].content = Provisioned
    BY BoundAssumption DEF RequestInit, Init, RevisionId
  <1>2. DraftContent = Provisioned
    BY <1>1 DEF DraftContent, NULL
  <1>3. VersionEntries = <<>>
    BY <1>1, EntriesAreVersions, InitEstablishesYearInv DEF RequestInit
  <1> QED BY <1>2, <1>3 DEF Abstract!HistoryInit

(***************************************************************************)
(* The staged requests, interleaved in any way and cut off anywhere, make  *)
(* a history of requests that each take effect at one instant.             *)
(***************************************************************************)
THEOREM RequestsMakeAHistory == RequestSpec => ImplementsHistory
  <1>1. RequestInv /\ [RequestNext]_vars => [Abstract!HistoryNext]_(Abstract!HistoryVars)
    BY StepImplementsHistory
  <1> QED BY <1>1, StartImplementsHistory, RequestInvariant, PTL
          DEF RequestSpec, ImplementsHistory, Abstract!HistorySpec

=============================================================================
