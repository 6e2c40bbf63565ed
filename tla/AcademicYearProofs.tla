--------------------------- MODULE AcademicYearProofs ---------------------------
(***************************************************************************)
(* The invariants of AcademicYear for any configuration tables, values,    *)
(* timetables, locks and bounds, and against any caller.                   *)
(***************************************************************************)
EXTENDS AcademicYear, TLAPS

(***************************************************************************)
(* What the listed invariants need to be inductive: rows beyond the key    *)
(* sequence do not exist, every existing revision holds a real             *)
(* configuration, a schedule exists exactly when a revision is published,  *)
(* and revision numbers grow from publication to publication, which is     *)
(* what makes MAX + 1 a fresh number although discards give numbers back.  *)
(***************************************************************************)
RowsFollowSequence ==
    /\ \A r \in RevisionId : r > lastRevision => revisions[r].status = "ABSENT"
    /\ \A r \in Live : revisions[r].content \in Problem

PublishedWithSchedule == HasSchedule <=> published # NULL

PublishedHasHighestNumber ==
    published # NULL =>
        /\ \A r \in Live : r # draft => revisions[r].number <= revisions[published].number
        /\ draft # NULL => revisions[published].number < revisions[draft].number

YearInv ==
    /\ TypeOK
    /\ OneDraftAtMost
    /\ SingleRevisionBeforeSchedule
    /\ RevisionNumbersIdentify
    /\ VersionsOnPublishedRevisions
    /\ LinearHistory
    /\ RowsFollowSequence
    /\ PublishedWithSchedule
    /\ PublishedHasHighestNumber

-----------------------------------------------------------------------------
\* Every row of the version table refers to a row of the revision table.
LEMMA VersionsReferToRevisions ==
    ASSUME TypeOK
    PROVE  \A v \in 1..Len(versions) : versions[v].revision \in RevisionId
  <1> SUFFICES ASSUME NEW v \in 1..Len(versions)
               PROVE  versions[v].revision \in RevisionId
    OBVIOUS
  <1>1. versions \in Seq(Version)
    BY DEF TypeOK
  <1>2. versions[v] \in Version
    BY <1>1
  <1> QED BY <1>2 DEF Version

\* A step that leaves the versions alone keeps them on published revisions as
\* long as published revisions stay published.
LEMMA VersionsKept ==
    ASSUME TypeOK, TypeOK', VersionsOnPublishedRevisions, UNCHANGED <<published, versions, active>>,
           \A r \in RevisionId :
                revisions[r].status = "PUBLISHED" => revisions'[r].status = "PUBLISHED"
    PROVE  VersionsOnPublishedRevisions'
  <1>1. \A v \in 1..Len(versions) : versions[v].revision \in RevisionId
    BY VersionsReferToRevisions
  <1>2. \A v \in 1..Len(versions) : revisions'[versions[v].revision].status = "PUBLISHED"
    BY <1>1 DEF VersionsOnPublishedRevisions
  <1>3. Active' = Active /\ HasSchedule' = HasSchedule
    BY DEF Active, HasSchedule
  <1>4. HasSchedule' => Active'.revision = published'
    BY <1>3 DEF VersionsOnPublishedRevisions
  <1>5. \A v \in 1..Len(versions') : revisions'[versions'[v].revision].status = "PUBLISHED"
    BY <1>2
  <1> QED BY <1>4, <1>5 DEF VersionsOnPublishedRevisions

\* The largest element of a set of integers, once known, is what Max chooses.
LEMMA MaxIs ==
    ASSUME NEW S \in SUBSET Int, NEW m \in S, \A x \in S : m >= x
    PROVE  Max(S) = m
  <1>1. \E x \in S : \A y \in S : x >= y
    OBVIOUS
  <1>2. Max(S) \in S /\ \A y \in S : Max(S) >= y
    BY <1>1, Zenon DEF Max
  <1>3. Max(S) >= m /\ m >= Max(S) /\ Max(S) \in Int /\ m \in Int
    BY <1>2
  <1> QED BY <1>3

\* With no draft open, a new draft gets a number above every existing one.
LEMMA NextRevisionNumberIs ==
    ASSUME YearInv, draft = NULL
    PROVE  NextRevisionNumber = revisions[published].number + 1
  <1> DEFINE S == {revisions[r].number : r \in Live}
  <1>1. published \in Live
    BY DEF YearInv, TypeOK, OneDraftAtMost, Live, RevisionId, NULL
  <1>2. S \in SUBSET Int
    BY DEF YearInv, TypeOK, Live, Revision
  <1>3. \A r \in Live : revisions[r].number <= revisions[published].number
    BY DEF YearInv, PublishedHasHighestNumber, OneDraftAtMost, Live, RevisionId, NULL
  <1>4. \A x \in S : revisions[published].number >= x
    BY <1>2, <1>3, <1>1
  <1>5. Max(S) = revisions[published].number
    BY <1>1, <1>2, <1>4, MaxIs
  <1> QED BY <1>5 DEF NextRevisionNumber

\* A new version gets the position of its row as its number.
LEMMA NextVersionNumberIs ==
    ASSUME YearInv, versions # <<>>
    PROVE  NextVersionNumber = Len(versions) + 1
  <1> DEFINE S == {versions[v].number : v \in 1..Len(versions)}
  <1>1. Len(versions) \in Nat \ {0}
    BY DEF YearInv, TypeOK
  <1>2. S = 1..Len(versions)
    BY <1>1 DEF YearInv, LinearHistory
  <1>3. S \in SUBSET Int /\ Len(versions) \in S /\ \A x \in S : Len(versions) >= x
    BY <1>1, <1>2
  <1>4. Max(S) = Len(versions)
    BY <1>3, MaxIs
  <1> QED BY <1>4 DEF NextVersionNumber

-----------------------------------------------------------------------------
(* The draft lifecycle. *)

LEMMA InitEstablishesYearInv == Init => YearInv
  <1> SUFFICES ASSUME Init PROVE YearInv
    OBVIOUS
  <1> USE ConfigurationAssumption, BoundAssumption DEF Init, NULL, RevisionId
  <1>1. Unseen \in Snapshot /\ Provisioned \in Snapshot
    BY DEF Unseen, Snapshot, Problem
  <1>2. TypeOK
    BY <1>1 DEF TypeOK, Revision, AbsentRevision
  <1>3. Live = {1} /\ CurrentRevision = 1
    BY DEF Live, AbsentRevision, CurrentRevision
  <1>4. OneDraftAtMost
    BY DEF OneDraftAtMost, AbsentRevision
  <1>5. SingleRevisionBeforeSchedule /\ RevisionNumbersIdentify
    BY <1>3 DEF SingleRevisionBeforeSchedule, RevisionNumbersIdentify
  <1>6. VersionsOnPublishedRevisions /\ LinearHistory
    BY DEF VersionsOnPublishedRevisions, LinearHistory, HasSchedule
  <1>7. RowsFollowSequence
    BY <1>3 DEF RowsFollowSequence, AbsentRevision
  <1>8. PublishedWithSchedule /\ PublishedHasHighestNumber
    BY DEF PublishedWithSchedule, PublishedHasHighestNumber, HasSchedule
  <1> QED BY <1>2, <1>4, <1>5, <1>6, <1>7, <1>8 DEF YearInv

\* A migrated year has one revision, published exactly if there are versions.
LEMMA MigrationEstablishesYearInv == MigratedInit => YearInv
  <1> SUFFICES ASSUME MigratedInit PROVE YearInv
    OBVIOUS
  <1> USE ConfigurationAssumption, BoundAssumption DEF NULL, RevisionId
  <1>1. PICK problem \in Problem, n \in 0..MaxVersions :
        \E filed \in [1..n -> [timetable : Timetable, locks : SUBSET Placement]] :
            /\ revisions = [r \in RevisionId |->
                    IF r = 1 THEN [number  |-> 1,
                                   status  |-> IF n = 0 THEN "DRAFT" ELSE "PUBLISHED",
                                   content |-> problem]
                             ELSE AbsentRevision]
            /\ lastRevision = 1
            /\ draft = IF n = 0 THEN 1 ELSE NULL
            /\ published = IF n = 0 THEN NULL ELSE 1
            /\ versions = [v \in 1..n |->
                    [number    |-> v,
                     parent    |-> v - 1,
                     revision  |-> 1,
                     timetable |-> filed[v].timetable,
                     locks     |-> filed[v].locks]]
            /\ active = n
    BY DEF MigratedInit
  <1>2. PICK filed \in [1..n -> [timetable : Timetable, locks : SUBSET Placement]] :
            versions = [v \in 1..n |->
                    [number    |-> v,
                     parent    |-> v - 1,
                     revision  |-> 1,
                     timetable |-> filed[v].timetable,
                     locks     |-> filed[v].locks]]
    BY <1>1
  <1>3. n \in Nat /\ Unseen \in Snapshot /\ problem \in Snapshot
    BY DEF Unseen, Snapshot, Problem
  <1>4. versions \in [1..n -> Version]
    BY <1>2, <1>3 DEF Version
  <1>5. versions \in Seq(Version) /\ Len(versions) = n
    BY <1>3, <1>4
  <1>6. revisions \in [RevisionId -> Revision]
    BY <1>1, <1>3 DEF Revision, AbsentRevision
  <1>15. lastRevision = 1 /\ draft \in {0, 1} /\ published \in {0, 1} /\ active = n
    BY <1>1
  <1>7. TypeOK
    BY <1>3, <1>5, <1>6, <1>15 DEF TypeOK
  <1>8. Live = {1} /\ CurrentRevision = 1
    BY <1>1 DEF Live, AbsentRevision, CurrentRevision
  <1>9. OneDraftAtMost
    BY <1>1 DEF OneDraftAtMost, AbsentRevision
  <1>10. SingleRevisionBeforeSchedule /\ RevisionNumbersIdentify
    BY <1>8 DEF SingleRevisionBeforeSchedule, RevisionNumbersIdentify
  <1>11. LinearHistory
    BY <1>1, <1>2, <1>5 DEF LinearHistory
  <1>12. VersionsOnPublishedRevisions
    <2>1. \A v \in 1..n : versions[v].revision = 1
      BY <1>2
    <2>2. n # 0 => revisions[1].status = "PUBLISHED" /\ published = 1
      BY <1>1
    <2>3. HasSchedule <=> n # 0
      BY <1>1 DEF HasSchedule
    <2>4. \A v \in 1..n : n # 0
      BY <1>3
    <2> QED BY <1>1, <1>3, <1>5, <2>1, <2>2, <2>3, <2>4 DEF VersionsOnPublishedRevisions, Active
  <1>13. RowsFollowSequence
    BY <1>1, <1>8 DEF RowsFollowSequence, AbsentRevision
  <1>14. PublishedWithSchedule /\ PublishedHasHighestNumber
    BY <1>1, <1>3, <1>8 DEF PublishedWithSchedule, PublishedHasHighestNumber, HasSchedule
  <1> QED BY <1>7, <1>9, <1>10, <1>11, <1>12, <1>13, <1>14 DEF YearInv

LEMMA BeginDraftKeepsYearInv == ASSUME YearInv, BeginDraft PROVE YearInv'
  <1> DEFINE new == lastRevision + 1
             row == [number  |-> revisions[published].number + 1,
                     status  |-> "DRAFT",
                     content |-> revisions[published].content]
  <1> USE BoundAssumption DEF RevisionId, NULL
  <1>1. /\ published \in Live
        /\ new \in RevisionId
        /\ new \notin Live
        /\ new # published
        /\ revisions[published].number \in Nat
        /\ revisions[published].content \in Problem
        /\ revisions[published].content \in Snapshot
    BY DEF YearInv, TypeOK, OneDraftAtMost, RowsFollowSequence, Live, Revision, BeginDraft
  <1>2. revisions' = [revisions EXCEPT ![new] = row]
    BY NextRevisionNumberIs DEF BeginDraft
  <1>3. /\ draft = NULL /\ draft' = new /\ lastRevision' = new
        /\ UNCHANGED <<published, versions, active>>
    BY DEF BeginDraft, history
  <1>4. row \in Revision
    BY <1>1 DEF Revision
  <1>5. TypeOK'
    BY <1>1, <1>2, <1>3, <1>4 DEF YearInv, TypeOK
  <1>6. \A r \in RevisionId : revisions'[r] = IF r = new THEN row ELSE revisions[r]
    BY <1>2 DEF YearInv, TypeOK
  <1>7. Live' = Live \union {new}
    BY <1>1, <1>6 DEF Live
  <1>8. OneDraftAtMost'
    BY <1>1, <1>3, <1>6 DEF YearInv, OneDraftAtMost, Live
  <1>9. SingleRevisionBeforeSchedule'
    BY <1>3 DEF YearInv, PublishedWithSchedule, SingleRevisionBeforeSchedule, HasSchedule, BeginDraft
  <1>10. \A r \in Live : r # new /\ revisions'[r].number <= revisions[published].number
    BY <1>1, <1>3, <1>6 DEF YearInv, PublishedHasHighestNumber, OneDraftAtMost, Live
  <1>11. \A r \in Live : revisions'[r].number \in Nat /\ revisions'[r] = revisions[r]
    BY <1>1, <1>6 DEF YearInv, TypeOK, Live, Revision
  <1>12. revisions'[new].number = revisions[published].number + 1
    BY <1>1, <1>6
  <1>13. RevisionNumbersIdentify'
    <2> SUFFICES ASSUME NEW r \in Live', NEW s \in Live',
                        revisions'[r].number = revisions'[s].number
                 PROVE  r = s
      BY DEF RevisionNumbersIdentify
    <2>1. CASE r \in Live /\ s \in Live
      BY <2>1, <1>11 DEF YearInv, RevisionNumbersIdentify
    <2>2. CASE r = new /\ s = new
      BY <2>2
    <2>3. CASE r = new /\ s \in Live
      BY <2>3, <1>1, <1>10, <1>11, <1>12
    <2>4. CASE r \in Live /\ s = new
      BY <2>4, <1>1, <1>10, <1>11, <1>12
    <2> QED BY <1>7, <2>1, <2>2, <2>3, <2>4
  <1>14. VersionsOnPublishedRevisions'
    <2>1. \A r \in RevisionId : revisions[r].status = "PUBLISHED" => r # new
      BY <1>1 DEF Live
    <2> QED BY <1>3, <1>5, <1>6, <2>1, VersionsKept DEF YearInv, TypeOK
  <1>15. LinearHistory' /\ PublishedWithSchedule'
    BY <1>3 DEF YearInv, LinearHistory, PublishedWithSchedule, HasSchedule
  <1>16. RowsFollowSequence'
    <2>1. \A r \in RevisionId : r > new => r > lastRevision /\ r # new
      BY DEF YearInv, TypeOK
    <2>2. \A r \in RevisionId : r > new => revisions'[r].status = "ABSENT"
      BY <1>6, <2>1 DEF YearInv, RowsFollowSequence
    <2>3. \A r \in Live' : revisions'[r].content \in Problem
      BY <1>1, <1>6, <1>7 DEF YearInv, RowsFollowSequence, Live
    <2> QED BY <1>3, <2>2, <2>3 DEF RowsFollowSequence
  <1>17. PublishedHasHighestNumber'
    BY <1>1, <1>3, <1>7, <1>10, <1>11, <1>12 DEF PublishedHasHighestNumber
  <1> QED BY <1>5, <1>8, <1>9, <1>13, <1>14, <1>15, <1>16, <1>17 DEF YearInv

LEMMA DiscardDraftKeepsYearInv == ASSUME YearInv, DiscardDraft PROVE YearInv'
  <1> USE BoundAssumption DEF RevisionId, NULL
  <1>1. /\ draft # NULL /\ published # NULL /\ draft' = NULL
        /\ draft \in RevisionId /\ published \in RevisionId /\ draft # published
        /\ UNCHANGED <<lastRevision, published, versions, active>>
    BY DEF YearInv, TypeOK, OneDraftAtMost, DiscardDraft, history
  <1>2. \A r \in RevisionId :
            revisions'[r] = IF r = draft THEN AbsentRevision ELSE revisions[r]
    BY DEF YearInv, TypeOK, DiscardDraft
  <1>3. Unseen \in Snapshot
    BY DEF Unseen, Snapshot
  <1>4. TypeOK'
    BY <1>1, <1>3 DEF YearInv, TypeOK, DiscardDraft, Revision, AbsentRevision
  <1>5. Live' = Live \ {draft}
    BY <1>2 DEF Live, AbsentRevision
  <1>6. OneDraftAtMost'
    BY <1>1, <1>2 DEF YearInv, OneDraftAtMost, AbsentRevision
  <1>7. SingleRevisionBeforeSchedule' /\ PublishedWithSchedule' /\ LinearHistory'
    BY <1>1 DEF YearInv, PublishedWithSchedule, SingleRevisionBeforeSchedule, LinearHistory, HasSchedule
  <1>8. RevisionNumbersIdentify'
    BY <1>2, <1>5 DEF YearInv, RevisionNumbersIdentify, Live
  <1>9. VersionsOnPublishedRevisions'
    <2>1. revisions[draft].status # "PUBLISHED"
      BY <1>1 DEF YearInv, OneDraftAtMost
    <2> QED BY <1>1, <1>2, <1>4, <2>1, VersionsKept DEF YearInv
  <1>10. RowsFollowSequence'
    BY <1>1, <1>2, <1>5 DEF YearInv, RowsFollowSequence, Live, AbsentRevision
  <1>11. PublishedHasHighestNumber'
    BY <1>1, <1>2, <1>5 DEF YearInv, PublishedHasHighestNumber, Live
  <1> QED BY <1>4, <1>6, <1>7, <1>8, <1>9, <1>10, <1>11 DEF YearInv

LEMMA WriteConfigurationKeepsYearInv ==
    ASSUME YearInv, NEW part \in Part, NEW value \in Value, WriteConfiguration(part, value)
    PROVE  YearInv'
  <1> DEFINE row == [revisions[draft] EXCEPT !.content[part] = value]
  <1> USE BoundAssumption DEF RevisionId, NULL
  <1>1. /\ draft # NULL /\ draft \in RevisionId /\ draft \in Live
        /\ UNCHANGED <<lastRevision, draft, published, versions, active>>
    BY DEF YearInv, TypeOK, OneDraftAtMost, WriteConfiguration, history, Live
  <1>2. \A r \in RevisionId : revisions'[r] = IF r = draft THEN row ELSE revisions[r]
    BY <1>1 DEF YearInv, TypeOK, WriteConfiguration
  <1>3. /\ revisions[draft] \in Revision
        /\ revisions[draft].content \in Problem
    BY <1>1 DEF YearInv, TypeOK, RowsFollowSequence
  <1>4. row.content \in Problem /\ row.number = revisions[draft].number
        /\ row.status = revisions[draft].status
    BY <1>3 DEF Problem, Revision
  <1>5. row \in Revision
    BY <1>3 DEF Revision, Problem, Snapshot
  <1>6. TypeOK'
    BY <1>1, <1>5 DEF YearInv, TypeOK, WriteConfiguration
  <1>7. /\ \A r \in RevisionId : /\ revisions'[r].status = revisions[r].status
                                /\ revisions'[r].number = revisions[r].number
        /\ Live' = Live
    BY <1>2, <1>4 DEF Live
  <1>8. OneDraftAtMost'
    BY <1>1, <1>7 DEF YearInv, OneDraftAtMost, TypeOK
  <1>9. /\ SingleRevisionBeforeSchedule' /\ PublishedWithSchedule' /\ LinearHistory'
    BY <1>1, <1>7 DEF YearInv, SingleRevisionBeforeSchedule, PublishedWithSchedule,
                      LinearHistory, HasSchedule, CurrentRevision
  <1>10. RevisionNumbersIdentify'
    BY <1>7 DEF YearInv, RevisionNumbersIdentify, Live
  <1>11. VersionsOnPublishedRevisions'
    BY <1>1, <1>6, <1>7, VersionsKept DEF YearInv
  <1>12. RowsFollowSequence'
    BY <1>1, <1>2, <1>4, <1>7 DEF YearInv, RowsFollowSequence, Live
  <1>13. PublishedHasHighestNumber'
    BY <1>1, <1>7 DEF YearInv, TypeOK, PublishedHasHighestNumber, Live
  <1> QED BY <1>6, <1>8, <1>9, <1>10, <1>11, <1>12, <1>13 DEF YearInv

LEMMA WriteAcrossRevisionsKeepsYearInv ==
    ASSUME YearInv, NEW part \in Part, NEW values \in [RevisionId -> Value],
           WriteAcrossRevisions(part, values)
    PROVE  YearInv'
  <1> DEFINE row(r) == [revisions[r] EXCEPT !.content[part] = values[r]]
  <1> USE BoundAssumption DEF RevisionId, NULL
  <1>1. UNCHANGED <<lastRevision, draft, published, versions, active>>
    BY DEF WriteAcrossRevisions, history
  <1>2. \A r \in RevisionId : revisions'[r] = IF r \in Live THEN row(r) ELSE revisions[r]
    BY DEF WriteAcrossRevisions
  <1>3. \A r \in Live : revisions[r] \in Revision /\ revisions[r].content \in Problem
    BY DEF YearInv, TypeOK, RowsFollowSequence, Live
  <1>4. \A r \in Live : /\ row(r).content \in Problem
                        /\ row(r).number = revisions[r].number
                        /\ row(r).status = revisions[r].status
    BY <1>3 DEF Problem, Revision, Live
  <1>5. \A r \in Live : row(r) \in Revision
    BY <1>3 DEF Revision, Problem, Snapshot, Live
  <1>6. TypeOK'
    BY <1>1, <1>5 DEF YearInv, TypeOK, WriteAcrossRevisions
  <1>7. /\ \A r \in RevisionId : /\ revisions'[r].status = revisions[r].status
                                /\ revisions'[r].number = revisions[r].number
        /\ Live' = Live
    BY <1>2, <1>4 DEF Live
  <1>8. OneDraftAtMost'
    BY <1>1, <1>7 DEF YearInv, OneDraftAtMost, TypeOK
  <1>9. /\ SingleRevisionBeforeSchedule' /\ PublishedWithSchedule' /\ LinearHistory'
    BY <1>1, <1>7 DEF YearInv, SingleRevisionBeforeSchedule, PublishedWithSchedule,
                      LinearHistory, HasSchedule, CurrentRevision
  <1>10. RevisionNumbersIdentify'
    BY <1>7 DEF YearInv, RevisionNumbersIdentify, Live
  <1>11. VersionsOnPublishedRevisions'
    BY <1>1, <1>6, <1>7, VersionsKept DEF YearInv
  <1>12. RowsFollowSequence'
    BY <1>1, <1>2, <1>4, <1>7 DEF YearInv, RowsFollowSequence, Live
  <1>13. PublishedHasHighestNumber'
    BY <1>1, <1>7 DEF YearInv, TypeOK, PublishedHasHighestNumber, Live
  <1> QED BY <1>6, <1>8, <1>9, <1>10, <1>11, <1>12, <1>13 DEF YearInv

-----------------------------------------------------------------------------
(* Appending a version. *)

\* The new row is the newest, the active one, and one more than its parent.
LEMMA AppendedVersion ==
    ASSUME YearInv, NEW revision \in RevisionId, NEW timetable \in Timetable,
           NEW locks \in SUBSET Placement,
           AppendVersion(active, revision, timetable, locks)
    PROVE  /\ versions' \in Seq(Version)
           /\ Len(versions') = Len(versions) + 1
           /\ active' = Len(versions) + 1
           /\ \A v \in 1..Len(versions) : versions'[v] = versions[v]
           /\ versions'[Len(versions) + 1] =
                [number |-> Len(versions) + 1, parent |-> Len(versions), revision |-> revision,
                 timetable |-> timetable, locks |-> locks]
  <1> DEFINE row == [number |-> Len(versions) + 1, parent |-> Len(versions), revision |-> revision,
                     timetable |-> timetable, locks |-> locks]
  <1>1. versions \in Seq(Version) /\ active = Len(versions) /\ Len(versions) \in Nat
    BY DEF YearInv, TypeOK, LinearHistory
  <1>2. (IF versions = <<>> THEN 1 ELSE NextVersionNumber) = Len(versions) + 1
    BY <1>1, NextVersionNumberIs
  <1>3. versions' = Append(versions, row) /\ active' = Len(versions) + 1
    BY <1>1, <1>2 DEF AppendVersion
  <1>4. row \in Version
    BY <1>1 DEF Version
  <1> QED BY <1>1, <1>3, <1>4

\* Appending a version on a revision that is published by the end of the step
\* keeps the chain linear and every version on a published revision.
LEMMA AppendKeepsHistory ==
    ASSUME YearInv, TypeOK', NEW revision \in RevisionId, NEW timetable \in Timetable,
           NEW locks \in SUBSET Placement,
           AppendVersion(active, revision, timetable, locks),
           published' = revision,
           revisions'[revision].status = "PUBLISHED",
           \A r \in RevisionId :
                revisions[r].status = "PUBLISHED" => revisions'[r].status = "PUBLISHED"
    PROVE  VersionsOnPublishedRevisions' /\ LinearHistory' /\ PublishedWithSchedule'
  <1> DEFINE n == Len(versions) + 1
  <1>a. /\ Len(versions') = n
        /\ active' = n
        /\ \A v \in 1..Len(versions) : versions'[v] = versions[v]
        /\ versions'[n] = [number |-> n, parent |-> Len(versions), revision |-> revision,
                          timetable |-> timetable, locks |-> locks]
    BY AppendedVersion, Zenon
  <1>b. versions \in Seq(Version) /\ Len(versions) \in Nat
    BY DEF YearInv, TypeOK
  <1>1. n \in Nat \ {0} /\ Len(versions') = n /\ active' = n
    BY <1>a, <1>b
  <1>2. /\ versions'[n].number = n /\ versions'[n].parent = n - 1
        /\ versions'[n].revision = revision
    BY <1>a, <1>b
  <1>3. \A v \in 1..(n - 1) : versions'[v] = versions[v] /\ versions[v].revision \in RevisionId
    BY <1>a, <1>b, VersionsReferToRevisions DEF YearInv
  <1>4. \A v \in 1..n : v \in 1..(n - 1) \/ v = n
    BY <1>1
  <1>5. LinearHistory'
    BY <1>1, <1>2, <1>3, <1>4 DEF YearInv, LinearHistory
  <1>6. \A v \in 1..n : revisions'[versions'[v].revision].status = "PUBLISHED"
    BY <1>2, <1>3, <1>4 DEF YearInv, VersionsOnPublishedRevisions
  <1>7. VersionsOnPublishedRevisions'
    BY <1>1, <1>2, <1>6 DEF VersionsOnPublishedRevisions, HasSchedule, Active
  <1>8. PublishedWithSchedule'
    BY <1>1 DEF PublishedWithSchedule, HasSchedule, NULL, RevisionId
  <1> QED BY <1>5, <1>7, <1>8

\* Publishing the draft: the facts about revisions every publication needs.
LEMMA PublishedDraft ==
    ASSUME YearInv, draft # NULL, PublishDraft
    PROVE  /\ revisions' \in [RevisionId -> Revision]
           /\ \A r \in RevisionId : /\ revisions'[r].number = revisions[r].number
                                  /\ revisions'[r].content = revisions[r].content
                                  /\ revisions'[r].status =
                                        IF r = draft THEN "PUBLISHED" ELSE revisions[r].status
           /\ Live' = Live
           /\ OneDraftAtMost'
           /\ RevisionNumbersIdentify'
           /\ RowsFollowSequence'
           /\ PublishedHasHighestNumber'
  <1> USE BoundAssumption DEF RevisionId, NULL
  <1>1. /\ draft \in RevisionId /\ draft' = NULL /\ published' = draft /\ lastRevision' = lastRevision
        /\ revisions[draft].status = "DRAFT" /\ draft \in Live
    BY DEF YearInv, TypeOK, OneDraftAtMost, PublishDraft, Live
  <1>2. /\ revisions' \in [RevisionId -> Revision]
        /\ \A r \in RevisionId : /\ revisions'[r].number = revisions[r].number
                               /\ revisions'[r].content = revisions[r].content
                               /\ revisions'[r].status =
                                     IF r = draft THEN "PUBLISHED" ELSE revisions[r].status
    BY <1>1 DEF YearInv, TypeOK, Revision, PublishDraft
  <1>3. Live' = Live
    BY <1>1, <1>2 DEF Live
  <1>4. OneDraftAtMost'
    BY <1>1, <1>2 DEF YearInv, OneDraftAtMost
  <1>5. RevisionNumbersIdentify'
    BY <1>2, <1>3 DEF YearInv, RevisionNumbersIdentify, Live
  <1>6. RowsFollowSequence'
    BY <1>1, <1>2, <1>3 DEF YearInv, RowsFollowSequence, Live
  <1>7. \A r \in Live : revisions[r].number <= revisions[draft].number
    <2>1. CASE published = NULL
      <3>1. Live = {draft}
        BY <1>1, <2>1 DEF YearInv, PublishedWithSchedule, SingleRevisionBeforeSchedule, CurrentRevision
      <3> QED BY <3>1, <1>1 DEF YearInv, TypeOK, Revision
    <2>2. CASE published # NULL
      <3>1. \A r \in Live : revisions[r].number \in Nat
        BY DEF YearInv, TypeOK, Live, Revision
      <3>2. published \in Live
        BY <2>2 DEF YearInv, TypeOK, OneDraftAtMost, Live
      <3> QED BY <1>1, <2>2, <3>1, <3>2 DEF YearInv, PublishedHasHighestNumber
    <2> QED BY <2>1, <2>2
  <1>8. PublishedHasHighestNumber'
    <2>1. \A r \in Live' : revisions'[r].number <= revisions'[published'].number
      BY <1>1, <1>2, <1>3, <1>7 DEF Live
    <2> QED BY <1>1, <2>1 DEF PublishedHasHighestNumber
  <1> QED BY <1>2, <1>3, <1>4, <1>5, <1>6, <1>8

\* A version appended for the draft, in the step that publishes the draft.
LEMMA PublishingKeepsYearInv ==
    ASSUME YearInv, draft # NULL, PublishDraft, NEW timetable \in Timetable,
           NEW locks \in SUBSET Placement, AppendVersion(active, draft, timetable, locks)
    PROVE  YearInv'
  <1> USE BoundAssumption DEF RevisionId, NULL
  <1>1. /\ draft \in RevisionId
        /\ draft' = NULL /\ published' = draft /\ lastRevision' = lastRevision
        /\ lastRevision \in RevisionId /\ Len(versions) \in Nat
    BY DEF YearInv, TypeOK, PublishDraft
  <1>2. /\ versions' \in Seq(Version)
        /\ active' = Len(versions) + 1
    BY <1>1, AppendedVersion, Zenon
  <1>3. TypeOK'
    BY <1>1, <1>2, PublishedDraft DEF TypeOK
  <1>4. \A r \in RevisionId :
            revisions[r].status = "PUBLISHED" => revisions'[r].status = "PUBLISHED"
    BY PublishedDraft
  <1>5. revisions'[draft].status = "PUBLISHED"
    BY <1>1, PublishedDraft
  <1>6. VersionsOnPublishedRevisions' /\ LinearHistory' /\ PublishedWithSchedule'
    BY <1>1, <1>3, <1>4, <1>5, AppendKeepsHistory, Zenon
  <1>7. SingleRevisionBeforeSchedule'
    BY <1>1, <1>2 DEF SingleRevisionBeforeSchedule, HasSchedule
  <1> QED BY <1>3, <1>6, <1>7, PublishedDraft DEF YearInv

LEMMA PersistInitialKeepsYearInv ==
    ASSUME YearInv, NEW problem \in Snapshot, NEW timetable \in Timetable,
           PersistInitialVersion(problem, timetable)
    PROVE  YearInv'
  <1>1. /\ ~HasSchedule
        /\ AppendVersion(NULL, CurrentRevision, timetable, {})
        /\ IF draft # NULL THEN PublishDraft ELSE UNCHANGED configuration
    BY DEF PersistInitialVersion, InitialAccepted
  <1>2. published = NULL /\ draft # NULL /\ active = NULL /\ CurrentRevision = draft
    BY <1>1 DEF YearInv, PublishedWithSchedule, OneDraftAtMost, HasSchedule, CurrentRevision
  <1>3. AppendVersion(active, draft, timetable, {}) /\ PublishDraft
    BY <1>1, <1>2
  <1> QED BY <1>2, <1>3, PublishingKeepsYearInv

LEMMA PersistRegeneratedKeepsYearInv ==
    ASSUME YearInv, NEW base, NEW expected, NEW problem, NEW timetable \in Timetable,
           NEW locks \in SUBSET Placement, NEW confirmed,
           PersistRegeneratedVersion(base, expected, problem, timetable, locks, confirmed)
    PROVE  YearInv'
  <1>1. /\ draft # NULL
        /\ AppendVersion(active, draft, timetable, locks)
        /\ PublishDraft
    BY DEF PersistRegeneratedVersion, RegenerationAccepted
  <1> QED BY <1>1, PublishingKeepsYearInv

LEMMA PersistEditedKeepsYearInv ==
    ASSUME YearInv, NEW base, NEW timetable \in Timetable, NEW locks \in SUBSET Placement,
           PersistEditedVersion(base, timetable, locks)
    PROVE  YearInv'
  <1> USE BoundAssumption DEF RevisionId, NULL
  <1>1. /\ HasSchedule
        /\ AppendVersion(active, Active.revision, timetable, locks)
        /\ UNCHANGED <<revisions, lastRevision, draft, published>>
    BY DEF PersistEditedVersion, EditAccepted, configuration
  <1>2. /\ Active.revision = published
        /\ published \in RevisionId
        /\ revisions[published].status = "PUBLISHED"
    BY <1>1 DEF YearInv, TypeOK, VersionsOnPublishedRevisions, PublishedWithSchedule, OneDraftAtMost
  <1>3. AppendVersion(active, published, timetable, locks)
    BY <1>1, <1>2
  <1>4. /\ versions' \in Seq(Version)
        /\ active' = Len(versions) + 1
    BY <1>2, <1>3, AppendedVersion, Zenon
  <1>5. TypeOK'
    BY <1>1, <1>4 DEF YearInv, TypeOK
  <1>6. VersionsOnPublishedRevisions' /\ LinearHistory' /\ PublishedWithSchedule'
    <2>1. published' = published /\ revisions'[published].status = "PUBLISHED"
      BY <1>1, <1>2
    <2>2. \A r \in RevisionId :
            revisions[r].status = "PUBLISHED" => revisions'[r].status = "PUBLISHED"
      BY <1>1
    <2> QED BY <1>2, <1>3, <1>5, <2>1, <2>2, AppendKeepsHistory, Zenon
  <1>7. Live' = Live
    BY <1>1 DEF Live
  <1>8. OneDraftAtMost' /\ RevisionNumbersIdentify' /\ RowsFollowSequence'
        /\ PublishedHasHighestNumber'
    BY <1>1, <1>7 DEF YearInv, OneDraftAtMost, RevisionNumbersIdentify, RowsFollowSequence,
                      PublishedHasHighestNumber
  <1>9. SingleRevisionBeforeSchedule'
    BY <1>4 DEF YearInv, TypeOK, SingleRevisionBeforeSchedule, HasSchedule
  <1> QED BY <1>5, <1>6, <1>8, <1>9 DEF YearInv

-----------------------------------------------------------------------------
LEMMA StutteringKeepsYearInv == ASSUME YearInv, UNCHANGED year PROVE YearInv'
  <1>1. UNCHANGED <<revisions, lastRevision, draft, published, versions, active>>
    BY DEF year, configuration, history
  <1>2. Live' = Live
    BY <1>1 DEF Live
  <1>3. TypeOK' /\ OneDraftAtMost' /\ LinearHistory'
    BY <1>1 DEF YearInv, TypeOK, OneDraftAtMost, LinearHistory
  <1>4. VersionsOnPublishedRevisions'
    BY <1>1, <1>3, VersionsKept DEF YearInv
  <1>5. SingleRevisionBeforeSchedule' /\ PublishedWithSchedule'
    BY <1>1, <1>2 DEF YearInv, SingleRevisionBeforeSchedule, PublishedWithSchedule, HasSchedule,
                      CurrentRevision
  <1>6. RevisionNumbersIdentify' /\ RowsFollowSequence' /\ PublishedHasHighestNumber'
    BY <1>1, <1>2 DEF YearInv, RevisionNumbersIdentify, RowsFollowSequence, PublishedHasHighestNumber
  <1> QED BY <1>3, <1>4, <1>5, <1>6 DEF YearInv

\* Every transaction keeps the invariant, whatever its caller supplies.
LEMMA StepKeepsYearInv == ASSUME YearInv, [Next]_year PROVE YearInv'
  <1>1. CASE BeginDraft
    BY <1>1, BeginDraftKeepsYearInv
  <1>2. CASE DiscardDraft
    BY <1>2, DiscardDraftKeepsYearInv
  <1>3. CASE \E part \in Part, value \in Value : WriteConfiguration(part, value)
    BY <1>3, WriteConfigurationKeepsYearInv
  <1>8. CASE \E part \in Part, values \in [RevisionId -> Value] : WriteAcrossRevisions(part, values)
    BY <1>8, WriteAcrossRevisionsKeepsYearInv
  <1>4. CASE \E problem \in Snapshot, t \in Timetable : PersistInitialVersion(problem, t)
    BY <1>4, PersistInitialKeepsYearInv
  <1>5. CASE \E base \in 1..MaxVersions, t \in Timetable, locks \in SUBSET Placement :
                PersistEditedVersion(base, t, locks)
    BY <1>5, PersistEditedKeepsYearInv
  <1>6. CASE \E base \in 1..MaxVersions, expected \in RevisionId, problem \in Snapshot,
               t \in Timetable, locks, confirmed \in SUBSET Placement :
                PersistRegeneratedVersion(base, expected, problem, t, locks, confirmed)
    BY <1>6, PersistRegeneratedKeepsYearInv
  <1>7. CASE UNCHANGED year
    BY <1>7, StutteringKeepsYearInv
  <1> QED BY <1>1, <1>2, <1>3, <1>4, <1>5, <1>6, <1>7, <1>8 DEF Next

(***************************************************************************)
(* The inductive invariant holds in every reachable state.                 *)
(***************************************************************************)
THEOREM YearInvariant == Spec => []YearInv
  <1>1. YearInv /\ [Next]_year => YearInv'
    BY StepKeepsYearInv
  <1> QED BY <1>1, InitEstablishesYearInv, MigrationEstablishesYearInv, PTL DEF Spec

(***************************************************************************)
(* The rows of one year stay well formed.                                  *)
(***************************************************************************)
THEOREM TypeCorrect == Spec => []TypeOK
  <1>1. YearInv => TypeOK
    BY DEF YearInv
  <1> QED BY <1>1, YearInvariant, PTL

(***************************************************************************)
(* A year has at most one open draft and always a configuration to show.   *)
(***************************************************************************)
THEOREM DraftDiscipline == Spec => []OneDraftAtMost
  <1>1. YearInv => OneDraftAtMost
    BY DEF YearInv
  <1> QED BY <1>1, YearInvariant, PTL

(***************************************************************************)
(* persist_initial_version, which maps natural ids to rows without naming  *)
(* a revision, never meets a second revision.                              *)
(***************************************************************************)
THEOREM InitialMapIsUnambiguous == Spec => []SingleRevisionBeforeSchedule
  <1>1. YearInv => SingleRevisionBeforeSchedule
    BY DEF YearInv
  <1> QED BY <1>1, YearInvariant, PTL

(***************************************************************************)
(* A revision number names one revision, discards notwithstanding.         *)
(***************************************************************************)
THEOREM NumbersIdentifyRevisions == Spec => []RevisionNumbersIdentify
  <1>1. YearInv => RevisionNumbersIdentify
    BY DEF YearInv
  <1> QED BY <1>1, YearInvariant, PTL

(***************************************************************************)
(* Every version ever made refers to a published revision, and the active  *)
(* one to the revision in force.                                           *)
(***************************************************************************)
THEOREM HistoryIsBacked == Spec => []VersionsOnPublishedRevisions
  <1>1. YearInv => VersionsOnPublishedRevisions
    BY DEF YearInv
  <1> QED BY <1>1, YearInvariant, PTL

(***************************************************************************)
(* The versions form one chain that ends in the active one.                *)
(***************************************************************************)
THEOREM HistoryIsLinear == Spec => []LinearHistory
  <1>1. YearInv => LinearHistory
    BY DEF YearInv
  <1> QED BY <1>1, YearInvariant, PTL

\* No transaction touches a published row outside the shared tables: they all
\* write the draft's row, or a row the key sequence has not given out.
LEMMA StepKeepsPublished ==
    ASSUME YearInv, [Next]_year
    PROVE  \A r \in RevisionId : revisions[r].status = "PUBLISHED" => KeptOutsideShared(r)
  <1> SUFFICES ASSUME NEW r \in RevisionId, revisions[r].status = "PUBLISHED"
               PROVE  KeptOutsideShared(r)
    OBVIOUS
  <1>0. ASSUME revisions'[r] = revisions[r] PROVE KeptOutsideShared(r)
    BY <1>0 DEF KeptOutsideShared
  <1>1. /\ revisions \in [RevisionId -> Revision]
        /\ r # lastRevision + 1
        /\ draft # NULL => r # draft
    BY DEF YearInv, TypeOK, OneDraftAtMost, RowsFollowSequence, RevisionId
  <1>2. CASE BeginDraft
    BY <1>0, <1>1, <1>2 DEF BeginDraft
  <1>3. CASE DiscardDraft
    BY <1>0, <1>1, <1>3 DEF DiscardDraft
  <1>4. CASE \E part \in Part, value \in Value : WriteConfiguration(part, value)
    BY <1>0, <1>1, <1>4 DEF WriteConfiguration
  <1>11. CASE \E part \in Part, values \in [RevisionId -> Value] : WriteAcrossRevisions(part, values)
    <2>1. PICK part \in Part, values \in [RevisionId -> Value] : WriteAcrossRevisions(part, values)
      BY <1>11
    <2>2. revisions'[r] = [revisions[r] EXCEPT !.content[part] = values[r]]
      BY <2>1 DEF WriteAcrossRevisions, Live
    <2>3. revisions[r] \in Revision /\ revisions[r].content \in Snapshot
      BY <1>1 DEF Revision
    <2>4. /\ revisions'[r].status = revisions[r].status
          /\ revisions'[r].number = revisions[r].number
          /\ \A p \in Part \ {part} : revisions'[r].content[p] = revisions[r].content[p]
      BY <2>2, <2>3 DEF Revision, Snapshot
    <2>5. part \in Shared
      BY <2>1 DEF WriteAcrossRevisions
    <2> QED BY <2>4, <2>5 DEF KeptOutsideShared
  <1>5. CASE PublishDraft /\ draft # NULL
    BY <1>0, <1>1, <1>5 DEF PublishDraft
  <1>6. CASE revisions' = revisions
    BY <1>0, <1>6
  <1>7. CASE \E problem \in Snapshot, t \in Timetable : PersistInitialVersion(problem, t)
    BY <1>5, <1>6, <1>7 DEF PersistInitialVersion, configuration
  <1>8. CASE \E base \in 1..MaxVersions, t \in Timetable, locks \in SUBSET Placement :
                PersistEditedVersion(base, t, locks)
    BY <1>6, <1>8 DEF PersistEditedVersion, configuration
  <1>9. CASE \E base \in 1..MaxVersions, expected \in RevisionId, problem \in Snapshot,
               t \in Timetable, locks, confirmed \in SUBSET Placement :
                PersistRegeneratedVersion(base, expected, problem, t, locks, confirmed)
    BY <1>5, <1>9 DEF PersistRegeneratedVersion, RegenerationAccepted
  <1>10. CASE UNCHANGED year
    BY <1>6, <1>10 DEF year, configuration
  <1> QED BY <1>2, <1>3, <1>4, <1>7, <1>8, <1>9, <1>10, <1>11 DEF Next

(***************************************************************************)
(* A published revision is immutable outside the shared tables, against    *)
(* any sequence of legal calls.                                            *)
(***************************************************************************)
THEOREM PublishedIsImmutable == Spec => PublishedRevisionsImmutable
  <1>1. YearInv /\ [Next]_year =>
            [\A r \in RevisionId :
                revisions[r].status = "PUBLISHED" => KeptOutsideShared(r)]_year
    BY StepKeepsPublished
  <1> QED BY <1>1, YearInvariant, PTL DEF Spec, PublishedRevisionsImmutable
=============================================================================
