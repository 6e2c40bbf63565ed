----------------------- MODULE SchoolProvisioningProofs -----------------------
(***************************************************************************)
(* Provisioning and the use of the year it creates, for any number of      *)
(* concurrent requests.                                                    *)
(***************************************************************************)
EXTENDS SchoolProvisioning, AcademicYearProofs, FiniteSetTheorems

\* Until there is a timetable the year is as it was created, but for edits.
FirstDraft == ~HasSchedule => draft = 1 /\ revisions[1].number = 1

(***************************************************************************)
(* Where the requests are: only the one that inserted the school commits,  *)
(* nobody inserts beside a committed school, and what a request has        *)
(* compared when it comes to the revision stays equal.                     *)
(***************************************************************************)
RequestsInPlace ==
    /\ ~Exists => ~HasSchedule
    /\ inserter # Nothing => ~Exists
    /\ \A c \in Client :
          /\ stage[c] # "idle" => command[c] \in Command
          /\ stage[c] = "commit" => inserter = c
          /\ stage[c] \in {"reload", "year", "revision", "count", "schedule", "used"} => Exists
          /\ stage[c] = "year" => school.name = command[c].name
          /\ stage[c] \in {"revision", "count", "schedule", "used"} => school = command[c]
          /\ stage[c] = "used" => HasSchedule

Stage == {"idle", "school", "reload", "year", "revision", "count", "schedule", "used", "insert", "commit"}

ProvisioningInv ==
    /\ YearInv
    /\ FirstDraft
    /\ stage \in [Client -> Stage]
    /\ command \in [Client -> Command \cup {Nothing}]
    /\ school \in Command \cup {Nothing}
    /\ RequestsInPlace
    /\ ProvisionedIsFresh
    /\ ConflictsAreReal

----------------------------------------------------------------------------
\* What the reads of a replay ask for is the same as that no timetable exists.
LEMMA FreshIsUnused ==
    ASSUME YearInv, FirstDraft
    PROVE  /\ Fresh <=> ~HasSchedule
           /\ ~HasSchedule => /\ draft = 1 /\ published = NULL /\ Live = {1}
                              /\ revisions[1].number = 1 /\ revisions[1].status = "DRAFT"
  <1>1. ASSUME ~HasSchedule
        PROVE  /\ draft = 1 /\ published = NULL /\ Live = {1}
               /\ revisions[1].number = 1 /\ revisions[1].status = "DRAFT"
    <2>1. draft = 1 /\ revisions[1].number = 1 /\ published = NULL
      BY <1>1 DEF FirstDraft, YearInv, PublishedWithSchedule
    <2>2. Live = {1}
      BY <1>1, <2>1 DEF YearInv, SingleRevisionBeforeSchedule, CurrentRevision, NULL
    <2>3. revisions[1].status = "DRAFT"
      BY <2>1 DEF YearInv, OneDraftAtMost, NULL
    <2> QED BY <2>1, <2>2, <2>3
  <1> QED BY <1>1 DEF Fresh

\* A timetable stays, and until there is one no draft is begun or discarded.
LEMMA StepKeepsFirstDraft ==
    ASSUME YearInv, FirstDraft, Next
    PROVE  FirstDraft' /\ (HasSchedule => HasSchedule')
  <1> USE DEF NULL
  <1>1. CASE BeginDraft \/ DiscardDraft
    <2>1. HasSchedule /\ active' = active
      BY <1>1 DEF BeginDraft, DiscardDraft, YearInv, PublishedWithSchedule, history
    <2> QED BY <2>1 DEF FirstDraft, HasSchedule
  <1>2. CASE \E part \in Part, value \in Value : WriteConfiguration(part, value)
    <2>1. PICK part \in Part, value \in Value : WriteConfiguration(part, value)
      BY <1>2
    <2>2. draft' = draft /\ active' = active
      BY <2>1 DEF WriteConfiguration, history
    <2>3. revisions \in [RevisionId -> Revision]
      BY DEF YearInv, TypeOK
    <2>4. 1 \in RevisionId
      BY BoundAssumption DEF RevisionId
    <2>5. revisions'[1].number = revisions[1].number
      BY <2>1, <2>3, <2>4 DEF WriteConfiguration, Revision
    <2> QED BY <2>2, <2>5 DEF FirstDraft, HasSchedule
  <1>3. CASE \E part \in Part, values \in [RevisionId -> Value] : WriteAcrossRevisions(part, values)
    <2>1. PICK part \in Part, values \in [RevisionId -> Value] : WriteAcrossRevisions(part, values)
      BY <1>3
    <2>2. draft' = draft /\ active' = active
      BY <2>1 DEF WriteAcrossRevisions, history
    <2>3. revisions \in [RevisionId -> Revision]
      BY DEF YearInv, TypeOK
    <2>4. 1 \in RevisionId
      BY BoundAssumption DEF RevisionId
    <2>5. revisions'[1].number = revisions[1].number
      BY <2>1, <2>3, <2>4 DEF WriteAcrossRevisions, Revision
    <2> QED BY <2>2, <2>5 DEF FirstDraft, HasSchedule
  <1>4. ASSUME NEW parent, NEW revision, NEW t, NEW locks, AppendVersion(parent, revision, t, locks)
        PROVE  HasSchedule'
    <2>1. Len(versions) \in Nat
      BY DEF YearInv, TypeOK
    <2> QED BY <1>4, <2>1 DEF AppendVersion, HasSchedule
  <1>5. CASE \E problem \in Snapshot, t \in Timetable : PersistInitialVersion(problem, t)
    BY <1>4, <1>5 DEF PersistInitialVersion, FirstDraft
  <1>6. CASE \E base \in 1..MaxVersions, t \in Timetable, locks \in SUBSET Placement :
                PersistEditedVersion(base, t, locks)
    BY <1>4, <1>6 DEF PersistEditedVersion, FirstDraft
  <1>7. CASE \E base \in 1..MaxVersions, expected \in RevisionId, problem \in Snapshot,
               t \in Timetable, locks, confirmed \in SUBSET Placement :
                PersistRegeneratedVersion(base, expected, problem, t, locks, confirmed)
    BY <1>4, <1>7 DEF PersistRegeneratedVersion, FirstDraft
  <1> QED BY <1>1, <1>2, <1>3, <1>5, <1>6, <1>7 DEF Next

LEMMA InitEstablishesProvisioningInv == ProvisioningInit => ProvisioningInv
  <1> SUFFICES ASSUME ProvisioningInit PROVE ProvisioningInv
    OBVIOUS
  <1> USE DEF ProvisioningInit
  <1>1. YearInv
    BY InitEstablishesYearInv, MigrationEstablishesYearInv
  <1>2. FirstDraft
    BY BoundAssumption DEF Init, MigratedInit, FirstDraft, HasSchedule, NULL, RevisionId
  <1>3. ~Exists => ~HasSchedule
    BY ProvisioningAssumption DEF Init, Exists, HasSchedule
  <1>5. RequestsInPlace
    BY <1>3 DEF RequestsInPlace, Exists
  <1>4. ProvisionedIsFresh /\ ConflictsAreReal
    BY DEF ProvisionedIsFresh, ConflictsAreReal
  <1>6. school \in Command \cup {Nothing}
    BY ProvisioningAssumption
  <1> QED BY <1>1, <1>2, <1>4, <1>5, <1>6 DEF ProvisioningInv, Stage

\* The year's part of the invariant, when a step leaves the year alone.
LEMMA YearKept ==
    ASSUME YearInv, FirstDraft, UNCHANGED year
    PROVE  YearInv' /\ FirstDraft' /\ HasSchedule' = HasSchedule /\ Fresh' = Fresh
  <1>1. YearInv'
    BY StutteringKeepsYearInv
  <1>2. UNCHANGED <<revisions, draft, published, active>>
    BY DEF year, configuration, history
  <1> QED BY <1>1, <1>2 DEF FirstDraft, HasSchedule, Fresh, Live

\* One client moves on, with the year and the school as they are.
LEMMA ClientKeepsProvisioningInv ==
    ASSUME ProvisioningInv, NEW c \in Client, NEW next \in Stage, NEW asked \in Command \cup {Nothing},
           UNCHANGED <<year, school>>,
           stage' = [stage EXCEPT ![c] = next],
           command' = [command EXCEPT ![c] = asked],
           inserter' # Nothing => ~Exists,
           \A d \in Client \ {c} : stage[d] = "commit" => inserter' = d,
           next # "idle" => asked \in Command,
           next = "commit" => inserter' = c,
           next \in {"reload", "year", "revision", "count", "schedule", "used"} => Exists,
           next = "year" => school.name = asked.name,
           next \in {"revision", "count", "schedule", "used"} => school = asked,
           next = "used" => HasSchedule,
           ProvisionedIsFresh', ConflictsAreReal'
    PROVE  ProvisioningInv'
  <1>1. YearInv' /\ FirstDraft' /\ HasSchedule' = HasSchedule
    BY YearKept DEF ProvisioningInv
  <1>2. Exists' = Exists
    BY DEF Exists
  <1>3. /\ stage' \in [Client -> Stage]
        /\ command' \in [Client -> Command \cup {Nothing}]
        /\ school' \in Command \cup {Nothing}
    BY DEF ProvisioningInv
  <1>4. \A d \in Client : stage'[d] = (IF d = c THEN next ELSE stage[d])
    BY DEF ProvisioningInv
  <1>5. \A d \in Client : command'[d] = (IF d = c THEN asked ELSE command[d])
    BY DEF ProvisioningInv
  <1>6. RequestsInPlace
    BY DEF ProvisioningInv
  <1>7. RequestsInPlace'
    <2>1. (~Exists => ~HasSchedule)' /\ (inserter # Nothing => ~Exists)'
      BY <1>1, <1>2, <1>6 DEF RequestsInPlace
    <2>2. ASSUME NEW d \in Client
          PROVE  /\ stage'[d] # "idle" => command'[d] \in Command
                 /\ stage'[d] = "commit" => inserter' = d
                 /\ stage'[d] \in {"reload", "year", "revision", "count", "schedule", "used"} => Exists'
                 /\ stage'[d] = "year" => school'.name = command'[d].name
                 /\ stage'[d] \in {"revision", "count", "schedule", "used"} => school' = command'[d]
                 /\ stage'[d] = "used" => HasSchedule'
      <3>1. CASE d = c
        BY <1>1, <1>2, <1>4, <1>5, <3>1
      <3>2. CASE d # c
        BY <1>1, <1>2, <1>4, <1>5, <1>6, <3>2 DEF RequestsInPlace
      <3> QED BY <3>1, <3>2
    <2> QED BY <2>1, <2>2 DEF RequestsInPlace
  <1> QED BY <1>1, <1>3, <1>7 DEF ProvisioningInv

\* A step that answers nobody.
LEMMA NoReplyIsTrue == ASSUME NoReply PROVE ProvisionedIsFresh' /\ ConflictsAreReal'
  BY DEF NoReply, ProvisionedIsFresh, ConflictsAreReal

\* A client that is not the inserter goes on to what it has earned.
LEMMA ContinueKeepsProvisioningInv ==
    ASSUME ProvisioningInv, NEW c \in Client, NEW next \in Stage \ {"idle", "commit"}, Continue(c, next),
           UNCHANGED <<year, school, inserter>>,
           stage[c] # "idle",
           next \in {"reload", "year", "revision", "count", "schedule", "used"} => Exists,
           next = "year" => school.name = command[c].name,
           next \in {"revision", "count", "schedule", "used"} => school = command[c],
           next = "used" => HasSchedule
    PROVE  ProvisioningInv'
  <1>1. command[c] \in Command /\ command \in [Client -> Command \cup {Nothing}]
    BY DEF ProvisioningInv, RequestsInPlace
  <1>2. command' = [command EXCEPT ![c] = command[c]]
    BY <1>1 DEF Continue
  <1>3. inserter' # Nothing => ~Exists
    BY DEF ProvisioningInv, RequestsInPlace
  <1>4. \A d \in Client \ {c} : stage[d] = "commit" => inserter' = d
    BY DEF ProvisioningInv, RequestsInPlace
  <1>5. ProvisionedIsFresh' /\ ConflictsAreReal'
    BY NoReplyIsTrue DEF Continue
  <1>6. stage' = [stage EXCEPT ![c] = next]
    BY DEF Continue
  <1> QED BY <1>1, <1>2, <1>3, <1>4, <1>5, <1>6, ClientKeepsProvisioningInv

\* A client that is not the inserter is answered the truth.
LEMMA AnswerKeepsProvisioningInv ==
    ASSUME ProvisioningInv, NEW c \in Client, NEW outcome, Answer(c, outcome),
           UNCHANGED <<year, school, inserter>>,
           outcome # "unresolved",
           outcome = "provisioned" => school = command[c] /\ Fresh,
           outcome = "school conflict" =>
               Exists /\ (school.name # command[c].name \/ school.year # command[c].year),
           outcome = "year conflict" => Exists /\ (school.label # command[c].label \/ ~Fresh)
    PROVE  ProvisioningInv'
  <1>1. Fresh' = Fresh
    BY YearKept DEF ProvisioningInv
  <1>2. Exists' = Exists
    BY DEF Exists
  <1>3. ProvisionedIsFresh' /\ ConflictsAreReal'
    BY <1>1, <1>2 DEF Answer, ProvisionedIsFresh, ConflictsAreReal
  <1>4. inserter' # Nothing => ~Exists
    BY DEF ProvisioningInv, RequestsInPlace
  <1>5. \A d \in Client \ {c} : stage[d] = "commit" => inserter' = d
    BY DEF ProvisioningInv, RequestsInPlace
  <1>6. stage' = [stage EXCEPT ![c] = "idle"] /\ command' = [command EXCEPT ![c] = Nothing]
    BY DEF Answer
  <1> QED BY <1>3, <1>4, <1>5, <1>6, ClientKeepsProvisioningInv DEF Stage

----------------------------------------------------------------------------
(* One lemma per action. *)

LEMMA CallKeepsProvisioningInv ==
    ASSUME ProvisioningInv, NEW c \in Client, NEW asked \in Command, Call(c, asked)
    PROVE  ProvisioningInv'
  <1>1. inserter' # Nothing => ~Exists
    BY DEF Call, ProvisioningInv, RequestsInPlace
  <1>2. \A d \in Client \ {c} : stage[d] = "commit" => inserter' = d
    BY DEF Call, ProvisioningInv, RequestsInPlace
  <1>3. ProvisionedIsFresh' /\ ConflictsAreReal'
    BY NoReplyIsTrue DEF Call
  <1>4. UNCHANGED <<year, school>> /\ stage' = [stage EXCEPT ![c] = "school"]
        /\ command' = [command EXCEPT ![c] = asked]
    BY DEF Call
  <1> QED BY <1>1, <1>2, <1>3, <1>4, ClientKeepsProvisioningInv DEF Stage

LEMMA ReadSchoolKeepsProvisioningInv ==
    ASSUME ProvisioningInv, NEW c \in Client, ReadSchool(c)
    PROVE  ProvisioningInv'
  <1>1. stage[c] = "reload" => Exists
    BY DEF ProvisioningInv, RequestsInPlace
  <1>2. CASE ~Exists
    <2>1. Continue(c, "insert") /\ stage[c] = "school"
      BY <1>1, <1>2 DEF ReadSchool
    <2> QED BY <2>1, ContinueKeepsProvisioningInv DEF ReadSchool, Stage
  <1>3. CASE Exists /\ school.name # command[c].name
    <2>1. Answer(c, "school conflict")
      BY <1>3 DEF ReadSchool
    <2> QED BY <1>3, <2>1, AnswerKeepsProvisioningInv DEF ReadSchool
  <1>4. CASE Exists /\ school.name = command[c].name
    <2>1. Continue(c, "year")
      BY <1>4 DEF ReadSchool
    <2> QED BY <1>4, <2>1, ContinueKeepsProvisioningInv DEF ReadSchool, Stage
  <1> QED BY <1>2, <1>3, <1>4

LEMMA ReadYearKeepsProvisioningInv ==
    ASSUME ProvisioningInv, NEW c \in Client, ReadYear(c)
    PROVE  ProvisioningInv'
  <1>1. stage[c] = "year" /\ Exists /\ school.name = command[c].name
    BY DEF ReadYear, ProvisioningInv, RequestsInPlace
  <1>2. CASE school.year # command[c].year
    <2>1. Answer(c, "school conflict")
      BY <1>2 DEF ReadYear
    <2> QED BY <1>1, <1>2, <2>1, AnswerKeepsProvisioningInv DEF ReadYear
  <1>3. CASE school.year = command[c].year /\ school.label # command[c].label
    <2>1. Answer(c, "year conflict")
      BY <1>3 DEF ReadYear
    <2> QED BY <1>1, <1>3, <2>1, AnswerKeepsProvisioningInv DEF ReadYear
  <1>4. CASE school.year = command[c].year /\ school.label = command[c].label
    <2>1. school \in Command /\ command[c] \in Command
      BY <1>1 DEF ProvisioningInv, RequestsInPlace, Exists
    <2>2. school = command[c]
      BY <1>1, <1>4, <2>1, ProvisioningAssumption
    <2>3. PICK next \in {"revision", "used"} :
             Continue(c, next) /\ (next = "used" => ~(draft = 1 /\ published = NULL))
      BY <1>4 DEF ReadYear
    <2>4. next = "used" => HasSchedule
      BY <2>3, FreshIsUnused DEF ProvisioningInv
    <2> QED BY <1>1, <2>2, <2>3, <2>4, ContinueKeepsProvisioningInv DEF ReadYear, Stage
  <1> QED BY <1>2, <1>3, <1>4

LEMMA ReadRevisionKeepsProvisioningInv ==
    ASSUME ProvisioningInv, NEW c \in Client, ReadRevision(c)
    PROVE  ProvisioningInv'
  <1>1. stage[c] = "revision" /\ Exists /\ school = command[c]
    BY DEF ReadRevision, ProvisioningInv, RequestsInPlace
  <1>2. PICK next \in {"count", "used"} :
           /\ Continue(c, next)
           /\ next = "used" => ~\E r \in Live : r = 1 /\ revisions[r].number = 1 /\ revisions[r].status = "DRAFT"
    BY DEF ReadRevision
  <1>3. next = "used" => HasSchedule
    BY <1>2, FreshIsUnused DEF ProvisioningInv
  <1> QED BY <1>1, <1>2, <1>3, ContinueKeepsProvisioningInv DEF ReadRevision, Stage

LEMMA CountRevisionsKeepsProvisioningInv ==
    ASSUME ProvisioningInv, NEW c \in Client, CountRevisions(c)
    PROVE  ProvisioningInv'
  <1>1. stage[c] = "count" /\ Exists /\ school = command[c]
    BY DEF CountRevisions, ProvisioningInv, RequestsInPlace
  <1>2. PICK next \in {"schedule", "used"} :
           Continue(c, next) /\ (next = "used" => Cardinality(Live) # 1)
    BY DEF CountRevisions
  <1>3. Cardinality({1}) = 1
    BY FS_Singleton
  <1>4. next = "used" => HasSchedule
    BY <1>2, <1>3, FreshIsUnused DEF ProvisioningInv
  <1> QED BY <1>1, <1>2, <1>4, ContinueKeepsProvisioningInv DEF CountRevisions, Stage

LEMMA AnswerReplayKeepsProvisioningInv ==
    ASSUME ProvisioningInv, NEW c \in Client, AnswerReplay(c)
    PROVE  ProvisioningInv'
  <1>1. Exists /\ school = command[c] /\ (stage[c] = "used" => HasSchedule)
    BY DEF AnswerReplay, ProvisioningInv, RequestsInPlace
  <1>2. Fresh <=> ~HasSchedule
    BY FreshIsUnused DEF ProvisioningInv
  <1>3. CASE stage[c] = "schedule" /\ ~HasSchedule
    <2>1. Answer(c, "provisioned")
      BY <1>3 DEF AnswerReplay
    <2> QED BY <1>1, <1>2, <1>3, <2>1, AnswerKeepsProvisioningInv DEF AnswerReplay
  <1>4. CASE ~(stage[c] = "schedule" /\ ~HasSchedule)
    <2>1. Answer(c, "year conflict")
      BY <1>4 DEF AnswerReplay
    <2>2. ~Fresh
      BY <1>1, <1>2, <1>4 DEF AnswerReplay
    <2> QED BY <1>1, <2>1, <2>2, AnswerKeepsProvisioningInv DEF AnswerReplay
  <1> QED BY <1>3, <1>4

LEMMA InsertKeepsProvisioningInv ==
    ASSUME ProvisioningInv, NEW c \in Client, Insert(c)
    PROVE  ProvisioningInv'
  <1>1. stage[c] = "insert" /\ inserter = Nothing /\ UNCHANGED <<year, school>>
    BY DEF Insert
  <1>2. CASE Exists
    <2>1. Continue(c, "reload") /\ UNCHANGED inserter
      BY <1>2 DEF Insert
    <2> QED BY <1>1, <1>2, <2>1, ContinueKeepsProvisioningInv DEF Stage
  <1>3. CASE ~Exists
    <2>1. inserter' = c /\ Continue(c, "commit")
      BY <1>3 DEF Insert
    <2>2. \A d \in Client \ {c} : stage[d] # "commit"
      BY <1>1, ProvisioningAssumption DEF ProvisioningInv, RequestsInPlace
    <2>3. command[c] \in Command /\ command' = [command EXCEPT ![c] = command[c]]
      BY <1>1, <2>1 DEF ProvisioningInv, RequestsInPlace, Continue
    <2>4. ProvisionedIsFresh' /\ ConflictsAreReal'
      BY <2>1, NoReplyIsTrue DEF Continue
    <2>5. stage' = [stage EXCEPT ![c] = "commit"]
      BY <2>1 DEF Continue
    <2> QED BY <1>1, <1>3, <2>1, <2>2, <2>3, <2>4, <2>5, ClientKeepsProvisioningInv DEF Stage
  <1> QED BY <1>2, <1>3

LEMMA AbortKeepsProvisioningInv ==
    ASSUME ProvisioningInv, NEW c \in Client, Abort(c)
    PROVE  ProvisioningInv'
  <1>1. inserter' # Nothing => ~Exists
    BY DEF Abort, ProvisioningInv, RequestsInPlace
  <1>2. \A d \in Client \ {c} : stage[d] = "commit" => inserter' = d
    BY DEF Abort, ProvisioningInv, RequestsInPlace
  <1>3. ProvisionedIsFresh' /\ ConflictsAreReal'
    BY NoReplyIsTrue DEF Abort
  <1>4. UNCHANGED <<year, school>> /\ stage' = [stage EXCEPT ![c] = "idle"]
        /\ command' = [command EXCEPT ![c] = Nothing]
    BY DEF Abort
  <1> QED BY <1>1, <1>2, <1>3, <1>4, ClientKeepsProvisioningInv DEF Stage

\* Nobody else has got beyond the insert, as there was no school to be read.
LEMMA CommitKeepsProvisioningInv ==
    ASSUME ProvisioningInv, NEW c \in Client, Commit(c)
    PROVE  ProvisioningInv'
  <1>1. /\ stage[c] = "commit" /\ inserter = c /\ command[c] \in Command
        /\ \A d \in Client \ {c} : stage[d] # "commit"
    BY DEF Commit, ProvisioningInv, RequestsInPlace
  <1>2. ~Exists /\ ~HasSchedule
    BY <1>1, ProvisioningAssumption DEF ProvisioningInv, RequestsInPlace
  <1>3. YearInv' /\ FirstDraft' /\ HasSchedule' = HasSchedule /\ Fresh' = Fresh
    BY YearKept DEF ProvisioningInv, Commit
  <1>4. school' = command[c] /\ Exists' /\ inserter' = Nothing
    BY <1>1, ProvisioningAssumption DEF Commit, Exists
  <1>5. /\ stage' = [stage EXCEPT ![c] = "idle"] /\ command' = [command EXCEPT ![c] = Nothing]
        /\ reply' = [to |-> command[c], outcome |-> "provisioned"]
    BY DEF Commit, Answer
  <1>6. /\ stage' \in [Client -> Stage]
        /\ command' \in [Client -> Command \cup {Nothing}]
        /\ school' \in Command \cup {Nothing}
    BY <1>1, <1>4, <1>5 DEF ProvisioningInv, Stage
  <1>7. RequestsInPlace'
    <2>1. ASSUME NEW d \in Client
          PROVE  /\ stage'[d] # "idle" => command'[d] \in Command
                 /\ stage'[d] \notin {"commit", "reload", "year", "revision", "count", "schedule", "used"}
      <3>1. CASE d = c
        BY <1>5, <3>1 DEF ProvisioningInv
      <3>2. CASE d # c
        <4>1. stage'[d] = stage[d] /\ command'[d] = command[d]
          BY <1>5, <3>2 DEF ProvisioningInv
        <4> QED BY <1>1, <1>2, <3>2, <4>1 DEF ProvisioningInv, RequestsInPlace
      <3> QED BY <3>1, <3>2
    <2> QED BY <1>4, <2>1 DEF RequestsInPlace
  <1>8. Fresh
    BY <1>2, FreshIsUnused DEF ProvisioningInv
  <1>9. ProvisionedIsFresh' /\ ConflictsAreReal'
    BY <1>3, <1>4, <1>5, <1>8 DEF ProvisionedIsFresh, ConflictsAreReal
  <1> QED BY <1>3, <1>6, <1>7, <1>9 DEF ProvisioningInv

LEMMA UseYearKeepsProvisioningInv ==
    ASSUME ProvisioningInv, UseYear
    PROVE  ProvisioningInv'
  <1>1. YearInv' /\ FirstDraft' /\ (HasSchedule => HasSchedule')
    BY StepKeepsYearInv, StepKeepsFirstDraft DEF ProvisioningInv, UseYear
  <1>2. Exists /\ Exists' /\ UNCHANGED <<school, inserter, stage, command>>
    BY DEF UseYear, Exists
  <1>3. RequestsInPlace'
    BY <1>1, <1>2 DEF ProvisioningInv, RequestsInPlace
  <1>4. ProvisionedIsFresh' /\ ConflictsAreReal'
    BY NoReplyIsTrue DEF UseYear
  <1> QED BY <1>1, <1>2, <1>3, <1>4 DEF ProvisioningInv

LEMMA StutteringKeepsProvisioningInv ==
    ASSUME ProvisioningInv, UNCHANGED provisioningVars
    PROVE  ProvisioningInv'
  <1>1. UNCHANGED year /\ UNCHANGED <<school, inserter, stage, command, reply>>
    BY DEF provisioningVars, provisioning
  <1>2. YearInv' /\ FirstDraft' /\ HasSchedule' = HasSchedule /\ Fresh' = Fresh
    BY <1>1, YearKept DEF ProvisioningInv
  <1>3. RequestsInPlace' /\ ProvisionedIsFresh' /\ ConflictsAreReal'
    BY <1>1, <1>2 DEF ProvisioningInv, RequestsInPlace, ProvisionedIsFresh, ConflictsAreReal, Exists
  <1> QED BY <1>1, <1>2, <1>3 DEF ProvisioningInv

----------------------------------------------------------------------------
THEOREM ProvisioningInvariant == ProvisioningSpec => []ProvisioningInv
  <1>1. ASSUME ProvisioningInv, ProvisioningNext PROVE ProvisioningInv'
    <2>1. CASE UseYear
      BY <1>1, <2>1, UseYearKeepsProvisioningInv
    <2>2. ASSUME NEW c \in Client, NEW asked \in Command, Call(c, asked) PROVE ProvisioningInv'
      BY <1>1, <2>2, CallKeepsProvisioningInv
    <2>3. ASSUME NEW c \in Client,
                 \/ ReadSchool(c) \/ ReadYear(c) \/ ReadRevision(c) \/ CountRevisions(c)
                 \/ AnswerReplay(c) \/ Insert(c) \/ Commit(c) \/ Abort(c)
          PROVE  ProvisioningInv'
      BY <1>1, <2>3, ReadSchoolKeepsProvisioningInv, ReadYearKeepsProvisioningInv,
         ReadRevisionKeepsProvisioningInv, CountRevisionsKeepsProvisioningInv,
         AnswerReplayKeepsProvisioningInv, InsertKeepsProvisioningInv,
         CommitKeepsProvisioningInv, AbortKeepsProvisioningInv
    <2> QED BY <1>1, <2>1, <2>2, <2>3 DEF ProvisioningNext
  <1>2. ProvisioningInv /\ [ProvisioningNext]_provisioningVars => ProvisioningInv'
    BY <1>1, StutteringKeepsProvisioningInv
  <1> QED BY <1>2, InitEstablishesProvisioningInv, PTL DEF ProvisioningSpec

(***************************************************************************)
(* A request is told that the school was provisioned only while the school *)
(* and year are those it asked for and the year is unused, whatever was    *)
(* committed between the reads of a replay.                                *)
(***************************************************************************)
THEOREM SuccessIsTrue == ProvisioningSpec => []ProvisionedIsFresh
  <1>1. ProvisioningInv => ProvisionedIsFresh
    BY DEF ProvisioningInv
  <1> QED BY <1>1, ProvisioningInvariant, PTL

(***************************************************************************)
(* A request is told of a conflict only if there is one, so that retries of*)
(* a lost request and losers of a race are answered like the winner; the   *)
(* internal error for a violation that cannot be explained never happens.  *)
(***************************************************************************)
THEOREM ConflictIsTrue == ProvisioningSpec => []ConflictsAreReal
  <1>1. ProvisioningInv => ConflictsAreReal
    BY DEF ProvisioningInv
  <1> QED BY <1>1, ProvisioningInvariant, PTL

(***************************************************************************)
(* However it was provisioned, a year behaves as one that was there from   *)
(* the beginning: what is proved of AcademicYear holds of it.              *)
(***************************************************************************)
THEOREM ProvisionedYearIsAYear == ProvisioningSpec => Spec
  <1>1. ProvisioningInit => Init \/ MigratedInit
    BY DEF ProvisioningInit
  <1>2. [ProvisioningNext]_provisioningVars => [Next]_year
    BY DEF ProvisioningNext, provisioningVars, UseYear, Call, ReadSchool, ReadYear, ReadRevision,
           CountRevisions, AnswerReplay, Insert, Commit, Abort
  <1> QED BY <1>1, <1>2, PTL DEF ProvisioningSpec, Spec
=============================================================================
