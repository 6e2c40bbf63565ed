# Timetables, versions and configuration revisions: a TLA+ model

This directory models the backend of the school timetable in TLA+: what is
persisted for an academic year, the requests that change it concurrently, the
writers of its configuration, and the algorithms that make, check, edit and show
a timetable.  TLC checks small instances; TLAPS proves every invariant and action
property of the passing runs for all instances: of what is persisted, of the
concurrent requests, of the calendar, of the configuration tables, and of the life
of a timetable under the solver, the verifier, moves and locks.  `PROJECT.json` lists the runs, the lines
each definition models, the hazards and the theorems.

## The system

| component | state | operations | hard because |
|---|---|---|---|
| provisioning (`persistence/school_provisioning_repository.py`) | the rows of a school, its year and revision 1 | create them, or answer a repeated request | unlocked reads; two requests race; answers get lost |
| configuration revisions, write lock (`configuration_revision_repository.py`, `configuration_write_lock.py`) | rows of `configuration_revision`, the draft and published pointers of `academic_year` | begin, discard and read a draft; the guard of every configuration writer | revision numbers are reused after a discard; revisions share tables |
| schedule versions (`schedule_repository.py`) | `schedule`, `schedule_version`, `schedule_entry`, `locked_occurrence` | persist an initial, an edited or a regenerated version; read versions | three different optimistic checks under one row lock |
| configuration reads (`problem_repository.py`) | none | read the current, a draft or a numbered revision into a `SchedulingProblem` | seventeen SELECTs without a lock |
| generation and editing services (`application/generate_schedule_service.py`, `schedule_editing_service.py`) | the snapshot each request works on | generate, regenerate, move, lock, unlock, reoptimize, restore | a request is several transactions with a long solve in between |
| calendar (`calendar_repository.py`, `calendar_rules.py`, `domain/calendar.py`) | day and period rows of every revision | create, update, delete, move a day or a period | order and blocks are rewritten for all rows at once; bell times against order |
| other configuration writers and their rules (`persistence/*_repository.py`, `application/*_rules.py`) | the other tables of the draft | create, update, delete | references between tables, rows looked up by year, names copied |
| preflight (`validation/preflight.py`) | none | the codes of a configuration's faults | writers compare codes before and after |
| manual editing, lock compatibility (`scheduling/editing.py`, `lock_compatibility.py`) | none | which moves are allowed, which locks survive | occurrences are runs of entries known by their first period |
| solving, reoptimizing (`model_builder.py`, `reoptimize.py`), verifier | none | timetables from problems, checks of both | the same rules are written down three times; two solves in a row |
| views (`application/*_timetable*_service.py`) | none | the timetable of a class, a teacher, all teachers | two reads; entries off the grid are passed over |
| HTTP interface, frontend, fixtures | none of their own | translation, presentation | not concurrent by themselves |

Components meet in the database.  A configuration writer, a draft operation and
the last step of every request take `SELECT ... FOR UPDATE` on the
`academic_year` row, and hold it to their commit.  Everything a request does
before its last step, it does with nothing held, on detached values.

What makes each component correct: provisioning - an answer that is true when it
is given; revisions - one draft at most, published rows never change; versions -
one linear chain, each on a published revision; services - what is committed is
what the request would have computed from the state it commits to; calendar -
positions without gaps, breaks that stay with their period, writes confined to
the draft; other writers - references intact, no failure after validation;
editing and locks - an allowed move keeps a valid timetable valid, a lock is
lost by consent only; solver and verifier - what one produces the other accepts;
views - no lesson missing.

## Modules

Persistence and requests:

- `AcademicYear`: the persisted state of one year.  One action per repository
  transaction, each atomic since it runs under the row lock and commits or
  rolls back as a whole.  A configuration is a function from tables (`Part`) to
  values; a timetable, an occurrence and a value are opaque.  What the verifier
  and the lock classification answer are the constant relations `Fits` and
  `LockFits`, any relations: nothing is assumed of them.  Each lock is judged by
  itself here; that the code judges it beside the locks kept so far is modelled in
  `LockCompatibility`.  `Fits` is a relation of
  a problem, the configuration whose teachers, resources and classes the entries
  carry, and the places of the entries, as the code resolves the former from a
  version's own revision.  `Shared` are the tables whose writers touch every
  revision (the calendar); `WriteAcrossRevisions` stands for those writers.
  `Init` is a year as provisioning leaves it, `MigratedInit` one from before
  revisions existed, as the migration leaves it: any configuration, any number
  of versions, all on revision 1.
- `SchoolProvisioning` composes it with the requests that create the year:
  each SELECT of a replay is a step of its own, the insert waits for another
  one of the same key until that commits or is rolled back, and any request may
  be aborted and repeated.  Meanwhile the year is used by `AcademicYear!Next`.
- `AcademicYearProofs`, `SchoolProvisioningProofs`: the theorems about the two.
- `TimetableRequests`: `GenerateScheduleService`, `ScheduleEditingService` and
  the views of a version as stages over `AcademicYear`, one stage per
  transaction, with what is held in memory from one to the next (`problem`,
  `timetable`, `locks`, `target`).  `Refuse` is an error answer decided in memory,
  `Die` an exception or the end of the process at any stage.
- `TimetableHistory`: the abstract specification, a draft and a list of
  entries, each request one step.  `TimetableRequests!ImplementsHistory` is the
  refinement, with each revision replaced by its content.
- `TimetableRequestsProofs`: the theorems about interleaved requests, and the proof
  of the refinement.

Configuration:

- `CalendarRevisions`: the rows of days and periods per revision and the eight
  calendar writers.  A row is a revision and a natural id.  A SELECT by year
  returns the rows in no order, and a stable sort by `idx` leaves ties in that
  order, so an action chooses among the sorted sequences.  Requests that the
  validation rejects change nothing and are not actions.  `outcome` says if the
  last request that passed it failed all the same.  A published day may carry
  lessons, whose foreign key makes its deletion fail, or not: both are tried.
- `CalendarRevisionsProofs`: the theorems about the calendar, and what they need
  of numberings, rows and blocks.  `NumberSets`: least and greatest numbers, folds
  and sums over finite sets, used here and for timetables.
- `ConfigurationPreflight`: the rows of one revision besides the calendar, their
  foreign keys, and `run_preflight` as the codes it reports, with what hides what:
  gaps in the calendar all the rest, dangling references and overlapping bell times
  all that comes after them.
- `ConfigurationTables`: the other writers over the rows of every revision, one
  action per request, with their rules, their lookups (by year in some, by
  revision in others) and the failures of both.  Natural ids are minted, so one
  fresh id stands for all.  Of the calendar each revision has the slots and a state
  (`calendar`): in order, numbered with gaps, or with bell times that overlap.  A
  calendar write changes that state: in a first setup numbers stay without gaps
  (`SetupCalendarShape` of `CalendarRevisions`) and bell times may come to overlap
  (`ClockOrderLostOnlyByReordering`); beside a published revision gaps are possible
  too, and the write may fail.
- `ConfigurationTablesProofs`: what one form of write leaves of the rows of one
  revision and, from this, the theorems about the writers.

Timetables:

- `TimetableRules`: the verifier's checks over a problem and its entries, and
  the solver's cap on preferred doubles, which the verifier lacks.  A problem is
  a record of functions over its requirements and reserved blocks; an entry is an
  activity, a day and a period, the rest of a `ScheduleEntry` being what the
  problem says of the activity.
- `Occurrences`: `find_logical_occurrence`, the unit of moving and locking.
- `ScheduleEditing`: `scheduling/editing.py` over one timetable.  `MoveAllowed` is
  `validate_move` with its rechecks, `MovePlan` the exchange.  `ReviewMove` keeps
  a result, `ApplyMove` applies the kept one to whatever the timetable is by then,
  any number of times; `Move` is the service's validation, application and
  verification in one.  Requests that are refused change nothing and are not
  actions.
- `SolverModel`: the constraints of `model_builder` as predicates on the lessons,
  its objective as the set of values the solver may report, and the independent
  evaluator of the penalty.  `Candidates` is what CP-SAT searches (external): the
  placements of one split after the other where its classes are still free.
- `LockCompatibility`: `classify_locks`, in any order of the keys, and the lessons
  that are pinned for the locks kept.  `Classified` says which sets of keys the
  loop over the keys can end with: each key is judged beside the ones kept so far.
- `TimetableViews`: the grids of a class, of a teacher and of all teachers.
- `ScheduleSolving` composes these into the life of the active timetable:
  generated, moved, locked, reoptimized in two phases, regenerated for a draft,
  restored.  The solver may stop at any solution (FEASIBLE) or prove a best one.
  What is solved gets the reserved blocks added (`BuiltEntries`).
  A restored version is stored by looking its activities, days and periods up in the
  present configuration, and is refused when one of them is gone (`Storable`).
- `ScheduleSolvingProofs`: the theorems about the steps of that life: kept locks,
  moves and moves back, regenerations, and that the solver's timetables are valid.
- `SolverModelProofs`: the theorems about solver, verifier, objective and views, what
  is stored, and locks that are found.
- `MC...`: the instances for TLC.

Some definitions have a mutated form beside them, marked so: a plausible
mistake in the code that the properties must notice.

## Runs

| run | instance | shows |
|---|---|---|
| `year` (`AcademicYear.cfg`) | 2 clients, 4 commands; 2 tables, one shared; 3 revision rows, 3 versions | what the repositories guarantee against arbitrary callers, in a new and in a migrated year; provisioning requests are told the truth |
| `editing` | 2 requests of any kind, 3 revision rows, 3 versions, teaching table | only verified timetables are filed, numbers still name the right revision, locks are lost by consent, the draft that was read is published, every interleaving is a history of one-step requests |
| `generating` | 2 requests, 2 tables, 2 revision rows, 2 versions, fair | the same when the read of the configuration is torn, and every request ends |
| `calendar` | 2 revisions; 3 days, 4 periods, 4 rows in each table, 2 bell times | positions, blocks, breaks and bell times before the first timetable, no unexpected failure; what the unique constraints still guarantee beside a published revision |
| `configuration` | 2 revisions, 5 rows each, 7 in all, 2 slots, 2 of most ids | references, names and splits stay whole, no valid write of a first setup fails, the published revision keeps its rows, which faults a write can let in |
| `solving` | 4 weeks solved and changed into each other, 5 timetables edited, 7 more problems whose every candidate is compared | solver and verifier agree, reoptimizing keeps what it can, moves keep timetables valid, locks hold and are found, penalties are true, views are whole |
| `read_only`, `restoring` | 2 requests, 2 or 3 versions | violated: see below |
| `calendar_published`, `calendar_writes` | 2 revisions, 2 days, 2 periods | violated: see below |
| `moves_hall`, `moves_preferred` | 1 problem of 4 slots each | violated: see below |

Bounds.  Two requests: every check compares what one request saw with what the
database holds when it commits, and the other request together with the free
configuration steps makes any change in between.  Three revision rows: publish,
discard, and a draft that reuses the number.  Three versions: an initial one,
an edit or a regeneration, and a restore across it.  Two values per table: a
changed table and one changed back.  Two tables for the torn read, of which one
is old and one new.  Two provisioning requests race to insert; once the school
is there requests only read, and one at a time stands for all.  Four commands: one,
and one that differs in each of name, year and label; only the year of the
first (`Used`) is put to use.  The calendar's tables are bounded by their
rows: four are a first setup with a break, a move and a deletion in the middle,
or a draft of two beside a published revision of two; more published revisions
add rows that behave like the first's.  Bell times are two adjacent pairs, and
given to periods only while there are no days, so that orders and times are combined
and days do not multiply them.  In `configuration` five rows are two teachers,
a subject and a split of a class, or a class, a special activity, a teacher
and two reserved blocks, which meet in a slot or not; two slots are a day of two
periods, as overlapping bell times need.  Two blocks that share a teacher and no
class would take six rows; `FirstCollisionIsFound` is proved for them too.  A
revision that preflight lets through takes three rows (a class and an activity in
a block of both slots), and the total leaves room for a clone of it and a write to the clone.

The problems of `solving` that are edited are chosen for what an exchange can
break: doubles and singles with a break beside them, over three days with a daily
cap; a split with doubles; a split with a daily cap, a reserved block, a fixed
lesson and an unavailable teacher; merged classes with a common teacher and a
room for one; PREFERRED doubles that single lessons are moved beside.  From the given timetable, moves reach every other one that
exchanges can reach.  Two keys are two single locks or one of a split.  Those
that are solved are weeks of six slots with mathematics under each block policy
in turn, and a week that is a day shorter.  Solver and verifier are compared on
all of these, and on a hall that split branches share, a laboratory that a
reserved block shares, and a pattern of two block sizes.  What the edited problems
lack, a resource common to the branches of a split, has the violated
run `moves_hall`; it cannot be entered through the application, only imported.

`CHECK_DEADLOCK FALSE` is set where the bounds leave nothing to do.

The request instances have no shared table, so that what they show is about
interleavings and not about the calendar writers, which have runs of their own.

Fairness.  `FairRequestSpec` asks weak fairness of `Proceed` per request: a
started request keeps its worker thread; the row lock is held only for one
short transaction, so that each waits a bounded time; the solver runs under a
time limit.  Nobody has to start anything, write, open or discard a draft, and
dying is possible and never needed.  Under it `RequestsEnd`: a request
commits or is refused in its own steps, no commit of others makes it start over.
The models without requests claim no liveness: nothing in the code retries.

### What the violated runs show

- `read_only`: the out-of-date check of an edit is a transaction of its own and
  the commit does not repeat it.  An edit that passed it is filed while the
  draft already differs from the timetable's configuration, which the
  documentation of `ScheduleOutOfDateError` rules out.  The edit is still one
  of the newest version under its own revision, as `editing` shows.
- `restoring`: a restore verifies the entries with the teachers, resources and
  classes of the revision they come from, and stores their places under the
  active revision.  After a regeneration that changed who teaches what, the
  version that is read back was never verified.  `VersionsWereVerified` (run
  `editing`) states what does hold.
- `calendar_published`: the calendar writers select rows by year, so a write to
  a draft renumbers the days or periods of published revisions.
- `calendar_writes`: once a draft was cloned, the lookup of a day or period by
  year and natural id finds two rows and raises.
- `moves_hall`: the capacity check of a move counts each moved entry alone with
  the rest, so two branches of a split that use the hall are allowed into a slot
  where there is room for one.  The service's own verification then fails with an
  internal error.
- `moves_preferred`: a lock is the first period of an occurrence.  A lesson moved
  in front of a locked single of a PREFERRED requirement makes both a double with
  another first period, which is not locked and moves away.

### What the passing runs say in their exceptions

Several properties hold with an exception, which is there because TLC found it:

- `SolverAgreesWithVerifier`: a REQUIRED pattern with two sizes above one has no
  solution.  A day of the bigger block also fills windows of the smaller size,
  whose variables are tied to the lessons and to days of that size
  (`model_builder.py:283-346`).  `docs/SOLVER_CONTRACT.md:71-78` allows any
  multiset of lengths; its examples have one size above one.
- `LocksAreFindable`, `KeptLocksStay`: a FLEXIBLE lesson that is locked and kept
  for a draft in which its requirement is REQUIRED can be pinned into a block
  that starts before it.  The key then names no first lesson: the lock cannot be
  taken away, and `reoptimize.py:191` no longer holds what it stands for,
  against the second point of that module's heading.
- `CompatibleLocksCanBePinned`: a lock on a day that the draft no longer has is
  classified compatible (`lock_compatibility.py:193`), and the pinned solve ends
  in a `KeyError`, answered as the solver status ERROR.
- `MovesCanBeUndone`: a lesson moved beside one of the same PREFERRED requirement
  becomes a double with it, and a part of a double a single.  Moving back what is
  now there moves other lessons than came.
- `ProvenPenaltiesAreTrue` is limited to OPTIMAL: reoptimize stores a penalty of 0
  when its first phase runs out of time (`reoptimize.py:292`), and an
  unfinished objective may count days as missing that are there
  (`model_builder.py:396`).
- `ReoptimizeKeepsValidTimetable` assumes that the timetable keeps the cap on
  PREFERRED doubles: the second phase has the cap and the first does not
  (`reoptimize.py:303`), so that around a timetable moved past the cap the
  bound of the first phase can have no solution in the second.
- `ClockOrderLostOnlyByReordering`: a move, or the deletion of an untimed period,
  does not check bell times (`calendar_service.py:203-213`), so that a calendar
  can be reached that preflight rejects and the writers accepted;
  `docs/DECISIONS.md:4150-4153` says that the two "can never disagree".  Once two
  disjoint overlaps exist no single creation or update is accepted, as each
  checks the whole catalog; only moves and deletions lead out.  What such a
  calendar hides from the other writers is in `FirstCollisionHidden`.
- `FirstCollisionHidden`: writes compare codes, not errors, with those that the
  draft had, so that a second fault of a kind is let in beside a first.  A first
  one is let in only while the calendar ends preflight early, before and after the
  write alike.  A first setup gets there when a period is moved and its bell times
  now overlap with its neighbour's: preflight stops at that
  (`preflight.py:30-36`), `_candidate_diff_errors`
  (`reserved_activity_rules.py:219-223`) finds nothing new, and two reserved
  activities of a class are stored in one slot, where
  `api/reserved_activity_routes.py:43-47` announces an error.  A generation is
  refused, for the bell times first and for the collision once those are in order.
  Gaps in the numbering hide as much; they take a published revision.
- `SetupWritesSucceed` ends with the first timetable: beside a published revision
  most updates and deletions of teachers, subjects, classes, resources and
  assignments find two rows, as in `calendar_writes`.

## Proofs

`AcademicYearProofs` proves, for every value of the constants that satisfies
`ConfigurationAssumption` and `BoundAssumption`, the type invariant, the five
safety invariants of the run `year` about versions and revisions, and its
action property, from both initial states.

The inductive invariant `YearInv` is the conjunction of the type invariant and
the five with three facts that make them inductive.  `RowsFollowSequence`: no
row exists beyond the key sequence, so a new draft has a fresh key, and every
existing row holds a real configuration.  `PublishedWithSchedule`: a schedule
exists exactly when a revision is published; a year with a published revision
has therefore left the state `SingleRevisionBeforeSchedule` is about when a
second draft is opened.  `PublishedHasHighestNumber`: only the draft's number is
above the published one's, so that MAX + 1 is unused after any discards.  That
every version's revision is published keeps a discard, which removes only a
draft, from taking one away; that versions are numbered by position makes their
maximum the length.  There is one lemma per action, and one per initial state.
Appending and publishing, shared by three actions, have lemmas of their own, as
have the two maxima.  `PublishedIsImmutable` is proved
from the invariant by the same cases: no action but `WriteAcrossRevisions`
writes a row with status PUBLISHED, since the only rows written are the draft,
which is not published, and a fresh key.

`SchoolProvisioningProofs` proves, for any number of clients and commands, that
the answers of provisioning are true when they are given (`SuccessIsTrue`,
`ConflictIsTrue`).  A replay reads without a lock while the year may be used,
and its answer rests on the last of its reads alone.  The invariant
`ProvisioningInv` says why that is enough: until there is a timetable the year is
as it was created but for edits (`FirstDraft`), and a timetable is never taken
away, so that the earlier reads cannot have become wrong while the last one
finds none (`FreshIsUnused`); and only the request that inserted the school
commits, while nobody else is between its insert and its commit
(`RequestsInPlace`).  `ProvisionedYearIsAYear` shows that every behaviour of the
composition is one of `AcademicYear!Spec`, which carries the theorems about the
year over to it.

`TimetableRequestsProofs` proves what the runs `editing` and `generating` check
of safety, for any number of requests, tables, values, timetables, locks and
versions.  Everything a request computes it computes from what it read in
earlier transactions, so the invariant `RequestInv` adds to `YearInv` what each
request holds in its memory, stage by stage (`InFlight`): the base is a version
that exists, the number looked for is that of the base's revision, the timetable
and locks of an edit are results of the edit on the base's own, the locks left
for a regeneration are the compatible ones and the rest was confirmed.  Each of
these is about versions and about revisions that versions stand on.  No step
takes such a thing away or changes it (`RequestsKeepRecord`): this is where the
theorems about the year come in, and it is why a request can rely on what it
read however many others commit in between (`InFlightIsStable`).  One lemma per
stage shows that the stage establishes the next one's fact, and one per commit
what the new version is.  `RequestsUseTheYear` shows that all the requests do to
the year are the transactions of `AcademicYear`, called with arguments it allows.

It also proves the refinement `ImplementsHistory` (`RequestsMakeAHistory`): every
behaviour of interleaved requests is one of `TimetableHistory`, in which a
request is one step.  The entries of the history are the versions, each with the
content of its revision (`EntriesAreVersions`), which is why published revisions
have to be immutable.  A stage that commits nothing leaves the entries alone
(`EntriesStay`), one that commits appends one (`EntriesGrow`); there is one lemma
per step of the history, and `InFlight` gives each its guard.

`ConfigurationTablesProofs` proves, for any ids, names and number of revisions,
the six properties of the run `configuration`.  The invariant
`ConfigurationInv` says that every revision is `Sound`, that the year's pointers
name existing revisions and not the same one, and that the first setup has one
revision.  `Sound` joins references, copied names and splits, since none of them
is inductive alone: that no lesson loses its class takes the rules' word for what
is unused, and that a rename reaches every copy takes the references.
Its first part takes `Sound` through each form of a write on the rows
of one revision, together with `NoFirstCollision`, which only a write of a block
could break: `Sound` has no dangling reference, so that with a calendar in order
preflight gets to the blocks and reports what is compared.  Then one lemma per writer shows
that it fails beside a published revision or writes the draft in one of these
forms.  Writers that insert stamp the draft's key on their rows; the others look
a row up by the year and its natural id, in whatever revision it may be.  They
first check that the draft has the row, and `scalar_one()` refuses two, so the row
that is found is the draft's (`HolderIsTheDraft`): this carries
`PublishedTablesImmutable`.

`CalendarRevisionsProofs` proves the six properties of the run `calendar`, for any
days, periods, bell times and number of revisions, and whatever order the
database returns rows of equal position in.  Every write numbers the rows of all
revisions from 0 (`Numbering`), either by counting those before a row
(`CountingNumbers`, used for the sort) or by closing up, exchanging or
extending a numbering.  Rows written back keep the order within their revision
(`SortedNumbers`, `ReindexedRows`), so that positions stay distinct even where a
write renumbers revisions it should not touch.  In the first setup there is one
revision: numbers that keep the order are then the same numbers
(`SameOrderSameNumbers`), the next free position is the count, and blocks start
exactly at the markers that were written (`BlocksStartAtMarkers`), from which
`BreaksTravelWithPeriods` follows.  The invariant `CalendarInv` holds rows in
place, pointers, and the shape of the first setup (`InSetup`).  Bell times need no
invariant: a checked write keeps the order the check was made with
(`SameOrderSameOverlaps`), and a period with times that is taken from between two
others leaves these in order, as its own end is after its start
(`TakenOutInOrder`).

`ScheduleSolvingProofs` proves the properties of single steps from the run `solving`,
for any problems, timetables, drafts and answers of the solver.  Its invariant
`SolvingInv` is small: entries name requirements or reserved blocks, days and periods
of the present configuration, and finitely many keys are locked.  The rest comes from
what each step checks.
`LocksHold` (`KeptLocksStay`): a move takes away two occurrences that are free,
and an occurrence that has a lesson in common with a locked one has the same
keys (`MemberHasKeys`, by the synchronized branches), so it would not be free; a
reoptimization pins the groups whose first lesson is locked; a regeneration pins
what was classified.
`LocksStayInReach` (`EditsKeepLocksFindable`) is the harder one: a lock is found by
the first lesson of its day, and an exchange brings other lessons into that day.
`ExchangePlaces` computes what an exchange does: the two occurrences, of equal
length and of the same classes, change days and periods.  A branch of either could
thereby join a locked REQUIRED block of its own requirement.  Then one day of that
requirement loses its block and another one gets both, of which the block
pattern has one too many (`BlocksNotJoined`); that the two do not overlap is
because a class has one lesson, or one split, in a cell (`SameCellSameSplit`).
The recheck of the patterns after a move excludes this (`LockedDayStays`).
`CompatibleLocksFit` (`CompatibleLocksCanBePinned`): of the blocks of one size that
are pinned for a requirement, consider the one whose key was classified last.
All others were kept before it, and were fewer than the pattern has
(`PinnedPattern`).
`MovesAreUndone` (`MovesCanBeUndone`): an `Exchange` swaps two free occurrences of equal
length, and what it leaves is again two free occurrences, which the same checks let
swap back (`ExchangeBack`): what was accepted where it came from is accepted there again
(`OldPlacesAccepted`).  `EditingInv` adds to `SolvingInv` that what is edited and not
solved stays on its grid and that its locks can be found.
`SolutionsAreVerified`: what satisfies the constraints of `model_builder.py` passes
every check of the verifier, one lemma per check (`Built...`).  The blocks are the hard
one: the solver counts windows that are full, the verifier days of a length
(`WindowFilled`, `BuiltBlocks`).
`StepsStayValid` (`StepsKeepTimetableValid`): a move rechecks only part of what the
verifier checks, and one lemma per check (`Exchange...`) shows that the rest is kept.
It assumes `SplitsShareNoResource` of what is edited, without which `moves_hall` is
violated; the branches that the application writes have no resource
(`synchronized_split_repository.py:88`).

`SolverModelProofs` proves what relates the answers of several components.
`SolverAgrees` (`SolverAgreesWithVerifier`) is the converse of `SolutionsAreVerified`:
what the verifier accepts satisfies the constraints of the solver
(`AcceptedIsModel`), and it is in the search space (`AcceptedIsCandidate`).  The
search space is a fold over the splits, which `CandidatesFold` turns into a function
on sets of splits and `PickInduction` goes through: of an accepted timetable the
lessons of the splits placed so far leave the next one's slots free.  A pattern with
two sizes above one has no model, as a window of the longer block contains one of the
shorter (`NestedHasNoModel`).  `Storable` alone would let a reserved block stand
beside its slots; where the problem has a solution at all a class has as many
lessons as slots for them (`ClassLessonsFill`, by counting), so that there is no room for
it (`PassingIsAccepted`).  That a solution exists once the solver returned one is
what `AgreeingInv` adds.
`ReoptimizingKeepsValid` (`ReoptimizeKeepsValidTimetable`): the timetable is then one of
the solver's own, it differs from itself nowhere, and two solutions with the same
lessons are the same.
`PenaltiesAreTrue` (`ProvenPenaltiesAreTrue`): no value that the objective may have is
below what the evaluator computes, which is one of them, so that the least value of
all is the evaluator's of every timetable that has it (`OptimumIsEvaluated`).
`ViewsAreWhole` (`ViewsShowTheTimetable`): what is stored is on the grid, so that the
views pass nothing over.
`SolvingTypes` (`SolvingTypeOK`): lessons, keys and reviewed moves stay on the grid.  It
assumes `ReservedSlotsStay`, that a draft with the requirements of its predecessor
frees no slot of a reserved block that it keeps: a restore looks the entry of a block
up by block, day and period and would store it beside the slots.
`LocksStayFindable` (`LocksAreFindable`): splits are locked and unlocked as a whole
(`Closed`), and a regeneration keeps the keys of a split all or none
(`ClassifiedAlike`: consider the first turn in which a key of the occurrence was kept).
A lesson that is no block is then found as soon as it is there with its branches.
Two hypotheses are about the drafts.  `DraftsJoinNoSplits`: requirements that were apart
do not become branches of a split, else a lock of one of them is kept and finds a split
of which other branches are not locked.  `BranchesAlike`: the branches of a split are
PREFERRED doubles all or none; the application writes FLEXIBLE branches only.

TLC evaluates on the problems of the run what these theorems assume of problems.
`ProblemAssumption`: the grid is finite with numbered periods; lessons have teacher,
group and classes; REQUIRED blocks fit into a day; the branches of a split have the
same classes and are either all placed by days or all by single lessons.  All but
the last is given by the types of a problem or checked by `preflight.py` (`284`,
`705`, `747`); the last holds of
every split the application writes, whose branches are FLEXIBLE
(`synchronized_split_repository.py:87`).  Nothing else checks it: in imported data
with a split of two policies, a lock asked for by the FLEXIBLE branch has keys
that are not the first lesson of the other branch's block.  `ReservedAssumption`: what
preflight checks of reserved blocks (`preflight.py:478-633`), whose constraints the
solver does not repeat.  `ObjectiveAssumption` and `SolvedAssumption` say what least
days, weights and drafts are.  The hypotheses of single theorems above hold on those
problems too.

Each of these invariants was checked by TLC on the instance of its run before it
was proved.  The assumptions are those named in the modules, `...Assumption`: the
sets of ids, requests and tables are what the code can have (finite where rows
are counted), bounds are numbers, bell times start before they end.  Nothing is
assumed of `Fits`, `LockFits` and the other relations that stand for algorithms.

Model-checked only: `RequestsEnd`, since liveness under fairness and `ENABLED` are
out of the prover's reach.  The violated properties are TLC's counterexamples.

## Plan

1. Done: all modules above; the proofs of every invariant and action property of
   the passing runs, with the refinement of `TimetableHistory`.
2. Periods are known by their position here and by a row in the database.  A draft
   that moves a period shifts the positions of entries that are kept: `ScheduleSolving`
   has only drafts that cut the grid.  With ids for periods it could have these too.
3. Proofs without `ReservedSlotsStay` and `DraftsJoinNoSplits`, of weaker properties:
   what is stored beside the slots of a block, and which locks find only a part.

## Not modelled

The search of the CP-SAT solver (external; any timetable it may return is
considered), wording and translation of errors, names but where they are copied
or must be unique, the projections of the calendar and of teaching
assignments (a copy of one read), HTTP, frontend, fixtures, and the other
migrations.  Fixed placements, block patterns and time preferences are part of
the problems that are solved and not of the configuration tables, as no writer
creates them.  Serialization by the database is
taken as PostgreSQL's: row locks and constraints at READ COMMITTED.
