--------------------------- MODULE CalendarRevisions ---------------------------
(***************************************************************************)
(* The day and period tables of one academic year, and the calendar        *)
(* writers.  Every configuration revision has rows of its own, under the   *)
(* same natural ids as the revision it was cloned from.  The writers       *)
(* validate a request against the draft and then select rows by year       *)
(* alone, so once a revision is published they meet its rows as well.      *)
(*                                                                         *)
(* A writer holds the academic year's row lock from its first check to its *)
(* commit: each is one action.  Requests the validation turns down change  *)
(* nothing and are not actions; a request it lets through is answered or   *)
(* fails with an unexpected exception, which `outcome' records.            *)
(***************************************************************************)
EXTENDS Integers, FiniteSetsExt, Functions

CONSTANTS
    DayId,          \* natural ids of days
    PeriodId,       \* natural ids of periods
    Bell,           \* pairs of a start and an end time
    NoBell,         \* both times are null
    MaxRevisions,   \* bound on the revisions that exist at a time
    MaxDayRows,     \* bound on the rows of the day table
    MaxPeriodRows   \* bound on the rows of the period table

ASSUME CalendarAssumption ==
    /\ IsFiniteSet(DayId) /\ IsFiniteSet(PeriodId)
    /\ NoBell \notin Bell
    /\ \A bell \in Bell : bell \in Nat \X Nat /\ bell[1] < bell[2]    \* validate_time_pair
    /\ MaxRevisions \in Nat \ {0} /\ MaxDayRows \in Nat /\ MaxPeriodRows \in Nat

NULL == 0
RevisionId == 1..MaxRevisions
NoRows == [i \in {} |-> 0]

VARIABLES
    live,       \* the revisions that exist
    draft,      \* academic_year.draft_revision_id
    published,  \* academic_year.published_revision_id
    days,       \* days[r][d]: idx of day d of revision r
    periods,    \* periods[r][p]: idx of period p of revision r
    blocks,     \* blocks[r][p]: the number in its block_id, "block_<n>"
    bells,      \* bells[r][p]: its start_time and end_time
    outcome     \* how the last request ended

lifecycle == <<live, draft, published>>
calendar == <<days, periods, blocks, bells>>
vars == <<lifecycle, calendar, outcome>>

Init ==
    /\ live = {1} /\ draft = 1 /\ published = NULL
    /\ days = [r \in RevisionId |-> NoRows]
    /\ periods = [r \in RevisionId |-> NoRows]
    /\ blocks = [r \in RevisionId |-> NoRows]
    /\ bells = [r \in RevisionId |-> NoRows]
    /\ outcome = "done"

Succeed == outcome' = "done"
Fail == outcome' = "failed" /\ UNCHANGED calendar

-----------------------------------------------------------------------------
(* Rows of all revisions, <<revision, natural id>>, and their order by idx. *)

Put(f, k, v) == [i \in DOMAIN f \union {k} |-> IF i = k THEN v ELSE f[i]]

Rows(table) == UNION {{r} \X DOMAIN table[r] : r \in live}
Idx(table, row) == table[row[1]][row[2]]

\* The outcomes of sorting by idx the rows a SELECT returns in no order: rows
\* with equal idx, of different revisions, come as their revisions rank there.
Sorted(table) ==
    LET rows == Rows(table)
        ties == {Idx(table, x) : x \in {y \in rows : \E z \in rows : z # y /\ Idx(table, z) = Idx(table, y)}}
        before(x, y, rank) ==
            \/ Idx(table, x) < Idx(table, y)
            \/ /\ x # y /\ Idx(table, x) = Idx(table, y)
               /\ rank[Idx(table, x)][x[1]] < rank[Idx(table, x)][y[1]]
    IN  {[y \in rows |-> Cardinality({x \in rows : before(x, y, rank)})] :
            rank \in [ties -> Injection(live, 1..Cardinality(live))]}

At(pos, k) == CHOOSE x \in DOMAIN pos : pos[x] = k

\* next(row for row in rows if row.natural_id == id)
FirstRow(pos, id) == At(pos, Min({pos[x] : x \in {y \in DOMAIN pos : y[2] = id}}))

\* Mutated form: the rows that are left keep their idx.
Unshifted(pos, row) == [x \in DOMAIN pos \ {row} |-> pos[x]]

Without(pos, row) ==
    [x \in DOMAIN pos \ {row} |-> IF pos[x] > pos[row] THEN pos[x] - 1 ELSE pos[x]]

\* rows[position - 1] or rows[position + 1], as Python reads the former at 0.
Neighbour(pos, row, direction) ==
    At(pos, CASE direction = "down" -> pos[row] + 1
              [] direction = "up" /\ pos[row] > 0 -> pos[row] - 1
              [] OTHER -> Cardinality(DOMAIN pos) - 1)

Swapped(pos, a, b) == [pos EXCEPT ![a] = pos[b], ![b] = pos[a]]

\* _reindex_via_sentinel: every row, whatever its revision, gets its position.
Reindexed(pos) ==
    [r \in RevisionId |-> [id \in {x[2] : x \in {y \in DOMAIN pos : y[1] = r}} |-> pos[<<r, id>>]]]

\* The position of a natural id among the draft's rows is not at the edge.
CanMove(table, id, direction) ==
    \E other \in DOMAIN table[draft] :
        IF direction = "up" THEN table[draft][other] < table[draft][id]
                            ELSE table[draft][other] > table[draft][id]

\* Nothing in the draft refers to the row, and it is not the last one (every
\* period is instructional).
Deletable(table, id) == id \in DOMAIN table[draft] /\ Cardinality(DOMAIN table[draft]) > 1

\* scalar_one_or_none by year and natural id raises MultipleResultsFound.
Ambiguous(table, id) == \E r \in live \ {draft} : id \in DOMAIN table[r]

\* Natural ids are minted by the service.
Unused(table, id) == \A r \in live : id \notin DOMAIN table[r]

-----------------------------------------------------------------------------
(* SqlAlchemyCalendarDayRepository *)

\* Mutated form: no unique constraint on idx.
CreateDayAnywhere(id) ==
    /\ draft # NULL
    /\ Unused(days, id)
    /\ Cardinality(Rows(days)) < MaxDayRows
    /\ days' = [days EXCEPT ![draft] = Put(@, id, Cardinality(DOMAIN days[draft]))]
    /\ Succeed
    /\ UNCHANGED <<periods, blocks, bells, lifecycle>>

\* The next idx is the number of days; a day that has it fails the insert.
CreateDay(id) ==
    LET next == Cardinality(DOMAIN days[draft])
    IN  /\ draft # NULL
        /\ Unused(days, id)
        /\ Cardinality(Rows(days)) < MaxDayRows
        /\ IF next \in Range(days[draft]) THEN Fail
           ELSE /\ days' = [days EXCEPT ![draft] = Put(@, id, next)]
                /\ Succeed
                /\ UNCHANGED <<periods, blocks, bells>>
        /\ UNCHANGED lifecycle

\* A new name, which is not modelled.
UpdateDay(id) ==
    /\ draft # NULL
    /\ id \in DOMAIN days[draft]
    /\ IF Ambiguous(days, id) THEN Fail ELSE Succeed /\ UNCHANGED calendar
    /\ UNCHANGED lifecycle

\* A published revision's day may have lessons in a timetable, and then their
\* foreign key fails its deletion.
DeleteDay(id) ==
    /\ draft # NULL
    /\ Deletable(days, id)
    /\ \E pos \in Sorted(days) :
        LET target == FirstRow(pos, id)
        IN  \/ target[1] # draft /\ Fail
            \/ /\ days' = Reindexed(Without(pos, target))
               /\ Succeed
               /\ UNCHANGED <<periods, blocks, bells>>
    /\ UNCHANGED lifecycle

\* Some row of x's revision, neither a nor b, has idx i.
Taken(a, b, x, i) ==
    \E y \in Rows(days) \ {a, b} : y[1] = x[1] /\ Idx(days, y) = i

\* Mutated form: the two rows are written in turn, without parking one at -1.
MoveDayUnparked(id, direction) ==
    /\ draft # NULL
    /\ id \in DOMAIN days[draft]
    /\ CanMove(days, id, direction)
    /\ \E pos \in Sorted(days) :
        LET a == FirstRow(pos, id)
            b == Neighbour(pos, a, direction)
        IN  IF a[1] = b[1] THEN Fail
            ELSE /\ days' = [days EXCEPT ![a[1]][a[2]] = Idx(days, b),
                                         ![b[1]][b[2]] = Idx(days, a)]
                 /\ Succeed
                 /\ UNCHANGED <<periods, blocks, bells>>
    /\ UNCHANGED lifecycle

\* Mutated form: the day's row stays where it was parked.
MoveDayLeftParked(id, direction) ==
    /\ draft # NULL
    /\ id \in DOMAIN days[draft]
    /\ CanMove(days, id, direction)
    /\ \E pos \in Sorted(days) :
        LET a == FirstRow(pos, id)
            b == Neighbour(pos, a, direction)
        IN  days' = [days EXCEPT ![a[1]][a[2]] = -1, ![b[1]][b[2]] = Idx(days, a)]
    /\ Succeed
    /\ UNCHANGED <<periods, blocks, bells, lifecycle>>

\* Parks the day's row at idx -1, writes the neighbour's, then the day's.
MoveDay(id, direction) ==
    /\ draft # NULL
    /\ id \in DOMAIN days[draft]
    /\ CanMove(days, id, direction)
    /\ \E pos \in Sorted(days) :
        LET a == FirstRow(pos, id)
            b == Neighbour(pos, a, direction)
        IN  IF Taken(a, b, b, Idx(days, a)) \/ Taken(a, b, a, Idx(days, b)) THEN Fail
            ELSE /\ days' = [days EXCEPT ![a[1]][a[2]] = Idx(days, b),
                                         ![b[1]][b[2]] = Idx(days, a)]
                 /\ Succeed
                 /\ UNCHANGED <<periods, blocks, bells>>
    /\ UNCHANGED lifecycle

-----------------------------------------------------------------------------
(* SqlAlchemyCalendarPeriodRepository *)

\* derive_starts_new_block, on the periods of revision r.
Markers(r) ==
    [id \in DOMAIN periods[r] |->
        LET earlier == {other \in DOMAIN periods[r] : periods[r][other] < periods[r][id]}
        IN  \A other \in earlier :
                (\A third \in earlier : periods[r][third] <= periods[r][other])
                    => blocks[r][other] # blocks[r][id]]

\* recompute_block_ids: where a natural id occurs twice the last one counts.
BlockNumbers(pos, marker) ==
    LET starts == {k \in 0..(Cardinality(DOMAIN pos) - 1) :
                     k = 0 \/ (At(pos, k)[2] \in DOMAIN marker /\ marker[At(pos, k)[2]])}
        last(id) == Max({pos[x] : x \in {y \in DOMAIN pos : y[2] = id}})
    IN  [x \in DOMAIN pos |-> Cardinality({k \in starts : k <= last(x[2])}) - 1]

\* Mutated form: the rows move and their block ids stay with them.
WritePositionsOnly(pos, marker) ==
    /\ periods' = Reindexed(pos)
    /\ blocks' = [r \in RevisionId |->
            [id \in {x[2] : x \in {y \in DOMAIN pos : y[1] = r}} |->
                IF id \in DOMAIN blocks[r] THEN blocks[r][id] ELSE 0]]
    /\ Succeed
    /\ UNCHANGED days

\* _write_period_sequence, the tail of every period write.
WritePeriodSequence(pos, marker) ==
    /\ periods' = Reindexed(pos)
    /\ blocks' = Reindexed(BlockNumbers(pos, marker))
    /\ Succeed
    /\ UNCHANGED days

\* clock_time_overlaps: neighbours by idx whose times are out of order; a period
\* without times is compared with neither of its neighbours.
ClockOverlaps(idx, bell) ==
    {pair \in (DOMAIN idx) \X (DOMAIN idx) :
        LET p == pair[1]
            q == pair[2]
        IN  /\ NoBell \notin {bell[p], bell[q]}
            /\ bell[p][2] > bell[q][1]
            /\ idx[p] < idx[q]
            /\ \A other \in DOMAIN idx : idx[other] <= idx[p] \/ idx[other] >= idx[q]}

\* Mutated form: the written period is compared with the one before it.
InOrderSoFar(idx, bell, id) == \A pair \in ClockOverlaps(idx, bell) : pair[2] # id

\* validate_period_clock_order, of the periods as they are to be: all of them,
\* whichever is written.
InOrder(idx, bell, id) == ClockOverlaps(idx, bell) = {}

CreatePeriod(id, startsNewBlock, bell) ==
    LET next == Cardinality(DOMAIN periods[draft])
    IN  /\ draft # NULL
        /\ Unused(periods, id)
        /\ Cardinality(Rows(periods)) < MaxPeriodRows
        /\ InOrder(Put(periods[draft], id, next), Put(bells[draft], id, bell), id)
        /\ IF next \in Range(periods[draft]) THEN Fail
           ELSE /\ \E pos \in Sorted([periods EXCEPT ![draft] = Put(@, id, next)]) :
                       WritePeriodSequence(pos, Put(Markers(draft), id, startsNewBlock))
                /\ bells' = [bells EXCEPT ![draft] = Put(@, id, bell)]
        /\ UNCHANGED lifecycle

UpdatePeriod(id, startsNewBlock, bell) ==
    /\ draft # NULL
    /\ id \in DOMAIN periods[draft]
    /\ InOrder(periods[draft], Put(bells[draft], id, bell), id)
    /\ IF Ambiguous(periods, id) THEN Fail
       ELSE /\ \E pos \in Sorted(periods) :
                   WritePeriodSequence(pos, Put(Markers(draft), id, startsNewBlock))
            /\ bells' = [bells EXCEPT ![draft] = Put(@, id, bell)]
    /\ UNCHANGED lifecycle

\* As DeleteDay.  The bell times around the period are not compared.
DeletePeriod(id) ==
    /\ draft # NULL
    /\ Deletable(periods, id)
    /\ \E pos \in Sorted(periods) :
        LET target == FirstRow(pos, id)
        IN  \/ target[1] # draft /\ Fail
            \/ /\ WritePeriodSequence(Without(pos, target),
                                      Restrict(Markers(draft), DOMAIN periods[draft] \ {id}))
               /\ bells' = [bells EXCEPT ![target[1]] = Restrict(@, DOMAIN @ \ {id})]
    /\ UNCHANGED lifecycle

\* There are no time preferences, which no writer creates.  The bell times go
\* with their periods and are not compared.
MovePeriod(id, direction) ==
    /\ draft # NULL
    /\ id \in DOMAIN periods[draft]
    /\ CanMove(periods, id, direction)
    /\ \E pos \in Sorted(periods) :
        LET a == FirstRow(pos, id)
            b == Neighbour(pos, a, direction)
        IN  WritePeriodSequence(Swapped(pos, a, b), Markers(draft))
    /\ UNCHANGED <<bells, lifecycle>>

-----------------------------------------------------------------------------
(* The revision lifecycle, as far as it concerns the calendar. *)

\* The new revision's rows are copies of the published one's.
BeginDraft ==
    /\ draft = NULL
    /\ Cardinality(Rows(days)) + Cardinality(DOMAIN days[published]) <= MaxDayRows
    /\ Cardinality(Rows(periods)) + Cardinality(DOMAIN periods[published]) <= MaxPeriodRows
    /\ \E r \in RevisionId \ live :
        /\ live' = live \union {r}
        /\ draft' = r
        /\ days' = [days EXCEPT ![r] = days[published]]
        /\ periods' = [periods EXCEPT ![r] = periods[published]]
        /\ blocks' = [blocks EXCEPT ![r] = blocks[published]]
        /\ bells' = [bells EXCEPT ![r] = bells[published]]
    /\ Succeed
    /\ UNCHANGED published

DiscardDraft ==
    /\ draft # NULL
    /\ published # NULL
    /\ live' = live \ {draft}
    /\ draft' = NULL
    /\ days' = [days EXCEPT ![draft] = NoRows]
    /\ periods' = [periods EXCEPT ![draft] = NoRows]
    /\ blocks' = [blocks EXCEPT ![draft] = NoRows]
    /\ bells' = [bells EXCEPT ![draft] = NoRows]
    /\ Succeed
    /\ UNCHANGED published

\* _check_day_index_contiguous, _check_period_index_contiguous
Contiguous(idx) == Range(idx) = 0..(Cardinality(DOMAIN idx) - 1)

\* A generation or regeneration whose preflight accepts the calendar.
Publish ==
    /\ draft # NULL
    /\ DOMAIN days[draft] # {} /\ DOMAIN periods[draft] # {}
    /\ Contiguous(days[draft]) /\ Contiguous(periods[draft])
    /\ ClockOverlaps(periods[draft], bells[draft]) = {}
    /\ published' = draft
    /\ draft' = NULL
    /\ Succeed
    /\ UNCHANGED <<live, calendar>>

-----------------------------------------------------------------------------
\* (Bound: there are days or there are bell times.  No writer touches both.)
DayService ==
    /\ \A r \in live : Range(bells[r]) \subseteq {NoBell}
    /\ \E id \in DayId :
        \/ CreateDay(id)
        \/ UpdateDay(id)
        \/ DeleteDay(id)
        \/ \E direction \in {"up", "down"} : MoveDay(id, direction)

PeriodService ==
    \E id \in PeriodId :
        \/ \E starts \in BOOLEAN, bell \in Bell \union {NoBell} :
            /\ bell # NoBell => \A r \in live : days[r] = NoRows
            /\ CreatePeriod(id, starts, bell) \/ UpdatePeriod(id, starts, bell)
        \/ DeletePeriod(id)
        \/ \E direction \in {"up", "down"} : MovePeriod(id, direction)

Next == DayService \/ PeriodService \/ BeginDraft \/ DiscardDraft \/ Publish

Spec == Init /\ [][Next]_vars

-----------------------------------------------------------------------------
TypeOK ==
    /\ live \subseteq RevisionId
    /\ draft \in live \union {NULL}
    /\ published \in live \union {NULL}
    /\ \A r \in RevisionId :
        /\ DOMAIN days[r] \subseteq DayId /\ Range(days[r]) \subseteq Nat
        /\ DOMAIN periods[r] \subseteq PeriodId /\ Range(periods[r]) \subseteq Nat
        /\ DOMAIN blocks[r] = DOMAIN periods[r] /\ Range(blocks[r]) \subseteq Nat
        /\ DOMAIN bells[r] = DOMAIN periods[r] /\ Range(bells[r]) \subseteq Bell \union {NoBell}
    /\ outcome \in {"done", "failed"}

(***************************************************************************)
(* Whatever the writers meet, no two days and no two periods of a revision *)
(* share a position: a write that would leave two of them at one is failed *)
(* by the unique constraint and leaves no trace, never half of itself.     *)
(***************************************************************************)
DistinctPositions ==
    \A r \in RevisionId : IsInjective(days[r]) /\ IsInjective(periods[r])

FirstSetup == published = NULL

(***************************************************************************)
(* Until the first timetable, no sequence of calendar writes makes one of  *)
(* them fail after its validation: the idx a writer computes is free, and  *)
(* no reordering trips over the unique constraint on idx half-way.         *)
(***************************************************************************)
SetupNeverFails == FirstSetup => outcome = "done"

(***************************************************************************)
(* Until the first timetable, days and periods are numbered 0, 1, ... with *)
(* no gap, and blocks are runs of periods numbered the same way: what      *)
(* preflight demands and what "consecutive periods" is computed from.      *)
(***************************************************************************)
SetupCalendarShape ==
    FirstSetup =>
        /\ Contiguous(days[1]) /\ Contiguous(periods[1])
        /\ \A p, q \in PeriodId :
            {p, q} \subseteq DOMAIN periods[1] =>
                /\ periods[1][p] = 0 => blocks[1][p] = 0
                /\ periods[1][q] = periods[1][p] + 1 => blocks[1][q] - blocks[1][p] \in {0, 1}

(***************************************************************************)
(* Until the first timetable, a break belongs to the period it precedes:   *)
(* creating, deleting or moving periods changes no other period's marker,  *)
(* but that the period that comes first always has one.                    *)
(***************************************************************************)
BreaksTravelWithPeriods ==
    [][(FirstSetup /\ FirstSetup' /\ periods' # periods) =>
        \A id \in DOMAIN periods[1] \intersect DOMAIN periods'[1] :
            periods'[1][id] # 0 => Markers(1)'[id] = Markers(1)[id]]_vars

(***************************************************************************)
(* Bell times that preflight would turn down appear only where no writer   *)
(* looks: when a period is moved, or when one without times is taken from  *)
(* between two others.  No creation or update lets them in, at whatever    *)
(* position, and taking away a period with times leaves the rest in order. *)
(***************************************************************************)
ClockOrderLostOnlyByReordering ==
    [][\/ ClockOverlaps(periods[1], bells[1]) # {}
       \/ ClockOverlaps(periods'[1], bells'[1]) = {}
       \/ DOMAIN periods'[1] = DOMAIN periods[1] /\ periods'[1] # periods[1]
       \/ \E id \in DOMAIN periods[1] \ DOMAIN periods'[1] : bells[1][id] = NoBell]_<<periods, bells>>

(***************************************************************************)
(* The documented rule that calendar writes go to the draft and never      *)
(* touch a published revision.                                             *)
(***************************************************************************)
PublishedCalendarImmutable ==
    [][\A r \in live \ {draft} :
        UNCHANGED <<days[r], periods[r], blocks[r], bells[r]>>]_vars

(***************************************************************************)
(* The documented rule that configuration writes succeed again once a      *)
(* draft is open beside a published revision.                              *)
(***************************************************************************)
DraftWritesSucceed == outcome = "done"
=============================================================================
