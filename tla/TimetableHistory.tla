---------------------------- MODULE TimetableHistory ----------------------------
(***************************************************************************)
(* What the school-timetable service promises its users, with every        *)
(* request taking effect at one instant.  A year is a history of           *)
(* timetables, each with the configuration it was made for, and at most    *)
(* one open draft configuration.  Every entry of the history is what its   *)
(* request makes of the newest entry at that instant: no request is        *)
(* computed from something already superseded, and nothing is lost.        *)
(***************************************************************************)
EXTENDS Integers, Sequences

CONSTANTS Problem, Provisioned, Timetable, Placement, Placed, Fits, LockFits, Moves, NoDraft

VARIABLES
    draft,      \* the open draft configuration, or NoDraft
    history     \* <<[problem, timetable, locks], ...>>, newest last

Current == history[Len(history)]
Entry(p, t, ls) == [problem |-> p, timetable |-> t, locks |-> ls]
Extend(entry) == history' = Append(history, entry)

HistoryInit == draft = Provisioned /\ history = <<>>

OpenDraft ==
    /\ draft = NoDraft
    /\ draft' = Current.problem
    /\ UNCHANGED history

EditDraft ==
    /\ draft # NoDraft
    /\ draft' \in Problem
    /\ UNCHANGED history

DropDraft ==
    /\ draft # NoDraft
    /\ history # <<>>
    /\ draft' = NoDraft
    /\ UNCHANGED history

\* The first timetable fits the draft, which becomes its configuration.
Generate ==
    /\ history = <<>>
    /\ \E t \in Timetable :
        /\ <<draft, draft, t>> \in Fits
        /\ Extend(Entry(draft, t, {}))
    /\ draft' = NoDraft

\* A regenerated timetable fits the draft, and keeps exactly the locks of the
\* timetable it replaces that are feasible under it, in their places.
Regenerate ==
    /\ history # <<>>
    /\ draft # NoDraft
    /\ \E t \in Timetable :
        LET kept == {k \in Current.locks : <<draft, Current.timetable, k>> \in LockFits}
        IN  /\ <<draft, draft, t>> \in Fits
            /\ kept \subseteq Placed[t]
            /\ Extend(Entry(draft, t, kept))
    /\ draft' = NoDraft

Valid == <<Current.problem, Current.problem, Current.timetable>> \in Fits

\* Edits start from the newest timetable and leave configurations alone.
\* Hand edits need it to be a valid one.
Move ==
    /\ history # <<>>
    /\ Valid
    /\ \E t \in Timetable :
        /\ <<Current.timetable, t>> \in Moves
        /\ <<Current.problem, Current.problem, t>> \in Fits
        /\ Extend(Entry(Current.problem, t, Current.locks))
    /\ UNCHANGED draft

Lock ==
    /\ history # <<>>
    /\ Valid
    /\ \E k \in Placed[Current.timetable] :
        Extend(Entry(Current.problem, Current.timetable, Current.locks \union {k}))
    /\ UNCHANGED draft

Unlock ==
    /\ history # <<>>
    /\ Valid
    /\ \E k \in Placed[Current.timetable] :
        Extend(Entry(Current.problem, Current.timetable, Current.locks \ {k}))
    /\ UNCHANGED draft

Reoptimize ==
    /\ history # <<>>
    /\ \E t \in Timetable :
        /\ <<Current.problem, Current.problem, t>> \in Fits
        /\ Current.locks \intersect Placed[Current.timetable] \subseteq Placed[t]
        /\ Extend(Entry(Current.problem, t, Current.locks))
    /\ UNCHANGED draft

\* Restoring an older timetable is possible while its entries, with the people
\* and rooms they were made with, fit the configuration in force.  It is then
\* an entry of that configuration, whose people and rooms may be others.
Restore ==
    /\ history # <<>>
    /\ \E i \in 1..(Len(history) - 1) :
        /\ <<Current.problem, history[i].problem, history[i].timetable>> \in Fits
        /\ Extend(Entry(Current.problem, history[i].timetable, history[i].locks))
    /\ UNCHANGED draft

HistoryVars == <<draft, history>>

Extending ==
    \/ Generate \/ Regenerate
    \/ Move \/ Lock \/ Unlock \/ Reoptimize \/ Restore

\* A step changes something; one that does not is a stuttering step.
HistoryNext ==
    /\ HistoryVars' # HistoryVars
    /\ \/ OpenDraft \/ EditDraft \/ DropDraft
       \/ Extending

HistorySpec == HistoryInit /\ [][HistoryNext]_HistoryVars
=============================================================================
