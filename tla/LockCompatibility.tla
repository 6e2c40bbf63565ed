-------------------------- MODULE LockCompatibility --------------------------
(***************************************************************************)
(* Which locks of the active timetable can be kept under a changed         *)
(* configuration, scheduling/lock_compatibility.py, and the lesson         *)
(* variables the fresh solve is given for them.                            *)
(*                                                                         *)
(* pr is the draft's problem, e the entries of the active timetable.       *)
(***************************************************************************)
EXTENDS Occurrences, SequencesExt

\* The keys are classified in the order of their natural ids, which can be any.
KeyOrders(keys) == SetToSeqs(keys)

FixedSlots(pr, r) == {<<x[2], x[3]>> : x \in {y \in pr.fixed : y[1] = r}}

\* With the fixed lessons, too many lessons or too many block days.
FixedPlacementConflict(pr, occurrence) ==
    \E r \in {x[1] : x \in occurrence} :
        LET slots == FixedSlots(pr, r) \cup {<<x[2], x[3]>> : x \in occurrence}
        IN /\ FixedSlots(pr, r) # {}
           /\ \/ Cardinality(slots) > pr.weekly[r]
              \/ /\ pr.mode[r] = "REQUIRED"
                 /\ Cardinality({slot[1] : slot \in slots}) > Len(pr.sizes[r])

\* Every size of a REQUIRED pattern is used at most as often as it occurs; the
\* same block under another key of its split counts once.
RequiredPatternViolated(pr, occurrence, keptOccurrences) ==
    \E r \in {x[1] : x \in occurrence} :
        LET Block(lessons) == {x \in lessons : x[1] = r}
            kept == {Block(other) : other \in keptOccurrences} \ {{}}
            size == Cardinality(Block(occurrence))
        IN /\ pr.mode[r] = "REQUIRED"
           /\ Block(occurrence) \notin kept
           /\ Cardinality({block \in kept : Cardinality(block) = size})
                  >= Cardinality({i \in DOMAIN pr.sizes[r] : pr.sizes[r][i] = size})

\* A resource may have been deleted or its capacity lowered.
ResourceViolated(pr, occurrence) ==
    \E x \in occurrence :
        /\ pr.resource[x[1]] # None
        /\ \/ pr.resource[x[1]] \notin DOMAIN pr.capacity
           \/ pr.capacity[pr.resource[x[1]]] < 1

\* Mutated: the locks kept before are not counted.
StaysLockedAlone(pr, e, k, kept) ==
    /\ IsOccurrence(pr, e, k[1], k[2], k[3])
    /\ LET occurrence == Occurrence(pr, e, k[1], k[2], k[3])
       IN /\ \A x \in occurrence : <<pr.teacher[x[1]], x[2], x[3]>> \notin pr.unavailable
          /\ ~FixedPlacementConflict(pr, occurrence)
          /\ ~ResourceViolated(pr, occurrence)

\* _classify_one finds nothing against the key k beside the kept keys.
StaysLocked(pr, e, k, kept) ==
    /\ IsOccurrence(pr, e, k[1], k[2], k[3])
    /\ LET occurrence == Occurrence(pr, e, k[1], k[2], k[3])
           keptOccurrences == {Occurrence(pr, e, j[1], j[2], j[3]) : j \in kept}
       IN /\ \A x \in occurrence : <<pr.teacher[x[1]], x[2], x[3]>> \notin pr.unavailable
          /\ ~FixedPlacementConflict(pr, occurrence)
          /\ ~RequiredPatternViolated(pr, occurrence, keptOccurrences)
          /\ ~ResourceViolated(pr, occurrence)

\* classify_locks: the keys, in their order, each beside the compatible ones so
\* far; those that are not in kept are incompatible.
Classified(pr, e, order, kept) ==
    /\ kept \subseteq Range(order)
    /\ \A i \in DOMAIN order :
           order[i] \in kept <=> StaysLocked(pr, e, order[i], kept \cap {order[j] : j \in 1 .. i - 1})

\* resolve_compatible_members
CompatibleMembers(pr, e, keys) == UNION {Occurrence(pr, e, k[1], k[2], k[3]) : k \in keys}
=============================================================================
