-------------------------- MODULE SchoolProvisioning --------------------------
(***************************************************************************)
(* How a school and its first academic year come into being, and what a    *)
(* repeated request is told, persistence/school_provisioning_repository.py.*)
(* A request inserts the school, the year and revision 1 in one            *)
(* transaction, or reads with one SELECT after the other, under no lock,   *)
(* whether exactly that is there already, while the year may be in use     *)
(* (module AcademicYear).                                                  *)
(*                                                                         *)
(* One school id: requests for others do not meet.  A request that trims   *)
(* to a blank field is refused before anything is read, and left out.      *)
(***************************************************************************)
EXTENDS AcademicYear

CONSTANTS
    Client,     \* concurrent requests
    Command,    \* records of a school name, a year id and a year label
    Used,       \* bound: the commands whose year is put to use
    Nothing     \* no school, no command, nobody

ASSUME ProvisioningAssumption ==
    /\ Nothing \notin Client \cup Command
    /\ Used \subseteq Command
    /\ \A asked \in Command : asked = [name |-> asked.name, year |-> asked.year, label |-> asked.label]

VARIABLES
    school,     \* the command whose school and year are committed, or Nothing
    inserter,   \* who has inserted the school and not committed, or Nothing
    stage,      \* of every client: what it does next
    command,    \* of every client: what it was asked
    reply       \* what the last step answered: a command and an outcome

provisioning == <<school, inserter, stage, command, reply>>
provisioningVars == <<year, provisioning>>

Exists == school # Nothing

\* The aggregate is as it was created.
Fresh == draft = 1 /\ published = NULL /\ Live = {1} /\ ~HasSchedule

\* There is no school yet, or one from before revisions were introduced.
ProvisioningInit ==
    /\ \/ Init /\ school = Nothing
       \/ MigratedInit /\ school \in Used
    /\ inserter = Nothing
    /\ stage = [c \in Client |-> "idle"]
    /\ command = [c \in Client |-> Nothing]
    /\ reply = [to |-> Nothing, outcome |-> "none"]

NoReply == reply' = [to |-> Nothing, outcome |-> "none"]

Continue(c, next) ==
    /\ stage' = [stage EXCEPT ![c] = next]
    /\ UNCHANGED command
    /\ NoReply

Answer(c, outcome) ==
    /\ reply' = [to |-> command[c], outcome |-> outcome]
    /\ stage' = [stage EXCEPT ![c] = "idle"]
    /\ command' = [command EXCEPT ![c] = Nothing]

----------------------------------------------------------------------------
\* A first call, or the retry of one whose answer was lost.  (Bound: once the
\* school is there requests only read, and one at a time stands for all.)
Call(c, asked) ==
    /\ stage[c] = "idle"
    /\ Exists => \A other \in Client : stage[other] = "idle"
    /\ stage' = [stage EXCEPT ![c] = "school"]
    /\ command' = [command EXCEPT ![c] = asked]
    /\ NoReply
    /\ UNCHANGED <<year, school, inserter>>

\* _load_existing_or_conflict, one SELECT at a time.  The school row; after a
\* unique violation it must be there.
ReadSchool(c) ==
    /\ stage[c] \in {"school", "reload"}
    /\ \/ ~Exists /\ IF stage[c] = "school" THEN Continue(c, "insert") ELSE Answer(c, "unresolved")
       \/ Exists /\ school.name # command[c].name /\ Answer(c, "school conflict")
       \/ Exists /\ school.name = command[c].name /\ Continue(c, "year")
    /\ UNCHANGED <<year, school, inserter>>

\* The year row, with its label and both pointers.
ReadYear(c) ==
    /\ stage[c] = "year"
    /\ \/ school.year # command[c].year /\ Answer(c, "school conflict")
       \/ /\ school.year = command[c].year
          /\ school.label # command[c].label
          /\ Answer(c, "year conflict")
       \/ /\ school.year = command[c].year
          /\ school.label = command[c].label
          /\ Continue(c, IF draft = 1 /\ published = NULL THEN "revision" ELSE "used")
    /\ UNCHANGED <<year, school, inserter>>

\* The revision with number 1, which must be a draft and the year's.
ReadRevision(c) ==
    /\ stage[c] = "revision"
    /\ Continue(c, IF \E r \in Live : r = 1 /\ revisions[r].number = 1 /\ revisions[r].status = "DRAFT"
                   THEN "count" ELSE "used")
    /\ UNCHANGED <<year, school, inserter>>

CountRevisions(c) ==
    /\ stage[c] = "count"
    /\ Continue(c, IF Cardinality(Live) = 1 THEN "schedule" ELSE "used")
    /\ UNCHANGED <<year, school, inserter>>

\* Mutated: the existence of a timetable is not asked for.
AnswerReplayUnused(c) ==
    /\ stage[c] \in {"schedule", "used"}
    /\ Answer(c, IF stage[c] = "schedule" THEN "provisioned" ELSE "year conflict")
    /\ UNCHANGED <<year, school, inserter>>

\* The last SELECT, for the schedule, and the verdict on all of them.
AnswerReplay(c) ==
    /\ stage[c] \in {"schedule", "used"}
    /\ Answer(c, IF stage[c] = "schedule" /\ ~HasSchedule THEN "provisioned" ELSE "year conflict")
    /\ UNCHANGED <<year, school, inserter>>

\* Mutated: the loser of the race is told of a conflict at once.
InsertOrConflict(c) ==
    /\ stage[c] = "insert"
    /\ inserter = Nothing
    /\ \/ ~Exists /\ inserter' = c /\ Continue(c, "commit")
       \/ Exists /\ Answer(c, "school conflict") /\ UNCHANGED inserter
    /\ UNCHANGED <<year, school>>

\* The school row.  An equal key that is not committed yet is waited for; a
\* committed one is a unique violation, after which everything is read again.
Insert(c) ==
    /\ stage[c] = "insert"
    /\ inserter = Nothing
    /\ \/ ~Exists /\ inserter' = c /\ Continue(c, "commit")
       \/ Exists /\ Continue(c, "reload") /\ UNCHANGED inserter
    /\ UNCHANGED <<year, school>>

\* The year, revision 1 and the draft pointer follow in the same transaction.
Commit(c) ==
    /\ stage[c] = "commit"
    /\ school' = command[c]
    /\ inserter' = Nothing
    /\ Answer(c, "provisioned")
    /\ UNCHANGED year

\* The process dies or the connection is lost: the transaction is rolled back.
Abort(c) ==
    /\ stage[c] # "idle"
    /\ inserter' = IF inserter = c THEN Nothing ELSE inserter
    /\ stage' = [stage EXCEPT ![c] = "idle"]
    /\ command' = [command EXCEPT ![c] = Nothing]
    /\ NoReply
    /\ UNCHANGED <<year, school>>

\* What the other repositories do with the year, once it is there.
UseYear ==
    /\ Exists /\ school \in Used
    /\ Next
    /\ NoReply
    /\ UNCHANGED <<school, inserter, stage, command>>

ProvisioningNext ==
    \/ \E c \in Client :
          \/ \E asked \in Command : Call(c, asked)
          \/ ReadSchool(c) \/ ReadYear(c) \/ ReadRevision(c) \/ CountRevisions(c)
          \/ AnswerReplay(c) \/ Insert(c) \/ Commit(c) \/ Abort(c)
    \/ UseYear

ProvisioningSpec == ProvisioningInit /\ [][ProvisioningNext]_provisioningVars

----------------------------------------------------------------------------
(***************************************************************************)
(* Who is told that the school was provisioned finds the school and year   *)
(* asked for, unused but for edits of the first draft, at the moment of    *)
(* the answer: the reads of a replay may be torn by a generation, but not  *)
(* so that a year in use passes for a new one.                             *)
(***************************************************************************)
ProvisionedIsFresh ==
    reply.outcome = "provisioned" => school = reply.to /\ Fresh

(***************************************************************************)
(* Who is told of a conflict has one: equal requests that race, and        *)
(* retries of a request whose process died or whose answer was lost, are   *)
(* answered alike until the year is used, and the loser of the race always *)
(* finds the winner's rows.                                                *)
(***************************************************************************)
ConflictsAreReal ==
    /\ reply.outcome # "unresolved"
    /\ reply.outcome = "school conflict"
           => Exists /\ (school.name # reply.to.name \/ school.year # reply.to.year)
    /\ reply.outcome = "year conflict"
           => Exists /\ (school.label # reply.to.label \/ ~Fresh)
=============================================================================
