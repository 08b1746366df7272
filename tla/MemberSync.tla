------------------------------ MODULE MemberSync ------------------------------
(***************************************************************************)
(* The daily copy of SES's members into the person table.                   *)
(*                                                                         *)
(* Each unit is synced by a run of its own, from a queue: a run fetches the  *)
(* unit's people from SES, looks their rows up, reads the unit's roster, and *)
(* writes what it has planned one call at a time.  Runs of different units   *)
(* overlap, and a member may have moved between them.  Someone missing from  *)
(* their unit's page is first marked and only deleted after Grace days.      *)
(*                                                                         *)
(* Days pass between runs, never during one.  Ages stop counting where the   *)
(* code no longer tells them apart.                                         *)
(***************************************************************************)
EXTENDS Naturals, FiniteSets

CONSTANTS
    Members,         \* people, by registration number and SES id
    Units,
    Ids,             \* identifiers of person rows
    None,
    Grace,           \* days a marker must age
    Stale,           \* days after which the last successful sync is too old
    MinCandidates, Percent,    \* the cap on absences of one run
    MaxMutations,    \* the tripwire on other writes of one run
    MaxChanges,      \* bound: changes in SES, deletions and requests by admins
    MaxGlitches,     \* bound: people whom a page leaves out or garbles
    MaxFailures      \* bound: runs that fail half way

ASSUME ConstantsAssumption ==
    /\ IsFiniteSet(Members) /\ None \notin Members \cup Units \cup Nat
    /\ Grace \in Nat \ {0} /\ Stale \in Nat
    /\ MinCandidates \in Nat /\ Percent \in 0..100 /\ MaxMutations \in Nat
    /\ MaxChanges \in Nat /\ MaxGlitches \in Nat /\ MaxFailures \in Nat

VARIABLES
    ses, stay,   \* SES: the unit of each member, and for how many days (2: or more; 3: always)
    row,         \* the person table
    last,        \* per unit: days since its last successful sync
    due,         \* per unit: a message is in the queue
    run,         \* per unit: how far its run is, the page it has, the writes it still has to make
    changes, glitches, failures,
    stopped      \* some run has been stopped for planning too much

vars == <<ses, stay, row, last, due, run, changes, glitches, failures, stopped>>

-----------------------------------------------------------------------------
NoRow == [who |-> None, ses |-> FALSE, loc |-> None, del |-> FALSE, miss |-> None]

Row == [who : Members,                  \* registration_number
        ses : BOOLEAN,                  \* ses_api_person_id is set
        loc : Units,
        del : BOOLEAN,
        miss : 0..Grace \cup {None}]    \* missing_since, as its age
       \cup {NoRow}

Live(r) == row[r].who # None /\ ~row[r].del
Known(m) == {r \in Ids : row[r].who = m}

\* What a unit's page says of a member: nothing, a row the sync can use, or one it cannot
\* (no id or number, flagged deleted, of another primary unit).
Page == [Members -> {"absent", "item", "mention"}]

Kinds == {"create", "adopt", "undelete", "move", "clear", "mark", "delete"}
Change == [kind : Kinds, who : Members \cup {None}, id : Ids \cup {None}]

Run == [at : {"idle", "look", "roster", "apply"}, page : Page, todo : SUBSET Change]

Idle == [at |-> "idle", page |-> [m \in Members |-> "absent"], todo |-> {}]

TypeOK ==
    /\ ses \in [Members -> Units \cup {None}] /\ stay \in [Members -> 0..3]
    /\ row \in [Ids -> Row]
    /\ last \in [Units -> 0..Stale + 1] /\ due \in [Units -> BOOLEAN]
    /\ run \in [Units -> Run]
    /\ changes \in Nat /\ glitches \in Nat /\ failures \in Nat /\ stopped \in BOOLEAN

Init ==
    /\ ses \in [Members -> Units] /\ stay = [m \in Members |-> 3]
    /\ row = [r \in Ids |-> NoRow]
    /\ last = [u \in Units |-> Stale + 1] /\ due = [u \in Units |-> TRUE]
    /\ run = [u \in Units |-> Idle]
    /\ changes = 0 /\ glitches = 0 /\ failures = 0 /\ stopped = FALSE

-----------------------------------------------------------------------------
(* A run *)

PageOf(u) == [m \in Members |-> IF ses[m] = u THEN "item" ELSE "absent"]

\* fetch_people_for_headquarters and parse_ses_payload.
Fetch(u) ==
    /\ run[u].at = "idle" /\ due[u]
    /\ \E page \in Page :
        /\ \A m \in Members : ses[m] # u => page[m] = "absent"
        /\ glitches' = glitches + Cardinality({m \in Members : page[m] # PageOf(u)[m]})
        /\ glitches' <= MaxGlitches
        /\ run' = [run EXCEPT ![u] = [Idle EXCEPT !.at = "look", !.page = page]]
    /\ UNCHANGED <<ses, stay, row, last, due, changes, failures, stopped>>

Writes(kind, ids) == {[kind |-> kind, who |-> row[r].who, id |-> r] : r \in ids}

\* Defect: members are looked up by their SES id only.
PlansBySesId(u) ==
    LET items == {m \in Members : run[u].page[m] = "item"}
        found == {r \in Ids : row[r].who \in items}
        known == {r \in found : row[r].ses}
        back  == {r \in known : row[r].del}
        moved == {r \in known : row[r].loc # u} \cup back
    IN  {[kind |-> "create", who |-> m, id |-> None] : m \in {i \in items : Known(i) \cap known = {}}}
        \cup Writes("undelete", back) \cup Writes("move", moved)
        \cup Writes("clear", {r \in moved : row[r].miss # None})

\* build_plans_for_location, and the markers of the people it plans for (C2).
Plans(u) ==
    LET items == {m \in Members : run[u].page[m] = "item"}
        found == {r \in Ids : row[r].who \in items}
        adopt == {r \in found : ~row[r].ses}
        back  == {r \in found \ adopt : row[r].del}
        moved == {r \in found \ adopt : row[r].loc # u} \cup back
    IN  {[kind |-> "create", who |-> m, id |-> None] : m \in {i \in items : Known(i) = {}}}
        \cup Writes("adopt", adopt) \cup Writes("undelete", back) \cup Writes("move", moved)
        \cup Writes("clear", {r \in adopt \cup moved : row[r].miss # None})

\* The lookups by SES id and number; two rows for one person would be an error.
LookUp(u) ==
    /\ run[u].at = "look"
    /\ run' = [run EXCEPT ![u].at = "roster", ![u].todo = Plans(u)]
    /\ UNCHANGED <<ses, stay, row, last, due, changes, glitches, failures, stopped>>

Seen(u, r) == run[u].page[row[r].who] # "absent"
Roster(u) == {r \in Ids : Live(r) /\ row[r].loc = u}
Synced(u) == {r \in Roster(u) : row[r].ses}
Candidates(u) == {r \in Synced(u) : ~Seen(u, r)}

Cap(u) ==
    LET share == (Cardinality(Synced(u)) * Percent) \div 100
    IN  IF MinCandidates > share THEN MinCandidates ELSE share

\* Rows that are all unusable stand the pass down; a page with no rows at all does not.
Usable(u) ==
    LET page == run[u].page
    IN  (\E m \in Members : page[m] = "mention") => \E m \in Members : page[m] = "item"

OverCap(u) == Usable(u) /\ Cardinality(Candidates(u)) > Cap(u)

OverMutations(u) ==
    Cardinality({c.who : c \in {d \in run[u].todo : d.kind # "clear"}}) > MaxMutations

\* Defect: the marker is stamped anew by every run.
Restamped(u) == {r \in Candidates(u) : row[r].miss = None \/ row[r].miss < Grace}

Marked(u) == {r \in Candidates(u) : row[r].miss = None}

\* Defect: any old marker is taken for two sightings.
RipeWhateverTheSync(u) == {r \in Candidates(u) : row[r].miss # None /\ row[r].miss >= Grace}

\* Markers that have aged, unless the unit has not synced for a while: then they all look old.
Ripe(u) ==
    {r \in Candidates(u) : row[r].miss # None /\ row[r].miss >= Grace /\ last[u] <= Stale}

\* Defect: nobody's marker is cleared.
AbsenceKeepingMarkers(u) ==
    IF Usable(u) THEN Writes("mark", Marked(u)) \cup Writes("delete", Ripe(u)) ELSE {}

\* plan_absence_changes: markers of the roster's people the page mentions are cleared (C1),
\* whatever stands the rest down.
Absence(u) ==
    Writes("clear", {r \in Roster(u) : row[r].miss # None /\ Seen(u, r)})
    \cup IF Usable(u) THEN Writes("mark", Marked(u)) \cup Writes("delete", Ripe(u)) ELSE {}

ReadRoster(u) ==
    /\ run[u].at = "roster"
    /\ ~OverCap(u) /\ ~OverMutations(u)
    /\ run' = [run EXCEPT ![u].at = "apply", ![u].todo = @ \cup Absence(u)]
    /\ UNCHANGED <<ses, stay, row, last, due, changes, glitches, failures, stopped>>

\* Too much has changed to be true: nothing is written, and the message is dead-lettered
\* after failing three times.
Aborts(u) ==
    /\ run[u].at = "roster"
    /\ OverCap(u) \/ OverMutations(u)
    /\ run' = [run EXCEPT ![u] = Idle]
    /\ due' = [due EXCEPT ![u] = FALSE]
    /\ stopped' = TRUE
    /\ UNCHANGED <<ses, stay, row, last, changes, glitches, failures>>

Stage(c) ==
    CASE c.kind \in {"create", "undelete"} -> 1
      [] c.kind \in {"adopt", "move"}      -> 2
      [] c.kind = "clear"                  -> 3
      [] c.kind = "mark"                   -> 4
      [] c.kind = "delete"                 -> 5

\* One person's writes in order, everyone's before the markers, deletions last.
IsNext(c, todo) ==
    \A d \in todo : Stage(d) < Stage(c) => Stage(c) <= 2 /\ d.who # c.who

\* Defect: a deleted person keeps no unit.
DeletedFromUnit(r) == [row EXCEPT ![r].del = TRUE, ![r].miss = None, ![r].loc = None]

Deleted(r) == [row EXCEPT ![r].del = TRUE, ![r].miss = None]

Written(u, c) ==
    CASE c.kind = "adopt"    -> [row EXCEPT ![c.id].ses = TRUE]
      [] c.kind = "undelete" -> [row EXCEPT ![c.id].del = FALSE, ![c.id].miss = None]
      [] c.kind = "move"     -> [row EXCEPT ![c.id].loc = u]
      [] c.kind = "clear"    -> [row EXCEPT ![c.id].miss = None]
      [] c.kind = "mark"     -> [row EXCEPT ![c.id].miss = 0]
      [] c.kind = "delete"   -> Deleted(c.id)

\* One call of apply_changes.
Apply(u, c) ==
    /\ run[u].at = "apply" /\ c \in run[u].todo /\ IsNext(c, run[u].todo)
    /\ c.kind # "create"
    /\ row' = Written(u, c)
    /\ run' = [run EXCEPT ![u].todo = @ \ {c}]
    /\ UNCHANGED <<ses, stay, last, due, changes, glitches, failures, stopped>>

\* Ids are as good as each other.
NewId == CHOOSE r \in Ids : row[r].who = None

\* The row of a new member is put first and gets its SES id in a second call.
Create(u, c) ==
    /\ run[u].at = "apply" /\ c \in run[u].todo /\ IsNext(c, run[u].todo)
    /\ c.kind = "create"
    /\ \E r \in Ids : row[r].who = None
    /\ row' = [row EXCEPT ![NewId] = [NoRow EXCEPT !.who = c.who, !.loc = u]]
    /\ run' = [run EXCEPT ![u].todo = (@ \ {c}) \cup {[kind |-> "adopt", who |-> c.who, id |-> NewId]}]
    /\ UNCHANGED <<ses, stay, last, due, changes, glitches, failures, stopped>>

\* LocationUpdateShape::LastSyncTime, and the message is deleted.
Finish(u) ==
    /\ run[u].at = "apply" /\ run[u].todo = {}
    /\ last' = [last EXCEPT ![u] = 0] /\ due' = [due EXCEPT ![u] = FALSE]
    /\ run' = [run EXCEPT ![u] = Idle]
    /\ UNCHANGED <<ses, stay, row, changes, glitches, failures, stopped>>

\* SES, the table or the Lambda fails: delivered again, or dead-lettered.
Fails(u) ==
    /\ run[u].at # "idle" /\ failures < MaxFailures
    /\ failures' = failures + 1
    /\ run' = [run EXCEPT ![u] = Idle]
    /\ \E again \in BOOLEAN : due' = [due EXCEPT ![u] = again]
    /\ UNCHANGED <<ses, stay, row, last, changes, glitches, stopped>>

-----------------------------------------------------------------------------
(* SES, admins and the clock *)

Budget == changes < MaxChanges /\ changes' = changes + 1

\* SES changes a member at most once a day, and a newcomer stays until there is a row for
\* them: two units that met one at once would both create the row.
Moves(m, u) ==
    /\ Budget /\ stay[m] > 0 /\ ses[m] # u
    /\ ses[m] = None \/ Known(m) # {}
    /\ ses' = [ses EXCEPT ![m] = u] /\ stay' = [stay EXCEPT ![m] = 0]
    /\ UNCHANGED <<row, last, due, run, glitches, failures, stopped>>

\* delete_person
DeletePerson(r) ==
    /\ Budget /\ Live(r)
    /\ row' = Deleted(r)
    /\ UNCHANGED <<ses, stay, last, due, run, glitches, failures, stopped>>

\* enqueue_member_sync
EnqueueMemberSync(u) ==
    /\ Budget /\ ~due[u]
    /\ due' = [due EXCEPT ![u] = TRUE]
    /\ UNCHANGED <<ses, stay, row, last, run, glitches, failures, stopped>>

Older(age, limit) == IF age < limit THEN age + 1 ELSE age

\* A day passes once the day's messages are dealt with; the dispatcher queues the next ones.
Day ==
    /\ \A u \in Units : ~due[u]
    /\ stay' = [m \in Members |-> Older(stay[m], 2)]
    /\ last' = [u \in Units |-> Older(last[u], Stale + 1)]
    /\ row' = [r \in Ids |-> IF row[r].miss = None THEN row[r]
                             ELSE [row[r] EXCEPT !.miss = Older(@, Grace)]]
    /\ due' = [u \in Units |-> TRUE]
    /\ UNCHANGED <<ses, run, changes, glitches, failures, stopped>>

-----------------------------------------------------------------------------
Runs(u) ==
    \/ Fetch(u) \/ LookUp(u) \/ ReadRoster(u) \/ Aborts(u) \/ Finish(u)
    \/ \E c \in run[u].todo : Apply(u, c) \/ Create(u, c)

Next ==
    \/ \E u \in Units : Runs(u) \/ Fails(u) \/ EnqueueMemberSync(u)
    \/ \E m \in Members, u \in Units \cup {None} : Moves(m, u)
    \/ \E r \in Ids : DeletePerson(r)
    \/ Day

Spec == Init /\ [][Next]_vars

\* Queued runs get on, and days pass.
Fairness == (\A u \in Units : WF_vars(Runs(u))) /\ WF_vars(Day)

FairSpec == Spec /\ Fairness

-----------------------------------------------------------------------------
(* Properties *)

\* The lookups find at most one row for a person, whatever runs overlap and wherever they fail
\* (at_most_one fails the sync of the unit for ever otherwise).
OneRowPerMember == \A p, q \in Ids : row[p].who # None /\ row[p].who = row[q].who => p = q

\* The sync deletes nobody whom SES has had in one unit for two days while every page is right
\* and every run succeeds (none fails half way, or is stopped for planning too much); and for
\* those who have always been there it takes more than two pages that left them out, whatever
\* runs fail or are stopped in between.
NobodyHereIsDeleted ==
    [][\A u \in Units, r \in Ids :
          run[u].at = "apply" /\ Live(r) /\ row'[r].del /\ run'[u] # run[u] =>
              LET m == row[r].who IN
              ses[m] = None \/ stay[m] < 2 \/ (stay[m] = 2 /\ (glitches + failures > 0 \/ stopped))]_vars

Listed(m, u) == \E r \in Known(m) : Live(r) /\ row[r].loc = u /\ row[r].ses /\ row[r].miss = None

\* A member SES has in a unit ends up on that unit's roster, without a marker, unless a run
\* keeps being stopped by the cap.
EventuallyListed ==
    \A m \in Members, u \in Units :
        <>[](ses[m] = u) => <>[]Listed(m, u) \/ []<><<\E v \in Units : Aborts(v)>>_vars

\* A member who has left SES ends up deleted.
EventuallyRemoved ==
    \A m \in Members :
        <>[](ses[m] = None) =>
            <>[](\A r \in Known(m) : row[r].del \/ ~row[r].ses) \/ []<><<\E v \in Units : Aborts(v)>>_vars
=============================================================================
