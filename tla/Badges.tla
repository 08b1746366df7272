------------------------------- MODULE Badges -------------------------------
(***************************************************************************)
(* One member's badges: kiosk scans, periods entered by an admin and the     *)
(* nightly job rewrite the whole state by compare-and-swap; each evening     *)
(* what was won since is mailed, and the mail recorded.                      *)
(*                                                                         *)
(* Days are counted in evenings: a win of day d can be mailed by the runs    *)
(* of the evenings d to d + Evenings - 1.  Requests end within their day.    *)
(* Reads of the member may be one write behind.  A write may take effect     *)
(* although its answer is lost; the SDK then sends it again, and it fails    *)
(* its own condition.                                                       *)
(***************************************************************************)
EXTENDS Integers, FiniteSets

CONSTANTS
    Units,
    Scanners,        \* requests that credit an event: scans and created periods
    None,
    Threshold,       \* sign-ins the counted badge takes
    Evenings,        \* LOOKBACK_SECS, in evenings
    Back,            \* RECENT_SECONDS: how many days back the nightly job dates a badge
    MaxAgo, MaxAhead,    \* bound: days off that an admin dates a period
    MaxAttempts,
    MaxEvents,       \* bound: events credited and badges awarded at night
    MaxDay,          \* bound: days
    MaxFaults        \* bound: lost answers, and evenings that fail or run again

ASSUME ConstantsAssumption ==
    /\ Units # {} /\ None \notin Nat /\ Threshold \in Nat \ {0} /\ MaxAttempts \in Nat \ {0}
    /\ Evenings \in Nat /\ Back \in Nat /\ Back < Evenings
    /\ MaxAgo \in Nat /\ MaxAhead \in Nat /\ Back <= MaxAgo
    /\ MaxEvents \in Nat /\ MaxDay \in Nat /\ MaxFaults \in Nat

VARIABLES
    day,
    row, stale,  \* badge_state, and what a read that is behind returns
    writer,      \* badge_store::update of each scanner and of the nightly job
    congrats,    \* this evening's run
    record,      \* badge_congrats_sent
    events, faults,
    \* history:
    credited,    \* per unit: events whose request was told they are saved
    repeated,    \* per unit: writes saved whose answer was lost
    celebrated,  \* per badge: times a kiosk has shown it
    mailed, unrecorded,    \* per win: mails, and mails that were not recorded
    given,       \* per win: the day it was saved
    lost         \* per win: evenings since then whose run failed

vars == <<day, row, stale, writer, congrats, record, events, faults,
          credited, repeated, celebrated, mailed, unrecorded, given, lost>>
mail == <<congrats, record, mailed, unrecorded, lost>>
store == <<row, stale, writer, given, credited, repeated, celebrated>>

-----------------------------------------------------------------------------
\* One badge that events count towards, one that only the nightly job awards.
Ids == {"counted", "nightly"}
Win == Units \X Ids

\* BadgeState: check_in_count, awarded_badge_times and displayed_badge_ids of each location.
State == [count : [Units -> Nat], at : [Win -> Nat \cup {None}], shown : SUBSET Win]

Writers == Scanners \cup {"night"}

\* What a writer is to do, to the state it has read.
Writer == [at : {"idle", "write", "conflict"}, seen : State, attempt : 0..MaxAttempts,
           unit : Units, show : BOOLEAN, time : Nat, begun : Nat]

Run == [at : {"idle", "list", "record", "send", "put", "done"},
        from : Int, to : Nat, wins : SUBSET Win, new : SUBSET Win]

TypeOK ==
    /\ day \in Nat /\ events \in Nat /\ faults \in Nat
    /\ row \in State /\ stale \in State
    /\ writer \in [Writers -> Writer]
    /\ congrats \in Run
    /\ record \subseteq Win
    /\ credited \in [Units -> Nat] /\ repeated \in [Units -> Nat]
    /\ celebrated \in [Ids -> Nat]
    /\ mailed \in [Win -> Nat] /\ unrecorded \in [Win -> Nat] /\ lost \in [Win -> Nat]
    /\ given \in [Win -> Nat \cup {None}]

Fresh == [count |-> [u \in Units |-> 0], at |-> [w \in Win |-> None], shown |-> {}]

IdleWriter == [at |-> "idle", seen |-> Fresh, attempt |-> 0,
               unit |-> CHOOSE u \in Units : TRUE, show |-> FALSE, time |-> 0, begun |-> 0]

NoRun == [at |-> "idle", from |-> 0, to |-> 0, wins |-> {}, new |-> {}]

\* The first day is one that everything can be dated back from.
Init ==
    /\ day = MaxAgo
    /\ row = Fresh /\ stale = Fresh
    /\ writer = [w \in Writers |-> IdleWriter]
    /\ congrats = NoRun
    /\ record = {}
    /\ events = 0 /\ faults = 0
    /\ credited = [u \in Units |-> 0] /\ repeated = [u \in Units |-> 0]
    /\ celebrated = [b \in Ids |-> 0]
    /\ mailed = [w \in Win |-> 0] /\ unrecorded = [w \in Win |-> 0] /\ lost = [w \in Win |-> 0]
    /\ given = [w \in Win |-> None]

Fault == faults < MaxFaults /\ faults' = faults + 1

-----------------------------------------------------------------------------
(* What a writer makes of a state *)

\* Defect: dated back once more.
AwardDatedBack(s, w, time) == IF s.at[w] = None THEN [s EXCEPT !.at[w] = time - Back] ELSE s

\* award_if_missing, and the same test in apply_event.
Award(s, w, time) == IF s.at[w] = None THEN [s EXCEPT !.at[w] = time] ELSE s

\* apply_event, of a rule that counts.
ApplyEvent(s, u, time) ==
    LET counted == [s EXCEPT !.count[u] = @ + 1]
    IN  IF counted.count[u] >= Threshold THEN Award(counted, <<u, "counted">>, time) ELSE counted

Awarded(s, b) == {w \in Win : w[2] = b /\ s.at[w] # None}

\* Defect: each unit's award of a badge is celebrated.
UndisplayedPerUnit(s) == {b \in Ids : ~(Awarded(s, b) \subseteq s.shown)}

\* undisplayed_awards_all_locations: a badge shown for one unit has been shown.
Undisplayed(s) == {b \in Ids : Awarded(s, b) # {} /\ Awarded(s, b) \cap s.shown = {}}

\* mark_awards_displayed_all_locations
MarkDisplayed(s, ids) == [s EXCEPT !.shown = @ \cup UNION {Awarded(s, b) : b \in ids}]

Credited(s, w) == ApplyEvent(s, w.unit, w.time)

Change(id) ==
    LET w == writer[id] IN
    IF id = "night" THEN Award(w.seen, <<w.unit, "nightly">>, w.time)
    ELSE IF w.show THEN MarkDisplayed(Credited(w.seen, w), Undisplayed(Credited(w.seen, w)))
    ELSE Credited(w.seen, w)

ToShow(id) ==
    LET w == writer[id] IN
    IF id # "night" /\ w.show THEN Undisplayed(Credited(w.seen, w)) ELSE {}

-----------------------------------------------------------------------------
(* badge_store::update *)

Begin(id, w) ==
    /\ writer[id].at = "idle"
    /\ events < MaxEvents /\ events' = events + 1
    /\ \E s \in {row, stale} : writer' = [writer EXCEPT ![id] = [w EXCEPT !.seen = s]]
    /\ UNCHANGED <<day, row, stale, given, credited, repeated, celebrated, faults>> /\ UNCHANGED mail

\* A kiosk scan, which may be able to show badges, is of today; a period an admin creates is
\* of whatever day the request says.
BeginEvent(id, u, show, time) ==
    /\ time \in (day - MaxAgo)..(day + MaxAhead) /\ (show => time = day)
    /\ Begin(id, [at |-> "write", seen |-> Fresh, attempt |-> 1, unit |-> u, show |-> show,
                  time |-> time, begun |-> day])

\* The nightly rules find that a sign-in of the last days has earned the badge.
BeginNight(u, time) ==
    /\ congrats.at \in {"idle", "done"} /\ time \in (day - Back)..day
    /\ Begin("night", [at |-> "write", seen |-> Fresh, attempt |-> 1, unit |-> u, show |-> FALSE,
                       time |-> time, begun |-> day])

Counts(id, n) == [u \in Units |-> IF id # "night" /\ u = writer[id].unit THEN n[u] + 1 ELSE n[u]]

Finish(id) == writer' = [writer EXCEPT ![id] = IdleWriter]

Save(id) ==
    /\ row' = Change(id) /\ stale' = row
    /\ given' = [w \in Win |-> IF Change(id).at[w] # row.at[w] THEN day ELSE given[w]]

\* Defect: saved whatever is stored now.
WriteAnyway(id) ==
    /\ writer[id].at = "write"
    /\ Save(id)
    /\ credited' = Counts(id, credited)
    /\ celebrated' = [b \in Ids |-> IF b \in ToShow(id) THEN celebrated[b] + 1 ELSE celebrated[b]]
    /\ Finish(id)
    /\ UNCHANGED <<day, repeated, events, faults>> /\ UNCHANGED mail

\* The state is as it was read.
Write(id) ==
    /\ writer[id].at = "write" /\ row = writer[id].seen
    /\ Save(id)
    /\ credited' = Counts(id, credited)
    /\ celebrated' = [b \in Ids |-> IF b \in ToShow(id) THEN celebrated[b] + 1 ELSE celebrated[b]]
    /\ Finish(id)
    /\ UNCHANGED <<day, repeated, events, faults>> /\ UNCHANGED mail

\* The nightly job has nothing to add to what it read.
NothingToWrite(id) ==
    /\ writer[id].at = "write" /\ Change(id) = writer[id].seen
    /\ Finish(id)
    /\ UNCHANGED <<day, row, stale, given, credited, repeated, celebrated, events, faults>> /\ UNCHANGED mail

\* Out of attempts, a writer gives up: badges are best effort.
Refused(id) == writer' = [writer EXCEPT ![id] =
                   IF @.attempt < MaxAttempts THEN [@ EXCEPT !.at = "conflict"] ELSE IdleWriter]

Conflict(id) ==
    /\ writer[id].at = "write" /\ row # writer[id].seen /\ Change(id) # writer[id].seen
    /\ Refused(id)
    /\ UNCHANGED <<day, row, stale, given, credited, repeated, celebrated, events, faults>> /\ UNCHANGED mail

\* Saved, but the answer is lost and the SDK's second try fails.
AnswerLost(id) ==
    /\ Fault
    /\ writer[id].at = "write" /\ row = writer[id].seen /\ Change(id) # row
    /\ Save(id)
    /\ repeated' = Counts(id, repeated)
    /\ Refused(id)
    /\ UNCHANGED <<day, credited, celebrated, events>> /\ UNCHANGED mail

ReadAgain(id) ==
    /\ writer[id].at = "conflict"
    /\ \E s \in {row, stale} :
        writer' = [writer EXCEPT ![id].at = "write", ![id].seen = s, ![id].attempt = @ + 1]
    /\ UNCHANGED <<day, row, stale, given, credited, repeated, celebrated, events, faults>> /\ UNCHANGED mail

-----------------------------------------------------------------------------
(* The evening's congratulations *)

EndOfDay ==
    /\ congrats.at \in {"idle", "done"} /\ day < MaxDay /\ day' = day + 1
    /\ writer["night"].at = "idle"
    /\ \A id \in Scanners : writer[id].at = "idle" \/ writer[id].begun = day
    /\ stale' = row

\* A run starts at the end of a day; what is won from then on is of the next.
StartCongrats ==
    /\ EndOfDay
    /\ congrats' = [NoRun EXCEPT !.at = "list", !.from = day - (Evenings - 1), !.to = day]
    /\ UNCHANGED <<row, writer, given, credited, repeated, celebrated>>
    /\ UNCHANGED <<record, mailed, unrecorded, lost, events, faults>>

\* The first evening whose run can mail a win: of the day it is of or the day it was saved.
FirstEvening(w) == IF row.at[w] > given[w] THEN row.at[w] ELSE given[w]

\* An evening is lost for what could have been mailed on it.
Lose(evening) ==
    lost' = [w \in Win |-> IF row.at[w] # None /\ FirstEvening(w) <= evening THEN lost[w] + 1 ELSE lost[w]]

\* The evening's run does not take place.
MissCongrats ==
    /\ EndOfDay /\ Fault /\ Lose(day)
    /\ congrats' = NoRun
    /\ UNCHANGED <<row, writer, given, credited, repeated, celebrated>>
    /\ UNCHANGED <<record, mailed, unrecorded, events>>

\* list_members_for_location, wins_for
List ==
    /\ congrats.at = "list"
    /\ \E s \in {row, stale} :
        congrats' = [congrats EXCEPT !.at = "record", !.wins =
            {w \in Win : s.at[w] # None /\ s.at[w] >= congrats.from /\ s.at[w] <= congrats.to}]
    /\ UNCHANGED <<day, record, mailed, unrecorded, lost, events, faults>> /\ UNCHANGED store

\* Defect: everything in the window is new.
ReadNoRecord ==
    /\ congrats.at = "record"
    /\ congrats' = [congrats EXCEPT !.new = congrats.wins,
                                   !.at = IF congrats.wins = {} THEN "done" ELSE "send"]
    /\ UNCHANGED <<day, record, mailed, unrecorded, lost, events, faults>> /\ UNCHANGED store

\* get_ephemeral_state, and what it does not list.
ReadRecord ==
    /\ congrats.at = "record"
    /\ congrats' = [congrats EXCEPT !.new = congrats.wins \ record,
                                   !.at = IF congrats.wins \subseteq record THEN "done" ELSE "send"]
    /\ UNCHANGED <<day, record, mailed, unrecorded, lost, events, faults>> /\ UNCHANGED store

Plus(f, S) == [w \in Win |-> IF w \in S THEN f[w] + 1 ELSE f[w]]

Mail ==
    /\ congrats.at = "send"
    /\ mailed' = Plus(mailed, congrats.new)
    /\ congrats' = [congrats EXCEPT !.at = "put"]
    /\ UNCHANGED <<day, record, unrecorded, lost, events, faults>> /\ UNCHANGED store

PutRecord ==
    /\ congrats.at = "put"
    /\ record' = congrats.wins
    /\ congrats' = [congrats EXCEPT !.at = "done"]
    /\ UNCHANGED <<day, mailed, unrecorded, lost, events, faults>> /\ UNCHANGED store

\* The mail has gone but the record is not written: the call fails, or the Lambda stops.
PutFails ==
    /\ congrats.at = "put" /\ Fault
    /\ unrecorded' = Plus(unrecorded, congrats.new)
    /\ congrats' = [congrats EXCEPT !.at = "done"]
    /\ UNCHANGED <<day, record, mailed, lost, events>> /\ UNCHANGED store

\* The run fails before the mail has gone, and is not tried again.
CongratsFails ==
    /\ congrats.at \in {"list", "record", "send"} /\ Fault /\ Lose(day - 1)
    /\ congrats' = NoRun
    /\ UNCHANGED <<day, record, mailed, unrecorded, events>> /\ UNCHANGED store

\* Lambda runs it again, a minute later, when somebody could not be congratulated.
RunAgain ==
    /\ congrats.at # "idle" /\ congrats.at # "put" /\ Fault
    /\ congrats' = [NoRun EXCEPT !.at = "list", !.from = congrats.from, !.to = day]
    /\ stale' = row
    /\ UNCHANGED <<day, record, mailed, unrecorded, lost, events>>
    /\ UNCHANGED <<row, writer, given, credited, repeated, celebrated>>

-----------------------------------------------------------------------------
Update(id) == Write(id) \/ NothingToWrite(id) \/ Conflict(id) \/ AnswerLost(id) \/ ReadAgain(id)

Next ==
    \/ \E id \in Scanners, u \in Units, show \in BOOLEAN, time \in (day - MaxAgo)..(day + MaxAhead) :
            BeginEvent(id, u, show, time)
    \/ \E u \in Units, time \in (day - Back)..day : BeginNight(u, time)
    \/ \E id \in Writers : Update(id)
    \/ StartCongrats \/ MissCongrats
    \/ List \/ ReadRecord \/ Mail \/ PutRecord \/ PutFails \/ CongratsFails \/ RunAgain

Spec == Init /\ [][Next]_vars

-----------------------------------------------------------------------------
(* Properties *)

\* No event is lost to a concurrent write of the same member: the count is what requests were
\* told is saved, and what was saved although its answer was lost.
CountsEveryEvent == \A u \in Units : row.count[u] = credited[u] + repeated[u]

\* A badge is celebrated at one kiosk at most, whatever scans overlap and however many units
\* award it.
CelebratedOnce == \A b \in Ids : celebrated[b] <= 1

\* Too old for the next evening's run, with none in progress.
TooOld(w) == row.at[w] # None /\ congrats.at \in {"idle", "done"} /\ row.at[w] + Evenings <= day

\* A win is mailed once, but for mails that could not be recorded.  And whatever day it is dated,
\* it is not missed while a run can see it: once too old it has been mailed, or every evening
\* failed from the first that could mail it.  What a back-dated period wins may be too old when
\* it is saved; there is no such evening then, and nothing is asked.
EachWinIsMailed ==
    \A w \in Win :
        /\ mailed[w] <= 1 + unrecorded[w]
        /\ TooOld(w) => mailed[w] > 0 \/ lost[w] >= row.at[w] + Evenings - FirstEvening(w)
=============================================================================
