------------------------------- MODULE Periods -------------------------------
(***************************************************************************)
(* The period rows, and the mutation handlers that write them: signing in    *)
(* and out at a kiosk or from Tally, guests, and the admin app's edits.      *)
(*                                                                         *)
(* A handler looks or reads first, then writes, is audited, and publishes;   *)
(* each of these calls is a step, so that handlers interleave between them.  *)
(* A row also holds location_open and location_live, the hash keys of the    *)
(* sparse indexes behind the lists of who is signed in and of all periods.   *)
(***************************************************************************)
EXTENDS Naturals, FiniteSets

CONSTANTS
    Ids,          \* identifiers of periods
    Members, Guest,
    Units,        \* the locations
    Handlers,     \* calls that can run at once
    None,
    IndexLags,    \* the person index may lag behind the table (it does)
    MaxCalls,     \* bound: calls that go past their checks
    MaxFailures   \* bound: calls that fail half way

ASSUME ConstantsAssumption ==
    /\ None \notin Units /\ Guest \notin Members /\ None \notin Members \cup {Guest}
    /\ IndexLags \in BOOLEAN /\ MaxCalls \in Nat /\ MaxFailures \in Nat

VARIABLES
    row,       \* the period table
    idx,       \* the rows as person_id-start_time-index has them
    call,      \* per handler: the mutation, how far it is, and what it read
    log,       \* the audit log: the versions of periods it has an entry for
    told,      \* period.opened and period.closed messages published
    calls, failures

vars == <<row, idx, call, log, told, calls, failures>>

-----------------------------------------------------------------------------
(* The rows *)

Row == [ver : Nat,                            \* v; 0: there is no such item
        who : Members \cup {Guest, None},
        loc : Units \cup {None},
        ended : BOOLEAN, del : BOOLEAN,       \* end_time, deleted
        open : Units \cup {None},             \* location_open
        live : Units \cup {None}]             \* location_live

NoRow == [ver |-> 0, who |-> None, loc |-> None, ended |-> FALSE, del |-> FALSE,
          open |-> None, live |-> None]

Exists(r) == r.ver > 0
IsOpen(r) == Exists(r) /\ ~r.ended /\ ~r.del

\* start_period_for_person_location
Started(m, u) == [NoRow EXCEPT !.ver = 1, !.who = m, !.loc = u, !.open = u, !.live = u]

\* start_guest_period
GuestStarted(u) == [NoRow EXCEPT !.ver = 1, !.who = Guest, !.loc = u, !.open = u, !.live = u]

\* create_period
Created(m, u) == [NoRow EXCEPT !.ver = 1, !.who = m, !.loc = u, !.ended = TRUE, !.live = u]

\* Defect: a write path forgets to remove location_open.
EndedStillListed(r) == [r EXCEPT !.ver = @ + 1, !.ended = TRUE]

\* end_period, and what every shape of an edit does.
Ended(r) == [r EXCEPT !.ver = @ + 1, !.ended = TRUE, !.open = None]

\* PeriodUpdateShape::TimeCategory
TimeCategory(r) == Ended(r)

\* Defect: the period moves and its index entry stays behind.
FieldsUnlisted(r, m, u) == [Ended(r) EXCEPT !.who = m, !.loc = u]

\* PeriodUpdateShape::Fields sets location_live, whether the period is deleted or not.
Fields(r, m, u) == [Ended(r) EXCEPT !.who = m, !.loc = u, !.live = u]

\* PeriodUpdateShape::Guest
GuestFields(r) == Ended(r)

\* Defect: a deletion is no new version.
DeletedSameVersion(r) == [r EXCEPT !.del = TRUE, !.open = None, !.live = None]

\* PeriodUpdateShape::Delete
Deleted(r) == [r EXCEPT !.ver = @ + 1, !.del = TRUE, !.open = None, !.live = None]

-----------------------------------------------------------------------------
(* The handlers *)

Openings == {"scan", "self_in", "guest_in"}
Closings == {"kiosk_out", "self_out", "guest_out"}
Edits    == {"edit", "edit_time", "edit_guest", "delete"}
Ops      == Openings \cup {"create"} \cup Closings \cup Edits

Call == [op : Ops \cup {None},
         at : {"idle", "start", "before", "write", "record", "tell"},
         p : Ids \cup {None},
         who : Members \cup {Guest, None}, loc : Units \cup {None},
         seen : Row,        \* the row read and checked
         before : BOOLEAN,  \* whether the row AuditingHandler read had ended
         ver : Nat]         \* the version the write returned

Idle == [op |-> None, at |-> "idle", p |-> None, who |-> None, loc |-> None,
         seen |-> NoRow, before |-> FALSE, ver |-> 0]

Message == [p : Ids, ver : Nat, open : BOOLEAN, loc : Units]

TypeOK ==
    /\ row \in [Ids -> Row] /\ idx \in [Ids -> Row]
    /\ call \in [Handlers -> Call]
    /\ log \subseteq [p : Ids, ver : Nat, open : BOOLEAN]
    /\ told \subseteq Message
    /\ calls \in Nat /\ failures \in Nat

Init ==
    /\ row = [p \in Ids |-> NoRow] /\ idx = row
    /\ call = [x \in Handlers |-> Idle]
    /\ log = {} /\ told = {}
    /\ calls = 0 /\ failures = 0

Begin(x) == call[x].at = "idle" /\ calls < MaxCalls /\ calls' = calls + 1

\* Defect: a write path is passed straight through to the table.
PutUnaudited(x, p, r, c) ==
    /\ row' = [row EXCEPT ![p] = r]
    /\ idx' = IF IndexLags THEN idx ELSE row'
    /\ call' = [call EXCEPT ![x] = [c EXCEPT !.at = "tell", !.p = p, !.ver = r.ver]]
    /\ UNCHANGED <<log, told, failures>>

\* The item the write of handler x leaves, and where the handler goes on.
Put(x, p, r, c) ==
    /\ row' = [row EXCEPT ![p] = r]
    /\ idx' = IF IndexLags THEN idx ELSE row'
    /\ call' = [call EXCEPT ![x] = [c EXCEPT !.at = "record", !.p = p, !.ver = r.ver]]
    /\ UNCHANGED <<log, told, failures>>

Fresh(p) == row[p].ver = 0

\* list_periods_for_person with only_unfinished.
OpenPeriods(m, u) == {p \in Ids : idx[p].who = m /\ idx[p].loc = u /\ IsOpen(idx[p])}

\* Nothing open was found; otherwise the call returns that period and writes nothing.
LooksUp(x, op, m, u) ==
    /\ Begin(x)
    /\ OpenPeriods(m, u) = {}
    /\ call' = [call EXCEPT ![x] = [Idle EXCEPT !.op = op, !.at = "start", !.who = m, !.loc = u]]
    /\ UNCHANGED <<row, idx, log, told, failures>>

\* scan_register2, up to its write.
ScanRegister(x, m, u) == LooksUp(x, "scan", m, u)

\* self_sign_in, up to its write.
SelfSignIn(x, m, u) == LooksUp(x, "self_in", m, u)

StartPeriod(x, p) ==
    /\ call[x].at = "start" /\ Fresh(p)
    /\ Put(x, p, Started(call[x].who, call[x].loc), call[x])
    /\ UNCHANGED calls

\* scan_guest_sign_in
GuestSignIn(x, p, u) ==
    /\ Begin(x) /\ Fresh(p)
    /\ Put(x, p, GuestStarted(u), [Idle EXCEPT !.op = "guest_in", !.loc = u])

\* create_period of the admin app
CreatePeriod(x, p, m, u) ==
    /\ Begin(x) /\ Fresh(p)
    /\ Put(x, p, Created(m, u), [Idle EXCEPT !.op = "create"])

\* get_periods, then the checks of each mutation on what it returned.
Reads(x, op, p, m, u) ==
    /\ Begin(x)
    /\ Exists(row[p])
    /\ call' = [call EXCEPT ![x] = [Idle EXCEPT !.op = op, !.p = p, !.seen = row[p], !.who = m, !.loc = u,
                           !.at = IF op = "guest_out" THEN "write" ELSE "before"]]
    /\ UNCHANGED <<row, idx, log, told, failures>>

\* sign_out_at_kiosk: neither who it is nor whether it is open is checked.
ReadForKioskSignOut(x, p) == Reads(x, "kiosk_out", p, None, None)

\* self_sign_out: the version the app last saw has to be the one read.
ReadForSelfSignOut(x, p) ==
    /\ IsOpen(row[p]) /\ row[p].who # Guest
    /\ Reads(x, "self_out", p, None, None)

\* scan_guest_sign_out
ReadForGuestSignOut(x, p) ==
    /\ IsOpen(row[p]) /\ row[p].who = Guest
    /\ Reads(x, "guest_out", p, None, None)

\* update_period: another member, another unit.
ReadForEdit(x, p, m, u) == row[p].who # Guest /\ Reads(x, "edit", p, m, u)

\* update_period_time_category: an admin may edit a deleted period, an edit link may not.
ReadForTimeEdit(x, p) == row[p].who # Guest /\ Reads(x, "edit_time", p, None, None)

\* update_guest_period
ReadForGuestEdit(x, p) == row[p].who = Guest /\ Reads(x, "edit_guest", p, None, None)

\* delete_period
ReadForDelete(x, p) == Reads(x, "delete", p, None, None)

\* update_period of AuditingHandler reads the row again first; end_period compares with the
\* row it is given.
ReadBefore(x) ==
    /\ call[x].at = "before"
    /\ call' = [call EXCEPT ![x].at = "write", ![x].before = row[call[x].p].ended]
    /\ UNCHANGED <<row, idx, log, told, calls, failures>>

\* The condition of the write, beside attribute_exists(id).
ConditionHolds(c, r) ==
    /\ c.op = "self_out" => r.ver = c.seen.ver /\ ~r.ended
    /\ c.op = "guest_out" => ~r.ended

NewRow(c, r) ==
    CASE c.op \in {"kiosk_out", "self_out", "edit_time"} -> TimeCategory(r)
      [] c.op = "guest_out"  -> Ended(r)
      [] c.op = "edit"       -> Fields(r, c.who, c.loc)
      [] c.op = "edit_guest" -> GuestFields(r)
      [] c.op = "delete"     -> Deleted(r)

Write(x) ==
    /\ call[x].at = "write"
    /\ ConditionHolds(call[x], row[call[x].p])
    /\ Put(x, call[x].p, NewRow(call[x], row[call[x].p]), call[x])
    /\ UNCHANGED calls

\* CONFLICT: another writer was first.
Refused(x) ==
    /\ call[x].at = "write"
    /\ ~ConditionHolds(call[x], row[call[x].p])
    /\ call' = [call EXCEPT ![x] = Idle]
    /\ UNCHANGED <<row, idx, log, told, calls, failures>>

Updates == {"kiosk_out", "self_out", "edit", "edit_time", "edit_guest"}

\* AuditingHandler puts an entry once the write has succeeded.  An update that differs in
\* nothing from what was read before leaves none: that row had an end already.
Record(x) ==
    /\ call[x].at = "record"
    /\ \/ log' = log \cup {[p |-> call[x].p, ver |-> call[x].ver, open |-> call[x].op \in Openings]}
       \/ call[x].op \in Updates /\ call[x].before /\ UNCHANGED log
    /\ call' = [call EXCEPT ![x].at = "tell"]
    /\ UNCHANGED <<row, idx, told, calls, failures>>

\* Defect: a close is published to the unit the period is at now.
ClosedAtNewUnit(x) ==
    LET c == call[x] IN
    IF c.op \in Closings \/ (c.op \in Edits /\ IsOpen(c.seen))
    THEN {[p |-> c.p, ver |-> c.ver, open |-> FALSE, loc |-> row[c.p].loc]}
    ELSE {}

\* Defect: a close is published to the unit the request names, which only an edit does.
ClosedAtRequestedUnit(x) ==
    LET c == call[x] IN
    IF c.op \in Closings \/ (c.op \in Edits /\ IsOpen(c.seen))
    THEN {[p |-> c.p, ver |-> c.ver, open |-> FALSE, loc |-> c.loc]}
    ELSE {}

\* publish_period_closed: an edit publishes if the row it read was open, and what it reads
\* again has at least the version it wrote; a deletion publishes the version it wrote.
ClosedMessages(x) ==
    LET c == call[x] IN
    IF c.op \in Closings \/ (c.op \in Edits /\ IsOpen(c.seen))
    THEN {[p |-> c.p, open |-> FALSE, loc |-> c.seen.loc,
           ver |-> IF c.op \in Edits \ {"delete"} THEN row[c.p].ver ELSE c.ver]}
    ELSE {}

\* publish_period_opened
OpenedMessages(x) ==
    LET c == call[x] IN
    IF c.op \in Openings THEN {[p |-> c.p, ver |-> c.ver, open |-> TRUE, loc |-> c.loc]} ELSE {}

\* Publish, and answer.
Tell(x) ==
    /\ call[x].at = "tell"
    /\ told' = told \cup OpenedMessages(x) \cup ClosedMessages(x)
    /\ call' = [call EXCEPT ![x] = Idle]
    /\ UNCHANGED <<row, idx, log, calls, failures>>

\* The audit entry cannot be put: logged and swallowed.
RecordFails(x) ==
    /\ call[x].at = "record" /\ failures < MaxFailures
    /\ failures' = failures + 1
    /\ call' = [call EXCEPT ![x].at = "tell"]
    /\ UNCHANGED <<row, idx, log, told, calls>>

\* The Lambda or one of its calls fails; the caller gets an error.
Fails(x) ==
    /\ call[x].at # "idle" /\ failures < MaxFailures
    /\ failures' = failures + 1
    /\ call' = [call EXCEPT ![x] = Idle]
    /\ UNCHANGED <<row, idx, log, told, calls>>

\* The person index catches up with a row.
Replicate(p) ==
    /\ idx[p] # row[p]
    /\ idx' = [idx EXCEPT ![p] = row[p]]
    /\ UNCHANGED <<row, call, log, told, calls, failures>>

-----------------------------------------------------------------------------
SignIn(x) ==
    \E p \in Ids, m \in Members, u \in Units :
        \/ ScanRegister(x, m, u) \/ SelfSignIn(x, m, u)
        \/ GuestSignIn(x, p, u) \/ CreatePeriod(x, p, m, u)

ReadPeriod(x) ==
    \E p \in Ids :
        \/ ReadForKioskSignOut(x, p) \/ ReadForSelfSignOut(x, p) \/ ReadForGuestSignOut(x, p)
        \/ \E m \in Members, u \in Units : ReadForEdit(x, p, m, u)
        \/ ReadForTimeEdit(x, p) \/ ReadForGuestEdit(x, p) \/ ReadForDelete(x, p)

GoesOn(x) ==
    \/ \E p \in Ids : StartPeriod(x, p)
    \/ ReadBefore(x) \/ Write(x) \/ Refused(x) \/ Record(x) \/ Tell(x) \/ RecordFails(x) \/ Fails(x)

Next ==
    \/ \E x \in Handlers : SignIn(x) \/ ReadPeriod(x) \/ GoesOn(x)
    \/ \E p \in Ids : Replicate(p)

Spec == Init /\ [][Next]_vars

-----------------------------------------------------------------------------
(* Properties *)

\* location_open is present on the open, undeleted periods and on no other, and names their
\* unit, whatever write paths cross each other (SCHEMA.md, the sparse indexes).
OpenIndexIsExact ==
    \A p \in Ids : row[p].open = IF IsOpen(row[p]) THEN row[p].loc ELSE None

\* No period that is not deleted is missing from the list of its unit's periods.
LiveIndexMissesNone ==
    \A p \in Ids : Exists(row[p]) /\ ~row[p].del => row[p].live = row[p].loc

\* When the handlers are done and none has failed, a kiosk that was told of a sign-in has been
\* told, on the channel of the same unit and with a higher version, that it is over, whoever
\* ended, moved or deleted the period, and however many did so at once.
Quiet == \A x \in Handlers : call[x].at = "idle"
CloseIsTold ==
    Quiet /\ failures = 0 =>
        \A m \in told : m.open /\ ~IsOpen(row[m.p]) =>
            \E c \in told : c.p = m.p /\ ~c.open /\ c.loc = m.loc /\ c.ver > m.ver

\* Once the handlers are done, and unless one has failed, every period's creation is in the
\* audit log, and so is the write that ended an open one: two writers that end it at once
\* cannot each take the other's end for the state before ("recorded for every business write").
AuditHasSignInsAndOuts ==
    Quiet /\ failures = 0 =>
        \A p \in Ids : Exists(row[p]) =>
            \E e \in log :
                /\ e.p = p /\ e.ver = 1
                /\ e.open /\ row[p].ver > 1 => \E f \in log : f.p = p /\ f.ver = 2

\* The rows live as PeriodRows says: LivePeriods relies on it.
Rows == INSTANCE PeriodRows WITH
            Periods <- Ids,
            ver  <- [p \in Ids |-> row[p].ver],
            open <- {p \in Ids : IsOpen(row[p])}
RowsSpec == Rows!Spec
=============================================================================
