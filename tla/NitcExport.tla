------------------------------ MODULE NitcExport ------------------------------
(***************************************************************************)
(* The NITC export: how an activity period edited through the GraphQL API   *)
(* reaches a NITC (a non-incident record) in the SES API.                   *)
(*                                                                         *)
(*   editors   mutation handlers of api/src/graphql/mutations.rs.  Each     *)
(*             reads the period, writes it, bumps the version of the event  *)
(*             it *read*, and queues a "period_export".                     *)
(*   workers   runs of nitc-export-lambda, each with one SQS message.       *)
(*             A "period_export" runs Phase 1 (assign_period), which moves   *)
(*             the period to its event and queues an "event_export"; that   *)
(*             runs Phase 2 (sync_nitc_event), which PUTs the whole          *)
(*             participant list of the event to SES.                        *)
(*   queue     the SQS standard queue between them, and its dead letters.   *)
(*                                                                         *)
(* Every action is one database, queue or SES call with the local code up   *)
(* to the next await, so any two handlers interleave between their calls.   *)
(***************************************************************************)
EXTENDS Naturals, Sequences, Bags

CONSTANTS
    Periods,      \* activity periods (rows of the period table)
    Groups,       \* NITC groups a category can map to
    NoGroup,      \* no category, or one that maps to no NITC group
    Slots,        \* (location, Sydney date) pairs a period can be in
    Exportable,   \* the slots whose location exports and that pass its cutover
    None,         \* no event, no period, no message
    Editors,      \* mutation handlers that can be in progress at once
    Workers,      \* Lambda invocations that can run at once (2 deployed)
    MaxReceive,   \* maxReceiveCount of the queue's redrive policy (3 deployed)
    MaxEdits,     \* bound: mutations started
    MaxScans,     \* bound: periods enqueued by the backfill command
    MaxFaults     \* bound: crashes, failed calls and duplicate deliveries

ASSUME ConstantsAssumption ==
    /\ Periods # {} /\ Slots # {}
    /\ Exportable \subseteq Slots
    /\ NoGroup \notin Groups
    /\ None \notin Slots \X Groups /\ None \notin Periods
    /\ MaxReceive \in Nat \ {0}
    /\ MaxEdits \in Nat /\ MaxScans \in Nat /\ MaxFaults \in Nat

\* nitc_event ids are deterministic in (location, group, date), so the id is the pair.
Events == Slots \X Groups

VARIABLES
    per,      \* the period table
    evt,      \* the nitc_event table
    ses,      \* the NITCs in SES, in order of creation: an id is a position
    queue,    \* messages waiting in SQS
    dlq,      \* bodies that reached the dead-letter queue
    ed,       \* each mutation handler: where it is and what it read
    pc,       \* each worker: the call it makes next
    hand,     \* each worker: the message it was invoked with
    got,      \* each worker: the period Phase 1 read
    oldv,     \* each worker: version of the event the period moves off (0: none)
    newv,     \* each worker: event version to enqueue (Phase 1) or to mark (Phase 2)
    sid,      \* each worker: the SES NITC that Phase 2 writes (0: not created)
    ids,      \* each worker: period ids Phase 2 listed
    rows,     \* each worker: period rows Phase 2 read and has not yet written back
    edits, scans, faults   \* how much of each bound is used

worker == <<pc, hand, got, oldv, newv, sid, ids, rows>>
vars == <<per, evt, ses, queue, dlq, ed, worker, edits, scans, faults>>

-----------------------------------------------------------------------------
(* Types *)

Period == [ver   : Nat,            \* `v`; 0 while the row does not exist
           exp   : Nat,            \* nitc_exported_version; 0: never exported
           ended : BOOLEAN,        \* end_time is present
           del   : BOOLEAN,        \* deleted is present
           live  : BOOLEAN,        \* location_live is present: the period is in that index
           grp   : Groups \cup {NoGroup},
           slot  : Slots,
           ev    : Events \cup {None},   \* nitc_event_id
           part  : Nat]            \* the NITC nitc_participant_id belongs to; 0: none

Event == [ver    : Nat,            \* `v`; 0 while the row does not exist
          synced : Nat,            \* synced_version; 0: never
          sid    : Nat]            \* ses_api_nitc_id; 0: not created

PeriodExport == [kind : {"period_export"}, period : Periods]
EventExport  == [kind : {"event_export"}, event : Events, version : Nat]
Body == PeriodExport \cup EventExport
Message == [body : Body, receives : Nat]
Editor == [at : {"idle", "write", "bump", "enqueue"}, p : Periods \cup {None},
           old : Events \cup {None},   \* nitc_event_id as the handler read it
           seen : Nat]                    \* expected_version; 0: unconditional

Entry == [period : Periods, ver : Nat, grp : Groups \cup {NoGroup}]
Row   == [period : Periods, rec : Period]
Nitc  == [ev : Events, roster : SUBSET Entry]

PeriodMsg(p) == [kind |-> "period_export", period |-> p]
EventMsg(e, v) == [kind |-> "event_export", event |-> e, version |-> v]

NoPeriod == [ver |-> 0, exp |-> 0, ended |-> FALSE, del |-> FALSE, live |-> FALSE,
             grp |-> NoGroup, slot |-> CHOOSE s \in Slots : TRUE,
             ev |-> None, part |-> 0]
NoMessage == [body |-> None, receives |-> 0]
IdleEditor == [at |-> "idle", p |-> None, old |-> None, seen |-> 0]

-----------------------------------------------------------------------------
(* What the database writes do to a row *)

\* `ADD v :one`
Bumped(r) == [r EXCEPT !.ver = @ + 1]

\* PeriodUpdateShape::TimeCategory: both times and the category.
TimeCategory(r, g, s) == [r EXCEPT !.ver = @ + 1, !.ended = TRUE, !.grp = g, !.slot = s]

\* PeriodUpdateShape::Fields: the place too.  It puts the period in the location_live index,
\* a deleted one included.
Fields(r, g, s) == [TimeCategory(r, g, s) EXCEPT !.live = TRUE]

\* PeriodUpdateShape::Delete
Deleted(r) == [r EXCEPT !.ver = @ + 1, !.del = TRUE, !.live = FALSE]

\* Defect: the participant id survives the move (SCHEMA.md records this bug as fixed).
ReassignedKeepingParticipant(r, e) == [r EXCEPT !.ev = e]

\* Defect: the participant id is set to null where the code removes it.
ReassignedToNull(r, e) == [r EXCEPT !.ev = e, !.part = None]

\* `SET nitc_event_id = :event_id REMOVE nitc_participant_id`
Reassigned(r, e) == [r EXCEPT !.ev = e, !.part = 0]

\* Defect: the version after this one is recorded.
ExportedTooFar(r, v) == [r EXCEPT !.exp = v + 1]

\* `SET nitc_exported_version = :v`
ExportedAt(r, v) == [r EXCEPT !.exp = v]

\* update_period_nitc_exported: event, participant and exported version, unconditionally
Exported(r, e, n, v) == [r EXCEPT !.ev = e, !.part = n, !.exp = v]

\* Defect: the exported version is removed with the pointers.
ClearedAll(r, v) == [r EXCEPT !.ev = None, !.part = 0, !.exp = 0]

\* `REMOVE nitc_participant_id, nitc_event_id SET nitc_exported_version = :v`
Cleared(r, v) == [r EXCEPT !.ev = None, !.part = 0, !.exp = v]

-----------------------------------------------------------------------------
(* Eligibility, and what Phase 2 sends *)

EventOf(r) == <<r.slot, r.grp>>

\* The checks of assign_period that send an ineligible period to skip_or_detach.
Eligible(r) == r.grp # NoGroup /\ r.slot \in Exportable

\* Periods Phase 2 sends: "only live, ended periods are sent to SES".
Live(r) == ~r.del /\ r.ended

EntryOf(p, r) == [period |-> p, ver |-> r.ver, grp |-> r.grp]
LiveRows(rs) == {x \in rs : Live(x.rec)}
Roster(rs) == {EntryOf(x.period, x.rec) : x \in LiveRows(rs)}

\* Defect: only periods without a group are caught.
MismatchedIfUngrouped(e, rs) == \E x \in LiveRows(rs) : x.rec.grp = NoGroup

\* The guard before SES is called: every live period's group is the event's group.
Mismatched(e, rs) == \E x \in LiveRows(rs) : x.rec.grp # e[2]

\* Deleted periods whose participant the PUT has just dropped.
Dropped(x) == x.rec.del /\ x.rec.part # 0

-----------------------------------------------------------------------------
(* The queue: a bag, so that a duplicate is a second copy *)

Put(q, b, n) == q (+) SetToBag({[body |-> b, receives |-> n]})
Send(q, b) == Put(q, b, 0)

-----------------------------------------------------------------------------
Init ==
    /\ per = [p \in Periods |-> NoPeriod]
    /\ evt = [e \in Events |-> [ver |-> 0, synced |-> 0, sid |-> 0]]
    /\ ses = <<>>
    /\ queue = EmptyBag
    /\ dlq = {}
    /\ ed = [x \in Editors |-> IdleEditor]
    /\ pc = [w \in Workers |-> "idle"]
    /\ hand = [w \in Workers |-> NoMessage]
    /\ got = [w \in Workers |-> NoPeriod]
    /\ oldv = [w \in Workers |-> 0]
    /\ newv = [w \in Workers |-> 0]
    /\ sid = [w \in Workers |-> 0]
    /\ ids = [w \in Workers |-> {}]
    /\ rows = [w \in Workers |-> {}]
    /\ edits = 0 /\ scans = 0 /\ faults = 0

-----------------------------------------------------------------------------
(* Mutation handlers *)

EditorStep == UNCHANGED <<ses, dlq, worker, scans, faults>>
StartEdit == edits < MaxEdits /\ edits' = edits + 1
Begin(x, at, p, old, seen) ==
    /\ ed[x].at = "idle"
    /\ ed' = [ed EXCEPT ![x] = [at |-> at, p |-> p, old |-> old, seen |-> seen]]

\* start_period_for_person_location: a kiosk or self sign-in opens a period.  It has
\* no category, so nothing is queued.
StartPeriod(p, s) ==
    /\ StartEdit
    /\ per[p].ver = 0
    /\ per' = [per EXCEPT ![p] = [@ EXCEPT !.ver = 1, !.live = TRUE, !.slot = s]]
    /\ UNCHANGED <<evt, queue, ed>> /\ EditorStep

\* create_period: an admin enters a finished period.  "Newly created period is not yet
\* assigned to any NITC event", so there is no event to bump.
CreatePeriod(x, p, g, s) ==
    /\ StartEdit
    /\ per[p].ver = 0
    /\ per' = [per EXCEPT ![p] = Fields(@, g, s)]
    /\ Begin(x, "enqueue", p, None, 0)
    /\ UNCHANGED <<evt, queue>> /\ EditorStep

\* The get_periods at the head of sign_out_at_kiosk, update_period,
\* update_period_time_category and delete_period: none refuses a period that is
\* deleted or already ended.
ReadForEdit(x, p) ==
    /\ StartEdit
    /\ per[p].ver > 0
    /\ Begin(x, "write", p, per[p].ev, 0)
    /\ UNCHANGED <<per, evt, queue>> /\ EditorStep

\* The get_periods of self_sign_out, which goes on with an open period only, and only
\* at the version the app last saw.
ReadForSelfSignOut(x, p) ==
    /\ StartEdit
    /\ per[p].ver > 0 /\ ~per[p].del /\ ~per[p].ended
    /\ Begin(x, "write", p, per[p].ev, per[p].ver)
    /\ UNCHANGED <<per, evt, queue>> /\ EditorStep

\* The condition of a TimeCategory write that carries an expected_version.
ConditionHolds(c, r) == c.seen # 0 => r.ver = c.seen /\ ~r.ended

Written(x) ==
    ed' = [ed EXCEPT ![x].at = IF ed[x].old = None THEN "enqueue" ELSE "bump"]

\* update_period of the admin app: unconditional.
WriteFields(x, g, s) ==
    /\ ed[x].at = "write" /\ ed[x].seen = 0
    /\ per' = [per EXCEPT ![ed[x].p] = Fields(@, g, s)]
    /\ Written(x)
    /\ UNCHANGED <<evt, queue, edits>> /\ EditorStep

\* update_period of a kiosk sign-out, a change of time or category, or a self sign-out.
WriteTimeCategory(x, g, s) ==
    /\ ed[x].at = "write"
    /\ ConditionHolds(ed[x], per[ed[x].p])
    /\ per' = [per EXCEPT ![ed[x].p] = TimeCategory(@, g, s)]
    /\ Written(x)
    /\ UNCHANGED <<evt, queue, edits>> /\ EditorStep

\* delete_period.
DeletePeriod(x) ==
    /\ ed[x].at = "write" /\ ed[x].seen = 0
    /\ per' = [per EXCEPT ![ed[x].p] = Deleted(@)]
    /\ Written(x)
    /\ UNCHANGED <<evt, queue, edits>> /\ EditorStep

\* A self sign-out that lost to another writer: CONFLICT, and nothing changes.
RefuseSelfSignOut(x) ==
    /\ ed[x].at = "write"
    /\ ~ConditionHolds(ed[x], per[ed[x].p])
    /\ ed' = [ed EXCEPT ![x] = IdleEditor]
    /\ UNCHANGED <<per, evt, queue, edits>> /\ EditorStep

\* enqueue_nitc_export, first half: the version bump of the event that was *read*.
BumpOldEvent(x) ==
    /\ ed[x].at = "bump"
    /\ evt' = [evt EXCEPT ![ed[x].old] = Bumped(@)]
    /\ ed' = [ed EXCEPT ![x].at = "enqueue"]
    /\ UNCHANGED <<per, queue, edits>> /\ EditorStep

\* enqueue_nitc_export, second half.
EnqueuePeriodExport(x) ==
    /\ ed[x].at = "enqueue"
    /\ queue' = Send(queue, PeriodMsg(ed[x].p))
    /\ ed' = [ed EXCEPT ![x] = IdleEditor]
    /\ UNCHANGED <<per, evt, edits>> /\ EditorStep

\* A call of the handler fails, or the API server stops, after the period was written.
\* A failed bump fails the mutation, a failed send is only logged; either way the
\* period keeps its new version and nothing is queued.
EditorFails(x) ==
    /\ faults < MaxFaults /\ faults' = faults + 1
    /\ ed[x].at \in {"bump", "enqueue"}
    /\ ed' = [ed EXCEPT ![x] = IdleEditor]
    /\ UNCHANGED <<per, evt, ses, queue, dlq, worker, edits, scans>>

\* backfill_unsynced_periods, for one period of its scan of the location_live index.
Backfill(p) ==
    /\ scans < MaxScans /\ scans' = scans + 1
    /\ per[p].live
    /\ Eligible(per[p])
    /\ per[p].exp < per[p].ver
    /\ queue' = Send(queue, PeriodMsg(p))
    /\ UNCHANGED <<per, evt, ses, dlq, ed, worker, edits, faults>>

-----------------------------------------------------------------------------
(* The Lambda and its queue *)

Outside == UNCHANGED <<ed, edits, scans>>

At(w, here) == pc[w] = here
GoTo(w, there) == pc' = [pc EXCEPT ![w] = there]

\* The invocation is over: its locals are gone.
Reset(w) ==
    /\ pc' = [pc EXCEPT ![w] = "idle"]
    /\ hand' = [hand EXCEPT ![w] = NoMessage]
    /\ got' = [got EXCEPT ![w] = NoPeriod]
    /\ oldv' = [oldv EXCEPT ![w] = 0]
    /\ newv' = [newv EXCEPT ![w] = 0]
    /\ sid' = [sid EXCEPT ![w] = 0]
    /\ ids' = [ids EXCEPT ![w] = {}]
    /\ rows' = [rows EXCEPT ![w] = {}]

\* SQS hands one message to a free invocation (batch_size 1) and hides it: the
\* visibility timeout is longer than the Lambda's own.
Receive(w, m) ==
    /\ At(w, "idle")
    /\ BagIn(m, queue)
    /\ queue' = queue (-) SetToBag({m})
    /\ hand' = [hand EXCEPT ![w] = [body |-> m.body, receives |-> m.receives + 1]]
    /\ GoTo(w, IF m.body.kind = "period_export" THEN "read period" ELSE "read event")
    /\ UNCHANGED <<per, evt, ses, dlq, got, oldv, newv, sid, ids, rows, faults>> /\ Outside

\* Defect: a failing message is sent anew, so its receive count starts again.
ReturnForever(w) ==
    /\ Reset(w)
    /\ queue' = Put(queue, hand[w].body, 0)
    /\ UNCHANGED dlq

\* The invocation ends with an error or is killed: the message shows up again, or is
\* dead-lettered once it has been received MaxReceive times.
Return(w) ==
    /\ Reset(w)
    /\ IF hand[w].receives < MaxReceive
       THEN /\ queue' = Put(queue, hand[w].body, hand[w].receives)
            /\ UNCHANGED dlq
       ELSE /\ dlq' = dlq \cup {hand[w].body}
            /\ UNCHANGED queue

Crash(w) ==
    /\ faults < MaxFaults /\ faults' = faults + 1
    /\ ~At(w, "idle")
    /\ Return(w)
    /\ UNCHANGED <<per, evt, ses>> /\ Outside

\* A standard queue delivers at least once.
Duplicate(m) ==
    /\ faults < MaxFaults /\ faults' = faults + 1
    /\ BagIn(m, queue)
    /\ queue' = queue (+) SetToBag({m})
    /\ UNCHANGED <<per, evt, ses, dlq, worker>> /\ Outside

-----------------------------------------------------------------------------
(* Phase 1: assign_period, and skip_or_detach at its head *)

Target(w) == hand[w].body.period
Desired(w) == EventOf(got[w])

\* Defect: an ineligible period is skipped even if it is still attached to an event.
VerdictWithoutDetach(r) ==
    CASE ~Eligible(r)        -> "skip"
      [] Eligible(r) /\ r.exp >= r.ver -> "synced"
      [] OTHER               -> "get event"

\* Where assign_period goes after reading the period: "skip" and "synced" return at once.
Verdict(r) ==
    CASE ~Eligible(r) /\ r.ev = None             -> "skip"
      [] ~Eligible(r) /\ r.ev # None             -> "bump detached"
      [] Eligible(r) /\ ~r.ended /\ r.part = 0      -> "set exported"
      [] Eligible(r) /\ (r.ended \/ r.part # 0)
         /\ r.exp >= r.ver                          -> "synced"
      [] OTHER                                      -> "get event"

\* get_periods, then the category and the location (configuration, taken as fixed).
ReadPeriod(w) ==
    /\ At(w, "read period")
    /\ LET r == per[Target(w)]
       IN  IF Verdict(r) \in {"skip", "synced"}
           THEN Reset(w)
           ELSE /\ got' = [got EXCEPT ![w] = r]
                /\ GoTo(w, Verdict(r))
                /\ UNCHANGED <<hand, oldv, newv, sid, ids, rows>>
    /\ UNCHANGED <<per, evt, ses, queue, dlq, faults>> /\ Outside

\* Defect: the put is not conditional on the row's absence.
OverwriteEvent(w) ==
    /\ At(w, "get event")
    /\ evt' = [evt EXCEPT ![Desired(w)] = [ver |-> 1, synced |-> 0, sid |-> 0]]
    /\ GoTo(w, CASE got[w].ev = None       -> "set event"
                  [] got[w].ev = Desired(w) -> "bump event"
                  [] OTHER                  -> "bump old event")
    /\ UNCHANGED <<per, ses, queue, dlq, hand, got, oldv, newv, sid, ids, rows, faults>>
    /\ Outside

\* get_or_create_nitc_event_for_day: a get, and a put conditional on the row's absence
\* that falls back to the winner's row; whoever wins, the row exists afterwards.
GetOrCreateEvent(w) ==
    /\ At(w, "get event")
    /\ evt' = [evt EXCEPT ![Desired(w)].ver = IF @ = 0 THEN 1 ELSE @]
    /\ GoTo(w, CASE got[w].ev = None    -> "set event"
                  [] got[w].ev = Desired(w) -> "bump event"
                  [] OTHER                  -> "bump old event")
    /\ UNCHANGED <<per, ses, queue, dlq, hand, got, oldv, newv, sid, ids, rows, faults>>
    /\ Outside

\* bump_nitc_event_version of the event the period leaves: before a move, and in
\* skip_or_detach.
BumpLeft(w, here, there) ==
    /\ At(w, here)
    /\ evt' = [evt EXCEPT ![got[w].ev] = Bumped(@)]
    /\ oldv' = [oldv EXCEPT ![w] = evt[got[w].ev].ver + 1]
    /\ GoTo(w, there)
    /\ UNCHANGED <<per, ses, queue, dlq, hand, got, newv, sid, ids, rows, faults>>
    /\ Outside

BumpOld(w) == BumpLeft(w, "bump old event", "set event")
BumpDetached(w) == BumpLeft(w, "bump detached", "enqueue detached")

SetPeriodEvent(w) ==
    /\ At(w, "set event")
    /\ per' = [per EXCEPT ![Target(w)] = Reassigned(@, Desired(w))]
    /\ GoTo(w, "bump event")
    /\ UNCHANGED <<evt, ses, queue, dlq, hand, got, oldv, newv, sid, ids, rows, faults>>
    /\ Outside

BumpDesired(w) ==
    /\ At(w, "bump event")
    /\ evt' = [evt EXCEPT ![Desired(w)] = Bumped(@)]
    /\ newv' = [newv EXCEPT ![w] = evt[Desired(w)].ver + 1]
    /\ GoTo(w, IF oldv[w] = 0 THEN "enqueue event" ELSE "enqueue old event")
    /\ UNCHANGED <<per, ses, queue, dlq, hand, got, oldv, sid, ids, rows, faults>>
    /\ Outside

\* enqueue_nitc_event_export.  Its 60 s delay is not modelled: a message may be received
\* at once or after anything else has happened.
EnqueueEvent(w, here, e, v, there) ==
    /\ At(w, here)
    /\ queue' = Send(queue, EventMsg(e, v))
    /\ GoTo(w, there)
    /\ UNCHANGED <<per, evt, ses, dlq, hand, got, oldv, newv, sid, ids, rows, faults>>
    /\ Outside

\* Defect: the old event is queued at the new event's version.
EnqueueOldAtNewVersion(w) ==
    EnqueueEvent(w, "enqueue old event", got[w].ev, newv[w], "enqueue event")

EnqueueOld(w) == EnqueueEvent(w, "enqueue old event", got[w].ev, oldv[w], "enqueue event")
EnqueueDesired(w) == EnqueueEvent(w, "enqueue event", Desired(w), newv[w], "set exported")
EnqueueDetached(w) == EnqueueEvent(w, "enqueue detached", got[w].ev, oldv[w], "clear")

\* set_period_nitc_exported_version with the version read at the start; the last call.
SetExported(w) ==
    /\ At(w, "set exported")
    /\ per' = [per EXCEPT ![Target(w)] = ExportedAt(@, got[w].ver)]
    /\ Reset(w)
    /\ UNCHANGED <<evt, ses, queue, dlq, faults>> /\ Outside

\* clear_period_nitc_participant, the last call of skip_or_detach.
ClearDetached(w) ==
    /\ At(w, "clear")
    /\ per' = [per EXCEPT ![Target(w)] = Cleared(@, got[w].ver)]
    /\ Reset(w)
    /\ UNCHANGED <<evt, ses, queue, dlq, faults>> /\ Outside

-----------------------------------------------------------------------------
(* Phase 2: sync_nitc_event *)

Syncing(w) == hand[w].body.event

\* An event_export whose event has been bumped since, or is already synced, is dropped.
Current(ev, v) == ev.ver = v

\* Defect: an event that was ever synced counts as synced.
EverSynced(ev) == ev.synced # 0

AlreadySynced(ev) == ev.synced # 0 /\ ev.synced >= ev.ver

ReadEvent(w) ==
    /\ At(w, "read event")
    /\ LET e == evt[Syncing(w)]
       IN  IF Current(e, hand[w].body.version) /\ ~AlreadySynced(e)
           THEN /\ newv' = [newv EXCEPT ![w] = e.ver]
                /\ sid' = [sid EXCEPT ![w] = e.sid]
                /\ GoTo(w, "list")
                /\ UNCHANGED <<hand, got, oldv, ids, rows>>
           ELSE Reset(w)
    /\ UNCHANGED <<per, evt, ses, queue, dlq, faults>> /\ Outside

\* list_period_ids_for_nitc_event, with its filter.
Listed(r, e) == r.ev = e /\ (~r.del \/ r.part # 0)

ListPeriods(w) ==
    /\ At(w, "list")
    /\ ids' = [ids EXCEPT ![w] = {p \in Periods : Listed(per[p], Syncing(w))}]
    /\ GoTo(w, "get periods")
    /\ UNCHANGED <<per, evt, ses, queue, dlq, hand, got, oldv, newv, sid, rows, faults>>
    /\ Outside

\* get_periods of the ids listed: the rows may have changed since, and nothing checks
\* that they still name this event.
RowsNow(w) == {[period |-> p, rec |-> per[p]] : p \in ids[w]}

GetPeriods(w) ==
    /\ At(w, "get periods")
    /\ ~Mismatched(Syncing(w), RowsNow(w))
    /\ rows' = [rows EXCEPT ![w] = RowsNow(w)]
    /\ GoTo(w, IF sid[w] = 0 THEN "create" ELSE "put")
    /\ UNCHANGED <<per, evt, ses, queue, dlq, hand, got, oldv, newv, sid, ids, faults>>
    /\ Outside

\* "has live periods whose category maps to a different nitc_group": an error.
RejectMismatch(w) ==
    /\ At(w, "get periods")
    /\ Mismatched(Syncing(w), RowsNow(w))
    /\ Return(w)
    /\ UNCHANGED <<per, evt, ses, faults>> /\ Outside

\* POST of a NITC with no participants.
NewNitc(w) == ses' = Append(ses, [ev |-> Syncing(w), roster |-> {}])

CreateNitc(w) ==
    /\ At(w, "create")
    /\ NewNitc(w)
    /\ sid' = [sid EXCEPT ![w] = Len(ses) + 1]
    /\ GoTo(w, "set ses id")
    /\ UNCHANGED <<per, evt, queue, dlq, hand, got, oldv, newv, ids, rows, faults>>
    /\ Outside

\* SES created the NITC but answered 500 or not at all: post_json_retry posts again.
CreateRetried(w) ==
    /\ faults < MaxFaults /\ faults' = faults + 1
    /\ At(w, "create")
    /\ NewNitc(w)
    /\ UNCHANGED <<per, evt, queue, dlq, worker>> /\ Outside

\* Defect: the id of the new NITC is not stored.
ForgetSesId(w) ==
    /\ At(w, "set ses id")
    /\ GoTo(w, "put")
    /\ UNCHANGED <<per, evt, ses, queue, dlq, hand, got, oldv, newv, sid, ids, rows, faults>>
    /\ Outside

\* set_nitc_event_ses_id, right after the POST.
SetSesId(w) ==
    /\ At(w, "set ses id")
    /\ evt' = [evt EXCEPT ![Syncing(w)].sid = sid[w]]
    /\ GoTo(w, "put")
    /\ UNCHANGED <<per, ses, queue, dlq, hand, got, oldv, newv, sid, ids, rows, faults>>
    /\ Outside

\* PUT of the whole participant list.
PutNitc(w) ==
    /\ At(w, "put")
    /\ ses' = [ses EXCEPT ![sid[w]].roster = Roster(rows[w])]
    /\ GoTo(w, "write back")
    /\ UNCHANGED <<per, evt, queue, dlq, hand, got, oldv, newv, sid, ids, rows, faults>>
    /\ Outside

\* The write-back loops: exported periods first, then the deleted ones, one call each.
WriteBack(w, x, r) ==
    /\ per' = [per EXCEPT ![x.period] = r]
    /\ rows' = [rows EXCEPT ![w] = @ \ {x}]
    /\ UNCHANGED <<evt, ses, queue, dlq, pc, hand, got, oldv, newv, sid, ids, faults>>
    /\ Outside

UpdateExported(w, x) ==
    /\ At(w, "write back")
    /\ x \in LiveRows(rows[w])
    /\ WriteBack(w, x, Exported(per[x.period], Syncing(w), sid[w], x.rec.ver))

ClearDropped(w, x) ==
    /\ At(w, "write back")
    /\ LiveRows(rows[w]) = {}
    /\ x \in rows[w] /\ Dropped(x)
    /\ WriteBack(w, x, Cleared(per[x.period], x.rec.ver))

MarkSynced(w) ==
    /\ At(w, "write back")
    /\ LiveRows(rows[w]) = {} /\ \A x \in rows[w] : ~Dropped(x)
    /\ evt' = [evt EXCEPT ![Syncing(w)].synced = newv[w]]
    /\ Reset(w)
    /\ UNCHANGED <<per, ses, queue, dlq, faults>> /\ Outside

-----------------------------------------------------------------------------
Categories == Groups \cup {NoGroup}

Edit ==
    \/ \E p \in Periods, s \in Slots : StartPeriod(p, s)
    \/ \E x \in Editors, p \in Periods, g \in Categories, s \in Slots : CreatePeriod(x, p, g, s)
    \/ \E x \in Editors, p \in Periods : ReadForEdit(x, p) \/ ReadForSelfSignOut(x, p)

EditorNext(x) ==
    \/ \E g \in Categories, s \in Slots : WriteFields(x, g, s) \/ WriteTimeCategory(x, g, s)
    \/ DeletePeriod(x) \/ RefuseSelfSignOut(x)
    \/ BumpOldEvent(x) \/ EnqueuePeriodExport(x)

AssignPeriod(w) ==
    \/ ReadPeriod(w) \/ GetOrCreateEvent(w) \/ BumpOld(w) \/ SetPeriodEvent(w)
    \/ BumpDesired(w) \/ EnqueueOld(w) \/ EnqueueDesired(w) \/ SetExported(w)
    \/ BumpDetached(w) \/ EnqueueDetached(w) \/ ClearDetached(w)

SyncEvent(w) ==
    \/ ReadEvent(w) \/ ListPeriods(w) \/ GetPeriods(w) \/ RejectMismatch(w)
    \/ CreateNitc(w) \/ SetSesId(w) \/ PutNitc(w) \/ MarkSynced(w)
    \/ \E x \in rows[w] : UpdateExported(w, x) \/ ClearDropped(w, x)

WorkerNext(w) ==
    \/ \E m \in BagToSet(queue) : Receive(w, m)
    \/ AssignPeriod(w) \/ SyncEvent(w)

Fault ==
    \/ \E x \in Editors : EditorFails(x)
    \/ \E w \in Workers : Crash(w) \/ CreateRetried(w)
    \/ \E m \in BagToSet(queue) : Duplicate(m)

Next ==
    \/ Edit \/ Fault
    \/ \E x \in Editors : EditorNext(x)
    \/ \E w \in Workers : WorkerNext(w)
    \/ \E p \in Periods : Backfill(p)

Spec == Init /\ [][Next]_vars

\* A mutation in progress runs on, and the Lambda keeps polling the queue; nobody is
\* obliged to edit anything or to run the backfill.
FairSpec ==
    /\ Spec
    /\ \A x \in Editors : WF_vars(EditorNext(x))
    /\ \A w \in Workers : WF_vars(WorkerNext(w))

-----------------------------------------------------------------------------
(* Properties *)

TypeOK ==
    /\ per \in [Periods -> Period]
    /\ evt \in [Events -> Event]
    /\ ses \in Seq(Nitc)
    /\ DOMAIN queue \subseteq Message
    /\ dlq \subseteq Body
    /\ ed \in [Editors -> Editor]
    /\ hand \in [Workers -> [body : Body \cup {None}, receives : Nat]]
    /\ got \in [Workers -> Period]
    /\ oldv \in [Workers -> Nat] /\ newv \in [Workers -> Nat] /\ sid \in [Workers -> Nat]
    /\ ids \in [Workers -> SUBSET Periods]
    /\ rows \in [Workers -> SUBSET Row]
    /\ edits \in Nat /\ scans \in Nat /\ faults \in Nat

\* A period that holds a participant id is on the event whose NITC issued it:
\* set_period_nitc_event must drop the id in the write that moves the period.
ParticipantOfOwnEvent ==
    \A p \in Periods : per[p].part # 0 =>
        /\ per[p].part \in DOMAIN ses
        /\ ses[per[p].part].ev = per[p].ev

\* A NITC only ever lists participants of its own group.
RosterOfOneGroup ==
    \A i \in DOMAIN ses : \A x \in ses[i].roster : x.grp = ses[i].ev[2]

\* No version is recorded as exported, synced or expected before it was written.
NoVersionFromTheFuture ==
    /\ \A p \in Periods : per[p].exp <= per[p].ver
    /\ \A e \in Events : evt[e].synced <= evt[e].ver
    /\ \A i \in DOMAIN ses : \A x \in ses[i].roster : x.ver <= per[x.period].ver
    /\ \A m \in DOMAIN queue : m.body.kind = "event_export" => m.body.version <= evt[m.body.event].ver

\* Whether the period belongs in SES, and then where.
Wanted(r) == r.ver > 0 /\ Live(r) /\ Eligible(r)
Members(e) == {p \in Periods : Wanted(per[p]) /\ EventOf(per[p]) = e}

Converged ==
    /\ \A i \in DOMAIN ses :
          ses[i].roster = {EntryOf(p, per[p]) : p \in Members(ses[i].ev)}
    /\ \A p \in Periods : Wanted(per[p]) => \E i \in DOMAIN ses : ses[i].ev = EventOf(per[p])

Quiet ==
    /\ queue = EmptyBag
    /\ \A x \in Editors : ed[x].at = "idle"
    /\ \A w \in Workers : pc[w] = "idle"

\* Once nothing is in progress, SES lists every period that belongs there, at its current
\* version, in the NITC of its own event, and nothing else.
SettledIsRight == Quiet => Converged

\* The guide: changing the category or day of an entry moves it to the right NITC.  Once nothing
\* is in progress and no message was given up, no period is listed by two NITCs.  The code does
\* not keep it when Phase 1 fails between its move of the period and its last message.
ListedOnce ==
    Quiet /\ dlq = {} => \A i, j \in DOMAIN ses : \A x \in ses[i].roster, y \in ses[j].roster :
                            x.period = y.period => i = j

\* nitc_export_status, which colours the dot of the activity list.
ShownSynced(r) ==
    /\ r.ev # None
    /\ r.exp = r.ver
    /\ evt[r.ev].synced = evt[r.ev].ver

\* A green dot does not lie: the period is in the NITC of the event it names, as it is now.
GreenMeansExported ==
    \A p \in Periods : Wanted(per[p]) /\ ShownSynced(per[p]) =>
        /\ evt[per[p].ev].sid \in DOMAIN ses
        /\ EntryOf(p, per[p]) \in ses[evt[per[p].ev].sid].roster

\* Every bump is answered: once nothing is in progress, the version an edit or a move gave
\* an event is the version last exported, so no dot stays orange for ever.
BumpedIsExportedAgain == Quiet => \A e \in Events : evt[e].synced = evt[e].ver

\* With the edits over, the export settles, and it settles on the right participants.
EventuallyExported == <>[](Quiet /\ Converged)

\* Every message is eventually dealt with or dead-lettered; nothing is retried for ever.
QueueDrains == <>[]Quiet
=============================================================================
