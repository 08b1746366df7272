----------------------------- MODULE ContactFeed -----------------------------
(***************************************************************************)
(* GET /api/v1/sync: the member directory as a change feed.                 *)
(*                                                                         *)
(* Every write of a person takes a key from the clock of its Lambda and      *)
(* reaches the feed's index a moment later; a device asks for the rows       *)
(* between the last key it was sent and a bound a settling time ago.  What   *)
(* a contact shows of the member's units is in rows of another table: the    *)
(* directory sync rewrites them one at a time and then stamps the person.    *)
(*                                                                         *)
(* Clocks are wrong by at most Skew, and a key is at most Late old when its  *)
(* row shows it; a write applied twice (the SDK sends it again when the      *)
(* answer is lost) or after a later one moves the row's key back.  Requests  *)
(* and replies may be lost.                                                 *)
(***************************************************************************)
EXTENDS Naturals, FiniteSets

CONSTANTS
    N,               \* people
    Entities,        \* what a person may be assigned to
    None,
    Limit,           \* rows of a page
    Settle, Late, Skew,
    Start, WriteUntil, MaxTime,    \* bounds: the clock, and when the last write starts
    MaxWrites,       \* bound: writes of people, and changes in the directory
    MaxFaults        \* bound: lost requests, writes applied twice, runs that fail

ASSUME ConstantsAssumption ==
    /\ N \in Nat /\ None \notin Nat /\ Limit \in Nat \ {0}
    /\ Settle \in Nat /\ Late \in Nat /\ Skew \in Nat
    /\ Skew <= Late /\ Late + Skew <= Settle
    /\ Start \in Nat /\ WriteUntil \in Nat /\ MaxTime \in Nat
    /\ MaxWrites \in Nat /\ MaxFaults \in Nat

Persons == 1..N

VARIABLES
    now,
    row,         \* each person's row as the feed's index shows it
    flight,      \* writes that have their key and are not there yet
    units,       \* the person_unit rows of each person
    unstamped,   \* history: their units have changed and no write of the row has arrived since
    job,         \* the run of directory sync: whose units it is replacing
    request,     \* the request under way
    device,      \* what the client holds
    writes, faults

vars == <<now, row, flight, units, unstamped, job, request, device, writes, faults>>
others == <<units, unstamped, job>>

-----------------------------------------------------------------------------
(* <microseconds>#<id>: keys order by time, then by person; a bound is a time alone. *)
KeyOf(t, p) == t * (N + 1) + p
Bound(t) == t * (N + 1)

Row == [key : Nat, data : Nat, here : BOOLEAN, del : BOOLEAN]
Kinds == {"create", "edit", "delete", "undelete", "stamp"}
Write == [p : Persons, t : Nat, kind : Kinds, data : Nat]
Contact == [data : Nat, units : SUBSET Entities]

ASSUME NoneAssumption == None \notin Contact

Live(p) == row[p].here /\ ~row[p].del

Sent == [p : Persons, data : Nat, del : BOOLEAN]

Request == [at : {"none", "asked", "read"}, after : Nat \cup {None}, bound : Nat,
            page : SUBSET Sent, next : Nat, more : BOOLEAN]

NoRequest == [at |-> "none", after |-> None, bound |-> 0, page |-> {}, next |-> 0, more |-> FALSE]

Device == [cursor : Nat \cup {None},
           full : BOOLEAN,           \* a full sync is under way, and has brought:
           got : SUBSET Persons,
           copy : [Persons -> Contact \cup {None}]]

Job == [p : Persons \cup {None}, to : SUBSET Entities, changed : BOOLEAN]
NoJob == [p |-> None, to |-> {}, changed |-> FALSE]

TypeOK ==
    /\ now \in Nat /\ writes \in Nat /\ faults \in Nat
    /\ row \in [Persons -> Row]
    /\ flight \subseteq Write
    /\ units \in [Persons -> SUBSET Entities]
    /\ unstamped \in [Persons -> BOOLEAN]
    /\ job \in Job
    /\ request \in Request
    /\ device \in Device

Init ==
    /\ now = Start
    /\ \E here \in SUBSET Persons :
        row = [p \in Persons |-> [key |-> KeyOf(0, p), data |-> 0, here |-> p \in here, del |-> FALSE]]
    /\ flight = {}
    /\ units = [p \in Persons |-> {}]
    /\ unstamped = [p \in Persons |-> FALSE]
    /\ job = NoJob
    /\ request = NoRequest
    /\ device = [cursor |-> None, full |-> TRUE, got |-> {}, copy |-> [p \in Persons |-> None]]
    /\ writes = 0 /\ faults = 0

-----------------------------------------------------------------------------
(* Writers *)

\* What the clock of some Lambda shows.
Clock == (IF now < Skew THEN 0 ELSE now - Skew)..(now + Skew)

Budget == now <= WriteUntil /\ writes < MaxWrites /\ writes' = writes + 1
Fault == faults < MaxFaults /\ faults' = faults + 1

\* contact_key, as a write is sent.
Send(p, kind, data) ==
    \E t \in Clock : flight' = flight \cup {[p |-> p, t |-> t, kind |-> kind, data |-> data]}

\* create_person; update_person with Fields, Location, Directory or CapabilityTags, with
\* Delete and with Undelete.
WritePerson(p, kind) ==
    /\ Budget
    /\ (kind = "create") = ~row[p].here
    /\ kind # "stamp"
    /\ ~\E w \in flight : w.p = p /\ w.kind = "create"
    /\ Send(p, kind, writes')
    /\ UNCHANGED <<now, row, request, device, faults>> /\ UNCHANGED others

Written(w) ==
    LET r == [row[w.p] EXCEPT !.key = KeyOf(w.t, w.p)]
    IN  CASE w.kind \in {"create", "edit"} -> [r EXCEPT !.here = TRUE, !.data = w.data]
          [] w.kind = "delete"             -> [r EXCEPT !.del = TRUE]
          [] w.kind = "undelete"           -> [r EXCEPT !.del = FALSE]
          [] w.kind = "stamp"              -> r

Arrives(w) ==
    /\ row' = [row EXCEPT ![w.p] = Written(w)]
    /\ unstamped' = [unstamped EXCEPT ![w.p] = FALSE]
    /\ UNCHANGED <<now, units, job, request, device, writes>>

\* The write and the index's copy of it.
Apply(w) == w \in flight /\ flight' = flight \ {w} /\ Arrives(w) /\ UNCHANGED faults
ApplyTwice(w) == w \in flight /\ UNCHANGED flight /\ Arrives(w) /\ Fault

-----------------------------------------------------------------------------
(* Directory sync *)

\* A run finds that the directory lists other units for someone, and has planned their
\* replacement; the units of people who are no longer live are removed.
StartReplacing(p, to) ==
    /\ Budget
    /\ job.p = None /\ row[p].here /\ to # units[p]
    /\ ~Live(p) => to = {}
    /\ job' = [p |-> p, to |-> to, changed |-> FALSE]
    /\ UNCHANGED <<now, row, flight, units, unstamped, request, device, faults>>

\* replace_person_units: deletes, then puts, one row at a time.
ReplaceUnit ==
    /\ job.p # None
    /\ LET old == units[job.p] \ job.to
           new == job.to \ units[job.p]
       IN  \/ \E e \in old : units' = [units EXCEPT ![job.p] = @ \ {e}]
           \/ old = {} /\ \E e \in new : units' = [units EXCEPT ![job.p] = @ \cup {e}]
    /\ unstamped' = [unstamped EXCEPT ![job.p] = TRUE]
    /\ job' = [job EXCEPT !.changed = TRUE]
    /\ UNCHANGED <<now, row, flight, request, device, writes, faults>>

\* stamp_person_contact, when any row has changed.
StampPerson ==
    /\ job.p # None /\ units[job.p] = job.to
    /\ IF job.changed THEN Send(job.p, "stamp", 0) ELSE UNCHANGED flight
    /\ job' = NoJob
    /\ UNCHANGED <<now, row, units, unstamped, request, device, writes, faults>>

\* A call fails, and with it the run: nothing remembers that the stamp is due.
JobFails ==
    /\ job.p # None /\ Fault
    /\ job' = NoJob
    /\ UNCHANGED <<now, row, flight, units, unstamped, request, device, writes>>

-----------------------------------------------------------------------------
(* A request *)

\* Defect: no lower limit.
HorizonUnchecked(t) == t - Settle

\* Defect: keys are served as soon as they are there.
HorizonNow(t) == t

Horizon(t) == IF t < Settle THEN 0 ELSE t - Settle

\* The client asks, with its cursor if it has one; the server takes the bound from its clock.
Ask ==
    /\ request.at = "none"
    /\ \E t \in Clock :
        request' = [NoRequest EXCEPT !.at = "asked", !.after = device.cursor,
                                     !.bound = Bound(Horizon(t))]
    /\ UNCHANGED <<now, row, flight, device, writes, faults>> /\ UNCHANGED others

\* Defect: tombstones are never sent.
ChangesOfTheLiving ==
    {p \in Persons :
        /\ row[p].here /\ row[p].key < request.bound /\ ~row[p].del
        /\ request.after = None \/ row[p].key > request.after}

\* What a read covers: tombstones only for a client that has a cursor.
Changes ==
    {p \in Persons :
        /\ row[p].here /\ row[p].key < request.bound
        /\ IF request.after = None THEN ~row[p].del ELSE row[p].key > request.after}

Before(p, S) == {q \in S : row[q].key < row[p].key}

FirstPage == {p \in Changes : Cardinality(Before(p, Changes)) < Limit}

\* Defect: past everything read, sent or not.
NextKeyBound == IF request.after = None \/ FirstPage # {} THEN request.bound ELSE request.after

\* Defect: an empty read takes the cursor to its bound.
NextKeyOfEmptyRead ==
    IF FirstPage # {} THEN row[CHOOSE p \in FirstPage : Before(p, FirstPage) = FirstPage \ {p}].key
    ELSE request.bound

\* Past the last row sent; with nothing sent, a cursor keeps its place.
NextKey ==
    IF FirstPage # {} THEN row[CHOOSE p \in FirstPage : Before(p, FirstPage) = FirstPage \ {p}].key
    ELSE IF request.after # None THEN request.after
    ELSE request.bound

\* list_contact_changes
Read ==
    /\ request.at = "asked"
    /\ request' = [NoRequest EXCEPT
            !.at = "read",
            !.page = {[p |-> p, data |-> row[p].data, del |-> row[p].del] : p \in FirstPage},
            !.next = NextKey,
            !.more = Changes # FirstPage]
    /\ UNCHANGED <<now, row, flight, device, writes, faults>> /\ UNCHANGED others

Upserts == {c.p : c \in {d \in request.page : ~d.del}}
Tombstones == {c.p : c \in {d \in request.page : d.del}}

\* What a full sync has brought so far.
Brought == (device.got \ Tombstones) \cup Upserts

\* person_units of the members on the page, and the client takes the reply: it replaces what it
\* holds, and at the end of a full sync drops what that did not bring.
Answer ==
    /\ request.at = "read"
    /\ device' = [
          cursor |-> request.next,
          full |-> device.full /\ request.more,
          got |-> IF device.full /\ request.more THEN Brought ELSE {},
          copy |-> [p \in Persons |->
              IF p \in Upserts
              THEN [data |-> (CHOOSE c \in request.page : c.p = p).data, units |-> units[p]]
              ELSE IF p \in Tombstones \/ (device.full /\ ~request.more /\ p \notin Brought)
              THEN None
              ELSE device.copy[p]]]
    /\ request' = NoRequest
    /\ UNCHANGED <<now, row, flight, writes, faults>> /\ UNCHANGED others

\* The request or its reply is lost, or a read fails.
Lost ==
    /\ request.at # "none" /\ Fault
    /\ request' = NoRequest
    /\ UNCHANGED <<now, row, flight, device, writes>> /\ UNCHANGED others

\* 410 cursor_expired: the client starts a full sync.
CursorExpires ==
    /\ request.at = "asked" /\ request.after # None /\ Fault
    /\ request' = NoRequest
    /\ device' = [device EXCEPT !.cursor = None, !.full = TRUE, !.got = {}]
    /\ UNCHANGED <<now, row, flight, writes>> /\ UNCHANGED others

-----------------------------------------------------------------------------
\* Time passes once every write that is due has arrived (and the last run has ended).
Tick ==
    /\ now < MaxTime /\ (now < WriteUntil \/ job.p = None)
    /\ \A w \in flight : now < w.t + Late
    /\ now' = now + 1
    /\ UNCHANGED <<row, flight, request, device, writes, faults>> /\ UNCHANGED others

Next ==
    \/ \E p \in Persons, kind \in Kinds : WritePerson(p, kind)
    \/ \E w \in flight : Apply(w) \/ ApplyTwice(w)
    \/ \E p \in Persons, to \in SUBSET Entities : StartReplacing(p, to)
    \/ ReplaceUnit \/ StampPerson \/ JobFails
    \/ Ask \/ Read \/ Answer \/ Lost \/ CursorExpires
    \/ Tick

Spec == Init /\ [][Next]_vars

Fairness ==
    /\ WF_vars(Tick) /\ WF_vars(\E w \in flight : Apply(w))
    /\ WF_vars(ReplaceUnit \/ StampPerson)
    /\ WF_vars(Ask) /\ WF_vars(Read \/ Answer)

FairSpec == Spec /\ Fairness

-----------------------------------------------------------------------------
(* Properties *)

\* No write lands behind a cursor that has been given out, or behind a read under way: a client
\* that has moved past a key has seen every row that will ever show it (SETTLE_US).
Settled ==
    \A w \in flight :
        /\ device.cursor # None => KeyOf(w.t, w.p) > device.cursor
        /\ request.at = "asked" => KeyOf(w.t, w.p) > request.bound
        /\ request.at = "read" => KeyOf(w.t, w.p) > request.next

\* What the device should hold of a person once it has moved past their row.
UpToDate(p) ==
    IF Live(p)
    THEN /\ device.copy[p] # None
         /\ device.copy[p].data = row[p].data
         /\ unstamped[p] \/ device.copy[p].units = units[p]
         /\ device.full => p \in device.got
    ELSE /\ device.copy[p] # None => device.full
         /\ p \notin device.got

\* The cursor stands for what the device holds: everybody changed up to it, in their present
\* state, the deleted gone, however writes, pages, lost replies and full syncs fall.
CursorCovers ==
    device.cursor # None =>
        \A p \in Persons : row[p].here /\ row[p].key <= device.cursor => UpToDate(p)

\* A cursor is given up for a full sync but never moved back (two servers' clocks differ).
CursorNeverMovesBack ==
    [][device.cursor # None /\ device'.cursor # None => device'.cursor >= device.cursor]_vars

\* Once nobody writes, the device comes to hold exactly the live members, each as they are now,
\* the units left aside of someone whose replacement failed before its stamp.
Converges ==
    <>[](\A p \in Persons :
            IF Live(p)
            THEN /\ device.copy[p] # None
                 /\ device.copy[p].data = row[p].data
                 /\ unstamped[p] \/ device.copy[p].units = units[p]
            ELSE device.copy[p] = None)
=============================================================================
