--------------------------- MODULE NitcExportProofs ---------------------------
(***************************************************************************)
(* What TLAPS proves of NitcExport, for any number of periods, groups,      *)
(* slots, handlers and invocations, and whatever the bounds: types, NITCs    *)
(* and participants; then versions, of which none is recorded before it was  *)
(* written, and of which the recorded ones do not go back unless two         *)
(* invocations have met.                                                    *)
(***************************************************************************)
EXTENDS NitcHistory, SequenceTheorems, TLAPS

-----------------------------------------------------------------------------
(* The inductive invariant.  A handler or an invocation is a program with a     *)
(* counter: what its locals hold is known from where it is.                     *)

Phase1 == {"read period", "get event", "bump old event", "set event", "bump event",
           "enqueue old event", "enqueue event", "set exported",
           "bump detached", "enqueue detached", "clear"}
Phase2 == {"read event", "list", "get periods", "create", "set ses id", "put", "write back"}

\* Phase 1 has read a period that it will move, so that its new event is defined.
HasDesired == {"get event", "bump old event", "set event", "bump event",
               "enqueue old event", "enqueue event"}
\* Phase 1 has read a period that leaves an event.
HasLeft == {"bump old event", "enqueue old event", "bump detached", "enqueue detached"}

\* The tables, SES, the queue and the counters.
StoreInv ==
    /\ per \in [Periods -> Period]
    /\ evt \in [Events -> Event]
    /\ ses \in Seq(Nitc)
    /\ DOMAIN queue \subseteq Message
    /\ dlq \subseteq Body
    /\ edits \in Nat /\ scans \in Nat /\ faults \in Nat

EditorInv ==
    /\ ed \in [Editors -> Editor]
    /\ \A x \in Editors :
        /\ ed[x].at # "idle" => ed[x].p \in Periods
        /\ ed[x].at = "bump" => ed[x].old \in Events

LocalsType ==
    /\ pc \in [Workers -> {"idle"} \cup Phase1 \cup Phase2]
    /\ hand \in [Workers -> [body : Body \cup {None}, receives : Nat]]
    /\ got \in [Workers -> Period]
    /\ oldv \in [Workers -> Nat] /\ newv \in [Workers -> Nat] /\ sid \in [Workers -> Nat]
    /\ ids \in [Workers -> SUBSET Periods]
    /\ rows \in [Workers -> SUBSET Row]

WorkerControl ==
    \A w \in Workers :
        /\ pc[w] \in Phase1 => hand[w].body \in PeriodExport
        /\ pc[w] \in Phase2 => hand[w].body \in EventExport
        /\ pc[w] \in HasDesired => got[w].grp \in Groups
        /\ pc[w] \in HasLeft \/ oldv[w] # 0 => got[w].ev \in Events
        /\ pc[w] \in {"idle", "read period", "read event", "get event"} => oldv[w] = 0

WorkerInv == LocalsType /\ WorkerControl

TypeInv == StoreInv /\ EditorInv /\ WorkerInv

\* The NITC an event row names was created for that event ...
NitcOfEvent ==
    \A e \in Events : evt[e].sid # 0 =>
        evt[e].sid \in DOMAIN ses /\ ses[evt[e].sid].ev = e
\* ... and so was the one an invocation of Phase 2 is about to write.
NitcInHand ==
    \A w \in Workers :
        /\ pc[w] \in Phase2 \ {"read event"} /\ sid[w] # 0 =>
              sid[w] \in DOMAIN ses /\ ses[sid[w]].ev = Syncing(w)
        /\ pc[w] \in {"set ses id", "put", "write back"} => sid[w] # 0
\* What is about to be PUT has passed the guard.
RowsChecked ==
    \A w \in Workers : pc[w] \in {"create", "set ses id", "put"} =>
        ~Mismatched(Syncing(w), rows[w])

NitcInv == NitcOfEvent /\ NitcInHand /\ RowsChecked
             /\ ParticipantOfOwnEvent /\ RosterOfOneGroup

IInv == TypeInv /\ NitcInv

-----------------------------------------------------------------------------
(* The operators the actions are built from *)

\* Sending adds one message to the queue ...
LEMMA PutDomain ==
    ASSUME NEW q, NEW b, NEW n
    PROVE  DOMAIN Put(q, b, n) = DOMAIN q \cup {[body |-> b, receives |-> n]}
  BY DEF Put, (+), SetToBag, BagToSet

\* ... receiving adds none, and a duplicate is no new message.
LEMMA ReceiveDomain ==
    ASSUME NEW q, NEW m
    PROVE  /\ DOMAIN (q (-) SetToBag({m})) \subseteq DOMAIN q
           /\ m \in DOMAIN q => DOMAIN (q (+) SetToBag({m})) = DOMAIN q
  BY DEF (+), (-), SetToBag, BagToSet

\* A slot and a group make an event, and no event is None.
LEMMA EventFacts ==
    /\ None \notin Events
    /\ \A r \in Period : r.grp \in Groups => EventOf(r) \in Events
    /\ \A e \in Events : e[2] \in Groups
  BY ConstantsAssumption DEF Events, Period, EventOf

\* The row of a period that does not exist is a period row.
LEMMA NoPeriodType == NoPeriod \in Period
  BY ConstantsAssumption DEF NoPeriod, Period

\* Every write of a period row by a mutation handler leaves a period row.
LEMMA EditWrites ==
    ASSUME NEW r \in Period, NEW g \in Categories, NEW s \in Slots
    PROVE  /\ [r EXCEPT !.ver = 1, !.live = TRUE, !.slot = s] \in Period
           /\ TimeCategory(r, g, s) \in Period
           /\ Fields(r, g, s) \in Period
<1>1. r.ver + 1 \in Nat
  BY DEF Period
<1>2. [r EXCEPT !.ver = 1, !.live = TRUE, !.slot = s] \in Period
  BY DEF Period
<1>3. TimeCategory(r, g, s) \in Period
  BY <1>1 DEF Period, TimeCategory, Categories
<1>4. Fields(r, g, s) \in Period
  BY <1>3 DEF Period, Fields
<1>5. QED
  BY <1>2, <1>3, <1>4

LEMMA DeleteWrites ==
    ASSUME NEW r \in Period
    PROVE  Deleted(r) \in Period
<1>1. r.ver + 1 \in Nat
  BY DEF Period
<1>2. QED
  BY <1>1 DEF Period, Deleted

\* And so does every write by an invocation of the Lambda.
LEMMA NoEventWrites ==
    ASSUME NEW r \in Period, NEW v \in Nat
    PROVE  ExportedAt(r, v) \in Period /\ Cleared(r, v) \in Period
<1>1. ExportedAt(r, v) \in Period
  BY DEF Period, ExportedAt
<1>2. Cleared(r, v) \in Period
  BY DEF Period, Cleared
<1>3. QED
  BY <1>1, <1>2

LEMMA ExportWrites ==
    ASSUME NEW r \in Period, NEW e \in Events, NEW n \in Nat, NEW v \in Nat
    PROVE  Reassigned(r, e) \in Period /\ Exported(r, e, n, v) \in Period
<1>1. Reassigned(r, e) \in Period
  BY DEF Period, Reassigned
<1>2. Exported(r, e, n, v) \in Period
  BY DEF Period, Exported
<1>3. QED
  BY <1>1, <1>2

\* Every write of an event row leaves an event row.
LEMMA EventWrites ==
    ASSUME NEW r \in Event, NEW n \in Nat
    PROVE  /\ Bumped(r) \in Event
           /\ [r EXCEPT !.ver = IF @ = 0 THEN 1 ELSE @] \in Event
           /\ [r EXCEPT !.sid = n] \in Event
           /\ [r EXCEPT !.synced = n] \in Event
<1>1. r.ver + 1 \in Nat /\ (IF r.ver = 0 THEN 1 ELSE r.ver) \in Nat
  BY DEF Event
<1>2. QED
  BY <1>1 DEF Event, Bumped

\* What a roster is made of.
LEMMA RosterType ==
    ASSUME NEW rs \in SUBSET Row
    PROVE  Roster(rs) \in SUBSET Entry
  BY DEF Roster, LiveRows, Row, Entry, EntryOf, Period

\* A POST adds a NITC at the end and leaves the others alone.
LEMMA AppendFacts ==
    ASSUME NEW q \in Seq(Nitc), NEW n \in Nitc
    PROVE  /\ Append(q, n) \in Seq(Nitc)
           /\ Len(q) + 1 \in Nat /\ Len(q) + 1 # 0
           /\ DOMAIN Append(q, n) = DOMAIN q \cup {Len(q) + 1}
           /\ \A j \in DOMAIN q : Append(q, n)[j] = q[j]
           /\ Append(q, n)[Len(q) + 1] = n
<1>1. Len(q) \in Nat /\ DOMAIN q = 1..Len(q)
  BY LenProperties
<1>2. /\ Append(q, n) \in Seq(Nitc) /\ Len(Append(q, n)) = Len(q) + 1
      /\ \A j \in 1..Len(q) : Append(q, n)[j] = q[j]
      /\ Append(q, n)[Len(q) + 1] = n
  BY AppendProperties
<1>3. DOMAIN Append(q, n) = 1..(Len(q) + 1)
  BY <1>2, LenProperties
<1>4. 1..(Len(q) + 1) = 1..Len(q) \cup {Len(q) + 1}
  BY <1>1
<1>5. Len(q) + 1 \in Nat /\ Len(q) + 1 # 0
  BY <1>1
<1>6. QED
  BY <1>1, <1>2, <1>3, <1>4, <1>5

\* A PUT replaces a roster.
WithRoster(q, i, R) == [q EXCEPT ![i].roster = R]

LEMMA PutType ==
    ASSUME NEW q \in Seq(Nitc), NEW i, NEW R \in SUBSET Entry
    PROVE  /\ WithRoster(q, i, R) \in Seq(Nitc)
           /\ DOMAIN WithRoster(q, i, R) = DOMAIN q
           /\ \A j \in DOMAIN q :
                /\ WithRoster(q, i, R)[j].ev = q[j].ev
                /\ WithRoster(q, i, R)[j].roster = IF j = i THEN R ELSE q[j].roster
<1> USE DEF WithRoster
<1>1. Len(q) \in Nat /\ q \in [1..Len(q) -> Nitc]
  OBVIOUS
<1>2. \A j \in 1..Len(q) : [q[j] EXCEPT !.roster = R] \in Nitc
  BY <1>1 DEF Nitc
<1>3. WithRoster(q, i, R) \in [1..Len(q) -> Nitc] /\ DOMAIN WithRoster(q, i, R) = DOMAIN q
  BY <1>1, <1>2
<1>4. \A j \in DOMAIN q :
        /\ WithRoster(q, i, R)[j].ev = q[j].ev
        /\ WithRoster(q, i, R)[j].roster = IF j = i THEN R ELSE q[j].roster
  BY <1>1 DEF Nitc
<1>5. WithRoster(q, i, R) \in Seq(Nitc)
  BY <1>1, <1>3, SeqDef
<1>6. QED
  BY <1>3, <1>4, <1>5

\* Phase 1 goes on only from where its locals are what the next call needs.
LEMMA VerdictFacts ==
    ASSUME NEW r \in Period
    PROVE  /\ Verdict(r) \in {"skip", "synced", "bump detached", "set exported", "get event"}
           /\ Verdict(r) = "bump detached" => r.ev \in Events
           /\ Verdict(r) = "get event" => r.grp \in Groups
  BY DEF Verdict, Period, Eligible

\* A message has a body of one of the two kinds, and its kind tells which.
LEMMA BodyFacts ==
    /\ \A p \in Periods : PeriodMsg(p) \in Body
    /\ \A e \in Events, v \in Nat : EventMsg(e, v) \in Body
    /\ \A b \in Body : IF b.kind = "period_export" THEN b \in PeriodExport /\ b.period \in Periods
                                                   ELSE b \in EventExport /\ b.event \in Events /\ b.version \in Nat
  BY DEF PeriodMsg, EventMsg, Body, PeriodExport, EventExport

\* Messages stay messages, however they are sent.
LEMMA SendType ==
    ASSUME NEW q, DOMAIN q \subseteq Message, NEW b \in Body, NEW n \in Nat
    PROVE  /\ DOMAIN Put(q, b, n) \subseteq Message
           /\ DOMAIN Send(q, b) \subseteq Message
<1>1. ASSUME NEW k \in Nat
      PROVE  DOMAIN Put(q, b, k) \subseteq Message
  <2>1. DOMAIN Put(q, b, k) = DOMAIN q \cup {[body |-> b, receives |-> k]}
    BY PutDomain
  <2>2. [body |-> b, receives |-> k] \in Message
    BY DEF Message
  <2>3. QED
    BY <2>1, <2>2
<1>2. DOMAIN Put(q, b, 0) \subseteq Message
  BY <1>1
<1>3. DOMAIN Send(q, b) \subseteq Message
  BY <1>2 DEF Send
<1>4. QED
  BY <1>1, <1>3

-----------------------------------------------------------------------------
(* Types and control *)

LEMMA InitTypeInv == Init => TypeInv
<1> SUFFICES ASSUME Init PROVE TypeInv
  OBVIOUS
<1>1. StoreInv
  <2>1. per \in [Periods -> Period]
    BY NoPeriodType DEF Init
  <2>2. evt \in [Events -> Event]
    BY DEF Init, Event
  <2>3. ses \in Seq(Nitc)
    BY DEF Init
  <2>4. DOMAIN queue \subseteq Message
    BY DEF Init, EmptyBag, SetToBag
  <2>5. QED
    BY <2>1, <2>2, <2>3, <2>4 DEF Init, StoreInv
<1>2. EditorInv
  BY DEF Init, EditorInv, IdleEditor, Editor
<1>3. WorkerInv
  BY NoPeriodType, ConstantsAssumption
     DEF Init, WorkerInv, LocalsType, WorkerControl, NoMessage, Phase1, Phase2, HasDesired, HasLeft
<1>4. QED
  BY <1>1, <1>2, <1>3 DEF TypeInv

\* A finished invocation keeps nothing.
LEMMA ResetWorkerInv ==
    ASSUME WorkerInv, NEW w \in Workers, Reset(w)
    PROVE  WorkerInv'
<1>1. LocalsType'
  BY NoPeriodType DEF WorkerInv, LocalsType, Reset, NoMessage
<1>2. WorkerControl'
  BY DEF WorkerInv, LocalsType, WorkerControl, Reset, NoMessage, Phase1, Phase2, HasDesired, HasLeft
<1>3. QED
  BY <1>1, <1>2 DEF WorkerInv

\* The steps of a mutation handler.
LEMMA EditorTypeInv ==
    ASSUME TypeInv, Edit \/ (\E x \in Editors : EditorNext(x) \/ EditorFails(x))
    PROVE  TypeInv'
<1> USE DEF TypeInv, StoreInv, EditorInv
<1>w. ASSUME UNCHANGED worker PROVE WorkerInv'
  BY <1>w DEF worker, WorkerInv, LocalsType, WorkerControl
<1>1. ASSUME NEW p \in Periods, NEW s \in Slots, StartPeriod(p, s)
      PROVE  TypeInv'
  <2>1. [per[p] EXCEPT !.ver = 1, !.live = TRUE, !.slot = s] \in Period
    BY EditWrites DEF Categories
  <2>2. QED
    BY <1>1, <1>w, <2>1 DEF StartPeriod, StartEdit, EditorStep
<1>2. ASSUME NEW x \in Editors, NEW p \in Periods, NEW g \in Categories, NEW s \in Slots,
             CreatePeriod(x, p, g, s)
      PROVE  TypeInv'
  <2>1. Fields(per[p], g, s) \in Period
    BY EditWrites
  <2>2. QED
    BY <1>2, <1>w, <2>1 DEF CreatePeriod, StartEdit, Begin, EditorStep, Editor
<1>3. ASSUME NEW x \in Editors, NEW p \in Periods, ReadForEdit(x, p) \/ ReadForSelfSignOut(x, p)
      PROVE  TypeInv'
  <2>1. per[p].ev \in Events \cup {None} /\ per[p].ver \in Nat
    BY DEF Period
  <2>2. PICK old \in Events \cup {None}, seen \in Nat :
               ed' = [ed EXCEPT ![x] = [at |-> "write", p |-> p, old |-> old, seen |-> seen]]
    BY <1>3, <2>1 DEF ReadForEdit, ReadForSelfSignOut, Begin
  <2>3. EditorInv'
    BY <2>2 DEF Editor
  <2>4. QED
    BY <1>3, <1>w, <2>3 DEF ReadForEdit, ReadForSelfSignOut, StartEdit, EditorStep
<1>4. ASSUME NEW x \in Editors, ed[x].at = "write", Written(x)
      PROVE  EditorInv'
  <2>1. PICK at \in {"bump", "enqueue"} :
            ed' = [ed EXCEPT ![x].at = at] /\ (at = "bump" => ed[x].old # None)
    BY <1>4 DEF Written
  <2>2. ed[x] \in Editor /\ ed[x].p \in Periods
    BY <1>4
  <2>3. [ed[x] EXCEPT !.at = at] \in Editor
    BY <2>2 DEF Editor
  <2>4. ed' \in [Editors -> Editor]
    BY <2>1, <2>3
  <2>5. QED
    BY <2>1, <2>2, <2>4 DEF Editor
<1>5. ASSUME NEW x \in Editors, NEW g \in Categories, NEW s \in Slots,
             WriteFields(x, g, s) \/ WriteTimeCategory(x, g, s)
      PROVE  TypeInv'
  <2>1. ed[x].p \in Periods
    BY <1>5 DEF WriteFields, WriteTimeCategory
  <2>2. Fields(per[ed[x].p], g, s) \in Period /\ TimeCategory(per[ed[x].p], g, s) \in Period
    BY <2>1, EditWrites
  <2>3. QED
    BY <1>4, <1>5, <1>w, <2>1, <2>2 DEF WriteFields, WriteTimeCategory, EditorStep
<1>6. ASSUME NEW x \in Editors, DeletePeriod(x)
      PROVE  TypeInv'
  <2>1. ed[x].p \in Periods
    BY <1>6 DEF DeletePeriod
  <2>2. Deleted(per[ed[x].p]) \in Period
    BY <2>1, DeleteWrites
  <2>3. QED
    BY <1>4, <1>6, <1>w, <2>1, <2>2 DEF DeletePeriod, EditorStep
<1>7. ASSUME NEW x \in Editors, RefuseSelfSignOut(x)
      PROVE  TypeInv'
  BY <1>7, <1>w DEF RefuseSelfSignOut, EditorStep, IdleEditor, Editor
<1>8. ASSUME NEW x \in Editors, BumpOldEvent(x)
      PROVE  TypeInv'
  <2>1. ed[x] \in Editor /\ ed[x].p \in Periods /\ ed[x].old \in Events
    BY <1>8 DEF BumpOldEvent
  <2>2. [ed[x] EXCEPT !.at = "enqueue"] \in Editor
    BY <2>1 DEF Editor
  <2>3. EditorInv'
    BY <1>8, <2>1, <2>2 DEF BumpOldEvent
  <2>4. Bumped(evt[ed[x].old]) \in Event
    BY <2>1, EventWrites, 0 \in Nat
  <2>5. QED
    BY <1>8, <1>w, <2>1, <2>3, <2>4 DEF BumpOldEvent, EditorStep
<1>9. ASSUME NEW x \in Editors, EnqueuePeriodExport(x)
      PROVE  TypeInv'
  <2>1. PeriodMsg(ed[x].p) \in Body
    BY <1>9, BodyFacts DEF EnqueuePeriodExport
  <2>2. DOMAIN queue' \subseteq Message
    BY <1>9, <2>1, SendType DEF EnqueuePeriodExport
  <2>3. QED
    BY <1>9, <1>w, <2>2 DEF EnqueuePeriodExport, EditorStep, IdleEditor, Editor
<1>10. ASSUME NEW x \in Editors, EditorFails(x)
      PROVE  TypeInv'
  BY <1>10, <1>w DEF EditorFails, IdleEditor, Editor
<1>11. QED
  BY <1>1, <1>2, <1>3, <1>5, <1>6, <1>7, <1>8, <1>9, <1>10 DEF Edit, EditorNext

\* The end of an invocation, by success or by failure.
LEMMA ReturnTypeInv ==
    ASSUME TypeInv, NEW w \in Workers, pc[w] # "idle", Return(w),
           UNCHANGED <<per, evt, ses, ed, edits, scans>>, faults' \in Nat
    PROVE  TypeInv'
<1> USE DEF TypeInv, StoreInv
<1>1. hand[w].body \in Body /\ hand[w].receives \in Nat
  BY DEF WorkerInv, WorkerControl, LocalsType, Body
<1>2. DOMAIN Put(queue, hand[w].body, hand[w].receives) \subseteq Message
  BY <1>1, SendType
<1>3. WorkerInv'
  BY ResetWorkerInv DEF Return
<1>4. EditorInv'
  BY DEF EditorInv
<1>5. QED
  BY <1>1, <1>2, <1>3, <1>4 DEF Return

\* Crashes, repeated POSTs and duplicate deliveries.
LEMMA FaultTypeInv ==
    ASSUME TypeInv, Fault
    PROVE  TypeInv'
<1> USE DEF TypeInv, StoreInv
<1>1. CASE \E x \in Editors : EditorFails(x)
  BY <1>1, EditorTypeInv
<1>2. ASSUME NEW w \in Workers, Crash(w)
      PROVE  TypeInv'
  BY <1>2, ReturnTypeInv DEF Crash, At, Outside
<1>3. ASSUME NEW w \in Workers, CreateRetried(w)
      PROVE  TypeInv'
  <2>1. Syncing(w) \in Events
    BY <1>3, BodyFacts
       DEF CreateRetried, At, WorkerInv, WorkerControl, Phase2, EventExport, Body, Syncing
  <2>2. ses' \in Seq(Nitc)
    BY <1>3, <2>1 DEF CreateRetried, NewNitc, Nitc
  <2>3. WorkerInv' /\ EditorInv'
    BY <1>3 DEF CreateRetried, worker, WorkerInv, LocalsType, WorkerControl, EditorInv, Outside
  <2>4. QED
    BY <1>3, <2>2, <2>3 DEF CreateRetried, Outside
<1>4. ASSUME NEW m \in BagToSet(queue), Duplicate(m)
      PROVE  TypeInv'
  <2>1. DOMAIN queue' = DOMAIN queue
    BY <1>4, ReceiveDomain DEF Duplicate, BagToSet
  <2>2. WorkerInv' /\ EditorInv'
    BY <1>4 DEF Duplicate, worker, WorkerInv, LocalsType, WorkerControl, EditorInv, Outside
  <2>3. QED
    BY <1>4, <2>1, <2>2 DEF Duplicate, Outside
<1>5. QED
  BY <1>1, <1>2, <1>3, <1>4 DEF Fault

\* What the locals of an invocation are worth, from where it is.
LEMMA HandFacts ==
    ASSUME TypeInv, NEW w \in Workers
    PROVE  /\ pc[w] \in Phase1 => Target(w) \in Periods
           /\ pc[w] \in Phase2 => Syncing(w) \in Events /\ hand[w].body.version \in Nat
           /\ pc[w] \in HasDesired => Desired(w) \in Events
           /\ pc[w] \in HasLeft \/ oldv[w] # 0 => got[w].ev \in Events
           /\ got[w] \in Period /\ got[w].ver \in Nat
           /\ oldv[w] \in Nat /\ newv[w] \in Nat /\ sid[w] \in Nat
           /\ rows[w] \in SUBSET Row /\ ids[w] \in SUBSET Periods
<1> USE DEF TypeInv, WorkerInv, WorkerControl, LocalsType
<1>1. pc[w] \in Phase1 => Target(w) \in Periods
  BY DEF Target, PeriodExport
<1>2. pc[w] \in Phase2 => Syncing(w) \in Events /\ hand[w].body.version \in Nat
  BY DEF Syncing, EventExport
<1>3. got[w] \in Period /\ got[w].ver \in Nat
  BY DEF Period
<1>4. pc[w] \in HasDesired => Desired(w) \in Events
  BY <1>3, EventFacts DEF Desired
<1>5. QED
  BY <1>1, <1>2, <1>3, <1>4

\* The row of an event, bumped.
LEMMA BumpFacts ==
    ASSUME TypeInv, NEW e \in Events
    PROVE  /\ evt[e] \in Event /\ evt[e].ver \in Nat /\ evt[e].ver + 1 \in Nat
           /\ [evt EXCEPT ![e] = Bumped(@)] \in [Events -> Event]
<1>1. evt[e] \in Event
  BY DEF TypeInv, StoreInv
<1>2. Bumped(evt[e]) \in Event
  BY <1>1, EventWrites, 0 \in Nat
<1>3. evt[e].ver \in Nat /\ evt[e].ver + 1 \in Nat
  BY <1>1 DEF Event
<1>4. QED
  BY <1>1, <1>2, <1>3 DEF TypeInv, StoreInv

\* A message is received.
LEMMA ReceiveTypeInv ==
    ASSUME TypeInv, NEW w \in Workers, NEW m \in BagToSet(queue), Receive(w, m)
    PROVE  TypeInv'
<1> USE DEF TypeInv, StoreInv
<1>1. m.body \in Body /\ m.receives + 1 \in Nat
  BY DEF BagToSet, Message
<1>2. DOMAIN queue' \subseteq Message
  BY ReceiveDomain DEF Receive
<1>3. EditorInv'
  BY DEF Receive, Outside, EditorInv
<1>4. LocalsType'
  BY <1>1 DEF Receive, At, GoTo, WorkerInv, LocalsType, Phase1, Phase2
<1>5. WorkerControl'
  BY <1>1, BodyFacts DEF Receive, At, GoTo, WorkerInv, LocalsType, WorkerControl, Phase1, Phase2,
                         HasDesired, HasLeft
<1>6. QED
  BY <1>2, <1>3, <1>4, <1>5 DEF Receive, Outside, WorkerInv

\* The steps of Phase 1.
LEMMA Phase1TypeInv ==
    ASSUME TypeInv, NEW w \in Workers, AssignPeriod(w)
    PROVE  TypeInv'
<1> USE DEF TypeInv, StoreInv
<1> USE HandFacts DEF At, GoTo, Phase1, Phase2, HasDesired, HasLeft
<1>e. ASSUME Outside PROVE EditorInv'
  BY <1>e DEF Outside, EditorInv
<1>1. CASE ReadPeriod(w)
  <2>1. CASE Verdict(per[Target(w)]) \in {"skip", "synced"}
    <3>1. Reset(w) /\ Outside /\ UNCHANGED <<per, evt, ses, queue, dlq, faults>>
      BY <1>1, <2>1 DEF ReadPeriod
    <3>2. WorkerInv'
      BY <3>1, ResetWorkerInv
    <3>3. QED
      BY <1>e, <3>1, <3>2 DEF Outside
  <2>2. CASE Verdict(per[Target(w)]) \notin {"skip", "synced"}
    <3>1. per[Target(w)] \in Period
      BY <1>1 DEF ReadPeriod
    <3>r. /\ got' = [got EXCEPT ![w] = per[Target(w)]]
          /\ pc' = [pc EXCEPT ![w] = Verdict(per[Target(w)])]
          /\ UNCHANGED <<hand, oldv, newv, sid, ids, rows>> /\ pc[w] = "read period"
      BY <1>1, <2>2 DEF ReadPeriod
    <3>2. LocalsType'
      BY <2>2, <3>1, <3>r, VerdictFacts DEF WorkerInv, LocalsType
    <3>3. WorkerControl'
      BY <2>2, <3>1, <3>r, VerdictFacts DEF WorkerInv, LocalsType, WorkerControl
    <3>4. QED
      BY <1>1, <1>e, <3>2, <3>3 DEF ReadPeriod, Outside, WorkerInv
  <2>3. QED
    BY <2>1, <2>2
<1>2. CASE GetOrCreateEvent(w)
  <2>1. Desired(w) \in Events
    BY <1>2 DEF GetOrCreateEvent
  <2>2. evt' \in [Events -> Event]
    BY <1>2, <2>1, EventWrites, 0 \in Nat DEF GetOrCreateEvent
  <2>3. \/ pc' = [pc EXCEPT ![w] = "set event"]
        \/ pc' = [pc EXCEPT ![w] = "bump event"]
        \/ pc' = [pc EXCEPT ![w] = "bump old event"] /\ got[w].ev \in Events
    <3>1. got[w].ev \in Events \cup {None}
      BY DEF Period
    <3>2. CASE got[w].ev = None
      BY <1>2, <2>1, <3>2, EventFacts DEF GetOrCreateEvent
    <3>3. CASE got[w].ev # None /\ got[w].ev = Desired(w)
      BY <1>2, <3>3 DEF GetOrCreateEvent
    <3>4. CASE got[w].ev # None /\ got[w].ev # Desired(w)
      BY <1>2, <3>1, <3>4 DEF GetOrCreateEvent
    <3>5. QED
      BY <3>2, <3>3, <3>4
  <2>4. WorkerInv'
    BY <1>2, <2>3 DEF GetOrCreateEvent, WorkerInv, LocalsType, WorkerControl
  <2>5. QED
    BY <1>2, <1>e, <2>2, <2>4 DEF GetOrCreateEvent, Outside
<1>3. CASE BumpOld(w)
  <2>1. got[w].ev \in Events
    BY <1>3 DEF BumpOld, BumpLeft
  <2>2. evt' \in [Events -> Event]
    BY <1>3, <2>1, BumpFacts DEF BumpOld, BumpLeft
  <2>3. PICK v \in Nat : oldv' = [oldv EXCEPT ![w] = v]
    BY <1>3, <2>1, BumpFacts DEF BumpOld, BumpLeft
  <2>4. LocalsType'
    <3>1. /\ pc' = [pc EXCEPT ![w] = "set event"]
          /\ UNCHANGED <<hand, got, newv, sid, ids, rows>>
      BY <1>3 DEF BumpOld, BumpLeft
    <3>2. QED
      BY <2>3, <3>1 DEF WorkerInv, LocalsType
  <2>5. WorkerControl'
    BY <1>3, <2>1, <2>3 DEF BumpOld, BumpLeft, WorkerInv, LocalsType, WorkerControl
  <2>6. QED
    BY <1>3, <1>e, <2>2, <2>4, <2>5 DEF WorkerInv, BumpOld, BumpLeft, Outside
<1>9. CASE BumpDetached(w)
  <2>1. got[w].ev \in Events
    BY <1>9 DEF BumpDetached, BumpLeft
  <2>2. evt' \in [Events -> Event]
    BY <1>9, <2>1, BumpFacts DEF BumpDetached, BumpLeft
  <2>3. PICK v \in Nat : oldv' = [oldv EXCEPT ![w] = v]
    BY <1>9, <2>1, BumpFacts DEF BumpDetached, BumpLeft
  <2>4. LocalsType'
    <3>1. /\ pc' = [pc EXCEPT ![w] = "enqueue detached"]
          /\ UNCHANGED <<hand, got, newv, sid, ids, rows>>
      BY <1>9 DEF BumpDetached, BumpLeft
    <3>2. QED
      BY <2>3, <3>1 DEF WorkerInv, LocalsType
  <2>5. WorkerControl'
    BY <1>9, <2>1, <2>3 DEF BumpDetached, BumpLeft, WorkerInv, LocalsType, WorkerControl
  <2>6. QED
    BY <1>9, <1>e, <2>2, <2>4, <2>5 DEF WorkerInv, BumpDetached, BumpLeft, Outside
<1>4. CASE SetPeriodEvent(w)
  <2>1. Target(w) \in Periods /\ Desired(w) \in Events
    BY <1>4 DEF SetPeriodEvent
  <2>2. Reassigned(per[Target(w)], Desired(w)) \in Period
    BY <2>1, ExportWrites, 0 \in Nat
  <2>3. WorkerInv'
    BY <1>4 DEF SetPeriodEvent, WorkerInv, LocalsType, WorkerControl
  <2>4. QED
    BY <1>4, <1>e, <2>1, <2>2, <2>3 DEF SetPeriodEvent, Outside
<1>5. CASE BumpDesired(w)
  <2>1. Desired(w) \in Events
    BY <1>5 DEF BumpDesired
  <2>2. evt' \in [Events -> Event]
    BY <1>5, <2>1, BumpFacts DEF BumpDesired
  <2>3. evt[Desired(w)].ver + 1 \in Nat
    BY <2>1, BumpFacts
  <2>4. WorkerInv'
    BY <1>5, <2>3 DEF BumpDesired, WorkerInv, LocalsType, WorkerControl
  <2>5. QED
    BY <1>5, <1>e, <2>2, <2>4 DEF BumpDesired, Outside
<1>6. CASE EnqueueOld(w) \/ EnqueueDesired(w) \/ EnqueueDetached(w)
  <2>1. PICK e \in Events, v \in Nat : queue' = Send(queue, EventMsg(e, v))
    BY <1>6 DEF EnqueueOld, EnqueueDesired, EnqueueDetached, EnqueueEvent
  <2>2. DOMAIN queue' \subseteq Message
    BY <2>1, BodyFacts, SendType, 0 \in Nat
  <2>3. PICK here \in {"enqueue old event", "enqueue event", "enqueue detached"},
             there \in {"enqueue event", "set exported", "clear"} :
          /\ At(w, here) /\ GoTo(w, there) /\ (there = "enqueue event" => here = "enqueue old event")
          /\ (there = "clear" <=> here = "enqueue detached")
          /\ UNCHANGED <<per, evt, ses, dlq, hand, got, oldv, newv, sid, ids, rows, faults>>
          /\ Outside
    BY <1>6 DEF EnqueueOld, EnqueueDesired, EnqueueDetached, EnqueueEvent
  <2>4. LocalsType'
    BY <2>3 DEF WorkerInv, LocalsType
  <2>5. WorkerControl'
    BY <2>3 DEF WorkerInv, LocalsType, WorkerControl
  <2>6. StoreInv' /\ EditorInv'
    BY <1>e, <2>2, <2>3 DEF Outside
  <2>7. QED
    BY <2>4, <2>5, <2>6 DEF WorkerInv
<1>7. CASE SetExported(w) \/ ClearDetached(w)
  <2>1. Target(w) \in Periods
    BY <1>7 DEF SetExported, ClearDetached
  <2>2. /\ ExportedAt(per[Target(w)], got[w].ver) \in Period
        /\ Cleared(per[Target(w)], got[w].ver) \in Period
    BY <2>1, NoEventWrites
  <2>3. Reset(w) /\ Outside /\ UNCHANGED <<evt, ses, queue, dlq, faults>>
    BY <1>7 DEF SetExported, ClearDetached
  <2>4. WorkerInv'
    BY <2>3, ResetWorkerInv
  <2>5. \E r \in Period : per' = [per EXCEPT ![Target(w)] = r]
    BY <1>7, <2>2 DEF SetExported, ClearDetached
  <2>6. per' \in [Periods -> Period]
    BY <2>1, <2>5
  <2>7. StoreInv'
    BY <2>3, <2>6 DEF Outside
  <2>8. QED
    BY <1>e, <2>3, <2>4, <2>7
<1>8. QED
  BY <1>1, <1>2, <1>3, <1>4, <1>5, <1>6, <1>7, <1>9 DEF AssignPeriod

\* The steps of Phase 2.
LEMMA Phase2TypeInv ==
    ASSUME TypeInv, NEW w \in Workers, SyncEvent(w)
    PROVE  TypeInv'
<1> USE DEF TypeInv, StoreInv
<1> USE HandFacts DEF At, GoTo, Phase1, Phase2, HasDesired, HasLeft
<1>e. ASSUME Outside PROVE EditorInv'
  BY <1>e DEF Outside, EditorInv
<1>1. CASE ReadEvent(w)
  <2>1. Syncing(w) \in Events
    BY <1>1 DEF ReadEvent
  <2>2. evt[Syncing(w)].ver \in Nat /\ evt[Syncing(w)].sid \in Nat
    BY <2>1 DEF Event
  <2>3. WorkerInv'
    <3>1. CASE Reset(w)
      BY <3>1, ResetWorkerInv
    <3>2. CASE ~Reset(w)
      <4>1. PICK v \in Nat, n \in Nat :
                /\ newv' = [newv EXCEPT ![w] = v] /\ sid' = [sid EXCEPT ![w] = n]
                /\ pc' = [pc EXCEPT ![w] = "list"]
                /\ UNCHANGED <<hand, got, oldv, ids, rows>>
        BY <1>1, <2>2, <3>2 DEF ReadEvent
      <4>2. pc[w] = "read event"
        BY <1>1 DEF ReadEvent
      <4>3. LocalsType'
        BY <4>1 DEF WorkerInv, LocalsType
      <4>4. WorkerControl'
        BY <4>1, <4>2 DEF WorkerInv, LocalsType, WorkerControl
      <4>5. QED
        BY <4>3, <4>4 DEF WorkerInv
    <3>3. QED
      BY <3>1, <3>2
  <2>4. QED
    BY <1>1, <1>e, <2>3 DEF ReadEvent, Outside
<1>2. CASE ListPeriods(w)
  <2>1. WorkerInv'
    BY <1>2 DEF ListPeriods, WorkerInv, LocalsType, WorkerControl
  <2>2. QED
    BY <1>2, <1>e, <2>1 DEF ListPeriods, Outside
<1>3. CASE GetPeriods(w)
  <2>1. RowsNow(w) \in SUBSET Row
    <3>1. \A p \in ids[w] : [period |-> p, rec |-> per[p]] \in Row
      BY DEF Row
    <3>2. QED
      BY <3>1 DEF RowsNow
  <2>2. WorkerInv'
    BY <1>3, <2>1 DEF GetPeriods, WorkerInv, LocalsType, WorkerControl
  <2>3. QED
    BY <1>3, <1>e, <2>2 DEF GetPeriods, Outside
<1>4. CASE RejectMismatch(w)
  BY <1>4, ReturnTypeInv DEF RejectMismatch, Outside
<1>5. CASE CreateNitc(w)
  <2>1. Syncing(w) \in Events
    BY <1>5 DEF CreateNitc
  <2>2. ses' \in Seq(Nitc) /\ Len(ses) + 1 \in Nat
    <3>1. [ev |-> Syncing(w), roster |-> {}] \in Nitc
      BY <2>1 DEF Nitc
    <3>2. QED
      BY <1>5, <3>1, AppendFacts DEF CreateNitc, NewNitc
  <2>3. WorkerInv'
    BY <1>5, <2>2 DEF CreateNitc, WorkerInv, LocalsType, WorkerControl
  <2>4. QED
    BY <1>5, <1>e, <2>2, <2>3 DEF CreateNitc, Outside
<1>6. CASE SetSesId(w)
  <2>1. Syncing(w) \in Events
    BY <1>6 DEF SetSesId
  <2>2. [evt[Syncing(w)] EXCEPT !.sid = sid[w]] \in Event
    BY <2>1, EventWrites
  <2>3. WorkerInv'
    BY <1>6 DEF SetSesId, WorkerInv, LocalsType, WorkerControl
  <2>4. QED
    BY <1>6, <1>e, <2>1, <2>2, <2>3 DEF SetSesId, Outside
<1>7. CASE PutNitc(w)
  <2>1. ses' \in Seq(Nitc)
    BY <1>7, RosterType, PutType DEF PutNitc, WithRoster
  <2>2. WorkerInv'
    BY <1>7 DEF PutNitc, WorkerInv, LocalsType, WorkerControl
  <2>3. QED
    BY <1>7, <1>e, <2>1, <2>2 DEF PutNitc, Outside
<1>8. ASSUME NEW x \in rows[w], UpdateExported(w, x) \/ ClearDropped(w, x)
      PROVE  TypeInv'
  <2>1. x \in Row /\ x.period \in Periods /\ x.rec.ver \in Nat
    BY DEF Row, Period
  <2>2. Syncing(w) \in Events
    BY <1>8 DEF UpdateExported, ClearDropped
  <2>3. /\ Exported(per[x.period], Syncing(w), sid[w], x.rec.ver) \in Period
        /\ Cleared(per[x.period], x.rec.ver) \in Period
    BY <2>1, <2>2, ExportWrites, NoEventWrites
  <2>4. PICK r \in Period : WriteBack(w, x, r)
    BY <1>8, <2>3 DEF UpdateExported, ClearDropped
  <2>5. WorkerInv'
    BY <2>4 DEF WriteBack, WorkerInv, LocalsType, WorkerControl
  <2>6. QED
    BY <1>e, <2>1, <2>4, <2>5 DEF WriteBack, Outside
<1>9. CASE MarkSynced(w)
  <2>1. Syncing(w) \in Events
    BY <1>9 DEF MarkSynced
  <2>2. [evt[Syncing(w)] EXCEPT !.synced = newv[w]] \in Event
    BY <2>1, EventWrites
  <2>3. QED
    BY <1>9, <1>e, <2>1, <2>2, ResetWorkerInv DEF MarkSynced, Outside
<1>10. QED
  BY <1>1, <1>2, <1>3, <1>4, <1>5, <1>6, <1>7, <1>8, <1>9 DEF SyncEvent

LEMMA NextTypeInv == TypeInv /\ [Next]_vars => TypeInv'
<1> SUFFICES ASSUME TypeInv, [Next]_vars PROVE TypeInv'
  OBVIOUS
<1>1. CASE Edit \/ (\E x \in Editors : EditorNext(x))
  BY <1>1, EditorTypeInv
<1>2. CASE Fault
  BY <1>2, FaultTypeInv
<1>3. ASSUME NEW w \in Workers, WorkerNext(w)
      PROVE  TypeInv'
  BY <1>3, ReceiveTypeInv, Phase1TypeInv, Phase2TypeInv DEF WorkerNext
<1>4. ASSUME NEW p \in Periods, Backfill(p)
      PROVE  TypeInv'
  <2>1. DOMAIN queue' \subseteq Message
    BY <1>4, BodyFacts, SendType, 0 \in Nat DEF Backfill, TypeInv, StoreInv
  <2>2. EditorInv' /\ WorkerInv'
    BY <1>4 DEF Backfill, worker, TypeInv, EditorInv, WorkerInv, LocalsType, WorkerControl
  <2>3. QED
    BY <1>4, <2>1, <2>2 DEF Backfill, TypeInv, StoreInv
<1>5. CASE UNCHANGED vars
  BY <1>5 DEF vars, worker, TypeInv, StoreInv, EditorInv, WorkerInv, LocalsType, WorkerControl
<1>6. QED
  BY <1>1, <1>2, <1>3, <1>4, <1>5 DEF Next

\* Every state of the export is well typed: no handler or invocation, wherever it is and
\* whatever it interleaves with, writes anything but rows, messages and NITCs of the kind
\* the next reader expects.
THEOREM TypeCorrect == Spec => []TypeOK
<1>1. TypeInv => TypeOK
  BY DEF TypeInv, StoreInv, EditorInv, WorkerInv, LocalsType, TypeOK
<1>2. QED
  BY <1>1, InitTypeInv, NextTypeInv, PTL DEF Spec

-----------------------------------------------------------------------------
(* NITCs and participants *)

\* What a step does to the pointers of a period row: nothing, or it drops the participant.
KeepsPart(r, q) == q.part = 0 \/ (q.part = r.part /\ q.ev = r.ev)

\* No write but that of a participant returned by SES gives a period one, and none moves a
\* period and leaves it its participant.
LEMMA WritesKeepPart ==
    ASSUME NEW r \in Period, NEW g, NEW s, NEW e, NEW v
    PROVE  /\ KeepsPart(r, r)
           /\ KeepsPart(r, [r EXCEPT !.ver = 1, !.live = TRUE, !.slot = s])
           /\ KeepsPart(r, TimeCategory(r, g, s)) /\ KeepsPart(r, Fields(r, g, s))
           /\ KeepsPart(r, Deleted(r)) /\ KeepsPart(r, Reassigned(r, e))
           /\ KeepsPart(r, ExportedAt(r, v)) /\ KeepsPart(r, Cleared(r, v))
<1> USE DEF KeepsPart, Period
<1>1. KeepsPart(r, r) /\ KeepsPart(r, [r EXCEPT !.ver = 1, !.live = TRUE, !.slot = s])
  OBVIOUS
<1>2. KeepsPart(r, TimeCategory(r, g, s))
  BY DEF TimeCategory
<1>3. KeepsPart(r, Fields(r, g, s))
  BY DEF Fields, TimeCategory
<1>4. KeepsPart(r, Deleted(r))
  BY DEF Deleted
<1>5. KeepsPart(r, Reassigned(r, e))
  BY DEF Reassigned
<1>6. KeepsPart(r, ExportedAt(r, v))
  BY DEF ExportedAt
<1>7. KeepsPart(r, Cleared(r, v))
  BY DEF Cleared
<1>8. QED
  BY <1>1, <1>2, <1>3, <1>4, <1>5, <1>6, <1>7

\* A step that neither writes SES, nor an event's NITC, nor a participant, and takes no
\* invocation further into Phase 2.
SameNitcs == ses' = ses /\ \A e \in Events : evt'[e].sid = evt[e].sid
SameParts == \A p \in Periods : KeepsPart(per[p], per'[p])
Stays(w) == /\ pc'[w] = pc[w] /\ hand'[w] = hand[w] /\ sid'[w] = sid[w]
            /\ rows'[w] \subseteq rows[w]
Outside2(w) == pc'[w] \in {"idle", "read event"} \cup Phase1
SameLocals == \A w \in Workers : Stays(w) \/ Outside2(w)

LEMMA QuietNitcInv ==
    ASSUME TypeInv, NitcInv, SameNitcs, SameParts, SameLocals
    PROVE  NitcInv'
<1> USE DEF NitcInv
<1>1. NitcOfEvent'
  BY DEF NitcOfEvent, SameNitcs
<1>2. NitcInHand'
  <2> SUFFICES ASSUME NEW w \in Workers
               PROVE  (/\ pc[w] \in Phase2 \ {"read event"} /\ sid[w] # 0 =>
                              sid[w] \in DOMAIN ses /\ ses[sid[w]].ev = Syncing(w)
                       /\ pc[w] \in {"set ses id", "put", "write back"} => sid[w] # 0)'
    BY DEF NitcInHand
  <2>1. CASE Stays(w)
    BY <2>1 DEF NitcInHand, Stays, SameNitcs, Syncing
  <2>2. CASE Outside2(w)
    BY <2>2 DEF Outside2, Phase1, Phase2
  <2>3. QED
    BY <2>1, <2>2 DEF SameLocals
<1>3. RowsChecked'
  <2> SUFFICES ASSUME NEW w \in Workers, pc'[w] \in {"create", "set ses id", "put"}
               PROVE  ~Mismatched(Syncing(w), rows[w])'
    BY DEF RowsChecked
  <2>1. Stays(w)
    BY DEF SameLocals, Outside2, Phase1
  <2>2. ~Mismatched(Syncing(w), rows[w])
    BY <2>1 DEF Stays, RowsChecked
  <2>3. QED
    BY <2>1, <2>2 DEF Stays, Mismatched, LiveRows, Syncing
<1>4. ParticipantOfOwnEvent'
  BY DEF ParticipantOfOwnEvent, SameNitcs, SameParts, KeepsPart
<1>5. RosterOfOneGroup'
  BY DEF RosterOfOneGroup, SameNitcs
<1>6. QED
  BY <1>1, <1>2, <1>3, <1>4, <1>5

\* A step of a handler, of the queue or of the backfill is such a step.
LEMMA EditorNitcInv ==
    ASSUME TypeInv, NitcInv,
           Edit \/ (\E x \in Editors : EditorNext(x) \/ EditorFails(x)) \/ (\E p \in Periods : Backfill(p))
    PROVE  NitcInv'
<1> USE DEF TypeInv, StoreInv, EditorInv
<1>l. ASSUME UNCHANGED worker PROVE SameLocals
  BY <1>l DEF worker, SameLocals, Stays
<1>n. ASSUME UNCHANGED <<ses, evt>> PROVE SameNitcs
  BY <1>n DEF SameNitcs
<1>p. ASSUME UNCHANGED per PROVE SameParts
  BY <1>p DEF SameParts, KeepsPart
<1>w. ASSUME NEW p \in Periods, NEW r, per' = [per EXCEPT ![p] = r], KeepsPart(per[p], r)
      PROVE  SameParts
  BY <1>w DEF SameParts, KeepsPart
<1>1. ASSUME NEW p \in Periods, NEW s \in Slots, StartPeriod(p, s)
      PROVE  NitcInv'
  <2>1. SameParts
    BY <1>1, <1>w, WritesKeepPart DEF StartPeriod
  <2>2. QED
    BY <1>1, <1>l, <1>n, <2>1, QuietNitcInv DEF StartPeriod, EditorStep
<1>2. ASSUME NEW x \in Editors, NEW p \in Periods, NEW g \in Categories, NEW s \in Slots,
             CreatePeriod(x, p, g, s)
      PROVE  NitcInv'
  <2>1. SameParts
    BY <1>2, <1>w, WritesKeepPart DEF CreatePeriod
  <2>2. QED
    BY <1>2, <1>l, <1>n, <2>1, QuietNitcInv DEF CreatePeriod, EditorStep
<1>3. ASSUME NEW x \in Editors, NEW g \in Categories, NEW s \in Slots,
             WriteFields(x, g, s) \/ WriteTimeCategory(x, g, s)
      PROVE  NitcInv'
  <2>1. ed[x].p \in Periods
    BY <1>3 DEF WriteFields, WriteTimeCategory
  <2>2. SameParts
    <3>0. per[ed[x].p] \in Period
      BY <2>1
    <3>1. CASE WriteFields(x, g, s)
      <4>1. per' = [per EXCEPT ![ed[x].p] = Fields(per[ed[x].p], g, s)]
        BY <3>1 DEF WriteFields
      <4>2. KeepsPart(per[ed[x].p], Fields(per[ed[x].p], g, s))
        BY <3>0, WritesKeepPart
      <4>3. QED
        BY <1>w, <2>1, <4>1, <4>2
    <3>2. CASE WriteTimeCategory(x, g, s)
      <4>1. per' = [per EXCEPT ![ed[x].p] = TimeCategory(per[ed[x].p], g, s)]
        BY <3>2 DEF WriteTimeCategory
      <4>2. KeepsPart(per[ed[x].p], TimeCategory(per[ed[x].p], g, s))
        BY <3>0, WritesKeepPart
      <4>3. QED
        BY <1>w, <2>1, <4>1, <4>2
    <3>3. QED
      BY <1>3, <3>1, <3>2
  <2>3. QED
    BY <1>3, <1>l, <1>n, <2>2, QuietNitcInv DEF WriteFields, WriteTimeCategory, EditorStep
<1>4. ASSUME NEW x \in Editors, DeletePeriod(x)
      PROVE  NitcInv'
  <2>1. ed[x].p \in Periods
    BY <1>4 DEF DeletePeriod
  <2>2. SameParts
    BY <1>4, <1>w, <2>1, WritesKeepPart DEF DeletePeriod
  <2>3. QED
    BY <1>4, <1>l, <1>n, <2>2, QuietNitcInv DEF DeletePeriod, EditorStep
<1>5. ASSUME NEW x \in Editors, BumpOldEvent(x)
      PROVE  NitcInv'
  <2>1. SameNitcs
    BY <1>5 DEF BumpOldEvent, EditorStep, SameNitcs, Bumped, Event
  <2>2. QED
    BY <1>5, <1>l, <1>p, <2>1, QuietNitcInv DEF BumpOldEvent, EditorStep
<1>6. ASSUME UNCHANGED <<per, evt, ses, worker>>
      PROVE  NitcInv'
  BY <1>l, <1>n, <1>p, <1>6, QuietNitcInv
<1>7. ASSUME NEW x \in Editors, NEW p \in Periods, ReadForEdit(x, p) \/ ReadForSelfSignOut(x, p)
      PROVE  NitcInv'
  BY <1>6, <1>7 DEF ReadForEdit, ReadForSelfSignOut, EditorStep
<1>8. ASSUME NEW x \in Editors, RefuseSelfSignOut(x) \/ EnqueuePeriodExport(x) \/ EditorFails(x)
      PROVE  NitcInv'
  BY <1>6, <1>8 DEF RefuseSelfSignOut, EnqueuePeriodExport, EditorFails, EditorStep
<1>9. ASSUME NEW p \in Periods, Backfill(p)
      PROVE  NitcInv'
  BY <1>6, <1>9 DEF Backfill
<1>10. ASSUME Edit PROVE NitcInv'
  BY <1>1, <1>2, <1>7, <1>10 DEF Edit
<1>11. ASSUME NEW x \in Editors, EditorNext(x) PROVE NitcInv'
  BY <1>3, <1>4, <1>5, <1>8, <1>11 DEF EditorNext
<1>12. QED
  BY <1>8, <1>9, <1>10, <1>11

\* Nor does the end of an invocation do more, or the receipt of a message.
LEMMA ResetLocals ==
    ASSUME TypeInv, NEW w \in Workers, Reset(w)
    PROVE  SameLocals
  BY DEF TypeInv, WorkerInv, LocalsType, Reset, SameLocals, Stays, Outside2

LEMMA ReceiveNitcInv ==
    ASSUME TypeInv, NitcInv, NEW w \in Workers, NEW m \in BagToSet(queue), Receive(w, m)
    PROVE  NitcInv'
<1>1. SameNitcs /\ SameParts
  BY DEF Receive, SameNitcs, SameParts, KeepsPart
<1>2. SameLocals
  BY DEF Receive, GoTo, TypeInv, WorkerInv, LocalsType, SameLocals, Stays, Outside2, Phase1
<1>3. QED
  BY <1>1, <1>2, QuietNitcInv

\* A new NITC has no participants, and nobody holds its id yet.
LEMMA NewNitcInv ==
    ASSUME TypeInv, NitcInv, NEW w \in Workers, Syncing(w) \in Events, NewNitc(w),
           UNCHANGED <<per, evt, worker>>
    PROVE  NitcInv'
<1> USE DEF NitcInv, worker
<1>1. [ev |-> Syncing(w), roster |-> {}] \in Nitc /\ ses \in Seq(Nitc)
  BY DEF Nitc, TypeInv, StoreInv
<1>2. /\ DOMAIN ses' = DOMAIN ses \cup {Len(ses) + 1}
      /\ \A j \in DOMAIN ses : ses'[j] = ses[j]
      /\ ses'[Len(ses) + 1] = [ev |-> Syncing(w), roster |-> {}]
  BY <1>1, AppendFacts DEF NewNitc
<1>3. NitcOfEvent'
  BY <1>2 DEF NitcOfEvent
<1>4. NitcInHand'
  BY <1>2 DEF NitcInHand, Syncing
<1>5. RowsChecked'
  BY DEF RowsChecked, Mismatched, LiveRows, Syncing
<1>6. ParticipantOfOwnEvent'
  BY <1>2 DEF ParticipantOfOwnEvent
<1>7. RosterOfOneGroup'
  BY <1>2 DEF RosterOfOneGroup
<1>8. QED
  BY <1>3, <1>4, <1>5, <1>6, <1>7

LEMMA FaultNitcInv ==
    ASSUME TypeInv, NitcInv, Fault
    PROVE  NitcInv'
<1>1. CASE \E x \in Editors : EditorFails(x)
  BY <1>1, EditorNitcInv
<1>2. ASSUME NEW w \in Workers, Crash(w)
      PROVE  NitcInv'
  <2>1. SameNitcs /\ SameParts
    BY <1>2 DEF Crash, SameNitcs, SameParts, KeepsPart
  <2>2. QED
    BY <1>2, <2>1, ResetLocals, QuietNitcInv DEF Crash, Return
<1>3. ASSUME NEW w \in Workers, CreateRetried(w)
      PROVE  NitcInv'
  <2>1. UNCHANGED <<per, evt, worker>>
    BY <1>3 DEF CreateRetried
  <2>2. Syncing(w) \in Events
    BY <1>3, HandFacts DEF CreateRetried, At, Phase2
  <2>3. QED
    BY <1>3, <2>1, <2>2, NewNitcInv DEF CreateRetried
<1>4. ASSUME NEW m \in BagToSet(queue), Duplicate(m)
      PROVE  NitcInv'
  <2>1. SameNitcs /\ SameParts /\ SameLocals
    BY <1>4 DEF Duplicate, worker, SameNitcs, SameParts, KeepsPart, SameLocals, Stays
  <2>2. QED
    BY <2>1, QuietNitcInv
<1>5. QED
  BY <1>1, <1>2, <1>3, <1>4 DEF Fault

\* The steps of Phase 1.
LEMMA Phase1NitcInv ==
    ASSUME TypeInv, NitcInv, NEW w \in Workers, AssignPeriod(w)
    PROVE  NitcInv'
<1> USE HandFacts DEF At, GoTo, Phase1, HasDesired, HasLeft
<1>m. ASSUME NEW there \in Phase1, pc' = [pc EXCEPT ![w] = there], UNCHANGED <<hand, sid, rows>>
      PROVE  SameLocals
  BY <1>m DEF TypeInv, WorkerInv, LocalsType, SameLocals, Stays, Outside2
<1>n. ASSUME UNCHANGED <<ses, evt>> PROVE SameNitcs
  BY <1>n DEF SameNitcs
<1>p. ASSUME UNCHANGED per PROVE SameParts
  BY <1>p DEF SameParts, KeepsPart
<1>w. ASSUME NEW p \in Periods, NEW r, per' = [per EXCEPT ![p] = r], KeepsPart(per[p], r)
      PROVE  SameParts
  BY <1>w DEF TypeInv, StoreInv, SameParts, KeepsPart
<1>v. \A p \in Periods : per[p] \in Period
  BY DEF TypeInv, StoreInv
<1>b. ASSUME NEW e \in Events, ses' = ses, evt' = [evt EXCEPT ![e] = Bumped(@)]
      PROVE  SameNitcs
  BY <1>b DEF TypeInv, StoreInv, SameNitcs, Bumped, Event
<1>1. CASE ReadPeriod(w)
  <2>1. SameNitcs /\ SameParts
    BY <1>1, <1>n, <1>p DEF ReadPeriod
  <2>2. SameLocals
    <3>1. Verdict(per[Target(w)]) \in {"skip", "synced"} \/ Verdict(per[Target(w)]) \in Phase1
      BY <1>1, <1>v, VerdictFacts DEF ReadPeriod
    <3>2. QED
      BY <1>1, <1>m, <3>1, ResetLocals DEF ReadPeriod
  <2>3. QED
    BY <2>1, <2>2, QuietNitcInv
<1>2. CASE GetOrCreateEvent(w)
  <2>1. SameNitcs
    BY <1>2 DEF GetOrCreateEvent, SameNitcs, TypeInv, StoreInv, Event
  <2>2. PICK there \in Phase1 : pc' = [pc EXCEPT ![w] = there]
    <3>1. (CASE got[w].ev = None       -> "set event"
             [] got[w].ev = Desired(w) -> "bump event"
             [] OTHER                  -> "bump old event") \in Phase1
      OBVIOUS
    <3>2. QED
      BY <1>2, <3>1 DEF GetOrCreateEvent
  <2>3. SameLocals
    BY <1>2, <1>m, <2>2 DEF GetOrCreateEvent
  <2>4. QED
    BY <1>2, <1>p, <2>1, <2>3, QuietNitcInv DEF GetOrCreateEvent
<1>3. CASE BumpOld(w)
  BY <1>3, <1>b, <1>m, <1>p, QuietNitcInv DEF BumpOld, BumpLeft
<1>4. CASE BumpDetached(w)
  BY <1>4, <1>b, <1>m, <1>p, QuietNitcInv DEF BumpDetached, BumpLeft
<1>5. CASE SetPeriodEvent(w)
  <2>1. SameParts
    BY <1>5, <1>v, <1>w, WritesKeepPart DEF SetPeriodEvent
  <2>2. QED
    BY <1>5, <1>m, <1>n, <2>1, QuietNitcInv DEF SetPeriodEvent
<1>6. CASE BumpDesired(w)
  <2>1. SameNitcs
    BY <1>6, <1>b DEF BumpDesired
  <2>2. SameLocals
    BY <1>6, <1>m DEF BumpDesired
  <2>3. QED
    BY <1>6, <1>p, <2>1, <2>2, QuietNitcInv DEF BumpDesired
<1>7. CASE EnqueueOld(w) \/ EnqueueDesired(w) \/ EnqueueDetached(w)
  BY <1>7, <1>m, <1>n, <1>p, QuietNitcInv
     DEF EnqueueOld, EnqueueDesired, EnqueueDetached, EnqueueEvent
<1>8. CASE SetExported(w) \/ ClearDetached(w)
  <2>1. SameParts
    <3>1. Target(w) \in Periods
      BY <1>8 DEF SetExported, ClearDetached
    <3>2. PICK r : per' = [per EXCEPT ![Target(w)] = r] /\ KeepsPart(per[Target(w)], r)
      BY <1>8, <1>v, <3>1, WritesKeepPart DEF SetExported, ClearDetached
    <3>3. QED
      BY <1>w, <3>1, <3>2
  <2>2. QED
    BY <1>8, <1>n, <2>1, ResetLocals, QuietNitcInv DEF SetExported, ClearDetached
<1>9. QED
  BY <1>1, <1>2, <1>3, <1>4, <1>5, <1>6, <1>7, <1>8 DEF AssignPeriod

\* POST: the new NITC is in hand of the invocation that created it.
LEMMA CreateNitcInv ==
    ASSUME TypeInv, NitcInv, NEW w \in Workers, CreateNitc(w)
    PROVE  NitcInv'
<1> DEFINE n == Len(ses) + 1
<1>1. pc[w] \in Phase2
  BY DEF CreateNitc, At, Phase2
<1>2. [ev |-> Syncing(w), roster |-> {}] \in Nitc
  BY <1>1, HandFacts DEF Nitc
<1>3. /\ DOMAIN ses' = DOMAIN ses \cup {n}
      /\ \A j \in DOMAIN ses : ses'[j] = ses[j]
      /\ ses'[n] = [ev |-> Syncing(w), roster |-> {}] /\ n # 0
  BY <1>2, AppendFacts DEF CreateNitc, NewNitc, TypeInv, StoreInv
<1>4. /\ sid'[w] = n /\ pc'[w] = "set ses id" /\ pc[w] = "create"
      /\ \A v \in Workers \ {w} : sid'[v] = sid[v] /\ pc'[v] = pc[v]
      /\ UNCHANGED <<per, evt, hand, rows>>
  BY DEF CreateNitc, At, GoTo, TypeInv, WorkerInv, LocalsType
<1> HIDE DEF n
<1>5. ses'[n].ev = Syncing(w) /\ ses'[n].roster = {}
  BY <1>3
<1>6. NitcOfEvent'
  BY <1>3, <1>4 DEF NitcInv, NitcOfEvent
<1>7. NitcInHand'
  <2> SUFFICES ASSUME NEW v \in Workers
               PROVE  (/\ pc[v] \in Phase2 \ {"read event"} /\ sid[v] # 0 =>
                              sid[v] \in DOMAIN ses /\ ses[sid[v]].ev = Syncing(v)
                       /\ pc[v] \in {"set ses id", "put", "write back"} => sid[v] # 0)'
    BY DEF NitcInHand
  <2>1. CASE v = w
    BY <1>3, <1>4, <1>5, <2>1 DEF Syncing
  <2>2. CASE v # w
    <3>1. sid'[v] = sid[v] /\ pc'[v] = pc[v] /\ Syncing(v)' = Syncing(v)
      BY <1>4, <2>2 DEF Syncing
    <3>2. sid[v] \in DOMAIN ses => sid[v] \in DOMAIN ses' /\ ses'[sid[v]] = ses[sid[v]]
      BY <1>3
    <3>3. QED
      BY <3>1, <3>2 DEF NitcInv, NitcInHand
  <2>3. QED
    BY <2>1, <2>2
<1>8. RowsChecked'
  BY <1>4 DEF NitcInv, RowsChecked, Mismatched, LiveRows, Syncing
<1>9. ParticipantOfOwnEvent'
  BY <1>3, <1>4 DEF NitcInv, ParticipantOfOwnEvent
<1>10. RosterOfOneGroup'
  BY <1>3, <1>5 DEF NitcInv, RosterOfOneGroup
<1>11. QED
  BY <1>6, <1>7, <1>8, <1>9, <1>10 DEF NitcInv

\* PUT: the participants sent are those that passed the guard.
LEMMA PutNitcInv ==
    ASSUME TypeInv, NitcInv, NEW w \in Workers, PutNitc(w)
    PROVE  NitcInv'
<1> DEFINE R == Roster(rows[w])
<1>1. /\ ses' = WithRoster(ses, sid[w], R)
      /\ pc'[w] = "write back" /\ pc[w] = "put"
      /\ \A v \in Workers \ {w} : pc'[v] = pc[v]
      /\ UNCHANGED <<per, evt, hand, sid, rows>>
  BY DEF PutNitc, WithRoster, At, GoTo, TypeInv, WorkerInv, LocalsType
<1>2. sid[w] \in DOMAIN ses /\ ses[sid[w]].ev = Syncing(w)
  BY <1>1 DEF NitcInv, NitcInHand, Phase2
<1>3. \A x \in R : x.grp = Syncing(w)[2]
  <2>1. \A y \in LiveRows(rows[w]) : y.rec.grp = Syncing(w)[2]
    BY <1>1 DEF NitcInv, RowsChecked, Mismatched
  <2>2. QED
    BY <2>1 DEF Roster, EntryOf
<1>4. R \in SUBSET Entry
  BY RosterType DEF TypeInv, WorkerInv, LocalsType
<1> HIDE DEF R
<1>5. /\ DOMAIN ses' = DOMAIN ses
      /\ \A j \in DOMAIN ses :
            /\ ses'[j].ev = ses[j].ev
            /\ ses'[j].roster = IF j = sid[w] THEN R ELSE ses[j].roster
  <2>1. ses \in Seq(Nitc)
    BY DEF TypeInv, StoreInv
  <2>2. ses' = WithRoster(ses, sid[w], R)
    BY <1>1
  <2> DEFINE i == sid[w]
  <2> HIDE DEF i
  <2>3. /\ DOMAIN WithRoster(ses, i, R) = DOMAIN ses
        /\ \A j \in DOMAIN ses :
              /\ WithRoster(ses, i, R)[j].ev = ses[j].ev
              /\ WithRoster(ses, i, R)[j].roster = IF j = i THEN R ELSE ses[j].roster
    BY <1>4, <2>1, PutType
  <2>4. QED
    BY <2>2, <2>3 DEF i
<1>6. RosterOfOneGroup'
  <2> SUFFICES ASSUME NEW j \in DOMAIN ses, NEW x \in ses'[j].roster
               PROVE  x.grp = ses[j].ev[2]
    BY <1>5 DEF RosterOfOneGroup
  <2>1. CASE j = sid[w]
    BY <1>2, <1>3, <1>5, <2>1
  <2>2. CASE j # sid[w]
    BY <1>5, <2>2 DEF NitcInv, RosterOfOneGroup
  <2>3. QED
    BY <2>1, <2>2
<1>7. NitcOfEvent' /\ ParticipantOfOwnEvent'
  BY <1>1, <1>5 DEF NitcInv, NitcOfEvent, ParticipantOfOwnEvent
<1>8. NitcInHand'
  BY <1>1, <1>5 DEF NitcInv, NitcInHand, Phase2, Syncing
<1>9. RowsChecked'
  BY <1>1 DEF NitcInv, RowsChecked, Mismatched, LiveRows, Syncing
<1>10. QED
  BY <1>6, <1>7, <1>8, <1>9 DEF NitcInv

\* The clean-up of a deleted period drops its participant.
LEMMA ClearsPart ==
    ASSUME per \in [Periods -> Period], NEW p \in Periods, NEW v,
           per' = [per EXCEPT ![p] = Cleared(@, v)]
    PROVE  SameParts
<1>1. \A q \in Periods : per[q] \in Period
  OBVIOUS
<1>2. per'[p] = Cleared(per[p], v) /\ \A q \in Periods \ {p} : per'[q] = per[q]
  OBVIOUS
<1>3. KeepsPart(per[p], per'[p])
  BY <1>1, <1>2, WritesKeepPart
<1>4. \A q \in Periods \ {p} : KeepsPart(per[q], per'[q])
  BY <1>2 DEF KeepsPart
<1>5. QED
  BY <1>3, <1>4 DEF SameParts

\* The steps of Phase 2.
LEMMA Phase2NitcInv ==
    ASSUME TypeInv, NitcInv, NEW w \in Workers, SyncEvent(w)
    PROVE  NitcInv'
<1> USE HandFacts DEF At, GoTo, Phase2
<1>n. ASSUME UNCHANGED <<ses, evt>> PROVE SameNitcs
  BY <1>n DEF SameNitcs
<1>p. ASSUME UNCHANGED per PROVE SameParts
  BY <1>p DEF SameParts, KeepsPart
<1>t. /\ per \in [Periods -> Period] /\ evt \in [Events -> Event] /\ ses \in Seq(Nitc)
      /\ pc \in [Workers -> {"idle"} \cup Phase1 \cup Phase2]
      /\ sid \in [Workers -> Nat] /\ rows \in [Workers -> SUBSET Row]
  BY DEF TypeInv, StoreInv, WorkerInv, LocalsType
<1>1. CASE ReadEvent(w)
  <2>1. CASE Reset(w)
    BY <1>1, <1>n, <1>p, <2>1, ResetLocals, QuietNitcInv DEF ReadEvent
  <2>2. CASE ~Reset(w)
    <3>1. /\ sid' = [sid EXCEPT ![w] = evt[Syncing(w)].sid]
          /\ pc' = [pc EXCEPT ![w] = "list"]
          /\ UNCHANGED <<per, evt, ses, hand, rows>>
      BY <1>1, <2>2 DEF ReadEvent
    <3>2. Syncing(w) \in Events
      BY <1>1 DEF ReadEvent
    <3>3. NitcInHand'
      BY <1>t, <3>1, <3>2 DEF NitcInv, NitcOfEvent, NitcInHand, Syncing
    <3>4. RowsChecked'
      BY <1>t, <3>1 DEF NitcInv, RowsChecked, Mismatched, LiveRows, Syncing
    <3>5. (NitcOfEvent /\ ParticipantOfOwnEvent /\ RosterOfOneGroup)'
      BY <3>1 DEF NitcInv, NitcOfEvent, ParticipantOfOwnEvent, RosterOfOneGroup
    <3>6. QED
      BY <3>3, <3>4, <3>5 DEF NitcInv
  <2>3. QED
    BY <2>1, <2>2
<1>2. CASE ListPeriods(w) \/ GetPeriods(w)
  <2>1. UNCHANGED <<per, evt, ses, hand, sid>>
    BY <1>2 DEF ListPeriods, GetPeriods
  <2>2. PICK there \in {"get periods", "create", "put"} :
            /\ pc' = [pc EXCEPT ![w] = there]
            /\ there = "put" => sid[w] # 0
    BY <1>2 DEF ListPeriods, GetPeriods
  <2>3. pc[w] \in {"list", "get periods"}
    BY <1>2 DEF ListPeriods, GetPeriods
  <2>4. NitcInHand'
    BY <1>t, <2>1, <2>2, <2>3 DEF NitcInv, NitcInHand, Syncing
  <2>5. RowsChecked'
    <3>1. CASE ListPeriods(w)
      BY <1>t, <3>1 DEF ListPeriods, NitcInv, RowsChecked, Mismatched, LiveRows, Syncing
    <3>2. CASE GetPeriods(w)
      <4>1. rows' = [rows EXCEPT ![w] = RowsNow(w)] /\ ~Mismatched(Syncing(w), RowsNow(w))
        BY <3>2 DEF GetPeriods
      <4>2. \A v \in Workers \ {w} : pc'[v] = pc[v] /\ rows'[v] = rows[v]
        BY <1>t, <2>2, <4>1
      <4>3. rows'[w] = RowsNow(w)
        BY <1>t, <4>1
      <4>4. QED
        BY <2>1, <4>1, <4>2, <4>3 DEF NitcInv, RowsChecked, Mismatched, LiveRows, Syncing
    <3>3. QED
      BY <1>2, <3>1, <3>2
  <2>6. (NitcOfEvent /\ ParticipantOfOwnEvent /\ RosterOfOneGroup)'
    BY <2>1 DEF NitcInv, NitcOfEvent, ParticipantOfOwnEvent, RosterOfOneGroup
  <2>7. QED
    BY <2>4, <2>5, <2>6 DEF NitcInv
<1>3. CASE RejectMismatch(w)
  BY <1>3, <1>n, <1>p, ResetLocals, QuietNitcInv DEF RejectMismatch, Return
<1>4. CASE CreateNitc(w)
  BY <1>4, CreateNitcInv
<1>5. CASE SetSesId(w)
  <2>1. Syncing(w) \in Events /\ sid[w] \in DOMAIN ses /\ ses[sid[w]].ev = Syncing(w) /\ sid[w] # 0
    BY <1>5 DEF SetSesId, NitcInv, NitcInHand
  <2>2. /\ evt' = [evt EXCEPT ![Syncing(w)].sid = sid[w]]
        /\ pc' = [pc EXCEPT ![w] = "put"]
        /\ UNCHANGED <<per, ses, hand, sid, rows>> /\ pc[w] = "set ses id"
    BY <1>5 DEF SetSesId
  <2>3. NitcOfEvent'
    BY <1>t, <2>1, <2>2 DEF NitcInv, NitcOfEvent, Event
  <2>4. NitcInHand'
    BY <1>t, <2>2 DEF NitcInv, NitcInHand, Syncing
  <2>5. RowsChecked'
    BY <1>t, <2>2 DEF NitcInv, RowsChecked, Mismatched, LiveRows, Syncing
  <2>6. (ParticipantOfOwnEvent /\ RosterOfOneGroup)'
    BY <2>2 DEF NitcInv, ParticipantOfOwnEvent, RosterOfOneGroup
  <2>7. QED
    BY <2>3, <2>4, <2>5, <2>6 DEF NitcInv
<1>6. CASE PutNitc(w)
  BY <1>6, PutNitcInv
<1>7. ASSUME NEW x \in rows[w], UpdateExported(w, x)
      PROVE  NitcInv'
  <2>1. /\ x.period \in Periods /\ Syncing(w) \in Events
        /\ sid[w] \in DOMAIN ses /\ ses[sid[w]].ev = Syncing(w)
    <3>1. pc[w] = "write back"
      BY <1>7 DEF UpdateExported
    <3>2. x \in Row
      BY <1>7, <1>t
    <3>3. x.period \in Periods
      BY <3>2 DEF Row
    <3>4. sid[w] # 0
      BY <3>1 DEF NitcInv, NitcInHand
    <3>5. sid[w] \in DOMAIN ses /\ ses[sid[w]].ev = Syncing(w)
      BY <3>1, <3>4 DEF NitcInv, NitcInHand
    <3>6. QED
      BY <3>1, <3>3, <3>5
  <2>2. /\ per' = [per EXCEPT ![x.period] = Exported(@, Syncing(w), sid[w], x.rec.ver)]
        /\ rows' = [rows EXCEPT ![w] = @ \ {x}]
        /\ UNCHANGED <<evt, ses, pc, hand, sid>>
    BY <1>7 DEF UpdateExported, WriteBack
  <2>3. /\ per'[x.period].ev = Syncing(w) /\ per'[x.period].part = sid[w]
        /\ \A p \in Periods \ {x.period} : per'[p] = per[p]
    <3>1. /\ per'[x.period] = Exported(per[x.period], Syncing(w), sid[w], x.rec.ver)
          /\ \A p \in Periods \ {x.period} : per'[p] = per[p]
      BY <1>t, <2>1, <2>2
    <3>2. per[x.period] \in Period
      BY <1>t, <2>1
    <3>3. QED
      BY <3>1, <3>2 DEF Exported, Period
  <2>4. ParticipantOfOwnEvent'
    <3>1. ASSUME NEW p \in Periods, per'[p].part # 0
          PROVE  per'[p].part \in DOMAIN ses /\ ses[per'[p].part].ev = per'[p].ev
      <4>1. CASE p = x.period
        BY <2>1, <2>3, <4>1
      <4>2. CASE p # x.period
        BY <2>3, <3>1, <4>2 DEF NitcInv, ParticipantOfOwnEvent
      <4>3. QED
        BY <4>1, <4>2
    <3>2. QED
      BY <2>2, <3>1 DEF ParticipantOfOwnEvent
  <2>5. RowsChecked'
    BY <1>t, <2>2 DEF NitcInv, RowsChecked, Mismatched, LiveRows, Syncing
  <2>6. (NitcOfEvent /\ NitcInHand /\ RosterOfOneGroup)'
    BY <2>2 DEF NitcInv, NitcOfEvent, NitcInHand, RosterOfOneGroup, Syncing
  <2>7. QED
    BY <2>4, <2>5, <2>6 DEF NitcInv
<1>8. ASSUME NEW x \in rows[w], ClearDropped(w, x)
      PROVE  NitcInv'
  <2>1. x.period \in Periods
    BY <1>t DEF Row
  <2>2. /\ per' = [per EXCEPT ![x.period] = Cleared(@, x.rec.ver)]
        /\ rows' = [rows EXCEPT ![w] = @ \ {x}]
        /\ UNCHANGED <<evt, ses, pc, hand, sid>>
    BY <1>8 DEF ClearDropped, WriteBack
  <2>3. SameParts
    BY <1>t, <2>1, <2>2, ClearsPart
  <2>4. SameLocals
    BY <1>t, <2>2 DEF SameLocals, Stays
  <2>5. QED
    BY <1>n, <2>2, <2>3, <2>4, QuietNitcInv
<1>9. CASE MarkSynced(w)
  <2>1. SameNitcs
    BY <1>9, <1>t DEF MarkSynced, SameNitcs, Event
  <2>2. QED
    BY <1>9, <1>p, <2>1, ResetLocals, QuietNitcInv DEF MarkSynced
<1>10. QED
  BY <1>1, <1>2, <1>3, <1>4, <1>5, <1>6, <1>7, <1>8, <1>9 DEF SyncEvent

LEMMA InitIInv == Init => IInv
<1> SUFFICES ASSUME Init PROVE NitcInv
  BY InitTypeInv DEF IInv
<1>1. NitcOfEvent /\ ParticipantOfOwnEvent /\ RosterOfOneGroup
  BY DEF Init, NoPeriod, NitcOfEvent, ParticipantOfOwnEvent, RosterOfOneGroup
<1>2. NitcInHand /\ RowsChecked
  BY DEF Init, NitcInHand, RowsChecked, Phase2
<1>3. QED
  BY <1>1, <1>2 DEF NitcInv

LEMMA NextIInv == IInv /\ [Next]_vars => IInv'
<1> SUFFICES ASSUME TypeInv, NitcInv, [Next]_vars PROVE NitcInv'
  BY NextTypeInv DEF IInv
<1>1. CASE Edit \/ (\E x \in Editors : EditorNext(x)) \/ (\E p \in Periods : Backfill(p))
  BY <1>1, EditorNitcInv
<1>2. CASE Fault
  BY <1>2, FaultNitcInv
<1>3. ASSUME NEW w \in Workers, WorkerNext(w)
      PROVE  NitcInv'
  BY <1>3, ReceiveNitcInv, Phase1NitcInv, Phase2NitcInv DEF WorkerNext
<1>4. CASE UNCHANGED vars
  <2>1. SameNitcs /\ SameParts /\ SameLocals
    BY <1>4 DEF vars, worker, SameNitcs, SameParts, KeepsPart, SameLocals, Stays
  <2>2. QED
    BY <2>1, QuietNitcInv
<1>5. QED
  BY <1>1, <1>2, <1>3, <1>4 DEF Next

LEMMA Invariance == Spec => []IInv
  BY InitIInv, NextIInv, PTL DEF Spec

\* A period's row holds no participant id but one of its own event's NITC, however many
\* invocations, edits and crashes interleave: the id is dropped in the same write that moves the
\* period (set_period_nitc_event), and set in the same write as the event
\* (update_period_nitc_exported).
THEOREM ParticipantSafe == Spec => []ParticipantOfOwnEvent
  BY Invariance, PTL DEF IInv, NitcInv

\* The guard of sync_nitc_event, evaluated on rows read before the calls to SES, is enough to
\* keep the participants of every NITC in its group, whatever is edited during those calls.
THEOREM RosterSafe == Spec => []RosterOfOneGroup
  BY Invariance, PTL DEF IInv, NitcInv

-----------------------------------------------------------------------------
(* What a step does, seen from the tables *)

\* A mutation handler's write of a period: a new version, and the columns of the export alone.
Edited(r, q) == q.ver = r.ver + 1 /\ q.exp = r.exp /\ q.ev = r.ev

\* A step of a mutation handler or of the backfill.
EditorEffect ==
    /\ UNCHANGED <<ses, worker>>
    /\ \A p \in Periods : per'[p] = per[p] \/ Edited(per[p], per'[p])
    /\ \A e \in Events : evt'[e] = evt[e] \/ evt'[e] = Bumped(evt[e])
    /\ \A m \in DOMAIN queue' : m \in DOMAIN queue \/ m.body.kind = "period_export"

LEMMA EditWritesEdit ==
    ASSUME NEW r \in Period, NEW g, NEW s
    PROVE  /\ r.ver = 0 => Edited(r, [r EXCEPT !.ver = 1, !.live = TRUE, !.slot = s])
           /\ Edited(r, TimeCategory(r, g, s)) /\ Edited(r, Fields(r, g, s))
           /\ Edited(r, Deleted(r))
<1> USE DEF Edited, Period
<1>1. r.ver = 0 => Edited(r, [r EXCEPT !.ver = 1, !.live = TRUE, !.slot = s])
  OBVIOUS
<1>2. Edited(r, TimeCategory(r, g, s))
  BY DEF TimeCategory
<1>3. Edited(r, Fields(r, g, s))
  BY DEF Fields, TimeCategory
<1>4. Edited(r, Deleted(r))
  BY DEF Deleted
<1>5. QED
  BY <1>1, <1>2, <1>3, <1>4

LEMMA EditorEffects ==
    ASSUME TypeInv,
           Edit \/ (\E x \in Editors : EditorNext(x) \/ EditorFails(x)) \/ (\E p \in Periods : Backfill(p))
    PROVE  EditorEffect
<1> USE DEF EditorStep
<1>t. /\ per \in [Periods -> Period] /\ evt \in [Events -> Event]
      /\ \A p \in Periods : per[p] \in Period
  BY DEF TypeInv, StoreInv
<1>e. \A x \in Editors : /\ ed[x].at # "idle" => ed[x].p \in Periods
                         /\ ed[x].at = "bump" => ed[x].old \in Events
  BY DEF TypeInv, EditorInv
<1>p. ASSUME NEW p \in Periods, NEW q, per' = [per EXCEPT ![p] = q], Edited(per[p], q),
             UNCHANGED <<ses, worker, evt, queue>>
      PROVE  EditorEffect
  BY <1>p, <1>t DEF EditorEffect
<1>q. ASSUME UNCHANGED <<per, ses, worker, evt>>,
             \/ UNCHANGED queue
             \/ \E p : queue' = Send(queue, PeriodMsg(p))
      PROVE  EditorEffect
  <2>1. \A m \in DOMAIN queue' : m \in DOMAIN queue \/ m.body.kind = "period_export"
    <3>1. CASE UNCHANGED queue
      BY <3>1
    <3>2. ASSUME NEW p, queue' = Send(queue, PeriodMsg(p))
          PROVE  \A m \in DOMAIN queue' : m \in DOMAIN queue \/ m.body.kind = "period_export"
      <4>a. DOMAIN Put(queue, PeriodMsg(p), 0) = DOMAIN queue \cup {[body |-> PeriodMsg(p), receives |-> 0]}
        BY PutDomain
      <4>1. DOMAIN queue' = DOMAIN queue \cup {[body |-> PeriodMsg(p), receives |-> 0]}
        BY <3>2, <4>a DEF Send
      <4>2. [body |-> PeriodMsg(p), receives |-> 0].body.kind = "period_export"
        BY DEF PeriodMsg
      <4>3. QED
        BY <4>1, <4>2
    <3>3. QED
      BY <1>q, <3>1, <3>2
  <2>2. QED
    BY <1>q, <2>1 DEF EditorEffect
<1>1. ASSUME NEW p \in Periods, NEW s \in Slots, StartPeriod(p, s)
      PROVE  EditorEffect
  BY <1>1, <1>p, <1>t, EditWritesEdit DEF StartPeriod
<1>2. ASSUME NEW x \in Editors, NEW p \in Periods, NEW g \in Categories, NEW s \in Slots,
             CreatePeriod(x, p, g, s)
      PROVE  EditorEffect
  BY <1>2, <1>p, <1>t, EditWritesEdit DEF CreatePeriod
<1>3. ASSUME NEW x \in Editors, NEW p \in Periods, ReadForEdit(x, p) \/ ReadForSelfSignOut(x, p)
      PROVE  EditorEffect
  BY <1>3, <1>q DEF ReadForEdit, ReadForSelfSignOut
<1>4. ASSUME NEW x \in Editors, NEW g \in Categories, NEW s \in Slots, WriteFields(x, g, s)
      PROVE  EditorEffect
  <2>1. ed[x].p \in Periods
    BY <1>4, <1>e DEF WriteFields
  <2>2. QED
    BY <1>4, <1>p, <1>t, <2>1, EditWritesEdit DEF WriteFields
<1>5. ASSUME NEW x \in Editors, NEW g \in Categories, NEW s \in Slots, WriteTimeCategory(x, g, s)
      PROVE  EditorEffect
  <2>1. ed[x].p \in Periods
    BY <1>5, <1>e DEF WriteTimeCategory
  <2>2. QED
    BY <1>5, <1>p, <1>t, <2>1, EditWritesEdit DEF WriteTimeCategory
<1>6. ASSUME NEW x \in Editors, DeletePeriod(x)
      PROVE  EditorEffect
  <2>1. ed[x].p \in Periods
    BY <1>6, <1>e DEF DeletePeriod
  <2>2. QED
    BY <1>6, <1>p, <1>t, <2>1, EditWritesEdit DEF DeletePeriod
<1>7. ASSUME NEW x \in Editors, RefuseSelfSignOut(x) \/ EnqueuePeriodExport(x) \/ EditorFails(x)
      PROVE  EditorEffect
  BY <1>7, <1>q DEF RefuseSelfSignOut, EnqueuePeriodExport, EditorFails
<1>8. ASSUME NEW x \in Editors, BumpOldEvent(x)
      PROVE  EditorEffect
  BY <1>8, <1>e, <1>t DEF BumpOldEvent, EditorEffect
<1>9. ASSUME NEW p \in Periods, Backfill(p)
      PROVE  EditorEffect
  BY <1>9, <1>q DEF Backfill
<1>10. ASSUME Edit PROVE EditorEffect
  BY <1>1, <1>2, <1>3, <1>10 DEF Edit
<1>11. ASSUME NEW x \in Editors, EditorNext(x) PROVE EditorEffect
  BY <1>4, <1>5, <1>6, <1>7, <1>8, <1>11 DEF EditorNext
<1>12. QED
  BY <1>7, <1>9, <1>10, <1>11

\* A step of one invocation leaves the locals of the others alone.
SameWorker(v) ==
    /\ pc'[v] = pc[v] /\ hand'[v] = hand[v] /\ got'[v] = got[v] /\ oldv'[v] = oldv[v]
    /\ newv'[v] = newv[v] /\ sid'[v] = sid[v] /\ ids'[v] = ids[v] /\ rows'[v] = rows[v]
OthersSame(w) == \A v \in Workers \ {w} : SameWorker(v)

\* The end of an invocation: its locals are gone.
Gone(w) ==
    /\ pc'[w] = "idle" /\ hand'[w] = NoMessage /\ got'[w] = NoPeriod /\ oldv'[w] = 0
    /\ newv'[w] = 0 /\ sid'[w] = 0 /\ ids'[w] = {} /\ rows'[w] = {}

LEMMA ResetEffect ==
    ASSUME TypeInv, NEW w \in Workers, Reset(w)
    PROVE  OthersSame(w) /\ Gone(w)
  BY DEF TypeInv, WorkerInv, LocalsType, Reset, OthersSame, SameWorker, Gone

LEMMA OneWorkerSteps ==
    ASSUME TypeInv, NEW w \in Workers, WorkerNext(w) \/ Crash(w)
    PROVE  OthersSame(w)
<1> USE DEF GoTo
<1>t. /\ pc \in [Workers -> {"idle"} \cup Phase1 \cup Phase2]
      /\ hand \in [Workers -> [body : Body \cup {None}, receives : Nat]]
      /\ got \in [Workers -> Period]
      /\ oldv \in [Workers -> Nat] /\ newv \in [Workers -> Nat] /\ sid \in [Workers -> Nat]
      /\ ids \in [Workers -> SUBSET Periods] /\ rows \in [Workers -> SUBSET Row]
  BY DEF TypeInv, WorkerInv, LocalsType
<1>1. CASE \E m \in BagToSet(queue) : Receive(w, m)
  BY <1>1, <1>t DEF Receive, OthersSame, SameWorker
<1>2. CASE ReadPeriod(w)
  <2>1. CASE Reset(w)
    BY <2>1, ResetEffect
  <2>2. CASE ~Reset(w)
    BY <1>2, <1>t, <2>2 DEF ReadPeriod, OthersSame, SameWorker
  <2>3. QED
    BY <2>1, <2>2
<1>3. CASE GetOrCreateEvent(w)
  BY <1>3, <1>t DEF GetOrCreateEvent, OthersSame, SameWorker
<1>4. CASE BumpOld(w) \/ BumpDetached(w)
  BY <1>4, <1>t DEF BumpOld, BumpDetached, BumpLeft, OthersSame, SameWorker
<1>5. CASE SetPeriodEvent(w) \/ BumpDesired(w)
  BY <1>5, <1>t DEF SetPeriodEvent, BumpDesired, OthersSame, SameWorker
<1>6. CASE EnqueueOld(w) \/ EnqueueDesired(w) \/ EnqueueDetached(w)
  BY <1>6, <1>t DEF EnqueueOld, EnqueueDesired, EnqueueDetached, EnqueueEvent, OthersSame, SameWorker
<1>7. CASE Reset(w)
  BY <1>7, ResetEffect
<1>8. CASE ReadEvent(w)
  <2>1. CASE ~Reset(w)
    BY <1>8, <1>t, <2>1 DEF ReadEvent, OthersSame, SameWorker
  <2>2. QED
    BY <1>7, <2>1
<1>9. CASE ListPeriods(w) \/ GetPeriods(w)
  BY <1>9, <1>t DEF ListPeriods, GetPeriods, OthersSame, SameWorker
<1>10. CASE CreateNitc(w) \/ SetSesId(w) \/ PutNitc(w)
  BY <1>10, <1>t DEF CreateNitc, SetSesId, PutNitc, OthersSame, SameWorker
<1>11. CASE \E x \in rows[w] : UpdateExported(w, x) \/ ClearDropped(w, x)
  BY <1>11, <1>t DEF UpdateExported, ClearDropped, WriteBack, OthersSame, SameWorker
<1>12. QED
  BY <1>1, <1>2, <1>3, <1>4, <1>5, <1>6, <1>7, <1>8, <1>9, <1>10, <1>11
     DEF WorkerNext, AssignPeriod, SyncEvent, Crash, Return, SetExported, ClearDetached,
         RejectMismatch, MarkSynced

-----------------------------------------------------------------------------
(* No version from the future.  Versions only grow, so a copy of one is never    *)
(* above the row it was taken from, wherever the copy travels.                  *)

VersionsGrow ==
    /\ \A p \in Periods : per'[p].ver >= per[p].ver
    /\ \A e \in Events : evt'[e].ver >= evt[e].ver

\* The versions an invocation holds are of rows that are still at least at them.
VersionsHeldBy(w) ==
    /\ pc[w] \in Phase1 \ {"read period"} => got[w].ver <= per[Target(w)].ver
    /\ oldv[w] # 0 => oldv[w] <= evt[got[w].ev].ver
    /\ pc[w] \in {"enqueue old event", "enqueue event"} => newv[w] <= evt[Desired(w)].ver
    /\ pc[w] \in Phase2 => hand[w].body.version <= evt[Syncing(w)].ver
    /\ pc[w] \in Phase2 \ {"read event"} => newv[w] <= evt[Syncing(w)].ver
    /\ \A x \in rows[w] : x.rec.ver <= per[x.period].ver

ExportedVersions == \A p \in Periods : per[p].exp <= per[p].ver
SyncedVersions == \A e \in Events : evt[e].synced <= evt[e].ver
RosterVersions == \A i \in DOMAIN ses : \A x \in ses[i].roster : x.ver <= per[x.period].ver
QueueVersions ==
    \A m \in DOMAIN queue :
        m.body.kind = "event_export" => m.body.version <= evt[m.body.event].ver
VersionsHeld == \A w \in Workers : VersionsHeldBy(w)

VersionInv ==
    /\ ExportedVersions /\ SyncedVersions /\ RosterVersions /\ QueueVersions /\ VersionsHeld

\* The versions of the tables are natural numbers.
LEMMA VersionTypes ==
    ASSUME TypeInv
    PROVE  /\ \A p \in Periods : per[p] \in Period /\ per[p].ver \in Nat /\ per[p].exp \in Nat
           /\ \A e \in Events : evt[e] \in Event /\ evt[e].ver \in Nat /\ evt[e].synced \in Nat
           /\ \A i \in DOMAIN ses : \A x \in ses[i].roster : x.period \in Periods /\ x.ver \in Nat
           /\ \A m \in DOMAIN queue : m.body \in Body
<1>1. \A p \in Periods : per[p] \in Period /\ per[p].ver \in Nat /\ per[p].exp \in Nat
  BY DEF TypeInv, StoreInv, Period
<1>2. \A e \in Events : evt[e] \in Event /\ evt[e].ver \in Nat /\ evt[e].synced \in Nat
  BY DEF TypeInv, StoreInv, Event
<1>3. \A i \in DOMAIN ses : \A x \in ses[i].roster : x.period \in Periods /\ x.ver \in Nat
  <2>1. \A i \in DOMAIN ses : ses[i] \in Nitc
    BY DEF TypeInv, StoreInv
  <2>2. QED
    BY <2>1 DEF Nitc, Entry
<1>4. \A m \in DOMAIN queue : m.body \in Body
  BY DEF TypeInv, StoreInv, Message
<1>5. QED
  BY <1>1, <1>2, <1>3, <1>4

\* A copy that was not above its row is not above it later.
LEMMA CopiesStay ==
    ASSUME TypeInv, TypeInv', VersionsGrow
    PROVE  /\ \A p \in Periods, v \in Nat : v <= per[p].ver => v <= per'[p].ver
           /\ \A e \in Events, v \in Nat : v <= evt[e].ver => v <= evt'[e].ver
<1>1. /\ \A p \in Periods : per[p].ver \in Nat /\ per'[p].ver \in Nat /\ per'[p].ver >= per[p].ver
      /\ \A e \in Events : evt[e].ver \in Nat /\ evt'[e].ver \in Nat /\ evt'[e].ver >= evt[e].ver
  BY VersionTypes DEF TypeInv, StoreInv, Period, Event, VersionsGrow
<1>2. QED
  BY <1>1

\* What an invocation holds stays so while it waits.
LEMMA HeldStays ==
    ASSUME TypeInv, TypeInv', VersionsGrow, NEW w \in Workers, VersionsHeldBy(w), SameWorker(w)
    PROVE  VersionsHeldBy(w)'
<1>1. /\ Target(w)' = Target(w) /\ Desired(w)' = Desired(w) /\ Syncing(w)' = Syncing(w)
  BY DEF SameWorker, Target, Desired, Syncing, EventOf
<1>2. /\ \A p \in Periods, v \in Nat : v <= per[p].ver => v <= per'[p].ver
      /\ \A e \in Events, v \in Nat : v <= evt[e].ver => v <= evt'[e].ver
  BY CopiesStay
<1>3. /\ got[w].ver \in Nat /\ oldv[w] \in Nat /\ newv[w] \in Nat
      /\ \A x \in rows[w] : x.period \in Periods /\ x.rec.ver \in Nat
  BY HandFacts DEF Row, Period
<1>4. pc[w] \in Phase1 \ {"read period"} => got[w].ver <= per'[Target(w)].ver
  <2>1. pc[w] \in Phase1 => Target(w) \in Periods
    BY HandFacts
  <2>2. QED
    BY <1>2, <1>3, <2>1 DEF VersionsHeldBy
<1>5. oldv[w] # 0 => oldv[w] <= evt'[got[w].ev].ver
  <2>1. oldv[w] # 0 => got[w].ev \in Events
    BY HandFacts
  <2>2. QED
    BY <1>2, <1>3, <2>1 DEF VersionsHeldBy
<1>6. pc[w] \in {"enqueue old event", "enqueue event"} => newv[w] <= evt'[Desired(w)].ver
  <2>1. pc[w] \in {"enqueue old event", "enqueue event"} => Desired(w) \in Events
    BY HandFacts DEF HasDesired
  <2>2. QED
    BY <1>2, <1>3, <2>1 DEF VersionsHeldBy
<1>7. pc[w] \in Phase2 => Syncing(w) \in Events /\ hand[w].body.version \in Nat
  BY HandFacts
<1>8. pc[w] \in Phase2 => hand[w].body.version <= evt'[Syncing(w)].ver
  BY <1>2, <1>7 DEF VersionsHeldBy
<1>9. pc[w] \in Phase2 \ {"read event"} => newv[w] <= evt'[Syncing(w)].ver
  BY <1>2, <1>3, <1>7 DEF VersionsHeldBy
<1>10. \A x \in rows[w] : x.rec.ver <= per'[x.period].ver
  BY <1>2, <1>3 DEF VersionsHeldBy
<1>11. QED
  BY <1>1, <1>4, <1>5, <1>6, <1>8, <1>9, <1>10 DEF VersionsHeldBy, SameWorker

LEMMA HeldGone ==
    ASSUME NEW w \in Workers, Gone(w)
    PROVE  VersionsHeldBy(w)'
  BY DEF Gone, VersionsHeldBy, Phase1, Phase2

\* A roster and a queue that gain nothing new stay below the tables.
LEMMA ShelvedStays ==
    ASSUME TypeInv, TypeInv', VersionInv, VersionsGrow
    PROVE  /\ ses' = ses => RosterVersions'
           /\ (\A m \in DOMAIN queue' :
                 \/ m \in DOMAIN queue
                 \/ m.body.kind = "event_export" => m.body.version <= evt[m.body.event].ver)
              => QueueVersions'
<1>1. /\ \A p \in Periods, v \in Nat : v <= per[p].ver => v <= per'[p].ver
      /\ \A e \in Events, v \in Nat : v <= evt[e].ver => v <= evt'[e].ver
  BY CopiesStay
<1>2. ASSUME ses' = ses PROVE RosterVersions'
  BY <1>1, <1>2, VersionTypes DEF VersionInv, RosterVersions
<1>3. ASSUME \A m \in DOMAIN queue' :
                 \/ m \in DOMAIN queue
                 \/ m.body.kind = "event_export" => m.body.version <= evt[m.body.event].ver
      PROVE  QueueVersions'
  <2> SUFFICES ASSUME NEW m \in DOMAIN queue', m.body.kind = "event_export"
               PROVE  m.body.version <= evt'[m.body.event].ver
    BY DEF QueueVersions
  <2>1. m.body \in Body
    BY DEF TypeInv, StoreInv, Message
  <2>2. m.body.event \in Events /\ m.body.version \in Nat
    BY <2>1, BodyFacts
  <2>3. m.body.version <= evt[m.body.event].ver
    BY <1>3 DEF VersionInv, QueueVersions
  <2>4. QED
    BY <1>1, <2>2, <2>3
<1>4. QED
  BY <1>2, <1>3

\* A mutation handler's step.
LEMMA EditorVersionInv ==
    ASSUME TypeInv, TypeInv', VersionInv, EditorEffect
    PROVE  VersionInv'
<1>1. /\ \A p \in Periods : per[p].ver \in Nat /\ per'[p].ver \in Nat /\ per[p].exp \in Nat
      /\ \A e \in Events : evt[e].ver \in Nat /\ evt'[e].ver \in Nat /\ evt[e].synced \in Nat
  BY VersionTypes DEF TypeInv, StoreInv, Period, Event
<1>2. \A p \in Periods : per'[p].ver >= per[p].ver /\ per'[p].exp <= per'[p].ver
  <2> SUFFICES ASSUME NEW p \in Periods
               PROVE  per'[p].ver >= per[p].ver /\ per'[p].exp <= per'[p].ver
    OBVIOUS
  <2>1. per[p].exp <= per[p].ver
    BY DEF VersionInv, ExportedVersions
  <2>2. per'[p] = per[p] \/ (per'[p].ver = per[p].ver + 1 /\ per'[p].exp = per[p].exp)
    BY DEF EditorEffect, Edited
  <2>3. QED
    BY <1>1, <2>1, <2>2
<1>3. \A e \in Events : evt'[e].ver >= evt[e].ver /\ evt'[e].synced <= evt'[e].ver
  <2> SUFFICES ASSUME NEW e \in Events
               PROVE  evt'[e].ver >= evt[e].ver /\ evt'[e].synced <= evt'[e].ver
    OBVIOUS
  <2>1. evt[e].synced <= evt[e].ver
    BY DEF VersionInv, SyncedVersions
  <2>2. evt'[e] = evt[e] \/ (evt'[e].ver = evt[e].ver + 1 /\ evt'[e].synced = evt[e].synced)
    BY VersionTypes DEF EditorEffect, Bumped, Event
  <2>3. QED
    BY <1>1, <2>1, <2>2
<1>4. VersionsGrow
  BY <1>2, <1>3 DEF VersionsGrow
<1>5. RosterVersions' /\ QueueVersions'
  <2>1. ses' = ses
    BY DEF EditorEffect
  <2>2. \A m \in DOMAIN queue' : \/ m \in DOMAIN queue
                                 \/ m.body.kind = "event_export" => m.body.version <= evt[m.body.event].ver
    BY DEF EditorEffect
  <2>3. QED
    BY <1>4, <2>1, <2>2, ShelvedStays
<1>6. VersionsHeld'
  BY <1>4, HeldStays DEF EditorEffect, worker, SameWorker, VersionInv, VersionsHeld
<1>7. QED
  BY <1>2, <1>3, <1>5, <1>6 DEF VersionInv, ExportedVersions, SyncedVersions

\* Writes of period rows that leave them at their version and export no later one ...
SamePeriodVersions ==
    \A p \in Periods : per'[p].ver = per[p].ver /\ per'[p].exp <= per[p].ver
\* ... and writes of event rows that do not take them back.
SaneEventVersions ==
    \A e \in Events : evt'[e].ver >= evt[e].ver /\ evt'[e].synced <= evt'[e].ver
SaneMessages ==
    \A m \in DOMAIN queue' :
        \/ m \in DOMAIN queue
        \/ m.body.kind = "event_export" => m.body.version <= evt[m.body.event].ver

\* A step of one invocation is judged by its writes and by what it then holds.
LEMMA WorkerVersionInv ==
    ASSUME TypeInv, TypeInv', VersionInv, NEW w \in Workers, OthersSame(w),
           SamePeriodVersions, SaneEventVersions, SaneMessages,
           RosterVersions' \/ ses' = ses, VersionsHeldBy(w)'
    PROVE  VersionInv'
<1>1. /\ \A p \in Periods : per[p].ver \in Nat
      /\ \A e \in Events : evt[e].ver \in Nat /\ evt'[e].ver \in Nat
  BY VersionTypes DEF TypeInv, StoreInv, Period, Event
<1>2. VersionsGrow
  BY <1>1 DEF VersionsGrow, SamePeriodVersions, SaneEventVersions
<1>3. ExportedVersions' /\ SyncedVersions'
  BY DEF ExportedVersions, SyncedVersions, SamePeriodVersions, SaneEventVersions
<1>4. RosterVersions' /\ QueueVersions'
  BY <1>2, ShelvedStays DEF SaneMessages
<1>5. VersionsHeld'
  BY <1>2, HeldStays DEF OthersSame, VersionInv, VersionsHeld
<1>6. QED
  BY <1>3, <1>4, <1>5 DEF VersionInv

\* What does not change is sane.
LEMMA NothingWritten ==
    ASSUME TypeInv, VersionInv
    PROVE  /\ per' = per => SamePeriodVersions
           /\ evt' = evt => SaneEventVersions
           /\ queue' = queue => SaneMessages
<1>1. ASSUME per' = per PROVE SamePeriodVersions
  BY <1>1 DEF VersionInv, ExportedVersions, SamePeriodVersions
<1>2. ASSUME evt' = evt PROVE SaneEventVersions
  <2>1. \A e \in Events : evt[e].ver \in Nat
    BY VersionTypes
  <2>2. \A e \in Events : evt[e].ver >= evt[e].ver
    BY <2>1
  <2>3. QED
    BY <1>2, <2>2 DEF VersionInv, SyncedVersions, SaneEventVersions
<1>3. ASSUME queue' = queue PROVE SaneMessages
  BY <1>3 DEF SaneMessages
<1>4. QED
  BY <1>1, <1>2, <1>3

\* A bump, and the creation of an event row.
LEMMA BumpSane ==
    ASSUME TypeInv, VersionInv, NEW e \in Events,
           \/ evt' = [evt EXCEPT ![e] = Bumped(@)]
           \/ evt' = [evt EXCEPT ![e].ver = IF @ = 0 THEN 1 ELSE @]
    PROVE  SaneEventVersions
<1>1. /\ \A f \in Events : evt[f].ver \in Nat /\ evt[f].synced \in Nat /\ evt[f] \in Event
      /\ evt \in [Events -> Event]
  BY VersionTypes DEF TypeInv, StoreInv
<1>2. \A f \in Events \ {e} : evt'[f] = evt[f]
  BY <1>1
<1>3. evt[e].synced <= evt[e].ver
  BY DEF VersionInv, SyncedVersions
<1>4. /\ evt'[e].synced = evt[e].synced
      /\ \/ evt'[e].ver = evt[e].ver + 1
         \/ evt'[e].ver = IF evt[e].ver = 0 THEN 1 ELSE evt[e].ver
  BY <1>1 DEF Bumped, Event
<1>5. evt'[e].ver >= evt[e].ver /\ evt'[e].synced <= evt'[e].ver
  BY <1>1, <1>3, <1>4
<1>6. \A f \in Events \ {e} : evt'[f].ver >= evt[f].ver /\ evt'[f].synced <= evt'[f].ver
  <2>1. \A f \in Events : evt[f].ver >= evt[f].ver
    BY <1>1
  <2>2. QED
    BY <1>2, <2>1 DEF VersionInv, SyncedVersions
<1>7. QED
  BY <1>5, <1>6 DEF SaneEventVersions

\* The last call of Phase 1 and the write-back record a version the row has reached.
LEMMA RecordSane ==
    ASSUME TypeInv, VersionInv, NEW p \in Periods, NEW v \in Nat, v <= per[p].ver,
           NEW q, per' = [per EXCEPT ![p] = q],
           \/ q = ExportedAt(per[p], v) \/ q = Cleared(per[p], v)
           \/ \E e, n : q = Exported(per[p], e, n, v)
           \/ \E e : q = Reassigned(per[p], e)
    PROVE  SamePeriodVersions
<1>1. /\ \A r \in Periods : per[r].exp <= per[r].ver
      /\ per \in [Periods -> Period] /\ per[p] \in Period
  BY DEF VersionInv, ExportedVersions, TypeInv, StoreInv
<1>2. q.ver = per[p].ver /\ (q.exp = v \/ q.exp = per[p].exp)
  BY <1>1 DEF ExportedAt, Cleared, Exported, Reassigned, Period
<1>3. per'[p] = q /\ \A r \in Periods \ {p} : per'[r] = per[r]
  BY <1>1
<1>4. per'[p].ver = per[p].ver /\ per'[p].exp <= per[p].ver
  BY <1>1, <1>2, <1>3
<1>5. QED
  BY <1>1, <1>3, <1>4 DEF SamePeriodVersions

\* The message a run sends carries a version its event has reached.
LEMMA SendSane ==
    ASSUME NEW b, NEW n, queue' = Put(queue, b, n),
           b.kind = "event_export" => b.version <= evt[b.event].ver
    PROVE  SaneMessages
<1>a. DOMAIN Put(queue, b, n) = DOMAIN queue \cup {[body |-> b, receives |-> n]}
  BY PutDomain
<1>1. DOMAIN queue' = DOMAIN queue \cup {[body |-> b, receives |-> n]}
  BY <1>a
<1>2. [body |-> b, receives |-> n].body = b
  OBVIOUS
<1>3. QED
  BY <1>1, <1>2 DEF SaneMessages

\* The end of an invocation, by success or by failure.
LEMMA ReturnVersionInv ==
    ASSUME TypeInv, TypeInv', VersionInv, NEW w \in Workers, pc[w] # "idle", Return(w),
           UNCHANGED <<per, evt, ses>>
    PROVE  VersionInv'
<1>1. OthersSame(w) /\ VersionsHeldBy(w)'
  BY ResetEffect, HeldGone DEF Return
<1>2. SaneMessages
  <2>1. CASE hand[w].receives < MaxReceive
    <3>1. hand[w].body.kind = "event_export" => hand[w].body.version <= evt[hand[w].body.event].ver
      <4>1. pc[w] \in Phase1 => hand[w].body.kind = "period_export"
        BY DEF TypeInv, WorkerInv, WorkerControl, PeriodExport
      <4>2. pc[w] \in Phase2 => hand[w].body.version <= evt[hand[w].body.event].ver
        BY DEF VersionInv, VersionsHeld, VersionsHeldBy, Syncing
      <4>3. pc[w] \in Phase1 \cup Phase2
        BY DEF TypeInv, WorkerInv, LocalsType
      <4>4. QED
        BY <4>1, <4>2, <4>3
    <3>2. queue' = Put(queue, hand[w].body, hand[w].receives)
      BY <2>1 DEF Return
    <3>3. QED
      BY <3>1, <3>2, SendSane
  <2>2. CASE ~(hand[w].receives < MaxReceive)
    BY <2>2, NothingWritten DEF Return
  <2>3. QED
    BY <2>1, <2>2
<1>3. QED
  BY <1>1, <1>2, NothingWritten, WorkerVersionInv

LEMMA ReceiveVersionInv ==
    ASSUME TypeInv, TypeInv', VersionInv, NEW w \in Workers, NEW m \in BagToSet(queue), Receive(w, m)
    PROVE  VersionInv'
<1>1. OthersSame(w)
  BY OneWorkerSteps DEF WorkerNext
<1>2. SaneMessages
  BY ReceiveDomain DEF Receive, SaneMessages
<1>3. VersionsHeldBy(w)'
  <2>1. m \in DOMAIN queue /\ m.body \in Body
    BY VersionTypes DEF BagToSet
  <2>2. /\ pc[w] = "idle" /\ hand'[w].body = m.body
        /\ pc'[w] = IF m.body.kind = "period_export" THEN "read period" ELSE "read event"
        /\ UNCHANGED <<per, evt, got, oldv, newv, rows>>
    BY DEF Receive, At, GoTo, TypeInv, WorkerInv, LocalsType
  <2>3. pc'[w] = "read event" => m.body.kind = "event_export"
    BY <2>1, <2>2 DEF Body, PeriodExport, EventExport
  <2>4. pc'[w] = "read event" => m.body.version <= evt[m.body.event].ver
    BY <2>1, <2>3 DEF VersionInv, QueueVersions
  <2>5. oldv[w] = 0
    BY <2>2 DEF TypeInv, WorkerInv, WorkerControl
  <2>6. \A x \in rows[w] : x.rec.ver <= per[x.period].ver
    BY DEF VersionInv, VersionsHeld, VersionsHeldBy
  <2>7. QED
    BY <2>2, <2>4, <2>5, <2>6 DEF VersionsHeldBy, Phase1, Phase2, Syncing
<1>4. QED
  BY <1>1, <1>2, <1>3, NothingWritten, WorkerVersionInv DEF Receive

\* A bump adds one to the version and leaves the rest.
LEMMA BumpedFields ==
    ASSUME NEW r \in Event
    PROVE  /\ Bumped(r).ver = r.ver + 1 /\ Bumped(r).synced = r.synced /\ Bumped(r).sid = r.sid
           /\ r.ver + 1 \in Nat /\ r.ver + 1 <= Bumped(r).ver /\ r.ver + 1 # 0
  BY DEF Event, Bumped

\* The steps of Phase 1.
LEMMA Phase1VersionInv ==
    ASSUME TypeInv, TypeInv', VersionInv, NEW w \in Workers, AssignPeriod(w)
    PROVE  VersionInv'
<1> USE HandFacts DEF At, GoTo
<1>o. OthersSame(w)
  BY OneWorkerSteps DEF WorkerNext
<1>h. VersionsHeldBy(w)
  BY DEF VersionInv, VersionsHeld
<1>t. /\ pc \in [Workers -> {"idle"} \cup Phase1 \cup Phase2] /\ got \in [Workers -> Period]
      /\ oldv \in [Workers -> Nat] /\ newv \in [Workers -> Nat]
      /\ \A e \in Events : evt[e].ver \in Nat
      /\ per \in [Periods -> Period] /\ evt \in [Events -> Event]
  BY VersionTypes DEF TypeInv, StoreInv, WorkerInv, LocalsType
<1>1. CASE ReadPeriod(w)
  <2>1. CASE Reset(w)
    BY <1>1, <1>o, <2>1, HeldGone, NothingWritten, ResetEffect, WorkerVersionInv DEF ReadPeriod
  <2>2. CASE ~Reset(w)
    <3>1. /\ got'[w] = per[Target(w)] /\ pc'[w] = Verdict(per[Target(w)]) /\ pc[w] = "read period"
          /\ UNCHANGED <<per, evt, hand, oldv, newv, rows>>
      BY <1>1, <1>t, <2>2 DEF ReadPeriod
    <3>2. Target(w) \in Periods /\ oldv[w] = 0 /\ Target(w)' = Target(w)
      BY <3>1 DEF Phase1, TypeInv, WorkerInv, WorkerControl, Target
    <3>3. pc'[w] \in {"skip", "synced", "bump detached", "set exported", "get event"}
      BY <3>1, <3>2, VerdictFacts, VersionTypes
    <3>4. per[Target(w)].ver <= per[Target(w)].ver
      BY <3>2, VersionTypes
    <3>5. VersionsHeldBy(w)'
      BY <1>h, <3>1, <3>2, <3>3, <3>4 DEF VersionsHeldBy, Phase2
    <3>6. QED
      BY <1>1, <1>o, <3>5, NothingWritten, WorkerVersionInv DEF ReadPeriod
  <2>3. QED
    BY <2>1, <2>2
<1>2. CASE GetOrCreateEvent(w)
  <2>1. Desired(w) \in Events
    BY <1>2 DEF GetOrCreateEvent, HasDesired
  <2>2. SaneEventVersions
    BY <1>2, <2>1, BumpSane DEF GetOrCreateEvent
  <2>3. /\ pc'[w] \in {"set event", "bump event", "bump old event"} /\ pc[w] = "get event"
        /\ oldv[w] = 0
        /\ UNCHANGED <<per, hand, got, oldv, newv, rows>>
    BY <1>2, <1>t DEF GetOrCreateEvent, TypeInv, WorkerInv, WorkerControl
  <2>4. VersionsHeldBy(w)'
    BY <1>h, <2>3 DEF VersionsHeldBy, Phase1, Phase2, Target
  <2>5. QED
    BY <1>2, <1>o, <2>2, <2>4, NothingWritten, WorkerVersionInv DEF GetOrCreateEvent
<1>3. CASE BumpOld(w) \/ BumpDetached(w)
  <2>1. got[w].ev \in Events
    BY <1>3 DEF BumpOld, BumpDetached, BumpLeft, HasLeft
  <2>2. SaneEventVersions
    BY <1>3, <2>1, BumpSane DEF BumpOld, BumpDetached, BumpLeft
  <2>3. /\ pc'[w] \in {"set event", "enqueue detached"}
        /\ pc[w] \in Phase1 \ {"read period"}
        /\ oldv'[w] = evt[got[w].ev].ver + 1 /\ evt'[got[w].ev] = Bumped(evt[got[w].ev])
        /\ UNCHANGED <<per, hand, got, newv, rows>>
    BY <1>3, <1>t, <2>1 DEF BumpOld, BumpDetached, BumpLeft, Phase1
  <2>4. oldv'[w] <= evt'[got[w].ev].ver
    <3>1. evt[got[w].ev] \in Event
      BY <1>t, <2>1
    <3>2. QED
      BY <2>3, <3>1, BumpedFields
  <2>5. VersionsHeldBy(w)'
    <3>1. oldv'[w] <= evt'[got'[w].ev].ver
      BY <2>3, <2>4
    <3>2. QED
      BY <1>h, <2>3, <3>1 DEF VersionsHeldBy, Phase2, Target
  <2>6. QED
    BY <1>3, <1>o, <2>2, <2>5, NothingWritten, WorkerVersionInv DEF BumpOld, BumpDetached, BumpLeft
<1>4. CASE SetPeriodEvent(w)
  <2>1. Target(w) \in Periods
    BY <1>4 DEF SetPeriodEvent, Phase1
  <2>2. SamePeriodVersions
    <3>1. per' = [per EXCEPT ![Target(w)] = Reassigned(per[Target(w)], Desired(w))]
      BY <1>4 DEF SetPeriodEvent
    <3>2. 0 \in Nat /\ 0 <= per[Target(w)].ver
      BY <2>1, VersionTypes
    <3>3. QED
      BY <2>1, <3>1, <3>2, RecordSane
  <2>3. /\ pc'[w] = "bump event" /\ pc[w] = "set event"
        /\ UNCHANGED <<evt, hand, got, oldv, newv, rows>>
    BY <1>4, <1>t DEF SetPeriodEvent
  <2>4. VersionsHeldBy(w)'
    <3>1. \A p \in Periods : per'[p].ver = per[p].ver
      BY <2>2 DEF SamePeriodVersions
    <3>2. \A x \in rows[w] : x.period \in Periods
      BY DEF Row
    <3>3. QED
      BY <1>h, <2>1, <2>3, <3>1, <3>2 DEF VersionsHeldBy, Phase1, Phase2, Target
  <2>5. QED
    BY <1>4, <1>o, <2>2, <2>4, NothingWritten, WorkerVersionInv DEF SetPeriodEvent
<1>5. CASE BumpDesired(w)
  <2>1. Desired(w) \in Events
    BY <1>5 DEF BumpDesired, HasDesired
  <2>2. SaneEventVersions
    BY <1>5, <2>1, BumpSane DEF BumpDesired
  <2>3. /\ pc'[w] \in {"enqueue event", "enqueue old event"} /\ pc[w] = "bump event"
        /\ newv'[w] = evt[Desired(w)].ver + 1 /\ evt'[Desired(w)] = Bumped(evt[Desired(w)])
        /\ UNCHANGED <<per, hand, got, oldv, rows>>
    BY <1>5, <1>t, <2>1 DEF BumpDesired
  <2>4. newv'[w] <= evt'[Desired(w)'].ver
    <3>0. evt[Desired(w)] \in Event
      BY <1>t, <2>1
    <3>1. newv'[w] <= evt'[Desired(w)].ver
      BY <2>3, <3>0, BumpedFields
    <3>2. Desired(w)' = Desired(w)
      BY <2>3 DEF Desired, EventOf
    <3>3. QED
      BY <3>1, <3>2
  <2>5. oldv[w] # 0 => oldv[w] <= evt'[got[w].ev].ver
    <3>1. ASSUME oldv[w] # 0 PROVE oldv[w] <= evt'[got[w].ev].ver
      <4>1. got[w].ev \in Events /\ oldv[w] <= evt[got[w].ev].ver
        BY <1>h, <3>1 DEF VersionsHeldBy
      <4>2. evt'[got[w].ev].ver >= evt[got[w].ev].ver
        BY <2>2, <4>1 DEF SaneEventVersions
      <4>3. evt'[got[w].ev].ver \in Nat /\ evt[got[w].ev].ver \in Nat /\ oldv[w] \in Nat
        BY <4>1, VersionTypes DEF TypeInv, StoreInv, Event
      <4>4. QED
        BY <4>1, <4>2, <4>3
    <3>2. QED
      BY <3>1
  <2>6. VersionsHeldBy(w)'
    BY <1>h, <2>3, <2>4, <2>5 DEF VersionsHeldBy, Phase1, Phase2, Target
  <2>7. QED
    BY <1>5, <1>o, <2>2, <2>6, NothingWritten, WorkerVersionInv DEF BumpDesired
<1>6. CASE EnqueueOld(w) \/ EnqueueDesired(w) \/ EnqueueDetached(w)
  <2>1. PICK e \in Events, v \in Nat : queue' = Send(queue, EventMsg(e, v)) /\ v <= evt[e].ver
    <3>1. CASE EnqueueOld(w) \/ EnqueueDetached(w)
      <4>1. got[w].ev \in Events /\ oldv[w] \in Nat
        BY <3>1 DEF EnqueueOld, EnqueueDetached, EnqueueEvent, HasLeft
      <4>2. oldv[w] = 0 \/ oldv[w] <= evt[got[w].ev].ver
        BY <1>h DEF VersionsHeldBy
      <4>3. oldv[w] <= evt[got[w].ev].ver
        BY <1>t, <4>1, <4>2
      <4>4. queue' = Send(queue, EventMsg(got[w].ev, oldv[w]))
        BY <3>1 DEF EnqueueOld, EnqueueDetached, EnqueueEvent
      <4>5. QED
        BY <4>1, <4>3, <4>4
    <3>2. CASE EnqueueDesired(w)
      <4>1. /\ Desired(w) \in Events /\ newv[w] \in Nat /\ newv[w] <= evt[Desired(w)].ver
            /\ queue' = Send(queue, EventMsg(Desired(w), newv[w]))
        BY <1>h, <3>2 DEF EnqueueDesired, EnqueueEvent, HasDesired, VersionsHeldBy
      <4>2. QED
        BY <4>1
    <3>3. QED
      BY <1>6, <3>1, <3>2
  <2>2. SaneMessages
    <3>1. EventMsg(e, v).event = e /\ EventMsg(e, v).version = v
      BY DEF EventMsg
    <3>2. queue' = Put(queue, EventMsg(e, v), 0)
      BY <2>1 DEF Send
    <3>3. QED
      BY <2>1, <3>1, <3>2, SendSane
  <2>3. PICK here \in {"enqueue old event", "enqueue event", "enqueue detached"},
             there \in {"enqueue event", "set exported", "clear"} :
          /\ At(w, here) /\ GoTo(w, there) /\ (there = "enqueue event" => here = "enqueue old event")
          /\ UNCHANGED <<per, evt, ses, hand, got, oldv, newv, rows>>
    BY <1>6 DEF EnqueueOld, EnqueueDesired, EnqueueDetached, EnqueueEvent
  <2>4. VersionsHeldBy(w)'
    BY <1>h, <1>t, <2>3 DEF VersionsHeldBy, Phase1, Phase2, Target, Desired, EventOf
  <2>5. QED
    BY <1>o, <2>2, <2>3, <2>4, NothingWritten, WorkerVersionInv
<1>7. CASE SetExported(w) \/ ClearDetached(w)
  <2>1. Target(w) \in Periods /\ got[w].ver \in Nat /\ got[w].ver <= per[Target(w)].ver
    BY <1>7, <1>h DEF SetExported, ClearDetached, Phase1, VersionsHeldBy
  <2>2. SamePeriodVersions
    BY <1>7, <2>1, RecordSane DEF SetExported, ClearDetached
  <2>3. VersionsHeldBy(w)'
    BY <1>7, HeldGone, ResetEffect DEF SetExported, ClearDetached
  <2>4. QED
    BY <1>7, <1>o, <2>2, <2>3, NothingWritten, WorkerVersionInv DEF SetExported, ClearDetached
<1>8. QED
  BY <1>1, <1>2, <1>3, <1>4, <1>5, <1>6, <1>7 DEF AssignPeriod

\* What Phase 2 sends of a row is at the version the row was read at.
LEMMA RosterEntries ==
    ASSUME NEW rs
    PROVE  \A y \in Roster(rs) : \E x \in LiveRows(rs) :
              y = EntryOf(x.period, x.rec) /\ y.period = x.period /\ y.ver = x.rec.ver
  BY DEF Roster, EntryOf

\* A POST adds a NITC without participants at the end and leaves the others alone.
LEMMA NewNitcFacts ==
    ASSUME TypeInv, NEW w \in Workers, Syncing(w) \in Events, NewNitc(w)
    PROVE  \E n \in Nat : /\ n # 0 /\ n \notin DOMAIN ses /\ n = Len(ses) + 1
                          /\ DOMAIN ses' = DOMAIN ses \cup {n}
                          /\ \A j \in DOMAIN ses : ses'[j] = ses[j]
                          /\ ses'[n].ev = Syncing(w) /\ ses'[n].roster = {}
<1> DEFINE c == [ev |-> Syncing(w), roster |-> {}]
           n == Len(ses) + 1
<1>1. c \in Nitc /\ ses \in Seq(Nitc) /\ c.ev = Syncing(w) /\ c.roster = {}
  BY DEF Nitc, TypeInv, StoreInv
<1>2. ses' = Append(ses, c)
  BY DEF NewNitc
<1> HIDE DEF c
<1>3. /\ DOMAIN ses' = DOMAIN ses \cup {Len(ses) + 1}
      /\ \A j \in DOMAIN ses : ses'[j] = ses[j]
      /\ ses'[Len(ses) + 1] = c /\ Len(ses) + 1 \in Nat /\ Len(ses) + 1 # 0
  BY <1>1, <1>2, AppendFacts
<1>4. n \notin DOMAIN ses
  <2>1. DOMAIN ses = 1..Len(ses) /\ Len(ses) \in Nat
    BY <1>1, LenProperties
  <2>2. QED
    BY <2>1
<1>5. QED
  BY <1>1, <1>3, <1>4

LEMMA NewNitcVersions ==
    ASSUME TypeInv, VersionInv, NEW w \in Workers, Syncing(w) \in Events, NewNitc(w), per' = per
    PROVE  RosterVersions'
<1>1. PICK n : /\ DOMAIN ses' = DOMAIN ses \cup {n}
               /\ \A j \in DOMAIN ses : ses'[j] = ses[j]
               /\ ses'[n].roster = {}
  BY NewNitcFacts
<1>2. QED
  BY <1>1 DEF VersionInv, RosterVersions

\* The steps of Phase 2.
LEMMA Phase2VersionInv ==
    ASSUME TypeInv, TypeInv', VersionInv, NEW w \in Workers, SyncEvent(w)
    PROVE  VersionInv'
<1> USE HandFacts DEF At, GoTo
<1>o. OthersSame(w)
  BY OneWorkerSteps DEF WorkerNext
<1>h. VersionsHeldBy(w)
  BY DEF VersionInv, VersionsHeld
<1>t. /\ pc \in [Workers -> {"idle"} \cup Phase1 \cup Phase2]
      /\ newv \in [Workers -> Nat] /\ rows \in [Workers -> SUBSET Row]
      /\ per \in [Periods -> Period] /\ evt \in [Events -> Event]
  BY DEF TypeInv, StoreInv, WorkerInv, LocalsType
<1>1. CASE ReadEvent(w)
  <2>1. CASE Reset(w)
    BY <1>1, <1>o, <2>1, HeldGone, NothingWritten, ResetEffect, WorkerVersionInv DEF ReadEvent
  <2>2. CASE ~Reset(w)
    <3>1. /\ newv'[w] = evt[Syncing(w)].ver /\ pc'[w] = "list" /\ pc[w] = "read event"
          /\ UNCHANGED <<per, evt, hand, got, oldv, rows>>
      BY <1>1, <1>t, <2>2 DEF ReadEvent
    <3>2. Syncing(w) \in Events
      BY <3>1 DEF Phase2
    <3>3. evt[Syncing(w)].ver <= evt[Syncing(w)].ver
      BY <3>2, VersionTypes
    <3>4. Syncing(w)' = Syncing(w)
      BY <3>1 DEF Syncing
    <3>5. VersionsHeldBy(w)'
      BY <1>h, <3>1, <3>3, <3>4 DEF VersionsHeldBy, Phase1, Phase2
    <3>6. QED
      BY <1>1, <1>o, <3>5, NothingWritten, WorkerVersionInv DEF ReadEvent
  <2>3. QED
    BY <2>1, <2>2
<1>2. CASE ListPeriods(w) \/ GetPeriods(w)
  <2>1. /\ pc[w] \in {"list", "get periods"} /\ pc'[w] \in {"get periods", "create", "put"}
        /\ UNCHANGED <<per, evt, ses, queue, hand, got, oldv, newv>>
    BY <1>2, <1>t DEF ListPeriods, GetPeriods
  <2>2. \A x \in rows'[w] : x.rec.ver <= per[x.period].ver
    <3>1. CASE rows'[w] = rows[w]
      BY <1>h, <3>1 DEF VersionsHeldBy
    <3>2. CASE rows'[w] = RowsNow(w)
      <4>1. \A p \in ids[w] : per[p].ver <= per[p].ver
        BY VersionTypes
      <4>2. QED
        BY <3>2, <4>1 DEF RowsNow
    <3>3. QED
      BY <1>2, <1>t, <3>1, <3>2 DEF ListPeriods, GetPeriods
  <2>3. VersionsHeldBy(w)'
    BY <1>h, <2>1, <2>2 DEF VersionsHeldBy, Phase1, Phase2, Syncing
  <2>4. QED
    BY <1>o, <2>1, <2>3, NothingWritten, WorkerVersionInv
<1>3. CASE RejectMismatch(w)
  BY <1>3, ReturnVersionInv DEF RejectMismatch
<1>4. CASE CreateNitc(w)
  <2>1. /\ pc[w] = "create" /\ pc'[w] = "set ses id"
        /\ UNCHANGED <<per, evt, queue, hand, got, oldv, newv, rows>>
    BY <1>4, <1>t DEF CreateNitc
  <2>2. RosterVersions'
    <3>1. Syncing(w) \in Events /\ NewNitc(w)
      BY <1>4, <2>1 DEF CreateNitc, Phase2
    <3>2. QED
      BY <2>1, <3>1, NewNitcVersions
  <2>3. VersionsHeldBy(w)'
    BY <1>h, <2>1 DEF VersionsHeldBy, Phase1, Phase2, Syncing
  <2>4. QED
    BY <1>o, <2>1, <2>2, <2>3, NothingWritten, WorkerVersionInv
<1>5. CASE SetSesId(w)
  <2>1. /\ pc[w] = "set ses id" /\ pc'[w] = "put"
        /\ evt' = [evt EXCEPT ![Syncing(w)].sid = sid[w]]
        /\ UNCHANGED <<per, ses, queue, hand, got, oldv, newv, rows>>
    BY <1>5, <1>t DEF SetSesId
  <2>2. \A e \in Events : evt'[e].ver = evt[e].ver /\ evt'[e].synced = evt[e].synced
    BY <1>t, <2>1 DEF Event
  <2>3. SaneEventVersions
    <3>1. \A e \in Events : evt[e].ver \in Nat
      BY VersionTypes
    <3>2. QED
      BY <2>2, <3>1 DEF VersionInv, SyncedVersions, SaneEventVersions
  <2>4. VersionsHeldBy(w)'
    BY <1>h, <2>1, <2>2 DEF VersionsHeldBy, Phase1, Phase2, Syncing
  <2>5. QED
    BY <1>o, <2>1, <2>3, <2>4, NothingWritten, WorkerVersionInv
<1>6. CASE PutNitc(w)
  <2>1. /\ pc[w] = "put" /\ pc'[w] = "write back"
        /\ ses' = WithRoster(ses, sid[w], Roster(rows[w]))
        /\ UNCHANGED <<per, evt, queue, hand, got, oldv, newv, rows>>
    BY <1>6, <1>t DEF PutNitc, WithRoster
  <2>2. RosterVersions'
    <3>1. Roster(rows[w]) \in SUBSET Entry /\ ses \in Seq(Nitc)
      BY RosterType DEF TypeInv, StoreInv
    <3> DEFINE i == sid[w]
               R == Roster(rows[w])
    <3>2. \A y \in R : y.ver <= per[y.period].ver
      BY <1>h, RosterEntries DEF VersionsHeldBy, LiveRows
    <3> HIDE DEF i, R
    <3>3. /\ DOMAIN WithRoster(ses, i, R) = DOMAIN ses
          /\ \A j \in DOMAIN ses :
                WithRoster(ses, i, R)[j].roster = IF j = i THEN R ELSE ses[j].roster
      BY <3>1, PutType DEF R
    <3>4. ses' = WithRoster(ses, i, R)
      BY <2>1 DEF i, R
    <3>5. \A j \in DOMAIN ses : \A y \in ses'[j].roster : y.ver <= per[y.period].ver
      BY <3>2, <3>3, <3>4 DEF VersionInv, RosterVersions
    <3>6. QED
      BY <2>1, <3>3, <3>4, <3>5 DEF RosterVersions
  <2>3. VersionsHeldBy(w)'
    BY <1>h, <2>1 DEF VersionsHeldBy, Phase1, Phase2, Syncing
  <2>4. QED
    BY <1>o, <2>1, <2>2, <2>3, NothingWritten, WorkerVersionInv
<1>7. ASSUME NEW x \in rows[w], UpdateExported(w, x) \/ ClearDropped(w, x)
      PROVE  VersionInv'
  <2>1. x.period \in Periods /\ x.rec.ver \in Nat /\ x.rec.ver <= per[x.period].ver
    BY <1>h, <1>t DEF Row, Period, VersionsHeldBy
  <2>2. SamePeriodVersions
    <3>1. CASE UpdateExported(w, x)
      <4>1. per' = [per EXCEPT ![x.period] = Exported(per[x.period], Syncing(w), sid[w], x.rec.ver)]
        BY <3>1 DEF UpdateExported, WriteBack
      <4>2. QED
        BY <2>1, <4>1, RecordSane
    <3>2. CASE ClearDropped(w, x)
      <4>1. per' = [per EXCEPT ![x.period] = Cleared(per[x.period], x.rec.ver)]
        BY <3>2 DEF ClearDropped, WriteBack
      <4>2. QED
        BY <2>1, <4>1, RecordSane
    <3>3. QED
      BY <1>7, <3>1, <3>2
  <2>3. /\ rows'[w] \subseteq rows[w] /\ \A p \in Periods : per'[p].ver = per[p].ver
        /\ UNCHANGED <<evt, ses, queue, pc, hand, got, oldv, newv>> /\ pc[w] = "write back"
    BY <1>7, <1>t, <2>2 DEF UpdateExported, ClearDropped, WriteBack, SamePeriodVersions
  <2>4. VersionsHeldBy(w)'
    <3>1. \A y \in rows'[w] : y.period \in Periods
      BY <1>t, <2>3 DEF Row
    <3>2. \A y \in rows'[w] : y.rec.ver <= per'[y.period].ver
      BY <1>h, <2>3, <3>1 DEF VersionsHeldBy
    <3>3. QED
      BY <1>h, <2>3, <3>2 DEF VersionsHeldBy, Phase1, Phase2, Syncing
  <2>5. QED
    BY <1>o, <2>2, <2>3, <2>4, NothingWritten, WorkerVersionInv
<1>8. CASE MarkSynced(w)
  <2>1. /\ pc[w] = "write back" /\ evt' = [evt EXCEPT ![Syncing(w)].synced = newv[w]]
        /\ Reset(w) /\ UNCHANGED <<per, ses, queue>>
    BY <1>8 DEF MarkSynced
  <2>2. Syncing(w) \in Events /\ newv[w] <= evt[Syncing(w)].ver
    BY <1>h, <2>1 DEF Phase2, VersionsHeldBy
  <2>3. /\ \A e \in Events : evt'[e].ver = evt[e].ver
        /\ evt'[Syncing(w)].synced = newv[w]
        /\ \A e \in Events \ {Syncing(w)} : evt'[e] = evt[e]
    BY <1>t, <2>1, <2>2 DEF Event
  <2>4. SaneEventVersions
    <3>1. \A e \in Events : evt[e].ver >= evt[e].ver
      BY VersionTypes
    <3>2. QED
      BY <2>2, <2>3, <3>1 DEF VersionInv, SyncedVersions, SaneEventVersions
  <2>5. QED
    BY <1>o, <2>1, <2>4, HeldGone, NothingWritten, ResetEffect, WorkerVersionInv
<1>9. QED
  BY <1>1, <1>2, <1>3, <1>4, <1>5, <1>6, <1>7, <1>8 DEF SyncEvent

\* Crashes, repeated POSTs and duplicate deliveries.
LEMMA FaultVersionInv ==
    ASSUME TypeInv, TypeInv', VersionInv, Fault
    PROVE  VersionInv'
<1>1. CASE \E x \in Editors : EditorFails(x)
  BY <1>1, EditorEffects, EditorVersionInv
<1>2. ASSUME NEW w \in Workers, Crash(w)
      PROVE  VersionInv'
  BY <1>2, ReturnVersionInv DEF Crash, At
<1>3. ASSUME UNCHANGED <<per, evt, worker>>, RosterVersions', SaneMessages
      PROVE  VersionInv'
  <2>1. VersionsGrow
    <3>1. /\ \A p \in Periods : per[p].ver >= per[p].ver
          /\ \A e \in Events : evt[e].ver >= evt[e].ver
      BY VersionTypes
    <3>2. QED
      BY <1>3, <3>1 DEF VersionsGrow
  <2>2. QueueVersions'
    BY <1>3, <2>1, ShelvedStays DEF SaneMessages
  <2>3. VersionsHeld'
    BY <1>3, <2>1, HeldStays DEF worker, SameWorker, VersionInv, VersionsHeld
  <2>4. QED
    BY <1>3, <2>2, <2>3 DEF VersionInv, ExportedVersions, SyncedVersions
<1>4. ASSUME NEW w \in Workers, CreateRetried(w)
      PROVE  VersionInv'
  <2>1. Syncing(w) \in Events /\ NewNitc(w) /\ per' = per
    BY <1>4, HandFacts DEF CreateRetried, At, Phase2
  <2>3. RosterVersions'
    BY <2>1, NewNitcVersions
  <2>4. QED
    BY <1>3, <1>4, <2>3, NothingWritten DEF CreateRetried
<1>5. ASSUME NEW m \in BagToSet(queue), Duplicate(m)
      PROVE  VersionInv'
  <2>1. SaneMessages
    <3>1. DOMAIN queue' = DOMAIN queue
      BY <1>5, ReceiveDomain DEF Duplicate, BagToSet
    <3>2. QED
      BY <3>1 DEF SaneMessages
  <2>2. QED
    BY <1>3, <1>5, <2>1 DEF Duplicate, VersionInv, RosterVersions
<1>6. QED
  BY <1>1, <1>2, <1>4, <1>5 DEF Fault

LEMMA InitVersionInv == Init => VersionInv
<1> SUFFICES ASSUME Init PROVE VersionInv
  OBVIOUS
<1>1. ExportedVersions /\ SyncedVersions
  BY DEF Init, NoPeriod, ExportedVersions, SyncedVersions
<1>2. RosterVersions /\ QueueVersions
  BY DEF Init, RosterVersions, QueueVersions, EmptyBag, SetToBag
<1>3. VersionsHeld
  BY DEF Init, VersionsHeld, VersionsHeldBy, Phase1, Phase2
<1>4. QED
  BY <1>1, <1>2, <1>3 DEF VersionInv

LEMMA NextVersionInv == TypeInv /\ VersionInv /\ [Next]_vars => VersionInv'
<1> SUFFICES ASSUME TypeInv, VersionInv, [Next]_vars PROVE VersionInv'
  OBVIOUS
<1>t. TypeInv'
  BY NextTypeInv
<1>1. CASE Edit \/ (\E x \in Editors : EditorNext(x)) \/ (\E p \in Periods : Backfill(p))
  BY <1>1, <1>t, EditorEffects, EditorVersionInv
<1>2. CASE Fault
  BY <1>2, <1>t, FaultVersionInv
<1>3. ASSUME NEW w \in Workers, WorkerNext(w)
      PROVE  VersionInv'
  BY <1>3, <1>t, ReceiveVersionInv, Phase1VersionInv, Phase2VersionInv DEF WorkerNext
<1>4. CASE UNCHANGED vars
  BY <1>4 DEF vars, worker, VersionInv, ExportedVersions, SyncedVersions, RosterVersions,
              QueueVersions, VersionsHeld, VersionsHeldBy, Target, Desired, Syncing, EventOf
<1>5. QED
  BY <1>1, <1>2, <1>3, <1>4 DEF Next

\* The version counters are sound, whatever overlaps: a reader that finds an exported or synced
\* version equal to a row's own has found that version's work done, never a later one's, and no
\* message waits for an event version that nobody wrote.
THEOREM VersionsSafe == Spec => []NoVersionFromTheFuture
<1>1. VersionInv => NoVersionFromTheFuture
  BY DEF VersionInv, ExportedVersions, SyncedVersions, RosterVersions, QueueVersions,
         NoVersionFromTheFuture
<1>2. Init => TypeInv /\ VersionInv
  BY InitTypeInv, InitVersionInv
<1>3. TypeInv /\ VersionInv /\ [Next]_vars => TypeInv' /\ VersionInv'
  BY NextTypeInv, NextVersionInv
<1>4. QED
  BY <1>1, <1>2, <1>3, PTL DEF Spec

-----------------------------------------------------------------------------
(* Recorded versions do not go back, for the periods and the events that two     *)
(* invocations have not had at once.                                             *)

\* The record is up to date.
HistoryInv == Shared \subseteq shared /\ Contested \subseteq contested

\* It only grows, and restricts no step.
LEMMA HistoryGrows ==
    ASSUME HistoryInv, [HNext]_hvars
    PROVE  /\ [Next]_vars /\ HistoryInv'
           /\ shared \subseteq shared' /\ contested \subseteq contested' /\ reposted \subseteq reposted'
<1>1. CASE HNext
  BY <1>1 DEF HNext, HistoryInv
<1>2. CASE UNCHANGED hvars
  <2>1. UNCHANGED vars /\ UNCHANGED <<pc, hand, ids, per, shared, contested, reposted>>
    BY <1>2 DEF hvars, history, vars, worker
  <2>2. Shared' = Shared /\ Contested' = Contested
    BY <2>1 DEF Shared, Contested, Has, Exports
  <2>3. QED
    BY <2>1, <2>2 DEF HistoryInv
<1>3. QED
  BY <1>1, <1>2

LEMMA InitHistory == HInit => HistoryInv /\ TypeInv /\ VersionInv
<1>1. HInit => HistoryInv
  BY DEF HInit, Init, HistoryInv, Shared, Contested, Has, Exports
<1>2. QED
  BY <1>1, InitTypeInv, InitVersionInv DEF HInit

\* The event an invocation of Phase 2 has found due is the one it exports.
LEMMA ExportsSyncing ==
    ASSUME TypeInv, NEW w \in Workers
    PROVE  /\ pc[w] \in Phase2 \ {"read event"} => Exports(w, Syncing(w))
           /\ \A e : Exports(w, e) => pc[w] \in Phase2 \ {"read event"} /\ e = Syncing(w)
<1>t. /\ pc[w] \in {"idle"} \cup Phase1 \cup Phase2
      /\ pc[w] \in Phase1 => hand[w].body.kind = "period_export"
      /\ pc[w] \in Phase2 => hand[w].body.kind = "event_export"
  BY DEF TypeInv, WorkerInv, LocalsType, WorkerControl, PeriodExport, EventExport
<1>1. QED
  BY <1>t DEF Exports, Syncing, Phase2

\* Two invocations that export one event contest it.
LEMMA TwoContest ==
    ASSUME TypeInv, HistoryInv, NEW v \in Workers, NEW w \in Workers \ {v},
           pc[v] \in Phase2 \ {"read event"}, pc[w] \in Phase2 \ {"read event"},
           Syncing(v) = Syncing(w)
    PROVE  Syncing(v) \in contested
<1>1. Syncing(v) \in Events /\ Exports(v, Syncing(v)) /\ Exports(w, Syncing(v))
  BY HandFacts, ExportsSyncing
<1>2. QED
  BY <1>1 DEF HistoryInv, Contested

\* A step leaves every invocation alone, or is one's own.
LEMMA ActorSteps ==
    ASSUME TypeInv, [Next]_vars
    PROVE  \/ \A v \in Workers : SameWorker(v)
           \/ \E w \in Workers : (WorkerNext(w) \/ Crash(w)) /\ OthersSame(w)
<1>1. CASE UNCHANGED worker
  BY <1>1 DEF worker, SameWorker
<1>2. ASSUME NEW w \in Workers, WorkerNext(w) \/ Crash(w)
      PROVE  OthersSame(w)
  BY <1>2, OneWorkerSteps
<1>3. CASE Edit \/ (\E x \in Editors : EditorNext(x) \/ EditorFails(x)) \/ (\E p \in Periods : Backfill(p))
  BY <1>1, <1>3, EditorEffects DEF EditorEffect
<1>4. CASE \E w \in Workers : CreateRetried(w)
  BY <1>1, <1>4 DEF CreateRetried
<1>5. CASE \E m \in BagToSet(queue) : Duplicate(m)
  BY <1>1, <1>5 DEF Duplicate
<1>6. CASE UNCHANGED vars
  BY <1>1, <1>6 DEF vars
<1>7. QED
  BY <1>2, <1>3, <1>4, <1>5, <1>6 DEF Next, Fault

\* Only the last call of Phase 2 writes a synced version.
LEMMA SyncedKept ==
    ASSUME TypeInv, [Next]_vars
    PROVE  \/ \A e \in Events : evt'[e].synced = evt[e].synced
           \/ \E w \in Workers : MarkSynced(w)
<1> USE DEF TypeInv, StoreInv
<1>b. ASSUME NEW e \in Events, evt' = [evt EXCEPT ![e] = Bumped(@)]
      PROVE  \A f \in Events : evt'[f].synced = evt[f].synced
  BY <1>b, BumpedFields
<1>1. CASE UNCHANGED evt
  BY <1>1
<1>2. CASE Edit \/ (\E x \in Editors : EditorNext(x) \/ EditorFails(x)) \/ (\E p \in Periods : Backfill(p))
  BY <1>2, BumpedFields, EditorEffects DEF EditorEffect
<1>3. ASSUME NEW w \in Workers, AssignPeriod(w)
      PROVE  \A e \in Events : evt'[e].synced = evt[e].synced
  <2>1. CASE GetOrCreateEvent(w)
    <3>1. Desired(w) \in Events
      BY <2>1, HandFacts DEF GetOrCreateEvent, At, HasDesired
    <3>2. evt' = [evt EXCEPT ![Desired(w)].ver = IF @ = 0 THEN 1 ELSE @]
      BY <2>1 DEF GetOrCreateEvent
    <3>3. QED
      BY <3>1, <3>2 DEF Event
  <2>2. CASE BumpOld(w) \/ BumpDetached(w)
    <3>1. got[w].ev \in Events
      BY <2>2, HandFacts DEF BumpOld, BumpDetached, BumpLeft, At, HasLeft
    <3>2. QED
      BY <1>b, <2>2, <3>1 DEF BumpOld, BumpDetached, BumpLeft
  <2>3. CASE BumpDesired(w)
    <3>1. Desired(w) \in Events
      BY <2>3, HandFacts DEF BumpDesired, At, HasDesired
    <3>2. QED
      BY <1>b, <2>3, <3>1 DEF BumpDesired
  <2>4. CASE UNCHANGED evt
    BY <2>4
  <2>5. QED
    BY <1>3, <2>1, <2>2, <2>3, <2>4
       DEF AssignPeriod, ReadPeriod, SetPeriodEvent, EnqueueOld, EnqueueDesired, EnqueueDetached,
           EnqueueEvent, SetExported, ClearDetached
<1>4. ASSUME NEW w \in Workers, SyncEvent(w), ~MarkSynced(w)
      PROVE  \A e \in Events : evt'[e].synced = evt[e].synced
  <2>1. CASE SetSesId(w)
    BY <2>1 DEF SetSesId, Event
  <2>2. CASE UNCHANGED evt
    BY <2>2
  <2>3. QED
    BY <1>4, <2>1, <2>2
       DEF SyncEvent, ReadEvent, ListPeriods, GetPeriods, RejectMismatch, CreateNitc, PutNitc,
           UpdateExported, ClearDropped, WriteBack
<1>5. CASE Fault \/ (\E w \in Workers : \E m \in BagToSet(queue) : Receive(w, m)) \/ UNCHANGED vars
  <2>1. CASE \E x \in Editors : EditorFails(x)
    BY <1>2, <2>1
  <2>2. QED
    BY <1>1, <1>5, <2>1 DEF Fault, Crash, CreateRetried, Duplicate, Receive, vars
<1>6. QED
  BY <1>2, <1>3, <1>4, <1>5 DEF Next, WorkerNext

\* Where a step of Phase 1 and the receipt of a message lead.
LEMMA Phase1Stays ==
    ASSUME TypeInv, NEW w \in Workers, AssignPeriod(w)
    PROVE  pc'[w] \in {"idle"} \cup Phase1
<1> USE DEF At, GoTo, Phase1
<1>t. pc \in [Workers -> {"idle"} \cup Phase1 \cup Phase2]
  BY DEF TypeInv, WorkerInv, LocalsType
<1>1. CASE Reset(w)
  BY <1>1, ResetEffect DEF Gone
<1>2. CASE ReadPeriod(w) /\ ~Reset(w)
  <2>1. Target(w) \in Periods /\ pc'[w] = Verdict(per[Target(w)])
        /\ Verdict(per[Target(w)]) \notin {"skip", "synced"}
    BY <1>2, <1>t, HandFacts DEF ReadPeriod
  <2>2. QED
    BY <2>1, VerdictFacts, VersionTypes
<1>3. CASE GetOrCreateEvent(w)
  BY <1>3, <1>t DEF GetOrCreateEvent
<1>4. CASE BumpOld(w) \/ BumpDetached(w) \/ SetPeriodEvent(w) \/ BumpDesired(w)
  BY <1>4, <1>t DEF BumpOld, BumpDetached, BumpLeft, SetPeriodEvent, BumpDesired
<1>5. CASE EnqueueOld(w) \/ EnqueueDesired(w) \/ EnqueueDetached(w)
  BY <1>5, <1>t DEF EnqueueOld, EnqueueDesired, EnqueueDetached, EnqueueEvent
<1>6. QED
  BY <1>1, <1>2, <1>3, <1>4, <1>5 DEF AssignPeriod, SetExported, ClearDetached

LEMMA ReceiveStays ==
    ASSUME TypeInv, NEW w \in Workers, NEW m, Receive(w, m)
    PROVE  pc[w] = "idle" /\ pc'[w] \in {"read period", "read event"}
  BY DEF TypeInv, WorkerInv, LocalsType, Receive, At, GoTo

\* An invocation of Phase 2 keeps the event and the version it has read.
LEMMA Phase2Keeps ==
    ASSUME TypeInv, NEW w \in Workers, WorkerNext(w) \/ Crash(w), pc'[w] \in Phase2 \ {"read event"}
    PROVE  \/ ReadEvent(w)
           \/ pc[w] \in Phase2 \ {"read event"} /\ newv'[w] = newv[w] /\ hand'[w] = hand[w]
<1> USE DEF At, GoTo
<1>t. pc \in [Workers -> {"idle"} \cup Phase1 \cup Phase2]
  BY DEF TypeInv, WorkerInv, LocalsType
<1>1. CASE Reset(w)
  BY <1>1, ResetEffect DEF Gone, Phase2
<1>2. CASE AssignPeriod(w) \/ (\E m \in BagToSet(queue) : Receive(w, m))
  <2>1. pc'[w] \in {"idle", "read event"} \cup Phase1
    <3>1. CASE AssignPeriod(w)
      <4>1. pc'[w] \in {"idle"} \cup Phase1
        BY <3>1, Phase1Stays
      <4>2. QED
        BY <4>1
    <3>2. CASE \E m \in BagToSet(queue) : Receive(w, m)
      <4>1. PICK m \in BagToSet(queue) : Receive(w, m)
        BY <3>2
      <4>2. QED
        BY <4>1, ReceiveStays DEF Phase1
    <3>3. QED
      BY <1>2, <3>1, <3>2
  <2>2. QED
    BY <2>1 DEF Phase1, Phase2
<1>3. CASE ListPeriods(w) \/ GetPeriods(w) \/ CreateNitc(w) \/ SetSesId(w) \/ PutNitc(w)
  BY <1>3 DEF ListPeriods, GetPeriods, CreateNitc, SetSesId, PutNitc, Phase2
<1>4. CASE \E x \in rows[w] : UpdateExported(w, x) \/ ClearDropped(w, x)
  BY <1>4 DEF UpdateExported, ClearDropped, WriteBack, Phase2
<1>5. QED
  BY <1>1, <1>2, <1>3, <1>4 DEF WorkerNext, SyncEvent, Crash, Return, RejectMismatch, MarkSynced

\* No event has been synced at more than the only invocation that exports it is about to record.
SyncedBelow ==
    \A w \in Workers :
        pc[w] \in Phase2 \ {"read event"} /\ Syncing(w) \notin contested =>
            evt[Syncing(w)].synced <= newv[w]

LEMMA NextSyncedBelow ==
    ASSUME TypeInv, VersionInv, HistoryInv, SyncedBelow, [Next]_vars, contested \subseteq contested'
    PROVE  SyncedBelow'
<1> SUFFICES ASSUME NEW v \in Workers, pc'[v] \in Phase2 \ {"read event"}, Syncing(v)' \notin contested
             PROVE  evt'[Syncing(v)'].synced <= newv'[v]
  BY DEF SyncedBelow
<1>1. ASSUME pc[v] \in Phase2 \ {"read event"}, newv'[v] = newv[v], hand'[v] = hand[v]
      PROVE  evt'[Syncing(v)'].synced <= newv'[v]
  <2>1. Syncing(v)' = Syncing(v) /\ Syncing(v) \in Events /\ evt[Syncing(v)].synced <= newv[v]
    BY <1>1, HandFacts DEF Syncing, SyncedBelow
  <2>2. evt'[Syncing(v)].synced = evt[Syncing(v)].synced
    <3>1. ASSUME NEW w \in Workers, MarkSynced(w)
          PROVE  evt'[Syncing(v)].synced = evt[Syncing(v)].synced
      <4>1. pc[w] = "write back" /\ pc'[w] = "idle"
        BY <3>1, ResetEffect DEF MarkSynced, At, Gone
      <4>2. w # v
        BY <4>1 DEF Phase2
      <4>3. Syncing(w) # Syncing(v) /\ Syncing(w) \in Events
        BY <1>1, <2>1, <4>1, <4>2, HandFacts, TwoContest DEF Phase2
      <4>4. QED
        BY <2>1, <3>1, <4>3 DEF MarkSynced, TypeInv, StoreInv
    <3>2. QED
      BY <2>1, <3>1, SyncedKept
  <2>3. QED
    BY <1>1, <2>1, <2>2
<1>2. CASE ReadEvent(v)
  <2>a. pc[v] \in Phase2
    BY <1>2 DEF ReadEvent, At, Phase2
  <2>b. Syncing(v) \in Events
    BY <2>a, HandFacts
  <2>c. ~Reset(v)
    BY ResetEffect DEF Gone, Phase2
  <2>d. hand' = hand /\ evt' = evt
    BY <1>2, <2>c DEF ReadEvent
  <2>1. Syncing(v) \in Events /\ Syncing(v)' = Syncing(v) /\ evt' = evt
    BY <2>b, <2>d DEF Syncing
  <2>2. newv'[v] = evt[Syncing(v)].ver
    BY <1>2, ResetEffect DEF ReadEvent, Gone, Phase2, TypeInv, WorkerInv, LocalsType
  <2>3. QED
    BY <2>1, <2>2 DEF VersionInv, SyncedVersions
<1>3. CASE SameWorker(v)
  BY <1>1, <1>3 DEF SameWorker
<1>4. CASE WorkerNext(v) \/ Crash(v)
  BY <1>1, <1>2, <1>4, Phase2Keeps
<1>5. QED
  BY <1>3, <1>4, ActorSteps DEF OthersSame

\* synced_version only grows, unless two invocations have exported the event at once: a stale
\* event_export that comes late is dropped by the check at the head of Phase 2, and only one that
\* has passed the check before the later version was marked can mark an older one.
THEOREM SyncedOnlyGrows == HSpec => SyncedNeverRegresses
<1> DEFINE I == TypeInv /\ VersionInv /\ HistoryInv /\ SyncedBelow
           Step == \A e \in Events \ contested' : evt'[e].synced >= evt[e].synced
<1>1. HInit => I
  BY InitHistory DEF HInit, Init, SyncedBelow, Phase2
<1>2. I /\ [HNext]_hvars => I'
  BY HistoryGrows, NextTypeInv, NextVersionInv, NextSyncedBelow
<1>3. I /\ [HNext]_hvars => Step
  <2> SUFFICES ASSUME I, [HNext]_hvars, NEW e \in Events \ contested'
               PROVE  evt'[e].synced >= evt[e].synced
    OBVIOUS
  <2>n. [Next]_vars /\ e \notin contested
    BY HistoryGrows
  <2>t. evt[e].synced \in Nat /\ evt'[e].synced \in Nat
    BY <2>n, NextTypeInv, VersionTypes DEF TypeInv, StoreInv, Event
  <2>1. CASE evt'[e].synced = evt[e].synced
    BY <2>t, <2>1
  <2>2. ASSUME NEW w \in Workers, MarkSynced(w)
        PROVE  evt'[e].synced >= evt[e].synced
    <3>1. /\ Syncing(w) \in Events /\ newv[w] \in Nat
          /\ Syncing(w) \notin contested => evt[Syncing(w)].synced <= newv[w]
      BY <2>2, HandFacts DEF MarkSynced, At, Phase2, SyncedBelow
    <3>2. IF e = Syncing(w) THEN evt'[e].synced = newv[w] ELSE evt'[e].synced = evt[e].synced
      BY <2>2, <3>1 DEF MarkSynced, TypeInv, StoreInv, Event
    <3>3. QED
      BY <2>n, <2>t, <3>1, <3>2
  <2>3. QED
    BY <2>n, <2>1, <2>2, SyncedKept
<1> HIDE DEF I, Step
<1>4. HSpec => [][Step]_hvars
  BY <1>1, <1>2, <1>3, PTL DEF HSpec
<1>5. QED
  BY <1>4 DEF SyncedNeverRegresses, Step

\* Only the last call of Phase 1 and the write-back of Phase 2 record an exported version, and it
\* is one the invocation has read.
Records(w, p, v) ==
    \/ (SetExported(w) \/ ClearDetached(w)) /\ p = Target(w) /\ v = got[w].ver
    \/ \E x \in rows[w] : /\ UpdateExported(w, x) \/ ClearDropped(w, x)
                          /\ p = x.period /\ v = x.rec.ver /\ rows'[w] = rows[w] \ {x}

LEMMA RecordedExp ==
    ASSUME NEW r \in Period, NEW v, NEW e, NEW n
    PROVE  ExportedAt(r, v).exp = v /\ Cleared(r, v).exp = v /\ Exported(r, e, n, v).exp = v
  BY DEF ExportedAt, Cleared, Exported, Period

LEMMA ExportedKept ==
    ASSUME TypeInv, [Next]_vars
    PROVE  \/ \A p \in Periods : per'[p].exp = per[p].exp
           \/ \E w \in Workers, p \in Periods : \E v \in Nat :
                 /\ Records(w, p, v) /\ pc[w] # "idle"
                 /\ per'[p].exp = v /\ \A r \in Periods \ {p} : per'[r] = per[r]
<1> USE DEF At
<1>t. per \in [Periods -> Period] /\ rows \in [Workers -> SUBSET Row] /\ got \in [Workers -> Period]
      /\ \A p \in Periods : per[p] \in Period
  BY DEF TypeInv, StoreInv, WorkerInv, LocalsType
<1>1. CASE UNCHANGED per
  BY <1>1
<1>2. CASE Edit \/ (\E x \in Editors : EditorNext(x) \/ EditorFails(x)) \/ (\E p \in Periods : Backfill(p))
  BY <1>2, EditorEffects DEF EditorEffect, Edited
<1>3. ASSUME NEW w \in Workers, SetPeriodEvent(w)
      PROVE  \A p \in Periods : per'[p].exp = per[p].exp
  BY <1>3, <1>t, HandFacts DEF SetPeriodEvent, Reassigned, Period
<1>4. ASSUME NEW w \in Workers, SetExported(w) \/ ClearDetached(w)
      PROVE  \E p \in Periods : \E v \in Nat :
                 /\ Records(w, p, v) /\ pc[w] # "idle"
                 /\ per'[p].exp = v /\ \A r \in Periods \ {p} : per'[r] = per[r]
  <2>1. Target(w) \in Periods /\ got[w].ver \in Nat /\ pc[w] # "idle"
    BY <1>4, HandFacts DEF SetExported, ClearDetached, Phase1
  <2>2. per[Target(w)] \in Period
    BY <1>t, <2>1
  <2>3. \/ per' = [per EXCEPT ![Target(w)] = ExportedAt(per[Target(w)], got[w].ver)]
        \/ per' = [per EXCEPT ![Target(w)] = Cleared(per[Target(w)], got[w].ver)]
    BY <1>4 DEF SetExported, ClearDetached
  <2>4. per'[Target(w)].exp = got[w].ver /\ \A r \in Periods \ {Target(w)} : per'[r] = per[r]
    BY <1>t, <2>1, <2>2, <2>3, RecordedExp
  <2>5. Records(w, Target(w), got[w].ver)
    BY <1>4 DEF Records
  <2>6. QED
    BY <2>1, <2>4, <2>5
<1>5. ASSUME NEW w \in Workers, NEW x \in rows[w], UpdateExported(w, x) \/ ClearDropped(w, x)
      PROVE  \E p \in Periods : \E v \in Nat :
                 /\ Records(w, p, v) /\ pc[w] # "idle"
                 /\ per'[p].exp = v /\ \A r \in Periods \ {p} : per'[r] = per[r]
  <2>1. x.period \in Periods /\ x.rec.ver \in Nat
    BY <1>t DEF Row, Period
  <2>2. per[x.period] \in Period
    BY <1>t, <2>1
  <2>3. \/ per' = [per EXCEPT ![x.period] = Exported(per[x.period], Syncing(w), sid[w], x.rec.ver)]
        \/ per' = [per EXCEPT ![x.period] = Cleared(per[x.period], x.rec.ver)]
    BY <1>5 DEF UpdateExported, ClearDropped, WriteBack
  <2>4. per'[x.period].exp = x.rec.ver /\ \A r \in Periods \ {x.period} : per'[r] = per[r]
    BY <1>t, <2>1, <2>2, <2>3, RecordedExp
  <2>5. pc[w] # "idle" /\ rows'[w] = rows[w] \ {x}
    BY <1>5, <1>t DEF UpdateExported, ClearDropped, WriteBack
  <2>6. Records(w, x.period, x.rec.ver)
    BY <1>5, <2>5 DEF Records
  <2>7. QED
    BY <2>1, <2>4, <2>5, <2>6
<1>6. ASSUME NEW w \in Workers, WorkerNext(w)
      PROVE  \/ UNCHANGED per \/ SetPeriodEvent(w) \/ SetExported(w) \/ ClearDetached(w)
             \/ \E x \in rows[w] : UpdateExported(w, x) \/ ClearDropped(w, x)
  BY <1>6 DEF WorkerNext, Receive, AssignPeriod, SyncEvent, ReadPeriod, GetOrCreateEvent, BumpOld,
              BumpDetached, BumpLeft, BumpDesired, EnqueueOld, EnqueueDesired, EnqueueDetached,
              EnqueueEvent, ReadEvent, ListPeriods, GetPeriods, RejectMismatch, CreateNitc, SetSesId,
              PutNitc, MarkSynced
<1>7. CASE Fault \/ UNCHANGED vars
  <2>1. CASE \E x \in Editors : EditorFails(x)
    BY <1>2, <2>1
  <2>2. QED
    BY <1>1, <1>7, <2>1 DEF Fault, Crash, CreateRetried, Duplicate, vars
<1>8. ASSUME NEW w \in Workers, WorkerNext(w)
      PROVE  \/ \A p \in Periods : per'[p].exp = per[p].exp
             \/ \E p \in Periods : \E v \in Nat :
                   /\ Records(w, p, v) /\ pc[w] # "idle"
                   /\ per'[p].exp = v /\ \A r \in Periods \ {p} : per'[r] = per[r]
  BY <1>1, <1>3, <1>4, <1>5, <1>6, <1>8
<1>9. QED
  BY <1>2, <1>7, <1>8 DEF Next

\* An invocation of Phase 1 keeps the period it has read.
LEMMA Phase1Keeps ==
    ASSUME TypeInv, NEW w \in Workers, WorkerNext(w) \/ Crash(w), pc'[w] \in Phase1 \ {"read period"}
    PROVE  \/ ReadPeriod(w) /\ pc[w] = "read period" /\ got'[w] = per[Target(w)]
              /\ per' = per /\ hand'[w] = hand[w]
           \/ /\ pc[w] \in Phase1 \ {"read period"} /\ got'[w] = got[w] /\ hand'[w] = hand[w]
              /\ AssignPeriod(w) /\ ~SetExported(w) /\ ~ClearDetached(w)
<1> USE DEF At, GoTo
<1>t. pc \in [Workers -> {"idle"} \cup Phase1 \cup Phase2] /\ got \in [Workers -> Period]
  BY DEF TypeInv, WorkerInv, LocalsType
<1>1. CASE Reset(w)
  BY <1>1, ResetEffect DEF Gone, Phase1
<1>2. CASE ReadPeriod(w) /\ ~Reset(w)
  BY <1>2, <1>t DEF ReadPeriod
<1>3. CASE \E m \in BagToSet(queue) : Receive(w, m)
  <2>1. PICK m \in BagToSet(queue) : Receive(w, m)
    BY <1>3
  <2>2. QED
    BY <2>1, ReceiveStays DEF Phase1
<1>4. CASE AssignPeriod(w) /\ ~Reset(w) /\ ~ReadPeriod(w)
  <2>1. /\ pc[w] \in Phase1 \ {"read period"} /\ UNCHANGED <<got, hand>>
    BY <1>4 DEF AssignPeriod, GetOrCreateEvent, BumpOld, BumpDetached, BumpLeft, SetPeriodEvent,
                BumpDesired, EnqueueOld, EnqueueDesired, EnqueueDetached, EnqueueEvent, SetExported,
                ClearDetached, Phase1
  <2>2. QED
    BY <1>4, <2>1 DEF SetExported, ClearDetached
<1>5. CASE SyncEvent(w) /\ ~Reset(w)
  <2>1. pc'[w] \in Phase2
    BY <1>5, <1>t DEF SyncEvent, ReadEvent, ListPeriods, GetPeriods, RejectMismatch, Return, CreateNitc,
                SetSesId, PutNitc, UpdateExported, ClearDropped, WriteBack, MarkSynced, Phase2
  <2>2. QED
    BY <2>1 DEF Phase1, Phase2
<1>6. QED
  BY <1>1, <1>2, <1>3, <1>4, <1>5 DEF WorkerNext, Crash, Return

\* An invocation of Phase 2 keeps the rows it has read, but for those it writes back.
LEMMA RowsKept ==
    ASSUME TypeInv, NEW w \in Workers, WorkerNext(w) \/ Crash(w)
    PROVE  /\ \/ rows'[w] = {}
              \/ rows'[w] \subseteq rows[w]
              \/ GetPeriods(w) /\ rows'[w] = RowsNow(w) /\ per' = per
           /\ \/ rows'[w] = {}
              \/ rows[w] # {} /\ pc'[w] = pc[w]
              \/ pc'[w] \in {"create", "set ses id", "put", "write back"}
              \/ rows'[w] = rows[w] /\ pc[w] \notin {"create", "set ses id", "put", "write back"}
<1> USE DEF At, GoTo
<1>t. pc \in [Workers -> {"idle"} \cup Phase1 \cup Phase2] /\ rows \in [Workers -> SUBSET Row]
  BY DEF TypeInv, WorkerInv, LocalsType
<1>1. CASE Reset(w)
  BY <1>1, ResetEffect DEF Gone
<1>2. CASE UNCHANGED rows /\ pc[w] \notin {"create", "set ses id", "put", "write back"}
  BY <1>2
<1>3. CASE GetPeriods(w)
  BY <1>3, <1>t DEF GetPeriods
<1>4. CASE CreateNitc(w) \/ SetSesId(w) \/ PutNitc(w)
  BY <1>4, <1>t DEF CreateNitc, SetSesId, PutNitc
<1>5. CASE \E x \in rows[w] : UpdateExported(w, x) \/ ClearDropped(w, x)
  BY <1>5, <1>t DEF UpdateExported, ClearDropped, WriteBack
<1>6. CASE AssignPeriod(w) /\ ~Reset(w)
  BY <1>2, <1>6 DEF AssignPeriod, ReadPeriod, GetOrCreateEvent, BumpOld, BumpDetached, BumpLeft,
                    SetPeriodEvent, BumpDesired, EnqueueOld, EnqueueDesired, EnqueueDetached,
                    EnqueueEvent, SetExported, ClearDetached
<1>7. CASE (ReadEvent(w) /\ ~Reset(w)) \/ ListPeriods(w) \/ (\E m \in BagToSet(queue) : Receive(w, m))
  BY <1>2, <1>7 DEF ReadEvent, ListPeriods, Receive
<1>8. QED
  BY <1>1, <1>3, <1>4, <1>5, <1>6, <1>7
     DEF WorkerNext, SyncEvent, Crash, Return, RejectMismatch, MarkSynced

\* The period ids of an invocation are those of its rows.
LEMMA IdsKept ==
    ASSUME TypeInv, NEW w \in Workers, WorkerNext(w) \/ Crash(w)
    PROVE  \/ rows'[w] = {}
           \/ ids'[w] = ids[w]
           \/ pc[w] = "list" /\ rows'[w] = rows[w]
<1> USE DEF At, GoTo
<1>t. rows \in [Workers -> SUBSET Row] /\ ids \in [Workers -> SUBSET Periods]
  BY DEF TypeInv, WorkerInv, LocalsType
<1>1. CASE Reset(w)
  BY <1>1, ResetEffect DEF Gone
<1>2. CASE UNCHANGED ids
  BY <1>2
<1>3. CASE ListPeriods(w)
  BY <1>3 DEF ListPeriods
<1>4. CASE AssignPeriod(w) /\ ~Reset(w)
  BY <1>2, <1>4 DEF AssignPeriod, ReadPeriod, GetOrCreateEvent, BumpOld, BumpDetached, BumpLeft,
                    SetPeriodEvent, BumpDesired, EnqueueOld, EnqueueDesired, EnqueueDetached,
                    EnqueueEvent, SetExported, ClearDetached
<1>5. CASE (SyncEvent(w) /\ ~Reset(w) /\ ~ListPeriods(w)) \/ (\E m \in BagToSet(queue) : Receive(w, m))
  BY <1>2, <1>5 DEF SyncEvent, ReadEvent, GetPeriods, RejectMismatch, Return, CreateNitc, SetSesId,
                    PutNitc, UpdateExported, ClearDropped, WriteBack, MarkSynced, Receive
<1>6. QED
  BY <1>1, <1>3, <1>4, <1>5 DEF WorkerNext, Crash, Return

\* No period has been exported at more than the only invocation that has it has read, and Phase 2
\* holds each period once, among those it has listed.
RowsHeld(w) ==
    /\ rows[w] # {} => pc[w] \in {"create", "set ses id", "put", "write back"}
    /\ \A x \in rows[w] : x.period \in ids[w]
    /\ \A x, y \in rows[w] : x.period = y.period => x = y
ExportedBelowOf(w) ==
    /\ pc[w] \in Phase1 \ {"read period"} /\ Target(w) \notin shared => per[Target(w)].exp <= got[w].ver
    /\ \A x \in rows[w] : x.period \notin shared => per[x.period].exp <= x.rec.ver
ExportedBelow == \A w \in Workers : RowsHeld(w) /\ ExportedBelowOf(w)

\* The invocation that records a version has the period, and moves on.
LEMMA RecordsMoves ==
    ASSUME TypeInv, ExportedBelow, NEW u \in Workers, NEW p, NEW n, Records(u, p, n), pc[u] # "idle"
    PROVE  p \in Periods /\ Has(u, p) /\ ~SameWorker(u)
<1>1. CASE (SetExported(u) \/ ClearDetached(u)) /\ p = Target(u)
  <2>1. pc[u] \in Phase1
    BY <1>1 DEF SetExported, ClearDetached, At, Phase1
  <2>2. Target(u) \in Periods
    BY <2>1, HandFacts
  <2>3. hand[u].body \in PeriodExport
    BY <2>1 DEF TypeInv, WorkerInv, WorkerControl
  <2>4. hand[u].body = PeriodMsg(Target(u))
    BY <2>3 DEF PeriodExport, PeriodMsg, Target
  <2>5. pc'[u] = "idle"
    BY <1>1, ResetEffect DEF SetExported, ClearDetached, Gone
  <2>6. QED
    BY <1>1, <2>2, <2>4, <2>5 DEF Has, SameWorker
<1>2. ASSUME NEW x \in rows[u], p = x.period, rows'[u] = rows[u] \ {x}
      PROVE  p \in Periods /\ Has(u, p) /\ ~SameWorker(u)
  <2>1. p \in ids[u] /\ ids[u] \in SUBSET Periods
    BY <1>2, HandFacts DEF ExportedBelow, RowsHeld
  <2>2. rows'[u] # rows[u]
    BY <1>2
  <2>3. QED
    BY <2>1, <2>2 DEF Has, SameWorker
<1>3. QED
  BY <1>1, <1>2 DEF Records

LEMMA NextExportedBelow ==
    ASSUME TypeInv, VersionInv, HistoryInv, ExportedBelow, [Next]_vars, shared \subseteq shared'
    PROVE  ExportedBelow'
<1>t. /\ \A p \in Periods : per[p].exp <= per[p].ver /\ per[p].exp \in Nat /\ per[p].ver \in Nat
      /\ rows \in [Workers -> SUBSET Row]
  BY VersionTypes DEF VersionInv, ExportedVersions, TypeInv, WorkerInv, LocalsType
<1>k. \/ \A p \in Periods : per'[p].exp = per[p].exp
      \/ \E u \in Workers, p \in Periods : \E n \in Nat :
            /\ Records(u, p, n) /\ pc[u] # "idle"
            /\ per'[p].exp = n /\ \A r \in Periods \ {p} : per'[r] = per[r]
  BY ExportedKept
<1>s. ASSUME NEW v \in Workers, SameWorker(v)
      PROVE  RowsHeld(v)' /\ ExportedBelowOf(v)'
  <2>1. \A x \in rows[v] : x.period \in Periods
    BY <1>t DEF Row
  <2>2. pc[v] \in Phase1 => Target(v) \in Periods /\ Has(v, Target(v))
    <3>1. pc[v] \in Phase1 => hand[v].body \in PeriodExport
      BY DEF TypeInv, WorkerInv, WorkerControl
    <3>2. QED
      BY <3>1, HandFacts DEF PeriodExport, PeriodMsg, Target, Has, Phase1
  <2>3. RowsHeld(v) /\ ExportedBelowOf(v)
    BY DEF ExportedBelow
  <2>4. \A x \in rows[v] : Has(v, x.period)
    BY <2>3 DEF RowsHeld, Has
  <2>5. ASSUME NEW p \in Periods, Has(v, p), p \notin shared'
        PROVE  per'[p].exp = per[p].exp
    <3>1. ASSUME NEW u \in Workers, NEW n, Records(u, p, n), pc[u] # "idle"
          PROVE  FALSE
      <4>1. Has(u, p) /\ u # v
        BY <1>s, <3>1, RecordsMoves
      <4>2. QED
        BY <2>5, <4>1 DEF HistoryInv, Shared
    <3>2. QED
      BY <1>k, <3>1
  <2>6. Target(v)' = Target(v) /\ shared \subseteq shared'
    BY <1>s DEF SameWorker, Target
  <2>7. RowsHeld(v)'
    BY <1>s, <2>3 DEF RowsHeld, SameWorker
  <2>8. ExportedBelowOf(v)'
    BY <1>s, <2>1, <2>2, <2>3, <2>4, <2>5, <2>6 DEF ExportedBelowOf, SameWorker
  <2>9. QED
    BY <2>7, <2>8
<1>1. ASSUME NEW w \in Workers, WorkerNext(w) \/ Crash(w), OthersSame(w)
      PROVE  RowsHeld(w)' /\ ExportedBelowOf(w)'
  <2>h. RowsHeld(w) /\ ExportedBelowOf(w)
    BY DEF ExportedBelow
  <2>n. ASSUME NEW u \in Workers, NEW p, NEW n, Records(u, p, n), pc[u] # "idle"
        PROVE  u = w
    BY <1>1, <2>n, RecordsMoves DEF OthersSame
  <2>1. ASSUME pc'[w] \in Phase1 \ {"read period"}, Target(w)' \notin shared'
        PROVE  per'[Target(w)'].exp <= got'[w].ver
    <3>1. CASE ReadPeriod(w) /\ pc[w] = "read period" /\ got'[w] = per[Target(w)] /\ per' = per /\ hand'[w] = hand[w]
      <4>1. Target(w) \in Periods /\ Target(w)' = Target(w)
        BY <3>1, HandFacts DEF Phase1, Target
      <4>2. QED
        BY <1>t, <3>1, <4>1
    <3>2. CASE /\ pc[w] \in Phase1 \ {"read period"} /\ got'[w] = got[w] /\ hand'[w] = hand[w]
               /\ AssignPeriod(w) /\ ~SetExported(w) /\ ~ClearDetached(w)
      <4>1. Target(w) \in Periods /\ Target(w)' = Target(w) /\ per[Target(w)].exp <= got[w].ver
        BY <2>1, <2>h, <3>2, HandFacts DEF Target, ExportedBelowOf
      <4>2. \A p \in Periods : per'[p].exp = per[p].exp
        <5>1. ASSUME NEW u \in Workers, NEW p, NEW n, Records(u, p, n), pc[u] # "idle"
              PROVE  FALSE
          <6>1. u = w
            BY <2>n, <5>1
          <6>2. pc[w] = "write back"
            BY <3>2, <5>1, <6>1 DEF Records, UpdateExported, ClearDropped, At
          <6>3. QED
            BY <3>2, <6>2 DEF Phase1
        <5>2. QED
          BY <1>k, <5>1
      <4>3. QED
        BY <3>2, <4>1, <4>2
    <3>3. QED
      BY <1>1, <2>1, <3>1, <3>2, Phase1Keeps
  <2>2. rows'[w] # {} => pc'[w] \in {"create", "set ses id", "put", "write back"}
    BY <1>1, <2>h, RowsKept DEF RowsHeld
  <2>3. \A x, y \in rows'[w] : x.period = y.period => x = y
    <3>1. CASE rows'[w] = RowsNow(w)
      BY <3>1 DEF RowsNow
    <3>2. CASE rows'[w] \subseteq rows[w]
      BY <2>h, <3>2 DEF RowsHeld
    <3>3. QED
      BY <1>1, <3>1, <3>2, RowsKept
  <2>i. \A x \in rows'[w] : x.period \in ids'[w]
    <3>1. rows'[w] # {} => \A x \in rows'[w] : x.period \in ids[w]
      <4>1. CASE rows'[w] = RowsNow(w)
        BY <4>1 DEF RowsNow
      <4>2. CASE rows'[w] \subseteq rows[w]
        BY <2>h, <4>2 DEF RowsHeld
      <4>3. QED
        BY <1>1, <4>1, <4>2, RowsKept
    <3>2. rows'[w] # {} => ids'[w] = ids[w]
      BY <1>1, <2>h, IdsKept DEF RowsHeld
    <3>3. QED
      BY <3>1, <3>2
  <2>4. \A x \in rows'[w] : x.period \notin shared' => per'[x.period].exp <= x.rec.ver
    <3>1. CASE rows'[w] = RowsNow(w) /\ per' = per
      <4>1. ids[w] \in SUBSET Periods
        BY HandFacts
      <4>2. QED
        BY <1>t, <3>1, <4>1 DEF RowsNow
    <3>2. CASE rows'[w] \subseteq rows[w]
      <4> SUFFICES ASSUME NEW x \in rows'[w], x.period \notin shared' PROVE per'[x.period].exp <= x.rec.ver
        OBVIOUS
      <4>1. x \in rows[w] /\ x.period \in Periods /\ per[x.period].exp <= x.rec.ver
        <5>1. x \in rows[w]
          BY <3>2
        <5>2. x \in Row
          BY <1>t, <5>1
        <5>3. QED
          BY <2>h, <5>1, <5>2 DEF ExportedBelowOf, Row
      <4>2. CASE per'[x.period].exp = per[x.period].exp
        BY <4>1, <4>2
      <4>3. ASSUME NEW u \in Workers, NEW p \in Periods, NEW n \in Nat, Records(u, p, n), pc[u] # "idle",
                   per'[p].exp = n, \A r \in Periods \ {p} : per'[r] = per[r]
            PROVE  per'[x.period].exp <= x.rec.ver
        <5>1. u = w
          BY <2>n, <4>3
        <5>2. pc'[w] # "idle"
          BY <2>2
        <5>3. PICK y \in rows[w] : p = y.period /\ n = y.rec.ver /\ rows'[w] = rows[w] \ {y}
          BY <4>3, <5>1, <5>2, ResetEffect DEF Records, SetExported, ClearDetached, Gone
        <5>4. x # y
          BY <5>3
        <5>5. x.period # p
          BY <2>h, <4>1, <5>3, <5>4 DEF RowsHeld
        <5>6. QED
          BY <4>1, <4>3, <5>5
      <4>4. QED
        BY <1>k, <4>1, <4>2, <4>3
    <3>3. CASE rows'[w] = {}
      BY <3>3
    <3>4. QED
      BY <1>1, <3>1, <3>2, <3>3, RowsKept
  <2>5. RowsHeld(w)'
    BY <2>2, <2>3, <2>i DEF RowsHeld
  <2>6. ExportedBelowOf(w)'
    BY <2>1, <2>4 DEF ExportedBelowOf
  <2>7. QED
    BY <2>5, <2>6
<1>2. CASE \E w \in Workers : (WorkerNext(w) \/ Crash(w)) /\ OthersSame(w)
  <2>1. PICK w \in Workers : (WorkerNext(w) \/ Crash(w)) /\ OthersSame(w)
    BY <1>2
  <2>2. QED
    BY <1>1, <1>s, <2>1 DEF ExportedBelow, OthersSame
<1>3. CASE \A v \in Workers : SameWorker(v)
  BY <1>3, <1>s DEF ExportedBelow
<1>4. QED
  BY <1>2, <1>3, ActorSteps

\* nitc_exported_version only grows, unless two invocations have had the period at once: what an
\* invocation records last is the version it read first, and only another one that had the period
\* meanwhile could have recorded a later one.
THEOREM ExportedOnlyGrows == HSpec => ExportedNeverRegresses
<1> DEFINE I == TypeInv /\ VersionInv /\ HistoryInv /\ ExportedBelow
           Step == \A p \in Periods \ shared' : per'[p].exp >= per[p].exp
<1>1. HInit => I
  BY InitHistory DEF HInit, Init, ExportedBelow, ExportedBelowOf, RowsHeld, Phase1
<1>2. I /\ [HNext]_hvars => I'
  BY HistoryGrows, NextTypeInv, NextVersionInv, NextExportedBelow
<1>3. I /\ [HNext]_hvars => Step
  <2> SUFFICES ASSUME I, [HNext]_hvars, NEW p \in Periods \ shared'
               PROVE  per'[p].exp >= per[p].exp
    OBVIOUS
  <2>n. [Next]_vars /\ p \notin shared
    BY HistoryGrows
  <2>t. per[p].exp \in Nat /\ per'[p].exp \in Nat
    BY <2>n, NextTypeInv, VersionTypes DEF TypeInv, StoreInv, Period
  <2>1. CASE per'[p].exp = per[p].exp
    BY <2>t, <2>1
  <2>2. ASSUME NEW w \in Workers, NEW q \in Periods, NEW n \in Nat, Records(w, q, n),
               per'[q].exp = n, \A r \in Periods \ {q} : per'[r] = per[r]
        PROVE  per'[p].exp >= per[p].exp
    <3>1. q \notin shared => per[q].exp <= n
      BY <2>2 DEF Records, SetExported, ClearDetached, At, ExportedBelow, ExportedBelowOf, Phase1
    <3>2. CASE p = q
      BY <2>2, <2>n, <2>t, <3>1, <3>2
    <3>3. CASE p # q
      BY <2>1, <2>2, <3>3
    <3>4. QED
      BY <3>2, <3>3
  <2>3. QED
    BY <2>n, <2>1, <2>2, ExportedKept
<1> HIDE DEF I, Step
<1>4. HSpec => [][Step]_hvars
  BY <1>1, <1>2, <1>3, PTL DEF HSpec
<1>5. QED
  BY <1>4 DEF ExportedNeverRegresses, Step
=============================================================================
