---------------------------- MODULE NitcGreenProofs ----------------------------
(***************************************************************************)
(* What TLAPS proves about the answer of NitcExport: an event has one NITC   *)
(* in SES, and a green dot does not lie.                                    *)
(***************************************************************************)
EXTENDS NitcExportProofs

-----------------------------------------------------------------------------
(* One NITC per event                                                          *)

\* Phase 2 has not yet created a NITC, and goes by the id it read.
BeforePost == {"list", "get periods", "create"}

\* Every NITC in SES is named by its event, or about to be, unless the event was contested or the
\* NITC's id was lost.
Named(i) ==
    \/ evt[ses[i].ev].sid = i
    \/ \E w \in Workers : pc[w] = "set ses id" /\ sid[w] = i /\ Syncing(w) = ses[i].ev
NitcNamed == \A i \in DOMAIN ses : ses[i].ev \notin contested \cup reposted => Named(i)
SidKnown(w) ==
    /\ pc[w] \in BeforePost /\ Syncing(w) \notin contested => sid[w] = evt[Syncing(w)].sid
    /\ pc[w] = "create" => sid[w] = 0
    /\ pc[w] = "set ses id" /\ Syncing(w) \notin contested => evt[Syncing(w)].sid = 0
NitcKnown == NitcNamed /\ \A w \in Workers : SidKnown(w)

\* Only the call after the POST writes an event's NITC.
LEMMA SidsKept ==
    ASSUME TypeInv, [Next]_vars
    PROVE  \/ \A e \in Events : evt'[e].sid = evt[e].sid
           \/ \E w \in Workers : SetSesId(w)
<1> USE DEF TypeInv, StoreInv
<1>b. ASSUME NEW e \in Events, evt' = [evt EXCEPT ![e] = Bumped(@)]
      PROVE  \A f \in Events : evt'[f].sid = evt[f].sid
  BY <1>b DEF Bumped, Event
<1>1. CASE UNCHANGED evt
  BY <1>1
<1>2. CASE Edit \/ (\E x \in Editors : EditorNext(x) \/ EditorFails(x)) \/ (\E p \in Periods : Backfill(p))
  <2>1. \A e \in Events : evt[e] \in Event
    OBVIOUS
  <2>2. \A e \in Events : Bumped(evt[e]).sid = evt[e].sid
    BY <2>1 DEF Bumped, Event
  <2>3. QED
    BY <1>2, <2>2, EditorEffects DEF EditorEffect
<1>3. ASSUME NEW w \in Workers, AssignPeriod(w)
      PROVE  \A e \in Events : evt'[e].sid = evt[e].sid
  <2>1. CASE GetOrCreateEvent(w)
    <3>1. Desired(w) \in Events
      BY <2>1, HandFacts DEF GetOrCreateEvent, At, HasDesired
    <3>2. evt' = [evt EXCEPT ![Desired(w)].ver = IF @ = 0 THEN 1 ELSE @]
      BY <2>1 DEF GetOrCreateEvent
    <3>3. QED
      BY <3>1, <3>2 DEF Event
  <2>2. CASE BumpOld(w) \/ BumpDetached(w)
    <3>1. got[w].ev \in Events
      BY <2>2, HandFacts DEF BumpOld, BumpDetached, BumpLeft, At, HasLeft
    <3>2. QED
      BY <1>b, <2>2, <3>1 DEF BumpOld, BumpDetached, BumpLeft
  <2>3. CASE BumpDesired(w)
    <3>1. Desired(w) \in Events
      BY <2>3, HandFacts DEF BumpDesired, At, HasDesired
    <3>2. QED
      BY <1>b, <2>3, <3>1 DEF BumpDesired
  <2>4. CASE UNCHANGED evt
    BY <2>4
  <2>5. QED
    BY <1>3, <2>1, <2>2, <2>3, <2>4
       DEF AssignPeriod, ReadPeriod, SetPeriodEvent, EnqueueOld, EnqueueDesired, EnqueueDetached,
           EnqueueEvent, SetExported, ClearDetached
<1>4. ASSUME NEW w \in Workers, SyncEvent(w), ~SetSesId(w)
      PROVE  \A e \in Events : evt'[e].sid = evt[e].sid
  <2>1. CASE MarkSynced(w)
    BY <2>1 DEF MarkSynced, Event
  <2>2. CASE UNCHANGED evt
    BY <2>2
  <2>3. QED
    BY <1>4, <2>1, <2>2
       DEF SyncEvent, ReadEvent, ListPeriods, GetPeriods, RejectMismatch, CreateNitc, PutNitc,
           UpdateExported, ClearDropped, WriteBack
<1>5. CASE Fault \/ (\E w \in Workers : \E m \in BagToSet(queue) : Receive(w, m)) \/ UNCHANGED vars
  <2>1. CASE \E x \in Editors : EditorFails(x)
    BY <1>2, <2>1
  <2>2. QED
    BY <1>1, <1>5, <2>1 DEF Fault, Crash, CreateRetried, Duplicate, Receive, vars
<1>6. QED
  BY <1>2, <1>3, <1>4, <1>5 DEF Next, WorkerNext

\* Only a POST adds a NITC, and only a PUT changes a roster.
SameNitcEvents == DOMAIN ses' = DOMAIN ses /\ \A i \in DOMAIN ses : ses'[i].ev = ses[i].ev

LEMMA PutEffect ==
    ASSUME TypeInv, NEW w \in Workers, PutNitc(w)
    PROVE  /\ SameNitcEvents
           /\ \A i \in DOMAIN ses :
                ses'[i].roster = IF i = sid[w] THEN Roster(rows[w]) ELSE ses[i].roster
<1> DEFINE i == sid[w]
           R == Roster(rows[w])
<1>1. ses' = WithRoster(ses, i, R)
  BY DEF PutNitc, WithRoster
<1>2. R \in SUBSET Entry /\ ses \in Seq(Nitc)
  BY RosterType DEF TypeInv, StoreInv, WorkerInv, LocalsType
<1> HIDE DEF i, R
<1>3. /\ DOMAIN WithRoster(ses, i, R) = DOMAIN ses
      /\ \A j \in DOMAIN ses :
            /\ WithRoster(ses, i, R)[j].ev = ses[j].ev
            /\ WithRoster(ses, i, R)[j].roster = IF j = i THEN R ELSE ses[j].roster
  BY <1>2, PutType
<1>4. QED
  BY <1>1, <1>3 DEF i, R, SameNitcEvents

LEMMA NitcsKept ==
    ASSUME TypeInv, [Next]_vars
    PROVE  \/ ses' = ses
           \/ \E w \in Workers : PutNitc(w) \/ CreateNitc(w) \/ CreateRetried(w)
<1>1. CASE UNCHANGED vars
  BY <1>1 DEF vars
<1>2. CASE Edit \/ (\E x \in Editors : EditorNext(x) \/ EditorFails(x)) \/ (\E p \in Periods : Backfill(p))
  BY <1>2, EditorEffects DEF EditorEffect
<1>3. ASSUME NEW w \in Workers, WorkerNext(w), ~PutNitc(w), ~CreateNitc(w)
      PROVE  ses' = ses
  BY <1>3 DEF WorkerNext, Receive, AssignPeriod, SyncEvent, ReadPeriod, GetOrCreateEvent, BumpOld,
              BumpDetached, BumpLeft, SetPeriodEvent, BumpDesired, EnqueueOld, EnqueueDesired,
              EnqueueDetached, EnqueueEvent, SetExported, ClearDetached, ReadEvent, ListPeriods,
              GetPeriods, RejectMismatch, SetSesId, UpdateExported, ClearDropped, WriteBack, MarkSynced
<1>4. ASSUME Fault, ~\E w \in Workers : CreateRetried(w)
      PROVE  ses' = ses
  <2>1. CASE \E x \in Editors : EditorFails(x)
    BY <2>1 DEF EditorFails
  <2>2. QED
    BY <1>4, <2>1 DEF Fault, Crash, Duplicate
<1>5. QED
  BY <1>1, <1>2, <1>3, <1>4 DEF Next

\* How an invocation comes to where it creates a NITC.
LEMMA PostKeeps ==
    ASSUME TypeInv, NEW w \in Workers, WorkerNext(w) \/ Crash(w), ~CreateNitc(w),
           pc'[w] \in BeforePost \cup {"set ses id"}
    PROVE  /\ pc'[w] \in BeforePost /\ hand'[w] = hand[w] /\ evt' = evt
           /\ \/ pc[w] = "read event" /\ sid'[w] = evt[Syncing(w)].sid /\ pc'[w] = "list"
              \/ pc[w] \in BeforePost /\ sid'[w] = sid[w] /\ (pc'[w] = "create" => sid[w] = 0)
<1> USE DEF At, GoTo, BeforePost
<1>t. /\ pc \in [Workers -> {"idle"} \cup Phase1 \cup Phase2]
      /\ sid \in [Workers -> Nat]
  BY DEF TypeInv, WorkerInv, LocalsType
<1>1. CASE Reset(w)
  BY <1>1, ResetEffect DEF Gone
<1>2. CASE AssignPeriod(w)
  BY <1>2, Phase1Stays DEF Phase1
<1>3. CASE \E m \in BagToSet(queue) : Receive(w, m)
  BY <1>3, ReceiveStays
<1>4. CASE ReadEvent(w) /\ ~Reset(w)
  BY <1>4, <1>t DEF ReadEvent
<1>5. CASE ListPeriods(w) \/ GetPeriods(w)
  BY <1>5, <1>t DEF ListPeriods, GetPeriods
<1>6. CASE SetSesId(w) \/ PutNitc(w)
  BY <1>6, <1>t DEF SetSesId, PutNitc
<1>7. CASE \E x \in rows[w] : UpdateExported(w, x) \/ ClearDropped(w, x)
  BY <1>7, <1>t DEF UpdateExported, ClearDropped, WriteBack
<1>8. QED
  BY <1>1, <1>2, <1>3, <1>4, <1>5, <1>6, <1>7
     DEF WorkerNext, SyncEvent, Crash, Return, RejectMismatch, MarkSynced

LEMMA NextNitcKnown ==
    ASSUME IInv, HistoryInv, NitcKnown, HNext
    PROVE  NitcKnown'
<1> USE DEF IInv
<1>n. /\ [Next]_vars /\ HistoryInv'
      /\ contested \subseteq contested' /\ reposted \subseteq reposted' /\ Reposted \subseteq reposted'
  BY HistoryGrows DEF HNext
<1>k. \A w \in Workers : SidKnown(w)
  BY DEF NitcKnown
<1>z. \A i \in DOMAIN ses : i # 0 /\ ses[i].ev \in Events
  <2>1. ses \in Seq(Nitc)
    BY DEF TypeInv, StoreInv
  <2>2. DOMAIN ses = 1..Len(ses) /\ Len(ses) \in Nat /\ \A i \in DOMAIN ses : ses[i] \in Nitc
    BY <2>1, LenProperties
  <2>3. QED
    BY <2>2 DEF Nitc
\* What is known of an invocation that waits.
<1>s. ASSUME NEW v \in Workers, SameWorker(v),
             \/ \A e \in Events : evt'[e].sid = evt[e].sid
             \/ \E w \in Workers \ {v} :
                   /\ pc[w] = "set ses id"
                   /\ \A e \in Events \ {Syncing(w)} : evt'[e] = evt[e]
      PROVE  SidKnown(v)'
  <2>1. Syncing(v)' = Syncing(v) /\ SidKnown(v) /\ (pc[v] \in Phase2 => Syncing(v) \in Events)
    BY <1>k, <1>s, HandFacts DEF SameWorker, Syncing
  <2>2. ASSUME pc[v] \in BeforePost \cup {"set ses id"}, Syncing(v) \notin contested
        PROVE  evt'[Syncing(v)].sid = evt[Syncing(v)].sid
    <3>1. ASSUME NEW w \in Workers \ {v}, pc[w] = "set ses id" PROVE Syncing(w) # Syncing(v)
      BY <2>2, <3>1, TwoContest DEF Phase2, BeforePost
    <3>2. Syncing(v) \in Events
      BY <2>1, <2>2 DEF Phase2, BeforePost
    <3>3. QED
      BY <1>s, <3>1, <3>2
  <2>3. QED
    BY <1>n, <1>s, <2>1, <2>2 DEF SidKnown, SameWorker, BeforePost
\* A NITC stays named by its event, and one that waits for its id still does.
<1>m. ASSUME NEW i \in DOMAIN ses, ses'[i].ev = ses[i].ev,
             evt[ses[i].ev].sid = i => evt'[ses[i].ev].sid = i,
             \A v \in Workers : pc[v] = "set ses id" =>
                 SameWorker(v) \/ Syncing(v) \in reposted' \/ evt'[Syncing(v)].sid = sid[v],
             ses[i].ev \notin contested' \cup reposted'
      PROVE  Named(i)'
  <2>1. Named(i)
    BY <1>n, <1>m DEF NitcKnown, NitcNamed
  <2>2. ASSUME NEW v \in Workers, pc[v] = "set ses id", sid[v] = i, Syncing(v) = ses[i].ev
        PROVE  Named(i)'
    <3>1. CASE SameWorker(v)
      <4>1. pc'[v] = "set ses id" /\ sid'[v] = i /\ Syncing(v)' = ses'[i].ev
        BY <1>m, <2>2, <3>1 DEF SameWorker, Syncing
      <4>2. QED
        BY <4>1 DEF Named
    <3>2. CASE evt'[Syncing(v)].sid = sid[v]
      BY <1>m, <2>2, <3>2 DEF Named
    <3>3. QED
      BY <1>m, <2>2, <3>1, <3>2
  <2>3. CASE evt[ses[i].ev].sid = i
    BY <1>m, <2>3 DEF Named
  <2>4. QED
    BY <2>1, <2>2, <2>3 DEF Named
\* The POST.
<1>1. ASSUME NEW w \in Workers, CreateNitc(w) \/ CreateRetried(w)
      PROVE  NitcKnown'
  <2>1. /\ pc[w] = "create" /\ evt' = evt /\ NewNitc(w) /\ Syncing(w) \in Events
    BY <1>1, HandFacts DEF CreateNitc, CreateRetried, At, Phase2
  <2>2. PICK n \in Nat : /\ n # 0 /\ n \notin DOMAIN ses /\ n = Len(ses) + 1
                         /\ DOMAIN ses' = DOMAIN ses \cup {n}
                         /\ \A j \in DOMAIN ses : ses'[j] = ses[j]
                         /\ ses'[n].ev = Syncing(w) /\ ses'[n].roster = {}
    BY <2>1, NewNitcFacts
  <2>3. \/ /\ pc'[w] = "set ses id" /\ Syncing(w)' = Syncing(w) /\ sid'[w] = n
        \/ Syncing(w) \in reposted' /\ SameWorker(w)
    <3>1. CASE CreateNitc(w)
      BY <2>2, <3>1 DEF CreateNitc, At, GoTo, TypeInv, WorkerInv, LocalsType, Syncing
    <3>2. CASE CreateRetried(w)
      <4>1. Exports(w, Syncing(w))
        BY <2>1, ExportsSyncing DEF Phase2
      <4>2. Syncing(w) \in Reposted
        BY <2>1, <3>2, <4>1 DEF Reposted, Reposts
      <4>3. SameWorker(w)
        BY <3>2 DEF CreateRetried, worker, SameWorker
      <4>4. QED
        BY <1>n, <4>2, <4>3
    <3>3. QED
      BY <1>1, <3>1, <3>2
  <2>o. OthersSame(w)
    <3>1. CASE CreateNitc(w)
      BY <3>1, OneWorkerSteps DEF WorkerNext, SyncEvent
    <3>2. CASE CreateRetried(w)
      BY <3>2 DEF CreateRetried, worker, OthersSame, SameWorker
    <3>3. QED
      BY <1>1, <3>1, <3>2
  <2>4. NitcNamed'
    <3> SUFFICES ASSUME NEW i \in DOMAIN ses', ses'[i].ev \notin contested' \cup reposted'
                 PROVE  Named(i)'
      BY DEF NitcNamed
    <3>1. CASE i = n
      BY <2>2, <2>3, <3>1 DEF Named
    <3>2. CASE i \in DOMAIN ses
      <4>1. \A v \in Workers : pc[v] = "set ses id" => v # w
        BY <2>1
      <4>2. QED
        BY <1>m, <2>1, <2>2, <2>o, <3>2, <4>1 DEF OthersSame
    <3>3. QED
      BY <2>2, <3>1, <3>2
  <2>5. Syncing(w) \notin contested => evt[Syncing(w)].sid = 0
    BY <1>k, <2>1 DEF SidKnown, BeforePost
  <2>6. ASSUME NEW v \in Workers PROVE SidKnown(v)'
    <3>1. CASE SameWorker(v)
      BY <1>s, <2>1, <3>1
    <3>2. CASE v = w /\ ~SameWorker(w)
      BY <1>n, <2>1, <2>3, <2>5, <3>2 DEF SidKnown, BeforePost
    <3>3. QED
      BY <2>o, <3>1, <3>2 DEF OthersSame
  <2>7. QED
    BY <2>4, <2>6 DEF NitcKnown
\* The id is stored.
<1>2. ASSUME NEW w \in Workers, SetSesId(w)
      PROVE  NitcKnown'
  <2>1. /\ pc[w] = "set ses id" /\ pc'[w] = "put"
        /\ ses' = ses /\ Syncing(w) \in Events /\ sid[w] # 0
    BY <1>2, HandFacts DEF SetSesId, At, GoTo, TypeInv, WorkerInv, LocalsType, Phase2,
                           NitcInv, NitcInHand
  <2>2. /\ evt'[Syncing(w)].sid = sid[w]
        /\ \A e \in Events \ {Syncing(w)} : evt'[e] = evt[e]
    BY <1>2, <2>1 DEF SetSesId, TypeInv, StoreInv, Event
  <2>o. OthersSame(w)
    BY <1>2, OneWorkerSteps DEF WorkerNext, SyncEvent
  <2>3. NitcNamed'
    <3> SUFFICES ASSUME NEW i \in DOMAIN ses, ses[i].ev \notin contested' \cup reposted'
                 PROVE  Named(i)'
      BY <2>1 DEF NitcNamed
    <3>1. evt[ses[i].ev].sid = i => evt'[ses[i].ev].sid = i
      <4>1. Syncing(w) \notin contested => evt[Syncing(w)].sid = 0
        BY <1>k, <2>1 DEF SidKnown
      <4>2. evt[ses[i].ev].sid = i => ses[i].ev # Syncing(w)
        BY <1>n, <1>z, <4>1
      <4>3. QED
        BY <1>z, <2>2, <4>2
    <3>2. QED
      BY <1>m, <2>1, <2>2, <2>o, <3>1 DEF OthersSame
  <2>4. ASSUME NEW v \in Workers PROVE SidKnown(v)'
    <3>1. CASE v = w
      BY <2>1, <3>1 DEF SidKnown, BeforePost
    <3>2. CASE v # w
      BY <1>s, <2>1, <2>2, <2>o, <3>2 DEF OthersSame
    <3>3. QED
      BY <3>1, <3>2
  <2>5. QED
    BY <2>3, <2>4 DEF NitcKnown
\* Every other step.
<1>3. ASSUME \A e \in Events : evt'[e].sid = evt[e].sid, SameNitcEvents,
             \A w \in Workers : ~CreateNitc(w) /\ ~SetSesId(w)
      PROVE  NitcKnown'
  <2>1. ASSUME NEW v \in Workers
        PROVE  /\ SidKnown(v)'
               /\ pc[v] = "set ses id" => SameWorker(v) \/ Syncing(v) \in reposted'
    <3>0. SidKnown(v) /\ (pc[v] \in Phase2 => Syncing(v) \in Events)
      BY <1>k, HandFacts
    <3>1. CASE SameWorker(v)
      BY <1>3, <1>s, <3>1
    <3>2. CASE WorkerNext(v) \/ Crash(v)
      <4>1. pc[v] = "set ses id" => Syncing(v) \in reposted'
        <5>1. ASSUME Crash(v), pc[v] = "set ses id" PROVE Syncing(v) \in reposted'
          <6>1. Exports(v, Syncing(v)) /\ Syncing(v) \in Events
            BY <3>0, <5>1, ExportsSyncing DEF Phase2
          <6>2. QED
            BY <1>n, <5>1, <6>1 DEF Reposted, Reposts, At
        <5>2. SyncEvent(v) => pc[v] # "set ses id"
          BY <1>3 DEF SyncEvent, ReadEvent, ListPeriods, GetPeriods, RejectMismatch, PutNitc,
                      UpdateExported, ClearDropped, MarkSynced, At
        <5>3. AssignPeriod(v) => pc[v] # "set ses id"
          BY DEF AssignPeriod, ReadPeriod, GetOrCreateEvent, BumpOld, BumpDetached, BumpLeft,
                 SetPeriodEvent, BumpDesired, EnqueueOld, EnqueueDesired, EnqueueDetached,
                 EnqueueEvent, SetExported, ClearDetached, At
        <5>4. QED
          BY <3>2, <5>1, <5>2, <5>3 DEF WorkerNext, Receive, At
      <4>2. CASE pc'[v] \in BeforePost \cup {"set ses id"}
        <5>1. /\ pc'[v] \in BeforePost /\ hand'[v] = hand[v] /\ evt' = evt
              /\ \/ pc[v] = "read event" /\ sid'[v] = evt[Syncing(v)].sid /\ pc'[v] = "list"
                 \/ pc[v] \in BeforePost /\ sid'[v] = sid[v] /\ (pc'[v] = "create" => sid[v] = 0)
          BY <1>3, <3>2, <4>2, PostKeeps
        <5>2. Syncing(v)' = Syncing(v)
          BY <5>1 DEF Syncing
        <5>3. QED
          BY <1>n, <3>0, <4>1, <5>1, <5>2 DEF SidKnown, BeforePost
      <4>3. CASE pc'[v] \notin BeforePost \cup {"set ses id"}
        BY <4>1, <4>3 DEF SidKnown, BeforePost
      <4>4. QED
        BY <4>2, <4>3
    <3>3. QED
      BY <1>n, <3>1, <3>2, ActorSteps DEF OthersSame
  <2>2. NitcNamed'
    <3> SUFFICES ASSUME NEW i \in DOMAIN ses, ses'[i].ev \notin contested' \cup reposted'
                 PROVE  Named(i)'
      BY <1>3 DEF NitcNamed, SameNitcEvents
    <3>1. ses'[i].ev = ses[i].ev /\ evt'[ses[i].ev].sid = evt[ses[i].ev].sid
      BY <1>3, <1>z DEF SameNitcEvents
    <3>2. QED
      BY <1>m, <2>1, <3>1
  <2>3. QED
    BY <2>1, <2>2 DEF NitcKnown
<1>4. ASSUME \A w \in Workers : ~CreateNitc(w) /\ ~SetSesId(w) /\ ~CreateRetried(w)
      PROVE  SameNitcEvents
  BY <1>n, <1>4, NitcsKept, PutEffect DEF SameNitcEvents
<1>5. QED
  BY <1>n, <1>1, <1>2, <1>3, <1>4, SidsKept

\* SES has at most one NITC per event, unless two invocations have exported the event at once or a
\* POST has lost its answer.  Neither can be dropped: two invocations that both read an event with
\* no NITC both create one, and one created just before a crash is never found again.
THEOREM OneNitc == HSpec => []OneNitcPerEvent
<1> DEFINE I == IInv /\ HistoryInv /\ NitcKnown
<1>1. HInit => I
  <2> SUFFICES ASSUME HInit PROVE I
    OBVIOUS
  <2>1. NitcKnown
    BY DEF HInit, Init, NitcKnown, NitcNamed, SidKnown, BeforePost
  <2>2. QED
    BY <2>1, InitIInv, InitHistory DEF HInit
<1>2. I /\ [HNext]_hvars => I'
  <2> SUFFICES ASSUME I, [HNext]_hvars PROVE I'
    OBVIOUS
  <2>n. IInv' /\ HistoryInv'
    BY HistoryGrows, NextIInv DEF IInv
  <2>1. CASE UNCHANGED hvars
    <3>1. UNCHANGED <<evt, ses, pc, hand, sid, contested, reposted>>
      BY <2>1 DEF hvars, history, vars, worker
    <3>2. NitcKnown'
      BY <3>1 DEF NitcKnown, NitcNamed, Named, SidKnown, Syncing
    <3>3. QED
      BY <2>n, <3>2
  <2>2. CASE HNext
    BY <2>n, <2>2, NextNitcKnown
  <2>3. QED
    BY <2>1, <2>2
<1>3. I => OneNitcPerEvent
  <2> SUFFICES ASSUME I, NEW i \in DOMAIN ses, NEW j \in DOMAIN ses, ses[i].ev = ses[j].ev,
                      ses[i].ev \notin contested \cup reposted
               PROVE  i = j
    BY DEF OneNitcPerEvent
  <2>z. i # 0 /\ j # 0
    BY LenProperties DEF IInv, TypeInv, StoreInv
  <2>1. (\A w \in Workers : SidKnown(w)) /\ Named(i) /\ Named(j)
    BY DEF NitcKnown, NitcNamed
  <2>2. ASSUME NEW v \in Workers, NEW w \in Workers, pc[v] = "set ses id", pc[w] = "set ses id",
               Syncing(v) = ses[i].ev, Syncing(w) = ses[i].ev
        PROVE  v = w
    BY <2>2, TwoContest DEF IInv, Phase2
  <2>3. QED
    BY <2>z, <2>1, <2>2 DEF Named, SidKnown
<1> HIDE DEF I
<1>4. QED
  BY <1>1, <1>2, <1>3, PTL DEF HSpec

-----------------------------------------------------------------------------
(* The green dot.  A period is shown as exported when its exported version and   *)
(* its event's synced version are both current; every step that makes one of     *)
(* them current must leave the other behind, or the NITC right.                  *)

\* A copy of a row is either of an older version, or shows what the row still says.
Same(r, q) == r.ver = q.ver => r.grp = q.grp /\ r.ended = q.ended /\ r.del = q.del

\* The event waits to be exported: no period on it has a green dot.
Orange(e) == evt[e].synced < evt[e].ver

\* A period that turns green the moment its event does.
Marked(p, e) == per[p].ev = e /\ Wanted(per[p]) /\ per[p].exp = per[p].ver

\* No event has version 0, so an event that was never synced is orange when it is exported.
NumberedFor(w) ==
    /\ pc[w] \in Phase2 => hand[w].body.version # 0
    /\ pc[w] \in {"enqueue old event", "enqueue detached"} => oldv[w] # 0
    /\ pc[w] \in {"enqueue old event", "enqueue event"} => newv[w] # 0
QueueNumbered == \A m \in DOMAIN queue : m.body.kind = "event_export" => m.body.version # 0
Numbered == QueueNumbered /\ \A w \in Workers : NumberedFor(w)

\* What Phase 1 read is what the row says; and if no other invocation has the period, it is off
\* its old event, not yet recorded as exported, until the event it has moved to is orange.
GotSame(w) == pc[w] \in Phase1 \ {"read period"} => Same(got[w], per[Target(w)])
OnItsWay(w) ==
    /\ pc[w] \in HasDesired => per[Target(w)].exp < per[Target(w)].ver
    /\ pc[w] = "get event" => per[Target(w)].ev = got[w].ev
    /\ pc[w] \in {"bump event", "enqueue old event", "enqueue event"} => per[Target(w)].ev = Desired(w)
    /\ pc[w] \in {"enqueue old event", "enqueue event"} => Orange(Desired(w))
    /\ pc[w] = "set exported" =>
          \/ ~got[w].ended
          \/ per[Target(w)].ev = Desired(w) /\ Desired(w) \in Events /\ Orange(Desired(w))
GotFresh(w) ==
    /\ GotSame(w)
    /\ pc[w] \in Phase1 /\ Target(w) \notin shared => OnItsWay(w)

\* Every period that turns green when Phase 2 marks the event is among those it lists, reads
\* and sends, as it is now.
Covers(w, p) ==
    /\ pc[w] = "get periods" => p \in ids[w]
    /\ pc[w] \in {"create", "set ses id", "put"} =>
          \E x \in rows[w] : x.period = p /\ x.rec.ver = per[p].ver
    /\ pc[w] = "write back" => EntryOf(p, per[p]) \in ses[sid[w]].roster
HasRows == {"create", "set ses id", "put", "write back"}
RowsSame(w) == pc[w] \in HasRows => \A x \in rows[w] : Same(x.rec, per[x.period])
\* If no other invocation exports the event, that is so of every period no other one has.
Sends(w) ==
    /\ pc[w] # "read event" => Orange(Syncing(w))
    /\ pc[w] \in {"list", "get periods", "create", "put", "write back"} =>
          sid[w] = evt[Syncing(w)].sid
    /\ \A p \in Periods \ shared : Marked(p, Syncing(w)) => Covers(w, p)
    /\ pc[w] = "write back" => Roster(rows[w]) \subseteq ses[sid[w]].roster
RowsFresh(w) == pc[w] \in Phase2 => RowsSame(w) /\ (Syncing(w) \notin contested => Sends(w))

Fresh == \A w \in Workers : GotFresh(w) /\ RowsFresh(w)

\* GreenUnlessShared, of one period.
GreenOf(p) ==
    p \notin shared /\ Wanted(per[p]) /\ ShownSynced(per[p]) /\ per[p].ev \notin contested =>
        /\ evt[per[p].ev].sid \in DOMAIN ses
        /\ EntryOf(p, per[p]) \in ses[evt[per[p].ev].sid].roster
Unshown(p) ==
    \/ p \in shared \/ per[p].ev \in contested
    \/ per[p].ev = None \/ Orange(per[p].ev) \/ per[p].exp # per[p].ver \/ ~Wanted(per[p])

\* The record of meetings only grows.
Grows == shared \subseteq shared' /\ contested \subseteq contested'

LEMMA UnshownIsGreen ==
    ASSUME TypeInv', NEW p \in Periods, Unshown(p)'
    PROVE  GreenOf(p)'
<1>1. /\ per'[p].ev \in Events \cup {None}
      /\ \A e \in Events : evt'[e].synced \in Nat /\ evt'[e].ver \in Nat
  BY DEF TypeInv, StoreInv, Period, Event
<1>2. per'[p].ev # None /\ Orange(per[p].ev)' => evt'[per'[p].ev].synced # evt'[per'[p].ev].ver
  BY <1>1 DEF Orange
<1>3. QED
  BY <1>2 DEF Unshown, GreenOf, ShownSynced

\* A NITC and its participants stay.
NitcStays(i) == i \in DOMAIN ses => i \in DOMAIN ses' /\ ses'[i].roster = ses[i].roster
NitcsStay == \A i \in DOMAIN ses : NitcStays(i)

LEMMA GreenAlone ==
    ASSUME GreenUnlessShared, Grows, NEW p \in Periods, per'[p] = per[p],
           per[p].ev # None => evt'[per[p].ev] = evt[per[p].ev] /\ NitcStays(evt[per[p].ev].sid)
    PROVE  GreenOf(p)'
<1> SUFFICES ASSUME (p \notin shared /\ Wanted(per[p]) /\ ShownSynced(per[p]) /\ per[p].ev \notin contested)'
             PROVE  (/\ evt[per[p].ev].sid \in DOMAIN ses
                     /\ EntryOf(p, per[p]) \in ses[evt[per[p].ev].sid].roster)'
  BY DEF GreenOf
<1>1. /\ per[p].ev # None /\ Wanted(per[p]) /\ ShownSynced(per[p])
      /\ p \notin shared /\ per[p].ev \notin contested
  BY DEF Wanted, Live, Eligible, ShownSynced, Grows
<1>2. evt[per[p].ev].sid \in DOMAIN ses /\ EntryOf(p, per[p]) \in ses[evt[per[p].ev].sid].roster
  BY <1>1 DEF GreenUnlessShared
<1>3. EntryOf(p, per[p])' = EntryOf(p, per[p])
  BY DEF EntryOf
<1>4. QED
  BY <1>1, <1>2, <1>3 DEF NitcStays

LEMMA GreenStays ==
    ASSUME GreenUnlessShared, Grows, NEW p \in Periods, per'[p] = per[p],
           per[p].ev # None => evt'[per[p].ev] = evt[per[p].ev], NitcsStay
    PROVE  GreenOf(p)'
<1>1. \A i : NitcStays(i)
  BY DEF NitcsStay, NitcStays
<1>2. QED
  BY <1>1, GreenAlone

LEMMA GreenAll ==
    ASSUME \A p \in Periods : GreenOf(p)'
    PROVE  GreenUnlessShared'
  BY DEF GreenOf, GreenUnlessShared

\* What the export writes of a period is the export's columns alone.
Stamped(r, q) ==
    /\ q.ver = r.ver /\ q.grp = r.grp /\ q.slot = r.slot
    /\ (q.ended <=> r.ended) /\ (q.del <=> r.del)

LEMMA ExportColumns ==
    ASSUME NEW r \in Period, NEW e, NEW n, NEW v
    PROVE  /\ Stamped(r, Reassigned(r, e)) /\ Reassigned(r, e).ev = e /\ Reassigned(r, e).exp = r.exp
           /\ Stamped(r, ExportedAt(r, v)) /\ ExportedAt(r, v).ev = r.ev /\ ExportedAt(r, v).exp = v
           /\ Stamped(r, Cleared(r, v)) /\ Cleared(r, v).ev = None /\ Cleared(r, v).exp = v
           /\ Stamped(r, Exported(r, e, n, v)) /\ Exported(r, e, n, v).ev = e
           /\ Exported(r, e, n, v).exp = v
<1> USE DEF Stamped, Period
<1>1. Stamped(r, Reassigned(r, e)) /\ Reassigned(r, e).ev = e /\ Reassigned(r, e).exp = r.exp
  BY DEF Reassigned
<1>2. Stamped(r, ExportedAt(r, v)) /\ ExportedAt(r, v).ev = r.ev /\ ExportedAt(r, v).exp = v
  BY DEF ExportedAt
<1>3. Stamped(r, Cleared(r, v)) /\ Cleared(r, v).ev = None /\ Cleared(r, v).exp = v
  BY DEF Cleared
<1>4. Stamped(r, Exported(r, e, n, v)) /\ Exported(r, e, n, v).ev = e /\ Exported(r, e, n, v).exp = v
  BY DEF Exported
<1>5. QED
  BY <1>1, <1>2, <1>3, <1>4

LEMMA StampedFacts ==
    ASSUME NEW r, NEW q, Stamped(r, q), r.ended \in BOOLEAN, r.del \in BOOLEAN,
           q.ended \in BOOLEAN, q.del \in BOOLEAN
    PROVE  /\ Wanted(q) <=> Wanted(r)
           /\ \A c : Same(c, r) => Same(c, q)
           /\ \A p : EntryOf(p, q) = EntryOf(p, r)
<1>1. q.ver = r.ver /\ q.grp = r.grp /\ q.slot = r.slot /\ q.ended = r.ended /\ q.del = r.del
  BY DEF Stamped
<1>2. Wanted(q) <=> Wanted(r)
  BY <1>1 DEF Wanted, Live, Eligible
<1>3. \A c : Same(c, r) => Same(c, q)
  BY <1>1 DEF Same
<1>4. \A p : EntryOf(p, q) = EntryOf(p, r)
  BY <1>1 DEF EntryOf
<1>5. QED
  BY <1>2, <1>3, <1>4

\* An event that is bumped is orange, and one that is orange stays so until Phase 2 marks it.
LEMMA BumpIsOrange ==
    ASSUME TypeInv, VersionInv, NEW e \in Events, evt'[e] = Bumped(evt[e])
    PROVE  Orange(e)'
<1>1. /\ evt[e] \in Event /\ evt[e].ver \in Nat /\ evt[e].synced \in Nat /\ evt[e].synced <= evt[e].ver
  BY VersionTypes DEF VersionInv, SyncedVersions
<1>2. evt'[e].ver = evt[e].ver + 1 /\ evt'[e].synced = evt[e].synced
  BY <1>1, BumpedFields
<1>3. QED
  BY <1>1, <1>2 DEF Orange

LEMMA EditorOrange ==
    ASSUME TypeInv, VersionInv, NEW e \in Events, evt'[e] = evt[e] \/ evt'[e] = Bumped(evt[e])
    PROVE  Orange(e) => Orange(e)'
  BY BumpIsOrange DEF Orange

LEMMA BumpGreen ==
    ASSUME TypeInv, TypeInv', VersionInv, GreenUnlessShared, Grows, NEW e \in Events,
           evt' = [evt EXCEPT ![e] = Bumped(@)], per' = per, NitcsStay
    PROVE  /\ GreenUnlessShared' /\ Orange(e)'
           /\ \A f \in Events : Orange(f) => Orange(f)'
<1>1. evt'[e] = Bumped(evt[e]) /\ \A f \in Events \ {e} : evt'[f] = evt[f]
  BY DEF TypeInv, StoreInv
<1>2. Orange(e)'
  BY <1>1, BumpIsOrange
<1>3. \A f \in Events : Orange(f) => Orange(f)'
  BY <1>1, EditorOrange
<1>4. ASSUME NEW p \in Periods PROVE GreenOf(p)'
  <2>1. per[p].ev \in Events \cup {None}
    BY DEF TypeInv, StoreInv, Period
  <2>2. CASE per[p].ev = e
    <3>1. Unshown(p)'
      BY <1>2, <2>2 DEF Unshown
    <3>2. QED
      BY <3>1, UnshownIsGreen
  <2>3. CASE per[p].ev # e
    BY <1>1, <2>1, <2>3, GreenStays
  <2>4. QED
    BY <2>2, <2>3
<1>5. GreenUnlessShared'
  BY <1>4, GreenAll
<1>6. QED
  BY <1>2, <1>3, <1>5

\* Every message for an event carries a version somebody wrote.
LEMMA SendNumbered ==
    ASSUME QueueNumbered, NEW b, NEW n, queue' = Put(queue, b, n),
           b.kind = "event_export" => b.version # 0
    PROVE  QueueNumbered'
<1>a. DOMAIN Put(queue, b, n) = DOMAIN queue \cup {[body |-> b, receives |-> n]}
  BY PutDomain
<1>1. DOMAIN queue' = DOMAIN queue \cup {[body |-> b, receives |-> n]}
  BY <1>a
<1>2. [body |-> b, receives |-> n].body = b
  OBVIOUS
<1>3. QED
  BY <1>1, <1>2 DEF QueueNumbered

LEMMA ReturnNumbered ==
    ASSUME TypeInv, Numbered, NEW w \in Workers, pc[w] # "idle", Return(w)
    PROVE  QueueNumbered'
<1>1. hand[w].body.kind = "event_export" => hand[w].body.version # 0
  <2>1. pc[w] \in Phase1 => hand[w].body.kind = "period_export"
    BY DEF TypeInv, WorkerInv, WorkerControl, PeriodExport
  <2>2. pc[w] \in Phase2 => hand[w].body.version # 0
    BY DEF Numbered, NumberedFor
  <2>3. pc[w] \in Phase1 \cup Phase2
    BY DEF TypeInv, WorkerInv, LocalsType
  <2>4. QED
    BY <2>1, <2>2, <2>3
<1>2. CASE hand[w].receives < MaxReceive
  <2>1. queue' = Put(queue, hand[w].body, hand[w].receives)
    BY <1>2 DEF Return
  <2>2. QED
    BY <1>1, <2>1, SendNumbered DEF Numbered
<1>3. CASE ~(hand[w].receives < MaxReceive)
  BY <1>3 DEF Return, Numbered, QueueNumbered
<1>4. QED
  BY <1>2, <1>3

LEMMA WorkerNumbered ==
    ASSUME TypeInv, Numbered, NEW w \in Workers, WorkerNext(w) \/ Crash(w)
    PROVE  QueueNumbered' /\ NumberedFor(w)'
<1> USE HandFacts DEF At, GoTo
<1>h. NumberedFor(w) /\ QueueNumbered
  BY DEF Numbered
<1>t. /\ pc \in [Workers -> {"idle"} \cup Phase1 \cup Phase2]
      /\ oldv \in [Workers -> Nat] /\ newv \in [Workers -> Nat]
  BY DEF TypeInv, WorkerInv, LocalsType
<1>v. \A e \in Events : evt[e].ver + 1 # 0
  <2>1. \A e \in Events : evt[e].ver \in Nat
    BY VersionTypes
  <2>2. \A n \in Nat : n + 1 # 0
    OBVIOUS
  <2>3. QED
    BY <2>1, <2>2
<1>q. queue' = queue => QueueNumbered'
  BY <1>h DEF QueueNumbered
<1>g. Reset(w) => NumberedFor(w)'
  BY ResetEffect DEF Gone, NumberedFor, Phase2
<1>1. ASSUME NEW m \in BagToSet(queue), Receive(w, m)
      PROVE  QueueNumbered' /\ NumberedFor(w)'
  <2>1. m \in DOMAIN queue /\ m.body \in Body
    BY VersionTypes DEF BagToSet
  <2>2. /\ hand'[w].body = m.body
        /\ pc'[w] = IF m.body.kind = "period_export" THEN "read period" ELSE "read event"
    BY <1>1, <1>t DEF Receive, TypeInv, WorkerInv, LocalsType
  <2>3. pc'[w] = "read event" => m.body.version # 0
    BY <1>h, <2>1, <2>2 DEF Body, PeriodExport, EventExport, QueueNumbered
  <2>4. NumberedFor(w)'
    BY <2>2, <2>3 DEF NumberedFor, Phase2
  <2>5. QueueNumbered'
    BY <1>1, <1>h, ReceiveDomain DEF Receive, QueueNumbered
  <2>6. QED
    BY <2>4, <2>5
<1>2. CASE ReadPeriod(w)
  <2>1. CASE ~Reset(w)
    <3>1. /\ Target(w) \in Periods /\ pc'[w] = Verdict(per[Target(w)])
          /\ Verdict(per[Target(w)]) \notin {"skip", "synced"} /\ queue' = queue
      BY <1>2, <1>t, <2>1 DEF ReadPeriod, Phase1
    <3>2. pc'[w] \in {"bump detached", "set exported", "get event"}
      BY <3>1, VerdictFacts, VersionTypes
    <3>3. QED
      BY <1>q, <3>1, <3>2 DEF NumberedFor, Phase2
  <2>2. QED
    BY <1>2, <1>g, <1>q, <2>1 DEF ReadPeriod
<1>3. CASE GetOrCreateEvent(w) \/ BumpOld(w) \/ SetPeriodEvent(w)
  <2>1. pc'[w] \in {"set event", "bump event", "bump old event"} /\ queue' = queue
    BY <1>3, <1>t DEF GetOrCreateEvent, BumpOld, BumpLeft, SetPeriodEvent
  <2>2. QED
    BY <1>q, <2>1 DEF NumberedFor, Phase2
<1>4. CASE BumpDetached(w)
  <2>1. pc'[w] = "enqueue detached" /\ queue' = queue /\ oldv'[w] = evt[got[w].ev].ver + 1
    BY <1>4, <1>t DEF BumpDetached, BumpLeft
  <2>2. got[w].ev \in Events
    BY <1>4 DEF BumpDetached, BumpLeft, HasLeft
  <2>3. oldv'[w] # 0
    BY <1>v, <2>1, <2>2
  <2>4. QED
    BY <1>q, <2>1, <2>3 DEF NumberedFor, Phase2
<1>5. CASE BumpDesired(w)
  <2>1. /\ pc'[w] = IF oldv[w] = 0 THEN "enqueue event" ELSE "enqueue old event"
        /\ queue' = queue /\ newv'[w] = evt[Desired(w)].ver + 1 /\ oldv' = oldv
    BY <1>5, <1>t DEF BumpDesired
  <2>2. Desired(w) \in Events
    BY <1>5 DEF BumpDesired, HasDesired
  <2>3. newv'[w] # 0
    BY <1>v, <2>1, <2>2
  <2>4. QED
    BY <1>q, <2>1, <2>3 DEF NumberedFor, Phase2
<1>6. ASSUME NEW here, NEW e, NEW v, NEW there, EnqueueEvent(w, here, e, v, there), v # 0
      PROVE  QueueNumbered'
  <2>1. queue' = Put(queue, EventMsg(e, v), 0)
    BY <1>6 DEF EnqueueEvent, Send
  <2>2. EventMsg(e, v).version = v
    BY DEF EventMsg
  <2>3. QED
    BY <1>6, <1>h, <2>1, <2>2, SendNumbered
<1>7. CASE EnqueueOld(w) \/ EnqueueDetached(w)
  <2>1. oldv[w] # 0
    BY <1>7, <1>h DEF EnqueueOld, EnqueueDetached, EnqueueEvent, NumberedFor
  <2>2. QueueNumbered'
    BY <1>6, <1>7, <2>1 DEF EnqueueOld, EnqueueDetached
  <2>3. NumberedFor(w)'
    BY <1>7, <1>h, <1>t DEF EnqueueOld, EnqueueDetached, EnqueueEvent, NumberedFor, Phase2
  <2>4. QED
    BY <2>2, <2>3
<1>8. CASE EnqueueDesired(w)
  <2>1. newv[w] # 0
    BY <1>8, <1>h DEF EnqueueDesired, EnqueueEvent, NumberedFor
  <2>2. QueueNumbered'
    BY <1>6, <1>8, <2>1 DEF EnqueueDesired
  <2>3. NumberedFor(w)'
    BY <1>8, <1>t DEF EnqueueDesired, EnqueueEvent, NumberedFor, Phase2
  <2>4. QED
    BY <2>2, <2>3
<1>9. CASE SetExported(w) \/ ClearDetached(w) \/ MarkSynced(w)
  BY <1>9, <1>g, <1>q DEF SetExported, ClearDetached, MarkSynced
<1>10. CASE ReadEvent(w)
  <2>1. CASE ~Reset(w)
    BY <1>10, <1>h, <1>q, <1>t, <2>1 DEF ReadEvent, NumberedFor, Phase2
  <2>2. QED
    BY <1>10, <1>g, <1>q, <2>1 DEF ReadEvent
<1>11. CASE ListPeriods(w) \/ GetPeriods(w) \/ CreateNitc(w) \/ SetSesId(w) \/ PutNitc(w)
  BY <1>11, <1>h, <1>q, <1>t DEF ListPeriods, GetPeriods, CreateNitc, SetSesId, PutNitc, NumberedFor, Phase2
<1>12. CASE \E x \in rows[w] : UpdateExported(w, x) \/ ClearDropped(w, x)
  BY <1>12, <1>h, <1>q, <1>t DEF UpdateExported, ClearDropped, WriteBack, NumberedFor, Phase2
<1>13. CASE RejectMismatch(w) \/ Crash(w)
  BY <1>13, <1>g, ReturnNumbered DEF RejectMismatch, Crash, Return
<1>14. QED
  BY <1>1, <1>2, <1>3, <1>4, <1>5, <1>7, <1>8, <1>9, <1>10, <1>11, <1>12, <1>13
     DEF WorkerNext, AssignPeriod, SyncEvent

LEMMA NextNumbered ==
    ASSUME TypeInv, Numbered, [Next]_vars
    PROVE  Numbered'
<1>s. ASSUME NEW v \in Workers, SameWorker(v) PROVE NumberedFor(v)'
  BY <1>s DEF SameWorker, Numbered, NumberedFor
<1>1. ASSUME NEW w \in Workers, WorkerNext(w) \/ Crash(w) PROVE Numbered'
  BY <1>1, <1>s, OneWorkerSteps, WorkerNumbered DEF OthersSame, Numbered
<1>2. ASSUME UNCHANGED worker, QueueNumbered' PROVE Numbered'
  BY <1>2, <1>s DEF worker, SameWorker, Numbered
<1>3. ASSUME Edit \/ (\E x \in Editors : EditorNext(x) \/ EditorFails(x)) \/ (\E p \in Periods : Backfill(p))
      PROVE  Numbered'
  <2>1. UNCHANGED worker /\ \A m \in DOMAIN queue' : m \in DOMAIN queue \/ m.body.kind = "period_export"
    BY <1>3, EditorEffects DEF EditorEffect
  <2>2. QueueNumbered'
    BY <2>1 DEF Numbered, QueueNumbered
  <2>3. QED
    BY <1>2, <2>1, <2>2
<1>4. ASSUME NEW m \in BagToSet(queue), Duplicate(m) PROVE Numbered'
  <2>1. DOMAIN queue' = DOMAIN queue
    BY <1>4, ReceiveDomain DEF Duplicate, BagToSet
  <2>2. QED
    BY <1>2, <1>4, <2>1 DEF Duplicate, Numbered, QueueNumbered
<1>5. CASE UNCHANGED vars \/ (\E w \in Workers : CreateRetried(w))
  BY <1>2, <1>5 DEF vars, CreateRetried, Numbered, QueueNumbered
<1>6. QED
  BY <1>1, <1>3, <1>4, <1>5 DEF Next, Fault

\* An edit leaves its period behind what was recorded and what was read of it.
LEMMA EditedIsBehind ==
    ASSUME TypeInv, TypeInv', VersionInv, NEW p \in Periods, Edited(per[p], per'[p])
    PROVE  /\ per'[p].exp < per'[p].ver
           /\ \A c \in Period : c.ver <= per[p].ver => Same(c, per'[p])
<1>1. /\ per[p].ver \in Nat /\ per[p].exp \in Nat /\ per[p].exp <= per[p].ver
      /\ per'[p].ver = per[p].ver + 1 /\ per'[p].exp = per[p].exp
  BY VersionTypes DEF VersionInv, ExportedVersions, Edited
<1>2. per'[p].exp < per'[p].ver
  BY <1>1
<1>3. \A n \in Nat : n <= per[p].ver => n # per'[p].ver
  BY <1>1
<1>4. \A c \in Period : c.ver \in Nat
  BY DEF Period
<1>5. QED
  BY <1>2, <1>3, <1>4 DEF Same

\* Steps of mutation handlers and of the backfill.
LEMMA EditorGreen ==
    ASSUME TypeInv, TypeInv', VersionInv, Fresh, GreenUnlessShared, Grows, EditorEffect
    PROVE  Fresh' /\ GreenUnlessShared'
<1>p. \A p \in Periods : per'[p] = per[p] \/ Edited(per[p], per'[p])
  BY DEF EditorEffect
<1>e. ASSUME NEW p \in Periods, Edited(per[p], per'[p])
      PROVE  /\ per'[p].exp < per'[p].ver /\ per'[p].ev = per[p].ev
             /\ per'[p].exp # per'[p].ver
             /\ \A c \in Period : c.ver <= per[p].ver => Same(c, per'[p])
  <2>1. per'[p].exp \in Nat /\ per'[p].ver \in Nat
    BY DEF TypeInv, StoreInv, Period
  <2>2. per'[p].exp < per'[p].ver /\ \A c \in Period : c.ver <= per[p].ver => Same(c, per'[p])
    BY <1>e, EditedIsBehind
  <2>3. per'[p].exp # per'[p].ver
    BY <2>1, <2>2
  <2>4. QED
    BY <1>e, <2>2, <2>3 DEF Edited
<1>o. /\ \A e \in Events : evt'[e] = evt[e] \/ evt'[e] = Bumped(evt[e])
      /\ \A e \in Events : Orange(e) => Orange(e)'
  BY EditorOrange DEF EditorEffect
<1>s. \A e \in Events : evt'[e].sid = evt[e].sid
  BY <1>o, VersionTypes, BumpedFields
<1>w. UNCHANGED <<pc, hand, got, oldv, newv, sid, ids, rows, ses>>
  BY DEF EditorEffect, worker
<1>1. ASSUME NEW w \in Workers PROVE GotFresh(w)'
  <2>1. /\ Target(w)' = Target(w) /\ Desired(w)' = Desired(w)
        /\ pc[w] \in Phase1 => Target(w) \in Periods
        /\ pc[w] \in HasDesired => Desired(w) \in Events
        /\ got[w] \in Period
    BY <1>w, HandFacts DEF Target, Desired, EventOf
  <2>2. GotSame(w) /\ (pc[w] \in Phase1 /\ Target(w) \notin shared => OnItsWay(w))
    BY DEF Fresh, GotFresh
  <2>3. GotSame(w)'
    <3> SUFFICES ASSUME pc[w] \in Phase1 \ {"read period"} PROVE Same(got[w], per'[Target(w)])
      BY <1>w, <2>1 DEF GotSame
    <3>1. got[w].ver <= per[Target(w)].ver
      BY DEF VersionInv, VersionsHeld, VersionsHeldBy
    <3>2. QED
      BY <1>p, <1>e, <2>1, <2>2, <3>1 DEF GotSame
  <2>4. ASSUME pc[w] \in Phase1, OnItsWay(w) PROVE OnItsWay(w)'
    <3>1. pc[w] \in HasDesired => per'[Target(w)].exp < per'[Target(w)].ver
      BY <1>p, <1>e, <2>1, <2>4 DEF OnItsWay
    <3>2. per'[Target(w)].ev = per[Target(w)].ev
      BY <1>p, <1>e, <2>1, <2>4
    <3>3. QED
      BY <1>o, <1>w, <2>1, <2>4, <3>1, <3>2 DEF OnItsWay, HasDesired
  <2>5. QED
    BY <1>w, <2>1, <2>2, <2>3, <2>4 DEF GotFresh, Grows
<1>2. ASSUME NEW w \in Workers, pc[w] \in Phase2 PROVE RowsFresh(w)'
  <2>1. /\ Syncing(w)' = Syncing(w) /\ Syncing(w) \in Events
        /\ rows[w] \in SUBSET Row
    BY <1>w, <1>2, HandFacts DEF Syncing
  <2>2. RowsSame(w) /\ (Syncing(w) \notin contested => Sends(w))
    BY <1>2 DEF Fresh, RowsFresh
  <2>3. RowsSame(w)'
    <3> SUFFICES ASSUME pc[w] \in HasRows, NEW x \in rows[w] PROVE Same(x.rec, per'[x.period])
      BY <1>w DEF RowsSame
    <3>1. x.period \in Periods /\ x.rec \in Period
      BY <2>1 DEF Row
    <3>2. x.rec.ver <= per[x.period].ver
      BY DEF VersionInv, VersionsHeld, VersionsHeldBy
    <3>3. QED
      BY <1>p, <1>e, <2>2, <3>1, <3>2 DEF RowsSame
  <2>4. ASSUME Sends(w) PROVE Sends(w)'
    <3>1. ASSUME NEW p \in Periods \ shared', Marked(p, Syncing(w))' PROVE Covers(w, p)'
      <4>1. per'[p] = per[p]
        BY <1>p, <1>e, <3>1 DEF Marked
      <4>2. Marked(p, Syncing(w)) /\ p \notin shared
        BY <2>1, <3>1, <4>1 DEF Marked, Wanted, Live, Eligible, Grows
      <4>3. Covers(w, p)
        BY <2>4, <4>2 DEF Sends
      <4>4. QED
        BY <1>w, <4>1, <4>3 DEF Covers, EntryOf
    <3>2. pc[w] # "read event" => Orange(Syncing(w))'
      BY <1>o, <2>1, <2>4 DEF Sends, Orange
    <3>3. evt'[Syncing(w)].sid = evt[Syncing(w)].sid
      BY <1>s, <2>1
    <3>4. QED
      BY <1>w, <2>1, <2>4, <3>1, <3>2, <3>3 DEF Sends
  <2>5. QED
    BY <2>1, <2>2, <2>3, <2>4 DEF RowsFresh, Grows
<1>3. ASSUME NEW w \in Workers, pc[w] \notin Phase2 PROVE RowsFresh(w)'
  BY <1>3, <1>w DEF RowsFresh
<1>4. ASSUME NEW p \in Periods PROVE GreenOf(p)'
  <2>t. per[p].ev \in Events \cup {None} /\ per'[p].ev \in Events \cup {None}
    BY DEF TypeInv, StoreInv, Period
  <2>1. CASE Edited(per[p], per'[p])
    <3>1. Unshown(p)'
      BY <1>e, <2>1 DEF Unshown
    <3>2. QED
      BY <3>1, UnshownIsGreen
  <2>2. CASE per'[p] = per[p] /\ per[p].ev # None /\ evt'[per[p].ev] = Bumped(evt[per[p].ev])
    <3>1. Orange(per[p].ev)'
      <4>1. \A e \in Events : evt'[e] = Bumped(evt[e]) => Orange(e)'
        BY BumpIsOrange
      <4>2. QED
        BY <2>t, <2>2, <4>1 DEF Orange
    <3>2. Unshown(p)'
      BY <3>1 DEF Unshown
    <3>3. QED
      BY <3>2, UnshownIsGreen
  <2>3. CASE per'[p] = per[p] /\ (per[p].ev # None => evt'[per[p].ev] = evt[per[p].ev])
    BY <1>w, <2>3, GreenStays DEF NitcsStay, NitcStays
  <2>4. QED
    BY <1>p, <1>o, <2>t, <2>1, <2>2, <2>3
<1>5. QED
  BY <1>1, <1>2, <1>3, <1>4, GreenAll DEF Fresh

\* What changes no table changes no dot, and a write of one period only that period's.
LEMMA OnePeriodGreen ==
    ASSUME TypeInv', GreenUnlessShared, Grows, UNCHANGED <<evt, ses>>
    PROVE  /\ per' = per => GreenUnlessShared'
           /\ \A p \in Periods :
                Unshown(p)' /\ (\A r \in Periods \ {p} : per'[r] = per[r]) => GreenUnlessShared'
<1>1. ASSUME NEW r \in Periods, per'[r] = per[r] PROVE GreenOf(r)'
  BY <1>1, GreenStays DEF NitcsStay, NitcStays
<1>2. ASSUME per' = per PROVE GreenUnlessShared'
  BY <1>1, <1>2, GreenAll
<1>3. ASSUME NEW p \in Periods, Unshown(p)', \A r \in Periods \ {p} : per'[r] = per[r]
      PROVE  GreenUnlessShared'
  <2>1. GreenOf(p)'
    BY <1>3, UnshownIsGreen
  <2>2. QED
    BY <1>1, <1>3, <2>1, GreenAll
<1>4. QED
  BY <1>2, <1>3

\* Where Phase 1 goes, and what it then knows of the period.
LEMMA VerdictMeans ==
    ASSUME NEW r \in Period
    PROVE  /\ Verdict(r) = "get event" => r.exp < r.ver
           /\ Verdict(r) = "set exported" => ~r.ended
<1>1. r.ended \in BOOLEAN
  BY DEF Period
<1>2. Verdict(r) = "get event" => ~(r.exp >= r.ver)
  BY <1>1 DEF Verdict, Eligible
<1>3. Verdict(r) = "set exported" => ~r.ended
  BY <1>1 DEF Verdict
<1>4. ~(r.exp >= r.ver) => r.exp < r.ver
  BY DEF Period
<1>5. QED
  BY <1>2, <1>3, <1>4

LEMMA CreatedFields ==
    ASSUME NEW r \in Event, NEW q, q = [r EXCEPT !.ver = IF @ = 0 THEN 1 ELSE @]
    PROVE  /\ q.synced = r.synced /\ q.sid = r.sid
           /\ r.ver = 0 => q.ver = 1
           /\ r.ver # 0 => q = r
  BY DEF Event

\* The steps of Phase 1.
LEMMA Phase1Green ==
    ASSUME TypeInv, TypeInv', VersionInv, Fresh, GreenUnlessShared, Grows, NEW w \in Workers, AssignPeriod(w)
    PROVE  GotFresh(w)' /\ RowsFresh(w)' /\ GreenUnlessShared'
<1> USE HandFacts DEF At, GoTo
<1>t. /\ pc \in [Workers -> {"idle"} \cup Phase1 \cup Phase2] /\ got \in [Workers -> Period]
      /\ oldv \in [Workers -> Nat] /\ newv \in [Workers -> Nat]
      /\ per \in [Periods -> Period] /\ evt \in [Events -> Event]
  BY DEF TypeInv, StoreInv, WorkerInv, LocalsType
<1>h. GotFresh(w)
  BY DEF Fresh
<1>r. RowsFresh(w)'
  <2>1. pc'[w] \in {"idle"} \cup Phase1
    BY Phase1Stays
  <2>2. pc'[w] \notin Phase2
    BY <2>1 DEF Phase1, Phase2
  <2>3. QED
    BY <2>2 DEF RowsFresh
<1>g. Reset(w) => GotFresh(w)'
  BY ResetEffect DEF Gone, GotFresh, GotSame, Phase1
<1>k. UNCHANGED <<per, evt, ses>> => GreenUnlessShared'
  BY OnePeriodGreen
<1>1. CASE ReadPeriod(w)
  <2>1. CASE ~Reset(w)
    <3> DEFINE r == per[Target(w)]
    <3>1. /\ pc[w] = "read period" /\ pc'[w] = Verdict(r) /\ got'[w] = r
          /\ hand' = hand /\ per' = per /\ Verdict(r) \notin {"skip", "synced"}
      BY <1>1, <1>t, <2>1 DEF ReadPeriod
    <3>2. r \in Period /\ Target(w)' = Target(w)
      BY <1>t, <3>1 DEF Phase1, Target
    <3>3. Verdict(r) \in {"bump detached", "set exported", "get event"}
      BY <3>1, <3>2, VerdictFacts
    <3>4. /\ got'[w].ev = per'[Target(w)'].ev /\ Same(got'[w], per'[Target(w)'])
          /\ pc'[w] = "get event" => per'[Target(w)'].exp < per'[Target(w)'].ver
          /\ pc'[w] = "set exported" => ~got'[w].ended
      BY <3>1, <3>2, VerdictMeans DEF Same
    <3> HIDE DEF r
    <3>5. pc'[w] \in {"bump detached", "set exported", "get event"}
      BY <3>1, <3>3
    <3>6. GotFresh(w)'
      BY <3>4, <3>5 DEF GotFresh, GotSame, OnItsWay, Grows, HasDesired
    <3>7. QED
      BY <1>1, <1>k, <1>r, <3>6 DEF ReadPeriod
  <2>2. QED
    BY <1>1, <1>g, <1>k, <1>r, <2>1 DEF ReadPeriod
<1>2. CASE GetOrCreateEvent(w)
  <2>1. /\ pc[w] = "get event" /\ UNCHANGED <<per, ses, hand, got>>
        /\ pc'[w] \in {"set event", "bump event", "bump old event"}
        /\ pc'[w] = "bump event" => got[w].ev = Desired(w)
    BY <1>2, <1>t DEF GetOrCreateEvent
  <2>2. Target(w)' = Target(w) /\ Desired(w)' = Desired(w) /\ Desired(w) \in Events
    BY <2>1 DEF Target, Desired, EventOf, HasDesired
  <2>3. GotFresh(w)'
    BY <1>h, <2>1, <2>2 DEF GotFresh, GotSame, OnItsWay, Grows, HasDesired, Phase1
  <2>4. evt' = [evt EXCEPT ![Desired(w)].ver = IF @ = 0 THEN 1 ELSE @]
    BY <1>2 DEF GetOrCreateEvent
  <2>e. PICK e \in Events : e = Desired(w)
    BY <2>2
  <2>5. evt[e] \in Event /\ evt[e].synced <= evt[e].ver /\ evt[e].synced \in Nat
    BY <1>t, VersionTypes DEF VersionInv, SyncedVersions
  <2>6. /\ evt'[e] = [evt[e] EXCEPT !.ver = IF @ = 0 THEN 1 ELSE @]
        /\ \A f \in Events \ {e} : evt'[f] = evt[f]
    BY <1>t, <2>4, <2>e
  <2>7. /\ evt'[e].synced = evt[e].synced
        /\ evt[e].ver = 0 => evt'[e].ver = 1
        /\ evt[e].ver # 0 => evt'[e] = evt[e]
    BY <2>5, <2>6, CreatedFields
  <2>8. Orange(e)' \/ evt'[e] = evt[e]
    BY <2>5, <2>7 DEF Orange
  <2>9. ASSUME NEW p \in Periods PROVE GreenOf(p)'
    <3>1. per[p].ev \in Events \cup {None} /\ per'[p] = per[p]
      BY <1>t, <2>1 DEF Period
    <3>2. CASE per[p].ev = e /\ Orange(e)'
      <4>1. Unshown(p)'
        BY <3>1, <3>2 DEF Unshown
      <4>2. QED
        BY <4>1, UnshownIsGreen
    <3>3. CASE per[p].ev # None => evt'[per[p].ev] = evt[per[p].ev]
      BY <2>1, <3>1, <3>3, GreenStays DEF NitcsStay, NitcStays
    <3>4. QED
      BY <2>6, <2>8, <3>1, <3>2, <3>3
  <2>10. QED
    BY <1>r, <2>3, <2>9, GreenAll
<1>3. CASE BumpOld(w) \/ BumpDetached(w)
  <2>1. /\ pc[w] \in {"bump old event", "bump detached"} /\ UNCHANGED <<per, ses, hand, got>>
        /\ pc'[w] = IF pc[w] = "bump old event" THEN "set event" ELSE "enqueue detached"
        /\ evt' = [evt EXCEPT ![got[w].ev] = Bumped(@)]
    BY <1>3, <1>t DEF BumpOld, BumpDetached, BumpLeft
  <2>2. got[w].ev \in Events /\ Target(w)' = Target(w)
    BY <2>1 DEF HasLeft, Target
  <2>3. GotFresh(w)'
    BY <1>h, <2>1, <2>2 DEF GotFresh, GotSame, OnItsWay, Grows, HasDesired, Phase1
  <2>4. GreenUnlessShared'
    BY <2>1, <2>2, BumpGreen DEF NitcsStay, NitcStays
  <2>5. QED
    BY <1>r, <2>3, <2>4
<1>4. CASE SetPeriodEvent(w)
  <2>1. /\ pc[w] = "set event" /\ pc'[w] = "bump event" /\ UNCHANGED <<evt, ses, hand, got>>
        /\ per' = [per EXCEPT ![Target(w)] = Reassigned(per[Target(w)], Desired(w))]
    BY <1>4, <1>t DEF SetPeriodEvent
  <2>p. PICK p \in Periods : p = Target(w)
    BY <2>1 DEF Phase1
  <2>2. Target(w)' = p /\ Desired(w)' = Desired(w) /\ per[p] \in Period
    BY <1>t, <2>1, <2>p DEF Target, Desired, EventOf
  <2>3. per'[p] = Reassigned(per[p], Desired(w)) /\ \A r \in Periods \ {p} : per'[r] = per[r]
    BY <1>t, <2>1, <2>p
  <2>4. Stamped(per[p], per'[p]) /\ per'[p].ev = Desired(w) /\ per'[p].exp = per[p].exp
    BY <2>2, <2>3, ExportColumns
  <2>5. Same(got[w], per[p]) /\ (p \notin shared => per[p].exp < per[p].ver)
    BY <1>h, <2>1, <2>p DEF GotFresh, GotSame, OnItsWay, Phase1, HasDesired
  <2>6. per'[p] \in Period
    BY <2>2 DEF TypeInv, StoreInv
  <2>7. Same(got[w], per'[p]) /\ (p \notin shared' => per'[p].exp < per'[p].ver)
    <3>1. \A c : Same(c, per[p]) => Same(c, per'[p])
      BY <2>2, <2>4, <2>6, StampedFacts DEF Period
    <3>2. QED
      BY <2>4, <2>5, <3>1 DEF Stamped, Grows
  <2>8. GotFresh(w)'
    BY <2>1, <2>2, <2>4, <2>7 DEF GotFresh, GotSame, OnItsWay, HasDesired
  <2>9. Unshown(p)'
    BY <2>6, <2>7 DEF Unshown, Period
  <2>10. QED
    BY <1>r, <2>1, <2>3, <2>8, <2>9, OnePeriodGreen
<1>5. CASE BumpDesired(w)
  <2>1. /\ pc[w] = "bump event" /\ UNCHANGED <<per, ses, hand, got>>
        /\ pc'[w] \in {"enqueue event", "enqueue old event"}
        /\ evt' = [evt EXCEPT ![Desired(w)] = Bumped(@)]
    BY <1>5, <1>t DEF BumpDesired
  <2>2. Desired(w) \in Events /\ Target(w)' = Target(w) /\ Desired(w)' = Desired(w)
    BY <2>1 DEF HasDesired, Target, Desired, EventOf
  <2>3. GreenUnlessShared' /\ Orange(Desired(w))'
    BY <2>1, <2>2, BumpGreen DEF NitcsStay, NitcStays
  <2>4. evt'[Desired(w)'].synced < evt'[Desired(w)'].ver
    BY <2>2, <2>3 DEF Orange
  <2>5. GotFresh(w)'
    BY <1>h, <2>1, <2>2, <2>4 DEF GotFresh, GotSame, OnItsWay, Grows, HasDesired, Phase1, Orange
  <2>6. QED
    BY <1>r, <2>3, <2>5
<1>6. CASE EnqueueOld(w) \/ EnqueueDesired(w) \/ EnqueueDetached(w)
  <2>1. /\ UNCHANGED <<per, evt, ses, hand, got>>
        /\ \/ pc[w] = "enqueue old event" /\ pc'[w] = "enqueue event"
           \/ pc[w] = "enqueue event" /\ pc'[w] = "set exported"
           \/ pc[w] = "enqueue detached" /\ pc'[w] = "clear"
    BY <1>6, <1>t DEF EnqueueOld, EnqueueDesired, EnqueueDetached, EnqueueEvent
  <2>2. Target(w)' = Target(w) /\ Desired(w)' = Desired(w) /\ (pc[w] \in HasDesired => Desired(w) \in Events)
    BY <2>1 DEF Target, Desired, EventOf
  <2>3. GotFresh(w)'
    BY <1>h, <2>1, <2>2 DEF GotFresh, GotSame, OnItsWay, Grows, HasDesired, Phase1, Orange
  <2>4. QED
    BY <1>k, <1>r, <2>1, <2>3
<1>7. CASE SetExported(w)
  <2>1. /\ pc[w] = "set exported" /\ UNCHANGED <<evt, ses>> /\ Reset(w)
        /\ per' = [per EXCEPT ![Target(w)] = ExportedAt(per[Target(w)], got[w].ver)]
    BY <1>7 DEF SetExported
  <2>p. PICK p \in Periods : p = Target(w)
    BY <2>1 DEF Phase1
  <2>2. per[p] \in Period
    BY <1>t
  <2>3. per'[p] = ExportedAt(per[p], got[w].ver) /\ \A r \in Periods \ {p} : per'[r] = per[r]
    BY <1>t, <2>1, <2>p
  <2>4. Stamped(per[p], per'[p]) /\ per'[p].ev = per[p].ev /\ per'[p].exp = got[w].ver
    BY <2>2, <2>3, ExportColumns
  <2>5. /\ Same(got[w], per[p])
        /\ \/ p \in shared
           \/ ~got[w].ended
           \/ per[p].ev = Desired(w) /\ Orange(Desired(w))
    BY <1>h, <2>1, <2>p DEF GotFresh, GotSame, OnItsWay, Phase1
  <2>6. per'[p] \in Period /\ got[w] \in Period
    BY <1>t, <2>2 DEF TypeInv, StoreInv
  <2>7. Unshown(p)'
    <3>1. CASE per[p].ev = Desired(w) /\ Orange(Desired(w))
      <4>1. Orange(per[p].ev)'
        BY <2>1, <2>4, <3>1 DEF Orange
      <4>2. QED
        BY <4>1 DEF Unshown
    <3>2. CASE got[w].ver # per[p].ver
      BY <2>4, <3>2 DEF Unshown, Stamped
    <3>3. CASE ~got[w].ended /\ got[w].ver = per[p].ver
      <4>1. got[w].ended = per[p].ended
        BY <2>5, <3>3 DEF Same
      <4>2. ~per'[p].ended
        BY <2>4, <3>3, <4>1 DEF Stamped
      <4>3. QED
        BY <4>2 DEF Unshown, Wanted, Live
    <3>4. CASE p \in shared
      BY <3>4 DEF Unshown, Grows
    <3>5. QED
      BY <2>5, <3>1, <3>2, <3>3, <3>4
  <2>8. QED
    BY <1>g, <1>r, <2>1, <2>3, <2>7, OnePeriodGreen
<1>8. CASE ClearDetached(w)
  <2>1. /\ pc[w] = "clear" /\ UNCHANGED <<evt, ses>> /\ Reset(w)
        /\ per' = [per EXCEPT ![Target(w)] = Cleared(per[Target(w)], got[w].ver)]
    BY <1>8 DEF ClearDetached
  <2>p. PICK p \in Periods : p = Target(w)
    BY <2>1 DEF Phase1
  <2>2. per[p] \in Period
    BY <1>t
  <2>3. per'[p] = Cleared(per[p], got[w].ver) /\ \A r \in Periods \ {p} : per'[r] = per[r]
    BY <1>t, <2>1, <2>p
  <2>4. per'[p].ev = None
    BY <2>2, <2>3, ExportColumns
  <2>5. Unshown(p)'
    BY <2>4 DEF Unshown
  <2>6. QED
    BY <1>g, <1>r, <2>1, <2>3, <2>5, OnePeriodGreen
<1>9. QED
  BY <1>1, <1>2, <1>3, <1>4, <1>5, <1>6, <1>7, <1>8 DEF AssignPeriod

LEMMA Phase2Stays ==
    ASSUME TypeInv, NEW w \in Workers, SyncEvent(w)
    PROVE  pc[w] \in Phase2 /\ pc'[w] \in {"idle"} \cup Phase2
<1> USE DEF At, GoTo
<1>t. pc \in [Workers -> {"idle"} \cup Phase1 \cup Phase2]
  BY DEF TypeInv, WorkerInv, LocalsType
<1>1. pc[w] \in Phase2
  BY DEF SyncEvent, ReadEvent, ListPeriods, GetPeriods, RejectMismatch, CreateNitc, SetSesId, PutNitc,
         UpdateExported, ClearDropped, MarkSynced, Phase2
<1>2. CASE Reset(w)
  BY <1>1, <1>2, ResetEffect DEF Gone
<1>3. CASE ~Reset(w)
  <2>1. pc'[w] \in Phase2
    BY <1>3, <1>t DEF SyncEvent, ReadEvent, ListPeriods, GetPeriods, RejectMismatch, Return, CreateNitc,
                SetSesId, PutNitc, UpdateExported, ClearDropped, WriteBack, MarkSynced, Phase2
  <2>2. QED
    BY <1>1, <2>1
<1>4. QED
  BY <1>2, <1>3

\* Phase 2 runs only on an event that has something new.
LEMMA OrangeAtStart ==
    ASSUME TypeInv, VersionInv, NEW e \in Events, ~AlreadySynced(evt[e]), evt[e].ver # 0
    PROVE  Orange(e)
<1>1. evt[e].synced \in Nat /\ evt[e].ver \in Nat
  BY VersionTypes
<1>2. evt[e].synced = 0 \/ ~(evt[e].synced >= evt[e].ver)
  BY DEF AlreadySynced
<1>3. QED
  BY <1>1, <1>2 DEF Orange

\* What was read of a live period and sent is what is still said of it, at the same version.
LEMMA SentIsSaid ==
    ASSUME NEW rs, NEW x \in rs, NEW q, Same(x.rec, q), x.rec.ver = q.ver, Wanted(q) \/ Live(x.rec)
    PROVE  EntryOf(x.period, q) \in Roster(rs)
<1>1. x.rec.grp = q.grp /\ x.rec.ended = q.ended /\ x.rec.del = q.del
  BY DEF Same
<1>2. Live(x.rec)
  BY <1>1 DEF Wanted, Live
<1>3. EntryOf(x.period, q) = EntryOf(x.period, x.rec)
  BY <1>1 DEF EntryOf
<1>4. QED
  BY <1>2, <1>3 DEF Roster, LiveRows

\* The steps of Phase 2 that write no period and no roster.
LEMMA Phase2ReadsGreen ==
    ASSUME IInv, TypeInv', VersionInv, Numbered, Fresh, GreenUnlessShared, Grows, NEW w \in Workers,
           \/ ReadEvent(w) \/ ListPeriods(w) \/ GetPeriods(w) \/ RejectMismatch(w)
           \/ CreateNitc(w) \/ SetSesId(w) \/ MarkSynced(w)
    PROVE  RowsFresh(w)' /\ GreenUnlessShared'
<1> USE HandFacts DEF At, GoTo, IInv
<1>t. /\ pc \in [Workers -> {"idle"} \cup Phase1 \cup Phase2]
      /\ newv \in [Workers -> Nat] /\ sid \in [Workers -> Nat] /\ ids \in [Workers -> SUBSET Periods]
      /\ rows \in [Workers -> SUBSET Row] /\ per \in [Periods -> Period] /\ evt \in [Events -> Event]
  BY DEF TypeInv, StoreInv, WorkerInv, LocalsType
<1>2. pc[w] \in Phase2
  BY DEF ReadEvent, ListPeriods, GetPeriods, RejectMismatch, CreateNitc, SetSesId, MarkSynced, Phase2
<1>e. PICK e \in Events : e = Syncing(w)
  BY <1>2
<1>h. RowsFresh(w)
  BY DEF Fresh
<1>g. Reset(w) => RowsFresh(w)'
  BY ResetEffect DEF Gone, RowsFresh, Phase2
<1>k. UNCHANGED <<per, evt, ses>> => GreenUnlessShared'
  BY OnePeriodGreen
<1>m. per' = per => \A p \in Periods : Marked(p, e)' => Marked(p, e)
  BY DEF Marked, Wanted, Live, Eligible
<1>c. Grows /\ (e \notin contested' => e \notin contested /\ Sends(w))
  BY <1>2, <1>e, <1>h DEF RowsFresh, Grows
<1>o. /\ e \notin contested' =>
          /\ pc[w] # "read event" => Orange(e)
          /\ \A p \in Periods \ shared : Marked(p, e) => Covers(w, p)
      /\ RowsSame(w)
  BY <1>2, <1>c, <1>e, <1>h DEF RowsFresh, Sends
<1>3. CASE Reset(w) /\ UNCHANGED <<per, evt, ses>>
  BY <1>3, <1>g, <1>k
<1>4. CASE ReadEvent(w) /\ ~Reset(w)
  <2>1. /\ pc[w] = "read event" /\ pc'[w] = "list" /\ sid'[w] = evt[e].sid
        /\ UNCHANGED <<per, evt, ses, hand, rows>>
        /\ Current(evt[e], hand[w].body.version) /\ ~AlreadySynced(evt[e])
    BY <1>4, <1>e, <1>t DEF ReadEvent
  <2>2. evt[e].ver # 0
    BY <1>2, <2>1 DEF Current, Numbered, NumberedFor
  <2>3. Orange(e)
    BY <2>1, <2>2, OrangeAtStart
  <2>4. Orange(e)' /\ Syncing(w)' = e
    BY <1>e, <2>1, <2>3 DEF Orange, Syncing
  <2>5. RowsFresh(w)'
    BY <2>1, <2>4 DEF RowsFresh, RowsSame, Sends, Covers, HasRows
  <2>6. QED
    BY <1>k, <2>1, <2>5
<1>5. CASE ListPeriods(w)
  <2>1. /\ pc[w] = "list" /\ pc'[w] = "get periods" /\ ids'[w] = {p \in Periods : Listed(per[p], e)}
        /\ UNCHANGED <<per, evt, ses, hand, rows, sid>>
    BY <1>5, <1>e, <1>t DEF ListPeriods
  <2>2. Syncing(w)' = e /\ (e \notin contested' => Orange(e)')
    BY <1>e, <1>o, <2>1 DEF Orange, Syncing
  <2>3. \A p \in Periods : Marked(p, e)' => Covers(w, p)'
    <3> SUFFICES ASSUME NEW p \in Periods, Marked(p, e)' PROVE p \in ids'[w]
      BY <2>1 DEF Covers
    <3>1. Marked(p, e)
      BY <1>m, <2>1
    <3>2. Listed(per[p], e)
      BY <3>1 DEF Marked, Wanted, Live, Listed
    <3>3. QED
      BY <2>1, <3>2
  <2>4. e \notin contested' => sid'[w] = evt'[e].sid
    BY <1>c, <1>e, <2>1 DEF Sends
  <2>5. RowsFresh(w)'
    BY <2>1, <2>2, <2>3, <2>4 DEF RowsFresh, RowsSame, Sends, HasRows
  <2>6. QED
    BY <1>k, <2>1, <2>5
<1>6. CASE GetPeriods(w)
  <2>1. /\ pc[w] = "get periods" /\ pc'[w] \in {"create", "put"} /\ rows'[w] = RowsNow(w)
        /\ UNCHANGED <<per, evt, ses, hand, sid>>
    BY <1>6, <1>t DEF GetPeriods
  <2>2. Syncing(w)' = e /\ (e \notin contested' => Orange(e)')
    BY <1>e, <1>o, <2>1 DEF Orange, Syncing
  <2>3. ASSUME e \notin contested', NEW p \in Periods \ shared', Marked(p, e)' PROVE Covers(w, p)'
    <3>1. p \in ids[w]
      BY <1>c, <1>m, <1>o, <2>1, <2>3 DEF Covers, Grows
    <3> DEFINE x == [period |-> p, rec |-> per[p]]
    <3>2. x \in RowsNow(w) /\ x.period = p /\ x.rec = per[p]
      BY <3>1 DEF RowsNow
    <3> HIDE DEF x
    <3>3. \E y \in rows'[w] : y.period = p /\ y.rec.ver = per'[p].ver
      BY <2>1, <3>2
    <3>4. QED
      BY <2>1, <3>3 DEF Covers
  <2>4. \A x \in rows'[w] : Same(x.rec, per'[x.period])
    <3>1. \A x \in RowsNow(w) : x.rec = per[x.period]
      BY DEF RowsNow
    <3>2. QED
      BY <2>1, <3>1 DEF Same
  <2>5. e \notin contested' => sid'[w] = evt'[e].sid
    BY <1>c, <1>e, <2>1 DEF Sends
  <2>6. RowsFresh(w)'
    BY <2>1, <2>2, <2>3, <2>4, <2>5 DEF RowsFresh, RowsSame, Sends
  <2>7. QED
    BY <1>k, <2>1, <2>6
<1>7. CASE CreateNitc(w)
  <2>1. /\ pc[w] = "create" /\ pc'[w] = "set ses id" /\ NewNitc(w)
        /\ UNCHANGED <<per, evt, hand, rows>>
    BY <1>7, <1>t DEF CreateNitc
  <2>2. Syncing(w)' = e /\ (e \notin contested' => Orange(e)')
    BY <1>e, <1>o, <2>1 DEF Orange, Syncing
  <2>3. e \notin contested' => \A p \in Periods \ shared' : Marked(p, e)' => Covers(w, p)'
    BY <1>c, <1>m, <1>o, <2>1 DEF Covers, Grows
  <2>4. RowsFresh(w)'
    BY <1>o, <2>1, <2>2, <2>3 DEF RowsFresh, RowsSame, Sends, HasRows
  <2>5. NitcsStay
    <3>1. Syncing(w) \in Events
      BY <1>e
    <3>2. QED
      BY <2>1, <3>1, NewNitcFacts DEF NitcsStay, NitcStays
  <2>6. \A p \in Periods : GreenOf(p)'
    BY <2>1, <2>5, GreenStays
  <2>7. QED
    BY <2>4, <2>6, GreenAll
<1>8. CASE SetSesId(w)
  <2>1. /\ pc[w] = "set ses id" /\ pc'[w] = "put" /\ evt' = [evt EXCEPT ![e].sid = sid[w]]
        /\ UNCHANGED <<per, ses, hand, rows, sid>>
    BY <1>8, <1>e, <1>t DEF SetSesId
  <2>2. /\ evt'[e].sid = sid[w] /\ evt'[e].synced = evt[e].synced /\ evt'[e].ver = evt[e].ver
        /\ \A f \in Events \ {e} : evt'[f] = evt[f]
    BY <1>t, <2>1 DEF Event
  <2>3. Syncing(w)' = e /\ (e \notin contested' => Orange(e)')
    BY <1>e, <1>o, <2>1, <2>2 DEF Orange, Syncing
  <2>4. e \notin contested' => \A p \in Periods \ shared' : Marked(p, e)' => Covers(w, p)'
    BY <1>c, <1>m, <1>o, <2>1 DEF Covers, Grows
  <2>5. RowsFresh(w)'
    BY <1>o, <2>1, <2>2, <2>3, <2>4 DEF RowsFresh, RowsSame, Sends, HasRows
  <2>6. ASSUME NEW p \in Periods PROVE GreenOf(p)'
    <3>1. per[p].ev \in Events \cup {None} /\ per'[p] = per[p]
      BY <1>t, <2>1 DEF Period
    <3>2. CASE per[p].ev = e
      <4>1. Unshown(p)'
        BY <2>3, <3>1, <3>2 DEF Unshown
      <4>2. QED
        BY <4>1, UnshownIsGreen
    <3>3. CASE per[p].ev # e
      BY <2>1, <2>2, <3>1, <3>3, GreenStays DEF NitcsStay, NitcStays
    <3>4. QED
      BY <3>2, <3>3
  <2>7. QED
    BY <2>5, <2>6, GreenAll
<1>9. CASE MarkSynced(w)
  <2>1. /\ pc[w] = "write back" /\ Reset(w) /\ UNCHANGED <<per, ses>>
        /\ evt' = [evt EXCEPT ![e].synced = newv[w]]
    BY <1>9, <1>e DEF MarkSynced
  <2>2. /\ evt'[e].sid = evt[e].sid
        /\ \A f \in Events \ {e} : evt'[f] = evt[f]
    BY <1>t, <2>1 DEF Event
  <2>3. sid[w] \in DOMAIN ses /\ (e \notin contested' => evt[e].sid = sid[w])
    BY <1>c, <1>e, <1>2, <2>1 DEF Sends, NitcInv, NitcInHand
  <2>4. ASSUME NEW p \in Periods PROVE GreenOf(p)'
    <3>1. per[p].ev \in Events \cup {None} /\ per'[p] = per[p]
      BY <1>t, <2>1 DEF Period
    <3>2. CASE per[p].ev = e
      <4> SUFFICES ASSUME (p \notin shared /\ Wanted(per[p]) /\ ShownSynced(per[p]) /\ per[p].ev \notin contested)'
                   PROVE  (/\ evt[per[p].ev].sid \in DOMAIN ses
                           /\ EntryOf(p, per[p]) \in ses[evt[per[p].ev].sid].roster)'
        BY DEF GreenOf
      <4>1. Marked(p, e)
        BY <3>1, <3>2 DEF Marked, ShownSynced, Wanted, Live, Eligible
      <4>2. e \notin contested' /\ EntryOf(p, per[p]) \in ses[sid[w]].roster
        BY <1>c, <1>o, <2>1, <3>1, <3>2, <4>1 DEF Covers, Grows
      <4>3. EntryOf(p, per[p])' = EntryOf(p, per[p])
        BY <3>1 DEF EntryOf
      <4>4. QED
        BY <2>1, <2>2, <2>3, <3>1, <3>2, <4>2, <4>3
    <3>3. CASE per[p].ev # e
      BY <2>1, <2>2, <3>1, <3>3, GreenStays DEF NitcsStay, NitcStays
    <3>4. QED
      BY <3>2, <3>3
  <2>5. QED
    BY <1>g, <2>1, <2>4, GreenAll
<1>10. QED
  BY <1>3, <1>4, <1>5, <1>6, <1>7, <1>8, <1>9 DEF ReadEvent, RejectMismatch, Return

\* The PUT: it touches one NITC, whose event is orange, and sends every period that will be green.
LEMMA PutGreen ==
    ASSUME IInv, TypeInv', VersionInv, Fresh, GreenUnlessShared, Grows, NEW w \in Workers, PutNitc(w)
    PROVE  RowsFresh(w)' /\ GreenUnlessShared'
<1> USE DEF IInv
<1>1. /\ pc[w] = "put" /\ pc'[w] = "write back" /\ UNCHANGED <<per, evt, hand, rows, sid>>
      /\ pc[w] \in Phase2
  BY DEF PutNitc, At, GoTo, TypeInv, WorkerInv, LocalsType, Phase2
<1>e. PICK e \in Events : e = Syncing(w)
  BY <1>1, HandFacts
<1>i. PICK i : i = sid[w]
  OBVIOUS
<1>2. /\ e \notin contested' =>
          /\ Orange(e) /\ i = evt[e].sid
          /\ \A p \in Periods \ shared' :
                Marked(p, e) => \E x \in rows[w] : x.period = p /\ x.rec.ver = per[p].ver
      /\ \A x \in rows[w] : Same(x.rec, per[x.period])
  BY <1>1, <1>e, <1>i DEF Fresh, RowsFresh, RowsSame, Sends, Covers, HasRows, Grows
<1>3. i \in DOMAIN ses /\ ses[i].ev = e
  BY <1>1, <1>e, <1>i DEF NitcInv, NitcInHand
<1>4. /\ DOMAIN ses' = DOMAIN ses
      /\ \A j \in DOMAIN ses : ses'[j].roster = IF j = i THEN Roster(rows[w]) ELSE ses[j].roster
  BY <1>i, PutEffect DEF SameNitcEvents
<1>5. Syncing(w)' = e /\ (e \notin contested' => Orange(e)')
  BY <1>1, <1>2, <1>e DEF Orange, Syncing
<1>6. ASSUME e \notin contested', NEW p \in Periods \ shared', Marked(p, e)' PROVE Covers(w, p)'
  <2>1. Marked(p, e)
    BY <1>1, <1>6 DEF Marked, Wanted, Live, Eligible
  <2>2. PICK x \in rows[w] : x.period = p /\ x.rec.ver = per[p].ver
    BY <1>2, <1>6, <2>1
  <2>3. Same(x.rec, per[p]) /\ Wanted(per[p])
    BY <1>2, <2>1, <2>2 DEF Marked
  <2>4. EntryOf(p, per[p]) \in Roster(rows[w])
    BY <2>2, <2>3, SentIsSaid
  <2>5. EntryOf(p, per[p])' \in ses'[sid'[w]].roster
    BY <1>1, <1>3, <1>4, <1>i, <2>4 DEF EntryOf
  <2>6. QED
    BY <1>1, <2>5 DEF Covers
<1>7. Roster(rows'[w]) \subseteq ses'[sid'[w]].roster
  BY <1>1, <1>3, <1>4, <1>i
<1>8. RowsFresh(w)'
  BY <1>1, <1>2, <1>5, <1>6, <1>7, <1>i DEF RowsFresh, RowsSame, Sends
<1>9. ASSUME NEW p \in Periods PROVE GreenOf(p)'
  <2>1. per[p].ev \in Events \cup {None} /\ per'[p] = per[p]
    BY <1>1 DEF TypeInv, StoreInv, Period
  <2>2. CASE per[p].ev = e
    <3>1. Unshown(p)'
      BY <1>5, <2>1, <2>2 DEF Unshown
    <3>2. QED
      BY <3>1, UnshownIsGreen
  <2>3. CASE per[p].ev # e
    <3>1. ASSUME per[p].ev # None PROVE NitcStays(evt[per[p].ev].sid)
      <4> SUFFICES ASSUME evt[per[p].ev].sid \in DOMAIN ses
                   PROVE  /\ evt[per[p].ev].sid \in DOMAIN ses'
                          /\ ses'[evt[per[p].ev].sid].roster = ses[evt[per[p].ev].sid].roster
        BY DEF NitcStays
      <4>1. evt[per[p].ev].sid # 0
        BY LenProperties DEF TypeInv, StoreInv
      <4>2. ses[evt[per[p].ev].sid].ev = per[p].ev
        BY <2>1, <3>1, <4>1 DEF NitcInv, NitcOfEvent
      <4>3. evt[per[p].ev].sid # i
        BY <1>3, <2>3, <4>2
      <4>4. QED
        BY <1>4, <4>3
    <3>2. QED
      BY <1>1, <2>1, <3>1, GreenAlone
  <2>4. QED
    BY <2>2, <2>3
<1>10. QED
  BY <1>8, <1>9, GreenAll

\* The write-back: a period it records as exported stays orange with its event.
LEMMA WriteBackGreen ==
    ASSUME TypeInv, TypeInv', VersionInv, Fresh, GreenUnlessShared, Grows, NEW w \in Workers,
           NEW x \in rows[w], UpdateExported(w, x) \/ ClearDropped(w, x)
    PROVE  RowsFresh(w)' /\ GreenUnlessShared'
<1>1. /\ pc[w] = "write back" /\ pc' = pc /\ UNCHANGED <<evt, ses, hand, sid>>
      /\ rows'[w] = rows[w] \ {x} /\ pc[w] \in Phase2
  BY DEF UpdateExported, ClearDropped, WriteBack, At, TypeInv, WorkerInv, LocalsType, Phase2
<1>e. PICK e \in Events : e = Syncing(w)
  BY <1>1, HandFacts
<1>p. PICK p \in Periods : p = x.period
  BY HandFacts DEF Row
<1>2. /\ e \notin contested' =>
          /\ Orange(e) /\ sid[w] = evt[e].sid
          /\ \A r \in Periods \ shared' : Marked(r, e) => EntryOf(r, per[r]) \in ses[sid[w]].roster
          /\ Roster(rows[w]) \subseteq ses[sid[w]].roster
      /\ \A y \in rows[w] : Same(y.rec, per[y.period])
  BY <1>1, <1>e DEF Fresh, RowsFresh, RowsSame, Sends, Covers, HasRows, Grows
<1>3. Syncing(w)' = e /\ (e \notin contested' => Orange(e)')
  BY <1>1, <1>2, <1>e DEF Orange, Syncing
<1>4. /\ per[p] \in Period /\ per'[p] \in Period /\ per \in [Periods -> Period]
      /\ \A y \in rows[w] : y.period \in Periods
  BY HandFacts DEF TypeInv, StoreInv, Row
<1>5. \/ UpdateExported(w, x) /\ per' = [per EXCEPT ![p] = Exported(per[p], e, sid[w], x.rec.ver)]
      \/ ClearDropped(w, x) /\ per' = [per EXCEPT ![p] = Cleared(per[p], x.rec.ver)]
  BY <1>e, <1>p DEF UpdateExported, ClearDropped, WriteBack
<1>6. \A r \in Periods \ {p} : per'[r] = per[r]
  BY <1>4, <1>5
<1>7. /\ Stamped(per[p], per'[p]) /\ per'[p].exp = x.rec.ver
      /\ \/ UpdateExported(w, x) /\ per'[p].ev = e
         \/ per'[p].ev = None
  <2>1. \/ UpdateExported(w, x) /\ per'[p] = Exported(per[p], e, sid[w], x.rec.ver)
        \/ ClearDropped(w, x) /\ per'[p] = Cleared(per[p], x.rec.ver)
    BY <1>4, <1>5
  <2>2. QED
    BY <1>4, <2>1, ExportColumns
<1>8. /\ \A c : Same(c, per[p]) => Same(c, per'[p])
      /\ EntryOf(p, per'[p]) = EntryOf(p, per[p])
      /\ per'[p].ver = per[p].ver
  BY <1>4, <1>7, StampedFacts DEF Period, Stamped
<1>9. ASSUME e \notin contested', NEW r \in Periods \ shared', Marked(r, e)' PROVE EntryOf(r, per'[r]) \in ses[sid[w]].roster
  <2>1. CASE r # p
    <3>1. per'[r] = per[r]
      BY <1>6, <2>1
    <3>2. Marked(r, e)
      BY <1>9, <3>1 DEF Marked, Wanted, Live, Eligible
    <3>3. QED
      BY <1>2, <1>9, <3>1, <3>2
  <2>2. CASE r = p
    <3>1. per'[p].ev = e /\ per'[p].exp = per'[p].ver
      BY <1>9, <2>2 DEF Marked
    <3>2. UpdateExported(w, x) /\ x.rec.ver = per[p].ver
      BY <1>7, <1>8, <3>1, EventFacts
    <3>3. Live(x.rec) /\ Same(x.rec, per[p])
      BY <1>2, <1>p, <3>2 DEF UpdateExported, LiveRows
    <3>4. EntryOf(p, per[p]) \in Roster(rows[w])
      BY <1>p, <3>2, <3>3, SentIsSaid
    <3>5. QED
      BY <1>2, <1>8, <1>9, <2>2, <3>4
  <2>3. QED
    BY <2>1, <2>2
<1>10. \A y \in rows'[w] : Same(y.rec, per'[y.period])
  <2> SUFFICES ASSUME NEW y \in rows'[w] PROVE Same(y.rec, per'[y.period])
    OBVIOUS
  <2>1. y \in rows[w] /\ y.period \in Periods
    BY <1>1, <1>4
  <2>2. Same(y.rec, per[y.period])
    BY <1>2, <2>1
  <2>3. CASE y.period = p
    BY <1>8, <2>2, <2>3
  <2>4. CASE y.period # p
    BY <1>6, <2>1, <2>2, <2>4
  <2>5. QED
    BY <2>3, <2>4
<1>11. e \notin contested' => Roster(rows'[w]) \subseteq ses[sid[w]].roster
  <2>1. Roster(rows'[w]) \subseteq Roster(rows[w])
    BY <1>1 DEF Roster, LiveRows
  <2>2. QED
    BY <1>2, <2>1
<1>12. e \notin contested' => \A r \in Periods \ shared' : Marked(r, e)' => Covers(w, r)'
  <2> SUFFICES ASSUME e \notin contested', NEW r \in Periods \ shared', Marked(r, e)' PROVE Covers(w, r)'
    OBVIOUS
  <2>1. EntryOf(r, per'[r]) \in ses[sid[w]].roster
    BY <1>9
  <2>2. EntryOf(r, per[r])' \in ses'[sid'[w]].roster
    BY <1>1, <2>1 DEF EntryOf
  <2>3. QED
    BY <1>1, <2>2 DEF Covers
<1>13. RowsFresh(w)'
  BY <1>1, <1>2, <1>3, <1>10, <1>11, <1>12 DEF RowsFresh, RowsSame, Sends
<1>14. Unshown(p)'
  BY <1>3, <1>7 DEF Unshown
<1>15. QED
  BY <1>1, <1>6, <1>13, <1>14, OnePeriodGreen

-----------------------------------------------------------------------------
(* What an invocation does to the others: whatever it touches it has, so that if  *)
(* another one has it too, they share it.                                        *)

LEMMA PeriodTouched ==
    ASSUME TypeInv, ExportedBelow, NEW w \in Workers, WorkerNext(w) \/ Crash(w),
           NEW p \in Periods, per'[p] # per[p]
    PROVE  /\ Stamped(per[p], per'[p]) /\ Has(w, p)
           /\ \/ per'[p].ev \in {None, per[p].ev}
              \/ Exports(w, per'[p].ev)
              \/ Has(w, p)'
<1> USE DEF At, GoTo
<1>t. per \in [Periods -> Period] /\ per[p] \in Period /\ pc \in [Workers -> {"idle"} \cup Phase1 \cup Phase2]
  BY DEF TypeInv, StoreInv, WorkerInv, LocalsType
<1>m. pc[w] \in Phase1 => Target(w) \in Periods /\ hand[w].body = PeriodMsg(Target(w)) /\ pc[w] # "idle"
  <2>1. pc[w] \in Phase1 => hand[w].body \in PeriodExport
    BY DEF TypeInv, WorkerInv, WorkerControl
  <2>2. QED
    BY <2>1, HandFacts DEF PeriodExport, PeriodMsg, Target, Phase1
<1>1. CASE SetPeriodEvent(w)
  <2>1. /\ pc[w] \in Phase1 /\ pc'[w] = "bump event" /\ hand' = hand
        /\ per' = [per EXCEPT ![Target(w)] = Reassigned(per[Target(w)], Desired(w))]
    BY <1>1, <1>t DEF SetPeriodEvent, Phase1
  <2>2. p = Target(w) /\ per'[p] = Reassigned(per[p], Desired(w))
    BY <1>t, <1>m, <2>1
  <2>3. QED
    BY <1>t, <1>m, <2>1, <2>2, ExportColumns DEF Has
<1>2. CASE SetExported(w) \/ ClearDetached(w)
  <2>1. /\ pc[w] \in Phase1
        /\ \/ per' = [per EXCEPT ![Target(w)] = ExportedAt(per[Target(w)], got[w].ver)]
           \/ per' = [per EXCEPT ![Target(w)] = Cleared(per[Target(w)], got[w].ver)]
    BY <1>2 DEF SetExported, ClearDetached, Phase1
  <2>2. p = Target(w) /\ (per'[p] = ExportedAt(per[p], got[w].ver) \/ per'[p] = Cleared(per[p], got[w].ver))
    BY <1>t, <1>m, <2>1
  <2>3. QED
    BY <1>t, <1>m, <2>1, <2>2, ExportColumns DEF Has
<1>3. ASSUME NEW x \in rows[w], UpdateExported(w, x) \/ ClearDropped(w, x)
      PROVE  /\ Stamped(per[p], per'[p]) /\ Has(w, p)
             /\ per'[p].ev = None \/ Exports(w, per'[p].ev)
  <2>1. /\ pc[w] = "write back"
        /\ \/ per' = [per EXCEPT ![x.period] = Exported(per[x.period], Syncing(w), sid[w], x.rec.ver)]
           \/ per' = [per EXCEPT ![x.period] = Cleared(per[x.period], x.rec.ver)]
    BY <1>3 DEF UpdateExported, ClearDropped, WriteBack
  <2>2. x.period \in ids[w] /\ x.period \in Periods
    BY HandFacts DEF ExportedBelow, RowsHeld
  <2>3. /\ p = x.period
        /\ per'[p] = Exported(per[p], Syncing(w), sid[w], x.rec.ver) \/ per'[p] = Cleared(per[p], x.rec.ver)
    BY <1>t, <2>1, <2>2
  <2>4. Exports(w, Syncing(w))
    BY <2>1, ExportsSyncing DEF Phase2
  <2>5. Has(w, p)
    BY <2>1, <2>2, <2>3 DEF Has
  <2>6. Stamped(per[p], per'[p]) /\ (per'[p].ev = Syncing(w) \/ per'[p].ev = None)
    BY <1>t, <2>3, ExportColumns
  <2>7. QED
    BY <2>4, <2>5, <2>6
<1>4. SetPeriodEvent(w) \/ SetExported(w) \/ ClearDetached(w)
      \/ \E x \in rows[w] : UpdateExported(w, x) \/ ClearDropped(w, x)
  <2>1. ~UNCHANGED per
    OBVIOUS
  <2>2. QED
    BY <2>1 DEF WorkerNext, Receive, AssignPeriod, SyncEvent, ReadPeriod, GetOrCreateEvent, BumpOld,
              BumpDetached, BumpLeft, BumpDesired, EnqueueOld, EnqueueDesired, EnqueueDetached,
              EnqueueEvent, ReadEvent, ListPeriods, GetPeriods, RejectMismatch, CreateNitc, SetSesId,
              PutNitc, MarkSynced, Crash
<1>5. QED
  BY <1>1, <1>2, <1>3, <1>4

\* No step takes the version of an event row back.
EventsGrow == \A e \in Events : evt'[e].ver >= evt[e].ver

LEMMA NextEventsGrow ==
    ASSUME TypeInv, [Next]_vars
    PROVE  EventsGrow
<1> USE DEF EventsGrow
<1>t. /\ \A e \in Events : evt[e] \in Event /\ evt[e].ver \in Nat
      /\ \A e \in Events : evt[e].ver >= evt[e].ver
  BY VersionTypes
<1>f. evt \in [Events -> Event]
  BY DEF TypeInv, StoreInv
<1>b. ASSUME NEW e \in Events, evt' = [evt EXCEPT ![e] = Bumped(@)]
      PROVE  EventsGrow
  <2>1. Bumped(evt[e]).ver >= evt[e].ver
    BY <1>t DEF Bumped, Event
  <2>2. QED
    BY <1>b, <1>f, <1>t, <2>1
<1>1. CASE UNCHANGED evt
  BY <1>1, <1>t
<1>2. CASE Edit \/ (\E x \in Editors : EditorNext(x) \/ EditorFails(x)) \/ (\E p \in Periods : Backfill(p))
  <2>1. \A e \in Events : evt'[e] = evt[e] \/ evt'[e] = Bumped(evt[e])
    BY <1>2, EditorEffects DEF EditorEffect
  <2>2. \A e \in Events : Bumped(evt[e]).ver >= evt[e].ver
    BY <1>t DEF Bumped, Event
  <2>3. QED
    BY <1>t, <2>1, <2>2
<1>3. ASSUME NEW w \in Workers, AssignPeriod(w)
      PROVE  EventsGrow
  <2>1. CASE GetOrCreateEvent(w)
    <3>1. Desired(w) \in Events
      BY <2>1, HandFacts DEF GetOrCreateEvent, At, HasDesired
    <3>2. evt' = [evt EXCEPT ![Desired(w)].ver = IF @ = 0 THEN 1 ELSE @]
      BY <2>1 DEF GetOrCreateEvent
    <3>3. \A e \in Events \ {Desired(w)} : evt'[e] = evt[e]
      BY <1>f, <3>1, <3>2
    <3>4. evt'[Desired(w)].ver = IF evt[Desired(w)].ver = 0 THEN 1 ELSE evt[Desired(w)].ver
      BY <1>f, <1>t, <3>1, <3>2 DEF Event
    <3>5. evt'[Desired(w)].ver >= evt[Desired(w)].ver
      BY <1>t, <3>1, <3>4
    <3>6. QED
      BY <1>t, <3>3, <3>5
  <2>2. CASE BumpOld(w) \/ BumpDetached(w)
    <3>1. got[w].ev \in Events
      BY <2>2, HandFacts DEF BumpOld, BumpDetached, BumpLeft, At, HasLeft
    <3>2. QED
      BY <1>b, <2>2, <3>1 DEF BumpOld, BumpDetached, BumpLeft
  <2>3. CASE BumpDesired(w)
    <3>1. Desired(w) \in Events
      BY <2>3, HandFacts DEF BumpDesired, At, HasDesired
    <3>2. QED
      BY <1>b, <2>3, <3>1 DEF BumpDesired
  <2>4. CASE UNCHANGED evt
    BY <1>1, <2>4
  <2>5. QED
    BY <1>3, <2>1, <2>2, <2>3, <2>4
       DEF AssignPeriod, ReadPeriod, SetPeriodEvent, EnqueueOld, EnqueueDesired, EnqueueDetached,
           EnqueueEvent, SetExported, ClearDetached
<1>4. ASSUME NEW w \in Workers, SyncEvent(w)
      PROVE  EventsGrow
  <2>1. CASE MarkSynced(w) \/ SetSesId(w)
    <3>1. \A e \in Events : evt'[e].ver = evt[e].ver
      BY <1>f, <2>1 DEF MarkSynced, SetSesId, Event
    <3>2. QED
      BY <1>t, <3>1
  <2>2. CASE UNCHANGED evt
    BY <1>1, <2>2
  <2>3. QED
    BY <1>4, <2>1, <2>2
       DEF SyncEvent, ReadEvent, ListPeriods, GetPeriods, RejectMismatch, CreateNitc, PutNitc,
           WriteBack, UpdateExported, ClearDropped
<1>5. ASSUME NEW w \in Workers, (\E m \in BagToSet(queue) : Receive(w, m)) \/ Crash(w) \/ CreateRetried(w)
      PROVE  EventsGrow
  BY <1>1, <1>5 DEF Receive, Crash, CreateRetried, NewNitc
<1>6. CASE UNCHANGED vars \/ (\E m \in BagToSet(queue) : Duplicate(m))
  BY <1>1, <1>6 DEF vars, Duplicate
<1>7. QED
  BY <1>2, <1>3, <1>4, <1>5, <1>6 DEF Next, Fault, WorkerNext

\* The only invocation that a step of one moves on is that one.
LEMMA Alone ==
    ASSUME TypeInv, NEW w \in Workers, OthersSame(w), NEW u \in Workers,
           MarkSynced(u) \/ SetSesId(u) \/ PutNitc(u)
    PROVE  u = w /\ Exports(w, Syncing(w))
<1>1. pc[u] \in {"write back", "set ses id", "put"} /\ pc'[u] # pc[u]
  <2>1. CASE MarkSynced(u)
    BY <2>1, ResetEffect DEF MarkSynced, At, Gone
  <2>2. CASE SetSesId(u) \/ PutNitc(u)
    BY <2>2 DEF SetSesId, PutNitc, At, GoTo, TypeInv, WorkerInv, LocalsType
  <2>3. QED
    BY <2>1, <2>2
<1>2. QED
  BY <1>1, ExportsSyncing DEF OthersSame, SameWorker, Phase2

LEMMA EventTouched ==
    ASSUME TypeInv, TypeInv', EventsGrow, NEW w \in Workers, OthersSame(w), [Next]_vars,
           NEW e \in Events, ~Exports(w, e)
    PROVE  (Orange(e) => Orange(e)') /\ evt'[e].sid = evt[e].sid
<1>1. /\ evt[e].ver \in Nat /\ evt[e].synced \in Nat /\ evt'[e].ver \in Nat /\ evt'[e].synced \in Nat
      /\ evt'[e].ver >= evt[e].ver
  BY DEF TypeInv, StoreInv, Event, EventsGrow
<1>2. evt'[e].synced = evt[e].synced
  <2>1. ASSUME NEW u \in Workers, MarkSynced(u) PROVE evt'[e].synced = evt[e].synced
    <3>1. u = w /\ Exports(w, Syncing(w))
      BY <2>1, Alone
    <3>2. Syncing(u) # e
      BY <3>1
    <3>3. QED
      BY <2>1, <3>2 DEF MarkSynced, TypeInv, StoreInv
  <2>2. QED
    BY <2>1, SyncedKept
<1>3. evt'[e].sid = evt[e].sid
  <2>1. ASSUME NEW u \in Workers, SetSesId(u) PROVE evt'[e].sid = evt[e].sid
    <3>1. u = w /\ Exports(w, Syncing(w))
      BY <2>1, Alone
    <3>2. Syncing(u) # e
      BY <3>1
    <3>3. QED
      BY <2>1, <3>2 DEF SetSesId, TypeInv, StoreInv
  <2>2. QED
    BY <2>1, SidsKept
<1>4. Orange(e) => Orange(e)'
  BY <1>1, <1>2 DEF Orange
<1>5. QED
  BY <1>3, <1>4

LEMMA NitcTouched ==
    ASSUME IInv, NEW w \in Workers, OthersSame(w), [Next]_vars,
           NEW i \in DOMAIN ses, ~Exports(w, ses[i].ev)
    PROVE  NitcStays(i)
<1> USE DEF IInv
<1>1. ASSUME NEW u \in Workers, PutNitc(u) PROVE NitcStays(i)
  <2>1. u = w /\ Exports(w, Syncing(w)) /\ pc[w] = "put"
    BY <1>1, Alone DEF PutNitc, At
  <2>2. ses[sid[w]].ev = Syncing(w)
    BY <2>1 DEF NitcInv, NitcInHand, Phase2
  <2>3. i # sid[w]
    BY <2>1, <2>2
  <2>4. QED
    BY <1>1, <2>1, <2>3, PutEffect DEF NitcStays, SameNitcEvents
<1>2. ASSUME NEW u \in Workers, CreateNitc(u) \/ CreateRetried(u) PROVE NitcStays(i)
  <2>1. NewNitc(u) /\ Syncing(u) \in Events
    BY <1>2, HandFacts DEF CreateNitc, CreateRetried, At, Phase2
  <2>2. QED
    BY <2>1, NewNitcFacts DEF NitcStays
<1>3. QED
  BY <1>1, <1>2, NitcsKept DEF NitcStays

\* An invocation that waits while another one works: what it knows stays true of the periods and
\* the event it shares with none.
LEMMA OtherGot ==
    ASSUME TypeInv, TypeInv', EventsGrow, HistoryInv, Grows, ExportedBelow, [Next]_vars, NEW w \in Workers,
           WorkerNext(w) \/ Crash(w), OthersSame(w), NEW v \in Workers \ {w}, GotFresh(v)
    PROVE  GotFresh(v)'
<1>s. SameWorker(v) /\ Target(v)' = Target(v) /\ Desired(v)' = Desired(v)
  BY DEF OthersSame, SameWorker, Target, Desired, EventOf
<1>p. CASE pc[v] \in Phase1
  <2>1. /\ Target(v) \in Periods /\ Has(v, Target(v))
        /\ pc[v] \in HasDesired => Desired(v) \in Events
    <3>1. hand[v].body \in PeriodExport
      BY <1>p DEF TypeInv, WorkerInv, WorkerControl
    <3>2. QED
      BY <1>p, <3>1, HandFacts DEF PeriodExport, PeriodMsg, Target, Has, Phase1
  <2>p. PICK p \in Periods : p = Target(v)
    BY <2>1
  <2>2. per'[p] # per[p] => Stamped(per[p], per'[p]) /\ Has(w, p)
    BY PeriodTouched
  <2>3. \A c : Same(c, per[p]) => Same(c, per'[p])
    <3>1. per[p] \in Period /\ per'[p] \in Period
      BY DEF TypeInv, StoreInv
    <3>2. QED
      BY <2>2, <3>1, StampedFacts DEF Period
  <2>4. GotSame(v)'
    BY <1>s, <2>3, <2>p DEF GotFresh, GotSame, SameWorker
  <2>5. ASSUME p \notin shared' PROVE OnItsWay(v)'
    <3>1. ~Has(w, p)
      BY <2>1, <2>5, <2>p DEF HistoryInv, Shared, Grows
    <3>2. per'[p] = per[p] /\ OnItsWay(v)
      BY <1>p, <2>2, <2>5, <2>p, <3>1 DEF GotFresh, Grows
    <3>3. ASSUME NEW e \in Events, per[p].ev = e, Orange(e) PROVE Orange(e)'
      <4>1. ~Exports(w, e)
        BY <3>1, <3>3 DEF Has, Exports
      <4>2. QED
        BY <3>3, <4>1, EventTouched
    <3>4. Orange(Desired(v))' <=> evt'[Desired(v)].synced < evt'[Desired(v)].ver
      BY <1>s DEF Orange
    <3>5. Desired(v) \in Events /\ per[p].ev = Desired(v) /\ Orange(Desired(v)) => Orange(Desired(v))'
      BY <3>3, <3>4 DEF Orange
    <3>6. QED
      BY <1>s, <2>1, <2>p, <3>2, <3>5 DEF OnItsWay, SameWorker, HasDesired
  <2>6. QED
    BY <1>s, <2>4, <2>5, <2>p DEF GotFresh
<1>n. CASE pc[v] \notin Phase1
  BY <1>s, <1>n DEF GotFresh, GotSame, SameWorker
<1>q. QED
  BY <1>p, <1>n

LEMMA OtherRows ==
    ASSUME IInv, TypeInv', EventsGrow, HistoryInv, HistoryInv', Grows, ExportedBelow, [Next]_vars,
           NEW w \in Workers, WorkerNext(w) \/ Crash(w), OthersSame(w), NEW v \in Workers \ {w}, RowsFresh(v)
    PROVE  RowsFresh(v)'
<1> USE DEF IInv
<1>s. SameWorker(v)
  BY DEF OthersSame
<1>p. CASE pc[v] \in Phase2
  <2>e. PICK e \in Events : e = Syncing(v)
    BY <1>p, HandFacts
  <2>1. Syncing(v)' = e
    BY <1>s, <2>e DEF SameWorker, Syncing
  <2>2. RowsSame(v)'
    <3> SUFFICES ASSUME pc[v] \in HasRows, NEW x \in rows[v] PROVE Same(x.rec, per'[x.period])
      BY <1>s DEF RowsSame, SameWorker
    <3>1. x.period \in Periods /\ Same(x.rec, per[x.period])
      BY <1>p, HandFacts DEF RowsFresh, RowsSame, Row
    <3>2. per[x.period] \in Period /\ per'[x.period] \in Period
      BY <3>1 DEF TypeInv, StoreInv
    <3>3. QED
      BY <3>1, <3>2, PeriodTouched, StampedFacts DEF Period
  <2>3. ASSUME e \notin contested', pc[v] # "read event" PROVE Sends(v)'
    <3>1. Sends(v)
      BY <1>p, <2>e, <2>3 DEF RowsFresh, Grows
    <3>2. Exports(v, e) /\ Exports(v, e)'
      BY <1>p, <1>s, <2>e, <2>3, ExportsSyncing DEF SameWorker, Exports
    <3>3. ~Exports(w, e)
      BY <2>3, <3>2 DEF HistoryInv, Contested, Grows
    <3>4. Orange(e)' /\ evt'[e].sid = evt[e].sid
      BY <2>3, <2>e, <3>1, <3>3, EventTouched DEF Sends
    <3>5. pc[v] = "write back" => sid[v] \in DOMAIN ses /\ NitcStays(sid[v])
      <4>1. pc[v] = "write back" => sid[v] \in DOMAIN ses /\ ses[sid[v]].ev = e
        BY <1>p, <2>e DEF NitcInv, NitcInHand
      <4>2. QED
        BY <3>3, <4>1, NitcTouched
    <3>6. ASSUME NEW p \in Periods \ shared', Marked(p, e)' PROVE Covers(v, p)'
      <4>1. per'[p] = per[p]
        <5> SUFFICES ASSUME per'[p] # per[p] PROVE FALSE
          OBVIOUS
        <5>1. /\ Has(w, p) /\ per'[p].ev = e
              /\ \/ per'[p].ev \in {None, per[p].ev}
                 \/ Exports(w, per'[p].ev)
                 \/ Has(w, p)'
          BY <3>6, PeriodTouched DEF Marked
        <5>2. CASE per[p].ev = e
          <6>1. Has(v, p)
            BY <3>2, <5>2 DEF Has, Exports
          <6>2. QED
            BY <3>6, <5>1, <6>1 DEF HistoryInv, Shared, Grows
        <5>3. CASE Has(w, p)'
          <6>1. Has(v, p)'
            BY <3>2, <5>1 DEF Has, Exports
          <6>2. p \in Shared'
            BY <5>3, <6>1 DEF Shared
          <6>3. QED
            BY <3>6, <6>2 DEF HistoryInv
        <5>4. QED
          BY <3>3, <5>1, <5>2, <5>3, EventFacts
      <4>2. Marked(p, e) /\ p \notin shared
        BY <3>6, <4>1 DEF Marked, Wanted, Live, Eligible, Grows
      <4>3. Covers(v, p)
        BY <2>e, <3>1, <4>2 DEF Sends
      <4>4. QED
        BY <1>s, <3>5, <4>1, <4>3 DEF Covers, SameWorker, EntryOf, NitcStays
    <3>7. QED
      BY <1>s, <2>1, <2>e, <3>1, <3>4, <3>5, <3>6 DEF Sends, SameWorker, NitcStays
  <2>4. CASE pc[v] = "read event"
    BY <1>s, <2>2, <2>4 DEF RowsFresh, Sends, Covers, SameWorker
  <2>5. QED
    BY <2>1, <2>2, <2>3, <2>4 DEF RowsFresh
<1>n. CASE pc[v] \notin Phase2
  BY <1>s, <1>n DEF RowsFresh, SameWorker
<1>q. QED
  BY <1>p, <1>n

-----------------------------------------------------------------------------
(* All steps *)

GreenInv == Numbered /\ Fresh /\ GreenUnlessShared

\* An idle invocation has nothing that could be stale.
LEMMA IdleIsFresh ==
    ASSUME NEW w \in Workers, pc'[w] = "idle"
    PROVE  GotFresh(w)' /\ RowsFresh(w)'
  BY DEF GotFresh, GotSame, RowsFresh, Phase1, Phase2

LEMMA WorkerGreen ==
    ASSUME IInv, TypeInv', VersionInv, Numbered, Fresh, GreenUnlessShared, Grows,
           NEW w \in Workers, WorkerNext(w) \/ Crash(w)
    PROVE  GotFresh(w)' /\ RowsFresh(w)' /\ GreenUnlessShared'
<1> USE DEF IInv
<1>1. ASSUME NEW m \in BagToSet(queue), Receive(w, m)
      PROVE  GotFresh(w)' /\ RowsFresh(w)' /\ GreenUnlessShared'
  <2>1. /\ pc[w] = "idle" /\ pc'[w] \in {"read period", "read event"} /\ UNCHANGED <<per, evt, ses, rows>>
    BY <1>1, ReceiveStays DEF Receive
  <2>2. GreenUnlessShared'
    BY <2>1, OnePeriodGreen
  <2>3. GotFresh(w)'
    BY <2>1 DEF GotFresh, GotSame, OnItsWay, HasDesired, Phase1
  <2>4. RowsFresh(w)'
    BY <2>1 DEF RowsFresh, RowsSame, Sends, Phase2, HasRows, Covers
  <2>5. QED
    BY <2>2, <2>3, <2>4
<1>2. CASE AssignPeriod(w)
  BY <1>2, Phase1Green
<1>3. CASE SyncEvent(w)
  <2>1. GotFresh(w)'
    <3>1. pc'[w] \in {"idle"} \cup Phase2
      BY <1>3, Phase2Stays
    <3>2. pc'[w] \notin Phase1
      BY <3>1 DEF Phase1, Phase2
    <3>3. QED
      BY <3>2 DEF GotFresh, GotSame
  <2>2. QED
    BY <1>3, <2>1, Phase2ReadsGreen, PutGreen, WriteBackGreen DEF SyncEvent
<1>4. CASE Crash(w)
  <2>1. pc'[w] = "idle" /\ UNCHANGED <<per, evt, ses>>
    BY <1>4, ResetEffect DEF Crash, Return, Gone
  <2>2. QED
    BY <2>1, IdleIsFresh, OnePeriodGreen
<1>5. QED
  BY <1>1, <1>2, <1>3, <1>4 DEF WorkerNext

\* A step that touches no row and no invocation, and in SES at most adds a NITC.
LEMMA StillGreen ==
    ASSUME IInv, TypeInv', Fresh, GreenUnlessShared, Grows, UNCHANGED <<per, evt, worker>>, NitcsStay
    PROVE  Fresh' /\ GreenUnlessShared'
<1> USE DEF IInv
<1>1. GreenUnlessShared'
  <2>1. \A p \in Periods : GreenOf(p)'
    BY GreenStays
  <2>2. QED
    BY <2>1, GreenAll
<1>2. ASSUME NEW w \in Workers PROVE GotFresh(w)'
  BY DEF worker, Fresh, GotFresh, GotSame, OnItsWay, Grows, Same, Orange, Target, Desired, EventOf
<1>3. ASSUME NEW w \in Workers PROVE RowsFresh(w)'
  <2>1. RowsFresh(w) /\ Syncing(w)' = Syncing(w)
    BY DEF Fresh, worker, Syncing
  <2>2. RowsSame(w) => RowsSame(w)'
    BY DEF worker, RowsSame, Same
  <2>3. ASSUME Sends(w), pc[w] \in Phase2 PROVE Sends(w)'
    <3>1. pc[w] = "write back" => sid[w] \in DOMAIN ses /\ NitcStays(sid[w])
      BY DEF NitcInv, NitcInHand, NitcsStay, Phase2
    <3>2. ASSUME NEW p \in Periods \ shared', Marked(p, Syncing(w))' PROVE Covers(w, p)'
      <4>1. Marked(p, Syncing(w)) /\ p \notin shared
        BY <2>1, <3>2 DEF Marked, Wanted, Live, Eligible, Grows
      <4>2. Covers(w, p)
        BY <2>3, <4>1 DEF Sends
      <4>3. QED
        BY <3>1, <4>2 DEF Covers, worker, EntryOf, NitcStays
    <3>3. QED
      BY <2>1, <2>3, <3>1, <3>2 DEF Sends, worker, Orange, NitcStays
  <2>4. QED
    BY <2>1, <2>2, <2>3 DEF RowsFresh, worker, Grows
<1>4. QED
  BY <1>1, <1>2, <1>3 DEF Fresh

LEMMA NextGreen ==
    ASSUME IInv, VersionInv, HistoryInv, HistoryInv', ExportedBelow, Grows, GreenInv, [Next]_vars
    PROVE  GreenInv'
<1> USE DEF IInv
<1>t. TypeInv' /\ Numbered /\ Fresh /\ GreenUnlessShared
  BY NextTypeInv DEF GreenInv
<1>n. Numbered'
  BY <1>t, NextNumbered
<1>v. EventsGrow
  BY NextEventsGrow
<1>1. CASE Edit \/ (\E x \in Editors : EditorNext(x) \/ EditorFails(x)) \/ (\E p \in Periods : Backfill(p))
  BY <1>1, <1>t, <1>n, EditorEffects, EditorGreen DEF GreenInv
<1>2. ASSUME NEW w \in Workers, WorkerNext(w) \/ Crash(w)
      PROVE  GreenInv'
  <2>1. GotFresh(w)' /\ RowsFresh(w)' /\ GreenUnlessShared'
    BY <1>2, <1>t, WorkerGreen
  <2>2. OthersSame(w)
    BY <1>2, OneWorkerSteps
  <2>3. ASSUME NEW v \in Workers \ {w} PROVE GotFresh(v)' /\ RowsFresh(v)'
    BY <1>2, <1>t, <1>v, <2>2, OtherGot, OtherRows DEF Fresh
  <2>4. QED
    BY <1>n, <2>1, <2>3 DEF GreenInv, Fresh
<1>3. ASSUME NEW w \in Workers, CreateRetried(w)
      PROVE  GreenInv'
  <2>1. UNCHANGED <<per, evt, worker>> /\ NewNitc(w) /\ Syncing(w) \in Events
    BY <1>3, HandFacts DEF CreateRetried, At, Phase2
  <2>2. NitcsStay
    BY <2>1, NewNitcFacts DEF NitcsStay, NitcStays
  <2>3. QED
    BY <1>t, <1>n, <2>1, <2>2, StillGreen DEF GreenInv
<1>4. CASE UNCHANGED vars \/ (\E m \in BagToSet(queue) : Duplicate(m))
  <2>1. UNCHANGED <<per, evt, ses, worker>>
    BY <1>4 DEF vars, Duplicate
  <2>2. NitcsStay
    BY <2>1 DEF NitcsStay, NitcStays
  <2>3. QED
    BY <1>t, <1>n, <2>1, <2>2, StillGreen DEF GreenInv
<1>5. QED
  BY <1>1, <1>2, <1>3, <1>4 DEF Next, Fault

LEMMA InitGreen == Init => Numbered /\ Fresh /\ GreenUnlessShared
<1> SUFFICES ASSUME Init PROVE Numbered /\ Fresh /\ GreenUnlessShared
  OBVIOUS
<1>1. Numbered
  BY DEF Init, Numbered, QueueNumbered, NumberedFor, Phase2, EmptyBag, SetToBag
<1>2. Fresh
  BY DEF Init, Fresh, GotFresh, GotSame, RowsFresh, Phase1, Phase2
<1>3. GreenUnlessShared
  BY DEF Init, NoPeriod, GreenUnlessShared, Wanted
<1>4. QED
  BY <1>1, <1>2, <1>3

\* The green dot does not lie, unless two invocations have had the period or have exported its
\* event at once, whatever the mutation handlers, the backfill, crashes, lost answers, duplicate
\* messages and the other invocations do meanwhile: nitc_export_status compares two pairs of
\* versions and knows nothing of SES, and is right because each mutation leaves its period behind
\* its exported version and Phase 1 leaves the event of a moved period behind its synced one.
\* Two invocations that share a period can break it: one can record the version of a period it
\* has sent while the other is moving that period to an event still marked as synced.
THEOREM GreenIsTrue == HSpec => []GreenUnlessShared
<1> DEFINE I == IInv /\ VersionInv /\ HistoryInv /\ ExportedBelow /\ GreenInv
<1>1. HInit => I
  <2> SUFFICES ASSUME HInit PROVE I
    OBVIOUS
  <2>1. ExportedBelow
    BY DEF HInit, Init, ExportedBelow, ExportedBelowOf, RowsHeld, Phase1
  <2>2. QED
    BY <2>1, InitIInv, InitHistory, InitGreen DEF HInit, GreenInv
<1>2. I /\ [HNext]_hvars => I'
  <2> SUFFICES ASSUME I, [HNext]_hvars PROVE I'
    OBVIOUS
  <2>1. [Next]_vars /\ HistoryInv' /\ Grows
    BY HistoryGrows DEF Grows
  <2>2. IInv' /\ VersionInv' /\ ExportedBelow'
    BY <2>1, NextIInv, NextVersionInv, NextExportedBelow DEF IInv, Grows
  <2>3. GreenInv'
    BY <2>1, NextGreen
  <2>4. QED
    BY <2>1, <2>2, <2>3
<1>3. I => GreenUnlessShared
  BY DEF GreenInv
<1> HIDE DEF I
<1>4. QED
  BY <1>1, <1>2, <1>3, PTL DEF HSpec
=============================================================================
