------------------------------ MODULE LivePeriods ------------------------------
(***************************************************************************)
(* The list of who is signed in that one kiosk shows, against the period     *)
(* rows of its location.                                                     *)
(*                                                                         *)
(*   server    mutation handlers write a row, publish period.opened or       *)
(*             period.closed to the location's Ably channel (best effort)    *)
(*             and answer the kiosk that asked.                              *)
(*   channel   messages not published yet, or published: they can be late,   *)
(*             lost, repeated and reordered.                                 *)
(*   kiosk     LivePeriodsProvider.tsx and livePeriods.ts: a map from period *)
(*             id to the newest version heard of, fed by messages, by the    *)
(*             kiosk's own results and by snapshots of the location_open     *)
(*             index.  While a resync is in flight messages are buffered.    *)
(*                                                                         *)
(* A JavaScript callback runs to its end, so it is one action.  Times of     *)
(* receipt are kept as the order they are compared for: a snapshot fetch     *)
(* carries the periods whose entry was written after it was requested.       *)
(***************************************************************************)
EXTENDS Naturals, FiniteSets, Sequences, SequencesExt

CONSTANTS
    Periods,       \* periods of the location
    None,          \* no entry, no buffer
    IndexLags,     \* the location_open index may lag behind the table (it does)
    Crossing,      \* snapshot requests may be served out of order (they may)
    MaxVersion,    \* bound: version of a period
    MaxFetches,    \* bound: snapshot fetches in flight at once
    MaxFailures,   \* bound: snapshot fetches that fail
    MaxDrops       \* bound: interruptions of the channel or connection, and restarts

ASSUME ConstantsAssumption ==
    /\ IndexLags \in BOOLEAN /\ Crossing \in BOOLEAN
    /\ MaxVersion \in Nat \ {0} /\ MaxFetches \in Nat \ {0}
    /\ MaxFailures \in Nat /\ MaxDrops \in Nat
    /\ None \notin [ver : Nat, open : BOOLEAN, old : BOOLEAN]
    /\ \A S \in SUBSET [p : Periods, ver : 0..MaxVersion, open : BOOLEAN] : S # None

VARIABLES
    srv,       \* the period rows: version, and whether location_open is present
    idx,       \* the rows as the location_open index has them
    net,       \* messages a handler has yet to publish, or that are on the channel
    replies,   \* results of this kiosk's own mutations, on their way to it
    list,      \* kiosk: LivePeriodsState
    queue,     \* kiosk: messageQueue, None while nothing is buffered
    fetches,   \* kiosk: snapshot fetches in flight, in the order requested
    mode,      \* kiosk: the status of KioskRealtimeProvider
    chan,      \* kiosk: state of the location's channel
    connected, \* kiosk: state of the connection the channel is on
    polling,   \* kiosk: the fallback poll's timer is set
    live,      \* kiosk: `live`, which the status dialog shows
    covered,   \* history: since continuity was last lost a fetch has ended, with a snapshot
               \* or in a failure
    failures, drops   \* how much of each bound is used

server == <<srv, idx>>
link == <<mode, chan, connected, polling, live>>
used == <<failures, drops>>
vars == <<server, net, replies, list, queue, fetches, link, covered, used>>

-----------------------------------------------------------------------------
(* Types *)

Stored  == [ver : Nat, open : BOOLEAN]     \* version 0: the row does not exist
Message == [p : Periods, ver : Nat, open : BOOLEAN]
Entry   == [ver : Nat \ {0}, open : BOOLEAN,
            old : BOOLEAN]                 \* a tombstone closed longer ago than the TTL
Fetch   == [kind : {"poll", "resync"},
            read : BOOLEAN,                \* the server has run the query
            rows : [Periods -> Nat],       \* version of each open row; 0: not in the snapshot
            since : SUBSET Periods,        \* entries with receivedAt > requestedAt
        stale : SUBSET Periods]        \* history: those it may lack only because the index
                                       \* was behind, or an earlier request still unserved

TypeOK ==
    /\ srv \in [Periods -> Stored] /\ idx \in [Periods -> Stored]
    /\ net \subseteq Message /\ replies \subseteq Message
    /\ list \in [Periods -> Entry \cup {None}]
    /\ queue = None \/ queue \subseteq Message
    /\ fetches \in Seq(Fetch)
    /\ mode \in {"connecting", "unavailable", "ready"}
    /\ chan \in {"new", "attaching", "attached", "down"}
    /\ connected \in BOOLEAN /\ polling \in BOOLEAN /\ live \in BOOLEAN
    /\ covered \in BOOLEAN
    /\ failures \in Nat /\ drops \in Nat

NoRows == [p \in Periods |-> 0]

Init ==
    /\ srv = [p \in Periods |-> [ver |-> 0, open |-> FALSE]] /\ idx = srv
    /\ net = {} /\ replies = {}
    /\ list = [p \in Periods |-> None] /\ queue = None /\ fetches = <<>>
    /\ mode = "connecting" /\ chan = "new" /\ connected = FALSE
    /\ polling = FALSE /\ live = FALSE /\ covered = FALSE
    /\ failures = 0 /\ drops = 0

-----------------------------------------------------------------------------
(* livePeriods.ts: what a message and a snapshot do to the list *)

Tombstone(e) == e # None /\ ~e.open
Shown(p) == list[p] # None /\ list[p].open

\* Defect: a message of the version already known is applied again, and an older one too.
AnyVersion(l, m) == TRUE

\* `existing.version >= payload.version` changes nothing.
Newer(l, m) == l[m.p] = None \/ l[m.p].ver < m.ver

EntryOf(m) == [ver |-> m.ver, open |-> m.open, old |-> FALSE]

\* Messages applied one after the other: by the version rule the newest of each period wins,
\* whatever their order.
Accepted(l, S, p) == {m \in S : m.p = p /\ Newer(l, m)}
Newest(S) == CHOOSE m \in S : \A n \in S : n.ver <= m.ver
Apply(l, S) ==
    [p \in Periods |-> IF Accepted(l, S, p) = {} THEN l[p] ELSE EntryOf(Newest(Accepted(l, S, p)))]
Touched(l, S) == {p \in Periods : Accepted(l, S, p) # {}}

Wins(l, f, p) == l[p] # None /\ l[p].ver >= f.rows[p]

\* Defect: a period the snapshot does not mention is taken from it.
TakenIfAbsent(l, f) == {p \in Periods : ~Wins(l, f, p)}

Taken(l, f) == {p \in Periods : f.rows[p] > 0 /\ ~Wins(l, f, p)}

\* Defect: an entry is dropped although it was written after the snapshot was requested.
SurvivesIfClosed(l, f, p) == Tombstone(l[p])

\* Defect: only a newer entry survives, so a tombstone does not.
SurvivesIfNew(l, f, p) == l[p] # None /\ p \in f.since

\* Defect: an entry the snapshot does not mention is never dropped.
SurvivesAlways(l, f, p) == l[p] # None

\* An entry the snapshot does not mention stays if it is a tombstone or younger than the request.
Survives(l, f, p) == Tombstone(l[p]) \/ (l[p] # None /\ p \in f.since)

Pruned(e) == IF Tombstone(e) /\ e.old THEN None ELSE e

ApplySnapshot(l, f) ==
    [p \in Periods |->
        IF p \in Taken(l, f) THEN EntryOf([p |-> p, ver |-> f.rows[p], open |-> TRUE])
        ELSE IF f.rows[p] > 0 \/ Survives(l, f, p) THEN Pruned(l[p]) ELSE None]

-----------------------------------------------------------------------------
(* Snapshot fetches in flight *)

NewFetch(kind) == [kind |-> kind, read |-> FALSE, rows |-> NoRows, since |-> {},
                   stale |-> {}]

\* Entries of P are written now.
Stamped(fs, P) == [i \in DOMAIN fs |-> [fs[i] EXCEPT !.since = @ \cup P]]

\* Entries of P are stamped with the time the fetch at position n was requested.
StampedAs(fs, n, P) ==
    [i \in DOMAIN fs |-> [fs[i] EXCEPT !.since = IF i < n THEN @ \cup P ELSE @ \ P]]

Room == Len(fetches) < MaxFetches

Resyncs(fs) == {i \in DOMAIN fs : fs[i].kind = "resync"}

\* startPolling: unless the timer is set already, poll at once and set it.
StartPolling(fs) ==
    /\ polling' = TRUE
    /\ fetches' = IF polling THEN fs ELSE Append(fs, NewFetch("poll"))
    /\ Len(fetches') <= MaxFetches

\* `resyncInFlight === 0` after this resync: only the last one replays the buffer.
Flushes(fs) == Resyncs(fs) = {}

\* Defect: the buffer is dropped and not replayed.
NothingReplayed(fs) == {}

\* The messages the end of a resync replays.
Replayed(fs) == IF Flushes(fs) /\ queue # None THEN queue ELSE {}

-----------------------------------------------------------------------------
(* The server *)

\* A new row of version 1.
Started(p) ==
    /\ srv[p].ver = 0
    /\ srv' = [srv EXCEPT ![p] = [ver |-> 1, open |-> TRUE]]

\* Any write that ends or deletes a period, or edits one that has ended.
Ended(p) ==
    /\ srv[p].ver \in 1..(MaxVersion - 1)
    /\ srv' = [srv EXCEPT ![p] = [ver |-> @.ver + 1, open |-> FALSE]]

\* A sign-in or sign-out publishes; the admin mutations do if the row they read was open.
\* A kiosk is answered, unless the handler fails after its write.
Write(p) ==
    /\ Started(p) \/ Ended(p)
    /\ \E publishes \in BOOLEAN, answers \in BOOLEAN :
          LET m == {[p |-> p, ver |-> srv'[p].ver, open |-> srv'[p].open]} IN
          /\ srv[p].open \/ srv'[p].open \/ answers => publishes
          /\ net' = IF publishes THEN net \cup m ELSE net
          /\ replies' = IF answers THEN replies \cup m ELSE replies
    /\ idx' = IF IndexLags THEN idx ELSE srv'
    /\ UNCHANGED <<list, queue, fetches, link, covered, used>>

\* The index catches up with a row.
Replicate(p) ==
    /\ idx[p] # srv[p]
    /\ idx' = [idx EXCEPT ![p] = srv[p]]
    /\ UNCHANGED <<srv, net, replies, list, queue, fetches, link, covered, used>>

-----------------------------------------------------------------------------
(* Messages and results reach the kiosk *)

Hear(S) ==
    /\ list' = Apply(list, S)
    /\ fetches' = Stamped(fetches, Touched(list, S))

\* A message of an attached channel, which Ably may deliver again.  The admin mutations read
\* the row again before they publish, so it may carry the version of a later write.
Deliver(m, again) ==
    /\ mode = "ready" /\ chan = "attached" /\ connected
    /\ m \in net
    /\ net' = IF again THEN net ELSE net \ {m}
    /\ \E v \in IF m.open THEN {m.ver} ELSE (m.ver)..(srv[m.p].ver) :
          LET heard == [m EXCEPT !.ver = v] IN
          IF queue # None
          THEN queue' = queue \cup {heard} /\ UNCHANGED <<list, fetches>>
          ELSE Hear({heard}) /\ UNCHANGED queue
    /\ UNCHANGED <<server, replies, link, covered, used>>

\* Publishing is best effort, and so is Ably while the channel is not attached.
Lose(m) ==
    /\ m \in net /\ net' = net \ {m}
    /\ UNCHANGED <<server, replies, list, queue, fetches, link, covered, used>>

\* applyOwnResult: never buffered.
OwnResult(m) ==
    /\ m \in replies /\ replies' = replies \ {m}
    /\ Hear({m})
    /\ UNCHANGED <<server, net, queue, link, covered, used>>

-----------------------------------------------------------------------------
(* Snapshots *)

\* The poll's timer.
Poll ==
    /\ polling /\ Room
    /\ fetches' = Append(fetches, NewFetch("poll"))
    /\ UNCHANGED <<server, net, replies, list, queue, link, covered, used>>

\* Defect: the channel attaches and no snapshot is fetched.
NoResync == UNCHANGED <<fetches, queue>>

\* resyncFromSnapshot, up to its await.
Resync ==
    /\ Room
    /\ fetches' = Append(fetches, NewFetch("resync"))
    /\ queue' = IF queue = None THEN {} ELSE queue

\* The ten-minute timer: only while the channel is attached.
ResyncTimer ==
    /\ mode = "ready" /\ chan = "attached"
    /\ Resync
    /\ UNCHANGED <<server, net, replies, list, link, covered, used>>

\* What the snapshot served to the fetch at position i may lack though it should not.
Stale(i) ==
    {p \in Periods :
        /\ ~idx[p].open
        /\ srv[p].open \/ \E j \in 1..(i - 1) : ~fetches[j].read}

\* The server runs the query of periods(onlyActive: true) on the index.
ReadSnapshot(i) ==
    /\ i \in DOMAIN fetches /\ ~fetches[i].read
    /\ Crossing \/ \A j \in 1..(i - 1) : fetches[j].read
    /\ fetches' = [fetches EXCEPT ![i].read = TRUE, ![i].stale = Stale(i),
           ![i].rows = [p \in Periods |-> IF idx[p].open THEN idx[p].ver ELSE 0]]
    /\ UNCHANGED <<server, net, replies, list, queue, link, covered, used>>

\* What is left in flight when the snapshot of the fetch at position i has been applied.
Rest(i) == RemoveAt(StampedAs(fetches, i, Taken(list, fetches[i])), i)

PollArrives(i) ==
    /\ i \in DOMAIN fetches /\ fetches[i].read /\ fetches[i].kind = "poll"
    /\ list' = ApplySnapshot(list, fetches[i])
    /\ fetches' = Rest(i)
    /\ covered' = TRUE
    /\ UNCHANGED <<server, net, replies, queue, link, used>>

\* Defect: a resync that succeeds always stops the fallback poll.
AlwaysSettles == TRUE

\* `if (channelAttached)`
Settles == chan = "attached"

ResyncArrives(i) ==
    /\ i \in DOMAIN fetches /\ fetches[i].read /\ fetches[i].kind = "resync"
    /\ LET l == ApplySnapshot(list, fetches[i]) IN
       /\ list' = Apply(l, Replayed(Rest(i)))
       /\ fetches' = Stamped(Rest(i), Touched(l, Replayed(Rest(i))))
    /\ queue' = IF Flushes(Rest(i)) THEN None ELSE queue
    /\ polling' = (polling /\ ~Settles)
    /\ live' = (live \/ Settles)
    /\ covered' = TRUE
    /\ UNCHANGED <<server, net, replies, mode, chan, connected, used>>

FetchFails ==
    /\ failures < MaxFailures /\ failures' = failures + 1
    /\ covered' = TRUE
    /\ UNCHANGED drops

PollFails(i) ==
    /\ i \in DOMAIN fetches /\ fetches[i].kind = "poll"
    /\ fetches' = RemoveAt(fetches, i)
    /\ FetchFails
    /\ UNCHANGED <<server, net, replies, list, queue, link>>

\* The poll it falls back to is requested in the millisecond the buffer is replayed.
ResyncFails(i) ==
    /\ i \in DOMAIN fetches /\ fetches[i].kind = "resync"
    /\ LET fs == RemoveAt(fetches, i) IN
       /\ list' = Apply(list, Replayed(fs))
       /\ StartPolling(Stamped(fs, Touched(list, Replayed(fs))))
       /\ queue' = IF Flushes(fs) THEN None ELSE queue
    /\ live' = FALSE
    /\ FetchFails
    /\ UNCHANGED <<server, net, replies, mode, chan, connected>>

-----------------------------------------------------------------------------
(* The channel, its connection, and the effect that holds them *)

Dropping == drops < MaxDrops /\ drops' = drops + 1 /\ UNCHANGED failures

\* The effect runs anew: what the last run started is cancelled.
Enter(m, poll) ==
    /\ mode' = m /\ chan' = "new"
    /\ polling' = poll /\ live' = FALSE /\ covered' = FALSE
    /\ queue' = None
    /\ fetches' = IF poll THEN <<NewFetch("poll")>> ELSE <<>>

\* KioskRealtimeProvider has a connection to share, or it cannot have one.
Settle ==
    /\ mode = "connecting"
    /\ \/ Enter("unavailable", TRUE) /\ UNCHANGED connected
       \/ /\ connected' \in BOOLEAN
          /\ \E poll \in BOOLEAN : Enter("ready", poll /\ ~connected')
    /\ UNCHANGED <<server, net, replies, list, used>>

\* retry, or another session configuration.
Restart ==
    /\ \/ Enter("connecting", FALSE) /\ connected' = FALSE
       \/ mode = "ready" /\ Enter("ready", FALSE) /\ UNCHANGED connected
    /\ Dropping
    /\ UNCHANGED <<server, net, replies, list>>

\* "attached" without continuity, which the first one always is.
Attached ==
    /\ mode = "ready" /\ connected /\ chan # "attached"
    /\ chan' = "attached" /\ covered' = FALSE
    /\ Resync
    /\ UNCHANGED <<server, net, replies, list, mode, connected, polling, live, used>>

\* "attached" with `resumed`.
Resumed ==
    /\ mode = "ready" /\ connected /\ chan = "attaching"
    /\ chan' = "attached" /\ polling' = FALSE /\ live' = TRUE
    /\ UNCHANGED <<server, net, replies, list, queue, fetches, mode, connected, covered, used>>

\* Ably attaches a channel again: not one of the fallback states.
Reattaching ==
    /\ mode = "ready" /\ chan = "attached"
    /\ chan' = "attaching"
    /\ Dropping
    /\ UNCHANGED <<server, net, replies, list, queue, fetches, mode, connected, polling, live, covered>>

\* "detached", "suspended", "failed".
ChannelFails ==
    /\ mode = "ready" /\ chan # "down"
    /\ chan' = "down" /\ live' = FALSE
    /\ StartPolling(fetches)
    /\ Dropping
    /\ UNCHANGED <<server, net, replies, list, queue, mode, connected, covered>>

\* The connection drops; its channels keep their state for now.
ConnectionDrops ==
    /\ mode = "ready" /\ connected
    /\ connected' = FALSE /\ live' = FALSE
    /\ StartPolling(fetches)
    /\ Dropping
    /\ UNCHANGED <<server, net, replies, list, queue, mode, chan, covered>>

\* The connection is back and attaches its channels again.
ConnectionReturns ==
    /\ mode = "ready" /\ ~connected
    /\ connected' = TRUE
    /\ chan' = IF chan = "attached" THEN "attaching" ELSE chan
    /\ UNCHANGED <<server, net, replies, list, queue, fetches, mode, polling, live, covered, used>>

\* More than TOMBSTONE_TTL_MS (24 h) pass.  No message, request or lag lasts that long.
DayPasses ==
    /\ net = {} /\ replies = {} /\ fetches = <<>> /\ idx = srv
    /\ list' = [p \in Periods |-> IF Tombstone(list[p]) THEN [list[p] EXCEPT !.old = TRUE]
                                  ELSE list[p]]
    /\ UNCHANGED <<server, net, replies, queue, fetches, link, covered, failures, drops>>

-----------------------------------------------------------------------------
Network ==
    \/ \E p \in Periods : Write(p) \/ Replicate(p)
    \/ \E m \in net : Lose(m) \/ \E again \in BOOLEAN : Deliver(m, again)
    \/ \E m \in replies : OwnResult(m)

Snapshots ==
    \/ Poll \/ ResyncTimer
    \/ \E i \in DOMAIN fetches :
          \/ ReadSnapshot(i)
          \/ PollArrives(i) \/ ResyncArrives(i)
          \/ PollFails(i) \/ ResyncFails(i)

Channel ==
    \/ Settle \/ Restart
    \/ Attached \/ Resumed \/ Reattaching \/ ChannelFails
    \/ ConnectionDrops \/ ConnectionReturns

Next == Network \/ Snapshots \/ Channel \/ DayPasses

Spec == Init /\ [][Next]_vars

\* Requests end, the index catches up, messages do not stay under way for ever,
\* timers fire, and Ably goes on trying to connect and to attach.
Fairness ==
    /\ WF_vars(\E p \in Periods : Replicate(p))
    /\ WF_vars(\E m \in net : Lose(m) \/ Deliver(m, FALSE))
    /\ WF_vars(\E m \in replies : OwnResult(m))
    /\ WF_vars(Poll) /\ WF_vars(ResyncTimer)
    /\ WF_vars(\E i \in DOMAIN fetches : ReadSnapshot(i))
    /\ WF_vars(\E i \in DOMAIN fetches : PollArrives(i) \/ ResyncArrives(i))
    /\ WF_vars(Settle) /\ WF_vars(ConnectionReturns) /\ WF_vars(Attached \/ Resumed)

FairSpec == Spec /\ Fairness

-----------------------------------------------------------------------------
(* Properties *)

\* Once the kiosk has heard that a period is closed it never shows it again: not on a late,
\* repeated or reordered message, not on an old snapshot, not on an index that lags, and not
\* after the tombstone has been pruned (applyClosed, applySnapshot, pruneTombstones).
ClosedStaysClosed == \A p \in Periods : [](Tombstone(list[p]) => []~Shown(p))

\* Someone who is shown and still signed in does not flicker off the list, whichever
\* snapshots, own results and messages cross each other (receivedAt > requestedAt in
\* applySnapshot), but for a snapshot that lacks them because it was read from an index behind
\* on that row, or before one requested earlier.
NoFlicker ==
    [][\A p \in Periods :
          Shown(p) /\ srv'[p].open /\ ~Shown(p)' =>
              \E i \in DOMAIN fetches :
                  p \in fetches[i].stale /\ (PollArrives(i) \/ ResyncArrives(i))]_vars

\* A message buffered during a resync takes effect when the buffer goes, however many resyncs
\* overlap, unless the effect starts anew (resyncInFlight, messageQueue).
BufferedIsApplied ==
    [][\A m \in IF queue = None THEN {} ELSE queue :
          \/ chan' = "new"
          \/ queue' # None /\ m \in queue'
          \/ list'[m.p] # None /\ list'[m.p].ver >= m.ver]_vars

\* With realtime settled, a list that is not polled has a channel that is attached or about
\* to be: a resync that ends after the channel has gone does not stop the fallback poll.
PolledOrAttached ==
    mode = "ready" /\ ~polling => chan \in {"new", "attaching", "attached"}

\* "live" is never shown for a list that has missed messages, has had no snapshot since and
\* has none on the way, unless the fetch of one has failed since: what ends the channel's
\* fallback poll sees to it that a snapshot is under way or has come.
LiveMeansCaughtUp == live => covered \/ fetches # <<>>

\* With the sign-ins over, the kiosk shows exactly who is signed in, for good.
ShowsWhoIsHere == <>[](\A p \in Periods : Shown(p) <=> srv[p].open)
=============================================================================
