----------------------------- MODULE NitcHistory -----------------------------
(***************************************************************************)
(* NitcExport with a record of what its invocations have met: each other,   *)
(* and answers that were lost.  Two invocations are deployed and nothing     *)
(* serializes them, so what the export keeps, it keeps for the periods and   *)
(* events that were spared such a meeting.  The record restricts no step.    *)
(***************************************************************************)
EXTENDS NitcEnvironments

VARIABLES
    shared,      \* periods that two invocations have had at once
    contested,   \* events that two invocations have exported at once
    reposted     \* events for which SES has created a NITC whose id nobody has

history == <<shared, contested, reposted>>
hvars == <<vars, history>>

\* The invocation has found the event due for an export and is at it.
Exports(w, e) ==
    /\ pc[w] \notin {"idle", "read event"}
    /\ hand[w].body.kind = "event_export" /\ hand[w].body.event = e

\* The period is the one of the invocation's message, or one of the event it exports.
Has(w, p) ==
    /\ pc[w] # "idle"
    /\ \/ hand[w].body = PeriodMsg(p)
       \/ p \in ids[w]
       \/ \E e \in Events : Exports(w, e) /\ per[p].ev = e

Shared == {p \in Periods : \E v, w \in Workers : v # w /\ Has(v, p) /\ Has(w, p)}
Contested == {e \in Events : \E v, w \in Workers : v # w /\ Exports(v, e) /\ Exports(w, e)}

\* The POST is repeated although SES had answered it, or the invocation ends before it has
\* stored the id.
Reposts(w) == CreateRetried(w) \/ (At(w, "set ses id") /\ Crash(w))
Reposted == {e \in Events : \E w \in Workers : Exports(w, e) /\ Reposts(w)}

HInit == Init /\ shared = {} /\ contested = {} /\ reposted = {}

HNext ==
    /\ Next
    /\ shared' = shared \cup Shared'
    /\ contested' = contested \cup Contested'
    /\ reposted' = reposted \cup Reposted

HSpec == HInit /\ [][HNext]_hvars

-----------------------------------------------------------------------------
(* Properties *)

\* A period's exported version only grows, unless two invocations have had the period at once:
\* skip_or_detach and the clean-up of Phase 2 drop the pointers of a period but keep the
\* version, which the backfill compares with, and an edit between the read of a row and its
\* write-back does not make the write-back step behind what was recorded.
ExportedNeverRegresses == [][\A p \in Periods \ shared' : per'[p].exp >= per[p].exp]_hvars

\* An event's synced_version only grows, unless two invocations have exported the event at
\* once: get_or_create resets no row that exists, and a late or repeated event_export does not
\* mark an older version.
SyncedNeverRegresses == [][\A e \in Events \ contested' : evt'[e].synced >= evt[e].synced]_hvars

\* SES has one NITC for an event, unless two invocations have exported the event at once or a
\* POST for it has lost its answer: crashes anywhere else, redelivery and repeated messages find
\* the id that was stored.
OneNitcPerEvent ==
    \A i, j \in DOMAIN ses :
        ses[i].ev = ses[j].ev => i = j \/ ses[i].ev \in contested \cup reposted

\* A participant id is sent to the NITC that issued it, unless two invocations have had the
\* period at once: Phase 2 lists the ids of its event and reads the rows later, and a row that
\* has come off the event by then brings no id of another NITC into the PUT.
SentToItsIssuer ==
    \A w \in Workers : At(w, "put") =>
        \A x \in LiveRows(rows[w]) :
            x.rec.part # 0 => x.period \in shared \/ ses[x.rec.part].ev = Syncing(w)

\* A green dot does not lie, unless two invocations have had the period or have exported its
\* event at once.
GreenUnlessShared ==
    \A p \in Periods \ shared :
        Wanted(per[p]) /\ ShownSynced(per[p]) /\ per[p].ev \notin contested =>
            /\ evt[per[p].ev].sid \in DOMAIN ses
            /\ EntryOf(p, per[p]) \in ses[evt[per[p].ev].sid].roster
=============================================================================
