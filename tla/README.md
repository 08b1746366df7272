# Formal models of SES Login

SES Login records who is at an emergency-service unit: members sign in and out at iPad kiosks
or from the Tally app, the sign-ins become *activity periods*, and finished periods are exported
to the organisation's SES API as *NITCs* (non-incident records). The server is a Rust GraphQL
API on AWS Lambda over DynamoDB and SQS; kiosk, admin site and Tally are one TypeScript/React
bundle. This directory holds TLA+ models of the parts in which several processes, messages and
failures meet, the TLC configurations that check them, and TLAPS proofs.

Run a configuration with `tlc -config periods.cfg MCPeriods.tla`, check the proofs of a module with
`tlapm PeriodsProofs.tla`. `PROJECT.json` lists the runs, the mutants (one plausible bug per
property, which TLC must then find), the source lines behind every definition, and the hazards.

## 1. Inventory

| # | Component | State | Operations | What is hard | What makes it correct |
|---|---|---|---|---|---|
| 1 | **NITC export** (`nitc_export.rs`, `sqs.rs`, `bin/nitc-export-lambda.rs`, `enqueue_nitc_export` in `graphql/mutations.rs`, `infra/sqs_nitc.tf`) | `period` and `nitc_event` rows with version counters, the SQS queue and its dead letters, the NITCs in SES | handlers write a period, bump its event and queue; Phase 1 assigns a period to an event; Phase 2 PUTs an event's participant list; backfill | every database, queue and SES call is separate; delayed, reordered, repeated messages; redelivery after a failure anywhere | SES ends up with exactly the right entries, one NITC per event; the dot a member sees is true; participant ids never cross NITCs; every message ends |
| 2 | **Periods, sign-in and sign-out** (`graphql/mutations.rs`, `graphql/self_sign_in.rs`, `dynamodb.rs`, `audit.rs`) | `period` rows, the sparse attributes `location_open`/`location_live`, the audit log | scan, self sign-in and -out, guests, admin create/update/delete | look-up then write; a row read twice before it is written; two sparse indexes kept by every write path; a move that crosses a sign-out | the indexes hold the open and miss no undeleted period; a sign-out is told where the sign-in was and is audited |
| 3 | **Live list of a kiosk** (`realtime.rs`, `ably.rs`, `web/src/kiosk/lib/livePeriods.ts`, `components/LivePeriodsProvider.tsx`) | map from period id to version, open or tombstone, time received; the buffered messages | opened/closed messages, own results, snapshots (poll, resync, reattach) | lost, repeated, late messages; two snapshots in flight; messages between a snapshot's read and its arrival | a signed-out member does not come back; the list converges to the server's |
| 4 | **Member sync** (`member_sync.rs`, `bin/sync-members-lambda.rs`, `bin/dispatcher-lambda.rs`) | `person` rows with SES id, unit, `missing_since`; the time of each unit's last success | a daily run per unit: fetch, look up, read the roster, plan, write one call at a time | runs of two units overlap while a member moves between them; garbled pages; runs that stop half way | one row per member; nobody who is still a member is deleted; everybody ends up on their unit's roster or deleted |
| 5 | **Offline member feed** (`offline_sync.rs`, contact stamps in `dynamodb.rs`, `directory_sync.rs`, `clock.rs`) | a key of time and id on every person row and its index, the client's cursor | page, full sync, tombstones; a stamp after the units are rewritten | clocks that differ, writes that arrive late, twice or out of order; changes while paging | the cursor stands for what the device holds; in the end it has exactly the live members |
| 6 | **Badges** (`badges.rs`, `badge_store.rs`, `badge_nightly.rs`, `badge_congrats.rs`) | the badge state in a member's row, the record of the mail | compare-and-swap with retries by scans, admins and the nightly job; the evening's mail and its record | stale reads, conflicts, lost answers; a failure between mail and record | no event is lost or counted twice, a badge is celebrated once, a win mailed once |
| 7 | Directory and location sync (`directory_sync.rs`, `location_sync.rs`) | imported rows | plan, write | the rows of a member's units change one by one (in 5) | – |
| 8 | Kiosk scan dialog (`ScanState.ts`, `ScanController.tsx`) | dialog state, idle timers | keypad, scan, pick, sign out | a late answer after the dialog moved on | an answer is shown only to the scan it belongs to |
| 9 | Kiosk enrolment and session keys (`session_key.rs`, `session_retire.rs`, `auth.rs`) | session rows, key hashes, last seen | enrol, delete, reactivate, retire when unused | a retire decision on a stale last-seen | one in use is not retired |
| 10 | OAuth for MCP clients (`oauth.rs`, `oauth_http.rs`, `oauth_clients.rs`) | grants with the hash of the current refresh token | authorise, rotate by compare-and-swap, detect reuse, revoke | two refreshes at once, an answer that is lost and retried | a spent token never yields a second chain |
| 11 | Sign-in to Tally and the admin site (`tally_sign_in.rs`, `period_link.rs`, `passkey.rs`, `nonce.rs`) | one-time codes, attempts, challenges | send, verify, consume | attempt counters under concurrency | a code is used at most once |
| 12 | Trophies, Tally tools, audit log and digests, query layer, MCP server, command line, telemetry, infrastructure | one table each, or none | CRUD, mail, reads | – | – |

How they interact. Handlers of 2 write the rows that 1 and 6 work from (through SQS, and in line)
and publish to 3 through Ably; 3 also reads 2's rows through an eventually consistent index. The
promise 2 makes the others is a module of its own, `PeriodRows`. 4 and 7 write the person rows that 5
feeds to devices, beside the edits of admins; a badge write goes to the same row but takes no stamp.
9 to 11 authenticate the calls.

## 2. Modules

| Module | Models | Proofs |
|---|---|---|
| `NitcExport`, `MCNitcExport` | component 1, with the handlers of 2 as far as they edit a period | `NitcExportProofs` |
| `NitcEnvironments` | two restrictions on when edits and invocations overlap, under which the export settles | |
| `NitcHistory`, `MCNitcHistory` | `NitcExport` with a record of what its invocations have met; it restricts no step | `NitcExportProofs`, `NitcGreenProofs` |
| `PeriodRows` | what everybody may rely on about a period: open in its first version only, a new version per write | |
| `Periods`, `MCPeriods` | component 2; implements `PeriodRows` | `PeriodsProofs` |
| `LivePeriods`, `MCLivePeriods` | component 3, over rows that behave as `PeriodRows` says | `LivePeriodsProofs` |
| `MemberSync`, `MCMemberSync` | component 4 | `MemberSyncProofs` |
| `ContactFeed`, `MCContactFeed` | component 5, with the part of 7 that rewrites a member's units | `ContactFeedProofs` |
| `Badges`, `MCBadges` | component 6 | `BadgesProofs` |

The `MC` modules give TLC symmetries and restricted initial states. Definitions marked `\* Defect:` are plausible bugs (a dropped guard, a missing reset, a
swapped version). No action uses them; `PROJECT.json` pairs each with a definition it replaces and a
property that then fails, so that a property which cannot fail does not go unnoticed.

## 3. `NitcExport`: how it corresponds to the code

**State.** `per` and `evt` are the `period` and `nitc_event` tables, reduced to the attributes the
export reads or writes: the version `v`, `nitc_exported_version`, whether `end_time`, `deleted`
and `location_live` are present, the NITC group the category maps to, the slot (location and
Sydney date), `nitc_event_id`, and, for `nitc_participant_id`, the NITC that issued it. An event's
id is deterministic in location, group and date, so it is that pair. `ses` is SES: the NITCs
created, each with the participant list it was last PUT. `queue` is a bag of messages with their
receive counts, `dlq` the dead letters. `ed` holds, per mutation handler in progress, the next call
and what it has read; `pc`, `hand`, `got`, `oldv`, `newv`, `sid`, `ids`, `rows` hold the same per
Lambda invocation: they are the locals of `assign_period` and `sync_nitc_event`.

**Actions.** Each is one database, queue or SES call with the local code up to the next `await`, so
that any two handlers or invocations interleave between calls as they can in production.

| Code | Actions |
|---|---|
| `start_period_for_person_location`, `create_period` | `StartPeriod`, `CreatePeriod` |
| `sign_out_at_kiosk`, `update_period`, `update_period_time_category`, `delete_period`, `self_sign_out`: read, write | `ReadForEdit`, `ReadForSelfSignOut`; `WriteFields`, `WriteTimeCategory`, `DeletePeriod`, `RefuseSelfSignOut` |
| `enqueue_nitc_export` | `BumpOldEvent`, `EnqueuePeriodExport` |
| SQS, redrive policy, Lambda invocation | `Receive`, `Return`, `Crash`, `Duplicate` |
| `assign_period` (Phase 1) | `ReadPeriod`, `GetOrCreateEvent`, `BumpOld`, `SetPeriodEvent`, `BumpDesired`, `EnqueueOld`, `EnqueueDesired`, `SetExported` |
| `skip_or_detach` | `BumpDetached`, `EnqueueDetached`, `ClearDetached` |
| `sync_nitc_event` (Phase 2) | `ReadEvent`, `ListPeriods`, `GetPeriods`, `RejectMismatch`, `CreateNitc`, `SetSesId`, `PutNitc`, `UpdateExported`, `ClearDropped`, `MarkSynced` |
| `post_json_retry` after a 5xx that came too late | `CreateRetried` |
| `backfill_unsynced_periods` | `Backfill` |

A handler bumps the event that it *read* with the period, which another writer may have changed
since; Phase 2 lists ids and then reads rows, and writes back rows it read before the PUT. These are
the places the properties are aimed at.

**History.** Two invocations are deployed and nothing serializes them, so some of what the export keeps it
keeps only for periods and events that were spared certain meetings. `NitcHistory` adds three variables that no
action reads: `shared`, the periods that two invocations have had at once (`Has`: it is the period of the
message, or one of those listed, or on the event that is exported); `contested`, the events that two
invocations have exported at once (`Exports`); and `reposted`, the events for which SES has made a NITC whose id
nobody got (`Reposts`: the POST is repeated, or the Lambda stops before it has stored the id). The
properties excuse exactly these, and none for nothing: within the bounds of `nitc_workers` TLC finds each of them
violated once its excuse, or one of its two, is taken away.

**Not in the model.** The 60 s delay of an `event_export` is not timed (a message may be received at
once or last of all; `ApartFromPhase2` below stands for a delay that does its job). Reads return the
latest row, although the code reads without `ConsistentRead` and lists through an index. Categories
and locations are fixed, every person can be resolved in SES, and guest periods, which are never
exported, are left out. `--force`, `--dry-run` and the operator's bump commands are not modelled.

## 4. `LivePeriods`: how it corresponds to the code

**State.** `srv` and `idx` are the rows of one location and what its eventually consistent
`location_open` index has of them: a version and whether the period is open. A period is open in
version 1 only, since every later write closes, deletes or edits a finished one. `net` holds
messages that a handler has yet to publish or that Ably has yet to deliver, `replies` the answers of
this kiosk's own mutations. The kiosk: `list` is `LivePeriodsState` (an entry or a tombstone with its
version), `queue` is `messageQueue`, `fetches` the requests in flight, `mode`, `chan`, `connected`
the status of `KioskRealtimeProvider`, the channel and the connection, `polling` and `live` the refs of
the same name. `covered` is a history variable: whether a snapshot has arrived since continuity was last
lost or the fetch of one has failed. So is the `stale` of a fetch:
the periods its snapshot may lack only because the index was behind on them, or an earlier request unserved,
when it was read.

**Times.** `receivedAt` and `requestedAt` are only ever compared with each other, so the model keeps
the order: each fetch carries the set `since` of periods whose entry was written after it was
requested. Two requests are never made in one millisecond. `old` stands for a tombstone older than
`TOMBSTONE_TTL_MS`; `DayPasses` makes every tombstone old, when nothing is under way: no request,
message or index lag lasts 24 hours.

**Actions.** A JavaScript callback runs to its end, so it is one action; an `await` ends it.

| Code | Actions |
|---|---|
| mutation handlers with `publish_period_opened`, `publish_period_closed` | `Write`; `Lose` when publishing fails |
| DynamoDB's index | `Replicate` |
| `applyOpened`, `applyClosed`, `applyOwnResult` | `Deliver`, `OwnResult` |
| `applySnapshot`, `pruneTombstones` | the operator `ApplySnapshot`, in `PollArrives` and `ResyncArrives` |
| the fallback poll | `Poll`, `PollArrives`, `PollFails` |
| `resyncFromSnapshot` | `Attached` or `ResyncTimer` up to its `await`, then `ResyncArrives` or `ResyncFails` |
| `periods(onlyActive: true)` on the server | `ReadSnapshot` |
| the effect and its cleanup | `Settle`, `Restart` |
| channel and connection handlers | `Attached`, `Resumed`, `Reattaching`, `ChannelFails`, `ConnectionDrops`, `ConnectionReturns` |

`IndexLags` and `Crossing` say whether the index may lag and whether snapshot requests may be served
out of order. Both may; only `live_converges` sets the first to FALSE, for the time it takes.

**Not in the model.** A snapshot has all open periods (the query asks for 100). Names and categories
shown beside an entry, the enrolment and session channels, and the answer lost on its way to a kiosk
other than as a reply that never comes are left out.

## 5. `Periods`: how it corresponds to the code

**State.** `row` is the period table: version, person (or guest), unit, whether `end_time` and
`deleted` are set, and the hash keys `location_open` and `location_live` of the sparse indexes.
`idx` is the rows as the person index has them. `call` holds, per handler, which mutation it is, the
next call it makes and what it has read. `log` and `told` are the audit entries and the messages
published. Times, categories and names are not told apart.

| Code | Actions |
|---|---|
| `scan_register2`, `self_sign_in`: look up; `start_period_for_person_location` | `ScanRegister`, `SelfSignIn`; `StartPeriod` |
| `scan_guest_sign_in`; the admin's `create_period` | `GuestSignIn`; `CreatePeriod` |
| the read and the checks of `sign_out_at_kiosk`, `self_sign_out`, `scan_guest_sign_out`, `update_period`, `update_period_time_category`, `update_guest_period`, `delete_period` | `ReadForKioskSignOut` ... `ReadForDelete` |
| `AuditingHandler::update_period`: reads the row again, writes, puts an entry | `ReadBefore`, `Write` or `Refused`, `Record` or `RecordFails` |
| `publish_period_opened`, `publish_period_closed`, the answer | `Tell` |
| a Lambda or a call that fails | `Fails` |
| the global secondary index | `Replicate` |

`PeriodUpdateShape`'s variants and `end_period` are the operators `TimeCategory`, `Fields`,
`GuestFields`, `Deleted` and `Ended`. A message is identified by period, version, kind and unit, so a
repeated one is the same one.

## 6. `MemberSync`: how it corresponds to the code

**State.** `ses` is SES's own list (the unit of each member), `row` the person table (whose row it is,
whether it has its SES id, unit, `deleted`, the age of `missing_since` in days), `last` the age of each
unit's last successful sync, `due` the messages in the queue, `run` how far each unit's run is: the page
it fetched and the writes it still has to make. `changes`, `glitches`, `failures` and `stopped` record what
has happened so far. Ages stop where the code no longer tells them apart.

| Code | Actions |
|---|---|
| `fetch_people_for_headquarters`, `parse_ses_payload` | `Fetch` (what it returns may be garbled) |
| look-ups, `build_plans_for_location` | `LookUp` |
| the roster, `plan_absence_changes`, the cap and the tripwire | `ReadRoster`, `Aborts` |
| `apply_changes`, one call at a time | `Apply`, `Create` |
| `LastSyncTime` and the end of the message | `Finish` |
| a failed call or Lambda; delivered again or dead-lettered | `Fails` |
| SES, admins, the dispatcher's schedule | `Moves`, `DeletePerson`, `EnqueueMemberSync`, `Day` |

A plan is a set of writes with a partial order (`IsNext`): one person's writes in order, markers after
everybody's, deletions last. Each member is in SES under one unit; a member changes unit at most once a
day and a newcomer is listed until there is a row (see the known limits).

## 7. `ContactFeed`: how it corresponds to the code

**State.** `now` is true time and `Clock` what a server may take it for; `row` the person rows as the
feed's index shows them, with the key of their last write; `flight` the writes that have a key and are
not in the index; `units` the `person_unit` rows; `job` the directory sync's replacement under way;
`request` the request and its page; `device` what a client that follows the protocol of
`src/api/README.md` holds. `unstamped` is a history variable: the units of these people have changed and
no write of their row has arrived since.

| Code | Actions |
|---|---|
| `create_person`, `update_person` with `contact_key` | `WritePerson`, then `Apply` (or `ApplyTwice`, the SDK's retry) |
| directory sync's plan, `replace_person_units`, `stamp_person_contact` | `StartReplacing`, `ReplaceUnit`, `StampPerson`, `JobFails` |
| `sync`: the bound, `list_contact_changes`, the page's units and the answer | `Ask`, `Read`, `Answer` |
| a lost request or reply; `cursor_expired` | `Lost`, `CursorExpires` |

A key is one number that orders by time and then by person, as the string does. Writes are at most
`Late` old when they land; `Settle` is `SETTLE_US`. That `Late + Skew <= Settle` is an assumption of
the module, as it is of the code.

## 8. `Badges`: how it corresponds to the code

**State.** `row` is a member's `badge_state` (per unit: the count, when each badge was earned, which
were shown), `stale` what a read that is a write behind returns. `writer` is `badge_store::update` of
each request and of the nightly job: what it read, what it is to do, the attempt. `congrats` is the
evening's run, `record` the row `badge_congrats_sent`. `credited`, `repeated`, `celebrated`, `mailed`,
`unrecorded`, `given` and `lost` are history variables for the properties. Two badges stand for all:
one that sign-ins count towards, one that only the nightly rules award.

A badge is dated by the event that earns it. A scan is of the day it is made; a period that an admin or an
API token creates is credited at its own start and end, and `create_period` puts no bound on those, so it may be
of any day. `BeginEvent` takes the date as an argument, from `MaxAgo` days back to `MaxAhead` ahead: bounds
for TLC, not of the code. `begun` is the day of the request itself.

| Code | Actions |
|---|---|
| `apply_badge_event` of a scan or an admin's period; `badge_nightly::run` | `BeginEvent`; `BeginNight` |
| the conditional write, and its refusal | `Write`, `NothingToWrite`, `Conflict`, `AnswerLost`, `ReadAgain` |
| the schedule of the evening's run | `StartCongrats`, `MissCongrats`, `RunAgain` |
| `badge_congrats::run`: the members, the record, the mail, the record again | `List`, `ReadRecord`, `Mail`, `PutRecord`, `PutFails`, `CongratsFails` |

## 9. The runs

Bounds are constants of the configuration; each is the guard of the action it limits. Where a run
allows the system to stop (no deadlock check), edits may be over and the queue empty; `members` and
`feed` check for deadlock.

| Run | Question | Bounds |
|---|---|---|
| `nitc_workers` | Do rows stay well formed, stored participant ids with their NITC, and is no version recorded before it was written? But for what `NitcHistory` excuses, do exported and synced versions only grow, has an event one NITC, and is a participant id sent to its issuer only? | 2 invocations, 1 handler, 1 period, 2 slots, 2 edits, 1 fault (crash, failed call, duplicate delivery or repeated POST) |
| `nitc_dot` | Is a green dot true, does every message end? | 1 invocation, 2 handlers, 1 period, 3 edits, 1 fault |
| `nitc_settles` | Once quiet, does SES hold exactly the right entries, and at no time one of another group? | 1 invocation, 2 handlers, 2 periods, 2 groups, 3 edits, 1 backfill; constraint `ApartFromPhase1` |
| `nitc_moves` | Does every edit, moves included, reach SES for good, and is no bump left unanswered? | 1 invocation, 2 handlers, 2 periods, 2 slots, 4 edits; `FairAllEditsSpec` |
| `nitc_lost_bump` | Is SES right once quiet without the restriction? **Violated** | 1 invocation, 2 handlers, 1 period, 3 edits |
| `nitc_half_moved` | Is no period in two NITCs once quiet, if Phase 1 may stop half way? **Violated** | 1 invocation, 1 handler, 1 period, 2 slots, 2 edits, 1 fault; `AllEditsSpec` |
| `live_safe` | Does a closed period stay closed, does nobody who is signed in drop off the list, is no buffered message lost, is a list without a poll attached, is one called live caught up? | 1 period, 2 fetches, 1 failure, 1 interruption, any number of quiet days; lag and crossing |
| `live_converges` | Does the kiosk end up showing exactly who is signed in? | 1 period, 2 fetches, 1 failure, 1 interruption; crossing, no lag; fairness |
| `periods` | Are the indexes right, is every end told and audited, and do the rows live as `PeriodRows` says? | 2 handlers at once, 3 calls, 2 periods, 2 units, 1 failure; the person index lags |
| `members` | Is there one row per member, is nobody who is here deleted, does everybody end up where SES has them? | 2 members, 2 units, grace of 2 days, 1 change, 2 garbled entries, 1 failed run |
| `feed` | Does the cursor stand for what the device holds, and does the device end up with the live members? | 2 people, pages of 1, 2 writes or runs, 1 fault; skew and delay of 1, settling time of 2 |
| `badges` | Is every event counted once, every badge celebrated once, every win mailed once, and none missed that a run can see? | 2 units, 2 scanners and the night, 2 events, dated up to 2 days back or 1 ahead, 4 evenings, 2 attempts, 2 faults |

Why the bounds are enough to be interesting.

- *Export.* One period makes all of Phase 1, Phase 2 and the handlers collide on one row; the second
  period and the second slot bring moves between events and events with several participants. Three
  edits let one edit create and two overlap. In `nitc_workers` two edits are a creation and a move (or a
  deletion), between and during which two invocations, one of which may stop, meet on the period or on
  either of its events.
- *Live list.* Two fetches are a snapshot that overtakes another or a poll beside a resync. Periods do
  not interact in a list except through one snapshot applied to all, which is the same function at each.
  A failure and an interruption are enough for a resync that fails beside one that does not, a channel
  that resumes without a fetch; the theorems hold for any number of each.
- *Periods.* Three calls are a sign-in and two writers that meet on it; a row is touched by one handler
  at a time, so a third handler adds no new kind of step. The proofs hold for any number.
- *Members.* Two members make a page with one missing, and the cap. A move takes a run of each unit;
  a deletion takes a marker, the grace and a second sighting, which is why the grace is two days. Two
  garbled entries are one page too few to delete somebody, and the second half of
  `NobodyHereIsDeleted` is about that.
- *Feed.* Two people on pages of one row make every full sync two pages with a write between; `feed`'s
  clock runs long enough for all that is under way to settle, so that `Converges` means something. The
  three safety properties are proved for any number.
- *Badges.* Two events, besides being two units' awards of one badge, conflict with each other and with
  reads that are behind; two attempts reach the end of the retries. Four evenings cover a look-back of two,
  both of which fail; two days back is too old to be mailed, one ahead waits for its day.

**Two restricted environments** (`NitcEnvironments`). `ApartFromPhase1`: no Phase 1 runs while a handler
is between its read and its bump. `ApartFromPhase2`: no Phase 2 runs while a handler or a
`period_export` is under way, which is what the 60 s delay is meant to bring about. `nitc_settles`
assumes the first, as a constraint; `AllEditsSpec` and `FairAllEditsSpec` both; `nitc_lost_bump` and the known limits say what
happens without them. `nitc_half_moved` needs no overlap: it happens under `AllEditsSpec`.

**Something the mutants showed.** Replaying the buffer at the end of the *first* of two overlapping
resyncs breaks none of the properties: the `receivedAt` rule protects the replayed entries
from the second snapshot.

## 10. Fairness

`NitcExport.FairSpec` assumes that a handler that runs goes on, and that each invocation keeps
taking messages and running: SQS invokes the Lambda while messages are visible. Nobody has to edit or
to run the backfill, and faults are bounded, so that a message that always fails is dead-lettered
rather than retried for ever. `LivePeriods.FairSpec` assumes that requests are read and end (answered
or failed: failures are bounded), that the index catches up, that no message stays under way for ever
(it may be lost), that the poll's and the ten-minute timer fire, and that Ably goes on connecting and
attaching. It does not assume that a message is ever delivered: `ShowsWhoIsHere` rests on the snapshots.

`MemberSync.FairSpec` assumes that a queued run gets on and that days pass: the dispatcher is a daily
schedule and the queue is served. `EventuallyListed` and `EventuallyRemoved` excuse a run that the cap
stops again and again, which is what the cap is for. `ContactFeed.FairSpec` assumes that time passes,
that a write under way lands, that a directory run goes on (or fails), and that the device asks and is
answered; requests may be lost, but only `MaxFaults` of them. `Periods` and `Badges` are checked for
safety only: what should eventually happen there is best effort in the code.

## 11. Proofs

All theorems hold for every value of the constants that satisfies the assumptions of the module; the
bounds play no part in them.

**`NitcExportProofs`.** `TypeCorrect`, `ParticipantSafe` (`ParticipantOfOwnEvent`) and `RosterSafe`
(`RosterOfOneGroup`). Neither safety invariant is inductive by itself: a write-back stores a
participant id from an invocation's locals, so what an invocation holds has to be tied to SES.
`IInv` is `TypeInv` (stores, editors and workers well formed, per program counter) and `NitcInv`:
the id stored with an event is a NITC of that event (`NitcOfEvent`), so is the id in the hand of an
invocation that has left "create" (`NitcInHand`), the live rows in hand passed the check of the group
(`RowsChecked`), and the two properties themselves. One lemma per group of actions shows that each
conjunct is kept.

Its second part is about versions. `VersionsSafe` (`NoVersionFromTheFuture`) holds whatever overlaps. `VersionInv`
says the same of the counters in flight: the versions an invocation has read or was sent, and those
of the rows in its hand, are at most the stored ones, which only grow (`VersionsGrow`).
`SyncedOnlyGrows` (`SyncedNeverRegresses`) and `ExportedOnlyGrows` (`ExportedNeverRegresses`) are about `HSpec`:
any number of invocations, handlers, crashes, duplicates and backfills, in any order. They put no
constraint on the steps; what they excuse, a period or an event that two invocations had at once, is in the
properties, and `HistoryInv` says that whoever meets now is on record. `SyncedBelow`: the version a Phase 2
will mark was the event's own, ahead of the synced one, when it began, and unless the event is contested
nobody else has moved the synced one since. `ExportedBelow` says the same of the periods an invocation has:
the versions it will record are at least the recorded ones unless the period is shared; it needs to know which
rows are in its hand (`RowsHeld`), because both phases record exported versions.

**`NitcGreenProofs`.** `OneNitc` (`OneNitcPerEvent`) is about `HSpec` too, and excuses events that are contested
or reposted; TLC finds the property violated if either excuse is dropped. Its invariant is `NitcKnown`: every
other NITC in SES is named by its event or by the invocation that has just created it, and an invocation on its
way to the POST still goes by the id that is stored. `GreenIsTrue` proves `GreenUnlessShared`: a green dot
is true of every period that is not shared and whose event is not contested, with any number of invocations.
With one invocation nothing is ever shared or contested, and this is `GreenMeansExported`, which `nitc_dot`
checks. To excuse contested events alone would not do: with two slots one invocation can record a
version it has sent while another moves the period to an event that is still marked synced.
The dot compares two pairs of versions and knows nothing of SES, so the invariant `GreenInv` says why the
comparison is enough. `Fresh`: what an invocation has read of a period is an earlier state of it, the same
one if the version is; in Phase 1 the period stays unexported from the read until its new event is
orange; in Phase 2, while the event's version is the message's, the rows in hand cover every period
marked exported with the event, and after the PUT the roster has them. `Numbered`: no message and no
marking is at version 0, which would make an event that was never written count as synced.

**`LivePeriodsProofs`.** `TypeCorrect`, `PolledSafe` (`PolledOrAttached`, inductive given the types)
and `ClosedSafe` (`ClosedStaysClosed`). The last is about all later states and holds through
`Gone(list, p)`: either the list has a tombstone of the period, or it has no entry and the period is
`Over`: past version 1 in the table, closed in the index, and shown open by no message, result, buffered
message or snapshot under way. `Over` is stable because nothing that shows a period open is made
once the table and the index have it closed. The invariant `IInv` says what makes `Gone` stable: whatever is
under way was once true of the row (`MessageInv`, `FetchInv`, `RowInv`), so does the list (`Sound`),
a tombstone old enough to be pruned belongs to a period that is over, and the buffer exists only
while a resync does (`BufferInv`, which `DayPasses` needs: nothing under way means nothing buffered).
The steps of the kiosk are proved through one lemma, `KioskStepPreserves`: they leave the rows alone,
add nothing to what is under way except a query of the index, and lead to a list that `Follows`.
`BufferSafe` (`BufferedIsApplied`) adds that versions are at most `MaxVersion` (`Bounded`), so that the
newest message of a period exists for the list that replays the buffer; `AppliedIsThere` shows that
what the list then has is at least as new as any message of it. `LiveSafe` (`LiveMeansCaughtUp`) and
`FlickerFree` (`NoFlicker`) hold for any number of failures, with an index that lags and requests that
cross; what they excuse, the failed fetch of a snapshot or a snapshot behind on the very period, is a
history variable (section 4) and part of the property. The invariant of the first, `CaughtUp`, includes the channels
that are attached or attaching, because a channel's update makes the list live with no fetch of its own. That
of the second is `OrderInv`: a later fetch has every open period an earlier one has, unless that is on
record as `stale`, and a snapshot that lacks an open period the list shows was asked for
before the entry was put there, which is what `receivedAt` compares, or is `stale` on it.

**`PeriodsProofs`.** All six properties of the run, for any number of periods, handlers and failures.
`IInv` is `TypeOK`, `RowInv` (the two indexes, and that an open row is in its first version) and
`CallInv`: what a handler has read is an earlier state of its row, the same one if the version is, and
what it has written is still below the row's version. From it follow `OpenIndexSafe`, `LiveIndexSafe`
and `RowsRefined`: every step is a step of `PeriodRows` or a stutter. The other two are
about quiet states, and their invariants say what holds before: `AuditInv`, an entry is in the log or a
handler is about to put it, where the crux is that the writer of version 2 cannot have seen an ended row
before; `ToldInv`, while a period is in its first version it is open at the unit that was told, and
after that a close at that unit with a higher version has been published or is owed by the handler that
read the first version.

**`MemberSyncProofs`.** `TypeCorrect` and `OneRowSafe` (`OneRowPerMember`), for finitely many members
(`ConstantsAssumption`; the pages' glitches are counted). That no member has two rows is not inductive: a
run decides at its look-up to create a row and puts it later. `PlanInv` adds what holds in between: whoever
is on a run's page has a row or is in that unit in SES, a planned creation is of somebody on the page
without a row, and every other planned write is of a row that exists. So when a row is put, any other
plan to create one for the same member is of the same unit, hence the same run's, and there is only
one. This rests on the restriction of `Moves` (section 6): until a member has a row SES keeps them in one unit.
All other steps keep the owners of rows (`SameOwners`, `OwnersKeptInv`).
`NobodyDeleted` (`NobodyHereIsDeleted`) assumes `Stale < Grace` and `MaxGlitches <= 2`, as the run does:
the code's defaults are 36 hours and seven days, and three wrong entries can delete a member. A deletion has been
planned (`DeletedByPlan`), so `DeletionInv` is about plans. `ShapeInv`: the writes of a run agree with the page it
has and with the rows they are for. For those who have always been in their unit, `HomeInv` says
that no other unit's run has anything to do with them, and `CountedInv` counts how many wrong entries it takes to get
as far as each stage: a marker, a marker the unit has synced since, the next page that leaves them out, a
planned deletion. Outages do not shorten the way because a deletion needs a recent sync and a
marker that is older, hence one the sync has seen. For the others `CalmInv` says what holds while
nothing has gone wrong: pages are right, a member's own unit has them on its roster once it has synced
(`Settled`), a row without its SES id is about to get it (`Adopted`), and nobody but those who have
left or have just moved is up for deletion (`OnlyGone`).

**`ContactFeedProofs`.** `TypeCorrect`, `SettledSafe`, `CoverSafe` (`CursorCovers`) and `CursorSafe`
(`CursorNeverMovesBack`). Everything given out is at most `Bound(Top)`, `Top` being the latest time from
which nothing can be under way any more (`Reach`), and everything under way is younger (`InTime`): so
nothing lands behind a cursor. `PageOK` says of a page under way that it has everybody up to its next
key whom the client does not have already or need not have; it rests on the page being a lower part of
what the read covers (`PageFacts`: ranks are cardinalities, and keys of different people differ) and is
kept because what lands, lands above the next key. `CursorCovers` itself is the last conjunct.

**`BadgesProofs`.** `TypeCorrect`, `CountSafe` (`CountsEveryEvent`) and `CelebratedSafe`
(`CelebratedOnce`). The type invariant needs that a writer has an attempt left and that the day is at
least `MaxAgo`, which bounds what a request may date back. A write applies the change to the state it read, which is the one stored, so the counts
follow; `CelebratedInv`: a badge that has been celebrated is shown in the stored state, and no later
state takes that back (`Grows`). `MailSafe` (`EachWinIsMailed`) rests on `MailInv`, per win: `Dates` (a
win has a day it was saved on, and a read that is behind has it once that day has passed; the day it is of
may be any),
`InRun` (what was saved before the evening's run is among the wins it has read, or too old for it),
`Once` (a mail that was recorded stays in the record, or is about to be there, while a run can look back
on the win) and `Missed` (each evening since the first that could mail the win, `FirstEvening`, mailed it or is counted
as lost). Of a win that is already too old when it is saved there is no such evening.

**Model-checked only.** Liveness (`QueueDrains`, `EventuallyExported`, `ShowsWhoIsHere`,
`EventuallyListed`, `EventuallyRemoved`, `Converges`), which the prover does not reach. `SettledIsRight` and
`BumpedIsExportedAgain` (they hold in restricted environments only, which the code does not provide, so a
theorem about them would say little), and `SentToItsIssuer`. Every other invariant and action property of the passing
runs is stated by a theorem, `GreenMeansExported` in the form `GreenUnlessShared`.

## 12. Findings

`nitc_lost_bump`: an edit whose write and bump straddle the Phase 1 of an earlier edit's message
is never exported. Phase 1 takes the new version as exported and queues the event at the version
before the bump; the bump makes that message stale; the edit's own message finds nothing to do.

`nitc_half_moved`: Phase 1 bumps the event a period leaves, moves the period, bumps its new event and only
then queues both (`nitc_export.rs:389`, `395`, `409`, `413-428`). If it fails after the move, SQS delivers
the message again, but the period now names its new event, so the repeated run has no old one to queue. The
member stays in the old NITC as well, although `nitc_export.rs:387-388` bumps it 'so that the participant gets
removed' and `web/guide/admin/nitc.md:64-65` says a change of day or category 'moves it to the right NITC'.
No two calls need to overlap: one failed call is enough.

## 13. Known limits of the code

Disagreements and gaps that came up while modelling. They are not checked as violations; the properties
leave them out, each by the assumption named here.

- *Export.* With two invocations (the deployed concurrency), exported and synced versions can go back, two
  NITCs can be created for one event, a green dot can be wrong for a moment, and a PUT can name a participant
  by the id another NITC gave: two Phase 2 runs of one event write each other's results over, or
  one moves and exports a period between the other's list and its read of the rows. The properties of
  `NitcHistory` excuse the periods and events this has happened to and no others; `nitc_dot`, `nitc_settles`
  and `nitc_moves` have one invocation. A POST that SES has answered and that is repeated, or whose id is not
  stored, leaves a second NITC (`reposted`). Under `ApartFromPhase1` alone a Phase 2 already running
  can mark an older version synced: SES is right, but a dot stays orange, which is why
  `BumpedIsExportedAgain` is checked in `nitc_moves`. An edit of the day that is written before Phase 2
  reads and bumped after it stays in the old day's NITC, contrary to `web/guide/admin/nitc.md:64-65`;
  `FairAllEditsSpec` excludes it.
- *Live list.* A channel that resumes after its first snapshot failed, while the poll fails too, is
  called live with nothing applied (`LivePeriodsProvider.tsx:295`, against `realtimeClient.ts:36-37`):
  `LiveMeansCaughtUp` excuses a list whose fetch has failed. A resync that ends after the connection dropped
  stops the poll and is called live (`:251`, against `LivePeriodsContext.ts:20-22`); the property says nothing of
  the connection. A name that a snapshot removed leaves no tombstone and can come back with a late message
  until the next snapshot (`livePeriods.ts:184`, against `LivePeriodsProvider.tsx:75-78`):
  `ClosedStaysClosed` is about closes the list has heard of. A snapshot read from an index that is behind on an
  entry, or before one requested earlier, can make it vanish until the next: `NoFlicker` excuses that snapshot,
  for that entry.
- *Periods.* Two sign-ins that both look up before either writes open two periods, contrary to
  `mutations.rs:4261-4262`; a lagging index widens the window. No property claims one open period per
  member. An edit of a deleted period puts `location_live` back, though `SCHEMA.md` has it on undeleted
  periods only: `LiveIndexMissesNone` is the other direction.
- *Member sync.* Two units' runs that meet one newcomer at once create two rows, and `at_most_one` then
  fails the sync for ever: `Moves` keeps a newcomer in one unit until there is a row. An admin's deletion
  between the roster and `MarkMissing` leaves a marker on a deleted row. After an outage as long as the
  grace period the old unit's deletion can race the new unit's recovery of a member who moved in the
  meantime. A unit whose runs are stopped for planning too much (`Aborts`) does not take over those who
  moved in, while their old unit's runs go on, mark them and after the grace period delete them, though every
  page was right; the next run of their unit that is not stopped brings them back. `stopped` records that a
  run was stopped, and `NobodyHereIsDeleted` excuses it, except for those who have always been there.
- *Feed.* A replacement of a member's units that fails after its last row and before the stamp is never
  stamped, although `offline_sync.rs:38` says it is: the retry finds nothing changed. `unstamped` marks
  such members and the properties leave their units aside. A member written during a full sync whose new
  key lies behind the pages to come may be dropped at its end until the next delta brings them.
- *Badges.* A conditional write that is saved although its answer is lost is sent again, refused and then
  applied to the state that already has it: the event counts twice (`repeated`). A period that an admin
  dates back further than the look-back credits its badges at its own times (`mutations.rs:728`, `742`;
  `create_period` sets no bound), so what it wins is too old for the mail when it is saved and is never
  mailed, although `badge_congrats.rs:1-2` promises every member who earned a badge one. `EachWinIsMailed` claims
  what a run can see: it asks for no evening before the win was saved. A win dated back *and* a
  failed evening together can miss the mail, though the comment at `badge_congrats.rs:35-36` names both:
  it allows as many failed evenings as the look-back has left. After `MAX_ATTEMPTS` an event is dropped.

## 14. Not modelled, and why

- *In modelled components.* Export: `--force`, `--dry-run`, the operator's bump commands; the 60 s delay
  is not timed; reads return the latest row. Periods: times, categories, and the validation of requests.
  Member sync: names, capability tags and blocked units (a write of one field each), two overlapping runs
  of one unit, an admin's create at the same time. Feed: units and shared contacts, which are sent whole
  under a hash, the total, the access checks. Badges: the rules that decide who earns what (calculations
  on a history), the backfills, the weekly digest, the expiry of the record, overlapping evening runs.
- *Location sync and the rest of directory sync*: a plan over imported rows, applied by one process.
- *Kiosk scan dialog*: one dialog on one screen. Its requests are the handlers of `Periods` and `Badges`,
  in any order there; its own states and timers are presentation.
- *Session keys, sign-in codes, OAuth*: signatures, expiry and validation that a model would take as
  given; what remains are single conditional writes. Two of them are in the list of hazards.
- *Trophies, Tally tools, audit log and digests, query layer, MCP server, command line, telemetry,
  infrastructure*: a nightly calculation, single writes, reads, formatting, delivery, configuration.
