# A TLA+ model of the BIOLYMPICS LIVE backend

BIOLYMPICS LIVE (`src/`) is a live-score service: FastAPI handlers on PostgreSQL
through async SQLAlchemy, Redis between API instances, Celery workers. Officials
and admins act on fixtures; the public reads them and follows them on
WebSockets and by web push. This directory holds specifications of it, the
TLC configurations that check them, and theorems that TLAPS proves about them.

    tlc -workers 2 -config FixtureRequests.cfg MCFixtureTxn   # model-check
    tlapm FixtureTxnProofs.tla                                # check the proofs

Paths below are relative to `src/app`, unless they begin with `src/`.

## 1. Inventory

| Part | State it keeps | Operations | What must be right |
|---|---|---|---|
| Status machine (`services/lifecycle.py`) | none | `can_transition`, `assert_transition` | terminal fixtures move for admins only |
| Fixtures (`api/v1/endpoints/admin.py`, `services/scoring.py`) | `fixtures`, `live_match_states`, `match_events`, `audit_logs` | create, patch, delete, start, score, events, period, pause, resume, complete, reopen, correct, postpone, cancel, reschedule, generate | version and live row agree; drafts are hidden; overlapping requests do not undo each other; no orphans; the audit log explains every change |
| Group tables (`services/standings.py`) | none | `compute_table` | rows add up; the tie-breakers rank as described; the order of the SELECT is irrelevant |
| Stored standings (`services/recompute.py`) | `standings`, `standing_rows` | `recompute_group_standings`, run by complete, correct, cancel | a group never loses its table; an undisturbed rebuild leaves one, that of the results with a live row and two teams |
| Event bus (`services/events.py`) | use of Redis, subscriber task per instance | connect, publish, run_subscriber, close | one order of events for all clients; a fall-back without Redis |
| WebSockets (`websocket/manager.py`, `api/v1/ws.py`) | rooms of each instance | connect, disconnect, broadcast | everyone in a room gets the event; dead sockets go |
| Notifications, workers (`services/notifications.py`, `workers/tasks.py`) | events, deliveries | `create_event`, `dispatch_event`, reminders, prune, each started again and again by the beat | one event per key; nobody skipped; no delivery recorded twice; every event dispatched |
| Push subscriptions (`endpoints/push.py`) | subscriptions, preferences | subscribe, preferences, unsubscribe | one subscription per endpoint; preferences replaced as a whole |
| Login (`endpoints/auth.py`, `core/security.py`) | failed-login counter, lock, refresh tokens | login, refresh, logout, change password | no early lock; one live token per login; a change of password ends the sessions it can see, and those they turn into |
| Schema (`models/`, `src/alembic/versions/`) | the tables | upgrade, downgrade | what the migration makes is what the models declare; no row outlives its parents |
| Seeds (`seeds/seed.py`, `seeds/data.py`) | tournament and everything below it, `is_current` | seed: drop the season and build it again | one tournament of a slug, one current, never a moment without |
| Medal table (`services/medal_table.py`) | `department_points` | formula, ranking | every department has a place of its own, the same when worked out again |
| Announcements (`admin.py`) | `announcements` | create | none about a tournament that is gone |
| Command line (`cli.py`) | - | seed, create-admin, simulate, generate-vapid | one account of an address |
| Public reads, brackets and races, configuration, logging | tables without further logic | queries | - |

How they interact. Every HTTP request is a coroutine with a database session of
its own (`db/session.py`: autoflush off, objects not expired at a commit), and
every Celery task and CLI command has one too. They meet only in PostgreSQL (READ
COMMITTED, row locks, unique constraints, foreign keys, deadlock detector). A
fixture handler loads the fixture and its live row by two SELECTs, checks and
assigns in memory, writes the audit entry (which flushes everything so far), for
complete and correct rebuilds the standings of the sport, commits, and then
publishes an event. The event goes to Redis, from there to the subscriber task of
every instance and to the sockets in its rooms, or to the local sockets if Redis
fails. Notifications go another way: a scan finds reminders that fall due and inserts
events, a dispatch sends the pending ones to the browsers whose preferences
match, a prune deletes the browsers that are gone.

What is hard: the check of `expected_version` and the UPDATE are several steps
apart; rows are read by more than one statement; UPDATEs carry only the columns
that have changed; an update locks fixture and live row in one order and a
deletion in the other; two sessions rebuild the same table; a commit and its
event may be separated by a crash; sockets join, die and are pruned while a
broadcast waits; tasks start while the previous one is still running, and are repeated
when a worker dies; tokens are checked as they were loaded; a seed drops what
other sessions have loaded. `PROJECT.json` lists these hazards, each at its line.

## 2. Modules

| Module | Models | State and actions |
|---|---|---|
| `Lifecycle` | `services/lifecycle.py` | constants only: `Transitions`, `AssertTransition` |
| `FixtureTables` | the rows, the users, what every handler does with a row | pure operators: `EnsureLive`, `AddScore`, `Bumped`, `Follow`, `Patched` |
| `FixtureService` | abstract: the promise of the fixture endpoints, one request at a time | `row`, `live`; one step per accepted request |
| `FixtureTxn` | the fixture endpoints as concurrent sessions | `row`, `live`, `events`, `audit` (committed rows), `rowLock`, `liveLock`, `txn` (each request's session); an action per route, per flush, commit, publish, crash |
| `Standings` | `compute_table` | `results` grow one by one; `ComputeTable` next to a reference definition |
| `StandingsTxn` | `recompute_group_standings` in concurrent sessions | `status`, `score`, `standings`, `copies` (committed), `fxLock`, `txn`; an action per route and per statement of the recomputation |
| `LiveFeed` | abstract: the promise of the live feed | `log`, `got` |
| `EventBus` | event bus, WebSocket manager and socket handlers | `redis`, `subscriber`, `inbox`, `members`, `conn`, `broadcasts`, `got` |
| `Outbox` | abstract: the promise of the notification tables | `announced`, `settled`, `told` |
| `Notifications` | the three tasks and the requests of the browsers, as concurrent sessions | `subs`, `active`, `prefs`, `event`, `deliveries` (committed), `txn`, `crashes` |
| `Sessions` | one account and its refresh tokens | `user`, `issued`, `revoked`, `expired`, `changes`, `txn` |
| `Schema` | tables with foreign keys and unique columns, as the models declare and as the migration makes them | constants only: `Declared`, `Creates`, `Drops`, `Cascaded` |
| `MedalTable` | the formula and the ranking | constants only: `ComputeMedalTable` |
| `Season` | migration, seed, create-admin, and requests that add to a season | `schema`, `ddl`, `rows`, `current`, `points`, `job` |
| `*Proofs` | theorems about `FixtureService`, `FixtureTxn`, `Standings`, `StandingsTxn`, `EventBus`, `Notifications`, `Sessions`, `Season` | section 5 |
| `MC*` | the small instances | |

How they are put together:

- `FixtureTxn` and `FixtureService` both extend `FixtureTables`, which extends
  `Lifecycle`. `FixtureTxn` instantiates `FixtureService` and uses its step
  `Accept` as the specification of an undisturbed request.
- `EventBus` implements `LiveFeed`: `Feed == INSTANCE LiveFeed WITH log <- log, got <- got`,
  both of them history variables of `EventBus`.
- `Notifications` implements `Outbox`: an event is announced when its row is there, settled
  when it has `dispatched_at`, and what has been told is `deliveries`.
- `StandingsTxn` treats a table as the set of results it was computed from, which is
  justified by `Standings`: `OrderIrrelevant` shows that it is a function of them
  (and `AnyOrder` proves it).
- `Season` extends `Schema`, whose foreign keys are those its database enforces,
  and `MedalTable`, whose result is what a seed stores. `MCDatabase` runs `Season` and
  `Sessions`, which share one database and no row that both of them change: a
  behaviour is of the one or of the other (`part`).

Operators marked "mutant" next to a definition are plausible wrong versions of it; each
makes the property named with it in `PROJECT.json` fail.

### Fixtures (`FixtureTxn`)

A request is the sequence `LoadFixture` (first SELECT of `_load_fixture`), a route
action (second SELECT, 403 and 409 checks, assignments in memory), `FlushRow`
(UPDATE fixtures, takes the row lock; a deleted row raises StaleDataError),
`FlushLive` (INSERT or UPDATE of the live row; a second row breaks the unique
constraint), `Commit`, `Publish`. A deletion goes through `DeleteLive` and
`DeleteRow`, the order of the unit of work, and takes the locks the other way
round; `BreakDeadlock` is PostgreSQL's detector. `Crash` ends a session at any
moment: rolled back before the commit, "lost" (no event, no answer) after it.
`MergeRow`/`MergeLive` are the partial UPDATEs: a column the handler has not
changed keeps what is committed.

Data: columns that are always treated alike are one field (`plan`, `score`,
`period`; see the head of `FixtureTables`). The scores of home and away go
through the same code. `published: null` in a patch is left out. Rows start as
`create_fixture` or the seed leaves them, or where sequences of requests lead
from there (`MCFixtureTables`). The recomputation inside `complete` and
`correct` writes neither row and is left to `StandingsTxn`; the second
transaction of `cancel` likewise. WALKOVER is in the status machine, but no
route leads to it.

### Standings (`StandingsTxn`)

`Load` is the SELECT; `Complete`, `Correct`, `Cancel`, `Reopen`, `Delete` are the checks
and the UPDATE of the fixture, one step each (`FixtureTxn` has them in detail; versions,
roles and the audit log are not repeated). Then for each group of the sport
`ReadResults`, `FindStanding`, and `DeleteRows` or `FoundStanding`, and the `Commit`. The
DELETE works on the rows that were committed when it began (`snap`), waits for
sessions that have deleted the same rows, and skips those gone in the end. A wait
inside one DELETE is one step; deadlock cycles of two and three sessions are
broken. Own objects stay as loaded (`score` of the session), also after the first
commit of `cancel`. A fixture may be without a live row (`NoLive`): the seed without demo data makes none,
`resume` and `complete` do not, `correct` inserts one. The SELECT of the results joins the live rows and
drops matches without two teams (`HasResult`, `Paired`), so such a result is in no
table. Groups without members, which the code skips, are not in `Groups`.

### Tables (`Standings`)

Team ids are numbers in the order of their strings. The loops over the results
(`Rows`, `HeadToHead`) are recursive functions on their positions. Each sort key ends
with its team, so the sorted set of keys is the table. Fixtures of a team against
itself are not generated by any route but a malformed create, and are left out.

### Feed (`EventBus`)

`Start` is `EventBus.connect`, `Subscribe` the first statement of the subscriber
task. `Relay` takes one message and begins a broadcast, which snapshots the room,
sends to each target (`Send`) and prunes the failed ones (`End`); the subscriber
awaits it before the next message. `Publish` goes through Redis, or on failure to
a local broadcast; a connection that breaks may have delivered the message or not.
An outage severs the subscribers; what `listen()` does then depends on the
release of redis-py, so it either ends the task or reconnects. The handlers are
`Join`, `Ready` (connection.ready), `Vanish` (the client's side) and `Leave`. Pruning several dead
sockets is one step, and the manager's lock is left out: no await happens
under it. Heartbeats change no state.

### Notifications (`Notifications`)

| Code | Actions |
|---|---|
| `scan_upcoming_fixtures`, `create_event` | `StartScan` (which reminders fall due is left open), `CommitScan` (the unique key fails the whole transaction) |
| `dispatch_pending_notifications`, `dispatch_event` | `StartDispatch`, for each event `Match`, `Send` to one recipient after the other, `Record` (deliveries, dead endpoints and `dispatched_at` in one commit, which fails as a whole) |
| `prune_stale_subscriptions` | `StartPrune`, `CommitPrune` |
| `create_subscription` | `Post`, `InsertSub`, then as below |
| `update_subscription`, `_replace_prefs` | `Patch`, `Clear` (the DELETE), `Cleared` (its wait is over), `CommitPrefs` |
| `delete_subscription` | `Delete`, `CommitDelete` |

`Crash` is a worker that is killed at any moment: its session is rolled back, and the
messages it has pushed are not unsent. `BreakDeadlock` ends one of a deletion and a
replacement that wait for each other. `owed` is history: the rows that have matched
an event ever since it was made; `alone` notes whether another session has changed the row
of a request since it was loaded. Rows are named by who made them, so that a
row that is deleted and registered again is another one.

### Account (`Sessions`)

`Login` loads the user, `LoginPasses` and `LoginFails` are the two ends of the handler;
`Refresh`/`Rotate`, `Logout`/`Forget` and `ChangePassword`/`SelectTokens`/`CommitChange` are
the SELECTs and the commits of the other three. A commit writes the columns that the
session believes to have changed (`Upgraded`). `Expire` and `Unlock` let time pass. Histories:
`failures` counts wrong passwords, `family` takes a token back to its login, `raced`
has the logins of which one token was in two rotations at once, `ended` the tokens there
were when a change of password began, `slipped` the logins with a refresh under way between
the SELECT and the commit of a change. A request that is refused before it
has written anything is left out.

### Database (`Schema`, `Season`)

`StartMigration`, `CreateTable`, `DropTable`, `StopMigration` are alembic, one statement at a time in
one transaction, with the API stopped. A seed is `Seed`, `EnsureRoles`, `SelectSeason`,
`DropSeason` (DELETE with its cascade), `BuildSeason` (`is_current` off for the others, then the
inserts), `CommitSeed` (admin account and commit); `CreateAdmin`/`CommitAdmin` is the command.
`LoadSport`/`AddFixtures` are `create_fixture` and `generate_fixtures`,
`LoadCurrent`/`Announce` is `create_announcement`. `Fail` ends a session at any step. What a
DELETE takes with it follows from the foreign keys (`Cascaded`), and every
insert is checked against those in force (`Allowed`). One row of a table stands for all
those of one season by one session. `overlapped` is history: two seeds of different slugs
have overlapped. Rows are those of PostgreSQL; of SQLite, which the tests use
without enforcing foreign keys, see section 6.

## 3. Runs

| Run | Instance | Shows |
|---|---|---|
| `FixtureSerial` | any requests of an admin and an official, one at a time, up to version 5 | `TypeOK`, `ScoreboardInSync`, `DraftsAreHidden`, `NoWayBack` |
| `FixtureRequests` | every pair of the 14 routes from 8 kinds of fixture, and five trios around a deletion; with fairness | `Inv` (the inductive invariant), `LocksAreHeld`, `NoOrphan`, `OwnColumnsOnly`, `AtomicWhenCurrent`, `AuditExplains`, `EveryRequestEnds` |
| `SilentOverwrite`, `RetryTwice` | two score entries | violations, section 6 |
| `StandingsTable` | three teams and a guest, up to three results, two lists of tie-breakers | `RowsAddUp`, `RankedByRules`, `OrderIrrelevant`, `WinNeverHurts` |
| `StandingsRequests` | every pair of the 5 routes on two fixtures of a group (one of them with or without a live row), one without teams in a second group and one of none; and three completions, or two and a cancellation; with fairness | `TypeOK`, `NeverVanish`, `AloneRebuilds`, `OwnResultShown`, `EveryRebuildEnds` |
| `StandingsDiverge` | two completions in one group, standings founded, live rows there | violation, section 6 |
| `FeedOverRedis` | two instances, a follower of everything and one of a fixture, three events | `TypeOK`, `ServesOneFeed` (refinement of `LiveFeed`) |
| `FeedArrives` | one instance, Redis there or not at the start, one failure at any moment; with fairness | `NobodyDropped`, `EveryEventArrives`, `DeadSocketsPruned` |
| `FeedOutOfSync` | two instances, one outage | violation, section 6 |
| `Notifications` | two workers, two browsers; two events and no request, or one and one, or one and two; one crash; with fairness | `TypeOK`, `NobodySkipped`, `KeepsOutbox` (refinement of `Outbox`), `AloneReplaces`, `EveryEventDispatched`, `DeadPruned` |
| `Database` | four requests on an account of two passwords, locked after two failures; or two seeds of one slug, one of another (or create-admin), a request, a migration up and down | `TypeOK`, `LockedAfterMany`, `OneLivePerLogin`, `ChangeEndsSessions`; `MigrationRuns`, `ReferencesHold`, `OneSeason`, `SeasonStays`, `MedalsRanked` |

Why the bounds are enough.

- The requests of `FixtureTxn` are one-shot sessions on one fixture, because
  sessions on different fixtures share no row. Two sessions already show every
  conflict between two routes; a third matters for locks that are passed on and for
  deadlocks, which is what the trios are for; any number is covered by the
  proofs. `MaxVersion` 5 is long enough for start, pause, complete, reopen and
  a resumption, and every status a route reaches occurs before it.
- Three results among three teams give every cycle and every tie of head-to-head.
- In `StandingsTxn` two fixtures of one group are what two sessions must have to
  disagree, a second group gives the opposite order of locks, and a fixture without
  a group the route that rebuilds nothing. One of the two is without a live row in part of
  the first states, and the second group has a match without teams, so each way of being
  left out of the results occurs. The first scores and statuses are restricted where they
  tell nothing apart (`FewOrigins`). Three sessions give deadlock cycles of three.
- Three events are enough for a gap or an exchange in the feed; one outage severs,
  and a second would repeat it.
- In `Notifications` two workers suffice for every overlap of two tasks, two
  browsers for a recipient that fails next to one that does not, two events for a
  batch and for a scan that meets half of another; two requests for two
  registrations, two replacements, or one of each with a deletion. The load is
  four in all so that the liveness properties can be checked.
- In `Sessions` two requests make a race on a token and four are a login, two
  rotations and a change of password; two failures are one more than none to lose.
- In `Season` two seeds of a slug and one of another are what one current tournament
  can be lost or doubled with; the tally has a leader, equal points with different
  medals, and equal medals.

Deadlock checking is off where the instance itself stops: in `FixtureSerial` (at
`MaxVersion`), `StandingsTable` (at `MaxResults`) and `Database` (every session
ends, once).

In `MCFixtureTxn` and `MCStandingsTxn` each combination of routes comes once, since it does
not matter which request takes which route. Symmetry is used in `Database`
(requests, passwords), which has no liveness property.

## 4. Fairness

- `FixtureTxn`: weak fairness of `Serve(r)`. The event loop resumes every handler, and
  PostgreSQL grants a free lock and breaks deadlocks. Nothing is assumed of
  crashes. `EveryRequestEnds` says that every request that has read its fixture
  is answered or ends.
- `StandingsTxn`: weak fairness of `Rebuild(r)`, for the same reasons.
- `EventBus`: weak fairness of `Deliver(i)` and `Subscribe(i)`. Tasks are run on, and a
  send ends because uvicorn closes a connection that does not answer its pings.
  Nothing is assumed of clients, of publishers, or of Redis coming back.
- `Notifications`: weak fairness of `Work(w)`, for each worker, and of `Serve(r)`. The beat
  starts dispatch and prune again and again (`workers/celery_app.py`), tasks are acknowledged
  late and so not lost with their worker, and sessions are run on. Nothing is assumed of scans, of
  crashes (there are finitely many), or of browsers.
- `Sessions`, `Season`: no liveness is claimed.

## 5. Proofs

All theorems hold for any number of sessions, users, fixtures, groups, instances,
clients, keys, and so on, and for any values.

| Module | Theorem | Statement |
|---|---|---|
| `FixtureTxnProofs` | `Invariance` | `Spec => []Inv` |
| | `TypeCorrectness` | `Spec => []TypeOK` (scores never negative included) |
| | `LockSafety` | `Spec => []LocksAreHeld` |
| | `OrphanFreedom` | `Spec => []NoOrphan` |
| | `OwnColumns` | `Spec => OwnColumnsOnly` |
| | `AuditTrail` | `Spec => AuditExplains` |
| | `AtomicAlone` | `Spec => AtomicWhenCurrent`: an undisturbed request is a step of `FixtureService` |
| `FixtureServiceProofs` | `TypeCorrectness`, `DeadEnds` | `Spec => []TypeOK`, `Spec => NoWayBack` |
| | `ScoreboardFollows`, `DraftsStayHidden` | `Spec => []ScoreboardInSync`, `Spec => []DraftsAreHidden`, from first rows that are `WellFormed` |
| `StandingsProofs` | `Invariance` | `Spec => [](Typed /\ Books)`, what the loops have computed |
| | `AddUp`, `Ranked`, `AnyOrder` | `Spec => []RowsAddUp`, `[]RankedByRules`, `[]OrderIrrelevant` |
| | `WinsPay` | `Spec => WinNeverHurts`, from `RulesAssumption` |
| `StandingsTxnProofs` | `Invariance`, `TypeCorrectness`, `TablesStay` | `Spec => []Inv`, `[]TypeOK`, `[]NeverVanish` |
| | `Knowledge`, `LoneRebuild` | an undisturbed recomputation knows what is stored; `Spec => AloneRebuilds` |
| | `OwnResult` | `Spec => OwnResultShown` |
| `EventBusProofs` | `Invariance`, `TypeCorrectness`, `NobodyIsDropped` | `Spec => []Inv`, `[]TypeOK`, `[]NobodyDropped` |
| | `OneFeed` | `Spec => ServesOneFeed` (refinement), if Redis `Stays` |
| `NotificationsProofs` | `Invariance`, `TypeCorrectness`, `NobodyIsSkipped` | `Spec => []Inv`, `[]TypeOK`, `[]NobodySkipped` |
| | `Refinement` | `Spec => KeepsOutbox` |
| | `Replacement` | `Spec => AloneReplaces` |
| `SessionsProofs` | `Invariance`, `TypeCorrectness`, `NoEarlyLock`, `Rotating`, `Revoking` | `AccountSpec => []Inv`, `[]TypeOK`, `[]LockedAfterMany`, `[]OneLivePerLogin`, `[]ChangeEndsSessions` |
| `SeasonProofs` | `Invariance`, `OneTournament`, `NoGap` | `Spec => []Inv`, `[]OneSeason`, `SeasonStays` |
| | `WholeSchema`, `WholeRows`, `MedalTables` | `Spec => []MigrationRuns`, `[]ReferencesHold`, `[]MedalsRanked` |

Assumptions: those declared with the constants, which TLC evaluates in every run. All but one
are typing (a group is a finite set of numbered teams, a tally of medals a function on finitely many
departments), or the difference of null values from values. The one is `RulesAssumption` of `Standings`:
a win brings points, and more than a defeat, and every list of tie-breakers starts with points. The
seed writes 3, 1, 0, and nothing writes `tie_breakers` but its default (`models/core.py:94-99`). Only
`WinsPay` rests on it: ranked by goals first, a win could cost a place. Two more are stated with the
theorems that need them. `WellFormed`: the first live row has the version of its fixture and the first
row is public just if it is not a draft, as `create_fixture` and the seed leave them.
`Stays`: Redis is up at the start and has no outage. `FeedOutOfSync` shows that
without it the statement is false.

The arguments.

- `FixtureTxn`. `TypeOK`, `LocksAreHeld` and `NoOrphan` are not inductive: that a
  deletion leaves no live row rests on the insertion being under the lock of the
  fixture row, and that a commit writes its own columns only rests on what its
  session has staged. `Inv` adds `SessionInv(r)`: what a session has staged differs from what it
  loaded in the columns of its route only (`StagedWrites`); a live row it has loaded
  is there as long as the fixture is; and from its first UPDATE to its end it holds
  the row lock and the row exists. There is a lemma for each kind of step (`LoadInv`,
  `HandleInv`, `FlushRowInv`, `FlushLiveInv`, `DeleteInv`, `CommitInv`, `RollbackInv`,
  `EndInv`), and `NextInv` puts them together. `OwnColumns` follows from the staged
  writes and the lemmas on the partial UPDATE (`MergedRow`, `MergedLive`).
- `AuditTrail` needs that a session which has not committed has no entry in the log
  (`Unrecorded`): so whatever the log gains in a step is of the session that commits in it.
- `AtomicAlone` needs that an open session has passed the checks of its route,
  with what it loaded, and has staged their result (`Granted`, by `May`, which is `FixtureService`
  with the rows as parameters). If the committed rows are still those it loaded, its partial UPDATE is the whole
  row (`CurrentCommit`) and what it `May` do the service accepts (`MayAccept`).
- `FixtureService`: types, versions and publication together are inductive (`SerialInv`); each kind of
  request leads to the next version, in fixture and live row alike.
- `Standings`: what a LET of a recursive function defines satisfies its equation because some function
  does (`Recursion`, `WalkExists`), and two walks through lists that agree end alike (`WalkAgree`), so one
  result more is one step more (`RowsMore`, `HeadMore`). `RowsAddUp` is not inductive, since points alone do not
  say how many matches were won; `Books` has each number of a row, the head-to-head points of every team in
  every set of teams, and the balance of the sums. `WalkSwap` gives `AnyOrder` from two results commuting.
  For the ranking, tuples of integers are strictly ordered (`LexOrders`), the number of keys before each is
  then a bijection to the places (`Places`, `TableOf`), and the first difference of two keys is that of
  the first criterion that separates the teams (`SeparatesIs`, `LessBetter`).
- `StandingsTxn`: a session deletes the rows of a group only together with making new
  ones, founds the standings of a group the same way, and makes rows only where the standings
  are there or come with them (`Sound`); committed standings stay.
  `Kept` adds what each session knows (`Undisturbed`). For `LoneRebuild` (`Alone`): as long as nobody else commits, what
  a session has read, deleted, found or made is what its commit will leave. For `OwnResult` (`Own`): as long as nobody
  else commits on its fixture, the result its SELECT returns, as flushed, is the one committed, and the group's rows
  it makes hold it (or, for a cancelled fixture or one the SELECT leaves out, do not).
- `EventBus`: targets of a broadcast have been in the room, and a socket is taken out
  by its own handler or after a send that has failed. For the refinement
  (`FeedInv`): the inbox of an instance is the end of `log`, the rest has gone through its relay one
  broadcast at a time, and the last event a client has received is the last one of its room
  before that point, or before the broadcast it is still a target of.
- `Notifications`: what a dispatch has still to record are the recipients that matched when it
  looked, so those owed are among them or on record (`JobOK`). Every commit maps to `Announce`,
  `Settle` or `Forget` of `Outbox`, and every other step to a stutter: the foreign key and the
  unique pair are what keeps `Settle` enabled. `Replacement` needs (`Stands`) that a row nobody else
  has changed is still active if it was loaded so, and that the DELETE has found all its preferences.
- `Sessions`: the token a session is rotating is the one live token of its login, unless
  another session has it too (`Rotation`); a change has selected, when it commits, all tokens
  there were when it began and were not revoked. For `Revoking` that is not enough, since a rotation gives the
  login another token. `Over(f, gone)` says of a login that nothing of it is live but what is in `gone`, and that nobody is about to rotate for it:
  it holds of what a change has selected (`Selected`) and of the logins it has ended (`LoginsOver`), all but those in
  `slipped`, and nobody can issue a token for a login that is over.
- `Season`: a seed that is about to commit deletes the tournament of its slug, if there is one, and demotes
  every other there is, unless seeds have overlapped (`Informed`, `Alone`); that two of one slug are never both
  about to commit is the unique slug. Deleting and inserting are one commit, so there is no gap.
  `WholeSchema` follows the 39 statements in both directions: the schema is what the first n of them have made
  (`Upto`), each table names only earlier ones, and the drops are the creates backwards. `WholeRows` needs that the
  recursive function in `Cascaded` has reached its fixpoint after as many rounds as there are tables (`CascadedClosed`):
  what is left when these rows are gone refers to none of them. `MedalTables` is the argument of the ranking of `Standings`
  again, with the stored points those of some tally (`Scored`).

Only model-checked: liveness (`EveryRequestEnds`, `EveryRebuildEnds`, `EveryEventArrives`, `DeadSocketsPruned`,
`EveryEventDispatched`, `DeadPruned`), since fairness and ENABLED are out of the reach of TLAPS, and the four
violations of section 6, each of which is a behaviour TLC exhibits. Every other property of
the runs is a theorem.

## 6. Where the documents and the code disagree

- `SilentOverwrite`: `services/scoring.py:3-5` promises that a stale update raises 409
  "so no update is silently overwritten". The version is compared in memory and the
  UPDATE has no condition on it: two requests that loaded the same version both succeed.
- `RetryTwice`: `schemas/admin.py:44-45` says that `idempotency_key` lets a client retry
  "without double-applying". The key is never read, and fixture and live row are
  read by two SELECTs: a retry that reads the first before the commit of the first
  attempt and the second after it adds its delta again.
- `StandingsDiverge`: "deterministic" recomputation (`src/README.md:67-68`,
  `services/recompute.py:4-5`). Of two completions in one group at the same time, the one that commits last
  has not seen the other's result. If its DELETE began after the other's commit, one table remains, without that
  result; if before, the rows of both remain, each without the other's result. Both behaviours are in the model;
  TLC reports the first it meets.
- `FeedOutOfSync`: "Events flow through Redis pub/sub so multiple API instances stay in
  sync" (`src/README.md:69-70`). An instance that starts during an outage never
  subscribes, and a subscriber that has died is not restarted.

More can be seen in the models, or in the data they abstract from, without a run of its own:

- "Revoke all refresh tokens - force re-login elsewhere" (`endpoints/auth.py:181`). A refresh that has loaded its token
  may issue the next one after a change of password has selected the tokens: the change revokes the old one,
  the new one stays, and the session outlives the change. `ChangeEndsSessions` therefore exempts the logins in
  `slipped`, those with a refresh under way at some moment between the SELECT and the commit. A login that has checked the old
  password before the change commits likewise issues a token after it.
- "Standings are recomputed ... on completion" (`src/README.md:67-68`): a fixture that was resumed without having
  been started has no live row (see the next item), may be completed (`admin.py:532`), and is then COMPLETED
  with its result in no table, since the SELECT joins the live rows (`recompute.py:57`). A `correct` repairs it.

- `set_period` does not look at the status, so the assigned official may edit a completed match
  (`services/lifecycle.py:3-5` says the opposite), and `resume` accepts a fixture of
  the seed that was never started, which is then LIVE without the live row that
  `models/fixtures.py:126` promises.
- `seeds/data.py:325` and `seeds/seed.py:215` call the schedule of male football a round-robin. In
  Group B, ZLY and PRE-MED meet twice, and ZLY-FSH and BCH-PRE-MED never.
- "Two completed MD1 results" (`seeds/seed.py:251`): only one is, since the pair ("MSM", "MIC") it
  looks for is ("MIC", "MSM") in the data.
- The medal formula is "editable per tournament" (`services/medal_table.py:41`): the seed stores totals by the
  data's points, but the public page uses `DEFAULT_MEDAL_POINTS` (`public.py:297`). `MedalsRanked` therefore
  asks for equal tables only where the points are equal.
- `src/README.md:36-37` has `seed` with demo data and `--no-demo` without; `cli.py` has no such
  option and is lean by default.
- "Re-running drops the existing ... tournament (cascade)" (`seeds/seed.py:3`) is true of PostgreSQL. SQLite is
  opened without `PRAGMA foreign_keys`, so the old sports stay, and the lookup of a sport by slug
  (`services/repo.py`) finds two. The same lookup finds two after a second season under another slug, on any database.
- A seed deletes the tournament of its own slug; of two seeds of different slugs that overlap both
  may end up current (`overlapped` in `OneSeason`).

What the code leaves open, and the models therefore do too: lost counts of overlapping failed
logins (`auth.py:87`); a login that upgrades the hash while the password is changed, and puts the old one back
(`auth.py:98-99`); two live tokens after one token was refreshed twice at once; a push that failed for another reason
than 404 or 410, recorded and never repeated; the key of a reminder, which has no start time, so that a fixture that was
moved is not announced again; a dead endpoint that a dispatch switches off after its browser has registered
again; fixtures generated twice, and an odd team without an opponent in a knockout (`admin.py:243-246`).

What holds is as telling: columns of different routes never undo each other, a
request that meets no other is atomic, a deletion leaves no orphan, a group
never loses its table, while Redis is up all clients of all instances see
one order of events, no overlap of tasks leaves a browser out or records it twice, a
change of password ends every session there was when it began and that was not being refreshed
meanwhile, and no reader finds the site without its tournament.

## 7. Not modelled

- Configuration, logging, middleware, error envelopes: formatting and wiring without state.
- Public queries and serializers: they change nothing. What they must not find is a
  property of the writers (`DraftsAreHidden`, `NeverVanish`, `SeasonStays`).
- Brackets, races, sets: tables that nothing writes; their references are in `Schema`.
- Columns that are no key, their types, and indexes; of the seed's data, all but the slug and the medals.
- Which pairs `generate_fixtures` makes: `itertools.combinations`, or neighbours.
- The rate limit of `create_event`: it is for score events, and nothing creates one.
- Access tokens and `is_active`: the first are stored nowhere, the second is never cleared.
- Shutdown of the event bus; the contents of event envelopes; the audit log's "changes"; the
  texts of errors.
- `cli simulate`, a demo tool that is refused in production and writes scores without audit or
  version check; `generate-vapid`, which prints a key.
- SQLite, which local development and the tests use: it lets one session write at a time, and what
  it does differently in a seed is in section 6.
