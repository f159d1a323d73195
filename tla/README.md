# Verification of the train alert service

TLA+ models of the service in `src/`, TLC runs on small instances, and proofs
checked by TLAPS. The service polls the departure boards of SNCF stations
(Navitia) for the journeys its users follow, stores the delays and
cancellations it finds as *disruption events*, and announces them by e-mail and
Teams. It is a Fastify API (`apps/api`), a worker process that runs the same
ingest loop (`worker-ingest.ts`), a PostgreSQL database and a React front end.

Paths below are relative to `src/apps/api/src/` unless they start with `src/`.

## 1. Inventory

| Component | State | Operations | What makes it correct |
|---|---|---|---|
| **Ingest loop** `worker-ingest.ts`, `index.ts`, `adapters/ingest.ts` | none but the database; the process's locals between awaits | poll every journey's board, persist, drain, wait | a reading of the board becomes one event; nothing it must announce is lost when it stops |
| **Alert decision** `domain/notify-step.ts` | `notified_delay`, `notified_severity` of the event row | notify again? | announce a first time, and again when it gets worse by a step, never twice for the same thing |
| **Job queue** `notify_jobs`, `domain/store.ts:2928-2975`, `domain/notify.ts` | job rows, the drain's batch | enqueue, claim, complete | a job is in one hand, leaves once per channel, and is settled |
| **Delivery** `domain/notify.ts`, `adapters/notifiers.ts` | `alert_deliveries` | check, send, record on two channels | the history is what left; a channel does not stop the other |
| **Watch schedule** `domain/matching.ts` | none (a function of the clock) | which journeys are polled, which trains are followed | watched when the specification says, whatever midnight does |
| **Statistics purge** `domain/store.ts:2697-2770` | events, jobs, deliveries, observations | delete by source | what is deleted together, and what survives |
| **Accounts and sessions** `domain/store.ts:762-990`, `domain/auth.ts`, `domain/access.ts` | accounts, sessions | log in, create, edit, change password | an active administrator remains; a disabled account is out |
| **Liaisons and journeys** `domain/store.ts:993-1293`, `db/pool.ts`, `routes/admin.ts` | liaisons, two legs each, the default | start and seed, create, edit, choose the default, delete | two legs each; one default; never none; a restart keeps what was edited |
| **Board observations and snapshots** `domain/store.ts:2189-2415` | the next train per journey, per-train rows, per-day counters | replace, upsert, increment, cascade, purge | a train is counted once; nothing survives its liaison; the board follows the stations edited |
| **Navitia reading** `adapters/departures-navitia.ts`, `navitia-orphan-cancellations.ts`, `domain/corridor.ts`, `departures-cache.ts` | two process caches | fetch, match the destination, find cancelled trains, find orphans | what is announced is true, goes the right way, and nothing is missed |
| **Ingest settings, quota and status** `domain/store.ts:614-760`, `1990-2017`, `2648-2667`, `routes/admin.ts:345-409` | `app_meta` keys, `api_quota_daily` | read, probe, write one setting at a time, count | the status is one poll's; the check is of the key shown; every request is counted |
| **Request limits** `domain/rate-limit.ts`, `domain/outbound-budget.ts` | in-memory buckets | count, lengthen, forget, sweep | the limit holds whatever the table forgets |
| **Dashboard indicators** `domain/store.ts:1359-1912`, `domain/paris-calendar.ts` | none (queries) | period counters, heatmap, day detail, card | the figures agree with one another, also when the clocks change |
| **Sign-in** `src/apps/web/src/auth/AuthContext.tsx`, `App.tsx`, `pages/GatePage.tsx` | who is signed in, visitor setting, requests on their way | mount, log in, log out, enter as visitor, reload | a late answer does not undo a newer one |
| **Dashboard and heatmap** `src/apps/web/src/pages/DashboardPage.tsx`, `components/ActivityHeatmap.tsx`, `LiaisonScopePicker.tsx` | scope, overview, spinner, error, selected day, its detail | load with a fallback, pick, refresh, select a day | what is shown is of what is selected; the page never waits for nothing |
| **Mail settings** `domain/store.ts:2020-2180` | key-value rows, recipients | bootstrap from the environment, replace | no half configuration |
| Stations, weather, logs, HTTP set-up, the rest of the schema, shared types | | | single statements, rendering, configuration |

**How they interact.** Worker and API share nothing but the database. There are
no transactions around a handler (the statistics purge and the replacement of the mail
recipients are the exceptions):
every `await pool.query` is visible to the others on its own, and every other
process may run between two of them. The ingest loop runs in the worker, in the
API (`INGEST_IN_PROCESS`, the development default), or in both. Inside a poll,
`persistAlertAndMaybeNotify` writes the event, queues the job, drains the queue
when the notification is an escalation, and marks the event as notified; the
poll drains once more at its end, and the worker once more after it. The browser
sees the server only through requests that may be answered in any order; React
runs its callbacks one at a time.

**What is hard.** Two loops on one table (upserts by select-then-insert, claims
with `SKIP LOCKED`); crashes between the event, its job and its mark; a purge
under a delivery; channels that fail, or answer wrongly; a poll that any
journey's board can abort before it drains; times of day compared as texts
around midnight; administrators who edit one another; a poll that holds what it
listed for minutes while its liaisons are edited or deleted; a second process that
starts, migrates and seeds beside one that serves; eight ways in which Navitia tells
one suppression, read twice from a cached board; texts in which a station's or a train's
name is found although they speak of another; answers that reach
the browser after the choice they were asked for. `PROJECT.json` lists each
of these under `hazards` at its line, with the property that covers it or the
reason none does.

## 2. Modules

| Module | Models | Used by |
|---|---|---|
| `NotifyStep` | `notify-step.ts` and the classification of a departure into an alert (`ingest.ts:593-637`) | `AlertPipeline` |
| `AlertPipeline` | poll, upsert, enqueue, mark, claim, deliver, complete, purge, crashes | `MCAlertPipeline`, the proofs |
| `NotifyQueue` | the *abstract* queue: what `notify_jobs` promises | `AlertPipeline` (`Queue == INSTANCE ...`) |
| `WatchSchedule` | the pure functions of `domain/matching.ts` on a weekday and a time of day | `TrainWatch` |
| `TrainWatch` | one train of a watched journey under the loop's clock, and the specification's watch on a time line | `MCTrainWatch`, the proofs |
| `Accounts` | logins, sessions, creations, password changes, edits | `MCAccounts`, the proofs |
| `Liaisons` | the liaison requests and the start of the process, statement by statement | `LiaisonBoard` |
| `LiaisonBoard` | what a poll writes on the board of the liaisons, composed with `Liaisons`, the purge and restarts | `MCLiaisonBoard`, the proofs |
| `NavitiaReading` | how one answer of the board is read: matching, cancellation, orphans (pure operators) | `IngestLoop` |
| `IngestLoop` | one ingest loop from settings to wait, its cache, the trains and Navitia, one administrator | `MCIngestLoop`, the proofs |
| `RequestLimits` | the bucket table of `rate-limit.ts` (pure operators) | `SignIn` |
| `Indicators` | the dashboard's queries and Paris midnights (pure operators) | `Console` |
| `SignIn` | the browser's and the server's view of who is signed in, with the login limits | `Console` |
| `Console` | the dashboard of one tab, composed with `SignIn` and `Indicators` | `MCConsole`, the proofs |
| `AlertPipelineProofs`, `AlertEventsProofs`, `TrainWatchProofs`, `AccountsProofs`, `LiaisonProofs`, `IngestLoopProofs`, `AlarmProofs`, `ConsoleProofs` | theorems | |

What the modules share is cut where the code's own interfaces are: an alert is one
step of `IngestLoop` and the whole pipeline in `AlertPipeline`; the board row is one
step there and statements in `LiaisonBoard`; `Accounts` has every account and
session, `SignIn` one of each.

### The pipeline

A process is a poller (the worker, the API's own loop) or an injector (a request
to the stub route). `pc[p]` is the await it has reached, and its locals
(`todo`, `work`, `claimed`, `job`, `chan`, `outcome`, `ret`) are what the code
keeps across it. One action is what runs between two awaits:

| Action | Code |
|---|---|
| `StartPoll`, `IdlePoll`, `FetchFails`, `EndBoard` | `NavitiaDeparturesAdapter.poll`, its journeys and its drain; the stub provider |
| `AlertDeparture` | a departure that passes the filters and alerts, and the SELECT of `upsertEvent` |
| `InsertEvent`, `UpdateEvent`, `UpsertThrows` | its INSERT or UPDATE, on a row that appeared or vanished since the SELECT |
| `Enqueue`, `EnqueueThrows`, `MarkNotified` | `notifyForEvent` and `markEventNotified` |
| `InjectStub` | `injectStubEvent` and its immediate drain |
| `Claim` | `claimNotifyJobs`: one UPDATE over a locking SELECT, so one step |
| `TakeJob`, `Suppress`, `CheckChannel`, `SendMessage`, `RecordDelivery`, `RecordRefused` | `deliverEvent` on each channel |
| `CompleteJob` | `completeNotifyJob`, and what follows the batch |
| `Crash`, `QueryFails`, `DeliveryQueryFails` | a process that stops, a query that rejects, a rejection `processNotifyJobs` catches |
| `ClearStats` | `clearStats`, one transaction, with the foreign keys of `schema.sql` |

Abstractions. A departure is `[cancelled, delay]`; places, texts, weather and
wording are left out. Whether a departure is matched and watched at that moment
is a free choice of `AlertDeparture` (it picks from `todo` or not), because two
polls of one train may differ; likewise `matched` in `TakeJob`, which reads the
journey's settings and the clock again. SMTP and Teams are external:
`SendMessage` lets a message leave although the notifier answers that it failed,
never the reverse.

### The watch

`WatchSchedule` keeps the code's two views of an instant, the weekday and the
minute of the day ("HH:mm" texts order like minutes), and its arithmetic with
wrap-around. `TrainWatch` states the specification
(`src/openspec/specs/ingest/spec.md:62-63`) on a time line of minutes since a
Monday, where nothing wraps, so the two can disagree. They do when the lead reaches
back over midnight: the code then watches the evening of the travel day and of the
day after it (`matching.ts:140-146` asks for yesterday's weekday, its comment for
tomorrow's), never the eve; and when the wrapped opening comes before the end of the
window, it drops the hours before it. `WatchedInstead` says on the time line which
instants are watched then, and `WatchFollowsSchedule` that it is exactly these, and
exactly the specification's for every other journey. The operator of the train
may announce, shorten or cancel until it leaves; the loop reads every `Period`
minutes.

### Accounts

A request is a sequence of statements without a transaction; `target`, `body`
and `row` are what it keeps across them. `patchUser` is `StartPatch` (the guard
of the route), `ReadAccount`, `CountAdmins`, `UpdateAccount`, `PurgeSessions`;
the other requests are a check and a write. Editors (`Patchers`) are separate from
other requests (`Clients`) so that "one edit at a time" is a statement about a
constant. `Fault` ends a request wherever it is.

### Liaisons and their board

A request of the administration page is a record: where it is and what it read.
`createLiaison` is `StartCreate`, `InsertLiaison` and two `Creating` steps;
`upsertLiaison` is `StartEdit`, `GetCurrent`, `Editing`, `StoreName`;
`setDefaultLiaison` is `StartSetDefault`, `ClearDefault`, `SetDefault`;
`deleteLiaison` is `StartDelete` (the count), `ReadDefault`, `DeleteLiaison`,
`PromoteOldest`. `upsertJourney`, the older route for one leg, is `StartEditFirst`
and joins the edit. Both processes, the API and the worker, run `migrate` and `seed`
when they start (`worker-ingest.ts:23`), so `boot[p]` is the start of `p`, statement
by statement (`BootStep`): it counts and repairs the default, reads the flag of the
seed, and then finds or creates a liaison and writes its legs. The worker starts
beside an API that serves requests, the API beside a worker that polls.
`updated_at` is a rank: only its order is read. `RequestFails` is a rejected
statement; `Crash(p)` keeps what was written and loses the start of `p`, with the
requests when `p` is the API. The history variable `disturbed` says that a start
judged the default beside another writer of it, or that one was cut short, since
the last start that judged alone.

`LiaisonBoard` adds the poll: it lists the open journeys once (`StartPoll`), and
then writes for each the next train (`SaveNext`), the observation of every train
(`Observe`) and, for one seen for the first time, the day's counter (`Count`).
A foreign key that fails ends the poll. `Delete` is `DeleteLiaison` with its
cascades. A train's row keeps, beside its last status, the one it was created with
(a history variable that the counters are compared with).

### The ingest loop and Navitia

`world[t]` is the set of stops train `t` does not serve, `skipped` everything it
ever skipped. `Answers(o)` is every board Navitia may give of what is: for a train
that skips `o`, each of the ways in which the code recognises it (`Forms`: the
stop's status, its texts, a missing real time, an impacted stop linked or by the
train's number, a disruption without service or with such a text, or no departure
at all, "gone"); for one that runs, its delay, links to the disruptions of all the
others, and, if it skips other stops, a disruption of its own whose text may speak of a
suppression ("part"). `NavitiaReading` then is the code's reading of it. What a text
holds is a constant: `Shows[t]`, the stations that the direction of `t` is read to show
(by its id, or by one word of three letters of their label anywhere in the text),
`Names[t]`, the stations of the corridor it names, and `Within`, the pairs of trains of
which the number of one is in the trip id of the other. `Severities` and `MinDelay` are
what each journey asks to be told. The loop is one
record: `ReadProvider` to `ListJourneys` are the settings, `ReadCache` to
`DeparturesFail` the board, `CallRoute` to `RouteFails` the vehicle journey of a
train whose direction does not decide, `SaveNext` the first reading,
`AlertDeparture` and `AlertOrphan` the second, `WriteStatus` and `WriteDetail` the
result, `ReadInterval` and `Wakes` the wait. `Slot` is what the settings page
shows of a key and its check, `ShownNext` what the public board shows of a journey. `QueryFails` tells the statements the
adapter's `try` guards from those the loop's own does; `Crash` covers the one that
none does. A vehicle journey may leave its own cache before any reading (`Expire`);
`unread` remembers the departures the second reading left out because their vehicle
journey could not be fetched. The administrator's `PUT` and `probe` requests are the second actor.

### The console

`SignIn` has, for each call of the browser, where it is: sent, answered by the
server, or none. The server evaluates in one step, the answer arrives in a later
one, and either may fail. A login is three steps of the server, which awaits the check
of the password and the new session: counted, verified (both keys are released), and
the session. `there` is a login of the same name from another address, between its
count and its release. `Console` adds the dashboard: `loads` are its requests on
their way, each with what it asked, whether it is the fallback, and whether its
page was left; `heat` is the heatmap's state with the fetch that counts and one
that was aborted. `RunEffects` (React's effects) is a step of its own, so that
other callbacks may come before it: a superset of what React does.
`Indicators` computes the figures from a constant set of events, with hours for
time and two changes of offset.

## 3. Runs

| Run | Expected | Question | Bounds |
|---|---|---|---|
| `alert_pipeline` | pass | two loops on one database: is a job ever in two hands, a first notification repeated or lost, an unsent message recorded? does the table keep the abstract queue's promise? | one train, two reports (a first one and an escalation, or two loops at once), one fault, one purge, e-mail only |
| `pipeline_drains` | pass | without failures, is every job settled, both channels tried, each escalation decided on the current row? | worker and stub requests, two reports, e-mail switched at run time |
| `drain_starved` | violation | does the queue drain when a board keeps failing? | in-process loop |
| `clear_links` | violation | does a purge of a source delete the linked deliveries? | one purge |
| `train_watch` | pass | is the watch open exactly when specified? is the last word on a train read before it is dropped? | 30 journeys around noon and midnight on single and neighbouring days, twelve of them with a lead that reaches back over midnight, Monday to Wednesday, step 5 minutes, delays 0/15/130 |
| `watch_shrinks` | violation | the same on a 00:00-23:59 window with the default lead of 4 h | one journey |
| `accounts` | pass | does an active administrator remain? do the sessions of a disabled account end? | two accounts, one editor, one other request, two sessions, three edits, one fault |
| `last_admin` | violation | the same with two editors | two edits |
| `liaison_board` | pass | is one liaison the default after requests and starts, unless two writers of it met? is a half liaison owed to a fault? do counters count each train once, does a deleted liaison leave nothing, do later starts keep edits, does the board come to show trains of the stations edited? | two liaison ids, two routes, the starts of API and worker, one editor with two requests, one train with two statuses, one fault, one purge, in five scenarios; 867,987 states |
| `navitia_board` | pass | is a suppression announced only where there is one or where a linked disruption reads as one, for a train that goes the right way or is read as going it? is any missed by a poll that ended well? do the card and the alerts agree? | two trains that meet at Monaco in opposite directions, the number of one within the other's trip id, the direction of one holding a word of the other's destination; two journeys from there, one of them without suppressions; cache of one tick, three ticks, six forms, at most two stops skipped, at the origin or elsewhere, one fault; 2.2 million states |
| `ingest_loop` | pass | is every request counted once, the result one poll's, the check of the key shown, does the loop go on? | one train, two keys, one of them valid, one request of the administrator, two faults (failed call, rejected query, crash), one instant; 359,141 states |
| `console` | pass | do figures, picker and stored scope agree, does the page ever wait for nothing, is the day's panel the day's, do colours and counts agree over the night the clocks change, is a signed-in user shown as such, does the login limit hold? | one tab, two liaisons, three events on the days after summer time began, two requests on their way, one deletion by others, limits of 2 attempts in a window of 2 ticks, 3 buckets, the same name tried from another address; 1.2 million states |

Why the bounds are enough to be interesting: two reports are the least with
which an event is stored, notified and escalated, or with which two loops race
to insert it; one fault or purge can fall between any two steps of both;
delays lie on both sides of the step and of the severity threshold. Event and
job ids are never reused, so each bound cuts a behaviour short and changes
none of its prefix. What does not depend on the bounds is proved (section 5).

The new runs follow the same rule. In `liaison_board` two ids are enough to delete
the default, promote another and never be left without; two requests put one
request's writes under the other's poll. A scenario (`MCScenarios`) says what happens
together: two edits and a crash while both processes start, or a poll beside edits,
beside a fault, beside a purge; all of it at once would be the same meetings in more
combinations. In `navitia_board` the two trains share a
station and cross in time, so a disruption of one can be mistaken for the other's,
and the cache outlives a change. One fault is a request for a vehicle journey that fails in one of the two readings, or a query that cuts the poll between them. `ingest_loop` has what `navitia_board` leaves out: the administrator, refused keys, several faults and windows in which no journey is open; what it asks does not depend on the clock, which stands still there. In `console` two requests on their way are the least
that can overtake one another. Its other cuts are named *bound* in the modules: the
dashboard is opened after a sign-in without failures, login windows run only at the
gate before it, while it is open only a logout ends the session, the page is not
reloaded in the middle of a login or logout, and the visitor setting does not change.

`CHECK_DEADLOCK FALSE` where the model stops at its bounds: the horizon of
`TrainWatch`, the edits and sessions of `Accounts`, the requests of `Liaisons`. The
other runs check deadlock: a loop can always poll again, a browser always reload.

**Fairness.** `FairSpec` asks weak fairness of each process's own steps
(`PollStep \/ DrainStep`): the worker is kept running by systemd, the API by its
event loop, and each await ends. Nothing is asked of the administrator or of
faults. `pipeline_drains` assumes that no board fails and nothing
crashes: with a crash, the jobs claimed and not completed stay `processing` for
ever, because no statement takes them up again (hazard at `store.ts:2941`).

`LiaisonBoard` asks weak fairness of each process's start and of the poll's steps
(systemd, the interval timer); requests may stop anywhere. `IngestLoop` asks it of
the loop's own steps: every call it awaits ends, the vehicle journeys by their
12-second timeout and the board by the HTTP client's own (five minutes), and a
process that exits is started again. Neither asks anything of the administrator, of the trains or of faults, whose
number is bounded: after the last one the loop must come back by itself.

## 4. Findings

Four places where a run contradicts what the repository says of itself; each
run is the shortest counterexample TLC finds.

1. `drain_starved`: `ingest/spec.md:239` wants deliveries independent of the
   poll; the drain is the last statement of the poll's `try`, and the worker
   drains only after a poll that did not throw, so a board that keeps failing
   keeps a queued first notification waiting.
2. `clear_links`: `admin/spec.md:104` deletes a source's events *and the linked
   deliveries*; the foreign key unlinks them when the events go, before the
   deletion by event id looks for them.
3. `watch_shrinks`: a lead that wraps over midnight while its wrapped start is
   before the window's end leaves only the last hours watched, and the eve is
   watched on the wrong evenings (`WatchAsSpecified`, where `WatchFollowsSchedule`
   says exactly what is watched); `matching.test.ts:106` says the all-day window does not shrink, and tries it
   with a lead of 0.
4. `last_admin`: `auth/spec.md:150` forbids removing the last administrator; the
   count and the write are two statements, and two edits pass the count together.

**Observations.** Met while modelling, and not findings: the repository promises
nothing the code breaks, or no run was spent on it.

- Two editors: `deleteLiaison` counts and deletes in two statements
  (`store.ts:1248`), so two requests may delete the last two liaisons
  (`src/openspec/specs/admin/spec.md:45` keeps one); two `setDefaultLiaison` may
  leave two defaults until the next start. `LiaisonBoard` reaches both with two
  members in `Request`.
- One editor and a start: the worker's `ensureLiaisonDefaultColumn`
  (`pool.ts:207-230`) may count no default between the two statements of
  `setDefaultLiaison`, and both then set one; two first starts together may each
  seed a liaison. The comment there says « Au plus une default ». `OneDefault`
  excuses exactly these meetings, and says that the next start that judges alone
  ends them.
- The first start of the worker, begun before anybody was served, holds
  `forceBoardDefaults` while the API's start ends and serves an edit: it then writes
  the seed's legs over that edit (`store.ts:423-522`). `EditsSurviveRestart` speaks of
  starts begun after an edit was served.
- Orphan cancellations are not filtered by destination (`ingest.ts:641-696`), as
  departures are: `RightWay` is about alerts read from departures. They also bear
  the date of the poll.
- Any linked disruption whose text holds "supprim…" cancels the whole departure, also
  when it is of other stops or of another train (`departures-navitia.ts:349-366`,
  although `src/openspec/specs/ingest/spec.md:208` forbids it of other stops):
  `NoFalseAlarm` excuses exactly the departures linked to a disruption that reads so,
  and fails without that clause (`ReadsSuppressed`). No distinction is made between
  trains that leave one station at the same minute (the hypothesis `Apart` of
  section 5).
- A direction that holds one word of three letters of the destination's label is taken
  as going there, whatever the train calls at (`matching.ts:312-325`): a train to
  Saint-Laurent-du-Var for a journey from Antibes to Saint-Raphaël, which is the other way.
  `RightWay` excuses exactly the directions read so (`Shows`).
- A journey that does not ask for suppressions is shown a cancelled card that nobody is
  told of: the first reading does not look at `severities`, the second does
  (`ingest.ts:604`, `654`).
- After a crash between the next train and its alert the card shows a suppression
  nobody was told of, until the next poll.
- `rate-limit.ts`: a window that is used up starts a penalty of one window and the
  strike is gone when it ends, so the penalty never grows beyond the first
  (`MAX_STRIKES` is never reached, while `auth/spec.md:55` speaks of a progressive
  one). A full table that has no window to drop forgets its oldest key, which may be
  the one that is locked. A login releases the name for everybody, as the comment above
  `resetLoginRateLimit` accepts: a name whose owner signs in again and again lets
  through any number of attempts, from addresses that are each limited.
- After a cancellation the notified delay is NULL (`notify-step.ts:38`): a train
  that runs again, late, is announced from zero.
- The dashboard keeps `me` after the session ended ("API indisponible"); a logout
  that fails shows the gate and leaves the session, so a reload signs in again; a
  dashboard that was left still writes the stored scope; with several requests on
  their way the last answer, not the last choice, decides what is shown (all three
  agree then: `ScopeAgrees`).
- The heatmap's first day is cut where its 53 weeks begin; the list of a day stops at
  100 rows while its counters do not; on the 25-hour day "today" can exceed "last
  24 h"; the overview reads with many statements and no snapshot.
- `injectStubEvent` writes `last_ingest_status` beside the loop; `deleteStation`
  checks and deletes in two statements, `updateStation` renames an id in use.

## 5. Proofs

Every theorem is for all values of the constants the modules' named assumptions
allow: any processes, boards, jobs, bounds, users. No proof step is omitted. The
assumptions of `IngestLoop` say what its module is about: there is a train and a
journey, `Order` (the order in which an answer lists the disruptions) names every train,
and `Failures` (the sets of stops a train may skip) includes the empty one.
A theorem that needs more says so in its statement: one editor, one poller, trains
that can be told apart.

**`AlertPipelineProofs`.** `TypeCorrect` needs `LocalsOK` (what a local holds at
each program point: an id is never 0 where it is used). `OneHolderAlways` is not
inductive alone: a claim gives out pending jobs, so one must know that what is
held is not pending. `HoldInv` has four parts: `DrainLocal` (the job at hand is
claimed, and nothing is claimed outside a drain), `OneHolder`, `HeldJob` (a held
job is `processing` or `deleted`, and what left of it so far is exactly what its
program point and channel imply) and `JobIdsInv`/`MailOnce` (unborn jobs sent
nothing; every job at most one message per channel). `QueueRefined` uses it to show
that each step is a step of `NotifyQueue` or a stutter: `Claim` is `Take`,
`SendMessage` is `Send` at most, `CompleteJob` is `Settle`, the purge `Discard`.

**`AlertEventsProofs`.** `UnforcedOnce` adds `EventInv`: ids are fresh
(`IdInv`), and a first notification exists once per event because only the
process that inserted the row may queue it, and it has not yet or has done so for
good (`FirstJobInv`). `MarkedAlwaysHasJob` adds `MarkInv` (at `mark`, or in a
drain that returns there, the job is queued), `StrandedAlwaysFaults` bounds the jobs that are `processing` in nobody's hands by the
faults: `StrandInv` says besides that a process holds at most one batch, because a claim
takes at most `ClaimLimit` rows (`OldestBounded`, from the last job of every set of
them, `LastJobOf`), so that a fault lets go of at most as many. `HistoryAlwaysReal`
counts: `HistoryInv` gives each `sent` row of an event and a channel a job of its own
among those that put a message there and are no longer at `record` (`Accounted`), so
that one message can never have two rows.
`HistoryAlwaysComplete` and `ChannelsAreTried` are about runs in which nothing
failed and nothing was purged. `CalmInv` says what such a run has done so far: no
process is in a state only a failure leads to, every job that is done has passed
every channel (a row in the history, or the channel was off, or the message was
suppressed), and a job in hand has passed the channels before the present one
(`Progress`). `DecisionsAreFresh` assumes `Pollers = {w}`, the deployment of
`docker-compose.prod.yml`. `FreshInv` says that an injector works only on the row it
will insert (`InjectorLocal`), that the row a process read before its write is of the
train it works on (`SeenLocal`), and, for the one poller, that what was notified is
what it read (`SeenRow`): a stub request may write the row in between, but never what
was notified.

**`TrainWatchProofs`.** For every journey whose travel window does not wrap,
`WatchFollows` shows what the time-of-day arithmetic of `matching.ts` watches on the
time line at every instant: the specification's watch when the lead stays on the travel
day (the two hours after the window may cross midnight), `WatchedInstead` when it does
not. `LastWordIsSeen` then shows, for any poll period within the five minutes of slack,
that the last reading owed is the last reading handled, for the journeys watched as
specified. Travel windows that start before midnight and end after it, which the
specification has no words for, are not covered.

**`AccountsProofs`.** Under `OneEdit` (at most one edit under way),
`AdminAlwaysRemains` and `DisableEnds`. The invariant `AdminInv` says that what
the edit read is still in the table (`RowIsCurrent`: nobody else writes role or
`disabled_at`) and that an edit that passed the count and would demote its target
leaves another administrator (`AnotherRemains`). `EndInv` adds that only opened
sessions can be left behind. Finding 4 shows that the hypothesis is needed.

**`LiaisonProofs`.** `NothingStays` needs no hypothesis. `LeftInv` adds to the
property that no row or leg is left of a liaison that is gone (`BareInv`), that
the poll's journey is one of the table's: then every write that could bring
something back is refused by its key. `OneEditorOneDefault` assumes `Request = {r}`.
`OneDefault` speaks of rest only; `DefaultInv` says for every point, unless
`disturbed`, that one row is the default, or the table is empty, or none is and the
reason is known (`Between`: between the two statements that move or promote it, or
until the API starts again after a crash there), or that a start is judging, and
then alone (`Alone`): what it counted still holds (`CountHolds`) and no request is
in the middle of a change. `DefaultRows` says that one editor never takes the last
row, and that a process past its seed has seen one. `BoardTypeCorrect` types the locals of the three actors.
`TrainsAreCountedOnce` counts rows: for each liaison and status the counter, the rows
created with that status, the purges and the faults are tied by `CountInv`, up to the
one row the poll has inserted and not counted yet; a new row is one more by the
cardinality of a set with an element added, and `PollLive` says that a poll's pending
row is there unless a purge or a deletion took it. `EditsOutliveStarts` is an action
property: `SeedInv` says that whenever the API is up the flag is stored, and that a
start which has read it does not force, so that a start begun later writes over no
leg, whatever the other process does. `HalfLiaisonsAreFaults` assumes one editor
again: `HalfInv` bounds the liaisons without both legs (of those no request and no
start is still writing) by the faults, and a fault leaves at most one more behind.

**`IngestLoopProofs`.** `LoopInv` ties the program point to the requests in flight
and to the two halves of the result: it gives `QuotaAlwaysCounts` and
`ResultIsAlwaysOne`. `AlertsGoTheWay` needs that few steps raise an alert or
write a next train, that a departure is wanted only if its direction is read so or its
vehicle journey has the destination after the first call at the origin, which is a call
in turn (`WantedGoTheWay`), and that a running next train is one of the wanted
(`RunningIsMatched`). `CheckStaysOfToken` uses `CheckInv`: the key that is probed is the one
that will be kept or the one that is, and a key is checked before it is written.
`LoopTypeCorrect` types the loop's record at each of its program points.

**`AlarmProofs`.** `NoFalseAlarms`, under `Apart` (no two trains leave one station at
one time: a stop of a disruption is told by its place and its time). `AlarmInv` says
that trains skip only what is in `skipped`, and that every answer in the cache and in
the loop's hands *tells* no more (`Tells`), also when the world has moved on since.
`CancellationTrue` goes through the ways a departure counts as cancelled: its own status, texts or missing time are its own; an impacted stop of another train
at this origin, linked or with this train's number in its id, would leave at the same
time; and a linked disruption without service or with a text of suppression is what
`ReadsSuppressed` names. Nothing is assumed of which disruptions a running departure is
linked to.
`NoneIsMissed` and `BoardsAreAnnounced` are the other direction, from one invariant,
`MissInv`. `CacheFresh` and `AnswerFresh` say that an answer tells of every train as
it is unless the train changed within the cache's life; `PathInv` says which journeys
and trains are still to be read; `SecondInv` that each departure the second reading has left behind is announced, could not be read (`unread`), or is no suppression the journey asks for; `DoneInv` that a journey the
poll is done with is clear; `CardInv` that a next train stored as cancelled, of a journey that asks for suppressions, is announced, could not be read again, waits for the second reading, or was left by a poll that failed.
`NoneIsMissed` assumes `Distinct` (no journey ends where it begins): for one that does,
the code answers that no train serves it before it looks at any stop.
`BoardsAreAnnounced` needs no hypothesis.

**`ConsoleProofs`.** `SignInv` is what makes late answers harmless: one question
about the user is open at a time (`me` is loading exactly while the mount's call is
on its way, the form exists only at the gate, the logout only for a user), and an
answer "nobody" is of a session that had ended. `DashInv` is `ScopeAgrees` and
`SkeletonEnds` with the types their data needs; `HeatInv` says that the fetch that
counts is of the effects' last dependencies, that spinner and fetch come and go
together once a day is asked for, and that the detail is of those dependencies.

`LoginsAreLimited` needs to know how a key's attempts sit in its windows, which is
`LimitInv`. The table holds one bucket per key and no more buckets than its limit
(`Table`). The ages of a key's attempts, newest first, fit its bucket (`Fits`): while
the window may let more through, the attempts it has let through come first and those
of earlier windows, fewer than the limit, leave the span before it ends; once it is
used up, it stays until all of them have left. A new window therefore finds fewer than
the limit, and adds at most the limit to fewer than the limit. A full table forgets
buckets and the model forgets their attempts with them (`Forgotten`), as a login does
with those of its own two keys (`Releases`): `LoginLimited` counts from there, which is
all the code assures.

`ConsoleInv` joins `SignInv`, `LimitInv` and `DashInv` with `ViewTypes` and `PageInv`
(a request that still counts is of the open dashboard, a retry had asked for one
liaison); it gives `ConsoleTypeCorrect`. `CellsTellDays` needs of the state only
`DayInv`: what is fetched or shown is of a day that could be selected. The rest is about
the figures: `DayBounds` shows that the four corrections of `Midnight` end at the
moment the day begins in Paris, on the nights of the clock changes too, so that cell
and detail select the same events; `WeightsPositive` that their weighted sum is
positive exactly when one weighs something; `DilutedPositive` that on-time trains never
dilute it to nothing; `CountsOfToday` that today's delays and cancellations are disjoint
and together what is listed. Sums are folds of the community modules, whose recursive
functions exist by induction on the size of the set (`Counting`, from the library's
`WFMin`).

The assumptions are what the code fixes: `KeyAssumption` (the prefixes `login:ip:` and
`login:user:` keep addresses and names apart), `ClockAssumption` (the clocks of Paris
change at 01:00 UTC) and `HistoryAssumption` (finitely many events, delays and counters
that are natural numbers).

**Only model-checked.** The liveness properties `QueueDrains`, `BoardCatchesUp` and
`PollsGoOn`: liveness under fairness is beyond the prover. Every safety property of a
passing run is stated by a theorem, some of them under a hypothesis that the theorem
names.

**Why the hypotheses.** `DecisionFresh` holds with one ingest loop; with two, both may
escalate from the same row and an escalation can be announced twice, which is
why the deployment runs one loop (`docker-compose.prod.yml`,
`INGEST_IN_PROCESS=false` beside the worker). `HistoryIsComplete` is about runs
without faults and purges: a purge under a delivery, or a rejected INSERT, does
lose the row of a message that left. `DisableEndsSessions` is about runs without
faults: between the UPDATE and the DELETE of `patchUser` a crash leaves the
sessions, and a repeated edit finds the account disabled and deletes none.

## 6. Not modelled

- Clock changes in the watch: the two nights a year on which Paris time is not a
  line (`Indicators` has them for the figures), and a poll interval above the five
  minutes of slack (the settings allow up to an hour; `LastWordSeen` would not hold).
- How a text is folded, cut into words and searched: which stations the direction of a
  train is read to show or name is a constant (`Shows`, `Names`, `Within`), with
  whatever values the words of the labels give it. Weather, reasons of delays, logs,
  request samples: data no decision modelled here depends on. Of the dashboard's
  queries the rankings and the breakdowns by hour and reason.
- In `IngestLoop`: time within a poll, two loops at once, the card's filter on trains
  already gone (every train is in the watch window), the probes' own calls in the
  quota (the code does not count them either).
- Refusals of malformed requests: they end a request with nothing written.
- Password resynchronisation at start; the visitor setting changing under a browser.
- The read limit and the outbound budget: the fixed window of `RequestLimits` with
  one key and no penalty.
- `sendTestNotification`: it writes two rows without an event and queues nothing.
- Mail settings, the stations' catalogue, HTTP set-up: single statements or a
  bootstrap that runs once; their hazards are in `PROJECT.json`.
- The administration and debug pages: forms over requests that are modelled on the
  server's side. Their late answers overwrite one another as the dashboard's do.

## 7. What could follow

1. `LiaisonBoard` with two editors, as a violation run against
   `admin/spec.md:45`; a version of the two deletions in one statement.
2. Proofs: `LastWordIsSeen` for travel windows that run over midnight.
3. `MailSettings`: the bootstrap and the page's writes.
4. The watch of `TrainWatch` as the condition under which `IngestLoop` raises an
   alert: one clock for both.
