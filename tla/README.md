# A TLA+ model of TimeChamp

TimeChamp watches what employees do at their machines. An **agent** written in
Go (`apps/agent`) records foreground windows, idle time and screenshots, keeps
them in a local SQLite file and sends them to an **API** (`apps/api`, NestJS on
Postgres, Redis and an object store). A **web** dashboard (`apps/web`, Next.js)
shows them to managers. The hard part is the road between the two: the agent
sleeps, crashes, loses its connection and restarts, flushes overlap, answers get
lost, and several API replicas work on one queue. The second hard part is what
the API does with requests that overlap: its handlers read, decide and write in
separate statements, all but one (`register`) without a transaction. This project models both, and the
dashboard's own copies of the data.

Paths below are relative to `src/`; `main.go` is `apps/agent/cmd/agent/main.go`,
`client.go`, `uploader.go` and `retry.go` are in `apps/agent/internal/sync`.

Contents: 1 [inventory](#1-inventory), 2 [modules](#2-modules-and-the-code),
3 [runs](#3-runs), 4 [bounds](#4-bounds), 5 [fairness](#5-fairness),
6 [findings](#6-where-code-and-documents-disagree), 7 [proofs](#7-proofs),
8 [limits](#8-what-is-not-modelled), 9 [plan](#9-plan).

## 1. Inventory

### The agent

| Component | State | Operations | Correct when |
|---|---|---|---|
| Event loop (`main.go`) | tickers, `isAFK`, idle samples, `liveViewOn`, the cache of the merge queue | one `select`: ticks for idle time, windows, screenshots, bursts, sync, heartbeat, command poll, configuration, pruning, telemetry, updates; sleep events; the shutdown | every tick leaves the shared state consistent whatever goroutines run beside it; the shutdown leaves nothing in memory |
| Window capture, AFK (`internal/capture`) | the focus hook's channel; three idle samples and a confirmation count | hook event or poll, idle tick | counted time is time at which that window was in front and the user was there |
| Merge queue (`internal/heartbeat/merge.go`) | one cached event per stream | `Push`, `FlushAll`, `HeartbeatMerge` | events are disjoint up to the documented overlap, gaps above `pulsetime` are not bridged |
| Write batcher (`internal/buffer/batcher.go`) | pending events, a timer | `Add`, `Flush`, the timer's goroutine | nothing waits without a timer; nothing is written twice |
| SQLite buffer (`internal/buffer`) | tables of unsent rows | batch insert, list oldest first, delete by id, prune by age, cap by count | a row is deleted only when it was accepted or is among the oldest |
| Uploader (`uploader.go`, `s3.go`) | the rows listed by a flush in progress | `FlushActivity`, `-Keystrokes`, `-Metrics`, `-Screenshots`, `BurstUploadScreenshot` | at-least-once delivery; files are removed |
| API client (`client.go`, `retry.go`) | the breaker's state, failures, window, probe slot | `Post`, `GetPresignedUploadURL`, `IsAvailable`, `ResetCircuit`, `WithRetry` | an outage opens it, its end closes it |
| Sleep watcher (`internal/sleepwatch`) | `prev`, `lastResumeAt`, two channels | tick, signal, `emitResume` | a long sleep gives a Resume, a late tick does not |
| Stream (`internal/stream`) | mode, connection, delta reference frame | connect, control frames, send | one mode, one reader |
| Updater, watchdog, services, tray, installer | crash counts, backoff, version | download and swap, start, stop, restart | the process that should run does run |
| Health, telemetry, logging, classifier | counters | reports | - |

### The API

| Component | State | Operations | Correct when |
|---|---|---|---|
| Ingest queues and workers (`modules/agent/*-queue.service.ts`, `*-worker.service.ts`) | three pgmq queues, a `flushing` flag per replica | send on request; drain: read, insert, delete | what was acknowledged ends in its table; replicas keep apart |
| Agent service (`agent.service.ts`) | devices, screenshots, GPS | register, heartbeat, save, upload URLs | a screenshot's metadata point to its image |
| Heartbeat buffer, monitoring (`heartbeat-buffer.service.ts`, `modules/monitoring`) | map of devices to flush, devices announced offline, `last_seen_at` | buffer, flush every 5 s, sweep every 30 s | a device that reports is online, one that stopped is announced |
| Agent authentication cache (`agent-auth.guard.ts`) | Redis entries with a TTL | look up, fill | a deactivated user's agent is cut off |
| Accounts and tokens (`modules/auth`, `modules/users`, `infrastructure/token`) | users, refresh tokens, one-time tokens, devices | register, log in, refresh, log out, verify, reset, invite, roles, personal tokens | what may be used once is used once; a session that ended stays ended; there is an admin |
| Streaming (`modules/streaming`) | sockets by user, session rows, live-watch flags, bytes per day | connect, disconnect, relay, mode, watch, stop | a connected agent can be reached; bursts end |
| Time tracking | attendance, entries, timesheets | clock in and out, submit, review | one open session; a closed one is counted; an approved sheet is final |
| Projects, alerts, GPS, integrations, organization | tables | create, load-assign-save, delete | no write is lost, nothing deleted returns, no orphans |
| Retention (`maintenance.service.ts`) | screenshots older than 90 days | nightly cron in every replica | image and row go together |
| Billing | subscription per organization | checkout, webhooks | the row has the status Stripe says |
| Analytics, audit log, mailer | - | reports, messages | - |

### The dashboard

| Component | State | Operations | Correct when |
|---|---|---|---|
| Data (`hooks`, pages, components) | the query cache, requests and mutations under way | fetch, poll, mutate, invalidate, navigate | what the user did is shown; what is polled catches up |
| Session (`lib/auth.ts`, `lib/api.ts`) | a cookie with both tokens | ask for the session, refresh, sign out | nobody is signed out without a reason |
| Live status (`stores/monitoring-store.ts`) | status and two timers per user, a socket | seed, event, timers, connect, disconnect | it converges to who is online |
| Live view (`live-screenshot-view.tsx`) | the view that is open | start, keep alive, stop | bursts last as long as somebody watches |

### How they interact

* The sync tick runs its flushes as goroutines and **waits** for them: while it
  waits the loop takes no other event, and ticks, focus changes and sleep events
  pile up in bounded channels.
* A Resume starts a goroutine that flushes **without** being waited for: it
  overlaps later sync ticks, and shares the buffer and the breaker with them.
* `FlushActivity` talks to the API by a POST. The API's answer means *queued*,
  not *stored*; a cron job in every replica stores later.
* Screenshots take three steps over two services (upload URL from the API, PUT to
  the object store, metadata to the API) and two local ones (delete the row,
  delete the file).
* A live-view command makes the loop itself capture and upload, between ticks.
  The command is a flag in the API's memory that a browser keeps alive.
* A handler of the API is a sequence of awaits; other requests, in this process
  or in another replica, run between any two of them.
* A heartbeat goes three ways: to the dashboards at once, into a buffer that is
  written later, and past a guard that trusts its cache. The sweep and the
  dashboard's timers judge by different clocks.
* The dashboard's pages fetch, poll and mutate at the same time; every request
  first asks for the session, which may exchange the refresh token.

What is hard here, and where, is the list `hazards` in `PROJECT.json`: 40
entries, each with the properties that guard it, or the reason why none does.

## 2. Modules and the code

```
CircuitBreaker <- AgentSync            AtLeastOnce  (the promise)
                                        ^    ^    ^
                            AgentDelivery    |    IngestQueue
                                    \        |        /
                                      ActivityPipeline

ScreenshotUpload      SleepWatch, WindowTracking -> Capture

Requests <- Accounts, TimeTracking, Records, Billing  \
                    Streaming, LiveWatch, WebSession,  >-> Services
                                           Retention  /
Presence              Dashboard
```

`A <- B`: B extends A; `->` leads to the module that puts parts together. The
arrows to `AtLeastOnce` are refinements. Where a run needs more than the values
of a `.cfg` there is an `MC...` module. Eight `...Proofs` modules hold the theorems:
`ServicesProofs` those of all the services, `AgentDeliveryProofs` those of
`ActivityPipeline` as well.
`PROJECT.json` maps every definition to its lines. Operators named
`Mut...` stand before the definition they alter and are used by no
specification: they are plausible bugs, and each property has one that breaks
it.

**CircuitBreaker** (`client.go`). The five fields under `Client.mu` as a record
and each critical section as a function on it: `Available`/`AfterIsAvailable`
(`IsAvailable`), `IsBlocked`, `RecordSuccess`, `RecordFailure`,
`RecordPermanent` (permanent HTTP status), `ResetCircuit`. `openedAt` is kept as
the time left.

**AgentSync** (`main.go`, `uploader.go`, `client.go`, `retry.go`). Who calls the
breaker, in which order. A worker is the event loop, a goroutine of a sync tick
or a resume goroutine; it goes through `gate` (the check on entry of a flush),
`list`, `presign`, `put`, `attempt` (Post's retry loop) and `inflight`. The
server is up, down or refusing, and changes at any time. Every call of
`IsAvailable` the code makes is a step of its own, because each may take the
probe slot: the tick's, the flush's, Post's, the one per screenshot, and those
of heartbeat, telemetry and configuration ticks.

**AgentDelivery** (`merge.go`, `batcher.go`, `internal/buffer`, `uploader.go`,
`main.go`). Where an activity event is: `cache`, `pending`, `rows`. The
batcher's timer is nil, armed or fired; `calls` counts timer goroutines that
have started and not yet run, which `Timer.Stop` cannot take back. A flush lists
rows (`List`), posts (`PostAccepted`, `AnswerLost`, `Return`) and deletes by id
(`Mark`, `MarkFails`). `Prune`, `Crash`, `Shutdown` and `Exit` complete it.
`delivered`, `lost` and `taken` are history.

**IngestQueue** (`activity-queue.service.ts`, `activity-worker.service.ts`, and
the metrics and keystroke twins). The pgmq table with its hidden messages; per
replica `Read`, `Save`, `SaveUnsure` (committed, answer lost), `Fail`, `Delete`,
`Stop`. pgmq itself is external: `VisibleAgain` is its visibility timeout.

**AtLeastOnce**. What a store-and-forward stage promises: items are held, handed
on at least once, and forgotten only after that, or counted in `lost`. Both
stages implement it, and so does their composition.

**ActivityPipeline** extends `AgentDelivery` with the queue (`Api`): both stages
joined at `saveActivities` (`agent.service.ts`). The step in which the API
accepts a post is the step in which the message is queued, whether or not the
agent learns of it.

**ScreenshotUpload** (`main.go`, `uploader.go`, `s3.go`, `buffer/events.go`,
`agent.service.ts`). Files, rows, the object store and the API's table; two
uploaders that may hold the same list; the orphan guard that deletes rows
without a file; bursts; retries with a new key; the prune tick and the janitor.
Storage keys are milliseconds, so two uploads may be given the same one.

**SleepWatch** (`watcher.go`, `power_windows.go`). The watcher's goroutine with
its ticker, the notifications of a Windows service, the debounce and both
channels. Instants are kept as elapsed wall-clock time.

**WindowTracking** (`activity_windows.go`, `idle*.go`, `idle_filter.go`,
`merge.go`, `main.go`). Seconds, each with one foreground window; the hook or
the poll, late ticks, the median of three idle samples with its hysteresis, a
sleep and its Resume, and the merge queue. Whether there is a hook is chosen in
`Init`.

**Capture** puts the two together. They meet in the event loop, where a Resume
may come at any time after a sleep; so a behaviour has one of them in focus, each
with its own scale of time.

**Presence** (`heartbeat-buffer.service.ts`, `agent-auth.guard.ts`,
`monitoring.service.ts`, `monitoring.gateway.ts`, `monitoring-store.ts`,
`live-status-board.tsx`, `use-monitoring-socket.ts`). Ticks of 30 s. An agent
runs or not; `CheckUser`, `CacheUser` and `Expire` are the guard with its cache;
`Heartbeat` tells the dashboards and buffers, `Flush`, `Written` and `NotWritten`
are the bulk UPDATE, several of which may be under way; `SweepReads`,
`SweepEmits` and `SweepEnds` the sweep with its memory of what it announced;
`Seed`, `Connect`, `Disconnect` and the timers in `Tick` are the browser. The list's
30 s cache in Redis is left out: an older list seeds the same statuses, a tick
later.

**Requests** (NestJS, as the handlers of `apps/api` use it). A handler is the
sequence of its awaits, `todo`. `Arrive` starts one, `GoOn` takes the next
await, `Stop` is an early return or exception, and any request may fail at any
await (`failed`). `together` is history: which requests were under way at the
same time. The properties of the services use it to say *exactly which* overlaps
can break a guarantee, and that nothing else can.

**Accounts** (`auth.service.ts`, `token.service.ts`, `users.service.ts`,
`admin.service.ts`, `registerAgent`, the guards). Users, refresh tokens, one-time
tokens in Redis, devices. One action per await, named for what it does; the
handlers are the sequences at the top of the module.

**TimeTracking** (`time-tracking.service.ts`, `getWeekStart` of the dashboard).
Attendance, entries, timesheets, in half days of UTC. A timesheet is for the day
its request names, and counts seven days from the instant it names: the
dashboard's `GetWeekStart` with a browser ahead of UTC, or what another client
sends (`Named`), so weeks may overlap. Findings are TypeORM's: a condition whose
value is null is left out.

**Records** (`projects`, `gps`, `alerts`, `integrations`, `organizations`
services). All routes that load, assign and save, in one module: eleven kinds of
rows with their parents, two columns each, whose values are the requests that
wrote them. `Save` writes the columns that differ from the table by then, and
inserts the row again if it was deleted: that is TypeORM's `save`.

**Billing** (`billing.service.ts`, the webhook). Stripe is external: subscriptions
change, events are numbered and delivered in any order until accepted; a customer
is named for the checkout that created it.

**Streaming** (`streaming.gateway.ts`, `streaming.service.ts`). The gateway's two
maps, session rows and the daily count of bytes; sockets drop at any await of
`handleConnection`, and an agent has a new socket before its old one is closed.

**LiveWatch** (`live-watch-cache.service.ts`, `streaming.controller.ts`, the
command poll, `live-screenshot-view.tsx`). Flags with their time to live, the
views of two managers, requests that are lost, late or out of order.

**WebSession** (`lib/auth.ts`, `lib/api.ts`, `app/page.tsx`, `live/page.tsx`, the
login form and header). The cookie; requests for the session, by the interceptor,
by SessionProvider or by a server component, that each carry the cookie of their
start; the exchange; and answers that set the cookie, but for a server component's
(`RenderPage`), with which a new token is lost. A refresh token may expire unused.

**Retention** (`maintenance.service.ts`, `deleteS3Object`). Two replicas, two
stores, failures at every step.

**Services** instantiates the eight modules above. They share no table that one
changes and another relies on, so a behaviour has one of them in focus.

**Dashboard** (`apps/web/hooks`, pages, components, `providers.tsx`). The query
hooks with their keys and the tables their routes read, the mutation hooks with
what they write and invalidate, the views with what they show and offer: 32, 32
and 52 definitions, almost a table. Below it is the cache of TanStack Query
(external) for one query that is watched; of the mutations those that concern
it are made. Every query is watched in some behaviour. The query of the unread badge
is `Undefined`: its function returns undefined, so every answer is an error to the
cache and it never has data.

## 3. Runs

Twelve runs, nine that pass and three that find a violation; distinct states in
parentheses.

| Run | Checks |
|---|---|
| `sync` | The breaker's fields agree (`BreakerConsistent`: slot only half-open, closed iff below the threshold, a long window was earned by failures that met the half-open state, the window's clock); only a 2xx answer, a Resume or a new process closes it (`OnlyEvidenceCloses`); a slot nobody will give back is kept until a Resume or restart (`LockoutIsPermanent`); an open breaker is tried again (`OpenIsRetried`); the slot of a request in flight is given back (`SlotOfRequestIsReleased`). (49 k) |
| `sync_lockout` | *violated*: `RecoversWithServer`, see section 6. |
| `delivery` | An event is in one place once (`HeldOnce`); a flush deletes only what was accepted, although it deletes by ids it listed long ago (`DeletesOnlyAccepted`); refinement of `AtLeastOnce` (`IsAtLeastOnce`); pruning takes the oldest (`OldestGoFirst`); a clean exit loses nothing (`CleanExitLosesNothing`); every event is settled in the end (`ObservedIsSettled`). (61 k) |
| `queue` | Two replicas share a message, or store it twice, only after its timeout (`SharedOnlyAfterTimeout`); refinement (`NeverLosesAMessage`); acknowledged messages are stored and leave the queue (`AcknowledgedIsStored`, `StoredLeavesQueue`). (2.5 k) |
| `pipeline` | The whole road is at-least-once, and from the agent's DELETE to the worker's there is no moment at which neither side has an event (`EndToEndAtLeastOnce`). (592 k) |
| `shots` | A recorded screenshot is on its way with row and file, or uploaded, or accounted for as dropped (`NothingLost`); saved metadata point to the right image, with Supabase storage (`SavedIsIntact`); no file stays for ever (`FilesGoAway`). (1.3 M) |
| `capture` | A sleep longer than ticker and threshold together is noticed by the next tick and a late tick is no sleep (`SleepsAreTold`); with the poll, a counted second is backed by a second of that window at most `pulsetime` earlier, and two events overlap by at most one second (`TimeIsCounted`); no AFK period is bridged (`AwayIsNotCounted`); types and capacities (`TypeOK`). (2.2 M) |
| `live` | `last_seen_at` keeps up with the heartbeats whatever flushes overlap or fail (`LastSeenLags`); a dead agent is announced offline (`DeadAgentIsAnnounced`); a deactivated user's agent does not pass the guard for ever (`RevokedAgentIsCutOff`). (641 k) |
| `live_stuck` | *violated*: `PresenceConverges`, see section 6. |
| `services` | Eleven properties, one or two per service; the list follows. (2.9 M) |
| `dashboard` | What the user did and saw confirmed is on the screen once the page is at rest, with the exceptions the definition lists (`ShowsOwnWrites`); pages that poll and get data catch up with every write (`PollCatchesUp`). (1.1 M) |
| `clock_again` | *violated*: `RefusedIsClockedIn`, see section 6. |

The properties of `services`:

| Property | Says |
|---|---|
| `SecretsAreUsedOnce` | A token from an e-mail lets two requests through only if they overlapped; a personal agent token registers one device, unless requests overlapped or one failed half-way. |
| `SessionsEnd` | A refresh token is exchanged twice only by overlapping requests; after a logout or reset no older token is live but those of requests under way meanwhile. |
| `AccountsKeepWrites` | `PATCH /users/:id` undoes only writes it overlapped; an organization loses its last admin only by his own request or a race of two; one address has two accounts only by invitation or a race. |
| `SessionsAreCounted` | Two attendance rows only by a race; a closed session has its entry unless the request failed between its two saves. |
| `TimesheetsAreFinal` | An approved sheet changes only by a request that had read it before. A sheet counts every entry of the seven days from the instant it was submitted for that was made before and not beside the submission, and what it counts is there or was made by hand (those can be deleted). Nothing is said of two sheets: their weeks may overlap. |
| `RecordsKeepWrites` | A save loses a write, and a deleted row returns, only by overlap; no row outlives its parent. |
| `StatusFollowsStripe` | With events handled in order the row has Stripe's status; two customers only if the two checkouts that created them overlapped or the earlier failed. |
| `AgentIsReachable` | A control message reaches a connected agent and a session row ends with its socket, unless another of its sockets ended, one dropped during the handshake, or a statement failed; the daily cap holds for frames handled one by one. |
| `LiveViewsEnd` | Bursts end when nobody watches; a view loses its flag to another's stop for one period each at most. |
| `SignedOutForAReason` | The dashboard signs out only users whose session was closed or unused for seven days, whose exchange failed, whose requests for the session overlapped, or whose new token a server component lost. |
| `ImagesHaveRows` | On S3 no image stays without a row; a row without image is on its way out. |

The exceptions in these properties name behaviours of the code: each property is
the guarantee together with the ways out of it.

The modules' `TypeOK` are proved for `AgentSync`, `AgentDelivery`, `IngestQueue`,
`ScreenshotUpload` (with Supabase) and `Capture`, whose run also checks it.
All safety properties of these passing runs have a theorem, see section 7. Deadlock is checked where
the system cannot stop; `Services`, `Dashboard`, `Presence` and `TimeTracking`
come to rest when their bounds are used up or nothing is asked of them.

## 4. Bounds

All bounds are constants with a comment saying so.

* **sync**: one worker of each kind (rows, screenshots), the loop with bursts
  and one resume goroutine that runs three flushes in a row. More workers of a
  kind add no new order of two callers. The failure count stops at
  `FailureCap`, two above the threshold: the window is at its maximum there, and
  the code compares the count with the threshold only. The window is 1, 2 and 4
  units.
* **delivery**: three events fill a batch of two and leave one over; a batch of
  two, a cap of one row, two timer goroutines, one crash and one resume make
  each of the overlaps happen.
* **queue**: two messages, two replicas, reads of up to two, so that batches may
  share one message and differ in another.
* **pipeline**: two events, a request each, one replica (two are `queue`'s
  matter).
* **shots**: two screenshots, two uploaders, one fault.
* **capture**: the watcher's own 5, 10 and 3 seconds. Sleeps of 1 s (too short),
  12 s (seen or not, depending on where the tick is) and 16 s (above 5 + 10),
  three of them; ticks up to 4 s late; channels of capacity 2 (4 and 8 in the
  code) so that they overflow; times are cut off at 20, above every comparison.
  For windows: two of them (symmetric), five seconds, a commit threshold of 3 s
  (60 in the code), an idle limit of 2 s, one sleep, a hook channel of two (64).
* **live**: one device, the sweep's threshold of three ticks of 30 s. The guard's
  entry lives 3 ticks instead of 10, and the dashboard's timers run 1 and 2 ticks
  instead of 2 and 10: only their order among each other and against the
  threshold matters. `MaxFaults` bounds the ticks of an outage and of slow
  UPDATEs, below the threshold; see section 6 for longer ones.
* **services**: three requests in the accounts and records, four in time
  tracking and billing, two at the same time: a read-then-write race needs two,
  and a third to see what it did. Time starts at a Monday; people act in
  the last half day of the second Sunday and the first of the Monday after it, their
  browsers are half a day ahead, and another client names the Sunday's noon: so there
  are sheets of the Sunday and of the Monday, whose seven days overlap, and one sheet
  may be submitted for two instants of its day. Two sockets of one agent, two managers and two
  devices, flags of four keep-alive periods, three requests for a browser's session, three
  screenshots in batches of two with two replicas.
* **dashboard**: two writes, two navigations, one fault, for every query hook and
  every page that differs for it.

## 5. Fairness

* Goroutines run, and a request ends within the HTTP timeout: weak fairness of
  each worker's steps, of timers and of time.
* Go's `select` chooses among ready cases at random, and tickers keep a tick for
  a slow receiver: strong fairness of `SyncTick` (and of `Prune` for files).
* `WithRetry` has a time budget and a flush a finite list: strong fairness of
  `GiveUp` and `ShotsDone`, so that neither goes round for ever.
* `delivery` also assumes the environment well-behaved now and then: the API
  accepts a post, SQLite deletes, and the breaker lets a sync tick through (strong
  fairness). The last is exactly what `sync_lockout` shows can fail.
* `queue`: an insert and a delete succeed sooner or later, whatever failed
  before. A message the database refuses every time (and with it the batch it is
  read with) breaks that assumption; it is listed as a hazard.
* `live`: time passes, a cron job and an UPDATE under way go on, the database
  returns after an outage, Redis drops an entry at its TTL. Nothing is assumed of
  the agents, the users or the browser.
* `dashboard`: the server answers a fetch sooner or later (a failed one counts
  against a bound) and the interval of a polled query goes on.
* `services` states safety only: that a handler ends is not needed for it.
* Nothing is assumed of the server's state, resumes, restarts, crashes, live
  view, or other tickers.

## 6. Where code and documents disagree

Three disagreements have a run of their own.

* **The half-open slot is leaked** (`sync_lockout`, `client.go:141`).
  `IsAvailable` takes the probe slot for whoever asks. A sync tick asks, then its
  flush asks, then Post asks: with the breaker half-open the second takes the slot
  and the third is refused because of it. Heartbeat, telemetry and configuration
  ticks take it as well and never report back. Nothing frees it but a Resume or a
  restart, so the agent sends nothing more although the server is up. The comment
  at `client.go:474-475` promises that one bad minute does not lock the agent
  out, and the one at `client.go:253` names this leak.
* **A status without a timer** (`live_stuck`, `monitoring-store.ts:97`). The
  store arms its timers only when an event arrives. A status that was seeded from
  `GET /monitoring/live` has none, and `disconnect` clears all. If the sweep's one
  message is lost the dashboard shows a dead agent online for ever. The comment
  (`monitoring-store.ts:11-12`) says "client-side fallback so presence converges
  to reality even if the WS drops a message or Redis pub/sub is down".
* **Nobody clocks in twice** (`clock_again`, `time-tracking.service.ts:44`).
  `clockOut: null as any` is left out of the query, so any session of the user
  is taken for an open one and every clock-in after the first is refused with
  "Already clocked in".

Others were met while reading and have no run:

* `client.go:51` says that the window "doubles on half-open probe failure".
  `recordFailure` (`client.go:472`) doubles it whenever it finds the breaker
  half-open, also for a request that is no probe: one that Post's retry loop sent
  after the window, past `isBlocked` (`client.go:183`), before another caller turned
  the breaker half-open. `AgentSync` has these steps, and no property forbids them.
* `timesheet.entity.ts:34` says "always the Monday of the week". `getWeekStart`
  (`use-time-tracking.ts:250-256`) finds the browser's Monday and then takes its date
  in UTC: ahead of UTC that is Sunday early in the day and Monday later, and the route
  takes any string. One week may get two timesheets that count the same entries.
* The unread badge (`alerts.controller.ts:153`) never has a count: `useUnreadCount`
  reads `count` of a body that the API's interceptor has wrapped
  (`use-alerts.ts:157`, `transform.interceptor.ts:24-30`), and TanStack Query takes
  undefined for an error.
* Batches are accepted twice: no request carries a key (`uploader.go:107`);
  `docs/superpowers/specs/2026-04-01-timechamp-design.md:213` says "duplicate
  batches ignored".
* With the focus hook a window is pushed once, with a duration of 1 s, at the time
  at which the loop takes it, and nothing refreshes it (`main.go:575`);
  `2026-04-10-agent-production-hardening-design.md:7` says "accurate to ±5ms on
  window durations". The hook's channel is not closed when its thread ends
  (`activity_windows.go:107`), so the fallback to polling is not taken.
* An outage of the database of 90 s or more while a device that was announced
  offline returns and stops again leaves its second silence unannounced: the
  sweep has to see it fresh once (`monitoring.service.ts:105-109`).
* `deleteS3Object` does nothing when only Supabase is configured
  (`agent.service.ts:311-312`): images outlive their rows there.
* The hooks for comments call a route that the API does not have.
* Pairs of a mutation and a query that shows what it wrote are not connected by
  an invalidation (`Unconnected` in `Dashboard`): reviews and the payroll report,
  an invitation and the admin's list of users, a test delivery and the delivery
  log, and others.
* A bulk approval is a `Promise.all` of single requests: if one fails the others
  are applied, and the lists are not refreshed.
* Two requests that refresh the session at once: the second exchange is refused
  and its error stays in the cookie. `getServerSession` in `app/page.tsx:6` and
  `live/page.tsx:7` exchanges the refresh token as well and cannot set the cookie: a
  user who opens either page when the token is due is signed out by the next request. The header's sign-out does not call
  `/auth/logout`, so the refresh token stays valid.
* The Kanban board stores the index of the drop as the task's position without
  moving the others (`kanban-board.tsx:227-255`).
* The alert checkers only count rules; `fireAlert` has no caller.
* Every reconnect of the agent's stream starts one more reader of the same channel
  (`stream/manager.go:118`).
* `main.go:748-749`: "Flush heartbeat queue to SQLite first" - the sync tick's
  `FlushAll` reaches the batcher only; the tick lists before the batcher writes,
  and the event goes with the next tick.
* A crash loses what the merge cache and the batcher hold, and a failed batch
  insert drops its events; the design says "No data loss on crash"
  (`2026-04-01-timechamp-design.md:123`). The model counts both in `lost`.
* One sleep may emit two Resumes when its notification comes after the debounce
  window (`watcher.go:169`; `sleep-resume-detection-design.md:58`). The handler
  is idempotent apart from the extra flush goroutine.
* A wall clock set back during a sleep hides it (`watcher.go:146`).
* Committing for length counts one second twice (`merge.go:176-179` with
  `main.go:260-261`); `TimeIsCounted` bounds it.
* With the S3 fallback two uploads of a user in one millisecond overwrite each
  other (`agent.service.ts:188`); Supabase refuses the second.
* The janitor goes on with an empty list when the listing fails (`main.go:867`,
  `main.go:885`) and deletes stale files that have a row; `NothingLost` excepts
  them as `swept`.
* The updater leaves with status 0 so that the watchdog starts the new binary
  (`updater.go:101`), and the watchdog ends on a clean exit
  (`main_windows.go:114-116`).

## 7. Proofs

TLAPS checks eight modules, for every value of the constants that satisfies the
named `ASSUME`s. `theorems` in `PROJECT.json` lists the results. Every property
was checked by TLC on the instance of its run before it was proved.

**AgentSyncProofs**, from `BreakerAssumption` and `SyncAssumption`. `IInv` is the
type of the workers, `BreakerOK(cb)` and the server's type. `BreakerOK` is
inductive only as a whole: that the breaker closes exactly below the threshold
needs that a half-open breaker has reached it, and that a doubled window was
earned needs the failure count. Each operation of the breaker has a lemma that it
preserves `BreakerOK`; the steps of the workers cite them.
`SyncInvariant`, `SyncTypeCorrect`, `BreakerAlwaysConsistent`; from them
`LockoutNeverEndsByItself`: once the slot is
taken and no request is under way, no step but a Resume's reset or a restart
frees it. The theorem makes the finding of `sync_lockout` independent of the
bounds. `ClosedByEvidenceOnly` goes through the steps that write the breaker and
finds `RecordSuccess` and the reset alone among them.

**AgentDeliveryProofs**, from `DeliveryAssumption`. `IInv` adds two facts to
`TypeOK`, `HeldOnce` and `TimerWatchesPending`. `RowIds`: ids are below `nextId`
and stand for one row, in the table and in every flush's batch, so an id listed
long ago names the same row or none; this is what makes deletion by id
safe. `Accounted`: every event taken is held, delivered or lost, and lost ones
are not delivered. The moves between cache, batcher and table are put into one
lemma (`MovedPreserves`), which the observing, committing, flushing and
shutting-down steps share. `DeliveryInvariant`, `BufferConsistent`,
`FlushDeletesOnlyAccepted`, and the refinement `AgentIsAtLeastOnce`.
`OldEventsGoFirst` and `CleanExitKeepsAll` use `IInvEnd`, which adds that the
table is finite (what is pruned is defined by counting older rows, and counting
orders only a finite table) and that the loop in its shutdown has nothing in
cache and batcher (no step but `Shutdown` leads there, and it empties both).

`PipelineIsAtLeastOnce` is the refinement of `AtLeastOnce` by
`ActivityPipeline`: the agent's stage, whose `delivered` is now only half-way,
and the queue's. `PipeInv` is the agent's `IInv`, what a worker has is queued or
stored and what it is about to delete is stored, and the joint itself: the agent's
`delivered` *equals* the events of the queue and of the table. A step of the
agent's stage that drops or finishes S is then one of the joint stage with those of
S that the queue does not hold; a request puts events that the agent may have
dropped meanwhile back into play (`Reappear`); a worker's insert hands on and
its delete finishes. `ActivityPipeline` extends `AgentDelivery`, so the step lemmas
of the agent's stage (`Inductive`, `StepImplements`) apply as they are.

What `AtLeastOnce` is good for is proved of the abstract steps (`StagePromise`,
`RoadPromise`) and carried over by the two refinements: nothing that was taken
vanishes, and what counts as lost is neither held nor delivered
(`BufferKeepsItsPromise`, `PipelineKeepsItsPromise`).

**IngestQueueProofs**, from `QueueAssumption`. `IInv` is `TypeOK`, `Sent` (no
id is above the number sent, so a new message is a new one), `HeldIsSafe` (a message a
worker has is queued, or stored already), `VisibleHasExpired` (one that a worker
has and that is visible has timed out) and `SharedOnlyAfterTimeout` itself.
`QueueInvariant`, `WorkedTwiceOnlyAfterTimeout`, `QueueIsAtLeastOnce`.

**ScreenshotUploadProofs**, from `ScreenshotAssumption` and, in each theorem,
`Store = "supabase"`: on S3 a second upload with the same key replaces the image
(section 6), and TLC refutes both properties there. `IInv` adds to them
`CapturedIsUnknown` (the shot between its file and its row is in nobody's list)
and `Progress` (past the PUT the image is in the store, past the metadata the API
knows it, and a file is removed only then or as a frame of a burst). An image in
the store stays because a key that is taken is refused. `UploadInvariant`,
`NoScreenshotIsLost`, `SavedScreenshotIsIntact`.

**CaptureProofs**, from `CaptureAssumption`. It asks that a tick comes less than a
period and at most the threshold late, and that the debounce window is at most
period and threshold together (10, 5 and 3 seconds in the code): otherwise a
signal before a long sleep could silence the tick after it. `SleepInv`: while
awake the wall clock and the ticker agree; while a sleep is untold, the next tick
will see it and the debouncing is over. For the windows `WindowInv` says of the
last committed event and the cached one, separately, what the properties say of
both (`Counted`), and of the cached one that it still ends with a sighting, that
nobody has been away since it began and that it shares a second at most with its
predecessor (`Grows`): without these three a merge could break the others.
`LongSleepsAreTold`, `CaptureTypes`, `AwayTimeIsNotCounted`,
`CountedTimeIsBacked`.

**PresenceProofs**, from `PresenceAssumption`. `LastSeenKeepsUp`: a time that
waits to be written, in the buffer or in an UPDATE under way, is no older than
there were ticks of trouble (`WaitsInTrouble`); so the UPDATE that lands, be it
overtaken by others, writes nothing older.

**ServicesProofs**, from `ServicesAssumption`. First the services built on
`Requests`; what is proved of them rests on `Numbered`: the requests in flight have different numbers, and any two were handled `together`.
Each service's invariant says what a request at a given await knows, and that
whatever contradicts it by now was done by a request it overlapped; a
handler's plan (`todo`) is shown to be a suffix of the sequences in the module,
so that the cases are finitely many. A property that excepts races then follows: of
two requests that both passed a check, the later was in flight when the other
wrote.
`TimeInv` numbers sessions and entries and relates closers to the sessions they
found (`EverySessionIsCounted`); of a request that has counted it says that every entry
of its seven days made before is counted or overlapped it (`CountedBy`), which the
sheets inherit (`ApprovedTimesheetsAreFinal`). `AcctInv` relates
secrets, token pairs and devices to who used them (`OneTimeSecrets`,
`ClosedSessionsEnd`, `AccountWritesAreKept`). `RecInv` has `ReadsOverlap`: the row
a request read is there, or it overlapped the write or deletion since; and
`RowsNumbered`: the number of a row about to be created is used nowhere
(`RecordWritesAreKept`, which includes that no row outlives its parent). `BilInv`
says how far Stripe's events were handled: with the first k done the row has what
the last of them to tell of its subscription says, and what is due is the rest.
Of the customers it says (`CustomerKept`) that as long as the row has none, who created
one is about to store it or failed, and that who is about to create another is excused
towards each of them (`RowSaysWhatStripeSays`).

Then the services without `Requests`. `RetentionInv`: a replica past the call for the image deletes the row of one that
is gone (`CleanupLeavesNothingBehind`). `SessionInv`: with nothing closed, expired,
refused, lost or at once, one call at a time carries the one live token
(`SignOutHasAReason`). `GatewayInv` says what the stage of a handshake implies for
the two maps, `MeterInv` that a lone frame has read what is counted
(`ConnectedAgentIsReachable`). `WatchInv`: a view has its flag, or the request
that sets it is under way, or the stop that took it is paid with a close
(`LiveViewsEndAndComeBack`).

**DashboardProofs**, from no assumption; the bounds may be anything. Two parts meet
in the step `Settle`. The table: `QueryReads`, `QueryKeys`, `HookWrites` and
`HookInvalidates` read it off, `Readers` turns it round (which queries read a table),
`KeyMatches` says which keys begin with which, and `TableConnects` goes through the
mutation hooks one by one: each invalidates every query that reads what it writes,
or the pair is in `Unconnected`. `PagesKnown` and `Watched` say that the pages show
and offer nothing else. The theorem fails with the table: without one key of one
hook `TableConnects` has a case that is false. The cache: `CacheInv` is the types,
`Applied` (what is confirmed was applied, and a rotation answers with its own token)
and `Reflects`: a confirmed write that is to be seen is in the answer under way, and
in the data unless they are invalid or not there yet. It is `ShowsOwnWrites`
strengthened by the answer under way, without which `Answer` could take a write
back, and freed of the condition that the page is at rest, which other steps bring
about. TLC checked `CacheInv` on the instance of the run first. `OwnWritesAreShown`.

Assumptions on constants are numbers and names that do not clash; only those of
`Capture` and `Presence` relate numbers, as the code's own values do.

Only model-checked: all liveness (`OpenIsRetried`, `SlotOfRequestIsReleased`,
`ObservedIsSettled`, `AcknowledgedIsStored`, `StoredLeavesQueue`, `FilesGoAway`,
`DeadAgentIsAnnounced`, `RevokedAgentIsCutOff`, `PollCatchesUp`): fairness and
ENABLED are out of the prover's reach. The three violated properties are false of
the code, so there is nothing to prove.

## 8. What is not modelled

`components` in `PROJECT.json` lists every part with its status. Left out within
modelled parts: request bodies, compression, TLS pinning, the lengths of jitter
and backoff (only their order matters), WAL checkpoints, titles and URLs, image
data, password hashing and the contents of tokens, plans and seats, forms and
layout. The keystroke and metrics paths have the code of the activity path and
are further workers of kind rows in `AgentSync`. The merge queue's `Flood` and
`Flush(stream)` are not called by the agent, and its one-hour cap lies above the
commit threshold. A batch the API refuses for ever, and a row the database
refuses for ever, are excluded by fairness and listed as hazards.

Left out altogether: sampling of input and metrics, logging, telemetry, the
classifier, installers and tray (operating-system calls); the updater and the
watchdog, of which the other modules use the effect only; the agent's own stream
goroutines and frame encoding; the API's analytics, which read tables and change
nothing that another part reads; the audit log, which is written without being
awaited; the mailer.

## 9. Plan

Done: the road of the data (`CircuitBreaker`, `AgentSync`, `AgentDelivery`,
`AtLeastOnce`, `IngestQueue`, `ActivityPipeline`, `ScreenshotUpload`, `Capture`
with its two parts), because the delivery of data is what the agent is for; then
the API's own state under concurrent requests (`Presence`, `Services` with its
parts) and the dashboard's copies of it (`Dashboard`, `WebSession`, `LiveWatch`);
and the theorems of section 7, which cover every safety property the passing runs check.

Next: an abstract specification of a row
that is updated atomically, which `Records` implements for requests that do not
overlap. The presence that the sweep announces against `last_seen_at`, as safety.
Then supervision (watchdog, updater, services), composed with `AgentDelivery`'s
crash, and the agent's stream manager with its reconnects.
