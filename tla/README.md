# Eventify in TLA+

A verification project kept beside the Eventify backend: TLA+ modules of the parts whose
correctness depends on interleavings, crashes and an ephemeral Redis, TLC configurations that
check them on small instances, and theorems that TLAPS proves for every instance. Everything is
translated from the code; line numbers are in `PROJECT.json` (`map`), and paths below are
relative to the repository.

To run: `tlc -config MCBookings.cfg MCBookings` (and so on for each run of `PROJECT.json`),
`tlapm BookingsProofs.tla` (and each of the other seven `*Proofs.tla`).

## 1. The system

| Component | State | Operations | Talks to |
|---|---|---|---|
| Bookings (`src/bookings`, `src/db/serialization.ts`) | `Booking` rows, one per user and event | create, cancel, each a serializable transaction retried up to 8 times | PostgreSQL; outbox rows in the same transaction; event cache after it |
| Waitlist promotion (`promoteWaitlist` in `src/jobs/worker.ts`) | the same rows | promote the oldest waitlisted rows into the open seats | started by an outbox row; writes outbox rows |
| Durable outbox (`src/jobs/outbox.ts`, `worker.ts`) | `NotificationOutbox` rows, BullMQ jobs in Redis | poll and dispatch, record SENT/FAILED, purge | any number of worker processes, one queue |
| Events (`src/events`) | `Event` rows | create, list, get, patch, delete, statistics | event cache before the check, PostgreSQL for the write |
| Event cache (`src/cache`) | entries, list version, miss locks in Redis | cache-aside read, invalidate one event, invalidate the lists | all writers of events and bookings, API and worker |
| Refresh tokens (`src/auth/auth.service.ts`) | `RefreshToken` rows linked by `replacedById` | signup, login, refresh, logout | the browser's cookie |
| Login throttle, rate limit | counters and locks in Redis | assert, record, clear; count | Redis only, failing open |
| Confirmation mail (`confirmBooking`, `email.ts`) | none of its own | read the booking, send | SMTP |
| Polling and backoff (`polling.ts`, `migration-backoff.mjs`) | the current delay | next delay | — |
| Lifecycle (`server.ts`, `worker.ts`, `start-production.mjs`) | phase of the process, timers, listeners | start with migrations, graceful and forced stop | all |
| Health (`app.ts`, `redis/*.ts`) | the worker's heartbeat key | probe with a time limit, write the heartbeat | PostgreSQL, Redis |
| Web client session (`web/src/AppV2.tsx`) | access token and user of each tab, one cookie for all | mount, refresh on 401, sign in, sign out | the API, through the web server's proxy |
| Web client lists (`AppV2.tsx`) | page, filters, the list on screen | load, search, clear, page, reload after a change | the API |
| Runtime guard (`web/src/RuntimeGuard.tsx`) | healthy, degraded, offline | check every 30 s and when the network comes back | `/ready` |
| Service worker, PWA (`web/public`) | two caches | precache, network first, cache first | the web server (`web/server.mjs`) |

What is hard about it, and what must hold:

- **Bookings.** Three kinds of transactions count rows and then write according to the count.
  Never more confirmed rows than seats; no seat lost while someone waits; the waitlist in the
  order of `createdAt`; a notice for every seat given, a promotion for every seat released;
  every request answered.
- **Outbox.** A row, a queue job and the outcome writes are three states changed by different
  processes with nothing atomic between them, and the queue may forget everything. The intent is
  never lost; the recorded outcome is the outcome; a job runs once as long as nothing fails.
- **Events.** Checks are made on a cached view and the write comes later, outside any
  transaction. The capacity stays at or above what is confirmed.
- **Event cache.** Readers and writers race; locks lapse under their owner. A read that comes
  after an acknowledged write shows it; a lock is released by its owner only; nobody waits for
  ever.
- **Refresh tokens.** Several tabs present the same cookie; old tokens come back. At most one live
  token per login, and a replay ends the session.

- **Session.** Answers set the cookie in the order they arrive, and some are lost. A browser nobody
  interferes with keeps its session; a sign-out ends it everywhere.
- **Login throttle.** The lock is read long before the failure is counted. Parallel attempts are
  bounded all the same.
- **Confirmation mail.** The booking is read before the mail leaves and may change in between; jobs
  repeat, also after they were done. Who stays confirmed is told so; only repeated runs and failed
  attempts repeat a mail.
- **Lifecycle and health.** Signals come twice, requests hang, dependencies come and go. No job
  and no request whose client waits is cut short by a clean exit, a process comes to serve again
  whatever hung, and what `/ready` and the guard show becomes true.
- **Lists and shell.** Loads overlap; deployments change the assets under a cached page. The screen
  ends with what was asked for last; an installed app starts offline.

The complete list, each hazard at its line, is `hazards` in `PROJECT.json`.

## 2. Modules

### Bookings — the core

`Bookings.tla` has one event, its booking rows, and `Slots`: API requests and promotion jobs in
flight, in however many processes. A transaction is two steps. `BeginBook`, `BeginCancel` and
`BeginPromote` take the snapshot and compute, from that snapshot, what the code's function will
write (`targets`, `to`) and what it has read (`keys`, `scans`). `Commit` writes the rows *and*
their outbox rows, exactly as the `$transaction` callbacks do; `Abort` is a serialization failure
followed by the loop of `withSerializationRetry`; `Finish` is everything after the commit.

PostgreSQL's SERIALIZABLE level is external. It is modelled by the two rules it implements: a
concurrent write of the same row, and a dangerous structure of two consecutive
rw-antidependencies whose last transaction commits first (`ReadsFrom`, `Conflict`,
`FateAfter`). Modelling the level as "transactions run one at a time" would make the retry, the
stale snapshots and all the interesting orders disappear; modelling it weaker would blame the
code for anomalies the database prevents. Snapshots taken before a commit and committed after it
are therefore allowed whenever PostgreSQL allows them. Spurious failures (PostgreSQL tracks reads
by page) only ever abort more, and an abort is possible here as soon as anyone else has committed.

| Code | Module |
|---|---|
| row of (userId, eventId) | `status[u]`, `NONE` when absent |
| `createdAt` order | `older[u]`; kept when a cancelled row is booked again, as in the code |
| `createBooking` | `Bookable`, `NextStatus`, `BeginBook`, `Commit` |
| `cancelBooking` | `Cancellable`, `BeginCancel`, `Releases`, `Commit` |
| `promoteWaitlist` | `Chosen` (ORDER BY with LIMIT), `Promote`, `BeginPromote`, `BeginRepeat`, `Commit` |
| `WAITLIST_PROMOTION` rows not yet done, given up | `promotions`, `failedPromotions` |
| `BOOKING_CONFIRMATION` rows | `confirmations[u]` |
| `withSerializationRetry` | `Abort`, `RetryEnds`, `MaxAttempts` |
| five attempts of the queue, of which the last is recorded FAILED | a job starting again, or `RecordFailed` in `GiveUp` and `Crash` |

A promotion row may run more often than once: `dispatchOutbox` can turn a SENT row back to ENQUEUED
(section 3), and a run whose BullMQ lock lapses goes on beside the next. Of the runs of one row,
one is taken to settle it (`BeginPromote`); any other is a `BeginRepeat`, which may start whenever a
promotion row was ever written (`released`), scans and commits like the first, and leaves the
counter of rows alone. Their number is bounded with the crashes (`MaxCrashes`). Every property
and theorem of the core holds with them.

`SeatLedger.tla` is the promise without transactions: seats are granted, released, handed to the
waitlist and owed, one decision at a time. `ImplementsLedger` is the refinement, with the row
statuses, the confirmation rows and the promotion rows as the ledger's variables.

`Events.tla` extends it: the organizer's view (`Look`, from the cache or the database), check and
write (`Patch`, `Delete`) of `updateEvent` and `deleteEvent` as three separate steps over running
booking transactions, with the cached detail and its invalidations.

### Outbox

`Outbox.tla` has the life of rows through `dispatchOutbox` (read a batch, `Add`, then `Update`,
each able to fail), the BullMQ job under the row's id (waiting, active with a lock, finished,
forgotten), the runs of it, and the outcome writes in flight (`marks`): `void markOutboxSent(...)`
is awaited by nobody. Workers crash, calls fail, locks lapse while the first run goes on, the
stalled check returns a job once and fails it the second time, and Redis restarts empty. The
outcome of a job is abstract; what `WAITLIST_PROMOTION` does is in `Bookings`, where a job may be
run again after it has committed, which is what `Outbox` shows can happen.

### EventCache

`EventCache.tla` is `cacheAside` step by step for two kinds of keys: the detail, deleted by an
invalidation, and one list query, whose key carries the list version. A cached value is
abstracted to the number of writes it has seen, which is all freshness is about. Locks lapse and
entries expire at any time.

### RefreshTokens

`RefreshTokens.tla` has the rows, the links between them, and refresh requests as transactions.
Any token ever issued may be presented at any time.

### Session — the web client over RefreshTokens

`Session.tla` extends it with what a browser does. A call is sent with the cookie of that moment,
served by the actions of `RefreshTokens`, and answered; the cookie of its answer is set on
arrival. Slots that are not calls of the browser are a foreign client with a copy of a token.
`Mount` is the first effect of `AppV2`, `Retry` the refresh inside `request`, and the rest have
the code's names. A 500 (the serialization failure that `refresh` does not retry) is a refusal for
`refreshSession`, which signs the tab out; a lost answer is not. `LogoutFails` has signOut's
`finally`: whatever happened, the tab says it is signed out. Signup differs from login in nothing
told apart here. The cookie comes back to the browser under `/api/v1/auth` because `web/server.mjs`
rewrites its path; the development proxy (`vite.config.ts`) does not, and is not modelled.

### Fulfilment — the mail over Bookings

`Fulfilment.tla` extends `Bookings` with the jobs of its `BOOKING_CONFIRMATION` rows:
`ReadBooking`, `Send`, `Complete` are `confirmBooking` and the completion handler, `AttemptFails`
an attempt that fails or a worker that stops, before or after the mail left. That a row runs at
least once, whatever the queue forgets, is `Outbox`'s `IntentSurvives`; here a row that is not done
with may always be taken. `ReadAgain` is a run beside that one, as `BeginRepeat` in `Bookings`: of a
row done with and dispatched again, or of one whose other run holds it (`holds`). Such a run mails
once more without any failed attempt. The history `extra` counts these runs and the attempts that
failed after the mail. A booking may be cancelled, booked again and promoted while two of its
jobs run, which is what makes the mails hard to count.

### Beside the core

Four modules of parts that share no state with one another. `MCPlatform.tla` puts them into one
instance; `focus` says which of them moves in a behaviour.

`Login.tla` — attempts to log in to one account from one address: `Arrive` (`redisRateLimit`),
`AssertAllowed`, `Verify`, then `RecordFailure` or `ClearFailures`, each a call of its own, and the
keys of Redis with their times to live. One `Tick` is a fraction of a second (`TicksPerSecond`),
because Redis rounds the `TTL` that the lock is asked for to whole seconds: a lock keeps nobody out
in its last half second (`TTL`, `Locked`). A failed call to Redis lets the attempt pass, as the code
does on purpose.

`Lifecycle.tla` — one process, the API or the worker (`kind`), from its migrations or its start to
its exit and its restart by the platform, with its requests or jobs, the poll of the outbox, the
heartbeat and its key; and, for the API, the checks of `RuntimeGuard` in flight. The worker takes
jobs at once, and arms the timers of the poll and the heartbeat (`Started`) when the first of each
has returned. `active` is what the shutdown waits for: requests whose client waits for the answer,
and jobs. `loose` is what it does not wait for: handlers whose client has gone (`ClientGone`;
`server.close` waits for connections) and outcomes of jobs being recorded (`void markOutboxSent`);
nor does it wait for a poll in progress (`polls`). The two shutdown functions are one
machine (`Signal`, `Drained`, `Closed`, `ForceExit`), with their differences: the exit code after an
error, and requests that still arrive on a kept connection. A second signal is a step that changes
nothing, because of the flag. `delay` is what `migrationRetryDelay` and `nextOutboxPollDelay` return.

`Catalog.tla` — the list of events. A load is the query it was started with; answers arrive in any
order. `EffectOf` is the effect of a changed page, `StartJob`/`EndJob` the bookings, cancellations
and event changes that reload the list with what their closure captured, `ClearFilters` the
scheduled load of the render before.

`ShellCache.tla` — deployments, the two caches of the service worker, one page being loaded and one
installation. `Served` is `express.static` with the catch-all behind it: the asset of another
deployment is answered with `index.html` and status 200, and the worker caches it under the asset's
name. `/offline.html` is never shown to a page in control of the worker, because "/" is saved
before the worker is ever in control (first conjunct of `OfflineStartWorks`).

## 3. What is checked

| Run | Instance | Shows |
|---|---|---|
| `bookings` | 3 users, 3 slots, 1 or 2 seats, 2 attempts, 4 requests, 2 crashes | `NoOversell`, `PromotionOwed`, `FirstComeFirstServed`, `ImplementsLedger`; `TypeOK` and `Promising`, the invariant of the proofs |
| `fulfilment`, bookings | 2 users, 1 seat, 2 slots, 2 attempts, 3 requests, 2 crashes or extra runs, no mails | `RequestsEnd`, `SeatsRefilled` |
| `fulfilment`, mails | 1 slot, 2 mailers: 2 users with 3 requests and 1 fault, or 1 user with 4 and 2 | `MailsBounded`, `ConfirmedUserGetsMail` (`ConfirmedGetsMail` where there are mailers), accounts of rows and mails (in `FulfilmentInductive`) |
| `outbox` | 1 row, 2 workers, 2 attempts, 2 faults | `OnceWhileRemembered`, `SentWasExecuted`, `FailedWasNotExecuted`, `IntentSurvives`, `RowsSettle`; `TypeOK`, `OutboxInductive` |
| `events` | 2 users, 2 slots, 1 reader, 1 organizer with 2 edits, 1 crash | `OversoldOnlyByRacedPatch`; `EventsInductive` |
| `cache` | 2 readers, 1 write, 1 fault | `OwnersHoldLock`, `ListsFresh`, `ReadsAnswered`; `TypeOK`, `CacheInductive` |
| `session` | 1 tab with 2 calls, a foreign client, 3 tokens, 2 mishaps | `OneLivePerFamily`, `ReplayRevokesChain` (for the tokens), `SessionKept`, `SignOutEndsSession`; `SessionInductive` |
| `platform`, login | ticks of a third of a second: 2 attempts, limit 3 in 1 s, lock of 1 s at 2 failures in 2 s, for 2 s, 1 failed call | `GuessesBounded`, `AdmissionsBounded` |
| `platform`, life | API and worker, 2 requests or jobs, 2 checks, TTLs of 2 and 4.5 least intervals, 2 signals | `CleanExit`, `WorkerVisible`, `ProcessServesAgain`, `GuardSettles` |
| `platform`, catalog | 2 filters of 2 pages, 2 loads of a query in flight | `PatientUserSeesAnswer` |
| `platform`, shell | 2 deployments with a shared asset | `OfflineStartWorks` |

The `...Inductive` invariants, and `Promising`, are what the proofs of section 4 rest on; each
includes the types of its module. `PlatformInductive` is those of the four parts of `platform`.

What the less obvious ones say:

- `ConfirmedGetsMail`: a mail that left after the *last* grant was read, not merely some mail.
- `MailsBounded` counts the repeats it allows one by one: a run beside the one that settles its row,
  and an attempt that failed after the mail. What it forbids is that the jobs of two grants of one
  booking mail more than their own.
- `SessionKept` names every way to lose a session: expiry, sign-out, a replay in the family (which
  two refreshes at once are: the second presents a revoked token), or an answer that was lost. The
  last is the price of a refresh that is not repeatable: the client presents the revoked token next.
- `SignOutEndsSession`: what is live after a served sign-out was issued by a refresh that crossed it,
  or had gone astray before. The first happens: a logout revokes the token it presents and no other.
- `GuessesBounded`: the maximum less one, and for each time the lock can be set within a window, as
  many guesses as there are parallel attempts. How often that is follows from how long a lock is
  enforced (`LockLasts`), which is less than its TTL. TLC reaches the bound, so a smaller one would
  fail; counted with the whole TTL it would be one lock smaller, and wrong.
- `CleanExit` is about jobs and about requests whose client waits. An exit with code 0 may cut a
  handler whose client has gone, an outcome that is being recorded (the outbox repeats the job) and
  a poll of the outbox.
- `ProcessServesAgain` (`ServesAgain` of the process in focus): once the database and Redis stay, the
  process serves again after every exit, although a request or a connection may hang for ever while
  it drains. It takes the forced exit, the restart, the migrations and the start of the worker.
- `WorkerVisible` begins with the first heartbeat of the interval: a slow start may let the one
  before lapse. One failed heartbeat hides the worker when the TTL is no longer than two
  intervals, which the smallest TTL the configuration admits (10 s) is.
- `GuardSettles`: late answers of older checks may show a wrong state, and not for ever.
- `PatientUserSeesAnswer` excuses a user who acts before the last answer has arrived; typing is no
  such act. Out of order answers are then possible and harmless, but for `catalog_clear` below.

Bounds. A dangerous structure needs three transactions, hence three slots; a promotion with a
choice needs two waiting users, a conflict at the last seat two bookings, hence three users and
one or two seats. Four requests are enough to fill the event, build a waitlist and cancel, or to
cancel and book again. Two attempts distinguish "again" from "no more"; the code's eight and five
add only repetitions. Two dispatchers race on a row, and rows do not interact but through the
batch. A chain of three tokens has a replay at every distance from its end. It is as long as
`MaxDepth` (2, for the code's 100) follows; longer chains are left to the theorem
`ReplayEndsChain`. In `events` two edits raise the capacity and lower it again under a stale count, or delete the
event. In `fulfilment`, a behaviour is of one part of the instance (`Parts` in `MCFulfilment.tla`): three
requests fill the seat, queue a user and free the seat again, and four let one user be granted
twice, with two jobs in flight and a repeat of each. In
`session`, a chain of two rotations, or one of one rotation beside another login, let two calls, a
sign-out and a copy cross in every way, and two mishaps let an answer get lost while a copy is
used; a second tab would differ only in what it shows. In `platform`, six ticks hold a window
of failures with three locks, or two windows of the rate limit, and a third of a second is the
coarsest tick that tells the rounding of a TTL; a load of each query twice in
flight is all that an effect, a call and a job overlap. The shell is finite without a bound.
`MaxRequests`, `MaxCrashes`, `MaxFaults`, `MaxEdits`, `MaxWrites`, `MaxTokens`, `MaxMishaps`,
`MaxTime`, `MaxRedisFaults`, `MaxUpsets` and `MaxLoads` bound counters in the guards and nothing
else. Deadlock is not checked: every instance stops when its requests are used up.

Symmetry: users, slots and calls (`Permutations`), only in runs without liveness.

Fairness. A transaction under way goes on (`WF` of each slot's `Step`), which Node and the
database give as long as the process lives, and a crash is an action; the worker takes waiting
jobs; the poll loop rearms itself after every tick, error or not; BullMQ's stalled check and
retention run on timers; time passes, so rows turn stale and finished jobs are forgotten. A mailer
goes on with the job it has, and each user's waiting rows are taken: the queue is first in, first
out (`FairFulfilmentSpec`; extra runs are not fair). Of a process, only what its own timers and its platform do is fair: the forced exit, the
restart (Render restarts what exits; external), the next attempt to migrate, the worker's first poll
and heartbeat while the database and Redis answer, the guard's interval and the end of each check,
which has a time limit. Requests, jobs and connections may hang. No
strong fairness is used, and nothing is assumed of clients, of expiries or of faults, whose
number is bounded.

Each property is accompanied by a mutant in `PROJECT.json`: a plausible bug of the code, written
as a definition marked `Fault:` beside the one it replaces, under which TLC finds the property
violated.

### Where the code departs from its documentation

Five runs end in a counterexample, each against a sentence of the documentation or a test
(`findings` in `PROJECT.json`):

- `outbox_redispatch`: `dispatchOutbox` sets ENQUEUED unconditionally, so a row already SENT can
  become ENQUEUED again and be dispatched once more two minutes later. The queue still holding the
  job makes the second dispatch harmless until retention has dropped it.
- `events_shrink`: a patch checked against an outdated count, or written while a booking
  transaction is running, lowers the capacity below the confirmed bookings.
  `OversoldOnlyByRacedPatch` shows that this is the only way to oversell.
- `events_raise`: raising the capacity writes no promotion; waiting users stay.
- `cache_stale`: a reader that loaded the detail before a write stores it after the invalidation,
  and it is served until its TTL. Lists are immune (`ListsFresh`): their key has changed.

- `catalog_clear`: Clear empties the form and schedules a load with the closure of the render that
  still has the filters, so the list stays filtered under an empty form until the next search.

More follow from actions that are modelled but have no run: a replay more than 100 rotations
behind leaves the newest refresh token live (`MaxDepth`), and so does a logout with a token that
another tab has just rotated (`raced` in `SignOutEndsSession`); a logout that failed says "Signed
out securely." with the session intact (`LogoutFails`); opening `/icon.svg` as a page makes it
what the app shows offline (`NavigateToFile`); an asset cached as HTML during a deployment stays so
for that name, also after a rollback (`doubtful` in `OfflineStartWorks`).

## 4. What is proved

Every safety property that a passing run checks is also a theorem, for every value of the
constants. The proofs assume what the modules assume of their constants and nothing else: finite sets of users, slots or attempts where
something is counted, natural bounds, at least one attempt, and what the configuration schema
guarantees (heartbeat TTLs of at least two intervals). They are all of one kind: an inductive
invariant, which TLC checks in the run of its module; a lemma per conjunct with one step per
action; the property as a consequence.

| Module | Theorems |
|---|---|
| `BookingsProofs` | `InductiveHolds`, `TypeCorrect`, `NeverOversold` |
| `LedgerProofs` | `PromisingHolds`, `PromotionIsOwed`, `ServedInOrder` (action property), `LedgerImplemented` (refinement) |
| `OutboxProofs` | `OutboxInvariant`, `OutboxTypeCorrect`, `DeliveredWasExecuted`, `ExecutedOnce`, `GivenUpWasNotExecuted` |
| `EventCacheProofs` | `CacheInvariant`, `CacheTypeCorrect`, `OwnersKeepLock`, `ListsStayFresh` |
| `EventsProofs` | `EventsInvariant`, `EventsTypeCorrect`, `OversoldByRacedPatchOnly` |
| `FulfilmentProofs` | `FulfilmentInvariant`, `MailsAreBounded` |
| `SessionProofs` | `TokensInvariant`, `SessionInvariant`, `SessionTypeCorrect`, `OneLive`, `ReplayEndsChain`, `SessionIsKept`, `SignOutEnds` |
| `PlatformProofs` | `PlatformInvariant`, `GuessesAreBounded`, `AdmissionsAreBounded`, `LifeTypeCorrect`, `ExitsClean`, `WorkerIsVisible`, `PatientUserIsAnswered`, `OfflineStart` |

The arguments, and why the properties need more than themselves:

- **No overselling.** The count was taken in an earlier state than the commit. `GrantsFit` says
  that whoever may still commit a grant fits beside the rows confirmed *now*. It survives the
  commit of another grant because both have read the CONFIRMED range and both write into it
  (`TxShape`), which is a dangerous structure: `GrantDoomsGrant` proves that the second is doomed.
  It survives a commit that grants nothing because the confirmed set only shrinks. `JobsCovered`,
  that the runs that will settle a promotion row never outnumber these rows, keeps the counter of
  promotions from going negative. Repeats need no such count: what they grant is in `GrantsFit` as
  well.
- **No seat lost, no queue jumping, the refinement.** `Promising` says what a transaction that may
  still commit read and that it is still so (`Decided`), that nobody waits before someone about to
  be promoted (`InTurn`), that a booking about to wait has been overtaken by a cancellation when a
  seat is free (`QueuersMet`), and that beside the promotions that have done what they can there is
  one more as long as somebody waits, or is about to (`WaitersOwed`, `QueuersOwed`). The last two
  hold each other up: a booking commits to the waitlist under a promotion that has not seen it
  only if that promotion has read the waitlist, and then it is doomed. From the invariant, each
  commit is one decision of `SeatLedger` and every other step a stutter; a run that grants a seat,
  the first or a repeat, finds one that is owed or was given up.
- **Outbox.** While nothing has failed and the queue remembers the job, its state tells how often
  it ran and who holds its lock (`Accounted`); a delivery is recorded after its run
  (`MarksFollowRuns`), whatever fails.
- **Event cache.** Every acknowledgement and every invalidation follows a commit of its own, so a
  version that nobody has moved on from shows every write acknowledged, and what is stored late
  lands under a version that only readers from before ask for (`VersionsTell`).
- **Events.** Until a patch has raced, the invariant of the bookings holds of the capacity too
  (`GrantsFitUnlessRaced`); a patch about to be written was checked (`PatchesChecked`).
- **Mails.** Each mail is laid to a run that settled its row, to one that holds its row and has
  returned, or to an extra one, and an extra run that may still mail is counted already
  (`MailsExplained`); the rows settled, given up or held are no more than the grants. A step changes
  one job, so it is a matter of which counts that job leaves and enters (`MailingAfter`). The
  theorem needs only `Inductive` of the bookings.
- **Refresh tokens.** Families are linked in the order of issue (`InOrder`, `Linked`), so what a
  replay is about to revoke is all there is after the token, as far as the chain is followed;
  another refresh that commits in between dooms it, because both write the newest row
  (`AboutToRevoke`). How far two tokens are apart is counted by `Links`.
- **Session.** A token in an answer, in the cookie or in a sign-out on its way covers what is issued
  after it, unless that is itself on its way, went astray or raced (`AnswersNewest`,
  `CookieNewest`, `SignOutNewest`).
- **Login.** The k-th time that the lock is set within a window of failures comes after k - 1
  times the ticks it is enforced for (`LockLasts`), and each time no more attempts have passed the check than there are
  (`GuessesPerLock`), hence `LockRounds`, a quotient rounded up. What the rate limit admits while
  a key of it lives is counted in the key, and what the ticks before it still show is one
  window's at most (`AdmissionsPerKey`); the history `recent` is cumulative, so that no sum over
  ticks has to be proved about.
- **Lifecycle.** The key of the heartbeat has at least what is left of its TTL since the last one
  written (`HeartbeatLasts`). Proving the range of the delays showed that jitter and rounding
  together exceed one fifth for some values: the bound allows for it.
- **Lists and shell.** A patient user's loads are those of the last question
  (`PatientUserWaits`); what is saved in place of an asset is doubtful, and what was fetched under
  control stays saved (`OnlyDoubtfulReplaced`, `FetchedIsSaved`).

The proofs cover the serializability rules as modelled, not PostgreSQL, and Redis, BullMQ and the
browser as the modules have them. Model-checked only: every liveness
property (`RequestsEnd`, `SeatsRefilled`, `ConfirmedGetsMail`, `IntentSurvives`, `RowsSettle`,
`ReadsAnswered`, `ProcessServesAgain`, `GuardSettles`), because the prover handles neither ENABLED nor
fairness.

## 5. What is not modelled

Stated in `components` with the reason. Besides parts without state of interest (validation,
cryptography, logging, configuration, the proxy and headers of the web server):

- Outbox: the limit of 50 rows per batch, `attempts` and `lastError`, `availableAt` (always now).
- Events: `createEvent`, patches of `startsAt`, ownership.
- Events: how rows are ordered into pages. What the API answers when a foreign key refuses a deletion
  or a booking whose event is gone (the outcomes are there, `Delete` and `InsertFails`).
- Time is abstract but in `Login` and the heartbeat of `Lifecycle`: a TTL, a lock or a stale
  threshold may pass at any moment.
- Web client: dashboard, details and statistics, which are shown as they arrive; the install
  prompt; the browser's HTTP cache under the service worker.
- Migrations are attempts that succeed or fail; the reconnection of Redis clients is part of the
  world (`DependencyTurns`). Values of the environment that are no numbers.
- The Prometheus counters of `observability/metrics.ts`, the seed and the load scripts.

## 6. Plan

1. *(done)* Bookings with its ledger, Events over it, Outbox, EventCache, RefreshTokens; first
   proofs.
2. *(done)* Session over RefreshTokens, Fulfilment over Bookings, Login, Lifecycle, Catalog,
   ShellCache and their common instance.
3. *(done)* The safety properties of every module as theorems, with their inductive invariants; the
   refinement of `SeatLedger`.
4. Left to model: the batch limit in Outbox, `createEvent` and `startsAt` in Events.
