# TLA+ models of resy-snipe

resy-snipe books restaurant tables the moment they are released. This directory
holds TLA+ modules translated from its Go source, TLC configurations that check
them on small instances, and TLAPS proofs that hold for every instance.

Run TLC with `tlc -config X.cfg M` and the proofs with `tlapm XProofs.tla`
(eight modules, at most about three minutes each).

## 1. The system

Two programs share one engine and one SQLite file.

* The **CLI** (`cmd/resy-snipe`): `runSnipe` takes an intent, submits it, lets
  the release strategy run, races for a booking, reports and exits.
* The **daemon** (`resy-snipe serve`): an HTTP service over `internal/service`
  that plans, creates, cancels, lists and streams quests for several users. It
  submits quests to the engine; at this commit nothing in it calls `Engine.Run`.

### Inventory

| Component | State | Operations | Hard part | What makes it correct |
|---|---|---|---|---|
| Status table (`domain/status.go`, `event.go`) | none | `CanTransition`, `IsTerminal` | every writer must respect it | rows only move along it |
| Transition gate (`engine/state.go`, `store/sqlite.go`) | snipes row, events rows, in-memory copy | `Transition`, `TransitionSnipe`, `GetSnipe`, `CreateSnipe`, `AppendEvent` | failed writes, cancelled contexts, crashes | row and event move together; memory never ahead of the row |
| Release scheduling (`engine/run.go`, `release.go`) | timer, `scheduled_at`, polling window | `Run`, `waitAndFire`, three strategies, `recordObserved` | timer against cancel, two goroutines, window against poll | never early, always ends, no goroutine left, polls spaced |
| Booking race (`engine/race.go`) | goroutine per slot, results channel, `raceCtx` | `RunBookingRace`, `failWithReason` | first-wins race, late answers, SIGTERM, a block half way | what is recorded was booked; no confirmation lost; no POST after the win |
| Notifications (`engine/subscribe.go`) | subscriber map | `Subscribe`, cancel, `emit` | concurrent subscribe and emit | each subscriber sees each event once, in order |
| CLI command (`cmd/resy-snipe/snipe.go`, `main.go`) | one invocation | `runSnipe`, signals, exit status | signal at any step, re-invocation | the report is the truth |
| Quest service (`service/standard*.go`) | quests, quest_events, idempotency_keys rows | `PlanQuest`, `CreateQuest`, `GetQuest`, `ListQuests`, `CancelQuest`, `SubscribeQuest` | concurrent calls with one key, crash between writes, replay against live | one key, one quest; a stream without gaps |
| Auth (`service/standard_auth.go`, `store/tokens.go`, `users.go`, `accounts.go`, `seed.go`, `ctxauth.go`) | tokens, users, accounts, sessions | login, issue, list, revoke, seed | revocation against use, two-step login, tenancy | a revoked token is refused; an account keeps its owner |
| Audit (`service/audit.go`, `store/audit.go`) | audit rows | append | best effort writes, verbs that fail half way | one row per call, with the outcome that the client is told |
| Resy client (`internal/resy`) | signer cache, idempotency keys seen | `Find`, `Calendar`, `PrepareSlot`, `ConfirmSlot`, `Book`, `ResolveVenue`, `SearchVenuesByName`, `Ping`, `Login` | one retry after a challenge, deadlines, lost answers | one booking per key; a refusal is no booking; every call returns |
| Planner (`internal/planner`, `domain/goal.go`, `plan.go`) | none | `Validate`, `BuildPlan`, `SelectStrategy`, `ExpandSlots`, `ComputeHash` | time zones, window boundaries, a plan computed twice | the hash pins the plan; windows are open; slots cover the window |
| Resolver (`internal/resolver`, `store/cache.go`) | two caches | `Resolve` | TTL, write-through, stale on failure, concurrent commands | an answer is as fresh as the TTL unless the service failed |
| Secrets (`internal/secrets`) | sealed rows, key, version | `Seal`, `Open`, `Delete`, `Rotate`, migrate | rotation against use, crash around the commit | every row has the active version and opens under a passphrase that was entered |
| Daemon boot (`internal/daemon`, `serve.go`, `store/migrate.go`) | lock, schema version, unlock state | boot, serve, drain, close | order of steps, shutdown with streams open, old and new binaries | one daemon per database; shutdown ends |
| HTTP transport and client | `lastTouch` of the middleware | handlers, SSE, error envelope | a stream that stops for four reasons; three tables of errors | the client's nil means the end; errors survive the wire |

Interactions: the CLI calls `Submit`, `Run` and `RunBookingRace` in turn on one
goroutine; `Run` shares the snipe with a timer callback; the race shares a
channel and `raceCtx` with its goroutines; every status change goes through
`SnipeState.Transition`; signals cancel the root context that `Run`, `Find`,
`PrepareSlot` and every database write use, and that `ConfirmSlot` is detached from.

## 2. Modules

| Module | Models | State and actions |
|---|---|---|
| `SnipeStatus` | `domain/status.go`, `event.go` | the table as a function |
| `SnipeLoad` | `scanSnipeRow`/`forceStatus` | how a persisted status is rebuilt: first path that can be walked; `EveryStatusLoads` (an `ASSUME` that TLC evaluates) says that each of the ten statuses is |
| `SnipeStore` | `SnipeState.Transition` over `TransitionSnipe` | `row`, `log`, `mem`, `ctxDone`; `Commits` (validate, persist, swap) and `Rejects` (nothing changes) |
| `Snipe` | abstract specification | one row and its log: `Create`, `Announce`, `Move` |
| `BookingRace` | `RunBookingRace` | `pc` of the function, `attempt[s]` of each goroutine, `post[s]` as the service sees it, `results` channel, `raceDone`, which the deferred `cancel` of every return ends too (`Return`); `Leave` is the return of a blocked `PrepareSlot`; one action per step between two points where others can run |
| `ReleaseRun` | `Run`, `waitAndFire`, `release.go` | `run`, `timer`, `strat` (strategy, on whichever goroutine), `now`, `sched`; its own specification, for a `Run` that is called by itself, has the prefix `Rel`; `MCReleaseRun` gives it small clocks |
| `QuestService` | `CreateQuest`, `CancelQuest` and the store helpers they call | per call `pc`, `at` (its `now`), `live` (its context), `outcome`; tables `quests`, `snipes`, `events`, `keys`; one action per database statement; `prior` and `saved` only observe; `MCQuestService` gives the calls |
| `QuestStream` | `SubscribeQuest`, `Subscribe`/`emit`, `sse.go`, the client's `SubscribeQuest`; the events that `CreateQuest` and `CancelQuest` write | the engine's script of emissions, `subs`, the snapshot `emit` works through, and per connection `pc`, `history`, `buf`, `flow`; `since` and `dropped` only observe; `MCQuestStream` gives the scripts |
| `Daemon` | `Boot`, `Close`, `serve`, `migrate-secrets`, `Migrate`, `internal/secrets` | processes with `pc`; `lock`, `open`, `schema`, `meta`, `secrets`, `sess`; `Rotate` is three actions (read, commit, swap), `Seal` two (encrypt, write); `UnlockSealer` takes the operator's passphrase or any of `Mistakes`, unchecked as in the code, and `strays` remembers those since the last rotation; `MCDaemon` gives the processes |
| `Wire` | `errorCodeFor`, `MapError`, `codeToSentinel` | operators only; `Lockstep` (an `ASSUME` that TLC evaluates) says that the three tables agree |
| `Auth` | bearer middleware, token and account verbs and their handlers, audit rows, `login`, `user seed`, `loadSessionForSnipe` | calls with `pc`; rows `users`, `accounts`, `sessions`, `tokens`, `audit`; extends `Wire`, so that an answer is what the client unpacks; `MCAuth` gives the calls |
| `ResyClient` | `doSignedAndRetry`, `classify`, the signer's subprocess and cache, the idempotency tracker, the parsers of nine calls | calls with `pc`, `leg`, `try`, `resp`; `cached`, `seen`; `bookings` is what the service did; `MCResyClient` gives the calls and refusals |
| `Planner` | `internal/planner`, `Goal.Validate`, `ComputeHash`, `intentFromPlan` | operators over minutes and over midnights of days that differ in length; a second has `Second` instants, since `endOfDayIn` has no nanoseconds and `now` has |
| `Planning` | `venue resolve`, `quest plan`, `quest create`: flags, resolver, caches, `PlanQuest`; `CreateQuest` from the lookup of its key to the comparison of hashes | commands with `pc`, `round` (the plan shown, the plan of `CreateQuest`), `called` and `at` (the `now` of `CreateQuest` and of `PlanQuest`), `row`, `venues`, `plan`, `quest`; `keys` are the idempotency rows of one user; a command line `direct` is a client that calls `CreateQuest` without a hash; `up`, `open` are the service; `seen`, `since`, `stale` and `fetched` only observe; extends `Planner`; `MCPlanning` gives the command lines |
| `RunSnipe` | `runSnipe`, `main.go` | extends `ReleaseRun` and composes it with an `INSTANCE` of `BookingRace` over one database; adds create, reload, report, exit, re-invocation; `MCRunSnipe` gives the releases |
| `BookingRaceProofs`, `RunSnipeProofs`, `QuestServiceProofs`, `QuestStreamProofs`, `DaemonProofs`, `AuthProofs`, `ResyClientProofs`, `PlanningProofs` | | for each of the modules above, its inductive invariant, the lemmas and the theorems of section 4; those of `ReleaseRun` open `RunSnipeProofs` and those of `Planner` are in `PlanningProofs` |

Abstractions. A slot is its rank (`rankSlotsByPreference` has put it there), a
confirmation is named by its slot. Payloads, attributes and logging are left
out. Errors are kept as the three classes the callers tell apart (nil, wraps a
context error, other). The sign-and-retry of the Resy client is inside one
`ConfirmSlot` of the race (the service's answer is the last one) and is opened up
in `ResyClient`. A cancelled context makes
every database write fail (`BeginTx` refuses it) and every call that has not
been sent.

`Faults` is the set of things the environment may do: `cancel` (a signal),
`blocked` (rate limit or challenge), `store` (a write fails), `crash`, `lost`
(an answer never comes: the 30 s deadline of `internal/resy/client.go`), and
`gone` (a client of the daemon disconnects: `net/http` cancels the context that
the handlers pass down).

## 3. Runs

| Run | Bounds | Shows |
|---|---|---|
| `booking_race` | 3 slots, all faults | `BookedIsReal`, `NoConfirmationLost`, `NoPostAfterReturn`, `NoBookingAfterWin`, `FollowsSnipe` (every step is a step of `Snipe` or none), `RaceEnds` (the call and every goroutine) |
| `release_run` | clock 0..5, floor 2, seven releases (due, ahead, open, closed and empty windows), two calls of `Run`, all faults | `NoCallbackAfterReturn`, `NeverEarly`, `MemoryIsRow`, `NilMeansFired`, `PollsSpaced`, `RunEnds` |
| `run_snipe` | 2 slots, clock 0..2, one release of each kind, two invocations, all faults but `store` | `ImplementsSnipe` (refinement), `ReportedIsReal`, `ConfirmationReported`, `NoEarlyPost`, `InvocationEnds` |
| `quest_service` | 3 calls of 4 scenarios (retries; one key for two goals; one key of two users and two operations; cancels that meet), two at a time, TTL 1, clock 0..1, all faults | `AnswerIsReal`, `CanceledByOwner`, `RetryIsReplayed`, `KeyReuseRefused` |
| `quest_stream` | 2 connections, one of them slow, buffer of 1, two scripts, all faults | `ReplayLiveDisjoint`, `NoEventLost`, `NilMeansEnded`, `StreamEnds` |
| `daemon` | 3 processes of 4 scenarios, 2 accounts (one without owner), 2 logins, one rotation, schemas 1 and 2, two mistyped passphrases, all faults, no `Seal` during a `Rotate` | `RowsOpen`, `OneOwner`, `ClearedOnlyWhenSealed`, `ShutdownEnds` |
| `auth` | 3 calls of 11 scenarios, all faults | `RevokedStaysDead`, `AuditTellsOutcome`, `AccountKeepsOwner` |
| `resy_client` | 2 calls of 8 scenarios, 5 refusals, contexts that end, lost answers | `OneBookingPerKey`, `RefusalMeansNotBooked`, `RetryAfterFloor`, `CallReturns` |
| `planning` | 2 commands of 9 scenarios, a table named twice, goals changed after the plan, a retry under a key, a key used again and calls without a hash among them, TTL 1, requests of up to 1, TTL of keys 2, seconds of 2 instants, clock 0..3, zones east and west of UTC, one change of the catalogue or the calendar, both faults | `HashPinsPlan`, `VenueRecent`, `AcceptedWindowOpen`, `SlotsCoverWindow` |
| `snipe_orphaned` | as `run_snipe`, `cancel`, one invocation | violated: never a confirmed-but-orphaned reservation (I-4) |
| `quest_retry` | 2 calls, one request, `gone` | violated: a key "makes the call replayable for idempotencyTTL" (`OneQuestPerKey`) |
| `rotate_seal` | as `daemon`, no faults, `Seal` at any time | violated: "rotateMu serializes Rotate against concurrent Seal/Open" (`NeverHalfRotated`) |

Each module with variables of its own states its type invariant as `TypeOK`
(`RelTypeOK` in `ReleaseRun`). Those of `BookingRace`, `ReleaseRun`, `RunSnipe`,
`QuestService`, `ResyClient` and `Planning` are proved; those of `QuestStream`, `Daemon` and `Auth` bound the data to the instance of
the run, and the proofs use the types of their own that hold for all instances.

Why the bounds are enough. Three slots give a winner, a sibling whose POST is
out and one that is still being prepared, at the same time. Two calls, or two
invocations, are a first one that stops anywhere and a second one that finds what
it left. The clock reaches beyond every release and window, so that each of them
lies before, at and after the moment the code looks; `wake` and the clock stop
at `MaxTime`, after every window has closed. `store` faults are explored where
the writes are (`booking_race`, `release_run`) and left out of the composition,
where they would only repeat the other failures of a write.

In `QuestService` two calls at a time give every overlap of a call with its retry
or with a cancel, and the third comes after or during the second: it reads what
two overlapping calls have recorded. A TTL of 1 has a retry before the expiry
and one exactly at it. The number of a call is the id of the quest it creates; a
payload is a number that stands for its hash; a status is `submitted` or
`canceled` because nothing else writes quests rows at this commit. PlanQuest and
the account lookup are one step: they write nothing. Audit rows are left out.
There is no liveness property: a call is a finite chain of statements.

In `QuestStream` a buffer of one (64 in the code) is full after one event, so
that drops happen; one connection reads as it should and the other may stop;
the scripts have a notification of another quest and a terminal event, and the
two writers of the service add theirs. In `Daemon` the third process finds what
two others left, at the lock or after a crash; `Quiet` is the discipline that the
comment of `rotateMu` promises and the code leaves to its callers: `rotate_seal`
shows what happens without it. The two mistyped passphrases are the one that was the
operator's before the rotation and one that never was. In `Auth` three calls are a revocation, a use and
a listing, or two logins and a seed, of which each pair interleaves. In
`ResyClient` two calls share the signer, the tracker or a key; more calls only
repeat those pairs. In `Planning` the clock passes the TTL of a row and, exactly, that of a key, a midnight
west of UTC, one east of it and the last second of a short day, which has two instants
so that a plan can be made after `endOfDayIn` and before midnight; two commands are what
a cache or a key needs to be filled by one and read by the other. The keys there are those of one user
and the lookup is one step: `QuestService` has its two queries and the other users.

Deadlock checking is off: a race that has returned and a command that has
exited really stop.

Fairness. `WF` on the main goroutine, on each confirming goroutine, on `Run`,
on the timer callback and on the clock: the Go scheduler runs what can run,
timers fire, and every HTTP call ends because the client gives it a deadline of
30 s. `ConfirmGivenUp` is enabled only with `lost` or a cancelled `raceCtx`, so
`RaceEnds` needs the deadline when the service does not answer; nothing is
assumed of the service, of signals or of crashes. With `lost` in `Faults`, as in
the runs that check liveness, the deadline is what ends a call. `QuestStream`: `WF` on the
engine's goroutine and on the handler of a connection whose client reads; none for
the slow one. `Daemon`: `WF` on a process's own steps; requests need not end, and
the drain deadline is what ends a shutdown. `ResyClient`: `WF` on each call's steps,
which the 10 s limit of the signer's program and the 30 s timeout of a request
bound, and on the clock.

### What the violations mean

* `snipe_orphaned`: SIGTERM while the POST is in flight. The POST succeeds, but
  the transition to `booked` runs under the cancelled context.
* `quest_retry`: the client disconnects after the quests row is written. All later
  statements fail under the cancelled context, the one that records the outcome
  included, and the retry finds no record.
* `rotate_seal`: `Rotate` commits, a `Seal` encrypts with the key that the sealer
  still has and writes the old version, then `Rotate` swaps. The row opens under
  no key in use and `CheckMixedVersion` refuses the next boot. No command of this
  commit calls `Seal` and `Rotate`; they are what the package offers.

### Also seen while modelling

Of the race and the release: `RunBookingRace` returns on `prepare_blocked`
(`race.go:111`) without `wg.Wait`, so goroutines outlive it, contrary to
`race.go:30` and `docs/laws.md:50`, and a booking that was on its way is recorded nowhere.
What the code does keep is `NoPostAfterReturn`: the deferred `cancel` ends their context
with the return, so none of them sends another POST, and by `RaceEnds` each of them ends. `BookingPolicy.MaxConcurrent` is
never read, contrary to `engine.go:56`. Two POSTs sent before the first cancel
may both be accepted. A failing `PrepareSlot` goes on without the PollFloor pause.
If the context is cancelled and the timer then expires before `select` runs,
`Run` may return nil, contrary to `run.go:33`. A timed-out poll wraps
`context.DeadlineExceeded` and is reported as "canceled before release"
(`snipe.go:83`), while after a real signal the reload under the cancelled context
fails and that line is never printed.

Of the quest service: a row of the same payload written between the two queries
of the lookup gives a spurious `ErrIdempotencyConflict`; two calls with one key
that overlap both create a quest; an expired row of the request hides a live row
of the same key (hence the premise of `KeyReuseRefused`); two overlapping cancels
both update, so `completed_at` is stamped again; the operation is part of the key
(`SameKey`), so a key that comes back with another operation is served, contrary to
"Different action under the same key is `ErrConflict`" (`docs/v2/design/service-layer.md:189-190`); an engine failure after the
quests row exists is recorded, so the retry that the comment at
`standard_quest.go:276-281` speaks of gets the recorded error for 24 hours.

Of the stream: an event that is emitted after the history was read and before the
subscription reaches the client on neither way (`NoEventLost` starts at the
subscription); events are persisted by subscribers, so without one they are not
persisted at all, contrary to `sse.go:30-33`, and with two they are persisted twice;
`CancelQuest` emits nothing, so an open stream does not end on it, contrary to
`sse.go:24-26`; a terminal event that finds the buffer full leaves the stream open
until the client goes.

Of the daemon: boot takes any passphrase (`boot.go:254-268`). "On boot, the daemon
attempts a sentinel `Open` of one row" (`docs/v2/design/secrets.md:364-367`, and 532 for a
keyfile) is contradicted by "we do not pre-validate the key" (584-585), and the code
does the latter. What is sealed or migrated under a mistyped passphrase has the active version and
does not open under the operator's, which also stops a rotation, and `migrate-secrets`
has cleared the plaintext by then; `RowsOpen` and `ClearedOnlyWhenSealed` therefore speak of the
passphrases that were entered, which is the operator's alone if nobody mistypes; `migrate-secrets` clears a plaintext token that
is newer than the sealed one of its account (`migrate.go:140`); `Shutdown` waits for
event streams until the deadline, then `Close` closes the database under them.

Of auth: a second `Login` of a bound account meets the primary key in
`UpsertSession` and fails, contrary to "a re-Login of the same user ... does not
fork a second accounts row" (`accounts.go:91-94`); `user seed` run twice fails on
UNIQUE; `last_seen` may move backwards when two touches overtake each other; a
request that was authenticated before the revocation completes; a request whose
client goes loses its audit row; a failed write of an audit row is warned of and
swallowed, as `audit.go:60-63` says, contrary to "If the write itself fails the call returns
`ErrInternal`" (`docs/v2/design/service-layer.md:402-406`), so `AuditTellsOutcome` excepts it;
a Resy 401 at `Login` is audited as `internal`
although the client gets `ErrAuthExpired`; a malformed request leaves no audit row;
revoking twice is `ErrNotFound`, contrary to `tokens.go:126-128`.

Of the Resy client: a `Sign` that was running during `Reset` stores the headers
from before it; a failed `Reset` does not stop the retry, contrary to
`signer.go:24-27`; `BookWithIdempotency` spends its key before the details are
fetched, so a failure of the details makes the key useless; the 10 s limit kills the signer's
program but `Wait` still reads its output until the pipe closes (`printing_press.go:155-184`
sets no `WaitDelay`), so a grandchild that holds the pipe holds the call: `CallReturns`
assumes that there is none.

Of planning: a Continuous plan has the time of planning in its drop moment and its
fire schedule (`plan.go:173`), so a pinned hash of a date that is already open is
refused at any later instant, contrary to "same Now or any later instant whose strategy
decision matches" (`plan.go:66-68`); a recorded outcome of the idempotency key is
answered before the plan is made and whatever hash is pinned (`standard_quest.go:192-209`),
contrary to "If `planHash` is provided, the daemon recomputes the Plan and refuses if the hash
doesn't match" (`docs/v2/adr/0012-plan-first-ux.md:30-33`), so `HashPinsPlan` compares an
answer with the plan that made its quest; a table that is named twice is planned and attempted
twice, contrary to "`Constraints.TableTypes` deduplicated" (`docs/v2/design/planner.md:84`),
and `SlotsCoverWindow` speaks of the tables as they were given; polling has a fire
schedule, contrary to "Empty for `Continuous`" (`planner.md:88`, 300-302); no priority is
ascending, contrary to "a default (center-out)" (`goal.go:63-65`, `planner.md:290`);
`intentFromPlan` takes the window's start and the first table, whatever the priority
and the slots shown; tables are sorted in the hash although their order decides, contrary to "content-addressable
over the fields the engine actually consumes" (`domain/plan.go:19-21`);
`Goal.Validate` takes today in UTC, so tonight's date is refused west of UTC after
UTC midnight; venues found by name have no time zone and cannot be planned; a
window whose start has more seconds than its end puts the last slot past the end, for minutes
alone are compared, contrary to "is ≤ End" (`slots.go:54-56`); the end of a day is 23:59:59.000
(`strategy.go:174-177`), so what is planned to be polled half a second later is over when it
is made, the exception in `AcceptedWindowOpen`; an unknown venue leaves its cached row, contrary to
"the cache entry (if any) is invalidated" (`docs/v2/design/resolver.md:205-207`, 306-309),
so that a later failed request answers with the venue that has gone.

## 4. Proofs

Every safety property of every passing run is a theorem: it holds for every
value of the constants, not only for the instance of the run. The last step of each
is `Init => Inv`, `Inv /\ [Next]_vars => Inv'`, `Inv => Property`; none of the
properties is inductive by itself.

| Module | Theorems | Inductive invariant |
|---|---|---|
| `BookingRaceProofs` | `[]TypeOK`, `[]BookedIsReal`, `[]NoConfirmationLost`, `[]NoPostAfterReturn`, `NoBookingAfterWin`, `FollowsSnipe` | `RaceInv` |
| `RunSnipeProofs`, of `Engine.Run` | `[]RelTypeOK`, `[]NoCallbackAfterReturn`, `[]NeverEarly`, `[]MemoryIsRow`, `[]NilMeansFired`, `PollsSpaced` | `RunInv` |
| `RunSnipeProofs`, of the command | `[]ReportedIsReal`, `[]ConfirmationReported`, `[]NoEarlyPost`, `[]TypeOK`, `ImplementsSnipe` | `SnipeInv`, `ReleaseInv` |
| `QuestServiceProofs` | `[]TypeOK`, `[]AnswerIsReal`, `[]CanceledByOwner`, `[]RetryIsReplayed`, `[]KeyReuseRefused` | `QuestInv` |
| `QuestStreamProofs` | `[]ReplayLiveDisjoint`, `[]NoEventLost`, `[]NilMeansEnded` | `StreamInv` |
| `DaemonProofs` | `[]OneOwner`; with `Quiet`, `[]RowsOpen` and `ClearedOnlyWhenSealed` | `OwnInv`, `KeyInv` |
| `AuthProofs` | `RevokedStaysDead`, `AccountKeepsOwner`, `[]AuditTellsOutcome` | `AuthInv` |
| `ResyClientProofs` | `[]TypeOK`, `[]OneBookingPerKey`, `[]RefusalMeansNotBooked`, `RetryAfterFloor` | `ClientInv` |
| `PlanningProofs` | `[]HashPinsPlan`, `[]VenueRecent`, `[]AcceptedWindowOpen`, `[]SlotsCoverWindow` | `PlanningInv` |

### Assumptions

The named assumptions of the modules say which values the constants may have:
numbers are naturals, `MaxSlots`, `LiveBuf` and `MaxCalls` at least 1, `Faults` a set of
the faults the module knows, and scenarios, scripts and releases have the fields and
the values that the code's own types allow (a script of emissions starts with
`submitted`, for `Submit` is the first to emit). Of the calendar `Planner` and `Planning`
assume what every time zone has: days without gaps, a later day that begins later,
and at every instant of the clock a day that has begun and not ended; the lengths of
days, of a second and the offsets are free. Of a request it assumes that at most `RequestTime`
passes from the service's answer to the write of the cache. `Mistakes` is any set of passphrases. TLC evaluates them in the runs. Two theorems
have a condition of their own. `ConfirmationReported` needs `"store" \notin Faults`, as
in its run: a winner whose transition the store refuses is not saved. `RowsOpen` and
`ClearedOnlyWhenSealed` need `Quiet`; `rotate_seal` is the counterexample without it.
`OneOwner` needs neither.

### The arguments

*Booking race.* `BookedIsReal` needs that what is on the channel was confirmed
(`ChannelInv`) and that what was confirmed was booked by the service
(`ConfirmedInv`). `NoConfirmationLost` needs that after `wg.Wait` no goroutine is left
(`WaitInv`) and that a confirmation is dropped only when a winner is already on the
channel or the race is over (`CancelInv`). `NoBookingAfterWin` needs that a winner has
ended `raceCtx` (`CancelInv`), `NoPostAfterReturn` that every return has. `LoopInv` and `UntriedInv` describe the loop: slots it has
not reached have no goroutine, so starting one never overwrites another. `RowInv`
ties the in-memory snipe to the row.

*Release.* `ControlInv` says where `Run` and the callback can be at the same time:
before the strategy, the strategy on `Run`'s goroutine, behind an armed or a fired
timer, or stopped and joined. With it `MemoryIsRow` is inductive, because only one of
the two ever moves the snipe. `SchedInv` carries the release time from the row through the timer to the
strategy, also when a second call reads it back; `ErrInv` ties what the strategy returns
to what it moved; `PollInv` bounds `earliest` by the pause.

*The command.* Its proofs build on the other two: those of `Run` are in the same module,
and it instantiates `BookingRaceProofs` over the command's variables, so that a step of the race keeps
`RaceInv` by the lemma already proved, and shows that the steps of `Run`, `Submit` and the
reload keep it too. `PhaseInv` says that before the snipe is announced the log is
empty and that until the race is called no slot has a goroutine.
`StatusRebuilt` proves, for every status, that `forceStatus` finds a path to it: a
reload never loses the status. `ImplementsSnipe` is the full refinement, initial state
included: each step of the race, of the release run and of the command is a `Create`,
`Announce` or `Move` of `Snipe`, or leaves row and log alone.
`NoEarlyPost` joins the two halves, and neither module can state it. `ReleaseInv` has
`RunInv` while `Run` is at work (the lemma of `Engine.Run` is reused there), says that a
race, and any POST, is only on a snipe that has left `submitted` and `scheduled`
(`Waiting`), and keeps `NeverEarly`, which says that such a snipe was not released
before its time. `NeverBack` takes from the refinement that no later step, a crash or a
re-invocation included, brings the row back to `Waiting`.

*Quests.* `KeysInv`: every row of `idempotency_keys` is the outcome of a call that has
ended, and a recorded request has a row. `RowInv` and `OutcomeInv`: a quest's row is that
of the create call of its number, and an outcome "ok" names such a row, whether the call
did the work or found the outcome recorded. `PriorInv` (what ended before a call
started stays ended) makes `RetryIsReplayed` and `KeyReuseRefused` inductive: a call that
starts after a recorded one finds its row in the lookup, so it never gets past it.

*Streams.* `Order` says of a connection that it is subscribed exactly from `Subscribe`
to the deferred cancel, may be in a snapshot until it has returned, and that while it
pumps its snapshot is younger than its subscription, which is younger than what it
told. Hence what was replayed is at most `since` and what flows is more, and an
emission that is on its way has neither been sent nor dropped. `Stream` says that the
flow and the buffer together are `Due`, in order. The snapshot has every connection
once (`WithoutRange`, `AppendRange`, `TailRange`): no event is sent twice.
For these proofs `NoEventLost` says "the set, in increasing order" where it said "the sorted
sequence of the set", and `Without` takes out one position instead of filtering; both mean
the same, and the provers cannot reason about the operator arguments of the originals.

*Daemon.* `OwnOf`: the lock names exactly the process that is between taking and
releasing it, and only that one has the database open, requests or a key; this alone gives
`OneOwner`. `KeyOf` follows the key through a rotation: the sealer has a key of `EnteredKeys`,
those of the operator's passphrase and of the `strays`, but for the time between the commit and the swap,
when it has the previous one; until the second swap it has the previous version. A rotation that
commits has opened every row, so all of them have the operator's new passphrase and
the strays are forgotten.
Since the owner is alone, the salt of a first boot meets no row and no key, and a
migration meets no rotation.

*Auth.* `CallerInv` says what a request past the middleware has; `ListInv` that a listing
shows its own user's accounts; `AuditInv` that the rows of the log are those of the
answered requests, each once. `WireAgrees` proves of the three tables of errors that, for each answer a verb can
give, the error that the client unpacks has the code that the audit row has.

*Resy client.* `KeyInv`: a key that a call presents is remembered and held by that
call alone. `BookInv`: a booking is the last request that its call sent, which is then
judged as accepted or as broken, so that no sentinel of a refusal follows it and no
second POST precedes it. `CallInv` describes the second attempt.

*Planning.* `Flow` and `Pinned`: a plan that is there is what `BuildPlan` made of the
goal of its round, a venue with a zone and a goal that `Validate` let pass, and the plan of a
quest was made at the instant of the `PlanQuest` inside `CreateQuest`, under a pinned hash with the hash of the
plan shown. From equal hashes `HashPins` gets equal goals but for the order of the tables,
hence the same intent, drop and slots. `KeysInv` carries this to a replay: a recorded quest is
the one of the call that recorded it, with that call's key, goal and time, and an ended call
does not change (`Settled`). `CacheInv`: a row of a cache holds what the service said at most
`RequestTime` before the row was written; with it `VenueRecent` is inductive. `WindowOpen` uses only that the calendar has
the day of every instant (`DayOf`): polling lasts until a second before
that day ends, and a probe window whose guess has passed is placed at now. `SlotsCover` needs no induction: the
model gives slot `i` by division, so `SlotsOf` places it in block `i \div m`, and the blocks
are counted (`TimesCounted`). Proving it showed that an earlier form of the property, which
counted times and tables as sets, is false when a table is named twice; the run did not
have such a goal then, and now does.

### Only model-checked

* Liveness (`RaceEnds`, `RunEnds`, `InvocationEnds`, `StreamEnds`, `ShutdownEnds`,
  `CallReturns`): the provers have no rules for fairness and `ENABLED`.
* The violations: a counterexample is TLC's to find.

## 5. Not modelled

Left out, and why:

* cryptography, SQL text, driver settings, JSON encodings, header layout: data that
  no property tells apart;
* `intent.go`, `quest_ops.go`, rendering, logging, the notifier: flag handling and
  printing, nothing that changes state;
* `GetQuest`, `ListQuests` with its cursors, `ListSnipesByStatus`, `ListEvents`,
  audit listing: reads;
* `ComputeDrop`, `DiscoveredProbeWindow`, `PruneExpiredIdempotency`, `UpdateSnipe`: no
  caller outside tests;
* configuration files and passphrase sources: `Daemon` keeps which passphrase they
  give, if any, and which mode they select;
* the ranking of slots by preference: the race sees ranks.
