# UsageWidget in TLA+

These modules specify UsageWidget: how the server `usagewidgetd` polls, what it
stores and alerts, how alerts and widget refreshes reach a phone, how settings
change, and how the iOS app and its widget share a connection. TLC checks them on
small instances, and TLAPS proves the safety properties for all instances.
`PROJECT.json` maps every definition to the lines it models, and lists the runs, the
hazards of the code and the properties that cover each.

## The system

| Component | State | Operations | Where |
|---|---|---|---|
| Scheduler and manual polls | `Poller.inFlight`, `API.manualPoll`, `lastManualPoll` and its time | `Run`, `PollNow`, `handleForcePoll`, shutdown | `poller.go`, `api.go`, `cmd/usagewidgetd` |
| Poll cycle | tables `snapshots`, `poll_runs`; health counters | fetch, normalize, merge, compare, save, engine, dispatch, record | `poller.go`, `store.go`, `api.go` |
| Sources, normalizer, plan filter | none | answers of plugins and of Devin to one body; body to providers and windows | `limits.go`, `normalize.go`, `crossusage.go`, `devin.go`, `plan_filter.go` |
| Forecasts | table `window_samples` | insert, regress, annotate, cap, prune, with the snapshot's transaction | `forecast.go`, `projection.go`, `store.go` |
| Event engine | tables `window_state`, `events` | `ProcessDetailed`: detect, claim, move the baseline, queue | `events.go`, `store.go` |
| Alert outbox | tables `pending_alerts`, `alert_delivery_state` | queue, expire, read a batch, acknowledge, refuse, defer | `store.go`, `poller.go` |
| Device registrations | table `devices` with tokens and a generation | `POST` and `DELETE /v1/devices` | `api.go`, `store.go` |
| Settings | tables `settings`, `alert_rules` | `GET` and `PUT /v1/settings`, sanitizing on every read | `api.go`, `store.go`, `plan_filter.go` |
| Widget refresh | widget tokens, a time budget | push after a changed snapshot | `poller.go` |
| Readiness | test time per device, `device_test_results` | checks, test alert | `api.go` |
| APNs client | cached provider token | send, renew once when refused | `apns.go` |
| iOS app | connection generation, what is shown, caches per connection, Keychain pair, pending widget token | refresh, connect, settings, poll, test, register; widget load and save | `ios/Sources` |

A poll runs in a goroutine of its own. `Run`, its retry and the goroutine of a
manual poll share it through `PollNow`. It merges what the upstream reports with
the stored snapshot, stores the result with its forecasts in one transaction, and
hands it to the engine, which in another transaction compares it with the saved
baselines and queues alerts in the outbox; then it dispatches a batch of the outbox
to APNs, and refreshes widgets if the snapshot changed. HTTP handlers change devices
and settings at any moment. On SIGTERM the process ends while a poll may be
anywhere. The app and its widget extension are two processes with a common Keychain
item; the app's calls interleave at every `await`.

### What is hard, and what correct means

* **Outbox.** The batch is read, then requests run for up to minutes, and then
  rows are deleted, in separate transactions; registrations change in between.
  No alert may be lost to a late answer, no live token cleared, no cadence left
  to a phone that was registered again; duplicates need an excuse; failing
  rows must not starve others.
* **Engine.** Dozens of statements, each of which can fail, must amount to one
  observation; keys must be claimed once per cycle, and credits re-armed.
* **Scheduling.** One poll at a time, no stale answers, nobody waits for ever,
  and shutdown ends even if a poll hangs.
* **Poll cycle.** Many error paths, each leaving some of the work done. Only what was
  reported may look current, and for how long after a failure; nothing useful may be
  wiped, a change must reach the widgets or its loss be accounted for, and health
  must tell the truth across restarts.
* **Settings.** Key-by-key writes, and a read that writes back.
* **Deliveries.** Several senders drop one cached provider token; a refused device
  token may have been replaced meanwhile; a slow phone uses up the time of others.
* **Forecasts.** A straight line through samples of mixed cycles, gaps and falls.
* **App.** Answers of an earlier connection, two processes that migrate the same
  Keychain items, a widget token replaced during a registration.

## The modules

| Module | What it is |
|---|---|
| `AlertOutbox` | the outbox, the registrations and the dispatch loop, one step per SQLite transaction and per APNs answer |
| `AlertTurns` | the steps of `AlertOutbox` with a history of whose turn it was |
| `AlertRules` | pure: windows, baselines, event keys, `detectWindowEvents` |
| `AlertTransitions` | abstract: one step observes one whole report |
| `EventEngine` | detailed: the transaction of `ProcessDetailed`, one step per window, credits entry and queued alert; implements `AlertTransitions` |
| `PollFlight` | `Run`, `PollNow`, `handleForcePoll` and shutdown, one step per mutex section or `select` |
| `UsageReport` | pure: from the upstream's answer to the providers of a snapshot |
| `PollCycle` | `pollOnceUnlocked`, one step per statement, with restarts; composes `UsageReport` with the stored snapshot |
| `Forecasts` | `SaveSnapshotWithForecasts`, one step per window |
| `SettingsStore` | the settings handlers and the poller's load, one step per SQL statement |
| `Deliveries` | widget refreshes, readiness tests and the provider token |
| `AppConnection` | `AppModel`, the Keychain and the widget extension, one step per `await` and Keychain operation |
| `MC*` | values of the constants for TLC |
| `AlertOutboxProofs`, `EventEngineProofs`, `PollFlightProofs`, `DeliveriesProofs`, `AppConnectionProofs`, `SettingsStoreProofs`, `PollCycleProofs`, `ForecastsProofs` | theorems |

### AlertOutbox

`pending` and `before` are the table `pending_alerts`: its rows and the order of
their rowids, kept as a relation because `deferAlerts` gives rows new rowids and
only their order matters. `generation` and `apnsToken` are the table `devices`;
generations come from a counter, since random 16-byte values are taken to differ.
`cadence` is `alert_delivery_state`, where `recent` means that the repeat interval
still runs. `aged` and `lapsed` replace the clock: `expireOldAlerts` deletes exactly
the rows past 24 hours or past their reset time. `pc`, `batch`, `cur`, `deferred`,
`seenToken` and `seenGen` are the local variables of `dispatch`.

| Action | Code |
|---|---|
| `Upsert`, `DeleteDevice` | `POST`, `DELETE /v1/devices` |
| `Process` | the transaction of `ProcessDetailed` as far as the outbox goes: expiry, obsolete threshold alerts, new rows, reminders that are due |
| `PendingAlerts` | the expiry and the batch query (two statements taken as one step; what could come between is also possible before or after) |
| `Discard`, `Postpone`, `SendAlert` | the outcomes of the settings check and `validateQueuedAlert` |
| `Accept`, `AcceptUnheard`, `SendFails`, `Terminal` | what APNs does and what `SendAlert` returns |
| `CompleteAlert`, `RejectAlert`, `DeferAlerts` | the transactions of the same names |
| `SkipDispatch`, `...Fails`, `Crash` | early returns, failed writes (there is no busy timeout), the end of the process |

`deadTokens`, `accepted`, `delivered` and `excused` are history that no guard of the
code's actions reads, except that APNs takes nothing for a dead token.
Which events a poll emits, which queued ones it finds obsolete, and what settings
and snapshot say of a row at dispatch are chosen freely. So a model behaviour
includes every behaviour of the code; `Emittable` states the facts about event keys
that the engine guarantees and the outbox relies on: one alert of a danger period, and
no key of a queued threshold alert or reminder.

`AlertTurns` adds the history `passed` to these steps: `<<r, s>>` is in it while `r`, which
could have been sent ever since, waits for a turn, and `s` has had one and was moved
back. A row has its turn when the loop of `dispatch` comes to it (`Turn`).

### AlertRules, AlertTransitions, EventEngine

Instants are numbers of ticks with `TicksPerSecond` ticks to the second, because
`setWindowState` and `eventKey` drop the fraction that a report keeps. Percentages
are natural numbers: the rules only compare them. `db` is what is committed, `tx`
what the open transaction sees, `todo` and `emitted` the loop of `processDetailed`
and its result. The order of the providers and windows in the loop is left open,
except that a provider's credits come after its window. One window per provider
suffices: no statement relates two windows. `Rollback` is an error of any statement
or a kill at any point.

`queued` and `requeued` are history: the keys handed to `enqueueAlert`, and those
handed over more than once. `Transitions == INSTANCE AlertTransitions` reads the
committed baselines, claims and queued keys, and `ObservesAtOnce` says that the
engine implements `AlertTransitions`: all steps but a commit are stutters.

### PollFlight

`inFlight` and `stage` are the flight and its `done` channels, `sched` and `joined` the
goroutine of `Run`, `manualPoll`, `lastManual`, `recent` and `helper` the fields and the
goroutine of `handleForcePoll`, `asked` the requests. `pollCall` objects come from a
finite set and are used again when nothing refers to them, so behaviours are
endless without a bound. `select` with two ready cases takes either.

### UsageReport and PollCycle

`UsageReport` is a function of its arguments throughout: `UsedPercent` and `Windows` for
one provider, `Merge` and `CollectByID` for the plugins that are asked one after the
other, `AttachDevin` for the collector with its own key, `Normalized` and `Project`
for catalog and aliases. Go walks maps in random order, so `Normalized`,
`CollectByID` and `Fetched` return the set of possible results. Percentages are whole,
a window length is in seconds, titles and names are left out.

In `PollCycle`, `place` is the statement that comes next and `poll` what the poll knows
so far; `snapshot` and `outcomes` are rows, `health` is memory. Polls are numbered, and
the number is their time. `Fetch` fails when no body comes out; `MarkStale`,
`Normalize`, `Preserve`, `Compare`, `Save`, `Engine`, `Dispatch`, `SaveOutcome` and `Record`
follow the code, each with its failing twin where the code handles one:
`PreserveFails` goes on without the earlier windows, `CompareFails` takes the snapshot
for changed, `EngineFails` ends in success without a dispatch. `DispatchEnds` is every
early return of `dispatch` (APNs disabled, or its devices, queue, settings or snapshot
cannot be read), `Dispatch` the way through to the widget refreshes; what
`RecordWidgetDelivery` keeps of either is `delivery`. Only a poll that fails to fetch
marks the snapshot: one that fails otherwise leaves it as it is. `Restart` replays the
stored outcomes as `NewAPI` does, may find APNs configured otherwise, and forgets
`delivery`. `Served` is `handleGetSnapshot`. `basis` (the last report saved, unless a later
fetch failed and was marked), `runs`, `boot` and `push` (what became of the push for the
data saved last) are history. Engine and dispatch have modules of their own;
`PollFlight` shows that polls do not overlap.

### Forecasts

Time is in ticks and usage in whole percent; slopes and estimates are ratios of
integers, compared by cross-multiplication, so that the regression is exact. The
samples are a set of rows: the code's queries sort by `sampled_at`, no window has two
samples of one time, and `Oldest`, `Newest` and `Latest` (what `ORDER BY .. LIMIT` keeps)
say what is needed of the order.
`Begin` opens the transaction on a merged report, `SaveWindow` is everything about one
window (sample, pace, history, preference, cap), `Commit` prunes and stores, `Rollback`
is any failing statement. `observed` is history.

### SettingsStore

`stored` is both tables as one function of the keys; `at[h]` is the statement that
handler `h` runs next, for a PUT key by key in the order of the code, then as for a
GET: read the keys, read the overrides, write the two lists back if sanitizing
changed them. The poller is a handler whose request is empty. `lastPut`, `raced` and
`overwritten` are history: only what somebody else has put under a key of a request
takes that key out of what its answer must show.

### Deliveries

`push[s]` is the push that a sender has under way, with the provider token of its
first request and of its present one; `Obtain`, `Invalidate` and `SendAgain` are
`providerToken`, `invalidateProviderToken` and the second attempt of `push`. `batch` is the
tail of `dispatch`: the devices as it read them before the alerts, the time left and
the share of the present device. `test[h]` is a readiness test, and `results[d]` the
generation that device `d` had when its row of `device_test_results` was saved. Alerts themselves
are in `AlertOutbox`; here they only use up time. Widget tokens may be cleared and
replaced at any time, and APNs may declare any of them dead.

### AppConnection

A connection (a URL with its token) is a model value, and everything the app shows or
saves is told apart by the connection it was fetched with: a value that does not
belong is one of another server. `calls` are the methods of `AppModel` in flight, with
the generation they started under and what their callers do after them; the main
actor is left at an `await` only, and waits for the Keychain (`Busy`). `keychain[p]` is the
Keychain call of a process; each of its operations is one step, because the widget
extension runs at the same time. `pending`, `issued` and `registered` follow the widget
token from iOS to a server.

## What is checked

All constants are small; the bounds are those of the run's `.cfg`.

| Run | Instance | Shows |
|---|---|---|
| `outbox_registrations` | 1 phone, 2 tokens, 2 reminders of 1 period, batch of 1, 4 registrations | `NoOrphans`, `CadenceTruthful`, `OneReminderPerPeriod`, `DuplicatesExplained`, `LossJustified`, `LiveTokenKept` |
| `outbox_queue` | 1 phone, 3 events, batch of 2, 1 registration, fair | `TurnsInOrder`, `NoStarvation` |
| `engine_windows` | 1 window, half seconds, 3 usages, 2 reset times or none, 5 settings | `TypeOK`, `AtMostOncePerCycle`, `TransitionsHeard`, `ObservesAtOnce` |
| `engine_credits` | 2 providers, counts 0 to 2 or none | `ClaimedWasQueued`, `RisesArmed` |
| `polls` | 2 flights, 2 manual calls, 2 clients, fair | `TypeOK`, `OnePollAtATime`, `AnswersAreCurrent`, `ReuseIsRecent`, `EveryRequestAnswered`, `PollingGoesOn`, `ShutdownEnds` |
| `poll_cycle` | 4 polls of 5 possible answers, 3 providers with aliases, with and without APNs, 2 faults, 2 outcome rows | `CurrentWasReported`, `UsefulWindowsKept`, `HealthTrue`, `PushAccounted` |
| `forecasts` | 2 windows, 5 reports, quarters of an hour up to 7, 3 samples kept | `HistoryIsThisCycle`, `ForecastsAgree`, `SamplesFromSnapshots` |
| `settings` | 2 handlers, 8 requests (5 of them valid), 2 tables to start from, 1 fault, a day of 6 minutes, fair | `LatestPutKept`, `AnswerShowsPut`, `QuietHoursAreTheSpan`, `ListsSettle` |
| `deliveries` | 2 phones, 2 widget tokens, 1 tester, 2 provider tokens, 2 changes, 1 fault | `SecondTokenIsNew`, `RefreshesGetTheirTime`, `ResultsOfRegistration`, `LiveWidgetTokenKept` |
| `app_connection` | 2 servers, 2 calls, 2 attempts to connect, 1 widget token, 1 fault, symmetric in the calls | `ShownIsOfConnection`, `LoadsFindCredentials`, `OnlyUsersReplace`, `DroppedTokenArrived` |

Why these bounds are enough to be interesting:

* Outbox: four registrations let a phone register, rotate, leave and return; two
  reminders of a period are what a second one needs; a batch smaller than the queue
  makes rotation matter; there is no bound on the dispatches.
* Engine: reset times 3 and 6 with polls at 1 and 4, two ticks to the second, cover a
  reset ahead, a reset passed, and one with a fraction; usages 0, 80 and 90 cover both
  thresholds and a surprise reset.
* Polls: one flight at work and one whose result is still waited for; one manual call
  at work and one that is remembered; two requests that coalesce or follow each
  other. Objects are used again, so there is no bound on the length of a behaviour.
* Poll cycle: four polls and an interval of five minutes go past the time after which
  a snapshot is stale on its age alone (two intervals); two outcome rows are fewer
  than the polls, so restarts lose some; the answers include an error beside windows,
  a provider that is absent, aliases of one provider that disagree in one answer, a stale empty
  provider, junk, no answer and a binary that answers for single plugins only. An
  answer that comes twice leaves the data as it is, or other by its forecasts only. Two
  faults are a failure and a kill.
* Forecasts: three samples over half an hour are what a forecast needs, the fourth is
  one more than is kept; usage rises, falls, fills up and changes its cycle; horizon
  and retention lie within the seven ticks.
* Settings: `PUT` against `PUT`, `PUT` against the write-back of a load, a kill or failure
  after each statement; lists with aliases, unknown ids and repetitions.
* Deliveries: a second phone, so that time is shared; two provider tokens are the two
  of one push; a change of registration before and during a push.
* App: two calls in flight and two switches; the old pair, the old items and half of
  them, with and without a mirror; a kill or a failing operation anywhere.

`CHECK_DEADLOCK FALSE` is set where the model ends: the process of `PollFlight` exits,
and the bounds stop the last behaviours of `PollCycle`, `Forecasts`, `Deliveries` and
`AppConnection`.

### Fairness

* `NoStarvation`: the poller keeps going (`WF(Poller)`: `Run` polls until shutdown,
  and every request has a deadline). Faults stop at some time: nothing is delivered
  by a server that is killed at each attempt. The dispatch deadline may cut
  batches short, but not before the same alert for ever (`SF(Heed(r))`): the code
  alone does not promise more, since deferral needs the row to be looked at.
* `ShutdownEnds`: only `Run` and `main` are assumed to move (`MainRuns`, the fairness of
  `FairSpec`); polls may hang. Strong fairness of `RunStops` says that `select` does not
  prefer a timer for ever.
* `EveryRequestAnswered`, `PollingGoesOn`: stated under the premises `PollsEnd` (a poll ends
  within its two-minute timeout) and, for requests, `RequestsRun` (goroutines that can
  run do), so that one run checks them beside `ShutdownEnds`.
* `ListsSettle`: a handler that has begun goes on, and the poller loads the settings at
  every cycle; faults are bounded, as above.

### Where the code does not do what it says

| Run | Property | What happens |
|---|---|---|
| `false_reset` | `AlertsAreTransitions` | The saved reset time has lost its fraction, so an unchanged report differs from its own baseline once the whole second is over, and "Limit reset" is sent. With whole-second reset times the property holds. |
| `clockless_cycle` | `ClocklessCyclesAlertAgain` | A window without a reset time has the constant `epoch` in its keys, and keys are never deleted: it is announced once for ever. |

### What the models show beside that

These are behaviours a reader of the code should know of. The properties state
exactly how far the promise goes, and hold.

* A repeated tap within ten seconds gets the last manual result, even when a
  scheduled poll has published a newer one.
* The alert for a count of credits whose 24 hours are over may be queued anew, under its
  key and at the back, by the poll that expires it, when the count fell and rose again.
  `NoStarvation` follows an alert until its time is over.
* `loadSettings` may write a list back that a `PUT` has replaced since it was read.
  `LatestPutKept` says that this takes a list left unclean by an earlier version (or
  alias) and a `PUT` between the read and the write; `ListsSettle` that it ends.
* A `PUT` that fails halfway leaves the keys written so far. `AnswerShowsPut` says that
  one answered 200 has taken effect.
* A report that lists a provider as stale, without windows and without an error,
  replaces the provider's last useful windows (`Emptied`); so does a failing read of
  the stored snapshot. `docs/TECHNICAL_BRIEF.md` promises retention for failures.
* The stored providers carry forecasts and the new ones do not yet when they are
  compared, so nearly every poll of a window with a reset time counts as changed, and
  widgets are pushed. `PushAccounted` checks the direction that matters.
* A saved change is not pushed to widgets, by this poll or a later one, when the
  engine's transaction fails, the process is killed, or `dispatch` returns early.
  `PushAccounted` says that nothing else loses a push, and that an early return shows in
  the health of the last delivery; the other two do not show there.
* `docs/TECHNICAL_BRIEF.md:113` says "A failed poll does not silently look current." That
  is so where the fetch fails (`markStale`, poller.go:180). A poll that fails on a body
  `Normalize` rejects, on its settings or on the save leaves the stored snapshot as it is
  (poller.go:170-199): `GET /v1/snapshot` goes on showing the data of an earlier poll as
  current, for up to two intervals. `CurrentWasReported` is about the last report that
  was saved, and bounds that time.
* `SaveDeviceTestResult` compares the device id only. When a phone leaves and registers
  again in the course of a readiness test, the result of the test that began with the
  earlier registration is saved for the new one. `ResultsOfRegistration` speaks of the
  registration that was there at the save: a result does not outlive it.
* Where `deferAlerts` fails, nothing is moved back, and the same alerts have the next
  turn as well. `TurnsInOrder` is about deferrals that were saved.
* The README says a forecast needs three samples; that is true of forecasts from
  history, while those from the pace are there at once.
* When two names of one provider are in a report, one stale and one current, the
  stale one may win: `normalizeLimitsV1` walks a map in random order
  (`limits.go:205-215`). `CurrentWasReported` leaves open which of the
  two is shown.
* Three faults can bring an old connection back. The save of mirrored credentials at
  a launch fails, so the mirror stays; the user connects to another server, and the
  app is killed after the pair is saved and before the mirror is cleared; the load
  at the next launch fails, which `try?` in `AppModel.init` takes for nothing stored,
  and the mirrored pair is saved over the new one. `OnlyUsersReplace` names this one
  case. The proof found it: the run has a single fault.
* A widget token that the extension stores during a registration is wiped by its
  end. `DroppedTokenArrived` promises some token at the server, not the latest.

## What is proved

The theorems hold for all values of the constants that the assumptions of the
modules allow: any devices, tokens, events, batch size, providers, readings,
callers, servers, requests, lists, reports and bounds. The assumptions say that
`None` is none of the other values, and beside that

* `OutboxAssumption`, `RulesAssumption`, `InputsAssumption`, `FlightAssumption`: the shape
  of events, readings and settings, and finitely many devices and events for the
  outbox, whose batches count rows;
* `DeliveryAssumption`: finitely many devices, a budget that is not zero;
* `SettingsAssumption`: ids of the catalog are their own canonical ids, lists consist
  of ids that `Canonical` knows, the table to start from has valid quiet hours (the
  default has, and validation keeps them so);
* `ReportAssumption`, `CycleAssumption`: `DefaultOrder` names each provider once, and a
  report has finitely many resources;
* `ForecastAssumption`: time passes between two polls, and the horizon of a forecast
  (24 hours) is no longer than the retention of samples (7 days).

* `AlertOutboxProofs`: `TypeCorrect`, `TurnsCorrect`, `NoOrphansCorrect`, `CadenceCorrect`,
  `OneReminderCorrect`, `DuplicatesCorrect`, `LossCorrect`, `LiveTokenCorrect`. `TurnsCorrect`
  rests on `TurnInv`: who waits is ahead of who passed it in the table, is in the batch
  if that one is, and has not been put aside in this dispatch. That a batch takes who
  is ahead too needs the rowid order to be transitive (the lemma `OrderStep`) and counts
  finitely many rows. The properties about answers need `InFlight`:
  generations seen are not newer than the counter, so a device registered anew has
  one that no answer in flight carries; an accepted row is on record; a refusal is
  about a dead token.
* `EventEngineProofs`: `EngineTypeCorrect`, `ClaimsCorrect`, `OncePerCycleCorrect`,
  `RisesCorrect`. They need `InTransaction`: what `Accounted` says of the committed
  database holds of the open transaction too, when the events emitted and not yet
  queued are counted in. Then `EngineImplementsTransitions` and `TransitionsHeardCorrect`:
  `Progress` says what the open transaction amounts to in terms of the abstract
  step, as a union over the items already processed; a commit finds them all
  processed. The crux is that re-arming credits in the middle of the transaction
  deletes the same keys as doing it at the end, which rests on `RisesArmed`.
* `PollFlightProofs`: `FlightTypeCorrect`, `OnePollCorrect`, `AnswersCorrect`, `ReuseCorrect`,
  with `ManualAtWork`: a helper is under way exactly if it is that of the call in
  `API.manualPoll`.
* `DeliveriesProofs`: `DeliveryCorrect`, `DeliveryTypeCorrect`, `SecondTokenCorrect`,
  `RefreshTimeCorrect`, `ResultsCorrect`, `LiveWidgetCorrect`. Provider tokens are numbered
  as they are built; `PushesInOrder` says that a push in flight has none that is not
  built yet, and that what it was refused with is older than what it obtains next.
  `PushesBelong` ties each push to the dispatch or test that waits for it, so what is
  cleared is the token that was refused. The fair part is integer division: after
  each device at least n-1 shares are left for the n-1 others.
* `AppConnectionProofs`: `AppCorrect`, `AppTypeCorrect`, `ShownCorrect`, `LoadsCorrect`,
  `ReplaceCorrect`, `DroppedTokenCorrect`. `CallsOfConnection`: a call that carries the
  present generation was begun with the present credentials. `KeychainInOrder`: the
  old items go one after the other and not before the pair is there, so a load that
  finds half of them finds the pair when it looks again. `SavesAreKnown`: who saves
  what, which is where the exception of `OnlyUsersReplace` comes from.
* `SettingsStoreProofs`: `SettingsCorrect`, `SettingsTypeCorrect`, `LatestPutCorrect`,
  `AnswerCorrect`, `QuietCorrect`, and `SanitizeSettles`: `sanitizeProviderIDs` is
  idempotent on every list. That is what makes a write-back harmless, since it writes
  what any later read would make of the list anyway. `WriteBacksKnown` and `PutsKept`
  carry the two promises through the statements of a handler. `QuietCorrect` is
  arithmetic modulo the length of the day.
* `PollCycleProofs`: `CycleCorrect`, `CycleTypeCorrect`, `CurrentCorrect`, `HealthCorrect`,
  `PushCorrect`, `WindowsCorrect`. Health rests on `RunsInOrder` and `OutcomesKept`: the
  rows kept are the latest of those saved, so that replaying them gives the counters
  of the polls that are remembered (`ReplayOK`, `PrunedOK`). What looks current rests on
  `DraftTrue` and `SnapshotTrue`, which follow a report through normalization, merge
  and save as `Reflects`; the lemmas `NormalizedOK`, `ProjectOK`, `PreservedOK` and `ServedOK`
  say what these functions make of any report. `PushOwed`: data that differs from what
  was stored was found changed, and the dispatch lies ahead, or what the push was
  lost to is known.

* `ForecastsProofs`: `ForecastCorrect`, `ForecastTypeCorrect`, `HistoryCorrect`, `AgreeCorrect`,
  `SamplesCorrect`. `SamplesKept`: the table holds for each window the latest of all
  samples that were ever observed, as far as the last commit has not pruned them;
  capping and pruning keep it so, since both keep with a sample all later ones
  (`LatestOfUpper`, `CapOK`), and take nothing that the next forecast looks at
  (`CycleOK`, which needs the horizon to be within the retention). `InTransaction` says
  what the open transaction amounts to. The code refuses a line that does not rise;
  `HistoryIsThisCycle` does not speak of lines. `LineRises` closes the gap: usage that
  does not fall and gains a point has a line that rises, because the numerator of
  least squares is a sum of products of differences (`CrossPositive`), so that a
  forecast is never missing where the samples support one.

Some of these invariants TLC had accepted on an instance and the proof did not: the
exception in `OnlyUsersReplace`, the stale alias in `CurrentWasReported`, and a step of
`SettingsStore` where a handler's own write-back excused it from showing its own `PUT`.
The modules state them as they are now proved.

Sums, sequences built step by step and the like are recursive functions. Facts about
them for every argument (`InSequenceOK`, `ReplayOK`, `SanitizeSettles`, `SumOK`) are proved without
an induction theorem: there would be a least argument that fails (`WFMin` with
`NatLessThanWellFounded`), and there is none.

Only model-checked: the liveness properties (`NoStarvation`, `EveryRequestAnswered`,
`PollingGoesOn`, `ShutdownEnds`, `ListsSettle`), which need fairness and ENABLED.

Assumed of the environment: an SQLite transaction is atomic and durable; writers
exclude each other (the engine's transaction begins with a write); random
generations differ; APNs accepts nothing for a token it has declared dead; a
Keychain operation is atomic.

## Not modelled

* Parsing, formatting, HTTP, authentication, signing and presentation, and the
  configuration and installation tools: no state of their own.
* The workers for the site and for app review: they keep no state.
* Schema migrations: one transaction when the store is opened, before anything else
  runs.
* `GET /v1/readiness`: a list computed from what other modules hold.
* The contents of settings and of edits in the app. Each edit sends the whole
  settings in a task of its own, so two may arrive in the other order; the model
  tells what is shown apart by its server only.
* The engine and the outbox are not composed in one module: the outbox takes any
  events that satisfy `Emittable`, which includes those of the engine.

## What comes next

1. The engine and the outbox in one behaviour: that the events of `EventEngine` satisfy
   `Emittable`. For the keys of thresholds `AtMostOncePerCycle` says so already; the
   reminders, which `EventEngine` leaves to the outbox, have to go into its loop first.
2. The hazards of `PROJECT.json` that no property covers yet: what `dispatch` validates
   alerts against, and the order of two edits in the app.
