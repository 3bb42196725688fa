# A verification project for crypto_portfolio

TLA+ modules that model the parts of the backend whose correctness depends on
order, concurrency, crashes and time; TLC configurations that check them on
small instances; and TLAPS proofs of the results that hold for every instance.
The repository's code is the reference. Paths below are relative to
`src/backend/app` unless they start with `src/`.

Run the tools in this directory: `tlc -config PipelineEdits.cfg MCAlertPipeline.tla`,
`tlapm OutboxProofs.tla`. `PROJECT.json` lists every run, the hazards behind
them, a mutation of the code that each property catches, the lines each
definition models, and the theorems.

## 1. The system

| Part | State it keeps | Operations | How it meets the others |
|---|---|---|---|
| Alert engine, `services/alert_engine.py` | none (pure) | `should_fire`, `holds_now`, `is_cooling`, `in_quiet_hours`, `dedupe_bucket` | called by the pipeline |
| Alert pipeline, `workers/tasks.py`, `services/alerts.py`, `services/cache.py`, `api/v1/alerts.py`, `bot/handlers.py` | redis `price:{coin}`, `hist:{coin}`; tables `alerts`, `alert_events` | poll, daily sync, evaluate, reactivate; create and arm, PATCH, mute, delete | several processes (worker, API, bot, one-shot commands) share redis and postgres; no lock of the program's own |
| Outbox dispatch, `workers/tasks.py`, `services/email.py`, `services/telegram.py` | `alert_events.delivery_state`, `email_outbox` | claim, send, retry, give up, prune | reads what the pipeline and the accounts enqueue; calls telegram and SMTP |
| Sessions and accounts, `services/auth.py`, `api/v1/auth.py`, `core/` | `users`, `refresh_tokens`, `email_tokens` | register, login, rotate, log out, verify, reset | enqueues e-mail; every request asks `current_user` |
| Client session, `src/frontend/src/api/client.ts`, `stores/auth.ts`, `router.ts` | the cookie, shared by the tabs; per tab the access token and the user | restore on load, refresh on 401 and retry, log in and out | calls the API |
| Rate limiting, `services/ratelimit.py` | redis counters | `enforce` | guards login, resend and forgot-password |
| Telegram linking, `services/telegram.py`, `bot/handlers.py` | `telegram_link_tokens`, `users.telegram_chat_id` | issue, consume (which may move a chat), unlink | changes where the outbox delivers |
| Market data, `services/market.py`, `price_source/coingecko.py` | `coins`, `price_snapshots`, `ohlc_candles`, page cache | poll, sync, aggregate, backfill, prune | feeds the pipeline; asks what portfolios and alerts refer to |
| Portfolio, `services/portfolio.py` | `portfolios`, `holdings` | add, edit, delete, value | keeps coins priced; read when an alert message is rendered |
| Live price stream, `api/v1/market.py`, `stores/market.ts` | pub/sub, no history | publish, forward, merge | from the poll to the browser |
| Health, bot commands, schema, views, operations | heartbeats; none; tables; none; none | | |

What is hard here, and the properties that make each part correct:

* **Alert pipeline.** A poll writes redis in two commands, then reads it back in
  two more while other jobs and requests write; alerts are read, compared for a
  while and written back; the row and its event commit together, but in one
  transaction for all users; a request arms an alert after committing it.
  Correct means: one event for each entry into the target zone and never a
  second one for the same sample; never a parked alert without its event; a
  cooldown is a cooldown and ends; what the user says last counts.
* **Outbox.** Overlapping dispatchers, a batch committed at its end, services
  that take a message and do not answer, a worker that dies in between, users
  who link and unlink their chat. Correct means: nothing is lost, nothing is
  given up too soon, nobody gets two copies unless an answer or a worker was lost.
* **Sessions.** Rotation, one-time tokens and password reset check a row and
  write it without a lock; requests die between two awaits. Correct means: no
  token is used twice unless two requests read it at once, nothing gives a token
  a second life, a reset ends the sessions that were there, a session is only
  for a verified address.
* **Client session.** Parallel calls all find their access token expired, each
  rotates the same cookie, and answers overtake each other or never come.
  Correct means: the cookie in the browser is never one the server has long
  replaced.
* **Rate limits.** A counter whose expiry is set in a second command. Correct
  means: a limit blocks for a window and no longer.
* **Linking.** A unique chat id that moves between two rows which other requests
  write too. Correct means: one account per chat, "connected" is true when the
  bot says so, nobody is disconnected by somebody else's failed attempt.
* **Market data.** Polls and syncs overlap, each in several transactions; the
  list of tracked coins, the coins users refer to, and what upstream returns
  differ. Correct means: a coin somebody refers to keeps its price, only a sync
  decides what is tracked; a candle holds what was aggregated into it, however
  aggregations overlap and whatever part of a bucket a window covers.
* **Portfolio.** A default portfolio made by registration and, failing that, by
  the first request; edits that load a row and write it later. Correct means:
  one holding per coin and user, and no edit undone by one of other columns.

`PROJECT.json` lists each of these at the line where it bites.

## 2. The modules

| Module | What it is |
|---|---|
| `AlertEngine` | `services/alert_engine.py`: every function as an operator over integers. A percentage is kept as numerator over its base, and the threshold is scaled by the base, which compares as the Decimal quotient does. |
| `ThresholdWatch`, `MCThresholdWatch` | The rule alone: one alert, armed on the first sample (`arm_alert`) and shown each later one (`evaluate_active_alerts`). No cooldown, no storage, no race. |
| `AlertPipeline`, `MCAlertPipeline` | The worker jobs and the API requests over one coin, interleaved at their awaits. |
| `AlertTimings`, `MCAlertTimings` | When an alert speaks: `AlertPipeline` with three history variables and the properties that need them. `MCAlertSpecs` has the alerts and edits of both instances. |
| `Outbox` | `dispatch_alerts` and `dispatch_emails` (`HasChats` tells them apart) with enqueueing, linking, pruning and crashes. |
| `Delivery` | What the outbox promises, abstractly: accepted, delivered any number of times while queued, confirmed only if delivered, given up, withdrawn. `Outbox` implements it. |
| `OneTimeToken` | What "single use" means where a token is read and marked used in separate statements: abstractly, readers that hold a token, uses, and whether two held it at once. `Accounts` (mailed links, refresh tokens) and `TelegramLink` implement it. |
| `Accounts`, `MCAccounts` | One e-mail address: the account, its mailed links, its refresh tokens, its rate limits. |
| `Browser`, `MCBrowser` | The tabs of one browser, composed with `Accounts`: a call to `/auth/refresh`, `/auth/login` or `/auth/logout` is the request of that name there. |
| `TelegramLink`, `MCTelegramLink` | Link tokens and chats of several accounts. |
| `Portfolio` | Portfolios and holdings, requests cut at their awaits. |
| `Market`, `MCMarket` | Polls and syncs, composed with `Portfolio`, whose holdings they read and whose coins they make. |
| `Candles`, `MCCandles` | Snapshots and candles of one coin and one interval. |
| `ThresholdWatchProofs`, `OutboxProofs`, `AlertPipelineProofs`, `OneTimeTokenProofs`, `TelegramLinkProofs`, `AccountsProofs`, `MarketProofs`, `CandlesProofs` | The theorems. `AccountsProofs` is about `Accounts` and `Browser`, `MarketProofs` about `Portfolio` and `Market`; `AccountsProofs` and `TelegramLinkProofs` carry `TokensAreUsedOnce` of `OneTimeTokenProofs` over to their tokens. |

### AlertPipeline and the code

`latest` and `history` are the two redis keys of the coin, `alerts` and `events`
the two tables. `job[j]` is what one worker job holds in memory: where it is
(`pc`), the time it took at its start (`now`), its session's copies of the alerts
(`seen`), what it read from redis, the alerts still to be looked at (`todo`), and
the events it has inserted and not committed (`ins`). `req[r]` is the same for a
request. Columns are written back the way SQLAlchemy does it: only those that
the session saw change, over whatever was committed meanwhile (`Merge`), and
`_reactivate_cooled` sees its own session's attributes for rows it had loaded
(`expire_on_commit=False`, `db/session.py:18`).

| Code | Actions |
|---|---|
| `market.poll_prices`, `sync_top_list`, `store_samples` | `Fetch`, `StoreLatest`, `StoreHistory` |
| `evaluate_active_alerts` | `EvalSelect`, `EvalReadLatest`, `EvalReadPrevious`, `EvalDecide` per alert, `EvalCommit` |
| `_reactivate_cooled` | `ReactSelect`, `ReactCommit` |
| `create_alert`, `arm_alert` | `CreateCount`, `CreateInsert`, `ArmRead`, `ArmRecord` |
| `update_alert`, the mute callback | `PatchLoad`, `PatchCommit` |
| `delete_alert` | `Delete` |
| `prune_old_data`, its delete from `alert_events` | `Prune` |
| worker or API process dies; arq's timeout | `Crash`, `ReqCrash` |
| postgres: unique key held by an open transaction, deadlock detection, foreign key | guards of `EvalDecide`, `ArmRecord`, `Delete`; `EvalDeadlockVictim` |

Choices a reader should know of:

* **One coin, one user.** Alerts of different coins and users meet only in the
  one transaction of an evaluation, and alerts of one coin share that already.
* **Time.** `Interval = 3` ticks between polls and `Slack = 1` tick for a job or
  a request: a job is cancelled after 120 s and a request takes seconds, against
  polls 5 minutes apart, so an activity never spans two polls, while any two
  activities may overlap. cron starts a job once per slot (`ran`): polls at the
  multiples of `Interval`, the daily sync at `SyncAt` and every `SyncInterval`
  after it (in the code at 00:05:00, five seconds before a poll). In
  PipelineRaces a job may be started by hand
  (the commands `poll` and `evaluate` of `workers/oneshot.py` in a row, or
  `evaluate` alone) at any time and overlap the cron job.
* **Old events.** `prune_old_data` deletes events older than 180 days
  (`EventRetention`) that are sent or dead, and leaves the alert its
  `last_triggered_at`. Whether an event has been sent is the business of `Outbox`,
  so `Prune` takes any set of old ones. `ParkedHasEvent` therefore speaks of
  alerts that fired within the retention.
* **History variables** (AlertTimings). `calm` is given up when a crash comes
  between the two redis commands of `store_samples`, when the sync is active at
  the same time as a poll or as a request that arms an alert, and when two evaluators are active.
  `edited` has the alerts for which an edit other than a mute was committed;
  `missed` those that existed when a sync stored a sample or a crash hit an
  evaluation, and those whose request died before arming them. Each of them stands
  for a case in which the code does not keep the property (section 5); none is
  read by an action.
* **End of time.** At `MaxTime` the clock stops and cron goes on without samples,
  so that liveness is not decided by the bound.
* **Epoch** is large enough that buckets computed with different cooldowns do not
  coincide, as they do not for real timestamps.
* **Row locks** that an evaluation takes on alerts it has flushed are not kept:
  a PATCH may commit between flush and commit in the model, where postgres would
  make it wait and then write over the evaluation. Either order of the two
  writes is possible for the last alert of a loop in the code as well.
* Left out: `User.is_active` (no code clears it) and `expires_at` (no code sets it).

### Outbox and the code

`row` is the table; a `worker` holds the rows it has claimed with
`FOR UPDATE SKIP LOCKED` (`batch`), those not tried yet (`todo`), the values
flushed but not committed (`value`), and the user as its session first loaded
them (`chat`). `next_retry_at` is kept as the number of turns of the hour until
it is reached, because quiet hours end on the hour; a retry delay, at most half
an hour, is over in the same hour or after its next turn, and the model takes
either. `inbox` counts the copies the recipient got and `lost` the ones the
database never learned of; both are observed, never read by an action's guard.
`Claim`, `NoChat`, `SendOk`, `SendFail`, `SendUnanswered`, `Commit` are the
steps of a dispatcher; `Enqueue`, `Relink`, `Remove` and `Crash` come from
outside it. A send that gets no answer may hang until its own timeout (20 s for
telegram); `hung` counts these, and once there are `Patience` of them arq may cancel the
run (`Cancel`, 120 s), as often as it likes: like a crash it loses what the run has not
committed, and unlike one it comes back with every batch the service hangs on.
`MaxLost` bounds the copies such runs may lose track of.

### Accounts, Browser and the code

`mail`, `session` and `counter` are the tables `email_tokens`, `refresh_tokens`
and the redis keys `rl:...`; `req[r]` is what one API request holds between two
awaits. A token row carries ghosts: which token it replaced (`from`), how many
resets had begun when it was issued (`since`), how often it was used, and
whether two requests read it at once (`shared`).

| Code | Actions |
|---|---|
| `enforce` | `Incr`, `SetExpiry`; the window `WindowEnds` |
| `register` (gate on: a mail; gate off: `issue_tokens` in a second transaction) | `Register`, `Issue` |
| `authenticate`, `resend_verification`, `request_password_reset` | `Incr` or `Ask`, `LookUp`, then `Issue` or `SendMail` |
| `verify_email`, `reset_password` | `ReadLink`, `VerifyCommit`; `ReadLink`, `ResetRevoke`, `ResetCommit` |
| `rotate_refresh`, `revoke_refresh` | `RotateRead`, `RotateCommit`; `Logout` |
| `restore`, `login`, `logout`, `send`, `refreshAccessToken` | `Boot`, `SignIn`, `SignOut`, `Send`; `RefreshArrives` .. `LogoutArrives` on the server's side; `Succeed`, `GetUnauthorized`, `GiveUp`, `TakeTokens`, `LoseSession`, `Leave` on the browser's |
| a process that dies; the network | `Crash`, `RefreshFails`; `Lose` |

An access token is named by the refresh token issued with it; a password by the
number of resets that preceded it. Several losses at once, and a reload in the
middle of a call, are a `Lose` and then a `Boot`.

### TelegramLink, Portfolio, Market, Candles and the code

| Code | Actions |
|---|---|
| `create_link_token` | `CreateLink` |
| `consume_link_token`, called by `/start <token>` | `ReadToken`, `ReadAccount`, `ReadOther`, then `LinkCommit`, or `LinkFails` when the unique index refuses it |
| `unlink` | `ReadUnlink`, `UnlinkCommit` |
| `default_portfolio_id`, `add_holding` | `FindPortfolio`, `LookUpCoin`, `AddHolding` |
| `update_holding`, `delete_holding` | `LoadHolding`, `PatchHolding`, `DeleteHolding` |
| `tracked_coin_ids`, `markets_by_ids` | `ReadTracked`, `ReadReferenced`, `PollAnswered` |
| `sync_top_list`, `_store_rows` | `StartSync`, `SyncAnswered`, `StoreRows`, `MarkTracked` |
| `_insert_snapshots` | `SyncStores`, `PollStores` |
| `aggregate_candles` | `ReadWindow`, `WriteCandles`: one `INSERT .. SELECT`, cut where it may wait for a row |
| `backfill_coin`, `prune_old_data` | `Backfill`, `Prune` |

Choices a reader should know of:

* **SQLAlchemy writes what changed.** `Written` (TelegramLink) and `Patched`
  (Portfolio) name only the columns whose value the session saw change, and
  leave the others as somebody else may have written them meanwhile.
* **The order of two UPDATEs.** A flush sorts the rows of a table by primary
  key. `telegram_chat_id` is unique and not deferrable, so a move succeeds when
  the account that loses the chat has the smaller id (`Refused`).
* **`torn` and `crossed`** (TelegramLink) remember that a row was written by a
  job that had read an older version; `raced` (Candles) the buckets written last
  by an aggregation that another one overtook; `stray` (Market) that a sync died
  between its two transactions. They are observed and never read by a guard.
* **Candles** has one interval. `Lookback` is three hours or two days,
  and the assumptions of the module keep the proportions of the code: samples
  outlive the look-back, candles outlive samples. `Slack` is the time from
  taking a sample to the end of the job, at most the 120 s after which arq
  cancels it; an aggregation of two days or three hours reaches far beyond.
* **Users are never deleted** by this code, so the cascades are left out.

## 3. The runs

Runs that pass:

| Run | Question | Bounds, and why they are enough |
|---|---|---|
| `threshold_rule` | Does arming plus crossing speak exactly once for each stay in the zone? | Five prices on both sides of and on the threshold, five samples, all kinds, a window of two samples: every entry, exit, re-entry and moving base occurs. 31 k states. |
| `alert_timing` | One worker with its daily sync, alerts created and armed at any moment, edits and a crash anywhere: is every entry reported, when does an alert that nobody edited speak, what does the dedupe key swallow, does a cooling alert sleep until it is due? | Two prices, one on each side of every threshold; three polls and a sync between them, longer than a cooldown; one PATCH, one crash. A second alert stays active, because the evaluator otherwise stops waking alerts (see `cooling_stuck`). States that are not calm are not continued (`MCCalm`): the properties are vacuous in all that follow. 1.06 M states. |
| `pipeline_races` | A cron poll, a manual poll and an arming request look at the same samples, with half-written redis and trimmed history, while an alert is deleted: is each sample reported once, and does every job end? | Two alerts, price or percentage, and two evaluators are the smallest cycle of waits; history that forgets within the run. 219 k states. |
| `pipeline_edits` | PATCH (status, threshold, one-shot flag), mute, delete, pruning and a crash between any two steps of an evaluation: do the two tables stay consistent, which writes may wake a paused alert, and does every cooling alert come back while some alert is active? | One edit, one delete and one crash, each anywhere; a repeating and a one-shot alert; history of four ticks, events that may be pruned after two; longer than one cooldown and the poll after it. 155 k states. |
| `outbox_delivery` | Who gets how many copies, when is a message given up, is each settled in the end, and is `Delivery` implemented? | Two rows in one batch or two, two dispatchers, one retry, a day of four hours with quiet hours 3 to 1 (they wrap midnight), one crash, cancellations after one hanging send. 111 k states. |
| `accounts` | Two requests of any kind overlap on one account: is a token used once, does a reset end what was there, are sessions for verified addresses only, does every rate limit end? | Two links and two refresh tokens, one of each able to expire, and two requests: any operation against any other, and one that comes after both. A limit of one. 881 k states. |
| `browser` | Parallel calls refresh, retry, reload, sign out and in: does the browser keep the cookie the server expects? | Two calls at once, three refresh tokens (two successive rotations, or a race and what follows it), one lost answer. 709 k states. Two tabs instead of one passed as well, with two tokens (252 k states), and with three when no cookie expires (6.6 M states). |
| `telegram_link` | Who has which chat, and was it told so? | Two accounts, two chats, two links, two jobs: moves in both orders of the ids, a link opened twice, a disconnect between any two reads. 120 k states. |
| `market` | Who decides what is tracked, is a holding single and are its edits kept? | Two coins and a top list of one, so that one of them is always demoted; pages of one row; two jobs and requests overlapping in any pairing, two columns of a holding. 223 k states. |
| `candles` | Does a candle hold what was aggregated into it, and close at its newest sample? | Buckets of two ticks and a look-back of two, so that windows cut buckets; two aggregations, three samples of two prices, four buckets, pruning of both tables. 334 k states. |

Two runs show the code departing from what the repository says (the findings of
`PROJECT.json`):

* `cooling_stuck`. With every alert cooling the evaluator returns
  at `services/alerts.py:297`, before it reactivates anything, so none ever wakes.
  `CoolingEndsBesideOthers`, in `pipeline_edits`, says that this is the only reason.
* `outbox_hangs`. A run commits once, after its last send (`workers/tasks.py:85`,
  `:104`). A batch has up to 50 rows, a send to telegram may hang for 20 s
  (`services/telegram.py:154`), and arq cancels the run at 120 s
  (`workers/settings.py:49`). While the service hangs on more of them than fit, no run commits:
  `attempts` stays as it was, no retry is ever scheduled, and the rows are
  claimed and sent again every half a minute, though a job "tries once, and
  writes down what happened" (`workers/tasks.py:3`). Three rows, no crash.
  `SettlesUnlessCancelled`, in `outbox_delivery`, says that this is the only
  reason too: a row settles unless runs are cancelled for ever.

Other departures are in section 5.

Deadlock checking is on in `outbox_delivery` and `outbox_hangs`, whose time goes round. In the
others a behaviour may end: clocks, samples, tokens and rows are bounded, and a
user may simply do nothing more.

### Fairness

`pipeline_races`, `pipeline_edits`, `cooling_stuck`: time passes, cron starts
polls and upstream answers them (with or without the coin), a job or request
that has begun goes on. arq's cron, asyncio and postgres's deadlock detection
give that. Steps of a user, prices and crashes are not fair. `outbox_delivery`,
`outbox_hangs`: time passes, cron starts a dispatcher whenever rows are due, a
run goes on until it commits or is cancelled. No service is assumed to answer: a
message whose every attempt fails settles as dead. Nothing is assumed about
cancellations: they may never come, or come whenever enough sends have hung. The
other modules state safety only and assume no fairness.

## 4. What is proved

For every value of the constants that satisfies the named assumptions. They say
what the constants are, and where they say more the code is why:

| Assumption | Beyond types, and that `None` is not one of the values |
|---|---|
| `NoneAssumption`, `LinkAssumption`, `PortfolioAssumption` | nothing |
| `WatchAssumption` | prices and thresholds of a watch are positive (`schemas`, and prices upstream) |
| `OutboxAssumption` | hours are hours, there is one attempt at least |
| `PipelineAssumption` | job kinds do not overlap, the clock starts before it ends, events are kept for longer than a request lasts |
| `AccountsAssumption` | a limit is at least one; the tables and the requests in flight are finite, so that successors and overlapping resets can be counted |
| `BrowserAssumption` | the browser starts with a session that was issued to it |
| `MarketAssumption` | the top list fits on one page of upstream (50 coins, 250 rows), coins are finite |
| `CandlesAssumption` | samples are kept for longer than an aggregation looks back, with the time a job may take; hourly candles for longer than samples (in the code 90 days, 3 hours or 2 days, and 2 years; daily candles stay); a backfilled candle holds its own open and close, as the minimum and maximum of its prices do |
| `ExtremesAssumption` | a set of prices has a least and a greatest one, as a finite set has |

* **ThresholdWatchProofs.** `PriceAlertsSpeakOnEntry`: a price alert speaks on
  exactly the samples that enter its zone. Its core is `CrossingIsEntering`:
  crossing is holding now and not before, by the order of the integers, which
  makes `holds_now` on the first sample and `should_fire` later the same notion.
  `PctAlertsSpeakOnEntry` is the same for percentages, where it needs
  the base to be as high as the one the sample before was compared with
  (`PctCrossingIsEntering`: then both percentages have one denominator, and
  compare as their numerators do). `AlertsFireOnlyInside` covers every kind
  without a condition. All are inductive with `TypeOK`, since `fired[i]` once
  written never changes.
* **OutboxProofs.** The inductive invariant `IInv` is `TypeOK`, `OneRunPerRow`
  (no row in two batches, every row of a batch undelivered), `TriedAreDecided`
  (a row a run has tried carries a decided value: sent, dead or failed),
  `AttemptsWithinPlan` (an undelivered row has at most `Retries` attempts),
  `SentWasDelivered` and `OneCopyUnlessLost`. The last needs the others: a
  commit may turn a row to sent only if this run alone held it, and a crash
  accounts for exactly the rows of its batch tried with success. From `IInv`
  follow `RunsAreApart`, `SentMeansDelivered`, `CopiesAreAccounted`,
  `GivesUpOnlyWhenExhausted` (an action property) and
  `OutboxImplementsDelivery`, where a commit maps to one `Settle` of the whole
  batch, an attempt to `Deliver` or a stutter, and everything else of a worker
  to a stutter. `WaitsOutTheQuiet` shows, for any quiet hours and any length of
  the day, that the loop of `_quiet_delay` ends and ends outside them
  (`SomeHourIsLoud`, `QuietDelayExists`).
* **AlertPipelineProofs**, in five parts.
  * `TypeCorrect`, with one lemma for what the steps of a job write and one for
    those of a request. `TypeOK` includes that an id is handed out once.
  * `ParkedAlertsHaveEvents` and `NoOrphanEvents`. The inductive invariant `EInv`
    adds to `TypeOK` that a job holds uncommitted events only while it decides,
    stamped with its own time and about rows that exist (`JobsSound`); that an
    alert about to be inserted has not fired (`ReqsSound`); and `TablesSound`,
    the two facts wanted. It is needed because a commit copies what the job's
    memory says into both tables. Pruning leaves it alone because the events it
    takes are older than the time an alert may be parked for
    (`OldTimesGoLast`). The second theorem rests on the share lock
    that makes a delete wait for uncommitted events.
  * `SampleSpeaksOnce`: if no PATCH changes a cooldown, one sample is reported
    once for an alert. The unique index only speaks of buckets, so `KInv` adds
    to `EInv` that keys are unique over committed and uncommitted events, that
    every event's bucket is the one its row's cooldown gives, that every copy of
    an alert in a job or request has the row's cooldown, and that an id is
    inserted by one request and unknown before. The hypothesis
    `FixedCooldowns` is needed: see "what the code does not promise".
  * `PausesStand`, an action property, without that hypothesis: what writes a
    paused alert awake is one of the steps `PausedStaysPaused` names.
    `CountedIdsAreFresh` is the invariant it needs beside `EInv`: the insert
    of `create_alert` writes a whole row, and this says that it is never over
    one that is there. The rest is that a PATCH without a status leaves the
    column alone (`PatchKeepsStatus`), which a row written back whole would not.
  * `CoolingLasts`, an action property: `CoolsUntilDue` under three conditions.
    `_reactivate_cooled` selects rows and commits later, and its UPDATE does not
    look again, so nothing may park a row of its list in between. Another
    evaluation must not (`OneEvaluator`: polls do not overlap, which the cron and
    its timeout of 120 s give as long as no command is run by hand); a
    request that is still arming must not (`PatientAlerts`: a cooldown, at least
    five minutes in `schemas/alerts.py:16`, is longer than a request); and an
    edit must not make the cooldown longer or cool the alert anew
    (`EditsNeverWake`: PATCH may pause an alert and change its rule; a PATCH that
    wakes it is what the property excuses). `CInv` adds to `EInv` and
    `CountedIdsAreFresh` what these are for: rows on the list of a reactivation
    that are cooling are due still (`WarmAreDue`), and everything that happened
    to an alert being armed is younger than its request (`ArmedAreYoung`, with
    `InTime` for the clock and `IdsUnknown` for ids not inserted yet). So such an
    alert cannot have cooled, and is on no list (`YoungAreNotDue`).
* **OneTimeTokenProofs.** `TokensAreUsedOnce`. The invariant adds to `UsedOnce`
  that an unshared token has one holder at most, that an unissued one has none
  and no use, and that a token that was used is closed, so that it finds no new
  reader: a second use needs a reader who was there before the first.
* **AccountsProofs.** The inductive invariant `AInv` of Accounts is `TypeOK`,
  what a request may rely on after each of its reads (`Carries`: rows are never
  deleted and a verified address stays verified, so that a login which looked
  long ago still stands behind a verified account), `MailsHaveUser`, `GateOff`,
  `SessionsVerified` and `SinceCovers`. From it:
  * `WhoHasASessionIsVerified`; `SessionsVerified` is the property, and
    `Carries` what makes it inductive.
  * `ResetsEndSessions`. The property is not inductive: between choosing what to
    revoke and committing, a reset is neither in the password nor in the
    sessions. `SinceCovers` counts it: a valid session is counted from every
    committed reset and from all those under way that will not end it
    (`Blind`). A commit moves one reset from the second number to the first.
  * `LimitsEnd`: a counter that counts has an end, or the request that will give
    it one, or that request died.
  * `TokensAreOneTime`: every step is a `OneTimeToken` step or a stutter, for
    mailed links and for refresh tokens. For the latter a use is a new successor
    in the table, so the lemmas show that a commit of a rotation adds exactly
    one to a finite set, and that every other step adds none. `TokensWorkOnce`
    carries `TokensAreUsedOnce` over through the same mappings.
  * `CookieIsAccountedFor`, of the composition with the browser. `BInv` adds that
    the browser knows only tokens that were issued (`Known`), that a call and its
    request on the server go together (`InStep`), and `Fresh`: a token in an
    answer on its way is valid, in no other answer, and known to nobody who
    could end it. That is why the answer that arrives, last or not,
    always puts a good cookie in the jar.
* **TelegramLinkProofs.** `LinksAreOneTime`: linking refines `OneTimeToken`, one
  lemma per action with its image (`Read`, `Use`, `Drop`, `Age` or a stutter).
  The invariant `LInv` behind it is the types, and that a job which holds a
  token holds one that was issued. `LinksConnectOnce` instantiates
  `TokensAreUsedOnce` through the same mapping. `WInv` adds to `LInv` the rows
  themselves and `Saw`: what a job read of the account it connects, and of the
  one it takes the chat from, is what is there, unless it is known to have been
  overtaken on it (`crossed`). From it follow `RowsAreWhole`, `BotTellsTheTruth` and
  `NobodyIsCutOff`; that two accounts never share a chat is the guard of the
  unique index, that `linked` follows `chat` is `Saw`.
* **MarketProofs.** One invariant `MInv` for both modules. Its portfolio part
  says that a registered user has exactly one portfolio, that every holding and
  every request at `adding` names it, and that holdings are unique by portfolio:
  this gives `OneHolding`, and is why registration has to make the portfolio.
  `SyncOwnsTracked` needs that rows about to be stored by a poll are rows that exist already (`Knows`):
  otherwise storing them would add tracked coins. That holds because a
  poll asks for tracked and referenced coins, and both refer to rows.
  `EditsStand`: a column changes only to what a request gave for it, because a
  PATCH writes its own columns and a row keeps its id (`PatchWrites`).
* **CandlesProofs.** `CandlesHoldTheirSamples` and `TheLatestHasTheLastWord`, both
  part of the inductive invariant `IInv`. A candle holds its samples because
  the upsert only widens, and because pruning takes a snapshot before its candle.
  The close is the harder half: it is overwritten, so the argument is about
  windows. What an aggregation has read is stored still and covers all that is
  aggregated already and not too old for it (`WindowSound`), unless one that
  read later has written first; and of two that have read, the later covers
  the earlier (`LaterCovers`). `InTime` ties a window to the clock: a job that is
  cancelled in time never outlives the samples it read.

Two definitions changed for the proofs. The first proof of `LimitsEnd` failed on
a `CASE` of `Incr` whose alternatives overlapped at a limit of one: TLC took the
first, the language does not say which. Passwords are all the numbers now
instead of a bound that nothing used.

The inductive invariants `AInv`, `BInv`, `WInv` and that of Candles were
model-checked, on the instances of section 3, before they were proved; `CInv` with two
requests, shorter cooldowns, one delete, one crash and one edit that mutes or
changes a rule (7.6 M states).

Model-checked only:

* `SettlesUnlessCancelled`, `JobsEnd`, `CoolingEndsBesideOthers`: liveness under
  fairness is out of the prover's reach.
* The properties of `AlertTimings`.

What the recursive definitions of the community modules compute, and what a
proof would need induction over data for, is left to TLC; none of the
theorems above rests on it.

## 5. What the code does not promise

Seen while modelling. The constants of the modules reproduce most of them; those
with a run of their own are in section 3. `AlertTimings` excuses what touches an
alert's silence through three history variables: `missed`, `edited`, `calm`. Where
one is named below, the property fails in `alert_timing` once that excuse is taken
out of it.

* The daily sync stores a sample and evaluates nothing (`workers/tasks.py:155`),
  though `docs/PROJECT_STATE.md:46` says that the evaluator "runs on each new price
  sample". When the price enters the zone there, the next poll compares two
  samples that are both inside, and the alert stays silent: `NoSilentEntry`, by
  `missed`.
* All events of an evaluation are in one transaction. Deleting one alert
  meanwhile breaks the foreign key of its event (`services/alerts.py:246`), and
  the events of all the others are rolled back and never made up for
  (`docs/PROJECT_STATE.md:38`: "no lost/dup alerts"): `NoSilentEntry` fails with
  one worker, `MaxDeletes = 1` and two existing alerts that cross together.
* Re-arming clears `last_triggered_at` ("a re-armed alert starts clean",
  `services/alerts.py:184`) and not the dedupe keys, so the next crossing in the
  same bucket is dropped: `SwallowsOnlyRepeats`, by `edited`.
* A poll that upstream answers without the coin evaluates nonetheless, and
  compares the same two samples again (`workers/tasks.py:51`,
  `services/alerts.py:302`). An alert that was cooling at the crossing and is
  active again fires for it late; if its earlier event lies in the same bucket,
  though about another sample, it is dropped. `SwallowsOnlyRepeats` leaves such
  polls out.
* A job that dies between the two redis commands of `store_samples`
  (`services/cache.py:58`) leaves a latest price that the history does not have.
  An alert created on it is armed and recorded on it, and the next poll compares
  its own sample with the one before, finds a crossing, and reports the same
  entry again. So a one-shot alert speaks twice: `OneShotSpeaksOnce`,
  `CooldownRespected` and `OncePerStay`, by `calm`.
* The sync may also store a newer price while the evaluation of a poll is
  under way (`workers/tasks.py:155`): an alert armed on the newer one is reported
  by the evaluation for the older. The same three, by `calm`.
* A mute that commits while an evaluation is under way is overwritten by it
  (`bot/handlers.py:113`, `services/alerts.py:254`). `PausedStaysPaused` excuses
  exactly that overlap.
* `client.ts:3` promises to rotate an expired access token transparently;
  `/auth/me` is never retried (`client.ts:64`), so settings saved with an
  expired token fail.
* A login that checked the old password, or a rotation that is under way, issues its
  session after a reset has chosen what to revoke, and keeps it, though the
  endpoint says that all earlier sessions were closed (`api/v1/auth.py:124`).
* Two requests that present one refresh token or one mailed link at the same
  time may both succeed (`services/auth.py:102`, `:175`); `SingleUse` excuses
  exactly them. A browser whose calls race this way keeps the cookie that
  arrived last, and the other session lives on unused until it expires.
* After a lost session the store keeps its user, so the router turns back from
  the login page (`router.ts:54`) until the page is reloaded.
* A request that dies between INCR and EXPIRE (`services/ratelimit.py:12`) locks
  the address out of that operation for good.
* A chat moves to another account only when that account has the greater id
  (`services/telegram.py:71`); otherwise the bot does not answer at all.
* A candle whose look-back has passed, or that was overtaken, may stay marked partial
  (`services/market.py:180`).
* PATCH accepts a percentage above 100, which `create_alert` refuses
  (`services/alerts.py:177`); such a `pct_down` alert never fires.
* A crash between storing a sample and evaluating it (`workers/tasks.py:52`)
  loses the crossing: `NoSilentEntry`, by `missed`.
* A request that dies between `create_alert`'s commit and `arm_alert`
  (`services/alerts.py:134`) leaves an alert unarmed: the same, by `missed`.
* The cap on active alerts is counted in one statement and used in another
  (`services/alerts.py:100`), and reactivation (`:339`) does not count.
* Two evaluators whose samples lie in different buckets can both report inside
  one cooldown: `CooldownRespected` fails with a manual poll beside the worker,
  one alert of cooldown 4, `Interval = 3` and `MaxTime = 25`.
* A PATCH of the cooldown changes the key of the very same sample
  (`services/alert_engine.py:124`), which may then be reported twice:
  `SampleFiresOnce` fails there with `Epoch = 21` and one PATCH of the cooldown
  from 4 to 7.
* Retries ignore quiet hours (`workers/tasks.py:141`); only the first delivery
  waits for their end.
* A message may arrive twice after a lost answer or a crash in mid batch; the
  batch is committed at its end (`workers/tasks.py:85`). `OneCopyUnlessLost` says
  exactly when.
* One page of upstream has at most 250 rows (`services/coingecko.py:82`), and the
  poll asks for all tracked and referenced coins in one call
  (`services/market.py:40`). When there are more, the ones with the smallest market
  capitalisation get no price, though `docs/PROJECT_STATE.md:47` (D14) says that
  what an alert or a holding references "must keep pricing". `Answers` of Market
  may leave any coin out; no property says that a coin is priced.
* Events that were delivered or given up are pruned after 180 days
  (`workers/tasks.py:195`), while the alert keeps `last_triggered_at`.
  `ParkedHasEvent` therefore says nothing of an alert that spoke longer ago.
* A percentage alert may speak twice in a stay, or miss one, when its base
  moves: `pct_change` of the previous sample uses the present base
  (`services/alert_engine.py:70`).

## 6. Not modelled, and what comes next

Not modelled: health and heartbeats (nothing reads them but a page); frontend
views (they reload from the API) and the live price stream (a page loaded while
it runs may show older prices until the next poll, nothing is stored); what only
reads and computes an answer (`_priced_rows`, `summary`, `market_page`,
`coin_detail`, `chart_series`, the bot's `/status` and `/alerts`): each is one
read of rows that the modules above keep, and arithmetic or layout over them;
the profile columns of `PATCH /auth/me`; deployment files, migrations and message
wording.

Next: the composition of pipeline and outbox, from a sample to a message; proofs
of the properties of `AlertTimings`; and "when an alert speaks" for percentage
alerts, whose conditions would have to say how far a base may move between two
reads.
