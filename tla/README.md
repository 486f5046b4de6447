# Topic Watch in TLA+

Topic Watch checks news topics for its user: it fetches articles, asks a language model
whether they tell anything the topic's knowledge does not hold, stores what is new, and
sends an alert when it matters enough. The program is one Python process (FastAPI,
APScheduler, asyncio tasks) on a SQLite database; a command-line process may work on the
same database at the same time and shares nothing else with it.

These modules model the parts where a test hardly reaches: several tasks and processes on
the same rows, decisions made from data read minutes ago, sends whose outcome is unknown,
crashes between two commits, and row ids that SQLite uses again.

1. [The system](#1-the-system)
2. [The modules](#2-the-modules)
3. [What the runs check](#3-what-the-runs-check)
4. [What is proved](#4-what-is-proved)
5. [Where the code disagrees with its documentation](#5-where-the-code-disagrees-with-its-documentation)
6. [What is not modelled](#6-what-is-not-modelled)
7. [Plan](#7-plan)

## 1. The system

All paths are under `src/app`.

| Component | State | Operations | What makes it correct |
|---|---|---|---|
| Delivery queues: `crud.py` 1104-1580, `checker.py` 968-1232, `webhooks.py`, `notifications.py` | rows of `pending_notifications` and `pending_webhooks` (status, claim token, attempts, due time); the coroutines that send; the process's set of live claim tokens | commit intents with a check, claim, send, apply the outcome, drain (release stale claims, abandon, deliver what is due), revoke, prune, cascade delete | one sender at a time; a late outcome changes nothing; terminal rows stay; a row that says sent was accepted; attempts are bounded; every row is settled in the end |
| Silence heartbeat: `heartbeat.py`, `checker.py` 763-955 | the log of checks with their stage errors, `topics.heartbeat_alerted_at`, heartbeat intents, the setting | evaluate the streak after each check, claim the latch and queue an alert per target, clear it and queue all-clears, revoke, switch off | an announcement is justified by the log, only targets that were told hear the all-clear, an outage is announced and a recovery is |
| Check pipeline: `checker.py` 225-760, `scraping/__init__.py`, `analysis/knowledge.py` | `articles` (processed, attempts), `knowledge_states` (summary, version), `check_results`, the snapshot a running check holds | P0 snapshot, C2 store articles, P2 analyze, P3 merge, C3 commit, P4 send, C4 record | no lost update of the knowledge, no news dropped, no alert repeated, nothing written to a topic that took over a deleted one's id |
| Topic lifecycle: `crud.py` 111-270 and 1785-1850, `checker.py` 1522-1818, `scheduler.py` 248-345, `web/routers/topics.py`, `web/routers/opml.py`, `web/routers/background.py` | `topics.status`, `status_changed_at`, `init_attempts`, `is_active`, `generation` | create, import, claim, initialize, retry, recover stuck, pause, edit, delete | one initializer at a time; no terminal status overwritten by abandoned work; READY means there is knowledge; no topic stays RESEARCHING |
| Check intents: `crud.py` 1587-1693, `checker.py` 1235-1347 | `check_intents` rows | request, claim, run or back off, satisfy by another check, abandon | every request is answered, once |
| In-flight guards: `web/state.py` 24-106 | slots per topic and for the whole cycle, each with an owner token | take, release by token, evict stale | one check of a topic per process |
| Check cycle: `checker.py` 1348-1520, `crud.py` 405-480 | due time of each topic | select due topics, check them concurrently, drain the queues | every due topic is checked, whatever the wall clock did |
| Scheduler: `scheduler.py`, `main.py` | a file lock, jobs, the record `/health` reads | acquire the lease, ticks, set up, stop | one scheduler per database; `ok` means it checks |
| Feed health: `feed_backoff.py`, `scraping/rss.py`, `scraping/__init__.py`, `crud.py` 1696-1780 | failure streaks, validators | success, failure, given up, back off, conditional GET | only a feed's own failures count; a failing feed is probed again; a 304 hides no article |
| Provider routing: `scraping/routing.py` | health and cooldown per provider | choose, probe, report | failover and return |
| Source access: `scraping/source.py`, `scraping/google_news.py` | the gate and the cooldown of Google's redirects | fetch with retries, resolve links | a refused batch stops |
| LLM client: `analysis/llm.py` | the mode hint | transport retry, mode fallback, prompt fitting | bounded attempts; what did not fit is reported as unread |
| Knowledge: `analysis/knowledge.py`, `crud.py` 780-930 | summary, version, revisions | write with compare-and-swap, compress, cut, prune | the least is cut; each diff is one edit |
| Database: `database.py`, `migrations/` | the ledger of applied migrations | migrate at start | a migration runs once and wholly; no process begins to serve with a schema that is not its own |
| Configuration: `config.py`, `web/routers/settings.py`, `web/setup_middleware.py` | `config.yml`, the environment, the live settings | form, first-run setup, edit by hand, restart | live settings are what a restart loads; a save overwrites nothing unseen |
| Web UI and JSON API, command line | none of their own | handlers and commands | what they change is an action of the component they change |
| Prompts, citations, restatement and diff; logging, clock and context; evaluation harness and scripts | none | text and offline tools | not modelled (section 6) |

How they interact. The scheduler, the web handlers and the CLI call `check_topic`, which
holds no database connection across an await: it reads a snapshot, works on it for
minutes, and commits under a fence (a check with nothing to analyze checks its fence and
inserts its row in two transactions). Its commit (C3) writes delivery intents in the same
transaction as the knowledge; the task then sends them itself (P4) or dies, and a drain
(after each cycle, or in another process) delivers what is left. Every check, successful
or not, ends by recording a `check_results` row, which the heartbeat reads; the heartbeat's
own announcements go through the same delivery queue. Deleting a topic cascades through
all tables while tasks of the topic keep running, and SQLite gives its ids to new rows.

What is hard here: tasks and processes that interleave between any two commits; a claim
that outlives its owner; a thread that cannot be cancelled and may still deliver; stale
snapshots of topics, articles and settings; reused ids; retries that must end and
retries that must not be lost. `PROJECT.json` lists each hazard with its line and the
properties that cover it.

## 2. The modules

| Module | Models |
|---|---|
| `Outbox` | what a delivery queue promises: one status per message |
| `DeliveryQueue` | the delivery queues, implementing `Outbox` |
| `Heartbeat` | the silence heartbeat of one topic, over `Outbox` |
| `AtomicCheck` | what the checks of a topic promise: each runs alone and at once |
| `CheckPipeline` | the checks as they are, implementing `AtomicCheck` |
| `TopicLifecycle` | the row of one topic and its initializers |
| `CheckControl` | manual checks, the guards and the cycles of two processes |
| `DueTopics` | when a topic is due, under a wall clock that is set |
| `FeedFetch` | one fetch: what the source answers, what is tried again |
| `FeedHealth` | the health row of a feed, its validators and the topics that share it |
| `ProviderRouter` | the health of the news providers |
| `GoogleNews` | the batches of redirect links and their cooldown |
| `LlmCall` | calls to the LLM and the mode hint they share |
| `Knowledge` | the summary, its cut, and the revisions |
| `Scheduler` | the worker processes, the lease, the jobs, `/health` |
| `Configuration` | the settings file, the environment, forms and setup |
| `Migrations` | opening the database |
| `Subsequences` | what a query's WHERE leaves of the rows in order, as a function the prover can read |
| `...Proofs` | the theorems about the module they are named after (section 4); `SourceProofs` and `ServerProofs` are about the components of `MCEnvironment` |
| `MC...` | small instances for TLC (section 3) |

In every module an action is a stretch of code between two points where another task can
run: an await, or the boundary of a SQLite transaction. Two awaits with nothing shared in
between are one action. Definitions named by a "Mutant:" comment are wrong variants of the
definition below them; `PROJECT.json` says which property notices each, and which lines
each definition stands for.

### Outbox and DeliveryQueue

In `Outbox` a message has a status and may have been taken by its target (`told`). `Write`
is a transaction of the code that owns the messages; `Claim`, `Accept`, `Sent`, `Fail` and
`Sweep` are the senders and the drain. What is claimed cannot be revoked, forgotten or queued
again, and only what was taken is recorded as sent. `KeepsPromise` says that `DeliveryQueue`
implements it with `status <- Standing` (of the row that holds the message, if one does) and
`told <- Taken`.

In `DeliveryQueue`, `row` is the table indexed by row id; `task[l][r]` is the coroutine with
which lane `l` (a check's inline delivery, or a process's drain) handles row id `r`,
carrying the copy of the row it read. `CommitIntents` is the insert that rides on C3;
`WinClaim`, `LoseClaim`, `DropUnaddressed` are the claim; `Accept`, `Return`, `TimeOut`,
`SendRaises` the send; `stray` are the Apprise threads whose coroutine has stopped waiting,
which may still deliver (`LateAccept`) before they return (`LateEnd`); `Apply`, `ApplyRaises`, `ApplyAgain` the outcome and its error path;
`Drain` releases stale claims, abandons and lists in one step; `Crash` and `Cancel` end
tasks; `Ripen` is the passing of the retry delay; `RevokeHeartbeats`, `DeleteTopic` and
`Prune` come from other components. A row that a topic's deletion frees can be taken by the
next one.

- The webhook queue has the same columns and the same steps; it is the instance with
  `TimesOut = FALSE` (httpx is cancelled) and `Legacy = {}`.
- Tokens: `CHOOSE`n unused, as `secrets.token_hex` is. The live-token set of a process is
  the tokens of its tasks in flight, and is not visible to another process.
- The drain's release, abandon and list are separate statements on one connection with no
  await between them.
- A timeout, and the cancellation of a batch, end the coroutine and take its token out of the
  live set; the Apprise thread runs on and its row stays `sending`. A thread returns long
  before its claim is ten minutes old by a clock that does not step (`Ripen`), and dies with
  its process.
- A step of the clock makes any claim look stale (`clock_step`); backward steps only delay.
- `Prune` assumes that no task and no thread holds a row for thirty days.

### Heartbeat

`log` is the topic's `check_results` in `_LATEST_CHECK_ORDER`; a running check already has
its place there, because `checked_at` is taken when it starts. `Begin`, `Fetch`,
`FetchRaises` build the row. `Commit` files it with the C3 transaction of a check that
analyzed something. A check that did not looks at the generation (`Confirm`) and inserts the
row afterwards (`RecordResult`), by the topic's row id: the topic may have been replaced in
between, and then the row is in the log of the replacement, or deleted only, and then the
foreign key refuses it (`Orphaned`). `Abort` is the refusal of either fence. `Decide` is `evaluate_heartbeat` with the settings
the check holds; `ClaimAlert`, `ClearAlert`, `LoseClaim` are the fenced write. `Send`,
`Accept`, `Sent`, `GivenUp` and `QueuedAgain` are the steps `Outbox` has for one message; a
failed attempt that is not the last, and an outcome nobody learned, queue the row again.
`seen` in a log entry is history: what the sources really were. `missed` says that the newest
row was filed by a check that will not decide for this topic: it died, or it was a check of
the topic that had the row id before.

- Rows below the newest `Window` are forgotten; ids are reused when free.
- What a query selects of the log is a set of places in it (`Recorded`, `Observed`), and a
  streak is the number of places with no healthy one above: the same rows the code counts
  off a list, in a form the proofs can reason about.
- Status other than READY and pausing are not modelled here: both only stop checks.
- A check whose C3 aborts records nothing: `Lose` covers it.

### CheckPipeline and AtomicCheck

`check[c]` is the check a process runs. `Begin` is P0; `Store` is C2 and the choice of the
batch; `Commit`, `LoseRace` and `Abort` are C3 with the analysis and the merge before it;
`Send` is P4, `RecordDelivery` C4. `Drain`, `Expire`, `Delete`, `Create` and `Lose` are the
rest of the program around it.

- The language model is an assumption, written in `Analyses`: what it calls new is told by
  an article it read and is not in the summary it was given. A merge keeps the old facts
  and adds the new ones. Which gate the findings stop at, how much of the batch fitted the
  prompt, whether the call failed and whether the merge was refused are chosen freely.
- P2 and P3 only use what the check holds, so their outcome is chosen at C3.
- A fact is what two articles can both tell, the unit in which an alert can repeat.
- Articles keep the id of their content (the model's `Articles`); result rows have ids
  that are used again.
- Cutting a summary that exceeds its budget is in `Knowledge`, not here.

`AtomicCheck` has no snapshots: a check reads, absorbs, announces and disposes of articles
in one step, so a topic announces no fact twice. `Serializable` says that `CheckPipeline`
implements it with `known <- absorbed, waiting <- Open`: each check takes effect at C3.

### TopicLifecycle

`row` is the topic, with the version and the incarnation of its knowledge (`version`,
`base`); `task` are the initializers (background tasks of the web handlers, the tick, CLI
commands) with the row and the claim they work on; `guard` is the server's slot for the
topic; `check` a running check's snapshot; `pausing` and `editing` what a handler has read
and not yet written; `up` whether the server runs. `claim`, `base`, `disowned` and `jumped` are
history: which RESEARCHING claim stands, whose knowledge is stored, whether an initializer
has been written off alive, under which claim the wall clock was last set ahead.

- Handlers: `CreateTopic`, `ImportTopic`, `Retry`, `DeleteTopic`; a pause and an edit are
  two steps each (`PauseRead`, `PauseWrite`, `EditRead`, `EditWrite`): another process can
  commit between the read and the write of a pause, and an edit awaits DNS in between.
- Initialization: `RunInit` (a claimed task starts), `TickInit` (the tick claims), `CliFind`
  and `CliClaim`; then `InitEmpty`, `InitFail`, `InitCommit`, or the deadline with its two
  writes, `InitTimedOut` and `TimeoutReason`. `CliInterrupt` hands the claim back,
  `CliKilled` leaves it.
- `CheckBegin` and `CheckEnd` are a check of a READY topic, which moves the version.
- `RecoverStuck` is the periodic job, `Restart` includes the recovery at start-up, which
  takes every RESEARCHING row whatever its age.
- `Elapse` is time, for the event loop's clock, which the deadlines go by, and for the wall
  clock, which recovery goes by: no server task outlives its deadline, a CLI command may.
  `ClockJump` sets the wall clock alone ahead.
- On Python before 3.12 `wait_for` runs the coroutine in a task of its own, one await later.
  The row a web task goes by is read in that task, and `RunInit` is that moment.

### CheckControl

`intent` are the rows of `check_intents`, `guard` and `cycle` belong to a process,
`pc` and `token` to a thread (a process, or the background task, working on an intent).
`Admit` is the handler that commits the intent and starts its task; `Claim`, `Satisfied`,
`Begin`, `Abandon`, `Busy`, `CheckCommits`, `CheckEnds`, `CheckFails`, `CheckAborted` are
`run_check_intent`; `CycleStart`, `DueBegin`, `DueEnd`, `CycleTake`, `CycleEnd` are a
cycle with its drain of intents; `ApiCheck` the check without a deadline; `Crash`,
`CycleTimesOut`, `ClockJump`, `StatusMoves`, `Ripens`, `Elapse` what happens around them.
What a check does is one step here (`CheckCommits`); `CheckPipeline` has its inside.

### DueTopics

`rows` are the stamps of the topic's checks, `now` the wall clock, which `SetClock` moves
either way. `Check` adds a row, `Minute` is the tick, `Toggle` pauses. `since` counts the
minutes since the last check by no clock, `future` the rows that were in the future.

### FeedFetch, FeedHealth and ProviderRouter

`FeedFetch` is the status of a fetch and the decision to try again; both users instantiate
it. In `FeedHealth` a check reads the health row and fetches (`FetchBegins`, `Retry`,
`Answer`), applies the outcome (`ApplyHealth`, C1) and stores the entries (`Store`, C2),
with a crash or a cancellation possible at each. Another topic's check interleaves;
`Publish` gives the feed a new version, `Retention` removes articles, `ClockJump` sets the
wall clock back. In `ProviderRouter`, `Admit` and `Probe` choose a provider, `Report` is
its answer with the cascade to the next one, `Cancel` a check that dies with its request.

### GoogleNews, LlmCall and Knowledge

`GoogleNews`: `Begin` looks at the cooldown, `Enter` passes the gate, `Ask`, `Page`,
`Decode` are the requests, `TooMany` the 429, `Expire` the budget, `Return` the result.
`LlmCall`: `Start` and `Wake` ask in the hinted mode with the articles fitted to it;
`Succeed`, `Reject`, `Invalid`, `Permanent`, `Transient` are what comes back;
`ProviderChanges` lets a provider accept other modes. `Knowledge`: `Snapshot`, `Generate`,
`Compress`, `Apply`, `Discard` are one job; `Search` is the binary
search of the cut, a function from the number of its rounds (`Halved`) to what it has found,
compared with its definition by `TruncatesLeast`; `Start` is the pruning at start-up.

### Scheduler, Configuration and Migrations

`Scheduler`: `Boot`, `SetUp`, `Save`, `Stop` are the life of a worker with the lease;
`Start`, `StartSkipped`, `Succeed`, `Fail` the jobs, which end with their scheduler and its
lease (`Ended`; in the code they are asked to, and a cancelled coroutine or the thread of a
VACUUM may end a moment after the lease is free); `CheckAll` a check of all topics by
hand, for which the tick stands back; `monitoring` is the verdict of `/health`.
`Configuration`: `OpenForm`, `Submit`, `Refused` are the form with its revision; `Post`,
`ProbeFails`, `Publish` the first-run setup under its lock, with a start of the scheduler that
runs, is refused the lease, or raises (`Starts`), and the settings the process has held since
it started; `EditFile` an editor; `Restart` a new environment, and a start that is refused as
well. `Migrations`: `Open` reads the ledger and lists what is
pending; `Backup`; `BeginImmediate` takes the write lock; `Commit` or `Abandon`; processes
of different releases (`known`) do this at one database.

## 3. What the runs check

Runs with `expect: pass` finish without error; each `violation` run shows a disagreement of
section 5. Deadlock is checked except where the instance really stops: `environment`, where
a behaviour ends when its bounded troubles are used up and nothing is left to do.

The MC modules instantiate the components. `MCDelivery`, `MCTopics` and `MCEnvironment`
hold several instances and choose one per behaviour (`scenario`); the others stay in an
initial state. The components of one run do not interact there: what joins them is stated
in the next list. The MC modules leave every value to the configuration, so that the
theorems can be about the components as they are composed there.

| Run | Instance | Shows |
|---|---|---|
| `delivery_races` | 2 processes, a check and the drains, one row id; clock steps, deletion and reuse of ids | terminal rows stay, and only the owner of a claim settles it, even when a claim is released under its owner or its row is another one |
| `delivery` | two processes whose sends have known outcomes; one process, all faults but deletion, with a clock that steps, or with sends that outlive their task; a server that drains rows of an older release | attempts within the budget; one sender; every step is one `Outbox` allows; every intent is settled |
| `heartbeat_settings` | 1 checker; switching off and on, replacement, attempts that fail or whose outcome is unknown, internal failures | an all-clear goes only to those told, what the latch promises is not revoked |
| `heartbeat_overlap` | 2 checkers at once, replacement | the latch follows the log |
| `heartbeat_liveness` | 1 checker, failed analyses and sends, a lost check | an outage that lasts is announced, so is a recovery that lasts |
| `pipeline_overlap` | 2 checkers, 2 articles of one story, expiry, a check that dies, the topic deleted and replaced | serializable, no news lost |
| `pipeline_stale` | 2 checkers, two stories, a batch of 1, merges that are refused, a feed that always has something | knowledge only grows, repeated alerts bounded by the attempts, an article stays open only if newer ones crowd it out of the batch again and again |
| `topics` | the lifecycle with 2 web tasks, the tick and a CLI command; or one manual check with two processes | READY topics have knowledge, claims are taken from nobody who can still use them, no topic stays RESEARCHING; an accepted check commits once, is answered or given up for a stated reason |
| `environment` | feeds, providers, LLM, Google News, scheduler, due topics, knowledge, database, settings | one or two properties of each, see below |

The properties of `environment`: only a feed's own failures start its backoff
(`BackoffIsEarned`), every topic of a feed gets articles (`EveryTopicFed`); a cooldown is
ended only by a request sent after the last failure (`CooldownKept`), and some provider is
used again when all were out (`ProvidersRecover`); the hint names a mode that worked within
its time (`HintConfirmed`), the articles reported as read are those of the answered request
(`ReadIsAnswered`); a refused batch of links stops (`RefusedBatchStops`); one process runs
jobs (`OneTicker`), `ok` is not said of a process that checks nothing (`OkIsFresh`); a
stamp from the future delays a topic once (`CheckedInTime`); a cut summary is the longest
that fits (`TruncatesLeast`), each diff is one edit (`HistoryContiguous`); no process
begins to serve with a schema not its own (`ServesItsSchema`); the live settings are what a
restart loads (`LiveIsRestart`); the settings form replaces no value that stands on no form,
and setup none but the key, unless the file was changed under the process (`NoUnseenLoss`).

What one module assumes of another, and where that is checked:

- `Heartbeat` uses the steps of `Outbox` in place of a queue. `DeliveryQueue` implements them
  (`KeepsPromise`), the heartbeat keeps to them (theorem `QueueUsedAsPromised`), and a queued
  message moves on (`DrainedIntentsSettle`). So it assumes deliveries that keep that promise:
  no clock step during a send that outlives its deadline. A deletion takes a topic's messages away
  whatever their state, which `Outbox` does not have: `Replace` says so directly.
- `CheckPipeline` allows two checks of a topic at once: two processes do not see each
  other's guard, and an API check outlives it. `BoundedChecksExclusive` says when it cannot
  happen. It starts from a topic with knowledge: `ReadyHasKnowledge`.
- `CheckControl` takes the status of the topic as a free switch (`StatusMoves`), which is
  more than `TopicLifecycle` does.
- `CheckControl` and `TopicLifecycle` assume that a server's checks and initializations end
  at their deadline, and that the server ticks: `OneTicker` is the other half.

**Bounds.** Every bound is a constant or a number in an MC module. Two processes and two
lanes are what an overlap takes; one row id makes every reuse collide, two ids or two
messages make queue order matter; two attempts distinguish the last from the others; two
generations make a replacement; two topics share a feed. In
`heartbeat_overlap` each of two checks has a result id and the log's head a third, and one
heartbeat message is under way at a time (`OneUnderWay`), for the property is about the latch;
`delivery_races` has a token for the task, for the thread an earlier one left and for the
claim after them. In `pipeline_stale` the feed never runs dry: the name of one article, once it is finished with
and in nobody's hands, comes to stand for a new one (`NextArticle`). With two articles and a batch
of one, an article really can be crowded out for ever there, and the property has to tell that
from every other cause. A deadline of 1 and a window of
2 units keep the order of the real ones (540 and 600 s; 600 s and 15 min) with every
interleaving at their edges. `MaxInterrupts`, `MaxLosses`, `MaxFaults`, `MaxCrashes`,
`MaxJumps` and `MaxPrunes` cap how often something goes wrong, so that it can hit each
step. In the intents scenario of `topics` a behaviour has one kind of trouble: a crash or a
cancelled cycle, a clock jump, API checks, or a status that moves; in the lifecycle scenario the wall clock jumps or the
topic is paused; in `feeds` two troubles at most. History counters saturate one above what the property tells apart. The overlap
runs treat checkers as interchangeable (`SYMMETRY`), which is sound because no definition
tells them apart and their properties are not liveness. What is proved in section 4 holds
without the bounds of the constants.

**Fairness.** `DeliveryQueue`: a task that can take a step takes it (asyncio runs ready
coroutines; a send has a timeout), the drain runs again and again (it is called at the end
of every cycle and cycles come every minute), and retry delays pass. `Heartbeat`: checks are
begun and go on, and a message that is queued or claimed moves on, which the queue promises;
in the liveness instance a failed attempt is the last one. `CheckPipeline`: the scheduler
checks the topic again, and a running check goes on (`Fairness`); the feed may bring nothing,
or something at every check. `TopicLifecycle`: claimed tasks run,
deadlines fire, the recovery job runs, a dead server is started again, handlers and time go
on. `CheckControl`: the server ticks, threads and cycles that started end, delays and time
pass; of the CLI only that a run ends. `FeedHealth` and `ProviderRouter`: checks go on, and
a source that is asked answers with entries in the end. Nothing is assumed of crashes and
faults, which are bounded instead.

`heartbeat_liveness` leaves out endless internal failures: they are recorded as rows that
count for nothing and can fill the 50-row window, and then an outage is never announced.

## 4. What is proved

TLAPS proves the following for every value of the constants. Each safety property that a
run checks is stated by a theorem.

*DeliveryQueueProofs.* The inductive invariant has three layers. `RowsInv`, `TasksInv` and
`TokensInv` hold unconditionally: a row is `sending` exactly while it has a token, and a
token names one claim of one task. On them rest `TypeCorrect`, `LedgerFinality` and
`OwnerAlone`. If no topic is deleted, a task's row is the row it was built from
(`BatchInv`), which gives `HonestLedger`. If also the clock does not step, or there is one
process, a live claim stands (`ClaimInv`), and two tasks never send one message
(`ExclusiveSending`). One process is enough because its live-token set protects its claims
from its own release. It does not protect the row of an Apprise thread whose coroutine timed
out: that no such thread sends beside another send (`StraysInv`) takes a clock that does not
step. The lemmas `NextRows` and `NextTasks` classify what any step does to
a row and to a task; each part of the invariant is then a case analysis over those.

`QueueKeepsPromise` is the refinement of `Outbox`: topics stay, and the clock does not step, or
no send outlives its task and there is one process (`SafeSends`). A message's
status is read off the table (`RowOf`): no two rows hold one message, and a message whose row
is gone is neither queued nor claimed. Then one lemma per action names the abstract step: a
claim, an acceptance, a success, a failure, a sweep, a write of several messages, or none. A
claim that stands (`ClaimInv`) makes an outcome the outcome of its own claim.

`SendsWithinBudget` needs more: that every claim has a task that will settle it (`HeldInv`),
for then an attempt is charged before the next one begins, and a message has been sent no
more often than its row accounts for (`SendsInv`). That is so only where outcomes become
known: no timeouts, no crash or cancelled batch, a database that can be written at the
second try, clocks that do not step, no deletion (`KnownOutcomes`). Failed applies and
raising sends are allowed. Without these conditions the budget really is exceeded
(section 5).

*HeartbeatProofs.* Three invariants, for three properties, and a fourth for the queue.

- `AllClearOnlyToTold`, without conditions: a recovery on its way, and a decision to
  announce one to a target, are preceded by the alert of the same outage
  (`RecoveryInv`).
- `StandingAlertsKept`: a check that will switch the feature off belongs to the present
  topic, or there is no alert to revoke (`DisablingInv`). Its condition, that checks do not
  overlap, or settings stand, or topics are not replaced, is needed (section 5).
- `LatchSaysWhatRowsSay`: unless the latch says what the rows say, some check is still to
  decide, or holds a decision whose head is the present head, so that its claim will succeed
  (`SettledInv`). This rests on: ids name one row of the log (`LogInv`), a decision cannot
  name the row of a running check (`RunningInv`), and a decision is right about its head's
  row (`HeadInv`): the head is a source failure exactly if it is an alert. So a row filed
  late, under the head, changes the count but turns no decision around. The condition that
  no check breaks inside the pipeline is needed: such a row is a head that says nothing
  about the sources (section 5). A check that dies between its row and its decision leaves
  the latch to the next check, and so does a row that a check of the former topic filed in the
  log of the one that took its row id (`RecordResult`); that is how the property states it
  (`missed`). Settings are
  assumed to stand, with at least one target; the run does the same.
- `QueueUsedAsPromised`: every step of the heartbeat is a step or a stutter of `Outbox`. The
  one that could fail is the all-clear, which must not have a row yet: a decision that a claim
  may still carry out clears the outage that stands (`ClearingInv`), of which no all-clear has
  been queued (`NotOverInv`). The first holds because an outage is announced from a head that
  is a source failure, and a recovery is decided from one that is not (`HeadInv`). So it has
  the conditions of the third, and that the topic is not deleted.

*CheckPipelineProofs.* Everything rests on `SnapshotInv`: while a topic lives, a running
check's snapshot is of the present version and equals the present knowledge, or is of an
older version. It is inductive because every write of the knowledge raises the version
under the same fence, and because a new topic's generation differs from the generation of
every running check. From it: no step removes knowledge (`NoLostUpdate`), every article
that is finished with is accounted for (`EveryArticleAccounted`), and, if merges are not
refused, each commit is a step of `AtomicCheck` and every other step a stutter or an
arrival (`Refinement`). `OneAlertPerFact`, about `AtomicCheck`, then carries over as
`NoFactTwice`. The assumption about merges is needed: a refused merge breaks both
(section 5).

If merges are refused, `AlertsPaidFor` bounds the repetition. Each article that tells a
fact has a purse of `MaxAttempts + Cardinality(Checkers) - 1` units: an open article has
spent its attempts, a finished one all but a unit for every running check that still has it
in its batch. Every alert spends at least one unit of an article that tells the fact
(`PaidFor`). The bound counts the other checkers per article: two checks may both have an
article in their batch when its last attempt is charged. The condition is that no article
expires, for an expired one can come back with no attempt used.

*TopicLifecycleProofs.* `IInv` says: what a pause holds is an older row of the topic
(`RowInv`); a task works on a claim it won (`TaskInv`), and no two on the same one
(`UniqueInv`); the row has been RESEARCHING no longer than its claimer has run (`TimeInv`);
and, until somebody is written off alive, an initializer that works holds the row's claim
(`OwnInv`). `TimeInv` with a deadline shorter than the recovery window gives
`RecoveryIsLate`: the age recovery looks at bounds the age of the task it would rob, unless
the wall clock was set ahead since the claim was made (`jumped`), for the age is of the wall
clock and the deadline is not.
`OwnInv` gives `TerminalWritesHitOwnClaim`. `ReadyTopicsKnow` needs that an old row with
READY is only written back over a row that has knowledge, or never by an edit.

*CheckControlProofs*, about `CheckControl` as `MCTopics` composes it. `GuardInv`: a running
check holds its process's guard entry, and is no older than its deadline. `ClaimInv`: tokens
are unique, attempts within the maximum. `FirmInv`: while the clock has not jumped, every
claim stands. `CommitInv`: once a run has committed a result newer than the intent's baseline
no other run of the intent begins, and one that was already on its way commits a second
result only after a clock jump. From them `ChecksExclusive`, `CommitOnce` and
`NothingDropped`.

*SourceProofs*, about components of `MCEnvironment`.

- Providers: a request that carries the present epoch of its provider was sent after the
  provider's last failure (`EpochInv`). Epochs only grow, so a report of an older one changes
  no cooldown (`CooldownHolds`).
- LLM calls: the time since a call succeeded in the hinted mode and the time the hint has
  left add up to no more than its lifetime (`HintInv`), which gives `HintsAreConfirmed`; what
  a call holds as fitted is what its present request was fitted to, although a hop, a retry or
  a rejected reply fits again (`CallInv`, `ReadMeansAnswered`).
- Redirect links: the gate is not wider than it should be (`GateInv`), and a refused batch has
  asked, and may still ask, fewer times together than the gate has places (`LateInv`), because
  a link enters the gate only while its batch is not refused (`RefusedStops`).
- Feeds: a fetch recorded as failed brought no entries and came from the feed itself, so a
  health row that enters backoff was advanced by a failure of its own (`FeedInv`,
  `BackoffEarned`).

*ServerProofs*, about the others.

- The scheduler: jobs run only where the scheduler is on, and that only where the lease is
  held (`LeaseInv`, `OneRunner`); the age of the recorded success is never less than the time
  since something was really checked (`AgeInv`, `OkMeansFresh`).
- Due topics: every minute a topic has waited lies within an interval of one of its rows, and
  of the rows that may still count, no more are stamped later than the wait began than were
  in the future at some setting of the clock (`CoverInv`, `CheckedInTimeAlways`).
- Knowledge: neighbouring revisions are one version apart and the last one is the summary in
  use (`FactsInv`, `TimelineIsContiguous`), through pruning at either place.
- The cut of a summary: the prefix below the interval still to be searched fits, the one
  above it does not (`Between`), and each round makes the interval smaller, so it is empty
  after as many rounds as there are sentences; token counts grow with the prefix
  (`CountsGrow`), so no longer one fits (`BestPrefixIsBest`, `CutsLoseTheLeast`). Where this
  takes induction, the proof considers the least number that fails (`Least`).
- Migrations: the ledger is an initial segment of the migrations, and a process that works
  through its list is at or behind the ledger's end (`WorkInv`). A process that finds its next
  migration applied by another rolls back and gives its start up, so one that serves has
  applied, or found applied, all of its own and no others (`ServersHaveTheirSchema`).

*ConfigurationProofs.* The live settings, and what a pending setup will write, leave to the
environment the fields it supplies (`Follows`, `SetupInv`); from it `LiveSettingsAreDurable`,
`EnvironmentStaysOut` and, with the revision check, `NothingUnseenIsLost`: a setup saves the
settings the process holds, which are those of the file unless somebody changed it, so that it
replaces only the key. The application is open just when its start of the scheduler went
through (`OpenIsStarted`), which does not mean that the scheduler runs (section 5).

The assumptions on constants are those of the modules (`ConstantsAssumption`,
`PipelineAssumption`, `HeartbeatAssumption`, `LifecycleAssumption` with `NoRowAssumption`: the
value for "no row" is no row, `ConfigAssumption`) and of the compositions
(`IntentsAssumption` of `MCTopics`, `EnvironmentAssumption` of `MCEnvironment`). TLC evaluates
all of them. `AtomicAssumption` follows from the second. They say that numbers are numbers,
that bounds which are at least one in the code are at least one, that a deadline is shorter than
the age at which others give its task up, and that a value which stands for "none" is not
one of the others.

Only model-checked: all liveness, because the prover does not do fairness.

## 5. Where the code disagrees with its documentation

Each of these is a run with `expect: violation` and an entry under `findings`.

| Run | Disagreement |
|---|---|
| `heartbeat_false_recovery` | a check that only analyzed leftovers counts as contact with the source |
| `pipeline_starved` | stranded articles are crowded out of the batch by a feed that fills it |
| `feed_replay` | a topic that stored a part of a feed's version only is told by a 304 that it has it all |

The same modules show more, which no run keeps and no document rules out; the event to add
is in brackets, and the hazard at that line in `PROJECT.json` says what follows.

- A send that times out is released without counting an attempt, so `max_retries` does not
  bound such sends (`WithinBudget` with `TimesOut`; `crud.py` 1368).
- A send that timed out is no longer among the live claims while its thread still runs; after a
  clock step its row is released and sent beside it (`KeepsPromise` with `TimesOut` and
  `clock_step`; `web/state.py` 130).
- `_record_result` is said to keep a check from filing "its result against a topic it never
  looked at" (`checker.py` 766-769). Its look at the generation is in autocommit and its insert
  in a transaction of its own, so that a delete and a re-create in between let it
  (`RecordResult` with `replace`; `checker.py` 771).
- Recovery compares wall-clock stamps, and an initializer's deadline is the event loop's: with
  the wall clock set ahead, recovery writes a live one off (`RecoversOnlyAbandoned` without
  `jumped`; `crud.py` 244).
- `start_scheduler` returns None not only "when another process holds the scheduler lease"
  (`scheduler.py` 533) but also when the lease's directory or file cannot be made, opened or
  locked; its callers ignore the result, so that the application is open with nobody to check
  topics (`scheduler` is "refused"; `settings.py` 376, `main.py` 138). `/health` says `stopped` then.
- The setup page saves the settings that the process has held since it started, over whatever
  was put into the file by hand since (`NoUnseenLoss` without `drift`; `settings.py` 356).
- A sender of a deleted topic's row settles the row that took its id
  (`SentMeansDelivered` with `topic_delete`; `checker.py` 1076).
- An alert being sent when the recovery commits is queued again if its attempt fails, and
  leaves after the all-clear (`send_failure`; `crud.py` 1331).
- With the newest row an internal failure, an older check files a healthy row beneath it
  between another check's decision and its claim, and an outage is announced that the rows
  do not show (`LatchTracksLog`, 2 checkers, `pipeline_failure` and a lost check, threshold
  1; `heartbeat.py` 104).
- A check holding old settings revokes what the replacement of its topic has queued
  (`LatchIsOwed`, 2 checkers, `configure` and `replace`; `checker.py` 913).
- A check whose merge was refused commits without comparing the knowledge version and
  repeats an alert another check has made (`Serializable` with `stale_merge`;
  `checker.py` 328).
- Recovery at start-up takes the claim of a CLI command that still runs, a retry claims the
  topic again, and the command's terminal status lands on that claim
  (`ClaimHeldUnlessDisowned` without `disowned`; `crud.py` 202).
- A check asked for over the API runs beside a bounded one after 600 s
  (`BoundedChecksExclusive` with the API's checks counted; `web/api.py` 174).
- Each row stamped in the future delays the topic once more after the clock was set back
  (`CheckedInTime` without `future`; `crud.py` 443).
- The mode hint's time starts anew with each success, so a busy process may never ask in
  the first mode again (`analysis/llm.py` 936).
- Links of another batch that already wait start during the cooldown
  (`scraping/google_news.py` 395).

## 6. What is not modelled

- Text: prompts, citations, restatement, diffs, parsing, token counts of prompts, templates.
  What it decides reaches the models as a free choice (the gate an analysis stops at, the
  articles that fit).
- Network: redirects, size caps, address checks, article extraction, the notification
  services. A source is what `FeedFetch` says it may answer.
- Requests: CSRF, the host list, the rate limiter, exports and search.
- The limit on topics checked at once: the models have one topic, or one feed of two.
- The two dedup keys, content reuse and near-duplicate similarity are one test in
  `CheckPipeline` and `FeedHealth`: what the topic does not hold yet.
- The bodies of the migrations; vacuum and cleanup beyond the rows they delete; missed
  ticks of APScheduler; file modes; the masking and validation of settings.
- The commands of the CLI that only read.
- Logging, clock helpers, the evaluation harness and the installation scripts: they keep
  no state that a property could relate.

## 7. Plan

Done: all modules of section 2. Open, in this order:

1. `CheckControl` over `CheckPipeline`: which of the overlaps `CheckPipeline` allows the
   guards of one process leave, and whether a refused merge can still repeat an alert then.
2. Two topics in `DueTopics` with the cycle's concurrency limit.
