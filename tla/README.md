# Verification of Niyantra

Niyantra is a local dashboard for AI quotas: a Go server captures quota
snapshots of several providers, by hand or with a polling agent, stores them in
SQLite, detects reset cycles and usage sessions, and raises alerts. This
directory holds TLA+ models of the parts whose correctness depends on order,
concurrency and failure, the TLC instances that check them and TLAPS proofs.
Paths below are relative to `src/`.

Check a model with `tlc -config X.cfg M.tla`, a proof with `tlapm M.tla`.
`PROJECT.json` lists components, runs, mutants (a plausible bug that breaks each
property), the source lines of every definition, findings, hazards, theorems.

## 1. Inventory

| Part | State | Operations | What is hard |
|---|---|---|---|
| Agent manager (`internal/agent/manager.go`) | `cancel`, `agent` | Start, Stop, IsRunning, cleanup of its goroutine | the goroutine outlives Stop; toggles and shutdown race with it |
| Polling agent (`internal/agent/agent.go`) | failure counters, session managers | Run, poll, backoff, token refresh, retention | one goroutine per provider; a poll outlives its cancellation |
| Notification engine (`internal/notify/engine.go`) | settings, `guard` | checkQuotaAlert, OnReset, Reset*, Configure* | check, send and set are not atomic; partial delivery |
| Digest batcher (`internal/notify/digest.go`) | pending batch, timer | Add, SetEnabled, flush | a fired timer waits for the mutex |
| Tracker (`internal/tracker/tracker.go`, `internal/store/cycles.go`) | last readings in memory, cycles in the database | Process, LoadBaseline | memory and database come apart: restarts, failing statements, order of snapshots |
| Session manager (`internal/tracker/session.go`, `internal/store/sessions.go`) | current session in memory, rows in the database | ReportPoll, Close | idle timeout, crash, two agents |
| Manual capture, data handlers (`internal/web/handlers_quota.go`, `handlers_data.go`) | snapshots, accounts | snap, adjust, delete, claim bonus | check-then-act, lost updates, deletes during capture |
| Configuration (`internal/web/handlers_config.go`) | table `config` | PUT and its reaction | commit and reaction are separate |
| Antigravity client (`internal/client`) | cached connections | Detect, FetchQuotas, Reset | shared without a lock |
| Store (`internal/store`) | about twenty tables | migrations, import, deletion, alerts, secrets, subscriptions | crash between migration and version; keyring against database |
| Codex tokens (`internal/codex`, `agent.go`) | `auth.json`, shared with the Codex command line | detect, refresh, save | a refresh token is accepted once |
| Rate limiter (`internal/web/ratelimit.go`) | token buckets | allow, cleanup | bursts at the window's edge |
| Claude Code bridge (`internal/claude/bridge.go`) | snippet in Claude Code's `settings.json`, a data file | setup, disable, read | two writers of one file; half-done setups |
| Backup and restore (`cmd/niyantra/backup_helpers.go`) | three files of a database | copy, redact, rename aside, replace, roll back | dying between renames; programs that have it open |
| Pure algorithms (readiness, forecast, advisor, costtrack, gitcorr, tokenusage) | none | computations | boundaries, missing data |
| Plugins, MCP, CLI, frontend | processes, views | see PROJECT.json | processes that hang |

How they interact: `NewServer` boots everything and wires the callbacks
`tracker.onReset -> notifier.OnReset` and `notifier.onNotify -> CreateAlert`.
PUT `/api/config` starts and stops agents and reconfigures the engine. An agent's
poll stores snapshots, checks quotas through the engine and reports to the
session managers. POST `/api/snap` stores snapshots and feeds the tracker. All
of them share one SQLite database, so every statement is atomic and every
sequence of statements is not.

What makes each part correct: the manager can always stop whatever polls; an
alert is neither repeated nor suppressed without cause; accepted alerts go out
once; a cycle is the quota's cycle, with a peak and growth that account for what
was read; a session has one owner and one end; no row outlives its owner and the
status page shows the newest reading; an upgrade loses nothing and is finished
before it is served; a secret that was set is what is read back; a refresh token
is used once and the last one is kept; an import merges; a restore replaces the
database or leaves it; the bridge leaves what others wrote into their settings; what is predicted
follows from what was observed.

Differences between documents and code that no run needs to show: the user guide
lists reset detection among the steps of automatic capture
(`docs/USER_GUIDE.md:316-322`), but the agent never calls `tracker.Process`; it
describes exponential backoff (`:329`), while `agent.go:139-160` lets three
attempts fail and then skips polls in a fixed pattern for antigravity and for
good for others; retention (`helpers.go:264-284`) does not touch `snapshots_v2`,
the only table the agent writes; "0 = keep forever" (`:693`) is refused by the
validation of `retention_days`.

## 2. Modules

**AgentLifecycle** models the manager with all of its callers. A critical section of
`Manager.mu` is one action, `Stop` is two (take the cancel function, call it),
and the goroutine of an agent is a process: `FirstPoll`, `TimerFires`, `PollDone`,
`RunReturns` and `ClearManager`, the cleanup, which clears whichever agent is
registered. A PUT commits, then reacts. `Boot`, the two `Shutdown` calls, `Exit`,
`Crash` and `Restart` are the process. Two history variables say when the code's
assumptions fail: `overlapped`, an agent was started while another one's
goroutine still existed; `raced`, two PUTs of auto_capture were in flight at once.

**NotifyEngine** models one call of checkQuotaAlert as the steps `BeginCheck`, `Queue`
or `SendAll`, and `SetGuard`. A percentage is whether it is above the
threshold. `fired`, `earned`, `unheard`, `guardedFor` and `startedIn` are history.
`ClearGuards` is shared by reset, Quick Adjust and expiry. The batcher is seen through
Add's answer and the batches it flushes: an alert it takes sets the guard at once and is
`waiting` until `DeliverDigest` sends its batch, without a look at which channels took it.

**DigestBatcher** has one action per critical section of its mutex, plus
`TimerFires`, after which a timer can no longer be stopped, and `FlushDone`, the
end of a delivery. **AlertOutbox** is the abstract specification: accepted alerts are
delivered, once, in groups of at most `MaxBatch`. The refinement maps pending
alerts and batches in flight to `waiting`.

**ResetCycles** models the tracker with every SQL statement as a step, because each
may fail (`Fail`) and the process may end between any two (`Restart`). A reading
carries the number of the quota window it was taken in; the reset time and
the capture time are abstracted to the same numbers, fractions to a few equal parts. The
requests that feed it fetch and store without a lock. Deletion and adjustment of
stored snapshots are there because `LoadBaseline` reads them. The truth about
the provider (`used`, `window`) and the history `seen`, `lastSeen`, `steady` are
what the properties compare with; `unrecorded[k]` is the growth of a cycle that was read while
`hasBaseline` was unset, because no snapshot had been processed whole. `steady[k]` says that nothing has come between
memory and the processed readings of `k`: no restart that loads other readings,
no overtaking, no half-made cycle.

**SessionTracking** models the session manager, again statement by statement; time is
counted in ticks since the last change of usage, which is all the code measures.
Two agents of one provider overlap as AgentLifecycle allows. An agent whose polls are paused
or fail, or that finds Claude Code's data stale, is `silent`: it reports nothing until a poll
succeeds again, which it need not.

**SnapCapture** models everything that writes accounts, readings and subscriptions. A
worker is a request, the agent or a program: POST `/api/snap` (several accounts in one
response), the provider buttons, a poll, `niyantra snap`. Its SQL statements are
steps (`UpsertAccount`, `SelectAccount`, `InsertReading`, `SaveSnapshot`,
`FindSubscription`, `LinkSubscription`), any of which may fail, refuse or be the
last of a program that dies. What happens to the job then differs by kind, as in the
code: a snap goes on with the next account, a poll or a command gives up. Edits
(Quick Adjust, account metadata, bonus) are a read and a write (`Edit`); deletions of
snapshots, accounts, subscriptions and usage logs cascade. History variables name
the excuses: `crossed` (two captures of an account overlapped), `doubled`
(auto-linking was disturbed), `torn` (a capture was cut short), `clashed` (two edits of
a row overlapped); `asked` is what users have set.

The other modules are parts that share no state with one another:

| Module | Models | A step is |
|---|---|---|
| **SchemaMigration** | `store.Open`, the 25 migrations, several programs | a migration's commit, the record of its number, a death between |
| **SecretStore** | sensitive settings, dashboard token, VAPID pair | reading the row, writing the keyring, writing the row; a locked keyring |
| **SystemAlerts** | CreateAlert, dismissal, expiry | one statement |
| **ProviderPolling** | pause after failures, Codex tokens of agent, snap and command line | reading `auth.json`, refreshing, saving; a lost answer |
| **LanguageServers** | detection, ranking and cache of connections, used by snaps without a lock | a read or write of the cache, a call; accounts change, processes end |
| **UsageImport** | export of one machine, import on another, twice | a whole export or import (one transaction) |
| **DatabaseRestore** | backup, redaction, restore, programs that use the database | one rename, one deletion; opening, a commit, a checkpoint; death at any point |
| **ClaudeBridge** | setup and disable of the bridge, its readings | reading or writing the settings; Claude Code and its user write them too |
| **RateLimiter** | allow, Retry-After, cleanup | a request, a tick, a cleanup |
| **ActivityViews** | history, heatmap, streaks | one computation per set of rows |
| **Forecasts** | rates, group forecasts, windows, cost | one computation per sequence of readings |
| **AccountAdvice** | grouping, readiness, advisor, estimates | one computation per account data |
| **Subscriptions** | create, update, delete, time; renewals, insights, budget | one request, a passing of hours |

What SQLite does when a database is opened, written, checkpointed and closed, or its
files are renamed meanwhile, and what Claude Code and its user do to the settings, is not
in the repository: DatabaseRestore and ClaudeBridge model it as external, from what the
code relies on. Texts are seen as what the code compares: SchemaMigration abstracts a row to its
account and mail, ActivityViews, Forecasts and UsageImport give a time one of the text forms the
program, the database and an import write, because SQL compares them as texts; in UsageImport
an entry has RFC 3339 in UTC or in another zone, or the form of the database's clock, and its row keeps it.
Forecasts and costs are exact fractions.

Modules MC* instantiate these for TLC. **MCParts** joins the parts: its variable `part`
names the one that starts from its own initial states and moves, all others rest. So
one run explores the sum of the parts, not their product, which is enough because
they share no variable. **SharedFiles** (ProviderPolling with ClaudeBridge) and
**DatabaseFile** (SchemaMigration with DatabaseRestore) put two parts under one property:
what is written into other programs' files, and what changes the database as a whole;
**Predictions** (Forecasts with AccountAdvice) does so for what is said about stored
readings. **Sums** has the sums and averages both use.
**AgentLifecycleProofs**, **NotifyEngineProofs**, **SessionTrackingProofs**,
**SnapCaptureProofs**, **ResetCyclesProofs**, **ServingProofs** (the limiter, the alerts,
SharedFiles, LanguageServers and DigestBatcher), **DatabaseProofs** (SecretStore and
DatabaseFile) and **RecordsProofs** (Subscriptions, UsageImport, ActivityViews and Predictions) hold the
theorems.

## 3. Runs

Every property of a passing run has a mutant in PROJECT.json: a changed definition,
kept in the module above the original, for which TLC finds it violated.

| Run | Instance | Shows |
|---|---|---|
| agent | 2 agents, 2 requests | TypeOK, RunningIsLive, SpacedTogglesKeepControl, SettingTakesEffect, CancelledAgentEnds, SilentWhenDisabled |
| agent_orphan | the same | violated: see 5 |
| digest | 5 alerts, 3 timers, batches of 2 | TypeOK, NothingStranded, BatchBound, KeepsOutboxPromise (refinement, with liveness) |
| notify | 2 keys, 2 checks, 1 channel, 2 waiting alerts per key, 1 reset | TypeOK, OncePerChecker, GuardIsEarned |
| notify_reset | 1 key, 1 check | violated |
| cycles_timed | 1 key with reset times, 2 requests, 3 snapshots, 1 edit or restart | TypeOK, OneWindowPerCycle, CycleAccounts, ResetsAreReal |
| cycles_models | 2 models in one snapshot, reset times may be missing, 1 request | CycleAccounts, ResetsAreReal |
| cycles_phantom | 1 key, 2 requests, no edits | violated |
| sessions | 2 agents, 2 sessions, 1 failure or crash, timeout of 1 tick | TypeOK, OpenIsHeld, EndCoversSnapshots, EndedIsFinal, QuietSessionEnds |
| capture | 2 workers, responses of one and of two emails, 2 providers, 2 fields, 2 jobs, 7 rows, 1 failure | TypeOK, NoOrphans, OneAutoSub, CapturedInBoth, StatusShowsNewest, EditsStick |
| parts | see below | DatabaseStays, SecretsHold, AlertsHold, SharedFilesHold, AccountsAreCurrent, ImportsHold, ViewsOfActivity, PredictionsHold, OverviewHolds, LimitsHold |
| import_own | the import part, any file | violated: see 5 |

A property of parts is a conjunction of named ones, which its module states one by one:

| Property | Says |
|---|---|
| DatabaseStays | the version is never ahead of the schema; whoever serves has every change; only v12 refuses; rows are moved once, to their account, and none is lost. A database at its path is whole, however a restore fails or dies; no row is gone before it is replaced; backups that are left are redacted |
| SecretsHold | what was set is read back; no plaintext where it is not allowed; one VAPID pair; programs agree on the token, except for those that read it before a rotation |
| AlertsHold | one active alert per type, also if statements fail, but for a query that fails; the alert raised last is seen |
| SharedFilesHold | `auth.json` holds the token that is accepted; no token is presented twice; Antigravity is always tried again. What Claude Code and its user wrote stays, of the status line the command; the bridge is as set, and fed where it can be, once the reaction is over; captures are readings that were given |
| AccountsAreCurrent | a snap that overlaps no other returns the account each IDE shows, never one a workspace process kept |
| ImportsHold | nothing is added by importing a file of whole seconds in UTC twice; an entry of any form is there, or a row that is taken for it; rows go to their owner |
| ViewsOfActivity | the history is the newest rows; streaks are runs of days |
| PredictionsHold | rates lie between observed uses and agree among three implementations; a group lasts as its models do; cost needs use; readiness, switching and waiting help who follows them |
| OverviewHolds | renewals and trial ends are announced in time and listed alike, up to the limit of the list; disuse and budget are told as recorded |
| LimitsHold | a bucket and the flow bound any burst; Retry-After is enough; nobody notices the cleanup |

Most have exceptions, and name them: overlap, a failed step, a program that died. A
property without its exception is what section 5 calls behaviour met on the way.

Bounds. Agents is a bound on agents alive at once, not on how many ever run: identities
are reused, and two are a registered one and one that is lost or winds down. In
the batcher five alerts are two full batches and the start of a third, so a late
timer meets a later batch. In the engine two checks race for a key, and an alert may wait for a digest while
its guard is cleared and another one joins it (`MaxWaiting`); `MaxCycle` only stops a counter. In the tracker two snapshots may overtake
each other and a third shows what memory and database then hold; `Jump` of one part
and a quota of two parts distinguish a small from a large increase; `MaxEdits`
of one is a restart or an edit at any point. In the sessions `MaxCrashes` bounds
crashes and failing statements together, `Rows` the sessions: two are one per
overlapping agent, or one after the other. In the captures two workers overlap, a
response of two emails is a loop that is interrupted between its rounds, the second
provider stands for all but Antigravity, and seven rows are an account, two readings,
their copies, a subscription and a usage log.

In parts: two programs open a database three times, so that one dies and comes back
while the other migrates; two holders of secrets make three sets and one mishap; two
goroutines raise four alerts of two types; four refresh tokens and one lost answer;
two snaps meet two IDEs, one with a workspace process, two logins and one change;
two machines, four kinds of rows, times from a midnight to a fraction over a second, in three
forms, another zone that is two seconds ahead so that its texts meet other entries; histories of
two tables, two hours and four days; forecasts of two models and three readings;
advice on up to three models; two subscriptions and a list of one (the code lists ten), zones behind, at and ahead of
UTC, a hundred days; and for the limiter one key with a limit of two, because keys
share nothing, over almost four windows. One program uses, and dies under, a database
that is restored once, with two troubles: a rename fails and then the way back does, or
the program dies and comes back; a third database is the one made where none is. Three calls of
the bridge are a start and two requests that overlap, against one edit of the settings at
any point and one failing write or death; the edit also adds the owner's command.

ResetCycles runs out of snapshots, SnapCapture of jobs and rows, and the parts of their bounds, so
their runs do not check deadlock; all others do.

Symmetry is used in notify, cycles_timed and capture only, over identities the
specification never orders or chooses; all three check safety.

Fairness. Goroutines and requests that were started go on (weak fairness per agent
and per request in AgentLifecycle); timers fire, mutex waiters get their turn and
deliveries end, since every channel has a timeout (DigestBatcher). In
SessionTracking statements that were begun end and a running agent whose polls succeed goes on
polling (weak fairness); that they succeed is not assumed, since providers pause for good and
data of an unused Claude Code stays stale (`agent.go:139-160`, `:199-234`); for time it is strong fairness, because a poll disables the
tick while its statements run and never stops the clock. Users, signals, crashes and
restarts are never obliged to anything. NotifyEngine, ResetCycles, SnapCapture and the parts
state safety only.

## 4. Proofs

All theorems hold for any sets of agents, requests, keys, channels, alerts, timers,
programs, holders, handlers and IDEs and any bounds; each rests only on the named assumption
of its module (`NoAgent` is no agent, `NoTimer` no timer, `MaxBatch` is positive, a bound is
a natural number, and the like). Every module also proves type correctness: `TypeCorrect`,
`Spec => []TypeOK`, or, for the parts, as the first conjunct of the inductive invariant.
Where the argument is by "one at a time", a history variable
says that it was so (`met`, `raced`, `together`, `disturbed`, `crossed`), and the
invariant speaks of nothing else: the exceptions of a property are those of its proof.

AgentLifecycleProofs, from `LifecycleAssumption`:

- `ReportedAgentIsLive`: RunningIsLive is not inductive, since a `Stop` under way might
  cancel the registered agent. `LInv` adds that a cancel function in the hands of a
  `Stop` belongs to a live, uncancelled agent that is not registered (HeldIsLive), and
  that no two threads hold the same one (HeldOnce). It is inductive because `Stop` clears
  the registration in the same critical section in which it takes the function.
- `SpacedTogglesKeepControlHolds`, from `CInv`: without an overlap at most one goroutine
  exists (NoOverlap), so the cleanup of an ended agent cannot hit a live one, and only a
  thread between the halves of Stop holds a cancel function (HeldInStop).
- `SettingTakesEffectHolds`, from both and `SInv`: a booting process is fresh; PUTs that do
  not race are in flight one at a time and carry the stored value, and the one that is
  stopping the agent has left none registered. When it has cancelled, control (CInv) says
  that the agent it cancelled was the only one.

NotifyEngineProofs:

- `OncePerCheckerHolds`, from `OInv`: between the start of a check and its alert the
  checker has sent nothing (NothingYet), and what it has sent is behind a guard or the
  checker is about to set it (SentIsGuarded). Two lemmas say once what sending and
  clearing do to the history.
- `GuardIsEarnedHolds`, from `EInv`: a check that is about to set the guard has an alert that
  is accounted for (taken, waiting, or unheard in one of the two ways the engine does not
  look at), also if the guard was cleared or a digest went out in between.

SessionTrackingProofs, from `HInv` (a held row is open, no two managers hold it, only
running agents hold one, the values about to be written are known):

- `OpenIsHeldHolds`, with OpenHasHolder; `EndCoversSnapshotsHolds`, with CountedInTime
  (snapshots are counted before the timeout is over, and time only passes);
  `EndedIsFinalHolds`, an action property, because only held rows are ever written.

ServingProofs. The rate limiter, from `RInv`, for any keys, limit, window and precision of
Retry-After:

- `BurstBoundHolds`: what a bucket holds and what has been taken since some request came
  from a full bucket and the flow since (Accounted). `WaitingIsEnoughHolds`: by the
  promised time a token has flowed back, unless another request took it, and then the
  promise is withdrawn (KeepsPromise). `CleanupIsUnseenHolds`: a deleted bucket would be
  full (Refilled). Together `LimitsAlwaysHold`.

The alerts, from `AInv`:

- `AlertsAlwaysHold`: ids are given once (IdsAreUnique); as long as a type has not been
  raised at once by two goroutines, one at a time raises it (Alone), and what it found
  is still so when it acts (FoundIsCurrent), or the alert was dismissed meanwhile; a query that
  fails is in `unread` until one finds that there is no alert.

The files of other programs, together `SharedFilesAlwaysHold`:

- `PollingAlwaysHolds`, from `PollingInv`: while nobody else was at the file one caller
  at a time works on the tokens (OneAtATime); from reading the file to saving the
  answer it is in one of the steps between (StepsMatch), and while no answer was lost what it
  holds is the token that is accepted (LastIsKnown). The failures of Antigravity beyond three
  are the polls that were left out (PausesAreCounted), so they end.
- `BridgeAlwaysHolds`, from `BridgeInv`: the settings, and every copy a call is about to
  write back, have what their owner wrote last, until an edit falls between a call's read
  and its write (NothingIsLost), of the status line the command only once it was `rewritten`; an undisturbed reaction is alone and goes by what is
  still in the file (Follows), and when it is over the settings are as the bridge is set
  (Reactions).

The language servers, from `LSInv`:

- `AccountsAreAlwaysCurrent`: as long as a snap is alone (OneIsAlone), and for every IDE to
  which nothing has happened since, the servers that run are among those found, those found
  are left to ask or have answered, hubs first, and what has been taken is shown
  (IDEIsCurrent).

The digest batcher, from `BatcherAssumption`:

- `NothingStrandedHolds`, inductive as it stands; `BatchBoundHolds`, which needs the
  finiteness of the batch; `OnePlaceHolds`: no alert is in two batches.
- `StepsAreOutboxSteps`: the safety half of KeepsOutboxPromise. Add is Accept, FlushDone
  is Deliver (OnePlace makes `waiting` lose exactly the batch), all other steps stutter.

DatabaseProofs. The secrets, from `SecretInv`, for any programs and any number of sets,
keyring failures and deaths:

- `SecretsAlwaysHold`: an undisturbed key has one writer (OneWriter), whose write, seen at
  each of its steps, turns what reads back from the old value into the new one (WriteIsSound).
  Two keys never share a reference (ClaimsAreApart), else the write of one would change
  the other. Plaintext is neither in the table nor about to be (Sealed); the VAPID halves were set
  last by one call, or the second is to come (PairInv); a token some program goes by is the
  last one, or about to be it (TokenInv).

The migrations, from `SchemaInv`, for any programs and emails; together with the next
`DatabaseAlwaysStays`:

- `UpgradesAreSound`: what a program has left behind it is in the schema (Progress), and while no
  two have met, the version is the one it left (OneMigrates). Before v12 emails
  tell accounts apart and only Antigravity rows name one (EarlyRows), so the accounts v21
  makes own the rows that were without (OwnersExist); v25 copies what there is once, or again
  only after one that stopped in between (CopiesAreDue). Lemma WithAccountsIs says what making the accounts adds: one
  for each mail that has none, with numbers of its own.

Restore, from `RestoreInv`, for any programs that use the database, restores and troubles:

- `RestoresAlwaysHold`: while no program opened the database on the way, nothing but the
  current one is at the path and what was moved is not (PathIsClear), what is expected is
  what its files hold, wherever they are (RowsAreKept), and while the database is at the path
  or will be put back, database and log lie together but for those that were moved
  (FilesTogether). That the last one moved goes back first is what FilesTogether needs
  of the roll back. Lemmas say where a log and the rows go when a file is moved or copied into
  another (LogGoesThere, FileMoves, RowsMoveAlong).

SnapCaptureProofs, from `CaptureAssumption`, for any workers, providers, emails, fields,
responses and bounds. `TInv` says what a worker holds at each step, `IdInv` that ids are
given once, also those of rows about to be stored, and that rows of different tables
differ:

- `NoOrphansHolds`: a deletion takes the rows that refer to it with it, and a statement
  that would refer to a deleted row is refused.
- `EditsStickHolds`, from `EditInv`: the copy an edit writes back is current but for edits
  that overlap (CopyIsCurrent), and unless some did, only one edit holds a row.
- `CapturedInBothHolds`, from `BothInv`: the reading a snap has stored and not copied yet is
  the one its job names (RowsMatch).
- `OneAutoSubHolds`, from `LinkInv`: while an account is not in `doubled`, either one capture
  is about to insert its subscription and it has none, or it has at most one.
- `StatusShowsNewestHolds`, from `NewestInv`: while an email and provider is not in `crossed`,
  one capture at a time expects to store for it (OneExpects), what is stored was
  taken before what it brings (StoredIsOlder), so the order of storing is that of taking (InOrder).

ResetCyclesProofs, from `CyclesAssumption` and `AbsenceAssumption` (no reading and no cycle
are not a reading and not a cycle), for any accounts, models, requests and bounds. `IInv` says
that the variables between two statements belong to the holder of the mutex (Exclusive,
WorkOK), what it found out about the key at hand is still so (CurrentOK), and the memory,
the row and the history of a key agree while it is steady (KeysOK):

- `OneWindowPerCycleHolds`, `CycleAccountsHolds` (the peak covers the last reading and is at most
  the first use and the increases since, recorded or `unrecorded`), `ResetsAreRealHolds`, an action
  property: a cycle of a steady key is closed only when the window has changed.

RecordsProofs is about computations that go over sets and sequences of any length, by folds.
The library's induction theorems and theorems on folds take operators as parameters,
which the provers cannot instantiate; so its first part states both of sets and functions:

- induction on numbers and on finite sets says what is in a *set* that contains the first and
  the next of each (NatSetInduction, SubsetInduction): the least element outside, or the lack of one,
  would make an injection of a finite set into a smaller one;
- a fold's step is a function on pairs, and FoldExists builds its value on all subsets by
  induction on their size. So the function the fold's definition chooses exists, and
  the fold along a sequence is the last of a run of values (FoldRun): what holds at first
  and is kept by each step holds at last (RunInduction);
- sums are total functions of this kind; TotalIs shows that they do not depend on the order
  in which elements are picked, TotalOfPart that a part sums to no more than the whole.

From them, by one lemma per fold (AccountRun, SubRun, RowRun, WalkRun):

- `OverviewAlwaysHolds`, from `LedgerInv`: the row of the last capture by hand is kept while it is young
  (RowIsKept). What is announced follows from rounding (AnnouncedThen, ListedThen), what is
  called unused from RowIsKept; a renewal the list leaves out is no earlier than those it is
  full of (UpcomingRenewals). The two budgets are a sum and one over a part of its
  terms (BudgetsThen).
- `ImportsAlwaysHold`, from `ImportInv`: the accounts of every database are numbered without
  gaps and doubles, and rows belong to accounts of their kind and mail or came with a foreign
  number (Numbered, Owning). Importing an account, a subscription or a row only adds
  (Grows), settles its entry (HasAccount, HasSub, Settled), and leaves a database alone in which
  the entry is settled already; run along the file, a first import settles all its entries, so a
  second one changes nothing if every entry, by its text, is its own twin (OwnTwin). A twin is
  otherwise what TakenFor says (TwinsAreNear).
- `ViewsOfActivityHold`, for any request: among rows whose texts differ, those with fewer than n
  above them are the n newest or all (TopCount), and of a table written in one form texts and
  times are ordered alike (TextsOfATable); a row that is not merged has as many merged ones above it as
  can be shown. The walk over the days keeps, day by day, what its three counters
  mean (WalkIs): the row of days it is in, the longest it has seen, and the first that ended.

Predictions, for any models, readings, accounts and windows. Rates, averages and scores are
sums divided by numbers, and bounds of products with unknown factors are beyond the
arithmetic of the provers. So TotalBounds and RateSumBounds state, of sums, what holds term
by term (by induction on the set), RatioBounds and QuotientBetween bring it to quotients,
and each leaf is left with one product, settled by a lemma (TimesKeeps, TimesCancels):

- `ForecastsAlwaysHold`, with `Usages` the readings it speaks of: a weighted rate lies between the
  smallest and the largest counted, of whatever weights; a group's rate is a sum of ratios,
  and what is left a sum of numbers, so a group lasts as long as some model of it, and not
  longer than another (GroupThen, by RateSumBounds). That cost needs use, that rates agree
  and that a window's rows are found only as texts allow follow by cases.
- `AdviceAlwaysHolds`, with `Fleets` the accounts: what is shown of a model has a model of the
  reading behind it, unless the families of all Gemini models are unknown (ModelBehind),
  and a group is usable if and only if all that is shown of it is (ReadyIs). A score is
  bounded by what it is made of (ScoredBounds), which decides between old and recent, empty
  and half full accounts. After the soonest reset the account that is reset is full, or at
  least half full (ResetFills, HalfIs), so nobody is told to wait.
- `PredictionsAlwaysHold`: both, and the readings and accounts the run starts from are among those.

TLC checked these formulas or what they imply first. What is model-checked only:

- liveness (CancelledAgentEnds, SilentWhenDisabled, QuietSessionEnds, the promise of
  eventual delivery) is beyond the prover. Every invariant and every other action property of
  the passing runs is a theorem.

## 5. Findings

Violated runs, each with the document or comment it contradicts quoted in PROJECT.json:

- agent_orphan: the cleanup of a stopped agent removes a newer agent's registration; that
  agent then polls unreported and unstoppable (until auto_capture stays off, as SilentWhenDisabled shows).
- notify_reset: a reset during a check is undone by the check's second critical section.
- cycles_phantom: snapshots processed in the wrong order make a cycle.
- import_own: an export that has an Antigravity reading cannot be imported, since its times
  are written under a name the import does not read.

Behaviour met on the way, visible in the models and without a run of its own:

- Racing PUTs can leave auto_capture on without an agent (the premise of SettingTakesEffect).
- A graceful exit does not wait for `Run`, whose defer closes the sessions
  (`Exit` with an agent still in Run; `agent.go:74`, `manager.go:50`).
- A late timer flushes the next batch early (`TimerFlushes` takes whatever is pending;
  `digest.go:25` promises a window).
- Two overlapping checks notify twice (OncePerChecker speaks of one goroutine; `engine.go:11`).
- A guard, and the callback that runs "after a notification is successfully sent"
  (`engine.go:167`), can stand for an alert nobody got (`unheard`): the guard of a digest is
  set when the batcher takes the alert, and `deliver` ignores which channels fail
  (`engine.go:207-221`, `:408-450`); a failing desktop with no channel configured is no failure
  (`engine.go:298`). A restart drops what waits for a digest.
- A snapshot stored but not processed becomes the baseline after a restart and hides a
  reset (`tracker.go:57`); a missing last reading keeps the peak from rising (`tracker.go:222`).
  An error of one model leaves `hasBaseline` unset, and the growth of the others, read next,
  is in their peak and in no delta (`tracker.go:87-92`, `:232-235`).
- A session stays open while no poll succeeds: that of Claude Code, whose data is stale as soon
  as nobody uses it (`agent.go:203-206`), that of a Codex paused after three failures
  (`:153-157`), any other whose fetches fail, each until its agent stops.
- A crash leaves a session open for ever (`lost`; `docs/DATA_MODEL.md:673`), and
  UpdateSessionPeakValues stores values "if current values exceed them" only by
  its comment (`store/sessions.go:62-65`).

Upgrades and stored data:

- No database with Antigravity snapshots gets past migration 12: dropping the old table is
  refused by foreign keys that cannot be switched off inside a transaction
  (`store.go:604`). A program that runs it late, while another is further, would cascade
  over `snapshots_v2`.
- An import keeps Codex rows under the account number of the exporting machine; only Antigravity
  compares accounts when it looks for duplicates; costs and plan names of subscriptions are lost.
- An import stores the text of a time as it came (`import.go:271-275`), and looks for texts in UTC
  (`:91-95`). Entries with a fraction of a second, of another zone, or of the database's form,
  which it accepts (`:78-88`), are added again by a second import, as are rows that
  the database dated. A row of another zone hides an entry of the time its text shows, and at
  midnight UTC any row of the day in the database's form hides one.
- An error of the query by which `CreateAlert` looks for an active alert counts as none: it adds a
  second one (`alerts.go:29-34`, `:56-79`).
- Polls are stored in `snapshots_v2` only, while history, heatmap, forecasts, export, the
  advisor and the insight on disuse read the older tables: what the agent captures is
  not in them.
- Times are compared as texts of three forms. A history cut at its limit may show older rows
  than it leaves out; forecasts of Claude Code and Codex windows find the program's own
  rows only just after midnight UTC (`docs/API_SPEC.md:540`).

Polling and secrets:

- Three failures pause Codex until the agent is started again, also when the cause is gone. A
  Cursor that was offline for three polls counts as unauthorized and is paused likewise.
- A running server goes by its old dashboard token after `niyantra token rotate`
  (`main.go:269`, `docs/TESTING.md:197`).
- The bucket lets up to twice the limit less one through within one window, where
  `docs/SECURITY.md` and `docs/API_SPEC.md:358` speak of ten requests per minute.

Files shared with others:

- Every start switches the bridge on again where Claude Code is installed, also if the user
  switched it off, although the comment says "and user hasn't explicitly disabled it"
  (`server.go:111`).
- If the variable cannot be written, or the server dies after the snippet was, every later
  setup returns early and the variable is never set: a bridge in place that is never fed
  (`bridge.go:322`, "Idempotent").
- Setup and disable write the status line anew: its other keys, or one that is no object, are
  lost (`bridge.go:261-267`). Where `env` is no object it is left alone, and the bridge is in
  place and never fed (`bridge.go:399-405`); nor is the variable looked at where a snippet is
  found (`bridge.go:321-325`).
- A snippet the user has edited something around stays when the bridge is disabled. An edit
  between a call's read and its write is lost.
- A five-hour window that is missing from a reading is stored as unused; from 2030 on every
  reading with a reset time counts as invalid (`bridge.go:125`).
- A restore that dies between its renames leaves no database at the path; the next program
  makes an empty one there, and deletes the log. The old one is kept under its stamp.
- A server that runs over a restore goes on writing to files that were deleted.
- If the redaction fails, `niyantra backup` leaves the file with the secrets; the download
  deletes it (`backup_helpers.go:37`).

Views and advice:

- The streak is that of an older run when neither today nor yesterday was active
  (`docs/API_SPEC.md:702`).
- Polling an idle account hides what it has cost; the label "idle" is never given; a group
  that is missing from the latest reading is called exhausted; the handler switches the
  anomaly detection off (`handlers_forecast.go:141`).
- An account with Gemini models of unknown families only is shown as exhausted. An old reading
  can be the best account although the comment says never; alternatives are not sorted
  although the comment says so; the advice may be to switch to an empty account; a reset
  less than a minute away counts as unknown (`advisor.go`).
- Renewals are not rolled over, so each is announced once. Insights count a day less than
  the overview, cancelled subscriptions count against the budget in the overview only,
  an update without a status stores the empty one, and zones ahead of and behind UTC
  see different days. The overview lists ten renewals at most (`subscriptions.go:298`): more than ten can be
  announced, and those that are left out are the latest.

Races a property names as its exception are not caught by it. Of parts these are two programs that set up a
dashboard token or VAPID pair at once (`handlers_ops.go:252`, `dashboard_token.go:23`), two that
raise an alert at once, and snaps that use the cached connections together; a snapshot processed
out of order, or a restart, cannot happen in cycles_models, which is about missing reset times.

What holds says how far this goes: the manager loses an agent, and the setting its
effect, only through an overlap or a race; no goroutine repeats an alert; an alert that is sent
at once and refused by every configured channel suppresses no other; while memory and readings agree, no reset is made up; duplicates, lost
edits and stale status need an overlap; no upgrade skips a migration; secrets and tokens are
lost only with a failing step or two programs at once; a restore leaves a database whole
unless it is opened meanwhile or the way back fails.

## 6. Not modelled, and what is left

Left out, for these reasons:

- Conversions, field by field: provider adapters, responses of Cursor and Copilot, parsing of
  process lists, presets and prices, search and CSV export. SnapCapture starts from the
  converted snapshot.
- I/O with other programs: notification channels, plugins, the MCP server, Claude Code's
  session logs, git correlation. Where success and failure matter (a channel, a refresh, a
  fetch) they are choices of the models.
- The integrity check before a download; the temporary files of a restore that dies before
  it has moved anything; the activity log, which is only appended to; counters of data sources.
- The dashboard frontend, authentication, headers, middleware other than the limiter.
- Anomaly detection, which only tests call. Token usage sums counters.
- The limiter computes in floating point, the model exactly. A clock that runs backwards is
  left out everywhere. Digest windows have no length.

What could be added, the most useful first:

1. `onReset` of ResetCycles composed with NotifyEngine: a reset made up by processing out of
   order clears a guard.
2. Retention's schedule composed with SnapCapture.
