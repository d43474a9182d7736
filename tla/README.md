# NoobBoard: a TLA+ verification project

NoobBoard is a household status board written in Go. It collects the state of
Docker containers, an Unraid array, UniFi devices and HTTP probes into a
*snapshot*, shows each user what an admin has made visible, keeps a history of
status changes, sends mails, and lets admins (and, where an app is opted in,
standard users) restart things, either by hand or on the advice of a language
model. This directory models the parts of the server whose correctness depends
on the order in which goroutines, locks, writes and restarts happen.

Line numbers below are of the repository next to this directory.

## 1. Inventory

### Parts, their state and their operations

| Part | Source | State | Operations |
|---|---|---|---|
| Repair limiter | `internal/server/agent_plan.go` (`agentRepairLimiter`) | `lastByApp`, `global`, under `l.mu` | `allow`, `check` (both `decide`) |
| Repair handlers | `agent_plan.go`, `agent_repair.go`, `repair_requests.go`, `probes.go` | consumed nonces, stored repair requests | nine handlers that end in a control call |
| Sessions and login | `auth.go` | session map, stored sessions | login, logout, `requireAuth`, restore, renew, arm |
| Login throttle | `auth.go` (`loginLimiter`) | attempts by key | `retryAfter`, `recordFailure`, `recordSuccess` |
| User registry | `internal/users` | stored accounts | `Authenticate`, `ValidateSession`, `Save` |
| Runtime settings | `settings.go`, `apps.go`, `openai_auth.go`, `runtime.go` | `deps.Config`, redactor, LLM client, under `settingsMu` | one POST handler per section |
| Snapshot cache, poller | `server.go`, `status.go` | the cached snapshot | read, refresh, publish, invalidate |
| Status history | `internal/history`, `internal/db/history.go` | recorder's baseline, event log | `Record`, `Observe`, `Append`, `Prune` |
| Record store | `internal/db/store.go` | all records in memory and one JSON file | upsert, delete, prune, `SaveRuntimeSettings` |
| Metric store | `internal/db/metrics.go` | latency buckets in memory and one JSONL file | `AppendLatency`, `PruneLatency`, `ClearLatency` |
| Notifications | `internal/notifications` | preferences with what was last sent | `ProcessSnapshot`, `SavePreference` |
| Diagnostics rules | `internal/diagnostics` | none | snapshot to incidents |
| Privacy | `internal/privacy` | none | what a user sees, what a model is sent |
| LLM providers and tool loop | `internal/llm` | the ChatGPT client's tokens, under its mutex | diagnosis, plan, action review, refresh |
| OpenAI sign-in | `openai_auth.go` | pending logins, results, the callback server | start, callback, poll, save tokens |
| Adapters | `internal/adapters/*` | none | collect, control |
| Probe tracker, latency | `probes.go`, `server.go` | sample windows, latency buckets | observe, flush |
| Configuration | `internal/config` | read once | layer, read secret files, validate |
| Audit | `internal/audit` | append-only file | `Record` |
| Process, routes, web | `cmd/dashboard`, `http.go`, `internal/service`, `web/` | none | start, route, render |

### How they interact

* Every HTTP request is a goroutine of its own; the poller is one more. They
  share the `App` and meet at separate short locks: the limiter, the nonce set,
  the session map, the store, `settingsMu`, the snapshot cache, `historyMu`. No
  lock is held across a network call, so whatever a handler read before a
  collection, a model call or another lock may be old when it is used.
* A repair handler reads its gates from the settings, takes a snapshot from the
  adapters, may ask the LLM reviewer, consumes its nonce, reserves budget, sends
  the control call, polls the target, then writes the request record, the audit
  line and a history event.
* A settings handler assigns under `settingsMu`, then writes the store, then
  invalidates the cache; a refresh takes the settings under the same lock,
  collects, runs rules and mails, records history and publishes.
* A session exists twice, in the map and (when remembered) in the store, and
  refers to an account in a third place.

### What is hard, and what correct means

| Part | Hard because | Correct when |
|---|---|---|
| limiter | callers bring times read before the lock; sweeps are made by one caller's time | cooldown and cap hold over everything ever granted; a retry hint is enough |
| repair handlers | gates, review, nonce, budget and call are minutes apart; restarts | no call without its gates and its own reservation; a token acts once; an outcome is what happened; handlers end |
| sessions | two copies and an account, copies put back, expiry, restart | nobody is admitted on a password that was not valid, or after expiry; the session map stays within its cap |
| settings, cache | assignment, write and invalidation are three steps | what is stored was once in force; parts built from settings match them; the cache catches up |
| history | stamped, recorded and appended at three moments by several goroutines | recorded events chain; the recorder stands where they left it |
| stores | memory before disk, torn lines | a crash loses at most what was not acknowledged |
| notifications | read, send, write back, by several refreshes | repeats of a notice within its window are bounded by the overlapping refreshes; no recovery without trouble |
| throttle | ask and tell are two steps; windows; eviction | guesses in any window are bounded, and so is the map |
| users | bootstrap at every start; saves of copies | an ID and a name each denote one account |
| sign-in | callback, poll and expiry race; the callback server comes and goes | the tokens of a login are in one place, saved once, exchanged in time |
| ChatGPT tokens | calls share a client; refresh tokens are replaced when used | no replaced token is presented; no token expires on the way |
| tool loop | the model decides what to ask and when to stop | calls stay within the policy and are audited; the request ends |
| container control | requests may be lost, refused or unconfirmed; a restart is two requests | a restart asks for the start; success is true |
| device restart | the list is old; the restart cuts the network it is verified through | only a device seen down is restarted; recovery was seen |
| snapshot and rules | any collector may fail alone; failing and unconfigured look alike | blindness shows; no outage without evidence |
| visibility | facts, incidents and rollup are filtered separately, by an `AppID` that two names may share | a hidden app that shares its `AppID` with no visible one changes nothing in a user's view |
| probe latency | overlapping polls, clock read before the lock, restart | each reading counts once; the window holds the newest |
| configuration | four layers and a store, reread at each start | what was saved survives; a key file wins; tools stay with admins |

The full list of hazards, each at its line and with the property that covers it
or the reason why none does, is `hazards` in `PROJECT.json`.

## 2. Modules

| Module | Models | Checked through |
|---|---|---|
| `RepairBudget` | abstract: what the rate limit promises, over a log of grants that never forgets | `RepairLimiter`, `RepairFlow` |
| `RepairLimiter` | `agentRepairLimiter.decide` with its map, its slice and its sweeps | `MCAccess`, proofs |
| `RepairFlow` | the nine handlers, composed with the abstract budget | `MCRepairActs`, `MCRepairFlow`, proofs |
| `Sessions` | session map, remembered sessions, accounts | `MCAccess`, `MCSessions`, proofs |
| `LoginThrottle` | `loginLimiter` under parallel logins | `MCAccess`, proofs |
| `Accounts` | the user registry: bootstrap and saves | `MCAccess`, proofs |
| `RuntimeSettings` | settings handlers, store record, snapshot cache, poller | `MCSettings`, `MCRuntimeSettings`, proofs |
| `SettingsLife` | where settings come from: defaults, file, environment, key file, store | `MCSettings`, proofs |
| `AgentLoop` | a diagnosis with tools, over the chain of models | `MCSettings`, proofs |
| `StatusHistory` | recorder, event log, refreshes and repairs that feed them | `MCStores`, `MCStatusHistory`, proofs |
| `DurableMap` | abstract: what a store promises a reader after crashes and failed writes | `LineStore`, `RecordStore` |
| `LineStore` | the history and the metric file, line by line | `MCStores`, proofs |
| `RecordOps`, `RecordStore` | `FileStore`: the upserts; memory, temporary file, rename, load | `MCStores`, proofs; `RecordOps` also `Accounts` |
| `LatencyTracker` | the probe window and the latency buckets | `MCStores` |
| `Notifications` | refreshes that walk the subscriptions and send | `MCStores`, proofs |
| `Snapshot` | collectors, `collectSnapshot`, rules, rollup and the view of a role | `MCOutside`, `Snapshot_slow.cfg` |
| `DockerControl` | container control over the Unraid API with the fallback to SSH | `MCOutside`, proofs |
| `DeviceRestart` | list, restart and verification of a UniFi device | `MCOutside`, proofs |
| `SignIn` | the browser and the headless login with ChatGPT | `MCOutside`, proofs |
| `ChatGPTTokens` | clients, their tokens and the refreshes of parallel calls | `MCOutside`, `ChatGPTTokens_rotation.cfg`, proofs |
| `RepairFlow_proofs`, `Sessions_proofs`, `DeviceRestart_proofs`, `SignIn_proofs` | theorems about the component they extend | |
| `Access_proofs`, `Settings_proofs`, `Stores_proofs`, `Outside_proofs` | theorems about the parts that `MCAccess`, `MCSettings`, `MCStores` and `MCOutside` put side by side | |

`MCAccess`, `MCStores`, `MCSettings` and `MCOutside` each put several components
that share no state side by side: a variable `part` chooses, once and for all,
which of them moves, so the reachable states are the sum of the parts' and not
their product. Where components do interact they are composed in their own
modules: the handlers of `RepairFlow` act through `RepairBudget`, which
`RepairLimiter` implements; `Sessions` holds the accounts its requests are
checked against; `RuntimeSettings` holds the cache and the poller;
`StatusHistory` runs refreshes and repairs over one recorder and log;
`LatencyTracker` writes the rows that seed its window; `ChatGPTTokens` holds the
settings its clients are built from.

`PROJECT.json` (`map`) gives the source lines of every definition. Definitions
whose comment starts with "Mutation:" are not part of the specifications: each
is a plausible bug, put in the place of the definition that follows it to see
that a property notices. A property that is a conjunction of named parts is
listed in a run as a whole, under the name of the conjunction. A property that
no run lists, and that is no part of a listed one, is one the code does not keep
(section 3 names it under "Disagreements") or the type invariant of a module
whose other invariants say more.

### RepairBudget and RepairLimiter

`decide` runs under one lock, so it is one action. Its argument `now` is
evaluated by the caller before the call, so reading the clock is another action
(`ReadClock`) and any number of other calls may come between. `lastByApp` is a
function with `None` for an absent key; `global` is the set of the positions, in
the log of grants, of the times the slice holds, the order of the slice being
the order of the positions. `expireLocked` is `ExpireByApp` and `ExpireGlobal`,
evaluated at the caller's time as in the code. Time is in ticks, `Second` of
them to a second, so that rounding of `RetryAfterSeconds` is visible.

`RepairBudget` has neither map nor slice. A grant carries the caller's stamp
(`now`) and the time it was made (`at`); a new one is allowed when, by the time
on the wall, no stamp of the target is within the cooldown and fewer than `Limit`
stamps of any target are within the window.

### RepairFlow

A handler is a *route*: a sequence of named steps in the order of its source
(`Route`). `job[t]` is what the goroutine remembers between steps: the handler,
its position, target, action, token or request, what it saw, whether it was
reviewed. Steps of different goroutines interleave freely; the containers, the
array and the settings change between them. One action models one step for all
handlers that have it:

| Action | Code |
|---|---|
| `BeginPlan`, `BeginArray`, `BeginDecision`, `BeginCreate`, `BeginDirect`, `BeginAuto`, `BeginDevice`, `BeginControl` | the guards of each handler up to its first slow call |
| `Check`, `Diagnose`, `Gate` | the snapshot, and what is refused on it |
| `Review` | `reviewAgentAction`: allow, deny or failure |
| `Consume` | `consumeAgentApproval`, sweep included |
| `Reserve` | `reserveAgentRepair`, as `AllowRepair` of `RepairBudget` or a refusal |
| `Execute` | the adapter's control call, which may fail half way |
| `Verify` | the polling loop |
| `Resolve`, `StoreRequest` | upserts of the request record |
| `SaveSettings`, `WorldMoves`, `Restart`, `Tick` | what goes on around them |

A refusal of the limiter is possible at any time, because a caller may bring a
time from before the budget recovered; a grant only when the budget allows it.
That is the interface which `LimiterImplementsBudget` proves for the limiter.

### Sessions

`requireAuth` is split where its locks are: `Get` (session map), `Lookup`
(store), `Restore` (registry), `Touch` (store), `PutRestored` (map), `Validate`
(registry), `DropStored`. `Renew`, `Save` and `SavePrune` are the renewal of
`GET /api/auth/me`, `Logout` and `LogoutStored` the two deletions of a logout,
`Arm` the arming of agent control, `Create` a login. `SaveRead` and `SaveWrite`
are `Registry.Save`, which has no lock across them. A password is represented
by its version; the credential version of the code is a fingerprint of salt and
hash, so a new password is a new version. The password check itself, cookies and
the CSRF token are left out. `SessionCapHeld` is about the map alone; the store
has no such property, because it may exceed its bound (section 3).

### RuntimeSettings

A value of a setting is the number of the save that wrote it. `BeginSave` is
the copy a handler takes before it decodes the request, `Apply` the assignment
and capture under `settingsMu`, `Store` the write of `FileStore` (whose memory
changes even if the write fails), `Invalidate` the cache reset and the answer.
`Section` says which fields a handler assigns from its copy, `Changed` which of
them the request names. The icon handler writes into a shared Go map in place:
`Sees` is that effect on everyone who holds the same map. `Collect` and
`Publish` are the beginning and the end of `refreshSnapshot`.

### StatusHistory

`Collect` takes and stamps a snapshot, `Record` is `recordSnapshotHistory` under
`historyMu`: diff against the baseline, new baseline, append, bound. A repair
verifies (`Verify`), appends its outcome (`AppendOutcome`) and overwrites the
baseline (`Observe`), each separately and outside `historyMu`. `last` is a
history variable: where the recorder's stored events left a subject, `None` as
soon as something else (a restart, a repair, a failed append) has moved it. A
snapshot's time is an integer larger than any time still in use; only the order
of times matters.

### LoginThrottle and Accounts

`login` asks (`Ask`), compares the password, which is slow on purpose, and tells
the limiter (`RecordFailure` or `RecordSuccess`): two locked sections with any
number of other logins between them. `Counted` is the window that begins anew,
`LockedAtLimit` the lock, `Kept` the pruning and `Roomy` the eviction of the
oldest keys. `failed` is a history variable, the times of the failures of a key
since a success or an eviction cleared it.

`Accounts` has `SaveRead` and `SaveWrite` for the two halves of `Registry.Save`
and `Start` for the bootstrap. It seeds an admin and a viewer by name and ID, so
`AccountsAssumption` keeps the admin from being called `viewer`: the second seed
would then take the first one's record.

### RecordOps, RecordStore, LineStore and DurableMap

`RecordOps` has the upserts of `FileStore` as operators on sequences, with the
match each one makes (a user by ID or name, a session by token, a preference by
user and app, a request by ID). `RecordStore` changes memory (`SaveSession`,
`SavePreference`, ...), then writes the temporary file and renames it
(`Persist`), or fails (`PersistFails`), or is cut off (`Crash`), and loads at the
next start.

`LineStore` is one module for both line files because they differ in little:
whether a malformed line is skipped (metrics) or refused (history), and what a
rewrite keeps. A line is a record, a fragment, or a record joined to the
fragment before it. `Readable` and `Loaded` are the two `load` functions.

`DurableMap` is what both should be for their readers: `may[k]` is the set of
values a reader may find, narrowed when an operation is acknowledged and widened
by one that fails or is cut off. `HistoryDurable` and `StoreDurable` are
`INSTANCE DurableMap WITH` the contents in memory; the metric file does not
implement it, since a tear costs a neighbour, and has `OneLostPerTear` instead.

### LatencyTracker

A poll adds its readings to the window (`Annotate`), reads the clock
(`ReadClock`), fills or turns the bucket under a second locking (`Fill`) and
appends what is complete after unlocking (`Flush`). `Restart` empties everything
and seeds the window from the rows. `recent` is a history variable: the samples
in the order they came, those of before a restart replaced by what their row
says. There is one subject; subjects share no entry of any map.

### Notifications

A refresh copies the subscriptions (`Begin`) and walks its copy: `Skip`, or
`Send` and `WriteBack` as two steps, as the code has no lock over them. What a
refresh decides on is the snapshot it collected (`Collect`), which may be old.
`appStatus` and `nas` are the world. A failing send ends the walk. `nas` being
down stands for both rollups.

### Snapshot

The only variable is the home network; everything else is a function of it, in
the order of the code: what each adapter returns (`Unraid`, `Listed`, `UniFi`,
`Probes`), the merge of `collectSnapshot` (`Infra`), `InfrastructureFacts` and
`AppFacts`, incidents and `OverallStatus`, and the view of a general user
(`UserView`). Health texts are what the rules distinguish in them: measured, not
configured, failed. A step changes one container, name, probe or other part, as
long as there are at most `MaxTroubles` departures from a healthy home.

A container is not its `AppID`: `ids` says which one its name gives, two names may
give the same (`my_app` and `my-app`), and facts, incidents and the rollup are
filtered by it, as in the code. `HiddenAppsSilent` therefore asks of a hidden app
that no visible one has its `AppID` (`Unseen`); without that condition TLC finds
the property violated, by one fact about the hidden container that the visible
one lets through. Apps whose `DisplayName` or container name equals another's
`AppID` have that `AppID` too, so the other two comparisons of `isFactVisible` add
no case.

### DockerControl and DeviceRestart

`DockerControl` follows a call request by request. An answer is one of six
kinds, told apart as `fallbackableDockerError`, `graphQLSchemaError` and
`graphQLMutationMayHaveBeenAccepted` tell them apart. A request whose answer is
in doubt may be carried out later (`Late`), or never. `Cancel` is the caller's
context, at any step. `alone` records that nothing else touched the container
while the call was out, which is when its success can be judged.

`DeviceRestart` lets an admin ask for a device from an old list; the code looks
it up again in a list fetched for the purpose (`Check`), sends the restart, and
polls. `seenDown` and `seenUp` are history variables: what UniFi answered.

### SignIn and ChatGPTTokens

`SignIn` has one lock and several goroutines. The browser callback takes the
pending login (`Callback`), exchanges the code without the lock (`Exchange`),
stores the result (`Result`) and stops the callback server if nothing is pending
(`StopIfIdle`, `Shutdown`: the first under the lock, the second after it).
`Finish` is the admin page's poll, `PollHeadless`, `Ask` and `Forget` the other
flow. `saves` counts.

In `ChatGPTTokens` a call waits for the client's mutex (`Begin`, `Ensure`), may
refresh under it (`Replace` is OpenAI's side, which may hand out a new refresh
token), and uses the access token afterwards (`Use`). `Rebuild` is a settings
save that builds a new client from what is stored, `Connect` a new sign-in.

### SettingsLife and AgentLoop

`SettingsLife` follows one integration field by field (address, key, key file)
and one policy through starts, stops and saves. `Layered` is `config.Load`,
`Start` is `applyRuntimeSettings` over it, `Prepare` and `Commit` the two halves
of the integrations handler; the environment, the configuration file and the
key file change between. A start that the code refuses is a step that cannot be
taken.

`AgentLoop` lets the model answer anything: a diagnosis, or any small number of
calls of any tools. `Allowed` is the fold of the rules, `Within` the budget
check before the calls of one answer, `Audit` what each call writes.
`Unsupported` moves to the next model of the chain, which starts a loop anew.

## 3. Runs

There are twelve. The six that pass each ask about one area, the parts named in
`PROJECT.json`; the six that do not each ask about one statement of the
documents.

| Run | Question | Bounds |
|---|---|---|
| `flow_acts` | can a repair act past a gate, without budget, or twice on one token? | two mixes of handlers. Tokens: 2 goroutines, 1 app, 1 token, 1 setting change or restart, times 0..2, token lifetime 2. Direct: 2 goroutines, 1 app, 1 setting change, 1 control call |
| `flow_requests` | does a stored request outcome say what happened, and does every handler end? | 2 goroutines, 1 request, 1 setting change or restart, 2 verification attempts |
| `access` | do the cooldown, the cap and the retry hint hold for callers with stale times; is anybody admitted on a password that was not valid, or after expiry; are guesses, keys and accounts kept in bounds? | limiter: 2 callers, 2 targets, 3 grants, cooldown 2, window 3, cap 2, 2 ticks a second. Sessions: 2 requests and 2 tokens with caps of 1, an account save and a restart on a still clock; 1 token over times 0..3 with a restart. Throttle: 2 logins, 3 keys, room for 2, limit 2, window 1, lock 2, 5 guesses. Accounts: 2 savers, 3 names, 2 admin names, 3 saves, 1 restart |
| `settings` | is what is stored ever a mix, do redactor and LLM client follow, does the cache catch up; do saved settings survive; do tool calls stay in their policy, and does a diagnosis end? | 2 writers, 1 reader, the poller, 6 handlers, 2 saves, 1 restart. Life: 2 saves, 3 starts. Loop: 2 tools, 2 rules, budget 0..2, 2 calls an answer, 2 models |
| `stores` | do events chain, does a crash or a failed write lose only what it may, does every reading count once, how often is a notice repeated? | history: 2 refreshers, 1 repair, an app and a device, cap of 2, one each of change, outage, failed append, prune, restart. Lines: 3 records, 1 failure, 2 crashes. Records: 3 writes, 1 failure, 2 crashes. Latency: 2 polls, window of 2, buckets of 2 ticks, 4 readings, 1 fault. Notices: 2 refreshes, 1 subscription, 4 notices, times 0..1, or a still clock with an edit and a loss |
| `outside` | what does a snapshot make of faults, and what do control, device restart, sign-in and token refresh make of lost, late and parallel requests? | 2 apps and 3 troubles; 2 callers, 2 calls, 3 failures; 2 devices, 2 admins, 2 polls, 4 changes; 2 browser logins, 1 headless, 2 goroutines, 1 failure, times 0..2; 2 calls, 2 clients, 3 refresh tokens, times 0..5 |
| `flow_decisions` | is a decision final? (violated) | 2 goroutines, 1 request |
| `sessions_logout` | is a logout final? (violated) | 2 requests, 1 token |
| `settings_durable` | does an acknowledged save stay on disk? (violated) | 2 writers, 2 saves |
| `history_outage` | is the newest event the status of a subject? (violated) | the poller, 1 app, 1 outage |
| `links_slow` | is a slow link reported? (violated) | 2 apps, 1 trouble |
| `tokens_rotation` | is a rotated refresh token stored? (violated) | 1 call, 2 clients |

Why these are enough to be interesting: every race here is between two
goroutines and one object, so two goroutines and one object (two where a cap or
a cooldown tells objects apart) reach it; each bounded disturbance (a restart, a
setting change, a failed write) is needed once, a tear needs a second crash after
it, and each may happen at any point. Times reach every timeout in the
instance, where the boundary cases are. The constants are the smallest that keep the distinctions: a cooldown
below the window, a cap that can be reached, a token lifetime of more than one
tick, a lock that outlasts its window. What is bounded is named by the `Max`
constants of each module; the bounds limit how often something begins, not what
may happen to what has begun. Deadlock is not checked: at its bounds an instance
has nothing left to do, and an idle server is not stuck. That what must end does
end is `HandlersFinish`, `RequestEnds` and `CacheCatchesUp`.

Symmetry is used only in runs without liveness properties, over sets whose
members are interchangeable. The parts of a run name their goroutines alike, so
that one permutation serves them all.

### Fairness

* `HandlersFinish` assumes weak fairness of each goroutine's steps. The Go
  scheduler runs every runnable goroutine, and every slow step (collection,
  review, control call, the sleep between two verification attempts) has a
  timeout or a context of its own.
* `RequestEnds` assumes weak fairness of the diagnosing goroutine's steps, for
  the same reason: a request to a model has the client's timeout, after which it
  is a failure. Nothing is assumed of what the model answers.
* `CacheCatchesUp` assumes weak fairness of the poller, which `RunPoller` drives
  from a ticker for as long as the process lives. Nothing is assumed of readers
  or writers.

### Disagreements

Six runs show the code doing something its documents or its own messages
exclude; `findings` in `PROJECT.json` quotes them.

* `flow_decisions`: two admins decide one request from copies, the later
  decision overwrites the earlier.
* `sessions_logout`: a renewal under way puts a logged-out session back.
* `settings_durable`: the older capture of two saves is written last.
* `history_outage`: after one failed Docker collection the newest event of an
  app is `unknown` for good.
* `links_slow`: the measured latencies never reach the snapshot the rules judge.
* `tokens_rotation`: a rotated refresh token is not written to the settings.

Six more are stated as properties that TLC finds violated in the instances of
the passing runs, and are not among what those runs check:

* `LoginThrottle!LockoutHeld` (`docs/security.md:13`): a login that asked before
  the lock and fails after the window starts the count anew and with it drops
  the lock (`auth.go:441`).
* `Accounts!BootstrapCreateOnly` (`docs/deployment-windows.md:64`): with another
  admin name configured, the start writes `admin-1` and `user-1` over the
  accounts that have these IDs (`users.go:49`).
* `Notifications!NoDoubleNotice` (`docs/feature-app-detail-history.md:212`): two
  refreshes that read one subscription both send (`notifications.go:150`).
* `LatencyTracker!OneRowPerBucket`: a poll that read the clock before a boundary
  and gets the lock after it turns the bucket back, and the window gets a second
  row (`probes.go:280`).
* `DeviceRestart!OnlyOfflineRestarted` (`unifi/live.go:641`): every state that is
  not online counts as down, a device that is updating or adopting too.
* `Snapshot!AdminOnlyStaysAdmin` (`rules_test.go:118`): the incident made from a
  fact that is for admins only is shown to users.

Others were met while modelling, mostly beside what the properties say.

Repairs and requests:
* `agent_repair.go:519`: a token verified in time and consumed after its expiry
  can execute a second time; what does hold is `TokenOncePerLifetime`.
* `agent_repair.go:58`: the kill switch is read once, so a fix that has passed it
  is not stopped; what does hold is `ControlsGated`.
* `repair_requests.go:489`: a restart of an online app by a standard user is not
  refused, as `docs/api-config.md:77` says it is (a test expects the code's
  behaviour).
* A restart whose stop was carried out and whose answer was unreadable returns
  with the container stopped (`docker/live.go:113`); a recovery start that
  succeeded is reported as an error, and where SSH is there it restarts the
  container again; a stop that timed out may be carried out after the start.
* The fixture's Docker client accepts control actions that
  `docs/architecture.md:112` says it refuses.

Accounts and sessions:
* `users.go:132`: two saves of one account from copies can restore an old
  password.
* `auth.go:158`: a record judged expired is deleted by token after it was renewed.
* `auth.go:468`: a locked key that is evicted to make room is unlocked.
* The store of remembered sessions may hold more than
  `maxPersistentSessionEntries`: a restore upserts the record it read
  (`auth.go:167`) without a prune, after another request's prune has dropped it,
  and a prune whose write fails, or that a crash forestalls, is not repeated. The
  next save prunes.

Settings and sign-in:
* `settings.go:246` and `281`: two handlers of one section overwrite each other's
  fields.
* `settings.go:200`: the LLM client keeps the old redactor after a privacy save.
* `server.go:333`: a slow refresh publishes a snapshot made with settings older
  than the last invalidation, until the next poll.
* `apps.go:103`: the icon map is written while others read it unlocked;
  `chatgpt.go:97`: the client's refresh token and account are read without its
  mutex.
* `server.go:167`: stored settings are normalised but not validated at a start,
  and a removed key file makes the server refuse to start with settings it had
  accepted. An update that drops the file's name keeps the key read from it, and
  stores it.
* The tool budget starts anew with each model of the fallback chain
  (`openai.go:236`, against `docs/security.md:34`). A diagnosis sets its
  authorization header once and may outlive the access token. Names on the
  blacklist appear in tool results (`docs/blacklist-policy.md:3`). `NewRedactor`
  drops patterns that do not compile.

Snapshot, rules and visibility:
* `FilterSnapshotForRole` leaves the NAS and WAN fields in the answer when
  `ShowNASStatusToUsers` or `ShowWANStatusToUsers` is off; only the web client and
  the timeline leave them out.
* Incident numbers, where they are shown to users, shift with hidden apps.
* A UniFi collector that fails gives "UniFi reports the WAN is down"
  (`server.go:417`). A set-up with SSH alone whose SSH fails reads all online.
  A failing detail query of Unraid clears the alerts and memory facts
  (`unraid/live.go:104`). A hidden app whose name gives the `AppID` of a visible one
  (`docker/live.go:647`) is not hidden: its facts and incidents are shown with the
  other's (`visibility.go:169`, `183`).
  `docker_service_down` is overwritten in fixture mode.

History, latency and mails:
* `recorder.go:32`, `server.go:331`, `376`: `Observe` absorbs other subjects'
  changes; two refreshes can record in the other order than they were stamped;
  a failed append is never retried.
* `probes.go:263` says at most a partial bucket is lost at a stop; a complete one
  is, between the unlock and the append. `probes.go:20` speaks of one lock over
  window and bucket; it is taken twice.
* A preference with only `NotifyOnRecovery` never notifies.

## 4. Proofs

Every theorem is about a specification as a run checks it, with the constants
left open: the sets of callers, targets, handlers, tokens, requests, users,
logins, names, subjects, refreshes, subscriptions, devices, admins, calls and
clients are arbitrary, and so are the bounds. What is assumed of them is what
the modules state as `ASSUME`, which TLC evaluates in every run:

* limits, windows and lifetimes are positive numbers, bounds are numbers;
* sets whose members are counted are finite: goroutines that run at once,
  logins, session tokens, subscriptions, callers;
* `None` (and `Garbage`, what a torn line reads as) is none of the values it
  stands beside;
* what the code tells apart is distinct: a handler is one of the nine, a lifetime
  outlasts its margin, the admin is not called `viewer`.

The modules that are only instantiated have their assumption as a definition,
and the checking module assumes it of its instance (`AccessAssumption` in
`MCAccess`, `PartsAssumption` in the three others).

In a composed module a step of one part leaves the variables of the others
alone, so a theorem about a part is one about the whole: `ThrottleSpec`,
`LinesSpec`, `RecordsSpec`, `NoticesSpec` and their like say that an execution of
`MCSpec` is, seen by one part, an execution of that part or stands still. The
theorems about `Sessions`, `DeviceRestart` and `SignIn` are proved in modules of
their own and carried over to the instances, whose definitions are the same.

### Access_proofs: the limiter, the throttle, the accounts, the sessions

The limiter forgets, so the properties, which speak about
the whole log, are not inductive. `IInv` adds what forgetting preserves:

* `StampsPast`: every stamp, in the log or in a caller's hand, is in the past;
  hence whoever sweeps, sweeps by a time not after the wall clock.
* `CoolingRemembered`: a grant still cooling down by the wall clock is in
  `lastByApp`, or a later one of its target is.
* `RecentRemembered`: a grant still within the window by the wall clock is in the
  slice, and the slice never exceeds the cap.

A stale caller's sweep removes less than the wall clock would, so both
"remembered" facts survive it (`SweepKeeps`); a new grant is entered in both
(`GrantInductive`). From `IInv`, a caller that the limiter lets through is
`CooledDown` (`GrantIsCooledDown`) and below the cap (`GrantHasRoom`) by the wall
clock: that is the step refinement (`NextRefines`), and from it the two
properties over the log.

| Theorem | Statement |
|---|---|
| `LimiterInvariant` | `Spec => []IInv` |
| `LimiterTypeOK` | `Spec => []TypeOK` |
| `LimiterImplementsBudget` | `Spec => ImplementsBudget` |
| `LimiterCooldown` | `Spec => []CooldownHeld` |
| `LimiterGlobalCap` | `Spec => []GlobalCapHeld` |
| `LimiterRetry` | `Spec => []RetryAfterSufficient` |

The throttle counts failures by key in a window that begins with the first, and
checks the count before the password but adds to it after. `ThrottleInv` says
that an entry counts the failures of its key since its window began, so a window
has `Most` of them: the limit, and one for each login that had asked before the
last of the limit was told. A window's length that straddles two of these windows
has at most the failures of the second and `Trailing` of the first: the first
failure of a window is too old when the next window begins, and where the window
was locked the failure that begins the next is one of the logins that had asked
before. The bound
`2 * (MaxLoginFailures + Cardinality(Attempts) - 2)` was found by the proof: the
one that TLC had confirmed for two logins is exceeded from three on. The map has
room for one when one is added (`FewKeys`).

Accounts are saved from copies, and a save is a read and a write. `RegistryInv`
says that an ID belongs to one name, in the list and in what saves are about to
write, and that nobody has an ID that was not drawn yet; the upserts, which match
by ID or by name, then never leave two of either.

| Theorem | Statement |
|---|---|
| `GuessesLimited` | `MCSpec => []ThrottleHolds` |
| `AccountsUnique` | `MCSpec => []UniqueAccounts` |
| `PasswordsWereGood` | `MCSpec => []AdmittedWhileValid` |
| `SessionsCapped` | `MCSpec => []SessionCapHeld` |
| `SessionsEnd` | `MCSpec => []NoSessionAfterExpiry` |
| `ArmingEnds` | `MCSpec => []ArmedWithinSession` |

The last four are the theorems of `Sessions_proofs` for both sets of sessions.

### RepairFlow_proofs

The four properties speak of control calls that were sent,
so `FlowInv` says what a handler that may still send one has behind it. It is a
statement about each handler at each step of its route, in four parts:

* `Gated`: the opt-in was seen on from the check on (for an automatic repair,
  from its gate on), the kill switch on the admin's paths, and a review passed
  once the step "review" is behind. A handler's sightings are history, so a
  setting turned off later does not take them back.
* `OnceRedeemed`: the nonce of a redeemed token is remembered until the token
  expires, so before that only one handler holds the token, and it is not among
  the calls. Forgetting a nonce and a restart, which empties the set and stops
  the handlers, are where this could fail; an expired token is let off.
* `Told`: a request about to be marked executed or failed has a call that ended
  so in the log.
* `RefOK`: what a handler refers to exists.

`EveryControlReserved` is a count: per target, calls of this process plus
handlers that hold a reservation are at most the grants of this process. A
reservation adds one grant and at most one holder, sending turns a holder into a
call, and a restart empties both sides.

| Theorem | Statement |
|---|---|
| `FlowInvariant` | `Spec => []FlowInv` |
| `TypesHeld` | `Spec => []TypeOK` |
| `GatesHeld` | `Spec => []ControlsGated` |
| `ReservationsHeld` | `Spec => []EveryControlReserved` |
| `TokensOnce` | `Spec => []TokenOncePerLifetime` |
| `OutcomesTrue` | `Spec => []RequestOutcomeTrue` |

### Sessions_proofs

A session is copied from the map to a request, from the
request to the store, from the store to another request and back into the map,
and any of these copies may be put back after the original changed. The proof
follows the copies instead of the tables:

* `CopyOK` and `KeptOK`: wherever a copy is, it ends no later than what its
  token was granted, its arming no later than the copy, and a token
  with a remembered copy was granted no more than a renewal would give it now
  (`Renewable`). The last is why renewing an old copy never shortens a grant.
* `Passed`: what a request knows at each of its steps; from the look-up on, that
  it began before its token's end.
* `KnowsGood`: every password that is good now is among those the request has
  seen good, because a save of an account adds it to each running request. Hence
  a copy that `validateSession` accepts was good while the request ran, whatever
  put it there (`ServedOK`).

Grants and time only move forward (`Onward`), which all of these survive
(`CopyStays`, `KeptStays`, `RequestStays`). The cap is a count: `Put` leaves room
for one before it adds one (`EntryPut`), and every other step takes entries away
or replaces them.

| Theorem | Statement |
|---|---|
| `SessionsInvariant` | `SessionsAssumption`, `Spec => []SessionsInv` |
| `Admitted` | `SessionsAssumption`, `Spec => []AdmittedWhileValid` |
| `NotAfterExpiry` | `SessionsAssumption`, `Spec => []NoSessionAfterExpiry` |
| `CapHeld` | `SessionsAssumption`, `Spec => []SessionCapHeld` |
| `ArmedWithin` | `SessionsAssumption`, `Spec => []ArmedWithinSession` |

### Settings_proofs: settings in force, where they come from, the tool loop

What a capture holds when it is stored was captured earlier, so `SettingsInv`
says of every capture waiting for the store, of the store's memory and disk and
of the settings in force that they were once in force as a whole (`Once`). Icons
are excepted, because another handler may write into the map a capture refers
to. The client's redactor is that of the privacy settings at the time the client
was built, which `Once` puts in the history. `SettingsTypes` adds the shapes of
all copies, none newer than the last save.

`SettingsSurvive` is about stops and starts. `LifeInv` says that what is stored
is the last save of integrations without the keys that came from a file, and that
a save of another section, under way with its copy, can only store that again;
a start puts the stored section over file and environment, so what is in force
is the last save, with the key of the key file where one is configured.

`AgentInv` says that the calls made and those still asked for add up to what is
counted, that each call made is in the audit, and that one that worked was of a
tool offered. The rules are a recursive function over a list of any length; the
proof shows that it returns a verdict at every place (by the least place where it
would not, `WFMin`) and takes that of the last rule about the tool.

| Theorem | Statement |
|---|---|
| `SettingsInvariant` | `Spec => []SettingsInv` |
| `SettingsStoredWhole` | `Spec => []StoredAsOneState` |
| `SettingsPartsFollow` | `Spec => []PartsFollowSettings` |
| `SettingsTyped` | `Spec => []TypeOK` |
| `SettingsSurvive` | `MCSpec => []SavedInForce` |
| `AgentWithinPolicy` | `MCSpec => []PolicyHeld` |

### Stores_proofs: history, files, readings, notices

`HistoryInv` is the shapes of the state and `RecorderFollowsLog`. A refresh only
records changes against the baseline, so an event starts at the baseline, which
by the invariant is where the last event ended; `Record` then moves both in one
locked section. A subject without a baseline, a repair and a failed append reset
`last`, which is why the statement is about events between such resets. The
chain does not depend on the order of the snapshots' times. The retention
bound in `TypeOK` does: pruning keeps the newest by time, so two events of one
time would both stay. `TimesApart` says that the times of events and of work
under way differ, hence a subject has one event for each time and the newest
`MaxPerSubject` times are as many events.

`LineInv` has three parts. `HistoryFits`: the history's memory and, where it can
be read, its file hold what may be found. `TearsPay`: the records that are gone,
those an append under way has joined to a fragment and the fragment at the end of
the file are together no more than the torn lines. `LineShapes`: the records of
an append are new, a rewrite keeps what it has and leaves no fragment behind.

`RecordInv` says of `FileStore` that memory (while the process is up or writing)
and disk hold what may be found; the temporary file never matters because only
the rename makes it visible. The list operations are those of the code, with the
pruning of sessions that ended (`Unended`) shown to be a sequence of members of
the old one by `DefinedByRecursion`.

Readings: `TrackerInv` is the shapes of the state and the property itself, so all
the work is in the sums. `TotalAppend` and `TotalChanges` say what a sum gains
where a number is appended or one changes, by the least place where two sums
would differ (`LeastOf`); so a step takes from the polls under way what it adds
to the bucket, and from the bucket what it hands to a poll (`FlightMoves`,
`WrittenAppends`). A suffix of the readings stays one when a reading is added to
both and the window is trimmed (`WindowTakes`); what a start reads from the rows
is a window no longer than its size (`SeedIs`).

Notices: each refresh that read a preference before another wrote it back may
send once more. `TroubleTold` says that where a preference, or the copy of one,
has a status of trouble, its notice was sent: no recovery without trouble.
`RunsFit` bounds the repeats. A refresh is *calm* unless it has sent and is about
to write back another status, and *free* if it may send the repeated status once
more. The notices since any given one, and the free refreshes, are together at
most `C + (C - 1) + ... + 1` where `C` counts the calm ones: a free refresh that
sends is free no more, and a write-back of another status, which may free all the
calm ones, makes one more of them. Of `N` refreshes that is `N + (N - 1) + ... + 1`,
which two refreshes reach in the run. An edit of the preferences and a
lost write of the store are excepted (`Undisturbed`): both make the store forget.

| Theorem | Statement |
|---|---|
| `HistoryInvariant` | `Spec => []HistoryInv` |
| `RecorderFollows` | `Spec => []RecorderFollowsLog` |
| `HistoryChains` | `Spec => ChainUnbroken` |
| `HistoryTyped` | `Spec => []TypeOK` |
| `LinesInvariant` | `MCSpec => []LineInv` |
| `TornLinesCostOne` | `MCSpec => []OneLostPerTear` |
| `HistoryIsDurable` | `MCSpec => HistoryDurable` |
| `StoreIsDurable` | `MCSpec => StoreDurable` |
| `EachReadingOnce` | `MCSpec => []ReadingsKept` |
| `NoticesLimited` | `MCSpec => []NoticesHold` |

### DeviceRestart_proofs and SignIn_proofs

`Known` says what a restart knows at each of its steps:
before the check, that a device which is down has been seen down; from the check
on, that it was; and nothing has an outcome before it is verified. It is stated
for any state of the network, because the network may change between two steps,
and `WatchKnown` shows that whatever it turns into keeps `Known` true. The steps
of one admin leave the restarts of the others alone (`OneStep`).

| Theorem | Statement |
|---|---|
| `RestartInvariant` | `Spec => []RestartInv` |
| `RestartsAreBacked` | `Spec => []RestartsBacked` |

A login passes from one place to the next: the goroutine that
registers it, the map of pending logins, the goroutine that exchanges its code,
the map of results, the goroutine that saves. `Once` says that of these places it
is in one, and in none once it was saved; each step moves it on (`Moved`, `Onward`)
or leaves it alone (`Elsewhere`), expiry only loses it (`LiveShrinks`). A headless
login has no place in the maps; there `TakenOnce` says that whoever has its
tokens has used up its code.

| Theorem | Statement |
|---|---|
| `SignInInvariant` | `Spec => []SignInv` |
| `StateUsedOnce` | `Spec => []SingleUse` |

### Outside_proofs: tokens, snapshot, containers

A call presents the token it reads from the client when it has the mutex, so what
has to be shown is that the client's token stays what it is until the answer is
there. `Exclusive` says it does, because whoever refreshes a client has its mutex
(`Alone`: two refreshing calls have different clients); `Behind`, that a client
never holds a token it spent, because a replacement has a number larger than any
before it.

A report is a function of the world, so `ReportsBacked` is proved of any world at
all, without an invariant. `FactsListing` says which facts the concatenated lists
hold; `ServerListing` and `InfrastructureListing`, that one of the rules speaks
whenever the server, its API or Docker cannot be asked. The loop over the apps is
a recursive function, `RolledWorst` what it returns for a list of any length, and
`StatusesIs` that every visible app is in the list. For `HiddenAppsSilent`, two
worlds that differ only in apps (`SameAround`, which needs that a world keeps its
parts, `WorldInv`) have the same infrastructure facts and the same list of apps.
An app that changed is `Unseen`: none of the user's apps has its `AppID`, so no
fact about it is shown (`UnseenChange`), and a fact that is shown is about apps that
did not change, and is a fact in both (`SeenSame`). Nothing is assumed of the
`AppID`s: containers may share them in any way.

`ControlInv` follows a container control through its requests: `Owed` says what
each step has behind it and still owes. A restart whose stop was confirmed only
leaves the API once its start was sent, whatever fails or is cancelled; one that
recovers already has its error; and one that nothing else touched returns without
an error only from a request that was carried out.

| Theorem | Statement |
|---|---|
| `TokenInvariant` | `TokenAssumption`, `Spec => []TokenInv` |
| `ReplacedUnused` | `TokenAssumption`, `Spec => []ReplacedTokenUnused` |
| `AccessInTime` | `TokenAssumption`, `Spec => []SentInTime` |
| `ReportsAreBacked` | `MCSpec => []ReportsBacked` |
| `HiddenStaysHidden` | `MCSpec => HiddenAppsSilent` |
| `RestartAlwaysStarts` | `MCSpec => []RestartStartsAgain` |
| `ReportedSuccessTrue` | `MCSpec => []SuccessIsTrue` |
| `RestartsAnswered` | `MCSpec => []RestartsBacked` |
| `LoginUsedOnce` | `MCSpec => []SingleUse` |

### Only model-checked

* `HandlersFinish`, `RequestEnds`, `CacheCatchesUp`: liveness, whose fairness is
  stated with `ENABLED`, is out of the prover's reach.
* The type invariants of the modules that state theirs in no run.

## 5. Not modelled

* Audit log: lines under one mutex that nothing reads back (what is written for
  a tool call is part of `AgentLoop`).
* Routes, headers, CSRF, hashing, cookies; the service wrappers; the web client;
  `cmd/visualcheck`.
* Text: prompts, context limits, schemas, wording of facts and summaries, the
  redaction of strings, log collection and its parsing, the JSON of the adapters.
* The simple file syntax of the configuration, and of the settings the fields
  that no property tells apart.
* The mail protocol; the fixture data; the statistics of a latency bucket (median,
  failure rate), which are functions of one list of numbers.

Left out of handlers that are modelled, because no property depends on it:

* `RepairFlow`: the `roleCanUseLLM` gate of an array repair
  (`repair_requests.go:403`), the action that a decision finds unsupported (`643`),
  a failing write of the request record, and that the nonces are swept by a time
  read before the lock (`agent_repair.go:516`).
* `Sessions`: sessions without a credential version (`auth.go:132`).
  `LoginThrottle`: that the time of a failure is read before the lock.
* `StatusHistory`: the hourly prune that fails (`server.go:381`).
* `LatencyTracker`: that a row seeds only a latency above zero (`probes.go:342`), and
  that rows are sorted by time (`metrics.go:134`, `231`).
* `Notifications`: that the time of a mail is read between the send and the
  write-back (`notifications.go:178`); degraded is offline.
* `Snapshot`: the facts `unifi_firmware_updates` (`rules.go:135`),
  `nas_link_speed_degraded` (`161`) and `probe_flaky` (`169`); that the latency
  facts come after those of the server. Docker's collectors make every container
  visible to general users (`VisibleToGeneralUsers`), so that flag is always true.
* `DockerControl`: that the missing restart is told by the words of the schema error
  (`docker.go:111`).
* `ChatGPTTokens`: that issue and receipt of a token are two moments
  (`chatgpt.go:208`); lifetimes not above the margin, and tokens without an expiry.

## 6. Plan

Done: the limiter and its budget, the repair handlers, sessions, settings with
the cache, the history; then the stores, notifications, throttle, accounts,
snapshot, control, sign-in, tokens, the tool loop and the life of the settings.
Proved: every safety property of the passing runs.

Next, in order of importance:

1. The repair handlers over `DockerControl` instead of a call that succeeds or
   fails half way.
2. The context limits of a prompt and the median of a bucket, as operators
   against reference definitions.
