# Mobile Hub in TLA+

Mobile Hub shares a lab of phones, emulators and simulators between people and
test runs. A hub (Fastify on Node, MongoDB behind it) keeps the documents; an
agent on every machine reports which devices are attached to it; browsers lock
devices, start runs and watch live views. The hub is one process, so its
concurrency is that of JavaScript: code runs undisturbed up to an `await`, and
between two awaits every other request, sweep, callback and run may act. MongoDB
applies one update of one document atomically, and nothing larger.

This directory holds the models of the parts where that matters, the
configurations TLC checks them with, and proofs for TLAPS. Paths below are
relative to `src/backend/src/` unless they say otherwise.

## 1. Inventory

| Part | State | Operations | What is hard |
|---|---|---|---|
| Devices (`modules/devices`) | one document for each `<machineId, udid>`: status, lock, TTL clock | sync (three updates), lock, renew, unlock, expiry sweep | two fields that seven updates write; updates that name a device by udid only; expiry against use |
| Hosts (`modules/hosts`) | one document for each machine: status, last heartbeat | heartbeat, stale-host sweep (find, mark hosts, mark devices) | the sweep acts on what it read two awaits ago; a restart in its middle |
| Agent (`agent/`) | where its loop is, what it found | discover, heartbeat, sync, swallow failures | requests outlive their caller (10 s), overlap and finish in any order |
| Execution (`modules/execution`) | run document, live child, set of cancelled ids | trigger, orchestrate (prepare, set up, test, finish, release), cancel, recover after a restart | crash, cancel, expiry or fault at every await; a lock that must be freed on every path |
| Execution events (`execution.events.ts`, the run's socket) | subscriptions | publish, subscribe, close | an event reaches whoever is subscribed at that moment, once |
| Streaming (`modules/streaming`) | map of captures, their viewers, session documents | attach, detach, capacity, capture errors, teardown, operator stop, idle sweep | look-up, await, start; close events during awaits; teardown by key |
| Capture sources (`modules/streaming/sources`) | child process, timer | grab or record, pull, stop | commands that end late, fail, or write after they were killed |
| Builds (`modules/builds`) | build documents, artefacts on disk | register, fetch, garbage collection | documents and files are two stores; a crash or a failing save between them; GC against the creation of runs |
| Analytics (`modules/analytics`) | daily and weekly aggregates | two timers and a route that recompute, queries | rows are written long after the runs were read; edges of days and ISO weeks |
| Agent authentication and credentials (`modules/agent-auth`, `modules/agent-credentials`, `features/agent-credentials`) | credential documents; the administrator's page, its dialogs and cached list | issue, verify, revoke, list | look-up, then handler; a token that is shown once |
| Users and the rate limiter (`modules/auth`, `common/auth-rate-limit.ts`, `features/auth`) | users; attempts in a window; the browser's token and user | register, log in, sign out, check a stored token | "first user is admin" across two awaits; answers that come late; window boundaries |
| Server (`server.ts`, `app.ts`) | intervals | recover, listen, sweeps, shutdown | order of start-up, what survives a shutdown |
| Configuration (`config/`) | merged files | load | none that a model checker reaches |
| Device page (`features/devices`: `LockControls`, `DeviceViewerPage`) | cached device, mutation, dialog | lock, renew, release, force-unlock | decides on a cached document what the hub decides on the present one |
| Pages of runs (`features/execution`) | cached run and list, socket, form, cancel | trigger, list, watch, cancel | events against fetches under way; polling stops while a socket is live |
| Live view (`DeviceStream`, `useDeviceStream`) | socket, picture, error, notices | start, stop, switch protocol, reconnect | a frozen picture looks like a live one; an error of an earlier attempt |
| Inventory, grid and charts (`DevicesPage`, `MultiDeviceViewPage`, `HostsPage`, `BuildsPage`, `AnalyticsPage`) | filters and cached lists | poll, filter, show | no more than the cache of any page |

How they meet: agents call the hub over HTTP with a token that the hub looks up
before each handler; users call the lock, run, build and credential routes over HTTP
and the stream routes over WebSockets; execution calls `acquireLock` and
`releaseLock` of devices directly and publishes an event after each save; runs name
builds, which the garbage collection asks for; analytics reads finished runs; the
sweeps of `server.ts` write the documents that routes and runs are using; recovery
runs once before the hub listens. The pages learn of all this by fetching, which
every hook of the frontend does through one query cache.

What makes each part correct: a device is in the hands of at most one session, and
changes hands only through being free; the lock and the status of a document
agree; the registry comes back to the truth; a run ends, its result is final and
agrees with its stages, and it leaves neither its lock nor its process behind; a
key has one capture, which runs as long as somebody watches and not for ever after;
a ready build is whole and the newest are kept; rows count each run once and catch
up; nobody writes with a revoked credential; a hub has an administrator; and what a
page says was true when it was read, is not older than what it was told, and does
not pass for newer than it is.

## 2. Modules

| Module | Models | Builds on |
|---|---|---|
| `DeviceLease` | the promise: grant on free, end, nothing else | - |
| `DeviceLocks` | the device documents and every update of them | `DeviceLease` (refinement) |
| `DeviceRegistry` | agents, sync requests, stale-host sweep, routes, time, restarts | extends `DeviceLocks`, refines it |
| `ExecutionRuns` | runs, children, cancel, crash, recovery | extends `DeviceLocks`, refines it |
| `RunHistory` | what the properties of runs remember: `deprived`, `cutOff`, `thrown` | extends `ExecutionRuns` |
| `Streaming` | sockets, captures, sessions, teardown loops | - |
| `StreamHistory` | what the properties of captures remember: `beside`, `silenced` | extends `Streaming` |
| `BuildLibrary` | build documents, artefacts, fetches, garbage collections, crashes | - |
| `Accounts` | users, the limiter, the browser's session | - |
| `QueryCache` | one query of the frontend's cache: fetch, join, invalidate, fill | - |
| `AgentAccess` | credentials, agents' requests, the credentials page | extends `QueryCache` |
| `Analytics` | calendar, finished runs, recomputations and their rows | - |
| `LockPanel` | the device page and its lock controls | extends `QueryCache` |
| `RunPages` | run documents as the pages see them: form, list, run page, socket, polling, cancel | extends `LockPanel` |
| `LiveView` | the live view, the hub's end of its socket, the adb sources | - |
| `Console` | one tab: at the pages, or at the live view | extends `RunPages`, `LiveView` |
| `DeviceLocksProofs`, `DeviceRegistryProofs`, `ExecutionRunsProofs`, `StreamingProofs`, `BuildLibraryProofs`, `AnalyticsProofs`, `ConsoleProofs` | theorems | their component |
| `AccessProofs` | theorems | `Accounts`, `AgentAccess` |
| `MC*` | values for the constants | their component |

Operators marked "Variant" in a comment are plausible mistakes in one action.
They are no part of any specification; each serves to show that a property can
fail (the `mutants` of `PROJECT.json`).

### DeviceLocks

`device[d]` is the document of the pair `<machineId, udid>`. `known` says whether
it exists, which happens with the first sync that reports the device. An update
whose filter names only a udid (`acquireLock`, `releaseLock`, `renewLock`) picks
one of the documents in `Matching(u)`, as `findOneAndUpdate` does; the sync and
the sweeps act on sets of documents of one machine. The age of a lock counts ticks
since it was acquired or renewed and stops once the lock has expired. The fields
nothing here depends on (name, model, OS version, capabilities) are left out.
`updateMany` is one step: no property depends on its documents being written one
by one, since each keeps the coupling of its own two fields.

### DeviceRegistry

`agent[m]` is the position of the loop of `agent.ts`; `request[q]` is a sync
request inside the hub, which goes on when the agent has given up (`awaited`
becomes FALSE); `sweep` is the stale-host sweep between its three awaits;
`host[m].silence` counts ticks since the last heartbeat. `Tick` lets no live agent
be silent for longer than `MaxSilence` and, unless `SlowHub`, no request take
longer than a tick. Everything else interleaves freely.

### ExecutionRuns

`pc[r]` names what the orchestration of run r does next. `run[r]` is the stored
document and `doc[r]` the one in memory: a save that throws leaves the change in
memory, and the next save writes it too, as Mongoose does. `child[r]` is the process
spawned last or its exit code. `cancelling` holds cancel requests between their read
and their write. A crash drops everything in memory; children and documents stay;
`FindOrphans`, `SaveOrphan` and `ReleaseOrphan` are recovery, and routes act only
while the hub is up. Other users of locks, syncs and sweeps appear as `LockRoute`,
`LabStep` and `ExpirySweep`, each one an update of `DeviceLocks`. The two saves at
the start of a run (`preparing`, then `startedAt`) are one step; the log file and the
published events are left out.

`RunHistory` adds three sets that no action reads: the runs that lost their lock under
way (`deprived`: an expiry, an unlock, an unplugged device, another run's release), those
whose orchestration ended before its release (`cutOff`), and those one of whose calls
threw (`thrown`). The properties name their exceptions with them, so that a run may
meet every one of these and the rest of the property is still asked of it.

### Streaming

`viewer[v]` is the handler of one socket, which asks for one stream once;
`capture[h]` is the capture that viewer h had to start; `live` is the map of
`StreamingService`. Updates of sessions are separate steps from what issued them and
may be applied in any order. Of a session only `captureStatus = active` is kept.
`CountedWith[k]` distinguishes the platforms: Android counts all active sessions of
the host, an iOS simulator counts simulators, an iPhone counts nothing; each of them
awaits `assertCapacity`, between the look-up in the map and the start, and any number of
viewers of a key may be at that await. A socket may close at any await, also during the
look-up of its device, where nobody hears it. One sweep and one operator's stop run at a
time. `MaxTroubles` bounds the calls that throw and the crashes together.

`StreamHistory` remembers which other viewers of its key were being counted when a
capture started (`beside`), and of which keys a capture was stopped without a word
(`silenced`).

### BuildLibrary

`build[b]` is the document and `file[b]` what `BUILDS_DIR` holds under its id; no action
writes both. `fetch[b]` is what `triggerBuildFetch` does next: download, save
`validating`, validate, save `ready`, or the catch block's save and removal. Each save
and the validation may throw, as `Fault`; a save that throws was applied or not. A sweep
(`runBuildGc`) reads the ready builds once (`FindReady`), then takes its candidates one
at a time: look-up of references, deletion of the file, save. `fetchedAt` is the rank of
a validation among all, which is all that the sort uses. `everReady` is a history of
what ever read as ready. `Age` is the clock of `olderThanDays`.

### Accounts

`form[b]` is a submitted login or registration, step by step inside the hub: the
limiter, the count of users, the creation, or the look-up of the password. `gone`
says that the page was reloaded meanwhile; the hub goes on. `me[b]` is the token whose
check by `GET /me` is under way. `hits` is the limiter's entry of the one address all
browsers share, `passed` a history of what it let through. `hasty` is another: the pages
in which somebody logged in while the stored token was still being checked, which the
login page does not wait for (`router.tsx:19`). The limiter compares the end of the URL
(`app.ts:72`); the pages modelled here send no query string.

### AgentAccess

`request[q]` is a heartbeat or sync inside the hub: sent, verified
(`requireAgentToken`), handled. `write` is what the last handler let through. The rest
is the page of one administrator: `list` is a query of `QueryCache` whose fetches may
fail, `issue` is the issue mutation the page follows, and `revoke[x]` any number of
revocations, which may overlap; their answers may be lost before or after the hub acted.
`page` holds the dialogs, and the error of a request, which is kept for the form and
shown only in it. Other administrators act on the documents. A token is
identified with its credential; hashing, and the development mode without a token,
are left out.

### Analytics

A summary of runs (counts, rates, durations) is a function of the set of runs that
was read, so a row keeps that set, and the suites it calls flaky. `Compute` reads the
runs of its range, `ReadHistory` the stored daily rows of one bucket, `Upsert` writes
one row; the two timers and the route may overlap. The standard deviation is compared
with zero, which holds exactly where all rates are equal.

### QueryCache, LockPanel, RunPages

`QueryCache` is how `@tanstack/react-query` behaves for the options the hooks use: a
fetch is joined while it is under way, an invalidation cancels it and sends another,
except for the very first one, and data without a mounted page is only marked. In
`LockPanel` the page decides what to offer on `deviceQ.data`, and the hub answers on
`device`; everybody else is `OthersAct`. `outdated` is a history: the documents, shown
or on their way, that the hub read before the user's last action of this visit.
`RunPages` adds a run: `run` is its document, `step` the hub's orchestration reduced to
save, publish, release; `socket` and `pipe` are its stream, and `listed` what the list
shows of it. `heard` and `missed` are histories for the properties. A tab stays with the
pages of runs or with those of devices, whose only exchange is the device's lock and the
invalidation of its query.

### LiveView and Console

`ws` is the hook's socket, `seat` the hub's end of it, `inbox` what is on its way,
`picture`, `lastError`, `restarted` what the view shows; `source[p]` is the capture of
one protocol as its loop sees it (grab and pause, or record and pull). The user is
signed in. What several sockets do to one capture is in `Streaming`; here other viewers
only start captures, and `OrphanBreaks` is the error of a second capture of the key,
which tears down the one in the map (a view that sits in that second capture is not
followed). The look-up of the device (`streaming.routes.ts:64`) is before the `try`
block of a handler that nobody awaits: if it throws, the rejection is unhandled and ends
the process, which is one of the restarts of `HubRestarts`. `Console` lets a tab be at
either; the two share no state, so a run of both costs the sum of their states.

## 3. Runs

| Run | Instance | Shows |
|---|---|---|
| `device_locks` | two machines, three documents, two with one udid; a user and an admin; two sessions; TTL 1 | coupling, lease, abandoned locks are freed |
| `registry` | one machine, a pluggable phone, two overlapping requests; stops, returns, time-outs, restarts; TTL 1 | reported devices keep their lock; the registry heals |
| `registry_dark` | two machines with twin emulators, one unreliable; agents that die for good; an admin on the lock routes, late syncs | attached devices stay available; dead hosts go dark, their locks freed |
| `execution` | two runs, one phone; unplugging, TTL 1, an admin and the owner on the lock routes, cancels, a failing workspace, one throwing call or one crash | no lock or process outlives its run, results agree with stages, exclusive use of the device and own locks only, each with the exceptions the code has |
| `execution_crash` | two crashes anywhere, also during recovery | no zombie runs, finality, every run ends, a killed one as cancelled |
| `streaming` | three sockets, two of them for one Android phone and one for an iPhone, in any overlap; one throwing call or one crash | captures are listed unless they were overtaken, nobody is stranded, watchers are served, unwatched captures are timed |
| `streaming_shared` | the same without trouble | that one key may have two captures (a violation) |
| `build_library` | three builds of one group, one retained, the age rule; two sweeps; one fault, applied or not, or one crash | the newest are kept, documents match files, what a run names stays, broken-off deletions are repaired |
| `accounts` | two browsers; two addresses; two attempts in a window of two ticks | an administrator exists, a page shows the owner of its token, bursts are bounded |
| `agent_access` | two machines, two credentials, one agent request, one page with two revocations under way, other administrators | writes are authorised, the list shows what was reported, no token is lost unseen |
| `analytics` | two runs of one suite, three days, weeks of two days, one fault or crash, requests for a day | runs are counted once and where they ended; rows catch up |
| `console` | one run, one device, an administrator; one fault of the run's stream; two troubles of the live view | the seven properties of `RunPages`, `LockPanel` and `LiveView` |

Why the bounds are enough: a lock is contested by two sessions and freed under a third
party, so two runs (or sessions) and one other user give every order of the contest. Two
documents with one udid are all a filter on udids can confuse. Two requests overlap in
every order; a third repeats one of these. TTL and staleness are thresholds, and only
"older than" is ever asked, so one tick below and one above suffice. Two crashes put a
crash into the recovery from a crash; beside the lock routes, expiry and unplugging of
`execution` the constraint `OneTrouble` keeps one throwing call or one crash, which is
all that one run needs to be struck at each of its awaits. In `Streaming` two sockets
share a key and a third owns another, so that a sweep has a list of two. Three builds
and a retention of one give a sweep two candidates, and a second sweep an older list of
them. Two registrations race for the first account; two revocations overlap in every
order; a window of two ticks has a burst on each side of its boundary. Two credentials
are one of the machine and one of another. Weeks of two days have an edge within three
days, and a number of Sunday (0) and of Monday (1), which is all the week arithmetic
tells apart. One fault of the run's stream drops a socket or restarts the hub between
any two steps; of the live view's troubles (lost sockets, restarts, failing attaches and
protocol switches) two put one into the recovery from the other. Symmetry is used where
the values are interchangeable and no liveness is checked.

`MaxFaults`, `MaxCrashes` and `MaxTroubles` bound the environment; `Requests` bounds
the requests under way; `MaxInbox` stops the capture when the tab does not read; ages
and silences stop growing when nothing more can depend on them. The deadlock check is
off where everything may be over: sockets served (`streaming`), builds purged
(`build_library`), the last day computed (`analytics`), the run over (`console`).

## 4. Fairness

* `LocksFairSpec`, `RegistryFairness`: the expiry sweep and the stale-host sweep run
  on `setInterval` for as long as the hub lives, agents poll in a loop that swallows
  every error, and a handler that was called goes on after each await. Time passes:
  `Tick` is strongly fair in the registry, because it is only ever delayed by a
  heartbeat or an answer that is due.
* `HubFairness`: an orchestration and an accepted cancel go on after each await, and
  a crashed hub is started again and recovers.
* `ChildrenExit`: a spawned command ends. The hub sets a command no time limit, so
  `EveryRunEnds` is true only under this assumption; a test that hangs keeps its run,
  and its device until the lock expires.
* `LibraryFairSpec`: the hourly interval starts sweeps, a sweep goes on after each
  await, and builds grow old.
* `Analytics`: both timers fire again and again and database calls return. A day ends
  when it likes; `RowsCatchUp` is about the last day of the calendar, the only one
  that is sure to last. Runs that end after the last computation of a day that passes
  are not counted (section 6).
* `RunFairness`: the hub's orchestration goes on, events that were sent arrive or are
  lost with their socket, the poll's interval fires, requests are answered. Nothing
  makes a dropped socket reconnect, since polling must do without it.
* `LiveFairness`: the hub answers the socket and messages arrive; nothing is assumed of
  adb. `WaitingIsServed` needs no more. `WaitingEnds` has `CommandsDeliver` as a premise:
  that the commands of the capture on show end, and now and then one of them with a
  picture. The sources see to neither, for they set no time-out and pass an empty output
  over (`adb-mjpeg.source.ts:43-64`, `adb-h264.source.ts:59-121`).
* Nothing forces users, cables, cancels, crashes, failing calls or closing sockets.

## 5. Proofs

All theorems hold for every value of the constants that satisfies the named assumptions
(`DevicesAssumption`, `AdminsAssumption`, `TTLAssumption`, `NoLockAssumption`,
`RegistryAssumption`, `ExecutionAssumption`, `StreamingAssumption`, `LibraryAssumption`,
`AccountsAssumption`, `AccessAssumption`, `CalendarAssumption`, `NoDataAssumption`),
which say no more than which constant is a subset of which, which sets are finite, which
numbers are natural and which value is no other. Three theorems have hypotheses of their
own beside these (`AttachedAlwaysAvailable`, `ResultsAreFinal`, `NoRunIsAZombie`); each
is named below with the behaviour that makes the property false without it. Elsewhere
what breaks a property is an exception in the property itself, by a history of who was
struck. Each component's type invariant is proved rather than run: it is a part of the
inductive invariants below. Every safety invariant and action property of the passing runs
is stated by a theorem.

* `DeviceLocksProofs`. `LocksInv` is inductive: types, `LockStatusCoupled`, and
  `UnknownIsUnlocked`. The last part is needed because an upsert creates a document
  with status idle: were a lock there already, the coupling would break.
  `LocksImplementLease` is the refinement: sweeps end a set of leases, a renewal or a
  sync is a stutter, an acquisition grants a free one.
* `DeviceRegistryProofs`. Every step of the registry is a `LocksNext` step or leaves the
  documents alone, hence the coupling and, by `RegistryKeepsLeases`, the lease hold
  under all agents, requests, sweeps and restarts. `RegistrySparesLocks`: the sync never
  costs a reported device its lock; it needs the coupling (a locked device is not
  offline, so `BackToIdle` does not touch it) and that the offline step excludes what
  the request reported. `AttachedAlwaysAvailable`: `AvailableInv` says which request an
  agent waits for (`Awaited`), that what it found and every request inside the hub name
  the devices that stay attached (`Reported`), that the host of a live agent is neither
  silent for too long nor on the list of a sweep under way (`NeverSilent`), and that its
  devices are not offline (`StaysOnline`). The hypotheses are those of `registry_dark`,
  for any number of machines, requests and devices: live agents heartbeat as often as
  `OFFLINE_AFTER_MS` asks (`MaxSilence <= OfflineAfter`), and none returns from the dead
  (`ReturningAgents = {}`). An agent that returns finds its devices offline until its
  first sync.
* `ExecutionRunsProofs`. The same refinements for runs, crashes and recovery
  (`RunsImplementLocks`, `RunsKeepLeases`), and type correctness. Then, each with an
  invariant of its own:
  * `RunsEndAlone` (no process outlives its run's end, but for one that a crash cut off),
    under any faults and crashes: `RunInv` ties stored document, document in memory,
    position and child together, because "ended" is about the first and "live" about the
    last.
  * `RunsAreExclusive` and `RunsReleaseTheirOwn`, for every TTL, with everybody on the lock
    routes, syncs, faults and crashes: `HoldingInv` says that a run past its acquisition
    holds the lock of its device until it releases it, or is `deprived`, which is what
    both rest on. Both are about devices whose udid no other machine has.
  * `RunLocksEndWithTheirRun`, under the same: `SessionInv` says that the session of a lock
    is a run under way, whether or not the run still has the lock, and `CutInv` that a
    lock without an orchestration is one that recovery has on its list, or of a run that
    was `cutOff`.
  * `PassedAlwaysEarned` holds without any hypothesis, through crashes, recovery, late
    cancels and saves that throw: `StagesInv` says that both documents, the stored and
    the one in memory, have earned what they say, and what the position adds to it.
  * `ResultsMatchStages` adds the converse, under any faults and crashes: one that
    failed or was cancelled did not do its test. `MatchInv` says that the stored
    document is the one in memory until a call throws, and that the catch block is
    reached only by tests that were not done. Recovery fails a run whatever its stages
    say, and a save that throws leaves the stored stages behind, which are the two
    exceptions (`"lost"`, `thrown`).
  * `ResultsAreFinal` (`MaxFaults = 0`, any number of crashes): `PlaceInv` says which
    stored statuses a position allows and that recovery's list is exactly the runs in
    flight, so neither an orchestration nor recovery writes a run that has ended. A
    save that throws although the database applied it is the exception: the catch
    block then makes a stored `passed` or `cancelled` a `failed`.
  * `NoRunIsAZombie` (`MaxFaults = 0`, `~WorkspaceMayFail`, any number of crashes):
    `DoneInv` says that an orchestration stops only at a run that has ended. What
    throws before the `try` block is the exception (section 6).
* `StreamingProofs`, for any number of viewers counted at the same time, faults and
  crashes. `StreamInv` (types, `MapIsRunning`, `LeavesOnce`, `UnwatchedIsTimed`) is
  inductive. `AttachInv` adds that viewers sit on captures of their own key, and
  `ClosedViewersLeave` follows. `HistoryInv` adds what a start leaves behind: a running
  capture that the map does not list was overtaken by a viewer counted beside its start
  (`CountedBeside`), hence `RunningIsListed`; and whoever is attached has a running
  capture or one of a `silenced` key (`AttachedAreServed`), hence `WatchersAreServed`.
* `BuildLibraryProofs`. `LibInv` is inductive: types; until its save as ready a build never
  read as ready (`FetchIsYoung`); a build that ever read as ready and
  lost its file is superseded by `KeepPerGroup` newer ones (`FilesOfReady`); and so is
  whatever a sweep has on its list, however old the list is (`SweepsTakeOld`). What makes
  it inductive is that `everReady` only grows and a build in it keeps its `fetchedAt`, so
  the set of newer ones grows, although a save as ready that throws after it was applied
  takes a build back. `NewestAreKept` and `StatusMatchesFile` follow, for any number of
  sweeps and faults, and `ReferencedStays`, since `Secured(b)` is stable.
* `AccessProofs`, of `Accounts` and of `AgentAccess`.
  * `AdminAlwaysExists`: a registration that counted somebody finds an account when it
    creates its own, because none is ever removed (`CountedSomebody`); if it counted
    nobody it creates an administrator itself.
  * `PageShowsItsToken`: `SessionInv` says that while a token is being checked it is
    the stored one, nobody is shown and no form is pending, in every page that is not
    `hasty`. The type invariant needs
    `HitsCoverPassed`, that the open window has counted what was let through in
    this tick.
  * `BurstsAreBounded`, for any limit and window: `BurstInv` divides the attempts of
    the last `Window` ticks by the age of the open window's first one. At most
    `MaxAttempts` are no older. Fewer are older, since one that opened an earlier
    window must be out of reach when the next one opens. The attempts are a set
    (`Recent`), so that the bound is a fact about cardinalities and no induction over
    a sum.
  * `WritesAlwaysAuthorised`: `AccessInv` says that documents are created once and a
    revocation is for good, so what a verified request says of its credential stays
    true until its handler runs (`Honest`).
  * `ToldIsAlwaysShown` and `TokensAreNotLost`: `PageInv` relates what the page was
    told to both ends of its query: a list that was read after the news has it, one
    read before is marked or refetched. `TokensAreNotLost` needs of it that
    the page waits for no other answer while it shows a token (`AskedHere`): the answer of
    an issue request leaves its token or an error in the form, which is kept until the form
    shows it, and a token stays until it is dismissed.
* `AnalyticsProofs`. `CountedWhereItAlwaysEnded`: `RollupInv` says that stored rows and
  computations under way count only runs that ended in their range, which stays true
  since a run that has ended does not move. For a day the range is that day; that no two
  weeks share a day is arithmetic of remainders, for any length of the week
  (`RangeStart`, `RangeEnd`).
* `ConsoleProofs`, of the pages composed in `Console`.
  * `AnnouncedIsAlwaysShown`: `RunPageInv` says that events on their way are not ahead
    of the document, and that a page's data, unless marked, and an answer on its way
    are no older than the events heard.
  * `OwnActionIsAlwaysShown`: `PanelInv` says that whoever acts has the device on show
    (`ActsOnShown`), so that the invalidation finds a document and drops the fetch under
    way, and that a document read before the action, once it was answered, is marked or on
    its way out (`OutdatedIsMarked`).
  * `LiveIsAlwaysFed` and `ErrorIsAlwaysOfThisAttempt`: `LiveInv` says that a
    seat taken or joined has a working capture or was halted, that the last message of
    a closed one is the end of its socket, and that an error shown on a live socket
    came from its own seat.

Only model-checked: the liveness properties (`AbandonedLockIsFreed`, `RegistryHeals`,
`DeadHostGoesDark`, `EveryRunEnds`, `KilledRunIsCancelled`, `DanglingIsRepaired`,
`RowsCatchUp`, `EndIsSeen`, `WaitingIsServed`, `WaitingEnds`), since the prover handles
neither fairness nor ENABLED.

## 6. What the models show of the code

Six sentences of the repository are contradicted by what the code does. The run
`streaming_shared` keeps the counterexample to the fourth; the first five are found by
TLC in seconds, with the configuration that is named.

1. Nothing renews the lock of a run: after `lockTtlMinutes` the sweep frees it under
   the running test and a second run starts on the device, although
   `docs/modules/execution.md:23` promises "no window for a race". It is why
   `OneRunPerDevice` and `ReleasesOnlyItsOwn` except the runs that were `deprived`;
   without this exception `MCExecutionRuns.cfg` refutes the first of them.
2. Locks are taken and given back by udid only (`devices.service.ts:71,81`), although
   a device is a `<machineId, udid>` (`device.model.ts:61`): two emulators called
   `emulator-5554` on two machines get each other's locks, and two runs drive one of
   them. It is why these properties ask for `Twinless(d)`; without it
   `MCExecutionRuns.cfg` with `Machines = {m1, m2}`, `Devices <- MCTwins`,
   `LockTTL = NoTTL`, `LockUsers = {}` and `Unpluggable = {}` refutes `OneRunPerDevice`.
3. A crash between the save of the final status and `releaseLock` leaves a lock that
   recovery does not look for (`execution.service.ts:252`), although the comment at
   246-248 and `execution.service.test.ts:11-12` say that no restart leaves one.
   `MCExecutionRuns.cfg` with `LockTTL = NoTTL`, `LockUsers = {}`, `Unpluggable = {}`,
   `WorkspaceMayFail = FALSE`, `MaxFaults = 0` and `INVARIANT EveryEndReleases`.
   `RunLockHasItsRun` excepts such a run as `cutOff`.
4. Two viewers that open an Android device at once both start a capture, and the first
   one is never stopped (`streaming.service.ts:96-99`), contrary to lines 54-58 and to
   `docs/modules/streaming.md:19`: `streaming_shared`, which checks `OneCapturePerKey`.
5. The close handler is registered after the await of `getDevice`
   (`streaming.routes.ts:64,84`): a socket that closes during it leaves a phantom
   viewer, which the comment at 77-82 says cannot be. `MCStreaming.cfg` with
   `MaxTroubles = 0` and `INVARIANT NoPhantomViewer`.
6. `docs/modules/analytics.md:94,103` give a suite with fewer than three daily rates the
   flakiness 0 and exclude it from the table; the code takes two
   (`analytics.service.ts:38-44`, and the comment at 109-113). `Exact`, and with it
   `RowsCatchUp`, follows the code.

Further observations, by component. Where one of them is why a property has an
exception, the property's comment says so.

Registry and locks:

* A hub restart between the two updates of `markStaleHostsOffline` leaves an offline
  host with idle devices, for ever if its agent does not return
  (`hosts.service.ts:56-60`). `DeadHostGoesDark` is therefore checked without restarts.
* `acquireLock` asks for a free lock and not for the status (`devices.service.ts:71`):
  it makes an offline device of a dead host in-use, and the end of that lock makes it
  idle, for good, since the sweep has done with the host. A sync that was under way when
  the agent died does the same. `DeadHostGoesDark` therefore says that the devices and
  their locks go once, and not that this lasts.
* A renewal, a release and the route of an admin name a device by its udid and not by a
  session (`devices.service.ts:80-94`): any of them may reach the lock of somebody who
  took the device meanwhile. No property says that it cannot.
* An older list of a machine may be applied after a newer one, which takes a device that
  came back offline until the next poll; `RegistryHeals` is about that poll.
* The same sweep marks a host offline although it heartbeat after the find; the next
  tick repairs it.
* An admin's unlock of an offline device makes it idle (`devices.service.ts:80-83`),
  until the next sync; a run's release does the same.

Execution:

* Commands survive a crash or shutdown of the hub (`server.ts:144-155`): the recovered
  run reads as failed while its command still drives the device.
* A save that throws in the `finally` block skips the release; `mkdirSync` runs before
  the `try`, so a full disk leaves the run queued and its device locked
  (`execution.service.ts:154,206-208`); a throwing `acquireLock` leaves the run queued.
* A cancel accepted while the last save is under way is lost, and its id stays in
  `cancelledRuns`; one accepted after the last check lets the run pass.
* A command that fails to start leaves its stage as running.
* A save of a result that throws although it was applied changes the result: the catch
  block saves `failed` over it.
* Recovery frees the device of a queued run that never got a lock.
* A run that lost its lock frees, at its end, whatever lock the device has by then
  (`execution.service.ts:214`): the exception `deprived` of `ReleasesOnlyItsOwn`.

Streaming:

* The operator's stop, and a sweep with a stale list, leave viewers with open sockets
  and no frames; late output of a stopped `adb` child tears down the capture that took
  over its key, and so does the error of a second capture of the key
  (`streaming.service.ts:144-145`); an attach whose update throws leaves its viewer on the
  capture. `silenced`, `halted` and `faults = 0` in the properties are these.
* Sessions left active by a crash, or by updates applied out of order, count against
  the cap; captures counted at the same time exceed it. No property says that the cap
  is kept.
* `restartCapture` has no caller, so the hub never changes a `retryKey`, contrary to
  `docs/modules/streaming.md:89-94`.

Builds:

* A run that is created between the look-up of references and the deletion names a
  build whose artefact goes (`builds.service.ts:139-148`), in spite of the promise at
  line 103; `ReferencedStays` is about builds that no sweep has decided on.
* A save as ready that throws although it was applied makes the build corrupt
  (`builds.service.ts:72-77`), and with it the newest one of its group may go; a sweep
  that counted it meanwhile has purged an older one in its favour. `NewestAreKept` says
  both. `ReferencedStays` starts once the fetch is over, and so leaves it out.
* A ready build whose file a broken-off sweep deleted is not repaired once a run names
  it: the next sweep skips it, contrary to 108-110.
* A stop during a fetch leaves the build downloading or validating, and its file, for
  good. A save that throws in the catch block leaves the file too.
* The size check compares the file with itself (the provider's `sizeBytes` is
  `statSync` of the same path). Runs may name builds that are not ready.

Accounts:

* Two first registrations that overlap both become administrators; nobody ever becomes
  an operator by way of the API.
* A late answer of `GET /me` drops the token, or replaces the user, of a login that was
  faster (`AuthProvider.tsx:39-50`), for the login page does not wait for the check
  (`router.tsx:19`): the exception `hasty` of `UserMatchesToken`.
* The limiter compares the end of the URL (`app.ts:72`), so a URL with a query string is
  not counted. The pages send none.
* The limiter lives in memory and forgets everything at a restart. Tabs share
  localStorage but not the user they show.

Credentials:

* The list's first fetch is joined by the invalidation that follows an issue and may
  lack the new credential. Leaving the page while one is being issued loses its token.
* The error of a request is rendered in the form only (`AgentCredentialsPage.tsx:119,230`):
  if the form was cancelled meanwhile it appears when the form is next opened, as if it
  were about the next request.
* Revoking again overwrites `revokedAt`. A request verified before a revocation is
  still handled after it.

Analytics:

* A daily recomputation reads the row that the previous one of the same day stored and
  adds the fresh rate to it (`analytics.service.ts:102-113`): two rates of one day make
  a suite look flaky, and recomputing is not idempotent (147-149).
* Runs that end after the last computation of their day are never counted by a timer.
* An older, slower recomputation overwrites the row of a newer one, and rows whose
  runs have gone are never deleted.

Pages:

* A live socket stops the polling (`execution.api.ts:33-38`), so a transition that was
  lost before the socket came up leaves the page as it is: the exception of `EndIsSeen`.
* The status event is published before `endedAt` and the release are saved; a page
  that fetches on it shows no end and a device that is still held.
* A refused lock or cancel does not refresh what it was decided on.
* An administrator's "Release lock" on a page that is out of date frees another user's
  lock unasked (`LockControls.tsx:67-77`): what the page shows decides whether the dialog
  asks. `OwnActionIsShown` says no more than that the user's own action does not leave
  the page behind. The lock of one's own run reads as one's own lock.
* An invalidation spares a fetch of a query no page shows, and its answer takes the mark
  away: whoever leaves the page of a device at once after an action and returns may be
  shown what was read before it. `OwnActionIsShown` is about one visit of the page.
* A device chosen in the form stays chosen when it has become locked; presets are
  overwritten by a second tab; `useAnalyticsFilters` and `useRunFilters` are not
  debounced although their comments say so.

Live view:

* After "Stop watching" the frozen frame hides the stage's Start button, contrary to
  `DeviceStream.tsx:110-112`. After an operator's stop, late output of a killed
  `screencap`, or the error of a second capture of the key, the banner says "Live" over a
  frozen frame: the exceptions of `LiveIsFed`.
* A command of `adb` that hangs, or never has output, leaves its viewers at "Connecting..."
  for ever and unexplained: the premise of `WaitingEnds` excludes it, and
  `WaitingIsServed` says no more than that there is a capture to wait for.
* A switch of protocol shows "capture restarted", since the `retryKey` is that of the
  protocol's capture.
* A frame may overtake the join ack, contrary to `useDeviceStream.ts:57-60`.
* One segment that fails tears the whole H.264 capture down, contrary to
  `adb-h264.source.ts:86-88`; a stopped one goes on recording on the device, into the
  file that its successor writes too, which lines 126-131 call harmless.

## 7. Not modelled, and the plan

What is left of the parts that are modelled:

1. `Streaming`: liveness of the idle teardown, the cap as a bound, the graceful
   shutdown. The hub's start-up order (`server.ts`) appears only as "recovery before
   routes".
2. Of the agent: the time limit of its own commands, and its synthetic discovery.
3. Analytics queries (`queryAggregates`) sort and filter stored rows and keep no state.
4. Proofs: weaker hypotheses. `AttachedAlwaysAvailable` machine by machine, so that it
   holds of a machine whose agent never returned whatever the others do;
   `ResultsAreFinal` and `NoRunIsAZombie` beside faults, for the runs that none of them
   struck, as `ResultsMatchStages` is. An abstract specification of a run (queued, in
   flight, ended) as `DeviceLease` is one of a lock.

Left out for good:

* Configuration: files are merged once, before anything runs, by functions without
  state.
* Inventory, grid, charts and their filters: each is a cached list that is polled, and
  what can go wrong with that is in `QueryCache` and the pages above. Filters live in
  the address bar; presets in localStorage, which every tab overwrites.
* `InstallJob`: a schema that no code writes.
* The synthetic capture source and the synthetic devices: stand-ins for development.
* Parsing of `adb` output, styling, scripts and container files, logging. They keep no
  state that outlives a call.
