# A verification project for EcoLinker

EcoLinker is a server that keeps a session with EcoFlow's MQTT broker, polls
EcoFlow's HTTP API by means of *collectors*, and hands what it receives to
Prometheus and to another MQTT broker. It is controlled by an HTTP API (and a
command-line client of it), and persists devices, MQTT subscriptions and
collectors in PostgreSQL.

This directory holds TLA+ modules translated from the Go source, TLC
configurations that check them on small instances, and TLAPS proofs of what
matters most for every instance. Line numbers refer to `src/`. Paths without a
directory are files of `src/internal/server/service/`.

## 1. The system

| Component | State | Operations | Interacts with |
|---|---|---|---|
| Named locks (`locker/locker_memory.go`, `lock_mem.go`) | map name → mutex, waiter count, expiry; registry mutex | Lock, LockWithTTL, Unlock, Exists, sweep of expired entries | its callers; nothing in the repository takes a lock today |
| EcoFlow session (`ecoflow_mqtt.go`, `task_ecoflow_mqtt.go`) | MQTT client, set `subscriptions.values` under a mutex | connect job, OnConnect, OnConnectionLost, sync job, Subscribe, Unsubscribe | scheduler (jobs), subscription table (sync), message handler |
| Scheduler (`task.go`, gocron) | jobs, tags; with a Redis, a distributed lock for each job | Enqueue, EnqueueOnce, CancelByTag, Start, Stop | everybody |
| Devices and subscriptions (`device.go`, `mqtt_subscription_*.go`, `repository/`) | two tables, foreign key with cascade, unique index | create, update, delete of each | session, through one-time jobs |
| Collectors (`collector.go`) | a table; periodic and one-time jobs with a copy of a row | create, update, delete, invoke, run | scheduler, EcoFlow HTTP, metrics, forwarding |
| Metrics (`prometheus.go`, `ecoflow_mqtt_message_handler.go`) | label names of each metric under two mutexes; the samples | register, set, increase | written by message goroutines and collector runs |
| Forwarding (`mqtt_forward.go`) | MQTT client | connect job, Publish | called by message goroutines and collector runs |
| Payload parser (`ecoflow_parser.go`, `float/convert.go`) | none | flatten, extract indices | Metrics |
| State refresh (`task_prometheus.go`) | a periodic job | read the connection, write the gauge | session, metrics |
| Lifecycle (`server.go`) | how far the process is from start to exit | start in order, stop in order against a timeout | all services |
| Historical data (`collector.go`, `tm/time.go`, `terminal/commands.go`, `ecoflow_http.go`) | none; a command accumulates lines | cut a time into ranges, ask, print or export | EcoFlow HTTP, metrics |
| HTTP layer, configuration, other commands, Redis lock service, generated enums | none of their own | | |

Where it is hard:

* **Jobs are goroutines.** A request commits a row and then enqueues a job; the
  jobs of different requests run in any order and interleave with callbacks of
  the MQTT client and with the sync job of a new session.
* **The belief `subscriptions.values` and the broker may diverge**: the
  connection test precedes the lock, broker calls fail, sessions are lost, and
  the callback of a lost session may run after the next session is up.
* **Requests are not transactions.** Each reads, writes and re-reads; crashes
  and other requests come in between.
* **The scheduler is memory only** and must be rebuilt from the table.
* **Messages of one device are processed concurrently**, and metrics are
  registered on first use by whoever comes first.
* **Instances share tables and a lock, but not sessions**: the sync job of each
  session takes a distributed lock although every session needs its own.
* **Shutdown** stops the scheduler before the servers that enqueue on it.
* **Keys are cut by offsets** of matches into a string that gets shorter; times
  are cut into ranges with an inclusive end.
* **Locks expire by being unlocked** by whoever calls the registry next.

What makes each component correct: at most one owner of a name, no unlock of an
unlocked mutex, no leaked entry, no starved waiter (locks); the set never claims
a topic that is not delivered, and every persisted subscription is delivered in
the end (session with subscriptions); schedule = table, never two schedules
(collectors); the process survives its own metrics, everything is counted once,
what is exported is the newest and bears its own labels (metrics); numbers of a
payload keep distinct keys and their positions (parser); an instance that is
connected delivers what is persisted whatever the others do (lifecycle); every
second is asked for once (historical data). The hazards of `PROJECT.json` list where each of these could go wrong.

## 2. The modules

| Module | Models | Notes |
|---|---|---|
| `NamedLock` | abstract | owner of each name; what `Locker` implements |
| `Locker` | `locker_memory.go`, `lock_mem.go` | one step for each critical section of the registry mutex; waiting and `dec()` outside it |
| `LockerProofs` | — | proofs |
| `EcoFlowMqtt` | `ecoflow_mqtt.go`, `task_ecoflow_mqtt.go` | a specification in an environment that enqueues any job and keeps any rows |
| `EcoFlowMqttProofs` | — | proofs |
| `Subscriptions` | `device.go`, `mqtt_subscription_store.go`, repositories, schema | composed with `EcoFlowMqtt` (INSTANCE); implements it |
| `SubscriptionsProofs` | — | proofs; uses those of the session |
| `Cluster` | `server.go`, `task.go`, Redis as the distributed lock | several instances, each with the session in short |
| `ClusterProofs` | — | proofs |
| `Collectors` | `collector.go`, repository, schema | the scheduler as counts of jobs for each copy of a row |
| `CollectorsProofs` | — | proofs |
| `History` | the historical part of `collector.go` and of `ecoflow_http.go`, `tm/time.go`, the command in `terminal/commands.go` | one command or one run |
| `HistoryProofs` | — | proofs |
| `Parser` | `ecoflow_parser.go` | pure; the reference definition is `Expected` |
| `ParserProofs` | — | proofs |
| `Metrics` | `prometheus.go`, the message handler, the writing part of a collector's run, `mqtt_forward.go` | extends `Parser`; registering, writing and publishing as separate steps |
| `MetricsProofs` | — | proofs |
| `MC...` | — | symmetry sets and the payloads of the small instances |

### State and actions

*Locker.* `locks`, `locked`, `waiters`, `expires` are the map and the three
fields of its entries; a caller goes `idle` → `entry` (swept) → `wait` (counted)
→ `got` (owns the mutex) → `held` (dec'd) → `release` (swept) → `idle`.
`DeleteExpired` is `deleteExpired` and part of `LockCall`, `UnlockCall` and
`Exists`. An unlock of a mutex that is not locked is a fatal error of the Go
runtime: `crashed`, after which nothing happens. `lease` and `staleUnlock` are
history variables. A reading of the clock and the sweep that uses it are one
step (a stale reading sweeps less, and what it leaves the next call sweeps).
`Clear` has no caller and is left out: it replaces the map without the mutex.

*EcoFlowMqtt.* `values` is `subscriptions.values`, `broker` what the current
session really delivers; `connCbs` and `lostCbs` count callbacks of the MQTT
client that have not run. A job is the record of what it has left to do, `jobs`
counts jobs in each state. `TestConnected` is the test before the lock, the
others are what happens under `subscriptions.Lock`, including the broker call:
it succeeds only with a session, and may be refused (`Faults`). Topics of kind
`status` are never subscribed (their case is empty) but can be unsubscribed.
The MQTT client is external and modelled from its use: clean sessions,
automatic reconnect after the first connect, callbacks in goroutines of their
own. `LateCallbacks` says whether the callback of a lost session may run after
the reconnect.

*Subscriptions.* A request is a record of where it is and what it has read; each
statement on the database and each enqueued job is a step. Constraints of the
schema are `Admissible`, `on delete cascade` is in `DeleteDeviceRow`, gorm's
`Save` inserts a row that is gone. The initial tables are those an earlier run
may have left. Deleting enqueues a *subscription*, as the code does. `shown` is
the gauge of the connection; the periodic refresh reads the connection
(`RefreshRead`) and writes what it has read (`RefreshWrite`), with anything in
between. `Prometheus = FALSE` is a server without that job.

*Cluster.* `phase[i]` goes `down` → `up` → `stopping` → `closing` → `down`, or
to `down` at once (`Crash`, `ForcedExit`); with it go the connection, the
scheduler and the requests of instance `i`. `stopping` is the scheduler's
shutdown, `Disconnect` what follows it, `closing` the wait for open requests.
`session[i]` is the session of the connection, one of those not `begun` yet, and
`sync[k]` the job that synchronizes session `k`. With a `redis` the job needs
`lock`; it is skipped when another one holds it or Redis does not answer, the
lock expires whether its owner runs or not (`LockExpires`), and only its owner
releases it. As in `EcoFlowMqtt`, `values[i]` is what the instance believes in
and `served[i]` what the broker delivers; `OnConnectionLost` clears `values[i]`
in a step of its own, which may come after the reconnect; `Subscribe` does
nothing for a topic of the set, without a connection, or when the broker refuses
(`Faults`). Requests commit their row first (`inflight` has the jobs they have
yet to enqueue), and the two jobs of an update run in any order. The test of the
connection, the lock of `subscriptions` and the broker call are one step here.
`outlived` and `excused` are history variables.

*Collectors.* `sched[r]` and `once[r]` count periodic and one-time jobs with the
copy `r` of a row; cancelling by tag removes both. `"never"` stands for a
frequency the scheduler refuses; the request succeeds all the same. An update to
device parameters is always refused, as the type assertion of `collector.go:174`
never holds of decoded JSON. `disturbed` and `overtaken` are history variables.
A run of a periodic job changes nothing here: what it asks for is in `History`,
what it writes in `Metrics`.

*History.* `caller` is a command with its arguments, or a run of a collector;
`Ask` takes the first range of `todo`, asks the server's handler and with it
EcoFlow, and adds to the `header` and the `rows` that are printed (or exported).
Time is in seconds; a range includes its last second, hence the offset of -1.

*Parser.* A key is a sequence of tokens: words, numerals and underscores.
`Matches` are those of the regular expression, `Cut` removes one from the key
that earlier ones have shortened, `Tidy` is the final clean-up.

*Metrics.* `labels` is `customGauges.values` and `customCounters.values`,
`samples` what Prometheus sees, `published` what the forward broker got last on
each topic. A Go map is listed in any order: `LabelNames` and `LabelValues` are
sets of sequences. The Prometheus library is external: adding a metric twice
stops the process (it panics in a goroutine nobody recovers), a write with the
wrong number of labels is refused or panics. A task waits for the token of its
publication; when the acknowledgement is lost the client sends the payload again
meanwhile (`Deliver`). `beside` and `forwarded` are histories: the tasks of the
same forward topic that were still at work when a task came, and those whose
payload was published. A collector's run is modelled for
device parameters; historical data use one fixed name with fixed labels and the
same two calls.

## 3. What is checked

All runs take less than three minutes. Deadlock is checked in `locker` only; in
the other models the system may really stop (all requests issued, all sessions
used up, a fatal unlock, a command that is over).

| Run | Instance | Result | Shows |
|---|---|---|---|
| `locker` | 3 callers, 2 names, no expiration | pass | `MutualExclusion`, `NoFatalUnlock`, `EntryIffUsed`, `LockGranted`, `ImplementsNamedLock` |
| `locker_ttl` | 3 callers, 1 name, durations 0, 1, 2, clock up to 4 | pass | `LeaseExclusion`, `FatalNeedsExpiry` |
| `mqtt_session` | 2 devices, 2 sessions, 1 crash, late callbacks and faults | pass | `TrackedIsServed`, `ForgottenOnlyByLateClear` |
| `subscriptions_served` | 2 requests that create, delete, or update a device, 2 sessions, 1 crash, the refresh job, no late callback, no fault | pass | `WantedIsPromised`, `Mirrored`, and the liveness `WantedIsServed` and `StateIsShown` |
| `subscriptions` | 2 requests of any kind, everything may fail | pass | `ImplementsSession` |
| `subscriptions_removed` | no fault | violated | `RemovedIsSilent` |
| `subscriptions_updated` | no fault | violated | `SubscribedOnce` |
| `collectors` | 3 requests, 4 ids, 1 device, all configurations, 2 crashes | pass | `ScheduledAsPersisted`, `NeverTwice`, `InvokedAsPersisted` |
| `metrics` | 2 tasks, 2 devices, 1 collector, payloads with lists and lists in objects in lists, with and without Prometheus; all paths of up to 4 steps over 6 names and 2 positions | pass | `CrashNeedsClash`, `MisplacedNeedsTwoIndices`, `CountedOnce`, `NewestUnlessOverlapped`, `NewestForwarded`, `ParsedAsDocumented`, `NothingOverwritten` |
| `metrics_labels` | the same | violated | `IndexedAsReceived` |
| `cluster` | 2 instances, 1 topic, 3 sessions, 1 request of any kind, 1 exit, late callbacks, with and without a Redis, faults | pass | `SyncAlone`, `SyncedServes` |
| `history` | every command with at most 3 ranges, every run at every second, in 3 weeks of days of 2 seconds; 2 attributes | pass | `EverySecondOnce`, `RangesAreAnswerable`, `RowsUnderHeader`, `NeverPanics`, `PastIsLastWhole` |

Every property has a mutant of the code that violates it (`PROJECT.json`); the
faulty definitions stand next to the ones they vary and say so.

Why the bounds are enough. Three callers are an owner, a waiter and a third one
that unlocks, sweeps or creates an entry next to them; the clock passes the end
of two leases that begin at different times. Two sessions are a loss and a
reconnect with the first callback still pending (one device with three sessions
behaves the same); `MaxCopies` lets two jobs of one topic be in the same state.
Two requests are enough for every race of two, on one device with both kinds of
topic and a row of an earlier run; requests that are not issued count too, so
that single requests are covered. Three requests on collectors are an
invocation between two updates. Two metric tasks are two first registrations,
two messages out of order, or a message and a run. Paths of four steps hold two
lists with an object between them, and a list in a list below an object; the
names are plain, with an inner and a last numeral, with an inner and with a
last underscore, empty, and a numeral by itself. Three sessions of two instances are a session of each and a
third one after a loss, a crash or a restart of either, next to a lock that
another one holds, left behind, or lost; one exit is a crash or a shutdown at
any point, one request a race with it. Sessions, and instances, are
interchangeable, hence the symmetry. A day of two seconds is the shortest in
which the first and the last second differ; a little more than three weeks has
every weekday at every offset from the end of a range. `Faults`,
`LateCallbacks` and `Operations` restrict a run to the conditions under which
the code keeps its promise, and the properties say so.

### Fairness

`Locker`: a goroutine that can run does; an owner unlocks in the end (weak
fairness of its steps); `sync.Mutex` in its starvation mode hands itself to the
longest waiter, hence strong fairness of `Acquire`. `Subscriptions`: the
scheduler starts every queued job, goroutines and callbacks run, a request that
has begun goes on, the client retries while the connection is lost, and the
refresh job is periodic (weak fairness). No fairness makes a client issue a
request, the connection fail, or the process crash. `EcoFlowMqtt`,
`Collectors`, `Metrics`, `Cluster` and `History` are checked for safety only.

### Disagreements the runs show

* `subscriptions_removed`: deleting a subscription or a device enqueues a
  subscription of its topic (`mqtt_subscription_store.go:92`, `device.go:109`);
  messages go on, against the usage text of `subs rm`.
* `subscriptions_updated`: saving a subscription with the same topic enqueues
  "unsubscribe" and "subscribe" in no order (`mqtt_subscription_store.go:70-71`);
  if the subscription is refused first, nothing is delivered any more until the
  next session, against "You only need to do it once!".
* `metrics_labels`: names and values of two indices come from two iterations of
  a map (`ecoflow_mqtt_message_handler.go:138,142`, `collector.go:419,422`).

Three more were met on the way and are kept as text, because a unit test shows
them once they are known. A collector without parameters is accepted and fails
on every run (`ecoflow_http.go:54`), where the README promises all parameters
(`README.md:144`). With `PROMETHEUS_ENABLED=false` the service is nil
(`server.go:87-94`), and the first message, or run of a collector, dereferences
it (the second case of `CrashNeedsClash`). Device parameters of a collector
cannot be updated (`collector.go:174`).

Conditions under which a property holds are disagreements nobody has written
down: `ForgottenOnlyByLateClear` and `Mirrored` say that a late callback makes
the set forget delivered topics (which then cannot be unsubscribed);
`FatalNeedsExpiry` that expired locks can stop the process; `disturbed` of
`Collectors` that overlapping updates leave two jobs, and the deletion of a
device the jobs of its collectors; `overtaken` that an invocation may run a
version that was replaced while it was enqueued; `CrashNeedsClash` that a payload
whose lists change depth, or a collector that reads a key also sent by MQTT,
stops the process; `Plain`, `NoListInList` and `NoUnderscore` of `Parser` that
names which look like positions, are empty, or have an underscore at an end or
two together, lists directly in lists, and names with any underscore may lose
their place or overwrite each other; `outcome` of
`SyncedServes` that with a Redis the second of two instances that connect at the
same time stays without its subscriptions until its next session (the job is
skipped, not delayed), as does one that cannot read the table; `excused` that a
topic stays without delivery, until the next session, when the callback of the
last one had not cleared the set before the job met the topic in it, when its row
was created at another instance since the job, when the broker refused it, or
when the unsubscribe job of an update ran last; `beside` of
`NewestUnlessOverlapped` and `NewestForwarded` that of messages whose processing
overlaps, the older one may be what stays exported or forwarded;
`RowsUnderHeader` that the header is wrong when answers differ in their
attributes.

## 4. What is proved

Checked by TLAPS for every value of the constants, from the assumptions the
modules declare on them (types, finite sets, and for `Subscriptions` and
`Collectors` more uuids than clients) and the conditions named below. Each
module about a state has one inductive invariant `Inv` (`LockerProofs` two), which
TLC has checked on the small instances as well.

| Module | Condition | Theorems |
|---|---|---|
| `LockerProofs` | any durations | `TypeCorrect`, `LeaseExclusionHolds`, `FatalNeedsExpiryHolds` |
| `LockerProofs` | `Durations = {0}` | `MutualExclusionHolds`, `NoFatalUnlockHolds`, `EntryIffUsedHolds`, `ImplementsNamedLockHolds` |
| `EcoFlowMqttProofs` | — | `TypeCorrect`, `TrackedIsServedHolds`, `MirroredHolds`, `ForgottenOnlyByLateClearHolds` |
| `SubscriptionsProofs` | — | `TypeCorrect`, `ImplementsSessionHolds`, `MirroredHolds` |
| `SubscriptionsProofs` | no late callback, no fault, no update of a subscription | `WantedIsPromisedHolds` |
| `CollectorsProofs` | — | `TypeCorrect`, `ScheduledAsPersistedHolds`, `NeverTwiceHolds`, `InvokedAsPersistedHolds` |
| `ClusterProofs` | — | `TypeCorrect`, `SyncAloneHolds`, `SyncedServesHolds` |
| `MetricsProofs` | — | `TypeCorrect`, `OnlyClashesStop`, `EachIsCounted`, `ExportedIsNewest`, `ForwardedIsNewest`, `OnlyDeepIsMisplaced`, `PlainAsDocumented` |
| `ParserProofs` | plain names, no list directly in a list | `PlainIsParsed` |
| `HistoryProofs` | — | `TypeCorrect`, `TimeRangesCut`, `EverySecondOnceHolds`, `RangesAreAnswerableHolds`, `PastIsLastWholeHolds`, `RowsUnderHeaderHolds`, `NeverPanicsHolds` |

*LockerProofs.* Whatever the durations (`LeaseInv`): the waiter count of a name
is the cardinality of the callers that are counted on it (`Counted`), which needs
lemmas on adding an element to and removing one from a finite set and gives
`waiters \in Nat`; an entry somebody is counted on stays in the map; and until a
caller unlocks after its lease, an owner whose lease lasts has the entry, with
the expiry it was given, locked and to itself among those whose lease lasts.
A sweep takes expired entries only, hence none of such an owner. Without
expirations (`Durations = {0}`, what `LockMemService.Lock` asks for), `Inv` adds
that no entry has an expiry, that a name is locked exactly when it has an owner,
that owners are unique, and that a name has an entry exactly when it is used; the
count is needed because `Unlock` decides by it whether the entry leaves the map.
The refinement shows that `Acquire` takes a free name, `Unlock` gives it back,
and every other step leaves every owner alone.

*EcoFlowMqttProofs.* Nothing is delivered without a session, before the first
session both sets are empty, and without late callbacks a session that is up has
no callback of a lost one left. The step that carries the argument is
`OnConnectionLost`: it may only shrink the set, and it is the only step that
clears it, so that after a loss the set is right again once the callbacks have
run.

*SubscriptionsProofs.* `Inv` adds to the types that a request enqueues only jobs
the session expects (`Submittable`), that no two rows have the same uuid or the
same topic, that what has a uuid was given it, and that fewer uuids are given out
than there are: a request is given at most one, and the count of those that may
have one (`Given`) bounds them. The invariant of the session is the one of
`EcoFlowMqttProofs`, whose theorems are used as they stand: every step here is a
step of the session or leaves it alone (`SessionStep`), which is also
`ImplementsSessionHolds`; hence all that is proved of the session holds of the
composition. For `WantedIsPromised`, three more parts: without updates no
request unsubscribes, hence no job does, and what is wanted is promised. The
proof follows a promise from hand to hand: the insert, the re-read, the request
that enqueues, the job, and the broker; and from a reconnect to its callback, the
sync job, and a job for all rows. A job drops a topic only when it is already in
the set, and then, by `Mirrored`, the broker delivers it; this is where the
proof needs that callbacks are not late. A promise of a deleted row ends with
the wish for it, because topics are unique (`WantedRow`).

*CollectorsProofs.* A collector that is not `disturbed` has at most one request
at a time (`Alone`), and the scheduler is where that request has left it
(`Followed`, by `Progress`): as persisted before the table changes, with at most
one job between the change of the table and the cancellation, with none before
the start. From this, `NeverTwice` and `ScheduledAsPersisted`. For invocations:
one that is not `overtaken` is alone and has the current row, and a one-time job
with an old row exists only until the request that replaced the row cancels.
Uuids are counted as in `SubscriptionsProofs`; without fresh ones the schedule
of a deleted collector could return with another's uuid.

*ClusterProofs.* A running synchronization owns the lock or has outlived it
(`OwnsOrOutlived`): a lock that expires while its owner runs adds it
to `outlived`, and only the owner's release or end frees it. The rest of `Inv`
is about each instance by itself (`Local`): an instance that is down has neither
session nor set (`Off`); when no callback is left, the set holds nothing between
two sessions and only what is delivered in one (`Cleared`); and once the job of
its session has read the table, every row is delivered, excused, in the job's
loop, or in a subscribe job, and every topic of the set is delivered or excused
(`PursuedBy`). The second half of that is what lets a job drop a topic as already
subscribed; at the moment the table is read it follows from `Cleared`, or the
topic is `Late` and excused. `Careful` says what no `Subscribe` or `Unsubscribe`
does to these, whoever calls it; a callback that clears the set of a later
session leaves what the broker delivers as it is.

*MetricsProofs.* Except in `PlainAsDocumented`, which follows from
`PlainIsParsed`, what the parser makes of a path is left uninterpreted; the
assumptions on payloads say that the values of one are at different places and
have at most as many indices as the code has names for. Tasks are numbered in the
order in which they arrive (`Numbered`), and a task has written what it is past
and only that (`Staged`). A gauge that is exported is registered
(`RegisteredFirst`), with the labels some task received it with
(`GaugesAsReceived`), and what is written under names nobody else uses was written
by such a task (`OwnAsWritten`): that gives `OnlyClashesStop` (a refused write, a
panic, or a second registration each need two gauges of one name with different
labels) and `OnlyDeepIsMisplaced` (with one index, the two orders of a Go map are
the same one). For what is newest, `Beside`: an older task of the same forward
topic that is still at work was so when the newer one came. Hence whoever
overwrites what a message has written is newer, or was beside it
(`WriterIsNewest`), which makes `LastWritten` and `LeavesWritten` inductive
together with `Inv`; and whoever is published after a task, for the first time or
again, is newer or was beside it (`TakenLast`). `EachIsCounted` compares counters
with the cardinality of the set of tasks past the counting step, as `LockerProofs`
does.

*ParserProofs.* A path has any length, names any number of words. The walk over
the payload, the matches, the cuts and the clean-up are recursive functions, which
are shown to exist first, by the induction of `HistoryProofs`. Then `Laid` says
where each step of the path lies in the flattened key, step by step with the walk.
The matches are exactly the list steps: no position in a name starts one
(`MemberStep`), and the one of a list step ends before the next name, with or
without its underscore (`ListStep`). The sweep over the steps (`Swept`) is the
invariant of the cuts: matches so far have been the positions so far, the others
are behind, and what is left of the key is the key of the names so far followed by
what the path has not led to yet, moved by the offset. At the end of the path it is
the key of all names, in which the clean-up finds nothing to remove (`Tidied`).

*HistoryProofs.* `TimeRangesCut` is a property of the loop of `tm.TimeRanges` for
all times and intervals: what it cuts is in order, no range is longer than the
interval, and every second is in one of them. Its definition is a recursive
function, so the proof first shows that such a function exists. No theorem of the
library for induction can be used, as they take a predicate as a parameter; the
induction is over *sets* of numbers instead, from a lemma that every nonempty set
of naturals has a least element, which follows from `NatLessThanWellFounded`.
`Inv` says that what was asked and what is left to ask are together the ranges of
the command (`Progress`), and that row by row there is a line for each answer
below the header of the last one (`Table`). `NeverPanicsHolds` rests on
`GetHistory` keeping exactly the attributes that have a value, and on the sorted
sequence of a finite set, which is shown to exist. `PastIsLastWholeHolds` is the
arithmetic of weekdays.

Left to TLC: liveness (`LockGranted`, `WantedIsServed`, `StateIsShown`), which
needs ENABLED; and `NothingOverwritten`, which needs that different lists of words
have different concatenations: strings are opaque to the provers, and it is not so
for any words a constant may stand for.

## 5. What is not modelled, and why

* `LockRedisService` (`lock_redis.go`): an adapter to a library that no code of
  the repository calls. The distributed lock of jobs is in `Cluster`.
* A start that fails (the process ends and leaves nothing), the second
  (Prometheus) server, MQTT or forwarding switched off, the disconnect of the
  forward client at shutdown: they keep no state that another step meets.
* `Registry.Clear` and `TaskService.Cancel`: no caller.
* HTTP layer, configuration, enums: stateless. Commands of the client other than
  the historical data make one request and print its answer; texts of the client
  and of the README are quoted where a property states what they say.
* The list of devices, all parameters of a device, decoding of batteries: one
  call of EcoFlow's HTTP API each, handed through.
* Blank arguments, labels of devices, kinds of devices, timestamps, logging,
  the wording of topics. Numerals with leading zeros or beyond an `int` in keys.
  Days of 23 or 25 hours.

## 6. What is done

Done: locks (with the abstract specification), session, subscriptions on top of
it with the refresh of the state, collectors, metrics on top of the parser,
forwarding, instances with their start and end, historical data; proofs of all
safety invariants of these except `NothingOverwritten`.
