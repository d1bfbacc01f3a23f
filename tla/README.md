# A TLA+ model of the CHZZK chat pipeline

The repository collects the live chat of CHZZK channels and turns it into tables: a **Collector**
(one asyncio process) follows the registered channels, opens a chat connection while a broadcast is
on air and publishes every frame to Kafka; three **Spark** jobs carry the frames from Kafka to Bronze,
from Bronze to Silver and from Silver to Gold; a **dashboard** reads Gold. This directory holds
TLA+ modules that model the code, TLC configurations that check them on small instances, and
proofs, checked by TLAPS, of what holds for every instance.

The model follows a frame all the way: the Collector's control plane, one chat connection from the
inside with its publisher and statistics, the topic, the Bronze and Silver jobs, and the Gold refresh
with the session table it reads. All references below are to files of the repository.

## 1. Inventory

### Components, their state and their operations

| Component (source) | State | Operations | Modelled in |
|---|---|---|---|
| `ChannelStore`, channels (`collector/control.py` 318-528) | SQLite `monitored_channels`: registration, `enabled`, last live status | `upsert_channel`, `set_enabled`, `delete_channel`, `update_snapshot`, reads | `MonitorCoordinator` (registration and `enabled`) |
| `ChannelStore`, sessions (530-655) | SQLite `monitoring_sessions`: intervals with a broadcast id and a stop reason | `start_monitoring_session`, `finish_monitoring_session`, `get_open_monitoring_session` | `MonitoringSessions`, `SessionStore` |
| `MonitorCoordinator` (747-986) | task registry, explicit stop reasons, an asyncio lock, the poll task | startup, poll round, reconcile, ensure, stop, done callback, finalizer, shutdown | `MonitorCoordinator` |
| HTTP API (`collector/app.py`, `apply_control_command`) | none of its own, but local variables held across awaits | POST, PATCH, DELETE `/channels`; lifespan | `MonitorCoordinator` |
| Monitor task (`collector/runtime.py`) | socket, receive/PING/inactivity tasks, last chat time | connect, on_connected, receive and publish, reconnect, inactivity timeout, cancel | `ChatConnection` from the inside; its phases in `MonitorCoordinator` |
| `LiveStatusClient` (control.py 150-303) | none | live-status, live-detail (broadcast id), metadata | the outcomes, in `MonitorCoordinator` |
| `CmdCounter` (657-738) | counts, 60-second buckets | record, prune, snapshot | the buckets, in `ChatConnection` |
| Publishers (`collector/publisher.py`) | a Kafka or Pub/Sub client | start, publish, resume an ordering key, stop | `ChatConnection` |
| Redis cache (`collector/redis/`) | JSON values with a TTL | get, set, get-or-set | no |
| Metrics, configuration, tools | observation; settings; command lines | | no |
| Bronze (`spark/kafka_raw_to_bronze.py`, `job.py`) | Kafka offsets in a checkpoint, a Delta table | start at a configured offset, transform, append, stop on a signal | `BronzeStream` (all but signals and the other settings) |
| Silver parser (`silver_parser.py`, `silver_native.py`) | none | frame to rows or quarantine | `SilverRecords`, both forms of it |
| Silver writer (`silver_store.py`, `silver_native.py`, `bronze_to_silver.py`) | six Delta tables, a checkpoint, a writer lock | reconcile duplicates and conflicts, write | `SilverReconcile` (both forms), `SilverStream` |
| Gold (`silver_to_gold.py`) | two Delta tables, a checkpoint, a lock | full run, incremental refresh, timer refresh | `GoldRefresh` |
| Maintenance (`delta_maintenance.py`) | the Delta tables' retention | set properties, VACUUM | `Maintain`, in `SilverStream` |
| Gold dashboard (`dashboard/app.py`) | none | reads | no |

### How they interact

- An HTTP handler, the poll loop and `startup` call the coordinator. The coordinator reads and
  writes the store, asks CHZZK, and creates and cancels monitor tasks. All of them are coroutines
  of **one event loop**: they interleave at every `await` that suspends, and nowhere else.
- A monitor task calls back (`on_connected`) into the store after a lookup of its own, and the
  end of a task calls back (`_task_done_callback`) into the coordinator.
- The coordinator's lock is taken by the poll round and by `reconcile_single_channel`; **it is not
  taken** by `stop_monitoring` when PATCH, DELETE or POST with `enabled=false` call it.
- Gold reads `monitoring_sessions` to cut the event stream into broadcasts. It stops with an error
  if sessions overlap and drops events that belong to no session. The table is therefore the
  contract between the Collector and Gold.
- Collector to Kafka to Bronze to Silver to Gold: each hop has at-least-once delivery with a
  checkpoint; Silver removes duplicates, Gold recomputes.

### What is hard

- *Interleavings across an await*: a status answer used after a wait for the lock; a stop that
  resumes after another task has started; a session opened by a task that is already cancelled.
- *Shared mutable keys*: two stops of one channel share one entry of `_explicit_stop_reasons`.
- *Crash and restart*: sessions stay open in the database; startup reconciles from live status.
- *Cancellation*: shutdown cancels the poll wherever it is, also inside `stop_monitoring`.
- *Partial failure*: Silver writes six tables one after the other; Gold writes two.
- *Stale results*: Gold's incremental refresh against late events, closed sessions, removed rows.

`PROJECT.json` lists each of these hazards with its line and the property that covers it, or says
why none does.

### What makes each component correct

- Session table: sessions of a channel never overlap, at most the newest is open, one broadcast
  stays one session, the past is not rewritten.
- Coordinator: one connection per channel, none for a disabled or deleted one, no session left
  open without somebody who will close it, a live enabled channel is collected in the end, no
  request waits for ever, a shutdown closes what is open.
- Monitor task: a connection leaves no gap behind, a frame is counted only after it was published,
  nothing is published outside an open connection, a failed publish leaves no paused ordering key
  behind, a task ends as inactive only after the whole silence and after announcing every level, a
  cancellation is never swallowed.
- Bronze: every frame between the offset the query began at and its checkpoint is in the table, once
  for this query and at most once more for each checkpoint that was lost.
- Silver: the tables do not depend on batch boundaries, retries or replays; a key is accepted with
  one value or blocked, for good; nothing applied is lost at any moment; both implementations of
  parser and reconciliation decide alike; coordinates that were reused never reach the tables.
- Gold: no event is counted twice; every event of a finished batch is counted for the session that
  holds it, unless a session that holds it has changed since Gold last wrote it and is going to be
  refreshed; a session row differs from its minutes by deleted events, by a batch still to come, or
  because its session has changed, and by nothing else.

## 2. Modules

| Module | Models | Kind |
|---|---|---|
| `MonitoringSessions` | the rows of one channel and the two calls on them | operators |
| `SessionStore` | any caller of the two calls, with a clock | abstract specification |
| `MonitorCoordinator` | the Collector's control plane | detailed specification; implements `SessionStore` |
| `ChatConnection` | one monitor task from the inside, with publisher and statistics | detailed specification |
| `BronzeStream` | the topic and the Bronze job | detailed specification, a part of `SilverStream` |
| `SilverRecords` | parsing and keys, as `silver_parser` and as `silver_native` have them | operators |
| `SilverReconcile` | the decision on a batch, as `silver_store` and as `silver_native` take it | operators |
| `SilverStream` | the Silver job behind the Bronze job, with maintenance beside it | composition; implements `KeyVerdicts` |
| `KeyVerdicts` | what Silver promises about a business key | abstract specification |
| `GoldRefresh` | the Gold job between SQLite and Silver | detailed specification |
| `MCCoordinator`, `MCConnection`, `MCSilver` | symmetry, levels, frames | for TLC |
| `MonitoringSessions_proofs`, `SessionStore_proofs`, `MonitorCoordinator_proofs`, `CoordinatorSessions_proofs`, `ChatConnection_proofs`, `SilverReconcile_proofs`, `SilverStream_proofs`, `GoldRefresh_proofs` | | proofs |

How they compose: `MonitorCoordinator` implements `SessionStore` and knows a monitor task by its
phase; `ChatConnection` is that task from the inside, with the coordinator as an environment that
starts and cancels it. `SilverStream` extends `BronzeStream`, so the two jobs run interleaved, and its
writer uses the operators of `SilverReconcile`. `GoldRefresh` has the session table change under it
the way `SessionStore` allows, and Silver's rows appear and disappear the way `SilverStream` writes
them.

### MonitoringSessions and SessionStore

The rows of a channel are a sequence in the order of their ids; "the newest row" of the SQL is the
last element. `Started` and `Finished` are `start_monitoring_session` and
`finish_monitoring_session` branch by branch: an unknown broadcast id keeps the open session, the
same id keeps it, another id closes it and opens the next, and without an open session the newest
row is *reopened* if it is of the same known broadcast. `SessionStore` lets anybody call them at
any time, with a clock that does not run backwards. Each call is one step: both are synchronous
and only the event loop's thread makes them. When a start first closes the open row, the code
reads the clock twice; the model uses one reading, the finer case is a finish, a tick and a start.

### MonitorCoordinator

A step of the model is what the code does between two awaits that really suspend: an await of a
CHZZK request, of the lock, or of a cancelled task's end. `row` and `sessions` are the database
and survive a crash; `tasks`, `phase`, `explicit`, `finalizing`, `lock`, `actor` and `todo` are
process memory; `broadcast` and `onair` are CHZZK.

| Model | Code |
|---|---|
| `actor[r]`, `Requests` | an HTTP handler in flight: its place (`pc`), its channel, the snapshot it holds |
| `actor[Main]` | startup, poll loop and shutdown, which never overlap |
| `tasks[c]`, `phase[c][k]` | `self.tasks` and the state of each `asyncio.Task`; `Slots` names the tasks of one channel that exist at one time |
| `explicit[c]`, `finalizing[c]` | `_explicit_stop_reasons`; scheduled `_finalize_unexpected_task_stop` |
| `Stop`, `StopEnd` | `stop_monitoring` before and after its `gather` |
| `Ensure`, `Reconcile` | `ensure_monitoring`, `_reconcile_channel` |
| `SubmitAdd`, `Answer`, `Apply`, `Acquire`, `Unlock` | POST: lookup, store, wait for the lock, reconcile, go on |
| `SubmitEnable`, `SubmitDisable`, `SubmitDelete` | PATCH and DELETE |
| `PollBegin`, `SyncChannel`, `RoundDone` | `_poll_loop` and `sync_all_channels` |
| `ShutdownBegin`, `CancelledStopEnd`, `ShutdownStop`, `ShutdownDone` | `shutdown` and the end of the lifespan |
| `Connected`, `LookedUp` | cmd 10100 accepted; `fetch_live_id` answered and `start_monitoring_session` |
| `TaskEnds` | the task is done and its callback runs |

Decisions worth knowing:

- **The phase `late`.** A task cancelled while `fetch_live_id` is pending normally never reaches
  `start_monitoring_session`. But the cancellation goes to the outer task first, and the receive
  loop may already be scheduled with its answer. Both outcomes are in the model.
- **`Settled`.** A finished task's stop and a scheduled finalizer run within a turn or two of the
  event loop. `Connected`, `Inactive` and `ShutdownDone` need several turns, network included,
  and therefore wait for them. No other step is restricted.
- **Enough slots.** A slot is free whenever `Ensure` needs one if there are at least as many slots
  as actors: every other task is awaited by an actor. This is proved (lemma `SlotIsFree`), so
  `Slots` cuts no behaviour off.
- **Any subset is due.** A poll round visits any subset of the registered channels, which covers
  every schedule of `_should_poll_channel`, and in any order.
- **The lock** may be taken by a newcomer although others wait; `asyncio.Lock` is first come first
  served. This only adds behaviours for the safety properties.
- **Requests drain before shutdown**: the server closes its connections before the lifespan ends.
- The control commands `remove` and `replace` have no HTTP route. `remove` does what PATCH with
  false does; `replace` is an addition followed by such stops.
- Timestamps are left to `SessionStore`; the refinement has its clock stand still.

### ChatConnection

A step is again what the loop runs between two awaits that suspend. The counter's lock is never held
across one, so it is not modelled. Time passes in minutes, and only when nothing is ready:
`check_inactivity` runs every ten seconds, so that it has done what it has to before a minute is over.

| Model | Code |
|---|---|
| `stage` | where `connect_to_chzzk` is: chat id lookup, token, 30 s retry, opening, open, closing the socket, 5 s backoff |
| `receiver`, `pinger`, `watcher` | the children `receive_messages`, `send_ping`, `check_inactivity` |
| `Receive`, `Count` | the frame is handed to `publish_raw_message`; after the acknowledgement it moves `last_chat_time` and is counted |
| `pending`, `paused`, `Deliver`, `GiveUp`, `ResumeKey` | the broker client behind the publisher: it settles in order, or gives up; Pub/Sub then pauses the ordering key, and `publish` resumes it unless it was cancelled while it waited |
| `Check`, `idle`, `level` | one round of `check_inactivity` |
| `ending`, `Unwind`, `Closed`, `Cancel` | `asyncio.wait`, the exceptions of the children, the `finally` block, the outer `except` clauses |
| `buckets`, `Record`, `Prune`, `Snapshot` | `CmdCounter` |
| `warned`, `heard`, `frames[i].tally` | history, read by the properties only |

Which broker is used is chosen once (`backend`). A frame of a cancelled publish stays with the client
and may still reach the topic. A frame with a command that is not a number is published and then
raises in the counter. Text that is not JSON is dropped by the code and left out.

### BronzeStream and SilverStream

| Model | Code |
|---|---|
| `topic`, `Publish` | the Kafka topic; a frame may be published twice, by a reconnected task or by the client |
| `PlanBronze`, `AppendBronze`, `CommitBronze` | a micro-batch of the Bronze query: planned end in the checkpoint, one Delta commit, done |
| `StartQuery`, `StartingOffsets` | a query without a checkpoint begins at the earliest offset or behind the latest, as `app.kafka.startingOffsets` says |
| `LoseCheckpoint` | the checkpoint is removed; the topic may have been recreated as well |
| `kafkaStart`, `lost` | the offset the query began at, and how many checkpoints it has lost; read by the properties only |
| `ParseFrame`, `NativeParse` | `silver_parser.parse_frame`; the exploded form in `silver_native.parse` |
| `ReferencePlan`, `NativePlan` | `silver_store.reconcile`; `silver_native._decide` |
| `Unambiguous` | `validate_bronze_source`: the coordinates of the batch against all of Bronze |
| `PlanSilver` ... `CommitSilver` | `write_batch`: quarantine first, then per table a delete and an insert, each a commit of its own |
| `CrashSilver`, `StartSilverOver`, `Maintain` | a crash between any two commits, a removed checkpoint, `apply_table_maintenance` |

`startingOffsets` is `earliest` in `conf/local.properties` and `latest` in `conf/dev.properties`,
`conf/prod.properties` and by default (`kafka_raw_to_bronze.py` 39, 122). It counts only where there is
no checkpoint: at the first start and after a loss. With `latest`, what was published before such a
start never reaches Bronze; the properties say that nothing else is missing. The model has both
values, and another one at each start. Kafka's retention is not modelled: `earliest` is offset 0.

A record is a source key (offset and index in the body; a whole frame has index 0 where the code
uses -1), a table, a business key and the value of its critical fields. What the code computes with a
walk (`silver_store`) or with joins that propagate a least label (`silver_native`), the model defines
as a least closed set; that the walk's set and the labels' components decide alike is a theorem. The
joins name a node by table and source key and take any one of several records with the same name;
`validate_bronze_source` has excluded that case before, which the model shows rather than assumes.
The stored row of a key wins over every incoming one, also over one with a smaller source key, as
after a recreated topic. A batch with a reused coordinate fails at every retry, by design; the repair
of Bronze is left to an operator and to the outside of the model.

`KeyVerdicts` says what this is for: a business key is unseen, accepted with one value, or blocked,
an accepted value is never replaced, and a blocked key stays blocked. The refinement mapping reads
the verdict off the tables: a key with a row is accepted, so that the moment between the write of the
quarantine and the delete of the row belongs to the acceptance.

### GoldRefresh

A minute row stands for the set of its events, of which every metric of the code is a function.
Sessions change, events arrive late or are deleted by Silver, and the clock runs (and steps back)
while a refresh is in progress, since neither SQLite nor Silver waits for Gold.

| Model | Code |
|---|---|
| `Begin` | `refresh` up to its first write: `read_sessions` with its refusal of overlapping sessions, `changed_sessions`, `widen_ranges`, `overlapping` |
| `BeginBatch`, `BeginTimer`, `BeginFull` | the stream's `foreachBatch`, the timer thread, `--full` with its two locks and pinned Silver versions |
| `WriteMinutes`, `WriteRows` | the two `replaceWhere` writes |
| `PlanBatch`, `CommitBatch`, `Crash` | the stream's checkpoint; the batch is run again as it was planned |
| `OpenSession`, `CloseSession`, `ResumeSession` | the Collector's calls, as `SessionStore` allows them |

There is one channel: ranges, windows and sessions of channels are independent of each other.

## 3. Runs

| Run | Instance | Shows |
|---|---|---|
| `session_store` | 2 broadcasts, 3 rows, clock to 2; 92,771 states | the session table stays a clean timeline |
| `coordinator_restart` | 1 channel, 1 request, 2 starts of the process, 2 rows, all answers; 722,504 states | disabled channels have no task, and are quiet, also after crash and restart |
| `coordinator_requests` | 2 symmetric requests, 3 slots, one life of the process; 880,418 states | one connection, no orphan task, no forgotten session, under concurrent requests |
| `coordinator_store` | 2 broadcasts, 1 request, one life of the process; 686,662 states | every step is a call of the store: refinement |
| `coordinator_liveness` | fairness, 1 request, 2 starts; 61,579 states | requests return, disabled channels go quiet, live channels are monitored |
| `coordinator_delete` | as `coordinator_restart` | *violated*: a deleted channel goes on being collected |
| `coordinator_toggle` | as `coordinator_requests` | *violated*: a task collects without a session |
| `coordinator_shutdown` | as `coordinator_restart` | *violated*: a graceful shutdown leaves a session open |
| `chat_connection` | 2 frames of all kinds, levels at 2, 3 and 4 minutes, clients that give up after 1; 191,952 states | no gap in the topic, no ordering key left paused by a failure, statistics that follow the topic, an inactivity timer that neither jumps nor sleeps, cancellations and silent connections that end |
| `silver_pipeline` | 3 offsets, 2 tables, 5 frames, both starting offsets, 1 fault; 475,775 states | Kafka to Bronze to Silver, in every cut into batches: complete, order-free, nothing lost, both implementations alike, verdicts kept, catching up |
| `gold_refresh` | 2 sessions, 1 event, 2 minutes of 2 ticks, 2 troubles; 6,271,073 states | counted once, minutes exact, rows follow minutes |
| `gold_deletes` | 1 session, 1 event, 1 trouble | *violated*: a deleted row lingers in an ongoing session |

**Bounds of the Collector.** One channel is enough for the interleavings: channels share only the
lock and the order of a round, and the lock is contended by the requests on the same channel as well.
Two requests and the poll are three actors on one channel, which is what the races between two stops
need; three slots follow. Two rows and two broadcasts give "same", "other" and "unknown" to the
choice in `Started`; three rows in `session_store` let a row lie between two others. Two starts of
the process give a crash and a recovery. `MaxSessions` disables `LookedUp` when a row would be
added beyond it, `MaxBoots` the starts, crashes and shutdowns; no other action is bounded.

**Bounds of a connection.** Two frames are a frame and its successor, on one connection or on two: a
gap needs no more. The three levels of the code (2, 5, 9 minutes) become 2, 3 and 4, which keeps their
order and puts the patience of the client (1) below the first. Ages above the window plus that
patience, and silences above the last level, are told apart from nothing older. `MaxRecords` is 1: the
records of a frame are counted in one step.

**Bounds of the pipeline.** The frames (`MCSilver`) are chosen so that a donation meets another value
of itself and a repetition, an invalid one, text that is no JSON, a foreign command and a row without
a business key; three offsets cut into batches in every way. One fault is a crash, a lost checkpoint
of either job, or one lost with a recreated topic. A frame that a start at `latest` skips needs one
publication before the start, one that it does not skip another after it: three offsets have room for
both and for a loss between them.

**Bounds of Gold.** Two sessions can be neighbours in one minute; two ticks a minute let an event and
a session boundary share one. One event suffices for being late, counted in a session that is cut
short, and replayed. Two troubles combine a crash with a step back of the clock, a deletion or
`--full`.

**What the violations show.**

1. *DELETE* awaits `stop_monitoring` and then deletes the row. The task is out of the registry
   while it ends, the row still says enabled, and a poll round in that window starts another task.
   After the deletion no round lists the channel, and nothing stops that task.
2. *Disable, then enable quickly.* The stop's last statement closes the newest open session of the
   channel, even one that a task started during the wait has just opened. That task collects on;
   its events belong to no session, and Gold leaves them out until the next reconnect.
3. *Shutdown during a poll's stop.* The cancelled `gather` skips the `finish_monitoring_session`
   after it, the task is no longer in the registry for shutdown's own loop, and the done callback
   saw an explicit reason, so no finalizer ran. The session stays open until a later start.
4. *A deletion of Silver in an ongoing session.* The README says that Gold reflects it automatically.
   Commits that delete are skipped by the stream, and the timer rebuilds the session row from minute
   rows it does not read again: until an event falls into that minute, the row counts what is gone.

### Fairness

*Coordinator.* `LoopFairness`: an event loop runs every callback that is ready, so steps that wait
for nothing are weakly fair. Answers are weakly fair since every CHZZK request has a timeout that
turns into an `ERROR` answer. `TaskEnds` is weakly fair: closing a socket is bounded by the library's
close timeout. `Acquire` is strongly fair because the lock is first come first served, and so is a
poll round on a registered channel because its due time recurs. `Boot` is weakly fair: a process that
is down is started again (within `MaxBoots`). Nothing forces requests to arrive, connections to
succeed or broadcasts to begin. `ChzzkFairness`, that a channel asked about again and again while on
air is seen to be `OPEN` in the end, is an assumption on CHZZK; `LiveGetsMonitored` needs it.

*Connection.* The loop's steps, the sleeps, the settling of the client and the passing of time are
weakly fair. Strong fairness of `ChatFound`, `TokenReceived` and `Connect` says that CHZZK does not
refuse every lookup, token and connection for ever; only `Reconnects` needs it. No frame has to
arrive, nobody has to cancel, to start a task or to ask for statistics.

*Pipeline.* The steps of both jobs are weakly fair: a job that dies, or has no checkpoint, is
started again by whoever supervises it, and faults are bounded. For Silver the fairness is on the
change of `phase` and leaves the decision's outcome out (`Proceeds`): each step of the job changes
the phase, and whether a batch can be decided does not depend on what is decided. Publishing, faults
and maintenance are not fair.

*Gold.* `BeginBatch` is strongly fair although the timer takes the same lock again and again: between
two rounds of the timer the lock is free for an interval. Only the violated run uses fairness;
liveness properties of Gold that hold are not checked, for the cost of its state space.

## 4. Proofs

| Theorem | Says, for all constants |
|---|---|
| `SessionStore_proofs!TimelineHolds` and its corollaries `StoreTypes`, `SessionsDoNotOverlap`, `OpenSessionIsNewest`, `BroadcastStaysWhole` | the four invariants of the store |
| `SessionStore_proofs!HistoryIsKept` | the action property: only the newest row changes, never its start or broadcast |
| `MonitorCoordinator_proofs!CoordinatorTypes` | types |
| `DisabledHasNoTask`, `OneConnection`, `TasksHaveOwners` | the safety invariants of the registry |
| `ImplementsStore` | `MonitorCoordinator` implements `SessionStore` |
| `CoordinatorTimelines` | so its sessions are a clean timeline |
| `CoordinatorSessions_proofs!DisabledGoesDark` | a disabled channel has neither session nor task once its stops have returned |
| `CoordinatorSessions_proofs!OpenSessionsAreOwned` | in the first life of the process somebody will close every open session |
| `ChatConnection_proofs!NoGap`, `PublishedBeforeCounted`, `OneLoopPerConnection` | no gap in topic or statistics, statistics behind the topic, no publishing outside a connection |
| `ConnectionTypes`, `SnapshotsAreFresh` | types; a snapshot is the sum of what the frames in its window were counted for |
| `KeyResumed` | a failed publish leaves no paused ordering key behind |
| `LevelsAnnounced`, `InactiveAfterSilence` | the inactivity timer, provided a publish takes less than the first level |
| `SilverReconcile_proofs!WalkFindsComponents`, `ParsersAgree`, `PlansAgree` | the reference and production find the same components, records and plans |
| `PlanAccounts` | a plan accounts for every incoming record |
| `SilverStream_proofs!TypesHold`, `KeysHaveOneRow`, `AppliedIsUnambiguous`, `ProductionIsReference`, `NoRecordIsLost` | the invariants of the Silver job |
| `TablesAreAFunction` | between batches the tables are a function of the applied frames |
| `BronzeHoldsTheTopic` | from where the query began up to its checkpoint Bronze is complete, with one copy more at most for each lost checkpoint |
| `PromiseKept` | `SilverStream` implements `KeyVerdicts` |
| `GoldRefresh_proofs!GoldTypesHold`, `NoDoubleCount` | types; no event is counted twice |
| `MinutesFollowSilver`, `SessionRowsFollow` | minutes and session rows are stale only where something is going to be taken up |

*Assumptions*: `NullAssumption` (NULL is none of the values it stands beside), `BoundsAssumption`,
`CoordinatorAssumption`, of which the one that matters is that there are at least as many slots as
actors, `ConnectionAssumption` (levels that increase), `SilverAssumption` (a valid item names a
table) and `GoldAssumption`. TLC evaluates all of them.

*Store*. No invariant is inductive alone. That sessions do not overlap needs that only the newest
row is open (a reopened older row would overlap its successors), and that no row lies in the
future; that a broadcast is not split needs that a start compares with the newest row. The
conjunction is `TimelineInv`. `MonitoringSessions_proofs` proves, row by row, that `Finished`
and `Opened` keep it, then composes them for `Started`; `SessionStore_proofs` lifts that to
all channels.

*Coordinator*. The inductive invariant is types, `ActorsInPlace` (an actor waiting in a stop
knows its channel, slot and reason), `NoOrphanTask`, `OneConnectionPerChannel`,
`NoTaskForDisabledChannel` and the timeline of every channel. The crux is `Ensure`: a new task gets a
free slot because, by `NoOrphanTask`, every occupied slot is registered or awaited, at most one actor
per awaited slot, and the actor that acts awaits none, so a pigeonhole argument finds one. `Stop`,
`Ensure`, `Reconcile`, `StopEnd`, `TaskEnds` and `Forget` each have a lemma, which the lemmas for
the groups of actions cite.

*Its sessions*. `DisabledIsQuiet` speaks of a poll that is on; the invariant (`Duties`) has to speak of
the startup round too, where it holds for the channels already visited: `DisabledIsClosed`. That a
stop leaves nothing open is `StopEnd`'s last statement; that nobody opens a session afterwards
follows from the registry (`QuietPhases`): a task of a disabled channel is awaited, hence a stop is
under way. `OpenIsOwned` rests on `ReasonsAreFresh`, that an explicit reason never outlives the stops
that wait for the channel: where one is set, a stop will close the session, where none is, the done
callback schedules a finalizer. `Keeps` says what a step must not do, and each call has a lemma.

*Connection*. `FramesInv` orders the frames by connection and says that only the newest of the current
one is unsettled, and only while the receive loop waits for it. `KeyInv` adds that the client holds
nothing for a paused key: what `resume_publish` has resumed, no frame left over from an earlier
connection can pause again before the task unwinds. `SilenceInv` adds that the level and
the announced levels fit the silence. It needs that a client gives up before the first level
(`PublishTimeout < TimeoutLevels[1]`): a publish that takes longer resets a clock that has already
been escalated. `publisher.py` sets no delivery timeout, so the library's default decides; where it
is longer than the first level, the timer may announce late, and this is not claimed. Types and
statistics need no such assumption: `SnapshotsAreFresh` rests on `BucketsAgree` (the bucket of an age
the window reads holds the sum of the counts of the frames of that age) and `Uncounted` (a frame
still being published has no count yet). As a minute passes, the sum over the ages that become one
age is the sum over the union of their frames. These facts need an induction on finite sets, and
the library's rule takes an operator, which the provers cannot instantiate. They come from the least
number instead: a set of naturals has a least member (`LeastNat`), so a nonempty family of finite
sets has a member of which no proper subset is in it (`MinimalSet`): a smallest counterexample,
which is then refuted. That the library's fold is such a sum at all (`SumExists`) is shown likewise.

*Silver*. The two implementations are compared without induction: the walk's blocked set and the
union of seeded components are both the least closed set around the seeds (`WalkFindsComponents`),
by taking complements of closed sets. The job's invariant says that all rows were read from some
prefix of Bronze free of ambiguous coordinates (`ReadFrom`), so that a source key names one record,
and that what a half-applied plan still has to insert shares no key with the quarantine (`PlanOK`).
For `NothingLost` it is strengthened by `Accounts`: each applied record is held, or the plan in
progress holds it. `TablesAreOrderFree` needs more, since quarantine is never emptied while a
checkpoint may be lost: `OrderInv` says that rows and quarantine rest on `Known`, the frames up to
the checkpoint or to the end of the batch in progress (or all, once a checkpoint was lost), and on
nothing else (`Sound`); that every dispute within the applied frames is in quarantine, and a dispute
of the batch with them from its merge on (`Seen`); and that a row whose key is in quarantine is one
that the batch in progress names and deletes, now or when it is run again (`Cleared`). With
`NothingLost`, a normal undisputed record then has its row, and every row is of one. The refinement
to `KeyVerdicts` follows from three facts on a step: rows of a key keep their value, leave only when
the key is in quarantine, and appear only when it is not.

*Bronze*. The copies of a frame are counted against the checkpoints that were lost: a frame between the
offset the query began at and what it has appended may have one copy more than there were losses, any
other frame may not (`CopiesOK`). A start, wherever it begins, has an empty range, so it needs no copy
and allows none; a loss gives every frame the copy that the range had given to some.

*Gold*. A refresh goes on only with sessions that do not overlap at its own time, so it assigns each
event once, and a write replaces whole minutes. That nothing is stale but what is going to be rebuilt
is `ExactInv`, for as long as the clock goes forward. The time a session covers then only grows, so
the row of a session that has not changed and its record hold the same events (`RowsFit`), and the
session of a minute row goes on holding its event (`MinutesFit`). What a refresh
has read stays true enough while SQLite and Silver go on (`ReadFits`): its range holds its batch and
the windows of all sessions changed when it read them, and meets no window of a session it leaves
alone. This is what `widen_ranges` and `overlapping` are for. Whatever a
finished batch brought is counted in minutes and rows (`Complete`); between the two writes the
minutes already have what the rows are going to have (`Written`), and a crash there leaves sessions
changed or the batch unfinished, either of which brings the refresh back. The first build of the
tables, and the operator's, are recomputations from pinned versions of Silver (`RefreshAll`).

*Only model-checked*: what needs fairness (`RequestsReturn`, `DisabledGoesQuiet`,
`LiveGetsMonitored`, `CancelEnds`, `SilentConnectionEnds`, `Reconnects`, `PipelineCatchesUp`),
because liveness is out of the prover's reach. Every invariant and every other action property that
a passing run checks is also stated by a theorem.

## 5. Not modelled

- Names, images, thumbnails, HTML, metrics, the command line tools and the settings other than
  `app.kafka.startingOffsets` change nothing the properties speak of. The Redis cache is a
  read-through cache with a TTL of seconds and no invalidation. The Gold dashboard reads the two
  tables each at its own version, so a page may show a session row beside newer minutes;
  `RowsFollowMinutes` says when the two agree.
- `stop_reason` is modelled, but no property says which of two competing reasons wins. The wall clock
  steps back in `GoldRefresh` only; the Gold contract (`docs/gold-data-contract.md` 126) names that
  case as operator damage. After a step back and a crash, a session's record can return to its stored
  value and nothing looks changed: the two properties on staleness exclude that case (`stepped`).
- When a channel is due (`_should_poll_channel`) is any subset of the registered ones.
- Events come to Silver after they happened: an event ahead of Gold's clock is outside the model.
- SQLite and Delta errors other than a failed write of Silver are not modelled: the code lets them
  propagate. Kafka is a log that keeps its order.
- Error codes, time stamps and the fields of a Silver record that nothing compares are left out;
  quarantine entries are not claimed to be equal after a replay, only the event tables are
  (`docs/silver-data-contract.md` 223-225).
- `NothingLost` speaks of the frames up to Silver's checkpoint. While Silver replays all of Bronze after
  its checkpoint was lost, that is what the replay has got to; `TablesAreOrderFree` speaks of the end.
- A frame whose acknowledgement is lost and that the client sends again is published twice: left to
  Bronze and Silver, which the pipeline covers by frames that repeat.

## 6. What is left

1. Two events in `gold_refresh`, and two records per frame in `chat_connection`, on larger machines.
2. The schedule of the poll, with the slow interval of a channel last seen off air.
