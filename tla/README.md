# A verification development of the airspace conformance platform

TLA+ modules, TLC configurations and TLAPS proofs about the services under
`src/src/acp` (paths below are relative to it).

## 1. The system

    feed ──surveillance.reports.v1──▶ track (N replicas) ──tracks.updates.v1──▶ conformance (1 replica) ──airspace.alerts.v1──▶
                                        │        │                                  │
                                        ▼        ▼                                  ▼
                                    Postgres   Redis live picture              Redis alert set
                                    history         └────────────── api ──────────────┘
                                                                     │ REST, WebSocket
                                                                     ▼
                                                                  app.js (browser)

Every service is one Python process running one asyncio event loop.  Tasks of a
process interleave only at `await`s.  Services meet in three places: Kafka
topics (at-least-once, ordered per key), the Redis read models (last write
wins) and Postgres (idempotent inserts).

| Component | State it keeps | Operations | Interacts by |
|---|---|---|---|
| `services/track/estimator.py` TrackEstimator | one `TrackRecord` per aircraft: last report time, count, state, filter | `on_report`, `sweep`, `prune_terminated`, `release` | called by the runner under its lock |
| `services/track/kalman.py` | state vector, covariance; **no clock** | `predict`, `update`, `estimate` | called by the estimator |
| `services/track/runner.py` TrackRunner | `_partition_of`, `_revoked`, `_pending`, `_lock` | `run`/`_handle`, `sweep_now`, `release_partitions`, `claim_partitions`, `_flush` | three tasks; Kafka, Postgres, Redis |
| `common/messaging.py` | consumer position, committed offsets (in the broker) | `stream`, `publish`, rebalance listener, `ensure_topics` | wraps aiokafka |
| `storage/stores.py` | track rows and points; Redis keys with TTL and an index | `record`, `publish`/`forget`/`live`, `apply`/`active` | written by track and conformance, read by api |
| `services/conformance/runner.py` | `_picture`, `_terminated`, `_pending_conformance`, `_latest_seen` | `absorb`, `scan_now` | two tasks, **no lock**; Kafka, Redis |
| `services/conformance/alerts.py` AlertManager | active alerts, missed scans, last publication | `reconcile`, `forget` | called by a scan |
| `services/conformance/monitor.py` | bounded prediction queues per track | `observe`, `forget` | called by `absorb` and the scan |
| `services/conformance/separation.py`, `rules.py`, `probability.py` | none | `scan`, `check_rules`, … | pure functions of the picture |
| `services/api/app.py`, `stream.py` | connected clients, the last frame | REST reads, WebSocket, `broadcast_once` | one reader of Redis, many viewers |
| `services/api/static/app.js` | the last frame, socket, poll timer, reconnect delay | `connect`, `poll`, `startPolling`/`stopPolling` | browser |
| `services/feed` | the simulation's clock, pacing | wait, topics, play, loop | Kafka |
| `sim` (engine, scenario, generator) | true state of each aircraft | `step`; staged encounters | called by feed and `eval` |
| `common/wait_for_kafka.py`, `storage/wait_for_schema.py` | deadline | poll | start-up order |
| `ml` (train, dataset, predictor, models) | model files, error figures | train; load, predict | files read by conformance |
| `eval/*.py` | violations, alerts, scores | replay, score | runs simulator and runner in one loop |
| `scripts`, migrations, deploy | — | offline | — |

What is hard here, and what makes each part correct:

* **Ownership in the tracker.**  A replica keeps state about the aircraft on its
  partitions; a rebalance moves the partitions.  A handler suspended in a
  publish, a sweep, a flush and the rebalance callback interleave at every
  await, and the callback itself can fail.  Correct: a track has one holder, the
  live picture shows that holder's word, a partition given back is listened to.
* **Delivery.**  Offsets are committed per report, history is written in
  batches.  Correct: nothing is committed before it was published; nothing is
  lost but what a crash or a failed write takes.
* **Lifecycle.**  Thresholds against a clock that reports may be ahead of;
  reports repeat and come late.  Correct: confirmation needs different
  observations, a silence is announced once per level, it does end a track.
* **Alerts.**  A scan computes its alerts at once and publishes them one await
  at a time while the picture changes under it; the manager's memory runs ahead
  of the topic and of Redis.  Correct: NEW, SUSTAINED…, CLEARED per condition,
  and the display shows what the manager holds.
* **Fan-out.**  Frames go to a snapshot of clients while clients come and go; the
  browser has a socket, a poll timer and polls under way at once, and shows
  whatever arrived last.  Correct: it always has a source, and comes to show what
  the stores hold.
* **Two clocks.**  The index of the live picture holds the data's time, its keys
  live by Redis' clock, the window is cut by the reader's, and the feed's data
  falls behind when steps overrun.  Correct: an aircraft that is reported is shown.
* **Numbers.**  Both separation standards must be breached at one moment of two
  open windows; a grid and a vertical cut-off drop pairs first; predictions are
  compared a tolerance early or late.  Correct: what straight flight brings too
  close is reported, and nothing else.
* **Files.**  Models and error figures are replaced one file at a time while a
  service may read them and a run may be killed.  Correct: never two models for
  a horizon, and a prediction is judged by the errors of what made it.

`PROJECT.json` lists these line by line under `hazards`, with the properties
that would catch each.

## 2. The plan

1. `TrackLifecycle`, `TrackEstimator`, `TrackService` and the ownership proof.
   *Done.*
2. `AlertLifecycle` (AlertManager as operators), `AlertProtocol` (abstract: what
   the alert topic promises a consumer), `ConformanceService` (absorb, scan,
   publish, store, failures, restart), which implements the abstract one; its
   inductive invariants, the refinement step by step.  *Done*, proved.
3. `Separation`, `Rules`, `ConformanceMonitor`: the detectors on exact numbers;
   `Simulation` and `Generator`: what they are shown; `ConflictTruth` and
   `Dataset`: what is concluded and learnt from it; `Replay` composes them all
   with `AlertLifecycle`, as the evaluation does.  *Done.*
4. `Display`: stream handler, broadcaster and browser.  *Done*, with its
   invariants proved; that the picture settles stays with TLC.
5. `Feed` (wait, start, pacing) and `LivePicture` on top of it (pipeline, TTL,
   index, tidying readers).  *Done*, proved.
6. `Models`: training runs and the service that loads them.  *Done*, proved.
7. Proofs about what the tracker delivers and what it writes into the live
   picture (`TrackServiceProofs`), and about what the alert topic and the alert set
   say (`ConformanceServiceProofs`).  *Done.*
8. Proofs about `Replay`: types and queues, `SeverityIsFresh`,
   `SamplesReconstruct`, `NoConflictMissed`, `NoConflictInvented` (`ReplayProofs`),
   `StraightFlightIsForetold`, `AdvisoriesHaveACause`, `NearnessIsTrue`,
   `StrayingIsNoticed` (`EvaluationProofs`).  *Done.*
9. The upsert of the `tracks` table and `history()`; start and stop of the API;
   malformed messages; the unpaced feed.  *Left.*

Runs are few and each asks its own question, so a later module takes the place
of a run that shows a disagreement already on record here.  No module declares a
RECURSIVE operator; bounds are constants that appear only in
guards, so a theorem holds for all of them.

## 3. What is modelled

### TrackLifecycle, TrackEstimator — `services/track/estimator.py`

`TrackLifecycle` has the estimator's operations as operators on the function
`tracks` from aircraft to a record or `NoTrack` (an absent dictionary entry):
`OnReport`, `Changing`/`Swept`, `Pruned`, `Released`.  Time is counted in sweep
periods, so the thresholds (5 s, 30 s, 10 min) are naturals in the same order
(`LifecycleAssumption`).  `update_count` is only compared with the confirmation
threshold and saturates there.  Kinematics are left out.

`TrackEstimator` drives them in any order, with reports of any age up to the
clock.  The filter has no clock of its own: `filterTime` is the instant its
state describes, the sum of what it was asked to predict.  `told` and `seen` are
history variables.

### TrackService — `services/track/runner.py`, `__main__.py`, `common/messaging.py`, `storage/stores.py`

A replica is one event loop with three tasks: consumer (`handle`), sweeper
(`sweep`) and the coordinator's callback (`release`, then `claim`).  An action
is the code between two awaits.

| Code | Model |
|---|---|
| `_estimator`, `_partition_of`, `_revoked`, `_pending` | `tracks[r]`, `mapped[r]`, `revoked[r]`, `pending[r]` |
| `_lock` | `queue[r]`: the tasks that asked for it, in order; the head holds it |
| what the holder awaits | `stage[r]`; `"entered"`: `acquire` returned without suspending |
| locals of a suspended task | `inflight`, `outbox`, `changed`, `batch`, `leaving`; `clock`: the `now` a sweep was called with, read before the lock |
| `run` up to the lock, `_handle` | `Receive`, `DiscardReport`, `HandleReport`, then `Publish`, `Record`, `Show`, `Commit` |
| `sweep_now`, `_forget_pruned` | `SweepTimer`, `SweepNothing`, `SweepChanged`, `Publish`, `Record`, `Show`, `ForgetTerminated` |
| `release_partitions` | `Rejoin` (the callback starts), `ReleasePartitions`, `Record`, `FinishRelease` |
| `claim_partitions` | `Learn`, `ClaimPartitions` |
| `run`'s finally clause | `Exit`, then, beside the callbacks, `LastRecord`, `LastShow` (`closing[r]`, `rest[r]`) |
| leaving the group (`MessageSubscriber.__aexit__`) | `Leave` |
| a kill, a restart | `Crash`, `Start` |
| raised I/O errors | `HandlerFails`, `SweepFails`, `ReleaseFails`, `CommitFails`, `LastFlushFails` |

The broker's side (`StartRebalance`, `Assign`, offsets) is modelled from how
the code uses it: eager rebalance, every member's revocation callback ends
before the new assignment, nothing is fetched before the assignment callback is
over, the listener's exceptions are logged and swallowed, `commit()` without
arguments commits the positions of the assigned partitions and is accepted until
the member has rejoined, `asyncio.Lock` is FIFO.

A replica that stops ends its consumer and its sweeper at once, takes its buffer
out and writes it without the lock, while it is still a member: the coordinator's
callback goes on, also in the middle of its flush, and a rebalance may begin and
end before the last flush does.  `overwritten` remembers the aircraft it wrote
when their partition was another's.  The client waits for a callback under way
before it leaves.

Abstractions: a report is (aircraft, instant); an update adds the state; one
Redis pipeline and one transaction happen or do not; the `tracks` table, TTLs
and the Redis index are left to a later module; a live replica is not evicted
from the group by a session timeout; the process restarts with empty memory.

### AlertLifecycle, ConformanceService — `services/conformance/alerts.py`, `runner.py`

`AlertLifecycle` has `reconcile` and `forget` as operators on the function
`active` from alert keys (`Condition`) to a record or `NotActive`: the new
manager (`Reconciled`, `Forgotten`) and the alerts returned (`ReconcileAlerts`,
`ForgetAlerts`).

`ConformanceService` is one event loop with two tasks and no lock.

| Code | Model |
|---|---|
| `_picture`, `_terminated`, `_pending_conformance` | `picture` (age of each track's last update), `terminated`, `findings` |
| `_latest_seen` | `lead`: how far the scanner's clock is ahead of the wall clock |
| the manager's `_active` | `active` |
| what the scanner awaits; its list of alerts | `stage`; `outbox` (still to publish), `batch` (for the store) |
| `absorb` | `Absorb`, `AbsorbTerminated` |
| `scan_now` up to the first await | `Scan` |
| the publish loop, `LiveAlertStore.apply` | `PublishAlert` per await, `Apply` |
| the `except` of `_scan_forever` | `PublishFails` (the alert may have gone out), `ApplyFails` (a prefix of the pipeline) |
| process killed or stopped, started | `Crash`, `Start` |
| the wall clock, Redis expiry | `Tick` |

Times are ages, counted in scan periods, so time needs no bound: an age above
`StaleAfter` is as good as any other, the time since a publication counts up to
`SustainInterval`, an entry's age up to `TTL`.  An update may be ahead of the
scanner's clock by up to `MaxSkew`; it moves the clock when it is within
`MaxLead` of the wall clock.  What the detectors find is an input: any conflict
or rule violation about tracks in the picture at each scan, any finding of the
conformance monitor about the updated aircraft at each update (`Measured`).
Assumed: a publish or a Redis call takes less than a scan period (`Tick` waits
for it); within `reconcile`'s and within `forget`'s result the order is free.

`AlertProtocol` is the abstract specification: per condition NEW, SUSTAINED
while open, CLEARED, again and again; a restart orphans what is open.  The
refinement mapping takes `announced` as it is and defines `Orphaned` from the
manager and the outbox: open on the topic, and neither held nor about to be
cleared.

### Separation, Rules, ConformanceMonitor — the detectors

`Separation` is `services/conformance/separation.py` with the cut-offs of
`probability.py`.  Positions and velocities are integers in a plane, so that the
arithmetic is exact: an end of a window is the root of a quadratic,
`(p + k√d)/q`, and such instants are compared without rounding (`Earlier`).  `HorizontalWindow`,
`VerticalWindow` and `Window` are the two solvers and their intersection; `Scan`
has the eligibility, the grid's cells and the rejections in the code's order;
`Report` is what is said of a pair.  A probability is nothing or something: the
normal densities are numerical integration and are not modelled.

`Rules` is `rules.py` and `_severity_for`.  `ConformanceMonitor` is the queue of
one track: `Predict`, what falls due (`Popped`), what of it is compared
(`Checked`), the bound, the finding.

### Simulation, Generator — `sim/engine.py`, `scenario.py`, `generator.py`

`Advanced` is what one step does to one aircraft: it enters, the commands in the
half-open interval take effect in the plan's order (of those of a kind due in one
step the last stands), heading, level and speed pursue their targets at bounded rates, and it moves.  The plane is a grid with four headings.  `Generator` has every
encounter a family can stage: where the pair meets, how far it misses, what it
does on the way.  A random draw is any value of a set.

### ConflictTruth, Dataset, Replay — `eval/`, `ml/dataset.py`, `baselines.py`

`ConflictTruth` turns instants of violation into events and compares them with
alerts, and manoeuvres with advisories.  `Dataset` has the samples a model is
trained on: a baseline, and its error along and across the aircraft's heading.

`Replay` is the evaluation's loop.  One `Step` is one turn of it: the truth
moves, reports get through or are lost, tracks are confirmed, the monitor
observes, the runner scans, the manager reconciles (`AlertLifecycle`, the same
operators as in `ConformanceService`), and everything is written down for the
scores.  `Score` ends the scenario.  `StagedReplay` puts it together with the
generator: what a scenario may have been staged as.  `MCReplay` has the scenarios: all
encounters on a small grid, hand-made manoeuvres, everything the generator stages
from small ranges.

### Feed, LivePicture — `services/feed`, `common/wait_for_kafka.py`, `storage/stores.py`

`Feed` is the process from its start: `stage` goes through probing, closing and
pausing (the wait, with `deadline` and `due`) to `FeedRunner.run`:
advancing, publishing, sleeping until the tick.  A probe has its answer at one
await (`Answer`) and is closed by another; the deadline is looked at after that
(`Conclude`), up to `MaxProbe` after the probe began.  `wait_for_schema.py` is the
same loop around another probe.  An awaited call takes up to `MaxWork`, and a sleep
ends up to `MaxLate` after it should; `overrun` is a history variable that sums by
how much steps and sleeps took too long.  This is the paced feed: `--replay`, which
does not sleep, is not modelled.

`LivePicture` extends it with the store: a report reaches the tracker's pipeline
within `MaxLatency`; SET with a TTL and ZADD are two commands (`writer`), so are
the ZRANGEBYSCORE, MGET and ZREM of a reader's `live()` (`reading`), and DEL and
ZREM of `forget()`.  Every step of an airborne aircraft reports: a sensor's dropout
(`engine.py:298`), which leaves a gap of an interval, is in `Replay` and not here.
`disturbed` and `lapsed` are history: whether anything
but a publish touched the entry since the last one, and whether there was ever cause to tidy.

### Display — `services/api/app.py`, `stream.py`, `static/app.js`

| Code | Model |
|---|---|
| the stores' answer | `tracks`, `alerts` |
| a stream handler, and what it awaits | `handler[s]`: asked, accepting, reading tracks, reading alerts, sending, receiving |
| `Broadcaster._clients` | `clients` |
| `_run`: what it awaits, the frame, who is still to get it | `stage`, `frame["broadcaster"]`, `to` |
| a connection | `wire[s]` (messages to the viewer), `gone` (it broke or was closed) |
| the browser's socket, poll timer, polls under way | `current`, `polling`, `poll` |
| what is drawn | `shown` |

A send waits when the viewer does not read and the buffer is full, and times out;
the `close(1011)` that follows is awaited outside that deadline (`stream.py:213-214`)
and is taken to be instantaneous, so a close that hung would hold up the loop in the
code and not here.  A connection that breaks tells the viewer so: a half-open one, for
which `app.js` has no timer, is left out.
A guest reads when it pleases.  A connection is used again after its handler is
over, as the browser's reconnections are.

### Models — `ml/train.py`, `models.py`, `neural.py`, `predictor.py`, `monitor.py`

A file is absent, torn or whole, and is known by the run and the build it is of.
The training run's steps are the writes in their order (`step`): the artifacts of a
horizon are unlinked, the winner is created and written, then the next horizon,
and the error figures once at the end.  The service starts for a horizon, looks
for its files, reads them, falls back to physics (`phase`), reads the figures and
judges the predictions that wait.

## 4. The runs

| Run | Instance | Checks |
|---|---|---|
| track_estimator | 1 aircraft, thresholds 1/3/4, clock to 5 | types, `AnnouncedOnce`, `ConfirmedBySeveralReports`, `LastIsNewest`, `SilenceEndsTrack` |
| track_rebalance | 2 replicas, 2 partitions, 1 aircraft, clock to 2, 2 reports, 1 rebalance | types, `OwnershipInv` (of the proof), `ReleasedNotShown`, `LiveIsCurrent`, `OwnerListens` |
| track_failures | 1 rebalance, 1 crash, 1 shutdown, 1 failed operation of any kind, at any await | `SoleOwner`, `CommittedIsPublished`, `CommittedIsRecordedOrLost` |
| track_live | fair scheduling, 1 crash, 1 rebalance | `EveryReportHandled`, `RebalanceCompletes` |
| conformance_scan | 2 aircraft, a conflict and a deviation, 1 crash | types, `AlertsAreAnswerable`, `DisplayIsManagers`, `ProtocolKept` (implements `AlertProtocol`) |
| conformance_live | 2 aircraft, a conflict; timestamps 1 period ahead; 1 crash, 1 failed publish or store write; fair scheduling | `ActiveIsTold`, `GhostLeaves` |
| replay | 2 aircraft, every scenario of `MCReplay`, 9 steps, 1 lost report | types and kept predictions, `NoConflictMissed`, `NoConflictInvented`, `StraightFlightIsForetold`, `AdvisoriesHaveACause`, `StrayingIsNoticed`, `SeverityIsFresh`, `NearnessIsTrue`, `SamplesReconstruct` |
| display | 1 aircraft, 1 browser and 1 guest, 1 poll at a time, 1 change, 1 fault, page from here or elsewhere; fair scheduling | types, `AlwaysFed`, `PictureSettles` |
| live_picture | 1 aircraft, 1 reader, clock to 14, interval 2, work up to 3, probes and sleeps up to 1 late, 1 termination | types, `WaitKeepsDeadline`, `DataInOrder`, `ShownWhileFeedKeepsUp` |
| models | 2 horizons, 2 runs (1 killed), 2 builds, 2 service starts | types, `OneArtifactPerHorizon`, `JudgedByOwnFigures` |

*Bounds of the tracker.*  Aircraft are independent in the estimator, so one
suffices there; the time bound passes the longest threshold, so confirmation,
coasting, termination, restart and pruning all happen.  In the service two
replicas are the fewest that can hand over; one aircraft on one partition
already meets every interleaving of handler, sweep and callback; two partitions
are needed for a rebalance that moves one and leaves the other.  Two reports
fill a buffer of two and leave one in flight; the clock of track_rebalance is long
enough for a track to coast, end, be pruned and start again.  Nobody stops in
track_rebalance (`MaxStops = 0`), so its `LiveIsCurrent` says nothing of a stopping
replica; the theorem does (section 5), and so does TLC, in 93 s, with one
partition, a clock to 2 and a stop.  In track_failures a replica stops beside a
rebalance.  Replicas are interchangeable and
reduced by symmetry (not in the liveness run).  The bounds are guards on the
environment only: `MaxTime`, `MaxReports`, `MaxRebalances` (a partition without
owner is reassigned beyond it), `MaxCrashes`, `MaxFaults`, `MaxStops`.

*Bounds of the conformance service.*  A conflict needs two aircraft; a deviation
of one of them gives scans with several alerts, a release that concerns two, and
findings that outlive their track.  `ClearAfter = 2` is the least that can
miss once without clearing, `SustainInterval = 2` the least with a scan that is
not due, and `TTL` exceeds the longest time between two publications of a kept
alert, as 300 s do 10 s and three scans; by how much is exact (`DisplayCorrect`,
section 5): with a `TTL` one less the run fails.  `MaxCrashes` and `MaxFaults` are
guards; nothing else is bounded.

`DisplayIsManagers` is stated without failures and is checked with updates that
are not ahead of the clock.  When they are, it fails: while the scanner's clock
leads and stands still no heartbeat falls due, and the Redis entry, on the wall
clock, expires.  `DisplayCorrect` says how far the clock may lead before that
happens.  `ActiveIsTold` says what is left: the alert comes back.
`ProtocolKept` is likewise about crashes but not about failed publishes: after
one, SUSTAINED or nothing may be the next word about a key, because the manager
has advanced and the topic has not.

*Bounds of the replay.*  `NoConflictMissed` compares the scan with the plain
definition of a breach at `Finest` instants per step; `NoConflictInvented` asks for
a sampled instant within half a sample of one.  The scenarios include parallel
tracks, equal speeds, level pairs, head-on and crossing pairs on both sides of
each standard, aircraft that enter late, and climbs that are reversed.  The
duration exceeds first turn + horizon and the longest lookahead; one lost
report is the least that makes a scan mix instants.  It does not make a prediction miss
its window, which is as wide as the tolerance on both sides: that takes more
reports lost in a row, and is left to the theorems.  The speed changes of the generator slow down, since in 6 steps of memory less
3 of horizon and 1 of tolerance an aircraft must be done with them, and at a speed
of 3 it would be farther in one step than the threshold.  `MaxPending` holds a horizon's predictions, as 256 do 60 s;
`PredictionsKept` (part of `TypeOK`) says it never drops one.

`StrayingIsNoticed` is about what was flown, not about what was commanded: wherever
the recorded path is farther than the threshold from where the course of an
instant before the command led, from the first moment a prediction may be compared
(`MATCH_TOLERANCE_S` early) until it is due, the command is credited.  With the
fallback figures of the physics predictor at 60 s the threshold is 3.0 x 2.412 =
7.24 nm (`monitor.py:84`, 89): a turn of 90° at 3°/s qualifies from about 425 kt (at
450 kt it leads 8.0 nm off, 7.7 nm three seconds before), one of 60°, the sharpest of
the generator, at 620 kt (8.6 nm).  In the run a threshold of 2 stands against
speeds of up to 2 and a horizon of 3.  Other commands within a horizon are excluded
(`Lone`), because an advisory is credited to the latest.

*Bounds of the display.*  The guest needs a buffer it can fill (`Buffer = 1`); one
change of the stores lets an old and a new frame be under way together; one
fault is any of a failed read, a broken connection, a failed poll. 

*Bounds of the live picture.*  `MaxWork` exceeds `Interval`, so steps overrun, and
`MaxProbe` and `MaxLate` are 1, so a probe may outlast the deadline and a sleep end
late; the scenario is shorter than the clock's bound, so it ends and is looped; `TTL`
outlasts an interval, a late sleep, the work and the latency
(`LivePictureAssumption`), as 120 s do.  `ShownWhileFeedKeepsUp` says how much lost
time the window has to spare (`overrun + MaxLate + MaxWork + MaxLatency <= Window`, so
1 with the window of 6); with more the aircraft does leave the picture.

*Bounds of the models.*  Two horizons are the fewest that a killed run can leave
of two kinds; the horizons asked for include one between them and one beyond.

**Fairness.**  *track_live*: the ready queue of an event loop is FIFO: a task
that becomes ready again and again does run, so the consumer and the callback
are strongly fair, the lock's holder and the timer weakly fair.  The broker
finishes a rebalance it began and replaces an owner that left; an orchestrator
restarts what went down (`deploy` restart policies); time passes.
*conformance_live*: the scanner's timer fires, a publish and a store call end in
success or failure, time passes, the process is restarted; all weakly fair.
*display*: handlers, the broadcaster, the browser and its polls get on when they
can, and a send to a viewer who does not read ends in a timeout; all weakly
fair.  Nothing is assumed of a guest.
Nothing obliges reports, updates, detections, rebalances, crashes or failures to
happen.

**Disagreements of code and documentation** (runs that expect a violation; each
quotes its line in `PROJECT.json`).

| Run | What the code does |
|---|---|
| track_filter_time | after a sweep announced coasting, the next report predicts the same silence twice |
| track_stray | a sweep drops the partition entry of an aircraft whose first report waits for the lock; after a rebalance the old owner terminates a track that is not its own |

Two more are not among the listed runs, but TLC shows them in seconds:

* `tlc -config TrackLastFlush.cfg MCTrackService.tla` violates `RevokedNotOverwritten`.
  `services/track/runner.py:276-279` says that after a revocation a replica is no longer
  entitled to write what it has buffered into the live picture, since that "would
  replace current state with stale state".  The last flush of a replica that stops
  (138) holds no lock and leaves nothing out: a revocation during its write to the
  history finds the buffer empty, drops the tracks and lets the group go on, and the
  flush then overwrites what the new owner wrote.  `LiveIsCurrent` leaves out
  exactly the aircraft this happened to (`overwritten`);
* `tlc -config FeedOverrun.cfg MCLivePicture.tla` violates `RunCatchesUp`.
  `services/feed/runner.py:88-90` says "If a tick overruns, the sleep is skipped rather
  than negative and the run catches up".  Each sleep is cut by its own step's work only
  (79, 91-92), so a run that overran once, and whose last step was in time again,
  ends with its data behind the wall clock.

Seen while modelling, without a run.  In the tracker and its store:

* a discarded report's offset is committed with the next one
  (`services/track/runner.py:235-236`, `messaging.py:299`);
* a shutdown that interrupts a flush loses the batch that flush had taken
  (`runner.py:284`, and the buffer is empty at 135-137);
* a late report restarts a terminated track in the past (`estimator.py:184-186` has
  no last report to compare it with);
* a failed flush in the revocation keeps the tracks it was to drop
  (`runner.py:198-202`), which together with track_stray is why `SoleOwner` exempts
  aircraft that went *astray* (`astray` and `strayed`, history variables set exactly
  there: astray at a replica now, and ever; a later report brings the entry back and
  ends it, `runner.py:129`, unless the callback has already made its list);
* `runner.py:273-280` says that what a replica gave up is not shown by its release.
  There is one way: a report is handled and buffered; a sweep terminates the track
  and fails to publish that; a later sweep prunes the record and its map entry;
  the release's flush no longer finds the aircraft among the released and shows
  it.  `ReleasedNotShown` exempts exactly a pruned track after a failure;
* `stores.py:216-217` tidies "so the index does not grow without bound", but reads
  only the window: entries older than it are never found.

In the conformance service:

* an aircraft terminated and seen again before the next scan has its conflict
  raised and cleared in one batch, and raised again a scan later
  (`services/conformance/runner.py:224`);
* `conformance/__main__.py:95-99` says a restart begins at the live edge, but
  `auto_offset_reset` only applies to a group without committed offsets;
* a CLEARED whose publish failed is not sent again; only the display recovers, by
  the expiry of the entry;
* the model is loaded from `--models-dir` (`__main__.py:71-72`), its error figures
  always from the default directory (`monitor.py:114`, 229), and of whatever model
  version; a horizon of 60.9 s loads the 60 s model (`predictor.py:58`) and then
  finds no figures;
* the reported vertical separation of a pair that passes through each other's
  level is that of the two ends, not the zero between (`separation.py:482-488`);
  the grid assumes at most 1200 kt of closing speed, scenarios allow 700 kt each;
* `LiveAlertStore.active()` reads and then tidies its index in commands of their own
  (`stores.py:279-297`), so it can take an entry just renewed off the index until the
  next heartbeat; the model's display reads in one step;
* a raised severity is published with the next heartbeat, not at once
  (`SeverityIsFresh` states how late); a scan pairs positions of different instants;
* a prediction may be compared up to 3 s early.

In the evaluation, training and simulator:

* an advisory is credited to the latest manoeuvre, so an earlier one of the same
  aircraft counts as missed; `_score` keeps the lead time of the last event an alert
  foretells; `conflict_truth.py:30` says "less than" of a gap the code bounds with `<=`;
* a training run that is killed leaves new artifacts beside old figures
  (`train.py:477-523`; `JudgedByOwnFigures` is about loads in peace);
* a command at instant 0 never fires; manoeuvres of a plan may be drawn out of
  order, and later turns start from the first heading (`generator.py:252-258`).

In the API, the display and the feed:

* during an outage of Redis the sockets stay open and the pill says "live" over a
  frozen picture; a poll answered late overwrites a newer frame until the next one
  (`app.js:354-357`);
* a cancellation that arrives during a send is taken for a timeout (`stream.py:210`),
  and `stop()` may wait for ever;
* an overrun beyond the window's spare time empties the display, and a sleep that
  ends late is not made up either (`feed/runner.py:79`, 92);
* `feed/__main__.py:4` offers `--replay --loop`: the second pass starts again at the
  wall clock, behind the data that the first, unpaced one has published, and the
  tracker drops its reports as late (`estimator.py:187`).  The model is the paced
  feed, of which `DataInOrder` says that this does not happen;
* a broker or schema that gets ready after the probe's answer and before the deadline,
  while the probe is being closed, is given up on (`wait_for_kafka.py:51-64`);
  `WaitKeepsDeadline` says by how much at most.

What the properties leave out on purpose, where the code can go wrong or may do
either: scans of a picture whose reports are of different instants
(`StraightFlightIsForetold` asks for `fresh`, `NearnessIsTrue` for no lost report);
models loaded during a run or after a killed one (`JudgedByOwnFigures` is about
`calm` loads); an entry that a reader's late clean-up took away, until the next
report (`ShownWhileFeedKeepsUp` asks for not `disturbed`); two commands of a kind within
one step of the simulator, which `Commanded` models and no property observes.

## 5. What is proved

### TrackServiceProofs

For any replicas, partitions, aircraft, placement and bounds (assumptions
`LifecycleAssumption`, `ServiceAssumption`):

* `InvCorrect`: `Spec => []Inv`, `Inv == TypeOK /\ WellPlaced /\ OwnershipInv`;
* `TypeCorrect`, `OwnershipCorrect`, `SoleOwnerCorrect`: its consequences.

`SoleOwner` is not inductive: it does not say why a report waiting for the lock
may be folded in.  `OwnershipInv` adds, for each replica: tasks queue once and no
handler waits behind the assignment callback (`WellQueued`); memory goes with
membership (`NothingOutside`); what is held is mapped, owned, and about to be
dropped if revoked (`HeldIsOwned`); a member that rejoined holds nothing
(`RejoinedIsEmpty`); a waiting report is of an owned partition or a revoked one
(`WaitingIsOwned`); the callback that releases has revoked all it owns
(`ReleaseIsWhole`).  `WellPlaced` says that reports lie in the partition the
broker placed them in.  A new assignment is harmless because every member has
rejoined and holds nothing; every other step is one replica's, the others are
`Untouched`, and the acting one is treated action by action.

*Delivery.*  Under the same assumptions, on top of `Inv`:

* `DeliveryCorrect`: `Spec => []DeliveryInv`;
* `OwnerListensCorrect`, `PublishedCorrect` (`CommittedIsPublished`),
  `RecordedCorrect` (`CommittedIsRecordedOrLost`): its consequences.

A commit covers every position of the replica's partitions, so what must be shown
is about positions, not about the report at hand: `OffsetsOf` says that
everything below the committed offset is `Done` (published or discarded, and
recorded, buffered, discarded or lost), and everything the owner was handed is
`Done` or is the one report it has in flight.  `BufferOf` says where updates are
at each await, `HandlingOf` what of the report in flight was published, and
`ListenOf` that a replica's own partition is in its discard set only while the
callback that clears it is on its way.  `OwnerIsUp` is why a crash leaves no
partition to a dead process.  The lemmas go by what an action does to the
buffers: most leave them or move updates from one to the next (`Persist`, `Flow`;
`Apart` for the other replicas), and only a crash and a failed flush lose some, which
then are in `lost`.

*The live picture.*  On top of `DeliveryInv`:

* `PlaceCorrect`: `Spec => []PlaceInv`, where updates are about what;
  `ReleasedCorrect` (`ReleasedNotShown`) follows;
* `PictureCorrect`: `Spec => []PictureInv`, what the live picture will say;
  `LiveIsCurrentCorrect` (`LiveIsCurrent`) follows.

`PlaceInv`: the buffer has updates of aircraft the replica serves and has not
revoked only (`UnflushedOwned`), a batch being written those that it still
serves, about to be dropped if revoked (`BatchOwned`), and a sweep's those it holds
(`SweptOwned`); while nothing fails, nothing is pruned from under the buffer
(`UnflushedLive`).

`LiveIsCurrent` speaks of quiet moments.  Its invariant speaks of all of them:
`Newest(r, a)` is what the entry will be when the batch, the buffer and the
unbuffered updates are written in this order, and that has the state of the track
at least as new as the track (`CurrentOf`).  A write moves updates from one argument to the next and
leaves `Newest` (`WrittenTwice`).  That no older update overtakes needs the
order of the topic: an aircraft's reports lie in it by their instants
(`OrderedLog`), and a track stands behind every report that is still to come
(`BehindOf`, `HandedLast`).  Another replica writes about other aircraft
(`BatchOwned`), those excepted that strayed.

A replica that stops is the other exception.  Its last flush holds no lock, so the
callbacks of a rebalance run beside it and it may write what is by then
another's (`TrackLastFlush.cfg`); such aircraft are in `overwritten`, and
`LiveIsCurrent` says nothing of them, nor of an owner that is itself stopping.
Nothing else is touched: a replica that is closing promises nothing
(`ClosingPicture`), and what its last flush writes is of a partition it still has, of
which nobody else promises anything, or is recorded as overwritten.

### ConformanceServiceProofs

For any tracks, any finite set of conditions, any intervals and bounds
(assumptions `AlertAssumption` and the `ServiceAssumption` of
`ConformanceService`, of which one part is about the code: a finding of the
monitor is about one aircraft):

* `InvariantHolds`: `Spec => []ConformanceInv`;
* `TypeCorrect`, `AlertsStayAnswerable`: its consequences.

`ConformanceInv` adds to `TypeOK` and `AlertsAreAnswerable` that the scanner
awaits the broker only for an alert it still has (`AwaitsForAlert`), without
which `PublishAlert` could not be typed.  `AlertsAreAnswerable` covers findings
as well as active alerts: a finding becomes an alert at the next scan, and its
track may have been terminated in between.  Each part of a step has its lemma:
what time does to manager and picture (`OlderKeeps`, `AdvancedKeeps`), what a
scan keeps (`ReconciledKeeps`: only what was active or detected;
`ForgottenKeeps`: only what concerns no released track; `FreshKeeps`: exactly
the tracks that are not stale), and that a scan's alerts are finitely many and
so form a sequence (`ScanAlerts`).  `ScanStep` puts them together: an alert that
survives the scan is about tracks that were in the picture or terminated, and
are neither stale nor terminated.

*What the topic says.*  `AnnounceCorrect` (`Spec => []AnnounceInv`),
`ProtocolStepsCorrect` and `ProtocolCorrect`: a behaviour of the service in which
no publish or store call fails is one of `AlertProtocol`.  Each step is one of the
protocol's or stutters, up to the step that fails (`ProtocolStepsCorrect` has no
such hypothesis about the behaviour).  The mapping sends a key to orphaned by what
the outbox still says of it, so the proof is about sequences: of the alerts that
wait, the last one about a key agrees with the manager (`LastSaid`), a CLEARED
is followed by nothing (`ClearedLast`), the first one agrees with what
the topic said last (`FirstSaid`), and a key of which nothing waits was told what
the manager has (`Told`).  These hold of a scan's list in whatever order
`reconcile` and `forget` return them (`ReconcileSays`, `ForgetSays`, `ScanSays`).

*What the display shows.*  `DisplayCorrect`: as long as the scanner's clock leads by
at most `ahead`, and `SustainInterval + ClearAfter + ahead <= TTL` (`Outruns`),
`DisplayIsManagers` holds.  The code has 10 s, three scans of 1 s and 300 s, so
nearly five minutes of lead are to spare.  `Displayed` says of every key the
batch does not mention that its entry is the manager's and how old it can be: an
alert is published again within `SustainInterval` of a scan that sees it, and is
cleared after `ClearAfter` that do not.  The bound is exact: with a `TTL` one
less TLC finds the property violated, for a lead of 0 and of 2.

### ReplayProofs

For any scenarios, standards, lookahead, horizons, windows and bounds
(`SeparationAssumption`, `SimulationAssumption`, `MonitorAssumption` and the others
that the modules declare), under hypotheses named where they are needed, all of
which the scenarios of the run meet:

| hypothesis | says | why the code justifies it |
| --- | --- | --- |
| `QueueSuffices` | `Tolerance < Horizon`, and no more predictions between the two than places | 3 s, 60 s, 256 places, one prediction a second |
| `Orthonormal` | headings are unit vectors, a quarter turn to the right across | true of sine and cosine; of integers, of the four compass headings |
| `NeverAtCeiling` | who climbs from the beginning is not at the ceiling when the run ends | the engine has a ceiling only for those (`engine.py:155`) |
| `NeverTooFast` | no two aircraft of a scenario close faster along an axis than `MaxClosing` | `separation.py` supposes 1200 kt for two; scenarios may give each 700 kt, and beyond it the grid may put a pair into cells too far apart |
| `GroundIsClear` | who passes over one that came straight down to the ground stays above the vertical standard | the engine ends a descent at zero altitude (`engine.py:243`), which the detector's straight lines do not know; without it the alert for such a pair could come later than the lookahead |
| `ManoeuvresSettle` | every manoeuvre begins in flight and, from any heading or speed the aircraft can have by then, is over within `Attribution - Horizon - Tolerance`; and within the tolerance no aircraft gets farther than the threshold | 240 s less 60 s and 3 s leave 177 s; one manoeuvre of the generator is a turn by at most 60° at 1 to 3°/s or at most 60 kt at 0.5 to 2 kt/s (`generator.py:266`); 3 s at 620 kt are 0.52 nm, and the threshold is never below 1.5 nm.  Where an aircraft manoeuvres several times, two speed changes may add up to 120 kt and three turns to 180°, and at the lowest rates take longer: such a scenario the theorem does not cover |

* `TypeCorrect` (`QueueSuffices`): besides types, that no prediction falls out of a
  full queue before it is due.  `QueuesKept` with `WaitingInOrder`: the predictions
  wait in the order of their instants, none twice, so their number is bounded by
  the span of those instants.
* `SeverityIsFreshCorrect`: the invariant `SeverityInv` ties what the manager holds
  to what the last scan found, condition by condition, and what was told to when.
* `SamplesReconstructCorrect` (`Orthonormal`, `NeverAtCeiling`): the residual along
  and across the track rotates back to where the aircraft was, and is nothing in
  straight flight.  `PathsKept` says the truth of each second is on record and an update
  is a copy of it, `SamplesKept` that a sample was cut from them as the code cuts it,
  `StraightKept` where a flight without commands is after so many steps, an aircraft
  that meets the ground included.
* `NoConflictMissedCorrect` (`NeverTooFast`): a pair that straight flight brings below
  both standards is reported.  `SpeedInv` follows the speeds from the scenario to the
  picture.  The rest is about the operators, for any picture of any number of tracks
  (`ScanMissesNothing`), in these steps:
  - *Windows.*  The ends have roots, and there are no real numbers here.
    An instant of breach is rational, and every comparison of two ends goes through
    it: a lower root is before what it is before (`LowRootSooner`, `HighRootLater`, from
    `StaysBelowRoot`), so the breach holds the intersection open (`OverlapOpens`),
    and where the rational ends leave no time the roots open none (`OverlapStaysShut`,
    which `ClearHasNoWindow` needs).  `InsideQuadratic` and `InsideVertical` put the breach
    inside each window.
  - *Grid.*  A pair within the radius has quotients that differ by one at most
    (`AdjacentQuotients`), and a pair that meets within the lookahead is within the
    radius (`ReachIsAdjacent`).  That the mean exists is a fact about a recursive
    function over the subsets of a finite set (`TotalFits`).
  - *Rejection.*  `RejectionLosesNothing`: what the widened vertical rejection discards is
    beyond the cut-off at the instant it would be reported for, whatever the variances.
* `NoConflictInventedCorrect` (no hypothesis): whatever is reported comes, at a sampled
  instant within the lookahead, as close as half a sample allows from a breach of both
  standards at once.  It is the converse argument, again for any picture
  (`ScanInventsNothing`); of the model's picture it needs only that aircraft are in
  whole places at whole speeds (`PictureFlown`).
  - *An instant.*  An open intersection has a rational instant in it
    (`OpenOverlapHasTime`): halfway between two rational ends (`Halfway`), the centre of the two
    roots (`CentreOfRoots`), or a rational end that cuts the roots' window.
  - *Inside both.*  At an instant between the roots the distance is at most the standard
    (`BetweenRoots`, `HorizontallyInside`), and likewise vertically (`VerticallyInside`).
  - *Sampled.*  The nearest sample is half a sample away and within the lookahead
    (`NearestSample`), and a pair moves no more in that time than its closing speed
    allows (`StillNear`, `GapStillNear`).
The library's induction theorems cannot be used here; where something holds
of all numbers or all finite sets, the proof takes a least counterexample
(`Least`, from the well-foundedness of the naturals).

### EvaluationProofs

On top of `ReplayProofs`, under the hypotheses of the table: what the scores come to, from
the scenario to its end.

* `StraightFlightIsForetoldCorrect` (`NeverTooFast`, `NeverAtCeiling`, `GroundIsClear`):
  the promise end to end, from the scenario to the score.  `ForetoldInv` follows it
  through the loop: a scan that saw everyone counts towards the reports of a track
  (`CountsKept`), what is active was raised before (`RaisedKept`), a violation is a
  loss that the courses foretell (`ViolationsKept`), what a fresh scan could foretell
  is raised by then (`ForetoldKept`, by `NoConflictMissedCorrect` and
  `SeverityIsFreshCorrect`), and an event begins at a violation (`EventsKept`, from
  `EventsBegin`, which is about the fold over the violations).  `CourseIsTold` and
  `LossIsBreach` say that the picture of a fresh scan, extrapolated, is the course.
* `AdvisoriesHaveACauseCorrect` (`Orthonormal`, `ManoeuvresSettle`): an advisory about a
  deviation can be put down to a manoeuvre, whatever reports are lost.  `CauseInv` has
  three parts.  `SteadyKept`: an aircraft is on its course, or carries out a command of
  its plan that it can still finish in time; a turn comes nearer its target by its
  rate each second, or arrives, whichever way round is shorter (`Turned`, `ShortestTurn`).
  `PredictionsAccounted`: each prediction that waits is what straight flight from here
  comes to (`Foreseen`), or some command has begun that is recent enough when the prediction
  is checked (`Excused`).  `AdvisoriesCaused` follows: a prediction of the first kind
  that is checked within the tolerance of its instant is no farther off than the
  threshold (`SlipIsTolerated`; a heading is a unit vector), so what deviates is of the second.
  Predictions that lapsed unchecked are the reason for speaking of the whole queue
  (`CheckedFits`, `ObservedHolds`).
* `NearnessIsTrueCorrect` (`NeverAtCeiling`, `Orthonormal`): how near the evaluation says
  that a pair came is how near it came.  `NearInv`: the path of an aircraft has every
  instant since its first (`PathsWhole`), and the closest approach is at most the distance of
  every pair at every instant of their paths (`ClosestKept`), so an encounter the
  generator staged is seen at its meeting point, where its courses are as far apart as it
  was aimed (`StagedPasses`).  Who is on the picture has flown (`SeenHasFlown`), and of a straight
  flight of which nothing was lost an alert is raised only if the courses come, at some
  whole instant of the lookahead, nearer than the standard and what both fly in a step
  (`RaisedNear`, from `NoConflictInvented`); that instant is on both paths when the
  scenario lasts so long.
* `StrayingIsNoticedCorrect` (`QueueSuffices`, `Orthonormal`, `ManoeuvresSettle`): a
  manoeuvre that leads off a straight course is credited with an advisory if the
  reports got through.  `StrayInv` says of every instant of the path: until it may be
  compared, the prediction made then waits (`LedAwaited`, by `WaitsUntilDue`), and
  if the aircraft was by then farther off than the threshold there is an advisory
  (`StrayedAdvised`): it is compared at that moment (`ComparedWhenDue`), found
  (`StrayingIsFound`), and what is found is advised of, then or before (`ActiveAdvised`,
  `DetectedIsActive`).  By `CauseInv` that advisory has a cause, and the
  manoeuvre is the only one it can have (`LoneIsCredited`).

### TrackEstimatorProofs

For any aircraft, thresholds and clock bound (`LifecycleAssumption`,
`TimeAssumption`): `EstimatorCorrect` (`Spec => []EstimatorInv`) and its
consequences `TypeCorrect`, `SilenceAnnouncedOnce`, `ConfirmationIsEarned`,
`SilenceFromNewest`.  None of the last three is inductive.  `ToldFits` ties what was
announced to the state, so that a sweep has nothing to repeat; `CountFits`
says the count never exceeds the different instants seen, by cardinalities of
finite sets (`InstantsAreFinite`); `NewestFits` is what makes an accepted report
a new instant, which `CountFits` needs in its turn.

### LivePictureProofs

For any scenario, interval, window, latency and lifetime that meet
`SimulationAssumption`, `FeedAssumption` and `LivePictureAssumption` (of the last
one part is about the deployment: a key outlives an interval, a late sleep, a step's
work and the latency): `PictureCorrect` (`Spec => []PictureInv`), `TypeCorrect`,
`WaitCorrect`, `DataOrdered`, `ShownCorrect`.

`WaitInv` and `PlayInv` say where each clock is in each stage; the data is behind by
exactly what this run has lost (`Behind`), and a new pass begins at the wall clock, so
it is never older than what was published.  `TidyInv` follows
the reader: what it comes across was published, and lapses by expiry or by the
tracker only.  That the track is shown needs four facts about age: what was
reported last is as old as the feed is late (`FreshInv`), what it replaces is older
by no more than a step's work (`OlderInv`), the key was written less than an
interval before the next step is due (`KeyInv`), and something is stored at all
unless it was disturbed (`StoreInv`).

### ModelsProofs

For any horizons, windows, queue lengths and numbers of runs, builds, kills and starts
(`ModelsAssumption`): `ModelsCorrect` (`Spec => []ModelsInv`), `TypeCorrect`,
`OneModelPerHorizon`, `JudgedFairly`.  `StepFits` says what a run has already
unlinked, `Replaced` that the horizons it is through with are its own, `Settled`
that between runs that were not killed the models are of the run the figures are of.
`LoadInv` carries that into the service: a calm load read
everything while no run did anything.  `ServiceUnmoved` and its counterpart let
the two processes be treated one at a time.

### DisplayProofs

For any aircraft, connections, viewers, polls, buffer and faults
(`DisplayAssumption`): `DisplayCorrect` (`Spec => []DisplayInv`), `TypeCorrect`,
`FedCorrect`.  `DisplayInv` is one statement per connection: the broadcaster serves
exactly who is accepted and not over (`Served`), nothing was sent to a connection
before it was accepted (`UntouchedBefore`), and the browser will hear of the end of
the one it relies on (`WillHear`); `AlwaysFed` follows.  A step is the business of one
connection and leaves the others alone.

### What is only model-checked

Liveness (`SilenceEndsTrack`, `EveryReportHandled`, `RebalanceCompletes`,
`ActiveIsTold`, `GhostLeaves`, `PictureSettles`): fairness and ENABLED are out of the
prover's reach.  Every invariant of the runs is stated by a theorem.

## 6. What is not modelled

* Real arithmetic: the Kalman filter's matrices (only the instant its state stands
  at is kept), the densities behind conflict probability, geodesy on the sphere,
  fitting, bootstrap and scores of the learned predictors, sensor noise.
* Reads without state and process plumbing: health, readiness and metrics
  endpoints, tracing, logging, configuration, command lines, tables and reports
  of the evaluation, `scripts`, `deploy`, the consumer-lag gauge.
* `start` and `stop` of the broadcaster (the process ends with them), malformed
  messages (they are logged and skipped), the upsert of the `tracks` table and
  `history()`, the schema and its migrations (the unique constraint is why
  `history` is a set of keys).
* Layout: trails, colours, the status pill and the drawing of `app.js`.
* The turning baseline, background traffic of the generator and scenario files.
