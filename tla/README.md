# TLA+ models of SceneScape

SceneScape fuses the detections of many cameras and sensors into one scene graph. Its
parts are services that talk over MQTT and REST. This directory holds models of the parts
where threads, callbacks, messages and restarts meet, the TLC configurations that check
them on small instances, and TLAPS proofs of the properties that matter most.

Paths below are relative to the repository root.

## 1. Inventory

| Component | State it keeps | Operations | Hard behaviour | What makes it correct |
|---|---|---|---|---|
| Tracker service, frame pipeline (`tracker/src/message_handler.cpp`, `time_chunk_buffer.cpp`, `time_chunk_scheduler.cpp`, `tracking_worker.cpp`, `main.cpp`) | active scopes, buffer, snapshot, worker map, worker queues | message callback, timer tick, dispatch, enqueue, process, stop | three kinds of threads, two limits, ordered shutdown | no batch leaks, frames of a camera stay in order, shutdown loses no accepted chunk and ends |
| Tracker service, MQTT client (`tracker/src/mqtt_client.cpp`, `inc/callback_guard.hpp`) | connected, subscribed, pending topics, callbacks in flight, stop flag | connect, subscribe, reconnect, message, disconnect | library callbacks against the destructor, subscriptions lost over a reconnect | no subscription is lost, no callback after disconnect |
| Tracker service, loading (`scene_registry.cpp`, `api_scene_loader.cpp`, `manager_rest_client.cpp`, `config_loader.cpp`) | registry, immutable after start | load with retries, register | retry limits | a camera belongs to one scene |
| Tracker service, arithmetic (`coordinate_transformer.cpp`, `time_utils.cpp`, `reid_sighting.cpp`) | NTP offset | transform, format, sync | clock jumps | numeric, outside model checking |
| Robot vision library (`controller/src/robot_vision`: `TrackManager`, `MultipleObjectTracker`, matching, filters) | reliable, unreliable and suspended tracks with their counters | create, measure, predict, suspend, reactivate, delete | long sequences of calls, counters at their limits | a track is in one state, ids are never reused, reactivation keeps the counters consistent |
| Controller, ingest (`controller/src/controller/scene_controller.py`, `child_scene_controller.py`) | queue of remote work, subscriptions, remote children, clock offset | message callbacks, one worker, reconcile on a database update | several MQTT loops, bounded queue, reconcile that fails half way | every required subscription and remote child and no other is live, statuses in order |
| Controller, scene cache (`scene_common/src/scene_common/cache_manager.py`) | scenes by id, epoch, refresh in progress, retired scenes | lookup, refresh, forced refresh, invalidate, tear down | single flight refresh without the lock during REST, superseded fetches | no lookup sees data older than the last invalidate, every retired tracker is joined once, none that is live |
| Controller, tracking (`tracking.py`, `time_chunking.py`, `ilabs_tracking.py`, `scene.py`, `moving_object.py`) | tracker threads and queues per category, current objects | track, chunk, join | queue drained while it is joined | no category thread outlives its join, no batch after the sentinel |
| Controller, identity (`uuid_manager.py`, `reid_*.py`) | active ids, feature stores, queries in flight, write health, purge owner | assign, query, update, prune, write, shutdown | pool threads against pruning, results after their track is gone, write failures | a live global id belongs to one track, no write after a hand-off to the parent |
| Controller, external sources (`external_source.py`) | pose cache, identity claims, sweep threads | resolve, claim, sweep | events out of order, expiry against sweeps | one live claimant per identity, caches never go back |
| Controller, PTZ gate (`ptz/*.py`, `scene_common/positioning_dwell.py`) | pose per camera, dwell, resolver status | pose, status, admit | late and reordered poses, restarts of the resolver | a detection is admitted only while the camera has rested long enough at one pose |
| Positioning service (`positioning/src`) | sequence per source, calibration, clock health | poll, resolve, publish | adapter restart, clock jump, stale calibration | published sequences only grow, nothing computed under an old calibration is published |
| Analytics (`analytics/src/analytics`) | region and tripwire state, last events | frame, sensor value, event | debounce per region across object types | each entry has one exit, counts match the objects inside |
| ReID service (`reid/src/reid`) | vector database, schema and model state, ingest queue | ingest, match, add, query, purge | batching, partial failure of a write | a stored vector is of the configured model, a failed batch is reported |
| Auto calibration (`autocalibration/src`) | per camera lock, results, registered scenes | start, status, run, register a scene | check then act on locks, result written before "calibrating" | a finished job shows its result |
| Cluster analytics (`cluster_analytics/src`) | clusters with their life cycle | frame, match, expire | state transitions over long runs | a cluster id names one cluster |
| Mapping (`mapping/src`) | one model, a busy flag, jobs | reconstruct, status | one job at a time | a job ends with a result or an error |
| Manager (`manager/src`) | Django models, mesh jobs, Kubernetes objects | REST, web UI, mesh generation | transactions of Django and PostgreSQL | database constraints |
| Model download, DL Streamer scripts, tools, Helm charts, sample data | files | | | not stateful |

The parts meet as follows. Detections reach the controller and the tracker service over
MQTT topics per camera; both publish tracks per scene and category. The controller reads its
configuration from the manager over REST and drops its cache on an MQTT command; the
tracker service exits instead, and is started again with fresh data. Analytics reads the
tracks and publishes events. The controller asks the ReID service for identities, admits
detections of PTZ cameras by the poses the positioning service publishes, and takes the
objects of child scenes and of external sources from MQTT.

## 2. What is modelled

| Module | Models | Checked by | Proved in |
|---|---|---|---|
| `TrackerPipeline` | frame pipeline of the C++ tracker service: MQTT callback, buffer, scheduler, workers, start and stop order | `pipeline` | `TrackerPipelineProofs`, `TrackerPipelineConservation` |
| `FrameFeed` | the abstract promise of the pipeline: a lossy feed that keeps each camera's order | refined by `TrackerPipeline` (`FeedSpec`) | `TrackerPipelineConservation` |
| `MqttSession` | the tracker service's MQTT client and its life from load to restart | `services`, `update_missed` | `ServicesProofs` |
| `SceneCache` | `CacheManager`: lookups, the single refresh, invalidation, teardown worker | `scene_cache`, `scene_cache_live` | `SceneCacheProofs` |
| `DatabaseView` | the abstract promise of the cache: a view of the database that may lag but never mixes two contents or goes back | refined by `SceneCache` (`ViewSpec`) | `SceneCacheProofs` |
| `CategoryTrackers` | the controller's tracker threads, their queues, the chunk processor and `join()` | `services` | `ServicesProofs` |
| `TrackLifecycle` | `TrackManager` under `MultipleObjectTracker::track`: one frame of the life of the tracks | `track_lifecycle` | `TrackLifecycleProofs` |
| `ReidManager` | `UUIDManager` of one category with the hierarchy publisher's ReID policy | `reid_manager` | `ReidManagerProofs` |
| `ExternalSource` | poses and identity claims of external sources, their worker and their sweeps | `sources` | `SourcesProofs` |
| `RemoteChildren` | reconciliation of the controllers of remote children, their loops and statuses | `services` | `ServicesProofs` |
| `PtzCalibration` | a PTZ calibration on its way from the Manager to the resolver | `services`, `ptz_gate` | `PtzGateProofs` |
| `PtzResolver` | extends it by sampling, pose decisions, session and last will | `ptz_gate` | `PtzGateProofs` |
| `PtzGate` | extends that by the controller's dwell tracker and pose registry | `ptz_gate`, `ptz_session` | `PtzGateProofs` |
| `RegionEvents` | entries, exits and topic of a region in analytics | `services`, `region_lingers` | `ServicesProofs` |
| `SceneRegistration` | AprilTag registration of a scene, its handlers and runs | `services`, `registration` | `ServicesProofs` |
| `SourceMaps` | the maps of a scene in the Manager, their rows, files and transactions | `sources` | `SourcesProofs` |
| `MCServices`, `MCSources` | small instances of several of these in one run | | |

Every definition that stands for code is in `PROJECT.json` under `map`, with its lines.

### 2.1 TrackerPipeline

A *scope* is a scene and a category. The state is what the threads share: `active`
(`active_scopes_`), `buffer` (`TimeChunkBuffer`), `snapshot` (what `pop_all` returned and
`dispatch` has not handed over yet), per scope the worker's state, `queue` and the chunk in
work, and where `main`, the scheduler thread and the workers are.

- MQTT thread: `Reject` and `Receive` are `handleCameraMessage`, `AddBatch` one
  `TimeChunkBuffer::add` for one scope. A message is handled in several steps, since the
  scheduler may swap the buffer between two of its adds; two messages never overlap, as the
  client holds `callback_mutex_`.
- Scheduler: `PopAll` is the swap, `DropAtLimit`, `Enqueue` and `DropAtFull` are the three
  outcomes of one scope in `dispatch`, `SchedulerExit` the return of `run`.
- Workers: `Wake` takes a chunk or stops, `Process` is `process_chunk`.
- Main: `StartScheduler`, `StartHandler`, `StopHandler`, `RequestStop`, `JoinScheduler`,
  `PushSentinels`, `BeginDestroy`, `JoinWorker`, `Stopped` follow `main.cpp`,
  `TimeChunkScheduler::stop` and the destructors of the workers.

A batch is its camera, its place in the order of arrival (`receive_time`) and its capture
time. The detections in it are left out: nothing in the pipeline looks at them. The history
variables `fate` and `lastSeq` record what became of each batch.

### 2.2 SceneCache

A scene's data is the number of the database write that stored it, a Scene object the number
of its construction. One refresh is six steps, since the lock is released during the REST
request and before the retired scenes are scheduled: `Enter`/`Wait`, `Fetch` or
`FetchFails`, `Superseded`, `Apply` or `ApplyFails`, `Schedule`, `Release`. `Call`, `Check`
and `Read` are a lookup around it, `Invalidate` is `invalidate()`, `Take`, `TearDown`,
`WorkerExit` are `_drainTeardowns`. `tracked` tells the controller, whose scenes own tracker
threads, from the analytics service, whose scenes do not.

`DatabaseView` says what callers may rely on: a view that is one content of the database as
a whole, had since the last invalidation, and not older than the view before it. `since`
records those contents; the view is the data of the objects in the cache (`Held`).

The REST answer comes in pages of 100 scenes; it is taken as one atomic read, so what
`ViewSpec` says of a whole content is for databases that fit a page.
`refreshScenes(force=True)` is part of the class and of the model, though in this version
only tests call it. A teardown joins the tracker in one step.

### 2.3 TrackLifecycle

`Frame` is one call of `MultipleObjectTracker::track`: it expires suspended tracks
(`Expired`), reactivates those with a measurement (`Back`), counts (`Misses`,
`TrackedFrames`), decides (`Reliable`, `Deleted`, `ToSuspend`) and creates (`NewIds`), in
the order of the code. The maps of `TrackManager` are functions with domains of their own,
so an entry that is missing, or too many, shows. Which tracks the detections match and which
estimates move are numeric results, hence any choice of the action. `hits` and `idle` record
what a track has really seen.

### 2.4 ReidManager

The state is the maps of `UUIDManager` by track number, the queries and the writes in its
thread pool, the five write flags, and the policy the publisher has read.

- Tracking thread: `Assign` is `assignID` with `gatherQualityVisualFeatures`, the submission
  of the query and `pickBestID`; `Prune` is `pruneInactiveTracks` for one track.
- Pool: `Answer` is `querySimilarity` after the search (`Decide`: `updateActiveDict` under
  `active_ids_lock`); `Disable` is the reaction to slow queries; `Submit`, `Write` and
  `Complete` are the three steps of a write, between which the flags can change: the epoch
  is read after the check of the flags and without the lock, the worker checks again under
  it, and the callback sets the flags.
- Timer: `Flush`. Publisher: `ReadPolicy` once per message, then `Publish` per object.

`lives` tells the lives of a track number apart, which the code cannot: robot vision ids
are pruned when the track is not reliable for a frame and may come back. A query in the pool
carries the life it was made in. Which identity of the database an answer names is any
choice; a failed search is an answer without a match. A new object's own id is a uuid and
taken to be unique (`ReidAssumption`: no identity of the database at the start is the own id
of a track). A write that raises counts as not stored: a reply lost after VDMS has stored
the vectors is left out. Only local camera crops are modelled, no crops that a child
forwarded.

### 2.5 The PTZ chain: PtzCalibration, PtzResolver, PtzGate

Three modules, each extending the one before, follow a calibration and a pose from the
Manager and the camera to the detection that is admitted.

- `PtzCalibration`: `Save` commits and notifies, `OnCameraConfig` is the MQTT callback that
  invalidates and queues, `TakeRequest`, `BeginReload`, `Load` and `Apply` are the steps of
  the refresh thread between which notices come in; `FullRefresh` is the periodic reload.
- `PtzResolver`: `Poll` samples the camera and submits the sample; `Accept` is
  `_submit_locked` with the continuity of sequence and time, the motion history and the
  validity of the pose. The broker keeps the last pose and the last status, and the will of
  a session that broke off (`WillFires`).
- `PtzGate`: `Deliver` is `DwellTracker.on_pose` and `on_status`, `Reconcile` the registry
  after a refresh of the scenes, `Admits` is `evaluate` as a predicate on the state, since a
  detection is decided on at once and changes nothing but the cached projection.

What may go wrong is a budget of events, chosen in the first state from `Scenarios`.
Positions are exact: two readings differ by more than the settle threshold exactly when the
positions differ. The camera does not leave a position and return between two samples, which
no sampling could see. The controller's clock is taken as synchronized and pose timestamps
as exact. Left out: steps back of the wall clock, samples that are older than the pose age
when they arrive, failures of the device (a tick without a poll), the offline status of a
graceful stop, reconnection of a running service. On a subscription the broker may send its
two retained messages in either order (`Subscribe`); a pose carries no session, and that
makes the difference shown by `ptz_session` (§ 5).

### 2.6 ExternalSource

`Receive`, `ResolveIntrinsics` and `Claim` are the three times the worker takes a lock for
one message; between them the two timer threads run `SweepTick`, `SweepEntry`, `ChunkDone`
and `SweepDone`: a chunk examines at most `Chunk` entries with the lock held, one per step.
An entry is its event time and expiry; the order of use is kept since a sweep takes from its
front. `ideal` records the claims as if none were ever swept, `newest` the newest pose ever
kept. Both caches have one code for the sweep; as they share nothing, a behaviour sweeps one.
The clock moves only while the worker has no message. In the code time passes between the
check of the lag (`scene_controller.py:660`) and the claim (`:1202`), so that a sweep can take
out a claim which the message in hand should still meet; the properties speak of messages that
are yet to be received.
One scene; coordinates, validation and `invalidate` (a scene deleted or its output changed)
are left out.

### 2.7 RemoteChildren

The parent's MQTT thread runs one reconcile at a time: `ReadScene` per scene with the
construction of controllers and their synchronous first connection, `Commit`, `StopChild`
and `StartChild`, `Finish`. Each child's loop changes its flag (`ChildTurns`) and then puts
its status on the bounded queue (`ChildTells`); `Work` publishes it. A question for the status
is answered on the parent's thread past the queue, in two steps: `AskStatus` reads the flag,
`Answer` publishes what was read, and loops and worker go on in between. Everything is
published with QoS 0: it is not heard while the parent is not connected, and may get lost as
the connection breaks (`heard` in `Publish`). `amiss` records the children whose last word
was lost, or was an answer that was out of date when published: of these `StatusSettles`
claims nothing until the next word. A controller is an index into all that were ever made, so that
loops of a replaced one show. A host that makes the constructor raise (`BadHosts`) is in the
model; the run has none, as with one the code leaves a child that no later update can
connect (§ 5).

### 2.8 RegionEvents

`HandleSceneData(t)` is one message with the objects of one type: the histories
(`Ingest`), the comparison with what the last event left (`Previous`), the debounce shared
by all types, the event and the region's own topic. `held` tells whether what the last event
left behind still shares the object's history or refers to one that was dropped. Left out:
tripwires, sensors, ids renamed by ReID, messages older than the last.

### 2.9 SceneRegistration

Handlers (`Patch`, `Post`) run one at a time on the HTTP or MQTT thread; a run is a thread
with the steps `Acquire`, `Build`, `List`, `Clear`, `Create`, `Mark`, `LoadMarkers`. The
lock of the runs is only looked at by the handlers (`StartRun`), and their reset of the
stored markers is outside it. A request to the Manager is a step, and may fail.

### 2.10 SourceMaps

A request is a transaction: it loads the scene (`Begin`), takes the row lock with its first
write (`LockScene`; `Conflict` where it does not wait), and commits (`Edit`, `RecordMesh`,
`RecordImage`, `Generate`, `Activate`, `Delete`, `Store`, `Drop`). Commit and release are one step, as
in the database. What `on_commit` schedules is `Examine` and `Remove`, two steps, since the
look at the references and the deletion are no transaction. `snap` is what the request
loaded before it had the lock: the code saves the whole row from it; only `Generate`, a mesh
made from the cameras, reads the row again with the lock held. The mesh belongs to no method,
so there is no default source after it; the poses it gives the cameras are left out.

### 2.11 CategoryTrackers

`TrackObjects` creates the thread of a category under the lifecycle lock; `CheckJoined` and
`Put` are apart since `_joined` is read without it. `PopAll`, `FeedCategory`, `FeedDone` and
`FeederStops` are the chunk processor, `Get`, `Tracked` and `End` a category's thread. In
`join()` every wait ends with the thread or with the deadline, so each is one step that is
always enabled. `FeedCategory` is one step: the look at the empty queue
(`time_chunking.py:107`) and the put (`:132`) are not apart, so a frame behind the sentinel of
`join()` does not occur here. It changes what is left in the queue of a thread that has ended,
not how many can be in it.

### 2.12 MqttSession

`Enter` reads the stop flag and `Count` increments the counter: the guard does both without
a lock. `SetConnected`, `Resubscribe`, `Arrive`, `HandleUpdate` are the callbacks, which the
library makes on one thread; `Load` to `Exit` are `main`. The session is clean, so what is
published without a subscription is lost. TLS, readiness and signals are left out.

## 3. Runs

| Run | Shows | Instance |
|---|---|---|
| `pipeline` | `FrameConservation`, `CameraOrder`, `DrainedWhenStopped`, `FeedSpec` (refinement), `StopTerminates`, `FramesSettle` | one camera in three scopes, two workers to stop one after the other, two messages, queue of one: the worker limit and the full queue are reached and one scope starves |
| `scene_cache` | `NoLiveTeardown`, `NoTrackerLeak`, `SceneMatchesData`, `ForcedSeesWrite`, `ViewSpec` (refinement) | two threads, two scenes, three writes, two invalidations, one failed fetch, one forced refresh |
| `scene_cache_live` | `LookupReturns`, `TeardownHappens` | two threads, one scene; fetches fail and constructions raise |
| `track_lifecycle` | `CountersMatch`, `ReliableIsEarned`, `NeverReused`, `NoEarlyDeath`, `UnseenTracksGo` | three tracks, limits 3, 1 and 2 frames, two births per frame |
| `reid_manager` | `GidUnique`, `ClaimsAfterProof`, `StagedIsTimed`, `HandedOverForGood` | two tracks, one with two lives, threshold of one crop, an empty database that fills |
| `ptz_gate` | `AdmittedWhileHeld`, `ValidPoseIsCurrent` | six ticks, three positions of which two are home, one message on the wire; in each behaviour one of seven scenarios of faults |
| `services` | `QueueBounded`, `ManagerHeld` (trackers), `HandlerOutlivesCalls` (session), `CalibrationNotOutdated`, `PendingIsServed` (calibration), `LoopsOwned`, `StatusSettles` (children), `ExitFollowsEntry` (region), `NothingObsolete` (registration), `ServicesSettle` (each of the six) | see `MCServices` |
| `sources` | `MapsServed`, `DefaultKept` (maps), `SweepNotSeen`, `PosesAdvance` (external), `LeftoversGo` (both) | an empty scene or one with a mesh, two requests at a time of three, two methods, one failure; two publishers of one id, three messages, a clock of four |
| `registration` | violation of `MarkedIsComplete` | two tags, two versions of the map, two runs |
| `region_lingers` | violation of `ShownSettles` | three objects of two types |
| `update_missed` | violation of `ConfigConverges` | two updates, two lost connections |
| `ptz_session` | violation of `DwellInOneSession` | a restart of the service while the consumer is not connected |

`pipeline` also checks `TypeOK`.

`MCServices` and `MCSources` extend several services that share no state. Their first state
chooses one (`part`), and only its variables move: the state space is the sum of the
services', not the product, and each behaviour is a behaviour of one service. `ServicesSettle`
and `LeftoversGo` say of each service where it comes to rest.

A definition commented "Mutant of X" is X with a plausible bug. It is used in no
specification; put in place of X it makes the property that `PROJECT.json` names under
`mutants` fail, which shows that the property depends on the code it is about.

### Bounds

- `MaxFrames` bounds the messages a pipeline receives. With the queue of one, the second
  message of a camera finds the queue full while the first is worked on, which is also what
  the order of two frames needs; with two workers the third scope meets the limit. What more
  messages, cameras and workers could do is proved (§ 4), liveness apart.
- `MaxWrites`, `MaxInvalidations`, `MaxFailures`, `MaxForced` and `MaxBuilt` bound the
  cache. Two invalidations are needed so that the second finds objects that still wait from
  the first. `MaxBuilt` stops further constructions. In the live run, with one scene, an
  object is constructed only by the first refresh after an invalidation, so at most two
  are: the bound of three never blocks a refresh there and can neither fake nor hide a
  thread that hangs.
- `MaxTracks` bounds the tracks ever created. The counters of `TrackLifecycle` saturate
  above the limits they are compared with, so the sequences of frames are not bounded.
- `MaxLives` bounds how often a number enters `active_ids`: twice is what a stale answer
  needs. `Disable` happens once, since further calls only advance the epoch. The number of
  gathered crops saturates at the threshold.
- PTZ: six ticks hold a settle interval, the detection latency, a move and the time after
  it; three positions let the camera come back near home. One message on the wire is enough
  since the retained ones are kept apart. A scenario allows the events that are hard
  together: a lost pose with a lost clock or with a refused sample, a restart, a save with a
  reconcile, a save with a failed and a periodic read.
- `services`: two changes on each side are needed so that the second comes while the first
  is worked on. `RemoteChildren` has one child of the first of two scenes, so that a request
  can fail before and after the child was read. `RegionEvents` has five moves: an object
  enters, leaves and returns while one of another type does too. `SceneRegistration` has two
  threads, the one with the lock and the one that waits for it. `MqttSession` has the update
  topic and one camera's.
- `sources`: two requests overlap, and a third changes what one of them loaded; a scene with
  a mesh at the start leaves all three for that.
  `MaxNow = 4` with a lifetime, a lag and a chunk of one lets an entry be kept, used, expire
  and be swept, and a late message come then.

### Fairness

- `TrackerPipeline`: weak fairness of the scheduler, of every worker and of `main` once it
  stops, and of the callback's loop over scopes. These are threads that run or wait on a
  condition that is signalled. Messages and the signal to stop have none.
- `SceneCache`: weak fairness of each thread that is in a call, and of the worker. No REST
  request is assumed to succeed; it is assumed to return, which the client's timeouts give.
- `TrackLifecycle`: weak fairness of `Frame`. The trackers are called at every chunk or
  message, with or without detections.
- `ReidManager` and `PtzGate` state no liveness: nothing in the code promises that a query
  or a write ends, or that a camera rests.
- `PtzCalibration`: the container starts the service again, and its refresh thread runs and
  wakes at its interval. Saves, notices, failed reads and crashes have none.
- `RemoteChildren`: the parent's MQTT thread, the loops and the worker go on. A notice is
  handled with strong fairness, as messages are handled in the order they come and questions
  cannot keep it waiting. Ending a loop is strongly fair: a child whose connection comes and goes is disconnected all the same,
  since `disconnect` keeps it from connecting again and then waits for the loop.
- `RegionEvents`: time goes on and the tracker sends messages of each type.
- `SceneRegistration`: notices are handled and the threads of runs go on.
- `CategoryTrackers`: every thread goes on; `join()` need not be called.
- `MqttSession`: the library reconnects, its thread and `main` go on.
- `SourceMaps`: requests end and the hooks after a commit run. `ExternalSource`: the clock,
  the worker and the timers go on.

In the composed runs a fairness condition is stated of a disjunction over the services
(`Fair1` …). `part` never changes, so in a behaviour of a service the disjunction is its own
action, and weak fairness of it is the service's condition. An action of the environment
occurs in none of them.

## 4. Proofs

TLAPS proves these for every value of the constants that meets the named assumptions of the
modules. Every invariant and every action property that a passing run checks is among them,
and so are the refinements of `FrameFeed` and of `DatabaseView`.

| Theorem | Module | States |
|---|---|---|
| `TypeCorrect`, `FramesInOrder` | `TrackerPipelineProofs` | `TypeOK`, `CameraOrder` |
| `SentinelEndsQueue`, `NothingAbandoned` | `TrackerPipelineConservation` | a worker's queue ends in its one sentinel (`SentinelLast`); `DrainedWhenStopped` |
| `NoFrameLeaks`, `FeedImplemented` | `TrackerPipelineConservation` | `FrameConservation`; `Spec => FeedSpec` |
| `TypeCorrect`, `LiveScenesKept`, `ForcedIsFresh` | `SceneCacheProofs` | `TypeOK`, `NoLiveTeardown`, `ForcedSeesWrite` |
| `NeverStale` | `SceneCacheProofs` | what fills the cache was read since the last invalidation (`CacheFresh`), also when constructions raise |
| `NoTrackerForgotten`, `CacheMatchesFetch`, `ViewImplemented` | `SceneCacheProofs` | `NoTrackerLeak`, `SceneMatchesData` and `Spec => ViewSpec`, if no construction raises |
| `RaisesForget` | `SceneCacheProofs` | with constructions that raise: a step forgets a tracker only in a usable cache in which one raises, or has raised and left it half filled |
| `MapsAgree`, `ReliabilityEarned`, `IdsAreFresh`, `NoTrackDiesEarly` | `TrackLifecycleProofs` | `CountersMatch`, `ReliableIsEarned`, `NeverReused`, `NoEarlyDeath` |
| `TypesHold`, `GidsUnique`, `StagedTimed`, `ClaimsProved`, `HandedOver` | `ReidManagerProofs` | `TypeOK`, `GidUnique`, `StagedIsTimed`, `ClaimsAfterProof`, `HandedOverForGood` |
| `NeverOutdated`, `NoticeIsServed`, `ChainNeverOutdated` | `PtzGateProofs` | `CalibrationNotOutdated` and `PendingIsServed` of `PtzCalibration`; the first also in the whole chain |
| `PosesAreCurrent`, `AdmittedHeld` | `PtzGateProofs` | `ValidPoseIsCurrent`; `AdmittedWhileHeld`, unless a restart of the service and a new subscription come together |
| `ClaimsOutliveMessages`, `PosesOutliveMessages` | `SourcesProofs` | `SweepNotSeen`, `PosesAdvance` |
| `FilesServed`, `SourceKept` | `SourcesProofs` | `MapsServed`, `DefaultKept` |
| `ManagerHeldHolds`, `QueueBoundedHolds` | `ServicesProofs` | `ManagerHeld`; `QueueBounded` for any finite set of messengers |
| `HandlerSafe` | `ServicesProofs` | `HandlerOutlivesCalls` |
| `ChildLoopsOwned`, `StatusesSettle` | `ServicesProofs` | `LoopsOwned` while every controller has a client; `StatusSettles` as long as every controller has a client: it says itself which children it leaves out (5.15) |
| `ExitsAreEarned` | `ServicesProofs` | `ExitFollowsEntry` |
| `NoObsoleteMarkers` | `ServicesProofs` | `NothingObsolete` |

The services of `MCServices` and `MCSources` share no state, so their theorems are about the
specification of each (`TrackersSpec`, `RegionSpec`, …); the run checks the same formulas in
the disjoint union.

The hypotheses are those under which the code keeps its promise; without each there is a
behaviour of the code that breaks the property, described in § 5 (no construction raises: 6;
controllers that have a client: 11; no restart together with a new subscription: 4).

The inductive invariants, and what each adds to the property:

- `OrderInv`: the stages of a scope are ordered, **and** nothing in flight is newer than the
  last message received, and the batch in the callback's hand is newer than all that is in
  the scopes it still goes to. Without the last two a step that adds a batch could break the
  order of a state that looks right.
- `ConservationInv`: rests on `OrderInv`, since two stages must not hold batches of one
  message.
- `ShutdownInv`: the sentinels come only after the scheduler has left with an empty
  snapshot, and from then on the queue of every running worker ends in its one sentinel.
- `FeedImplemented` needs no invariant beyond these. The feed's pending frames are the source
  and number of every batch in flight (`InFlight`: buffer, snapshot, queue, work place). An
  `AddBatch`, with what it overwrites in the buffer, is a `Send`; a drop is a `Lose`;
  `Process` is a `Deliver`; every other step, the shutdown included, stutters. That a new
  frame is newer than all its camera has pending, and that what is delivered is older than
  what stays, is `OrderInv`.
- `FreshInv`: a fetch that may still be installed (its epoch is current) was made after the
  last invalidation. `OrderInv` adds that it is not older than what it replaces, because no
  other refresh has installed anything since it was made (`OneRefresh`).
- `ViewImplemented`: the abstract view is the data of the cached objects, and by
  `SceneMatchesData` that is the fetch installed last, as a whole. A write is a `Change`, an
  invalidation an `Invalidate`, `Apply` is the `Load` of its fetch; every other step stutters.
- `RetiredInv`: only the thread that is about to hand retired objects over holds any, so an
  installation overwrites none. With it `RaisesForget` goes through step by step, and
  `NoTrackerForgotten` follows where nothing raises.
- `TeardownInv`: every object in use or given up has been constructed, so the numbers of the
  next refresh's objects are fresh; `LeakInv` adds that nothing waits for a refresh while the cache is valid.
- `MatchInv`: no object is held for two scenes, in the cache or among what waits for a
  refresh, and each was built from the data kept with it: a refresh reuses an object when
  that data is what it has fetched. `ForcedInv`: one refresh at a time; while a superseded
  fetch is under way the cache is not valid; the fetch that a forced refresh installs, and
  the one installed when it returns, are no older than its call.
- `TrackInv`: the maps of the manager, the counters against the real measurements, and that
  every track is numbered up to `currentId`.
- `ProofInv`: whatever lets the publisher claim (a write's outcome, the flag, the policy it
  has read) implies that something was stored.
- `HandInv`: a track with a visible crop has been counted, asked or came after ReID was
  disabled, and what was offered because of a stop implies that the stop, which is sticky,
  has happened. `HandedOver` then follows from the check the worker makes under its lock.
- `CalibInv`: a read that will be applied was made after the last notice, since every notice
  makes a new generation, **and** a camera in the pending set will be read again: what a
  second notice relies on when it finds the camera there and does not queue it.
- `HeldInv`: the dwell is an interval in which the camera rested (`TrackerInv`), what the
  source knows is of the present session and the place where it took it (`SourceInv`), and
  the next pose can only extend the dwell if it tells of rest since the dwell's last pose.
  That last part takes two forms. In one run of the service (`OneRun`) every pose that is
  retained, on the wire or with the tracker carries another number, and the number after
  the last one published is the next (`Linked`, `OfSession`). With several runs numbers come
  again; then a consumer that stays connected is safe by order (`Connected`): between two
  poses of different runs there is the status of the newer run, whose time is not before the
  older pose and before every valid newer one, and it ends the dwell.
- `MapsInv`: a file that a row, the scene or a request will still refer to is on the disk
  and not about to be removed, no file belongs to two of them, and the scene, as well as
  what a request has read of it, has a default source that exists or a map of its own.
- `StoresKept`: a message the worker holds is not older than the lag, so what the sweep took
  out, being older than lifetime and lag, is nothing the message could be compared with.
- `ManagerInv`: a manager that is shut down belongs to a thread that has ended, **and**
  `join()` only looks at threads that were made. Without the second it could shut down the
  manager of a category whose thread a message is still to make.
- `QueueInv`: a messenger between its look at the queue and its put counts as a frame that
  is there already, and without chunks the processor has nothing to hand on.
- `HandlerInv`: the callback is set exactly while the handler lives, and one that runs the
  handler has found it set: it holds the mutex that taking it away needs.
- `KidsInv`: outside the second half of an update a running loop belongs to the present
  controller of its child, and in it to that or to one still to be stopped; those still to
  be started do not run.
- `RegionInv`: what the history of an object says of the region, and what the last event
  left behind, is backed by an entry that was published.
- `StatusKept`: of every child but those in `amiss`, what will be shown of it when its works
  are published (the status of the last of them, or what is shown now) is true, or a loop is
  about to put the truth on the queue. An answer given in time is true when it is published,
  and if works of the child still wait they have the last word anyway.
- `RunsInv`: one run at a time is past the lock; while it deletes, it has listed every stored
  marker, and once it creates, every stored marker is of the map it was built from.

Only model-checked: liveness (`StopTerminates`, `FramesSettle`, `LookupReturns`,
`TeardownHappens`, `UnseenTracksGo`, `ServicesSettle`, `LeftoversGo`), since the prover has
no rule for fairness and `ENABLED`, and the runs that expect a violation.

## 5. Where code and documents disagree

Each of the first four is shown by a run.

1. `MarkedIsComplete` (`registration`). A handler resets the stored markers of a scene whose
   map is new without the lock of the runs, and starts no run while one holds it
   (`auto_camera_calibration_api.py:579`). Markers that the run has just stored are deleted,
   and the run goes on to set `map_processed`: the scene counts as registered without all
   its markers, although `atag_camera_calibration_controller.py:116-118` promises that
   `map_processed` is set only after a full replacement.
2. `ShownSettles` (`region_lingers`). What an object's history says of its region is taken
   back only together with an event, and events of all types share the debounce time
   (`region.py:98`). An object that leaves within it, and is then lost or is not among what
   the last event left behind, goes on being published as inside, although
   `analytics/README.md:22` says the topic has those currently inside.
3. `ConfigConverges` (`update_missed`). The scenes are loaded before the update topic is
   subscribed, and the session is clean: an update published in between, or while the
   connection is down, is never seen, although `docs/design/tracker-service.md:235-236`
   says the service restarts on any change.

4. `DwellInOneSession` (`ptz_session`). A consumer that reconnects keeps its dwell and
   subscribes in the arbitrary order of a set (`scene_controller.py:1580`). When the
   positioning service has restarted meanwhile, its retained pose may come before its
   retained status, and as a pose carries no session it extends the dwell of the former one,
   if its number is the next, until the status arrives; `positioning_dwell.py:24-26` says the
   dwell resets on a change of the resolver's session.

The following were met while modelling. The models contain the code as it is; no run states
them as a property any more.

5. Batches of a chunk are sorted by arrival, and the tracks get the time of the last
   (`time_chunk_scheduler.cpp:204`, `tracking_worker.cpp:275`), although
   `tracking_types.hpp:76` and `docs/implementation.md:212` promise an order by timestamp:
   tracks can be stamped older than a detection they contain.
6. When building one scene raises, the cache counts as filled with the scenes built before
   (`cache_manager.py:139`); threads that waited take it over although `cache_manager.py:89`
   says a failed refresh makes them fetch themselves. In a usable cache the trackers of the
   scenes that were deleted are forgotten at once, and at the next invalidation those of the
   scenes that were not reached. `RaisesForget` says that none is forgotten in another way.
7. A suspended track that expires leaves its entry in `mNumberOfTrackedFrames`
   (`TrackManager.cpp:75`) for ever.
8. After a confirmed and then a failed write, new tracks are published as `will_enroll`
   although nothing here writes any more (`scene_controller.py:542`), so no process enrolls
   them; the deployment guide (line 226) promises claims only for tracks that own a write.
9. An answer is matched to a track by its number only (`uuid_manager.py:949`). A track that
   was pruned and came back takes the answer of its former life, and its own query's match
   is then refused as held by "another active track", which is the track itself.
10. The cached projection of a PTZ camera is keyed by the pose's sequence number and outlives
    the session whose numbers they are (`ptz/registry.py:314`): after a restart of the
    positioning service a pose with the same number is projected with the former matrices.
11. A child whose controller cannot be constructed is in `subscribed_children` without a
    client; starting its loop raises and ends the update before the loops after it are
    started (`scene_controller.py:1601-1608`), and later updates keep it as it is. Loops of
    controllers that were replaced can then go on with no owner, which is why `LoopsOwned`
    is proved while every controller has a client.
12. The guard of the MQTT callbacks reads the stop flag before it counts itself
    (`callback_guard.hpp:31`): `disconnect()` can see no callback under way while one goes
    on. No message reaches a destroyed handler all the same (`HandlerOutlivesCalls`), since
    the callback is unset under its mutex before.
13. Two edits of one scene that overlap each save the whole row: the thumbnail of the one
    that loses stays on the disk unreferenced, or the scene names the one that was swept.
    `test_source_maps.py:544` says a thumbnail survives until its last reference is gone,
    and tests the sequential case.

14. `views.py:1252` finalizes a generated mesh unless `scene.mesh_state` is complete, but
    `Scene` has no such field: every poll that finds the job complete, from a second page
    say, stores the mesh again. The cameras of the job get their poses anew, but a camera
    without one is moved by the alignment each time (`mesh_generator.py:716`), although
    `finalizeMeshFromStatus` promises that "relative geometry stays consistent".

15. `publishStatus` reads the flag of a child and then publishes on the parent's thread
    (`child_scene_controller.py:149-152`). When the child disconnects in between, and the
    worker publishes that first, the outdated "connected" is the last word on it. A status
    that a full queue drops (`scene_controller.py:589`), or that is published while the
    parent is not connected (QoS 0, not retained), is not said again either. The page then
    shows the wrong icon until the child's next status or the next question, which it asks
    when it connects (`sscape.js:181-190`). `StatusSettles` says that it goes wrong in no
    other way, and not beyond the next word.

## 6. Plan

Done, in this order: what carries every frame (`TrackerPipeline` with `FrameFeed`), what
every message needs (`SceneCache`), what gives objects their identity (`TrackLifecycle`,
`ReidManager`); then what admits detections of moving cameras (the PTZ chain), the two ends
of a frame's way (`RegionEvents`, `ExternalSource`), the services that reconcile
(`RemoteChildren`, `SceneRegistration`, `SourceMaps`), and the threads between them
(`CategoryTrackers`, `MqttSession`).

The proofs followed the same order: first the invariants and action properties of each
module, then the refinement of `FrameFeed`, `AdmittedWhileHeld`, whose invariant spans the
whole PTZ chain, and last the refinement of `DatabaseView`.

What is proved under a hypothesis needs it: § 4 names the behaviours that break it.

Still to be modelled: the ReID service's matcher (its executor against renames and pruning),
shutdown and the purge owner of `UUIDManager`, the composition of `TrackLifecycle` with
`ReidManager` (a track that is not reliable for a frame loses its identity), calibration of
single cameras, the poses a generated mesh gives the cameras.

## 7. Not modelled

`PROJECT.json` lists every component with the reason.

- Numeric code: filters, matching and fusion of the robot vision library, geometry of
  `scene_common`, pose arithmetic, detection of tags, clustering, vision models of mapping.
  It appears as a free choice of an action, or not at all.
- Most of the Manager: its views, forms and serializers validate one request and write one
  row in a transaction; there is no state between two steps. The part with several
  steps, files beside rows and locks is `SourceMaps`. The Manager's answers and notices are
  environment in `SceneCache`, `PtzCalibration`, `RemoteChildren` and `SceneRegistration`.
- `tools/`, evaluation harnesses, download scripts, DL Streamer scripts, charts and sample
  data: programs that run once, from start to end, on files.
- Publishing, logging, metrics, tracing, schema checks and configuration parsing of every
  service.

These are by far the most of the repository's lines, and the share of lines that the models
stand for is small for that reason: the parts in which steps of several actors meet are a few
thousand lines of about seventy thousand.

## 8. Running

    tlc -workers 2 -config MCSceneCache.cfg MCSceneCache
    tlc -workers 2 -config MCServices.cfg MCServices
    tlapm SceneCacheProofs.tla
