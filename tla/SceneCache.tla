----------------------------- MODULE SceneCache -----------------------------
(***************************************************************************)
(* CacheManager (scene_common/src/scene_common/cache_manager.py): the      *)
(* scenes a controller or an analytics service keeps in memory.            *)
(*                                                                         *)
(* Message threads look scenes up; a lookup that finds the cache empty     *)
(* refreshes it.  One refresh runs at a time: it reads the manager's       *)
(* database over REST without the lock and installs the result under it,   *)
(* unless invalidate() came in between.  Scenes that were rebuilt or       *)
(* deleted are retired: a worker thread joins their trackers.              *)
(*                                                                         *)
(* The data of a scene is abstracted to the number of the write that       *)
(* stored it, 0 for a scene that does not exist.  A Scene object (with its *)
(* tracker threads) is the number of its construction.                     *)
(***************************************************************************)
EXTENDS Integers, FiniteSets

CONSTANTS
  Threads,        \* threads that call the cache
  Scenes,         \* scene uids
  Kinds,          \* calls the threads make: "lookup", "force"
  BuildMayFail,   \* TRUE: Scene.deserialize may raise
  MaxWrites, MaxInvalidations, MaxFailures, MaxForced, MaxBuilt  \* bounds of the model

ASSUME ConfigAssumption ==
  /\ IsFiniteSet(Scenes)
  /\ Kinds \subseteq {"lookup", "force"}
  /\ BuildMayFail \in BOOLEAN
ASSUME BoundsAssumption ==
  /\ MaxWrites \in Nat
  /\ MaxInvalidations \in Nat
  /\ MaxFailures \in Nat
  /\ MaxForced \in Nat
  /\ MaxBuilt \in Nat

VARIABLES
  tracked,     \* the scenes own a tracker: in the controller, not in analytics
  db,          \* the manager's database: per scene, the write that stored it
  writes,      \* writes so far: the version of the database
  valid,       \* cached_scenes_by_uid is not None
  cached,      \* cached_scenes_by_uid: per scene its object, 0 if none
  indexed,     \* scenes found by their cameras' ids
  old,         \* _old_scene_cache
  signature,   \* _scene_signatures: per scene, the data it was last built from
  epoch,       \* _cache_epoch
  busy,        \* _refresh_in_progress
  built,       \* Scene objects constructed
  data,        \* per object, the data it holds
  pending,     \* _teardown_pending
  tearing,     \* the object the teardown worker joins, 0 if none
  worker,      \* the teardown worker runs
  torn,        \* objects whose tracker has been joined
  pc,          \* per thread, where it is
  call,        \* per thread, the call it is in
  tries,       \* per thread, refreshes a lookup has made
  asked,       \* per thread, version of the database when it forced a refresh
  myEpoch,     \* per thread, the epoch its refresh saw (0 outside a refresh)
  fetched,     \* per thread, what getScenes returned, and its version
  retired,     \* per thread, objects it has still to hand to the worker
  failures, forced,          \* counters of the bounds
  installed,                 \* history: the fetch that was installed last
  since                      \* history: what the database held since the last invalidate()

dbVars == <<tracked, db, writes>>
cacheVars == <<valid, cached, indexed, old, signature, built, data, installed>>
workerVars == <<pending, tearing, worker, torn>>
threadVars == <<pc, call, tries, asked, myEpoch, fetched, retired>>
vars == <<dbVars, cacheVars, epoch, busy, workerVars, threadVars, failures, forced, since>>

Versions == 0..MaxWrites
Objects == 1..MaxBuilt
Fetches == [found : [Scenes -> Versions], version : Versions]
Places == {"idle", "check", "enter", "wait", "fetch", "apply",
           "schedule", "release", "failed", "raise", "recheck", "read"}
EmptyFetch == [found |-> [s \in Scenes |-> 0], version |-> 0]
Cells == [Scenes -> 0..MaxBuilt]
NoCells == [s \in Scenes |-> 0]

\* What getScenes answers now.
Database == [found |-> db, version |-> writes]

CacheTypeOK ==
  /\ tracked \in BOOLEAN
  /\ db \in [Scenes -> Versions]
  /\ writes \in Versions
  /\ valid \in BOOLEAN
  /\ cached \in Cells
  /\ ~valid => cached = NoCells
  /\ indexed \in SUBSET Scenes
  /\ old \in Cells
  /\ signature \in [Scenes -> Versions]
  /\ epoch \in 0..MaxInvalidations
  /\ busy \in BOOLEAN
  /\ built \in 0..MaxBuilt
  /\ data \in [Objects -> Versions]
  /\ installed \in Fetches
  /\ since \in SUBSET Fetches

ThreadTypeOK ==
  /\ pending \in SUBSET Objects
  /\ tearing \in 0..MaxBuilt
  /\ worker \in BOOLEAN
  /\ torn \in SUBSET Objects
  /\ pc \in [Threads -> Places]
  /\ call \in [Threads -> {"lookup", "force"}]
  /\ tries \in [Threads -> 0..2]
  /\ asked \in [Threads -> Versions]
  /\ myEpoch \in [Threads -> 0..MaxInvalidations]
  /\ fetched \in [Threads -> Fetches]
  /\ retired \in [Threads -> SUBSET Objects]
  /\ failures \in 0..MaxFailures
  /\ forced \in 0..MaxForced

TypeOK == CacheTypeOK /\ ThreadTypeOK

\* The constructor has refreshed the cache from a database without scenes.
Init ==
  /\ tracked \in BOOLEAN
  /\ db = [s \in Scenes |-> 0]
  /\ writes = 0
  /\ valid = TRUE /\ cached = NoCells /\ indexed = {} /\ old = NoCells
  /\ signature = [s \in Scenes |-> 0]
  /\ epoch = 0 /\ busy = FALSE
  /\ built = 0 /\ data = [i \in Objects |-> 0]
  /\ pending = {} /\ tearing = 0 /\ worker = FALSE /\ torn = {}
  /\ pc = [t \in Threads |-> "idle"]
  /\ call = [t \in Threads |-> "lookup"]
  /\ tries = [t \in Threads |-> 0]
  /\ asked = [t \in Threads |-> 0]
  /\ myEpoch = [t \in Threads |-> 0]
  /\ fetched = [t \in Threads |-> EmptyFetch]
  /\ retired = [t \in Threads |-> {}]
  /\ failures = 0 /\ forced = 0
  /\ installed = EmptyFetch /\ since = {EmptyFetch}

Goto(t, where) == pc' = [pc EXCEPT ![t] = where]

-----------------------------------------------------------------------------
(* The manager, and the command that tells the service of a change.         *)

\* A user creates or changes scene s, or deletes it.
Write(s, value) ==
  /\ writes < MaxWrites
  /\ value \in {0, writes + 1}
  /\ value # db[s]
  /\ db' = [db EXCEPT ![s] = value]
  /\ writes' = writes + 1
  /\ since' = since \cup {Database'}
  /\ UNCHANGED <<tracked, cacheVars, epoch, busy, workerVars, threadVars, failures, forced>>

\* invalidate(): the scenes in the cache wait in _old_scene_cache for the next
\* refresh; those that wait there already stay when the cache is empty.
Invalidate ==
  /\ epoch < MaxInvalidations
  /\ epoch' = epoch + 1
  /\ old' = IF valid THEN cached ELSE old
  /\ valid' = FALSE
  /\ cached' = NoCells
  /\ indexed' = {}
  /\ since' = {Database}
  /\ UNCHANGED <<dbVars, signature, built, data, installed, busy, workerVars,
                 threadVars, failures, forced>>

-----------------------------------------------------------------------------
(* Lookups and refreshes.                                                   *)

\* sceneWithID and the like call checkRefresh; refreshScenes(force=True) goes
\* straight to the refresh.
Call(t, kind) ==
  /\ pc[t] = "idle"
  /\ kind = "force" => forced < MaxForced
  /\ forced' = IF kind = "force" THEN forced + 1 ELSE forced
  /\ Goto(t, IF kind = "force" THEN "enter" ELSE "check")
  /\ call' = [call EXCEPT ![t] = kind]
  /\ asked' = [asked EXCEPT ![t] = IF kind = "force" THEN writes ELSE 0]
  /\ UNCHANGED <<dbVars, cacheVars, epoch, busy, workerVars, tries, myEpoch, fetched,
                 retired, failures, since>>

\* checkRefresh, before the first refresh and once more after it.
Check(t) ==
  /\ pc[t] \in {"check", "recheck"}
  /\ Goto(t, IF valid \/ tries[t] = 2 THEN "read" ELSE "enter")
  /\ tries' = [tries EXCEPT ![t] = IF valid \/ @ = 2 THEN @ ELSE @ + 1]
  /\ UNCHANGED <<dbVars, cacheVars, epoch, busy, workerVars, call, asked, myEpoch,
                 fetched, retired, failures, forced, since>>

\* Where refreshScenes returns to.
After(t) == IF call[t] = "force" THEN "idle" ELSE "recheck"

\* The top of refreshScenes' loop: start a refresh or wait for the one that runs.
Enter(t) ==
  /\ pc[t] = "enter"
  /\ IF busy
     THEN Goto(t, "wait") /\ UNCHANGED <<busy, myEpoch>>
     ELSE /\ Goto(t, "fetch")
          /\ busy' = TRUE
          /\ myEpoch' = [myEpoch EXCEPT ![t] = epoch]
  /\ UNCHANGED <<dbVars, cacheVars, epoch, workerVars, call, tries, asked, fetched,
                 retired, failures, forced, since>>

\* Mutant of Wait: a forced refresh shares the result it waited for, too.
WaitAdopting(t) ==
  /\ pc[t] = "wait"
  /\ ~busy
  /\ Goto(t, IF valid THEN After(t) ELSE "enter")
  /\ UNCHANGED <<dbVars, cacheVars, epoch, busy, workerVars, call, tries, asked, myEpoch,
                 fetched, retired, failures, forced, since>>

\* The refresh it waited for is over: share its result if the cache is usable.
Wait(t) ==
  /\ pc[t] = "wait"
  /\ ~busy
  /\ Goto(t, IF call[t] # "force" /\ valid THEN After(t) ELSE "enter")
  /\ UNCHANGED <<dbVars, cacheVars, epoch, busy, workerVars, call, tries, asked, myEpoch,
                 fetched, retired, failures, forced, since>>

\* getScenes answers ...
Fetch(t) ==
  /\ pc[t] = "fetch"
  /\ Goto(t, "apply")
  /\ fetched' = [fetched EXCEPT ![t] = Database]
  /\ UNCHANGED <<dbVars, cacheVars, epoch, busy, workerVars, call, tries, asked, myEpoch,
                 retired, failures, forced, since>>

\* ... or fails: with an error reply, or by raising.
FetchFails(t) ==
  /\ pc[t] = "fetch"
  /\ failures < MaxFailures
  /\ failures' = failures + 1
  /\ \/ Goto(t, "failed")
     \/ Goto(t, "raise")
  /\ UNCHANGED <<dbVars, cacheVars, epoch, busy, workerVars, call, tries, asked, myEpoch,
                 fetched, retired, forced, since>>

\* Mutant of Current: nobody asks what happened during the fetch.
CurrentAlways(t) == TRUE

\* No invalidate() came in since the refresh began.
Current(t) == myEpoch[t] = epoch

\* invalidate() superseded the fetch: its results are dropped.
Superseded(t) ==
  /\ pc[t] = "apply"
  /\ ~Current(t)
  /\ Goto(t, "release")
  /\ UNCHANGED <<dbVars, cacheVars, epoch, busy, workerVars, call, tries, asked, myEpoch,
                 fetched, retired, failures, forced, since>>

Found(t) == {s \in Scenes : fetched[t].found[s] # 0}

\* Mutant of Reusable: a scene is reused whatever has become of its data.
ReusableBlindly(t, s) == old[s] # 0

\* _sceneForData: the object from before the invalidation is kept for a scene
\* without a tracker, or when its data has not changed.
Reusable(t, s) ==
  old[s] # 0 /\ (tracked => signature[s] = fetched[t].found[s])

\* Scenes of the set D for which a new object is constructed.
Rebuilt(t, D) == {s \in D : cached[s] = 0 /\ ~Reusable(t, s)}

\* An object for each scene of D: the live one, the reused one, or one of the
\* new ones in "fresh".
ObjectFor(t, fresh, s) ==
  IF cached[s] # 0 THEN cached[s] ELSE IF Reusable(t, s) THEN old[s] ELSE fresh[s]

\* The objects of a function from scenes to objects.
ObjectsIn(cells) == {cells[s] : s \in Scenes} \ {0}

\* Scenes of D whose object takes over the fetched data: all but those with a
\* tracker that are reused because the data is the same.
Stored(t, D) == {s \in D : cached[s] # 0 \/ ~tracked \/ ~Reusable(t, s)}

\* _applySceneResults for the scenes of D: deleted scenes leave the cache, those
\* of D get their object and are indexed.
Install(t, D, fresh) ==
  /\ cached' = [s \in Scenes |->
       IF s \in D THEN ObjectFor(t, fresh, s) ELSE IF s \in Found(t) THEN cached[s] ELSE 0]
  /\ indexed' = D
  /\ signature' = [s \in Scenes |->
       IF s \in D THEN fetched[t].found[s] ELSE IF s \in Found(t) THEN signature[s] ELSE 0]
  /\ data' = [i \in Objects |->
       IF \E s \in Stored(t, D) : cached'[s] = i
       THEN fetched[t].found[CHOOSE s \in Stored(t, D) : cached'[s] = i] ELSE data[i]]
  /\ built' = built + Cardinality(Rebuilt(t, D))
  /\ valid' = TRUE

\* The orders in which the scenes of R can be constructed.
Numbering(R) ==
  {f \in [Scenes -> 0..MaxBuilt] :
     /\ \A s \in Scenes : IF s \in R THEN f[s] \in (built + 1)..(built + Cardinality(R))
                                     ELSE f[s] = 0
     /\ \A i \in (built + 1)..(built + Cardinality(R)) : \E s \in R : f[s] = i}

\* Mutant of Retirees: the objects that waited for the refresh are forgotten.
RetireesOfCache(before) == before \ ObjectsIn(cached')

\* Mutant of Retirees: the objects that the cache has taken over are retired, too.
RetireesAll(before) == before \cup ObjectsIn(old)

\* _notCached: what was cached or waited to be rebuilt, and is not in the cache.
Retirees(before) == (before \cup ObjectsIn(old)) \ ObjectsIn(cached')

\* The result is installed under the lock; what it replaced is retired.
Apply(t) ==
  /\ pc[t] = "apply"
  /\ Current(t)
  /\ built + Cardinality(Rebuilt(t, Found(t))) <= MaxBuilt
  /\ \E fresh \in Numbering(Rebuilt(t, Found(t))) : Install(t, Found(t), fresh)
  /\ old' = NoCells
  /\ retired' = [retired EXCEPT ![t] = Retirees(ObjectsIn(cached))]
  /\ installed' = fetched[t]
  /\ Goto(t, "schedule")
  /\ UNCHANGED <<dbVars, epoch, busy, workerVars, call, tries, asked, myEpoch, fetched,
                 failures, forced, since>>

\* Scene.deserialize raises when the scenes of D are done and x is at its turn:
\* the exception leaves _applySceneResults, and the caller.
ApplyFails(t, D, x) ==
  /\ BuildMayFail
  /\ pc[t] = "apply"
  /\ Current(t)
  /\ D \subseteq Found(t)
  /\ x \in Rebuilt(t, Found(t)) \ D
  /\ built + Cardinality(Rebuilt(t, D)) <= MaxBuilt
  /\ \E fresh \in Numbering(Rebuilt(t, D)) : Install(t, D, fresh)
  /\ installed' = fetched[t]
  /\ Goto(t, "raise")
  /\ UNCHANGED <<dbVars, old, epoch, busy, workerVars, call, tries, asked, myEpoch,
                 fetched, retired, failures, forced, since>>

\* _scheduleTeardown: queue the retired objects, and start the worker if needed.
Schedule(t) ==
  /\ pc[t] = "schedule"
  /\ pending' = pending \cup retired[t]
  /\ worker' = (worker \/ retired[t] # {})
  /\ retired' = [retired EXCEPT ![t] = {}]
  /\ Goto(t, "release")
  /\ UNCHANGED <<dbVars, cacheVars, epoch, busy, tearing, torn, call, tries, asked,
                 myEpoch, fetched, failures, forced, since>>

\* refreshScenes is left, and with it its locals.
Leave(t) ==
  /\ Goto(t, IF pc[t] = "raise" THEN "idle" ELSE After(t))
  /\ tries' = [tries EXCEPT ![t] = IF pc[t] = "raise" THEN 0 ELSE @]
  /\ myEpoch' = [myEpoch EXCEPT ![t] = 0]
  /\ fetched' = [fetched EXCEPT ![t] = EmptyFetch]
  /\ UNCHANGED <<dbVars, cacheVars, epoch, workerVars, call, asked, retired, failures,
                 forced, since>>

\* Mutant of Release: an exception skips the reset of _refresh_in_progress.
ReleaseOnReturn(t) ==
  /\ pc[t] \in {"release", "failed", "raise"}
  /\ busy' = (busy /\ pc[t] = "raise")
  /\ Leave(t)

\* The finally clause: the refresh is over and the waiters are notified.
Release(t) ==
  /\ pc[t] \in {"release", "failed", "raise"}
  /\ busy' = FALSE
  /\ Leave(t)

\* The lookup returns what the cache holds then, nothing if it is empty again.
Read(t) ==
  /\ pc[t] = "read"
  /\ Goto(t, "idle")
  /\ tries' = [tries EXCEPT ![t] = 0]
  /\ UNCHANGED <<dbVars, cacheVars, epoch, busy, workerVars, call, asked, myEpoch, fetched,
                 retired, failures, forced, since>>

-----------------------------------------------------------------------------
(* _drainTeardowns, the worker.                                             *)

\* Take the next retired object.
Take(i) ==
  /\ worker
  /\ tearing = 0
  /\ i \in pending
  /\ pending' = pending \ {i}
  /\ tearing' = i
  /\ UNCHANGED <<dbVars, cacheVars, epoch, busy, worker, torn, threadVars, failures,
                 forced, since>>

\* _teardownScene: the tracker is joined, whether or not that raises.
TearDown ==
  /\ tearing # 0
  /\ torn' = torn \cup {tearing}
  /\ tearing' = 0
  /\ UNCHANGED <<dbVars, cacheVars, epoch, busy, pending, worker, threadVars, failures,
                 forced, since>>

\* Mutant of WorkerExit: the worker decides to end on an older look at the queue.
WorkerExitLate ==
  /\ worker
  /\ tearing = 0
  /\ worker' = FALSE
  /\ UNCHANGED <<dbVars, cacheVars, epoch, busy, pending, tearing, torn, threadVars,
                 failures, forced, since>>

\* Nothing is left: the worker forgets itself and ends, in one locked step.
WorkerExit ==
  /\ worker
  /\ tearing = 0
  /\ pending = {}
  /\ worker' = FALSE
  /\ UNCHANGED <<dbVars, cacheVars, epoch, busy, pending, tearing, torn, threadVars,
                 failures, forced, since>>

-----------------------------------------------------------------------------
Advance(t) ==
  \/ Check(t)
  \/ Enter(t)
  \/ Wait(t)
  \/ Fetch(t)
  \/ FetchFails(t)
  \/ Superseded(t)
  \/ Apply(t)
  \/ \E D \in SUBSET Scenes, x \in Scenes : ApplyFails(t, D, x)
  \/ Schedule(t)
  \/ Release(t)
  \/ Read(t)

Worker == (\E i \in Objects : Take(i)) \/ TearDown \/ WorkerExit

Next ==
  \/ \E s \in Scenes, value \in Versions : Write(s, value)
  \/ Invalidate
  \/ \E t \in Threads, kind \in Kinds : Call(t, kind)
  \/ \E t \in Threads : Advance(t)
  \/ Worker

Spec == Init /\ [][Next]_vars

(***************************************************************************)
(* Threads that are in a call go on with it, and so does the worker.       *)
(***************************************************************************)
FairSpec ==
  /\ Spec
  /\ \A t \in Threads : WF_vars(Advance(t))
  /\ WF_vars(Worker)

-----------------------------------------------------------------------------
(* Properties.                                                              *)

\* Objects whose tracker is being given up, or has been.
Doomed == pending \cup ({tearing} \ {0}) \cup torn \cup UNION {retired[t] : t \in Threads}

\* A Scene object that lookups can return, or that the next refresh may bring
\* back, is never handed to the teardown worker (cache_manager.py:229): a live
\* scene would lose its tracker threads.
NoLiveTeardown == (ObjectsIn(cached) \cup ObjectsIn(old)) \cap Doomed = {}

\* Every Scene object ever constructed is cached, waits for the next refresh or
\* is on its way to the teardown worker: no tracker is left running unreachable
\* (cache_manager.py:153).
NoTrackerLeak == (1..built) \subseteq (ObjectsIn(cached) \cup ObjectsIn(old) \cup Doomed)

\* The cache holds exactly the scenes of the last fetch, each can be found by its
\* cameras, and each object holds that scene's data, whether it was rebuilt,
\* updated or reused (cache_manager.py:190).
SceneMatchesData ==
  valid => \A s \in Scenes :
    /\ s \in indexed <=> installed.found[s] # 0
    /\ cached[s] # 0 <=> installed.found[s] # 0
    /\ cached[s] # 0 => data[cached[s]] = installed.found[s]

\* A forced refresh that did not fail leaves nothing in the cache that was read
\* before it was asked for: "a refresh requested after a write never adopts a
\* result fetched before it" (cache_manager.py:92).
ForcedSeesWrite ==
  [][\A t \in Threads :
       /\ call[t] = "force"
       /\ pc[t] \in {"release", "wait"}
       /\ pc'[t] = "idle"
       /\ valid'
       => installed'.version >= asked[t]]_vars

\* The scenes that lookups find, with the data of their objects.
Held ==
  [found |-> [s \in Scenes |-> IF cached[s] = 0 THEN 0 ELSE data[cached[s]]],
   version |-> installed.version]

View == INSTANCE DatabaseView WITH
  Data <- Versions, db <- Database, view <- IF valid THEN {Held} ELSE {}

\* The cache implements the view of the database that DatabaseView promises: what
\* lookups find is one content that the database had since the last invalidation,
\* whatever fetch was under way then (cache_manager.py:121), whichever objects were
\* reused, and no refresh replaces it by an older one.
ViewSpec == View!Spec

\* Every lookup returns, whatever fetch fails and whatever construction raises.
LookupReturns == \A t \in Threads : pc[t] # "idle" ~> pc[t] = "idle"

\* What was retired is torn down in the end: the worker that ends and the refresh
\* that starts one never miss each other (cache_manager.py:250, 260).
TeardownHappens == \A i \in Objects : i \in Doomed ~> i \in torn

=============================================================================
