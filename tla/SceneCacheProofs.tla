-------------------------- MODULE SceneCacheProofs --------------------------
(***************************************************************************)
(* Proofs about SceneCache, for any threads, scenes and bounds.            *)
(***************************************************************************)
EXTENDS SceneCache, FiniteSetTheorems, TLAPS

-----------------------------------------------------------------------------
(* What an application of fetched results leaves.                           *)

\* The number of scenes to rebuild is a natural number.
LEMMA RebuiltCount ==
  ASSUME NEW t, NEW D \in SUBSET Scenes
  PROVE  Rebuilt(t, D) \subseteq Scenes /\ Cardinality(Rebuilt(t, D)) \in Nat
<1>1. Rebuilt(t, D) \subseteq Scenes
  BY DEF Rebuilt
<1>2. IsFiniteSet(Rebuilt(t, D))
  BY <1>1, FS_Subset, ConfigAssumption
<1> QED BY <1>1, <1>2, FS_CardinalityType

\* Install keeps the cache well typed.
LEMMA InstallType ==
  ASSUME CacheTypeOK, ThreadTypeOK, NEW t \in Threads, NEW D \in SUBSET Scenes,
         built + Cardinality(Rebuilt(t, D)) <= MaxBuilt,
         NEW fresh \in Numbering(Rebuilt(t, D)), Install(t, D, fresh)
  PROVE  /\ cached' \in Cells
         /\ indexed' \in SUBSET Scenes
         /\ signature' \in [Scenes -> Versions]
         /\ data' \in [Objects -> Versions]
         /\ built' \in 0..MaxBuilt
         /\ valid' = TRUE
<1>1. fresh \in Cells
  BY DEF Numbering, Cells
<1>2. cached' \in Cells
  <2>1. cached' = [s \in Scenes |->
          IF s \in D THEN ObjectFor(t, fresh, s) ELSE IF s \in Found(t) THEN cached[s] ELSE 0]
    BY DEF Install
  <2>2. \A s \in Scenes : /\ cached[s] \in 0..MaxBuilt
                         /\ old[s] \in 0..MaxBuilt
                         /\ fresh[s] \in 0..MaxBuilt
    BY <1>1 DEF CacheTypeOK, Cells
  <2>3. \A s \in Scenes : ObjectFor(t, fresh, s) \in 0..MaxBuilt
    BY <2>2 DEF ObjectFor
  <2>4. 0 \in 0..MaxBuilt
    BY BoundsAssumption
  <2> QED BY <2>1, <2>2, <2>3, <2>4 DEF Cells
<1>3. fetched[t].found \in [Scenes -> Versions]
  BY DEF ThreadTypeOK, Fetches
<1>4. signature' \in [Scenes -> Versions]
  <2>1. signature' = [s \in Scenes |->
          IF s \in D THEN fetched[t].found[s] ELSE IF s \in Found(t) THEN signature[s] ELSE 0]
    BY DEF Install
  <2>2. 0 \in Versions /\ signature \in [Scenes -> Versions]
    BY BoundsAssumption DEF Versions, CacheTypeOK
  <2> QED BY <1>3, <2>1, <2>2
<1>5. data' \in [Objects -> Versions]
  <2> DEFINE holder(i) == CHOOSE s \in Stored(t, D) : cached'[s] = i
  <2>1. ASSUME NEW i \in Objects, \E s \in Stored(t, D) : cached'[s] = i
        PROVE  holder(i) \in Scenes
    <3>1. holder(i) \in Stored(t, D)
      BY <2>1
    <3> QED BY <3>1 DEF Stored
  <2> HIDE DEF holder
  <2>2. data' = [i \in Objects |-> IF \E s \in Stored(t, D) : cached'[s] = i
                                   THEN fetched[t].found[holder(i)] ELSE data[i]]
    BY DEF Install, holder
  <2>3. \A i \in Objects : data[i] \in Versions
    BY DEF CacheTypeOK
  <2> QED BY <1>3, <2>1, <2>2, <2>3
<1>6. built' \in 0..MaxBuilt
  BY RebuiltCount, BoundsAssumption DEF Install, CacheTypeOK
<1> QED BY <1>2, <1>4, <1>5, <1>6 DEF Install

\* The objects found in cells of the cache are objects.
LEMMA ObjectsType ==
  ASSUME NEW cells \in Cells
  PROVE  ObjectsIn(cells) \in SUBSET Objects
  BY BoundsAssumption DEF ObjectsIn, Cells, Objects

-----------------------------------------------------------------------------
(* Type correctness.                                                        *)

\* Init establishes the type invariant.
LEMMA InitType == Init => TypeOK
<1> SUFFICES ASSUME Init PROVE TypeOK
  OBVIOUS
<1>1. EmptyFetch \in Fetches /\ {EmptyFetch} \in SUBSET Fetches
  BY BoundsAssumption DEF EmptyFetch, Fetches, Versions
<1>2. 0 \in Versions /\ 0 \in 0..MaxBuilt /\ 0 \in 0..MaxInvalidations
  BY BoundsAssumption DEF Versions
<1>3. NoCells \in Cells
  BY <1>2 DEF Cells, NoCells
<1>4. CacheTypeOK
  BY <1>1, <1>2, <1>3 DEF Init, CacheTypeOK
<1>5. /\ tries \in [Threads -> 0..2]
      /\ failures \in 0..MaxFailures
      /\ forced \in 0..MaxForced
  BY BoundsAssumption DEF Init
<1>6. ThreadTypeOK
  BY <1>1, <1>2, <1>5 DEF Init, ThreadTypeOK, Places
<1> QED BY <1>4, <1>6 DEF TypeOK

\* What the manager's database holds is what a fetch may answer.
LEMMA DatabaseType == CacheTypeOK => Database \in Fetches
  BY DEF CacheTypeOK, Database, Fetches

\* A step that leaves the cache alone leaves it well typed.
LEMMA CacheSame ==
  CacheTypeOK /\ UNCHANGED <<dbVars, cacheVars, epoch, since>> /\ busy' \in BOOLEAN
    => CacheTypeOK'
  BY DEF CacheTypeOK, dbVars, cacheVars

\* A step of thread t that is not an application keeps the type invariant.
LEMMA ThreadStepType ==
  ASSUME TypeOK, NEW t \in Threads,
         \/ \E kind \in Kinds : Call(t, kind)
         \/ Check(t) \/ Enter(t) \/ Wait(t) \/ Fetch(t) \/ FetchFails(t)
         \/ Superseded(t) \/ Schedule(t) \/ Release(t) \/ Read(t)
  PROVE  TypeOK'
<1> CacheTypeOK /\ ThreadTypeOK
  BY DEF TypeOK
<1> USE BoundsAssumption, ConfigAssumption DEF Goto, Places
<1>1. CASE \E kind \in Kinds : Call(t, kind)
  <2>1. CacheTypeOK'
    BY <1>1, CacheSame DEF Call, CacheTypeOK
  <2>2. ThreadTypeOK'
    BY <1>1 DEF Call, CacheTypeOK, ThreadTypeOK, workerVars, Versions
  <2> QED BY <2>1, <2>2 DEF TypeOK
<1>2. CASE Check(t)
  <2>1. CacheTypeOK'
    BY <1>2, CacheSame DEF Check, CacheTypeOK
  <2>2. tries' \in [Threads -> 0..2]
    BY <1>2 DEF Check, ThreadTypeOK
  <2>3. ThreadTypeOK'
    BY <1>2, <2>2 DEF Check, ThreadTypeOK, workerVars
  <2> QED BY <2>1, <2>3 DEF TypeOK
<1>3. CASE Enter(t)
  <2>1. CacheTypeOK'
    BY <1>3, CacheSame DEF Enter, CacheTypeOK
  <2>2. myEpoch' \in [Threads -> 0..MaxInvalidations]
    BY <1>3 DEF Enter, ThreadTypeOK, CacheTypeOK
  <2>3. ThreadTypeOK'
    BY <1>3, <2>2 DEF Enter, ThreadTypeOK, workerVars
  <2> QED BY <2>1, <2>3 DEF TypeOK
<1>4. CASE Wait(t)
  <2>1. CacheTypeOK'
    BY <1>4, CacheSame DEF Wait, CacheTypeOK
  <2>2. ThreadTypeOK'
    BY <1>4 DEF Wait, ThreadTypeOK, workerVars, After
  <2> QED BY <2>1, <2>2 DEF TypeOK
<1>5. CASE Fetch(t)
  <2>1. CacheTypeOK'
    BY <1>5, CacheSame DEF Fetch, CacheTypeOK
  <2>2. Database \in Fetches
    BY DatabaseType
  <2>3. ThreadTypeOK'
    BY <1>5, <2>2 DEF Fetch, ThreadTypeOK, workerVars
  <2> QED BY <2>1, <2>3 DEF TypeOK
<1>6. CASE FetchFails(t)
  <2>1. CacheTypeOK'
    BY <1>6, CacheSame DEF FetchFails, CacheTypeOK
  <2>2. ThreadTypeOK'
    BY <1>6 DEF FetchFails, ThreadTypeOK, workerVars
  <2> QED BY <2>1, <2>2 DEF TypeOK
<1>7. CASE Superseded(t)
  <2>1. CacheTypeOK'
    BY <1>7, CacheSame DEF Superseded, CacheTypeOK
  <2>2. ThreadTypeOK'
    BY <1>7 DEF Superseded, ThreadTypeOK, workerVars
  <2> QED BY <2>1, <2>2 DEF TypeOK
<1>8. CASE Schedule(t)
  <2>1. CacheTypeOK'
    BY <1>8, CacheSame DEF Schedule, CacheTypeOK
  <2>2. ThreadTypeOK'
    BY <1>8 DEF Schedule, ThreadTypeOK
  <2> QED BY <2>1, <2>2 DEF TypeOK
<1>9. CASE Release(t)
  <2>1. CacheTypeOK'
    BY <1>9, CacheSame DEF Release, Leave, CacheTypeOK
  <2>2. EmptyFetch \in Fetches
    BY DEF EmptyFetch, Fetches, Versions
  <2>3. ThreadTypeOK'
    BY <1>9, <2>2 DEF Release, Leave, After, ThreadTypeOK, workerVars
  <2> QED BY <2>1, <2>3 DEF TypeOK
<1>10. CASE Read(t)
  <2>1. CacheTypeOK'
    BY <1>10, CacheSame DEF Read, CacheTypeOK
  <2>2. ThreadTypeOK'
    BY <1>10 DEF Read, ThreadTypeOK, workerVars
  <2> QED BY <2>1, <2>2 DEF TypeOK
<1> QED BY <1>1, <1>2, <1>3, <1>4, <1>5, <1>6, <1>7, <1>8, <1>9, <1>10

\* Applying fetched results, as a whole or in part, keeps the type invariant.
LEMMA ApplyType ==
  ASSUME TypeOK, NEW t \in Threads,
         Apply(t) \/ \E D \in SUBSET Scenes, x \in Scenes : ApplyFails(t, D, x)
  PROVE  TypeOK'
<1> CacheTypeOK /\ ThreadTypeOK
  BY DEF TypeOK
<1>1. CASE Apply(t)
  <2>1. Found(t) \in SUBSET Scenes
    BY DEF Found
  <2>2. PICK fresh \in Numbering(Rebuilt(t, Found(t))) : Install(t, Found(t), fresh)
    BY <1>1 DEF Apply
  <2>3. /\ cached' \in Cells /\ indexed' \in SUBSET Scenes
        /\ signature' \in [Scenes -> Versions] /\ data' \in [Objects -> Versions]
        /\ built' \in 0..MaxBuilt /\ valid' = TRUE
    BY <1>1, <2>1, <2>2, InstallType DEF Apply
  <2>4. old' \in Cells /\ installed' \in Fetches
    BY <1>1, BoundsAssumption DEF Apply, Cells, NoCells, ThreadTypeOK
  <2>5. CacheTypeOK'
    BY <1>1, <2>3, <2>4 DEF Apply, CacheTypeOK, dbVars
  <2>6. Retirees(ObjectsIn(cached)) \in SUBSET Objects
    BY ObjectsType DEF Retirees, CacheTypeOK
  <2>7. ThreadTypeOK'
    BY <1>1, <2>6 DEF Apply, Goto, Places, ThreadTypeOK, workerVars
  <2> QED BY <2>5, <2>7 DEF TypeOK
<1>2. ASSUME NEW D \in SUBSET Scenes, NEW x \in Scenes, ApplyFails(t, D, x)
      PROVE  TypeOK'
  <2>1. PICK fresh \in Numbering(Rebuilt(t, D)) : Install(t, D, fresh)
    BY <1>2 DEF ApplyFails
  <2>2. /\ cached' \in Cells /\ indexed' \in SUBSET Scenes
        /\ signature' \in [Scenes -> Versions] /\ data' \in [Objects -> Versions]
        /\ built' \in 0..MaxBuilt /\ valid' = TRUE
    BY <1>2, <2>1, InstallType DEF ApplyFails
  <2>3. installed' \in Fetches
    BY <1>2 DEF ApplyFails, ThreadTypeOK
  <2>4. CacheTypeOK'
    BY <1>2, <2>2, <2>3 DEF ApplyFails, CacheTypeOK, dbVars
  <2>5. ThreadTypeOK'
    BY <1>2 DEF ApplyFails, Goto, Places, ThreadTypeOK, workerVars
  <2> QED BY <2>4, <2>5 DEF TypeOK
<1> QED BY <1>1, <1>2

\* Writes, invalidations and the teardown worker keep the type invariant.
LEMMA OutsideType ==
  ASSUME TypeOK,
         \/ \E s \in Scenes, value \in Versions : Write(s, value)
         \/ Invalidate \/ Worker
  PROVE  TypeOK'
<1> CacheTypeOK /\ ThreadTypeOK
  BY DEF TypeOK
<1> USE BoundsAssumption
<1>1. ASSUME NEW s \in Scenes, NEW value \in Versions, Write(s, value)
      PROVE  TypeOK'
  <2>1. db' \in [Scenes -> Versions] /\ writes' \in Versions
    BY <1>1 DEF Write, CacheTypeOK, Versions
  <2>2. Database' \in Fetches
    BY <2>1 DEF Database, Fetches
  <2>3. since' \in SUBSET Fetches
    BY <1>1, <2>2 DEF Write, CacheTypeOK
  <2>4. CacheTypeOK'
    BY <1>1, <2>1, <2>3 DEF Write, CacheTypeOK, cacheVars
  <2>5. ThreadTypeOK'
    BY <1>1 DEF Write, ThreadTypeOK, workerVars, threadVars
  <2> QED BY <2>4, <2>5 DEF TypeOK
<1>2. CASE Invalidate
  <2>1. NoCells \in Cells
    BY DEF Cells, NoCells
  <2>2. epoch' \in 0..MaxInvalidations
    BY <1>2 DEF Invalidate, CacheTypeOK
  <2>3. CacheTypeOK'
    BY <1>2, <2>1, <2>2, DatabaseType DEF Invalidate, CacheTypeOK, dbVars
  <2>4. ThreadTypeOK'
    BY <1>2 DEF Invalidate, ThreadTypeOK, workerVars, threadVars
  <2> QED BY <2>3, <2>4 DEF TypeOK
<1>3. CASE Worker
  <2>1. CacheTypeOK'
    BY <1>3, CacheSame DEF Worker, Take, TearDown, WorkerExit, CacheTypeOK
  <2>2. /\ pending' \in SUBSET Objects /\ tearing' \in 0..MaxBuilt
        /\ worker' \in BOOLEAN /\ torn' \in SUBSET Objects
    <3>1. ASSUME NEW i \in Objects, Take(i)
          PROVE  tearing' \in 0..MaxBuilt /\ pending' \in SUBSET Objects
                 /\ worker' \in BOOLEAN /\ torn' \in SUBSET Objects
      BY <3>1 DEF Take, ThreadTypeOK, Objects
    <3>2. ASSUME TearDown
          PROVE  tearing \in Objects /\ tearing' = 0 /\ 0 \in 0..MaxBuilt
      BY <3>2 DEF TearDown, ThreadTypeOK, Objects
    <3>3. TearDown => torn' \in SUBSET Objects /\ UNCHANGED <<pending, worker>>
      BY <3>2 DEF TearDown, ThreadTypeOK
    <3>4. WorkerExit => worker' = FALSE /\ UNCHANGED <<pending, tearing, torn>>
      BY DEF WorkerExit
    <3> QED BY <1>3, <3>1, <3>2, <3>3, <3>4 DEF Worker, ThreadTypeOK
  <2>3. UNCHANGED <<threadVars, failures, forced>>
    BY <1>3 DEF Worker, Take, TearDown, WorkerExit
  <2>4. ThreadTypeOK'
    BY <2>2, <2>3 DEF ThreadTypeOK, threadVars
  <2> QED BY <2>1, <2>4 DEF TypeOK
<1> QED BY <1>1, <1>2, <1>3

\* Every step keeps the type invariant.
LEMMA NextType == TypeOK /\ [Next]_vars => TypeOK'
<1> SUFFICES ASSUME TypeOK, [Next]_vars PROVE TypeOK'
  OBVIOUS
<1>1. CASE UNCHANGED vars
  BY <1>1 DEF vars, TypeOK, CacheTypeOK, ThreadTypeOK, dbVars, cacheVars, workerVars, threadVars
<1> QED BY <1>1, ThreadStepType, ApplyType, OutsideType DEF Next, Advance

\* The state of the cache, of its callers and of the teardown worker stays well
\* typed: a lookup refreshes at most twice, an empty cache holds no scene.
THEOREM TypeCorrect == Spec => []TypeOK
<1>1. Init => TypeOK
  BY InitType
<1>2. TypeOK /\ [Next]_vars => TypeOK'
  BY NextType
<1> QED BY <1>1, <1>2, PTL DEF Spec

-----------------------------------------------------------------------------
(* Freshness.                                                               *)

\* A usable cache was filled with what the database held when the service was last
\* told of a change, or later.
CacheFresh == valid => installed \in since

\* A fetch that will be installed was answered after the last invalidation.
FreshInv ==
  /\ Database \in since
  /\ \A t \in Threads : myEpoch[t] <= epoch
  /\ \A t \in Threads : pc[t] = "apply" /\ Current(t) => fetched[t] \in since
  /\ CacheFresh

\* Every step keeps the freshness invariant.
LEMMA NextFresh == TypeOK /\ FreshInv /\ [Next]_vars => FreshInv'
<1> SUFFICES ASSUME TypeOK, FreshInv, [Next]_vars PROVE FreshInv'
  OBVIOUS
<1> DEFINE quiet == UNCHANGED <<db, writes, valid, installed, epoch, since>>
<1>0. /\ pc \in [Threads -> Places] /\ myEpoch \in [Threads -> Int]
      /\ fetched \in [Threads -> Fetches]
      /\ epoch \in Int
  <2>1. 0..MaxInvalidations \subseteq Int
    OBVIOUS
  <2> QED BY <2>1 DEF TypeOK, CacheTypeOK, ThreadTypeOK
\* Threads other than the one that steps, and all of them when none does.
<1>1. ASSUME NEW R \in SUBSET Threads, quiet,
             \A u \in Threads \ R : /\ pc'[u] = pc[u]
                                    /\ myEpoch'[u] = myEpoch[u]
                                    /\ fetched'[u] = fetched[u],
             \A u \in R : /\ myEpoch'[u] \in {myEpoch[u], epoch, 0}
                          /\ pc'[u] = "apply" => fetched'[u] = Database
      PROVE  FreshInv'
  <2>1. 0 <= epoch
    BY DEF TypeOK, CacheTypeOK
  <2>2. \A u \in Threads : myEpoch'[u] <= epoch'
    BY <1>0, <1>1, <2>1 DEF FreshInv
  <2>3. \A u \in Threads : pc'[u] = "apply" /\ myEpoch'[u] = epoch' => fetched'[u] \in since'
    BY <1>1 DEF FreshInv, Current
  <2>4. Database' \in since'
    BY <1>1 DEF FreshInv, Database
  <2> QED BY <1>1, <2>2, <2>3, <2>4 DEF FreshInv, CacheFresh, Current
<1>2. ASSUME NEW s \in Scenes, NEW value \in Versions, Write(s, value)
      PROVE  FreshInv'
  <2>1. since' = since \cup {Database'}
        /\ UNCHANGED <<valid, installed, epoch, pc, myEpoch, fetched>>
    BY <1>2 DEF Write, cacheVars, threadVars
  <2> QED BY <2>1 DEF FreshInv, CacheFresh, Current
<1>3. CASE Invalidate
  <2>1. /\ epoch' = epoch + 1 /\ valid' = FALSE /\ since' = {Database}
        /\ UNCHANGED <<db, writes, myEpoch, pc, fetched>>
    BY <1>3 DEF Invalidate, dbVars, threadVars
  <2>2. \A t \in Threads : myEpoch'[t] < epoch'
    BY <1>0, <2>1 DEF FreshInv
  <2>3. \A t \in Threads : ~Current(t)' /\ myEpoch'[t] <= epoch'
    BY <1>0, <2>1, <2>2 DEF Current
  <2>4. Database' \in since'
    BY <2>1 DEF Database
  <2> QED BY <2>1, <2>3, <2>4 DEF FreshInv, CacheFresh
<1>4. ASSUME NEW t \in Threads,
             \/ \E kind \in Kinds : Call(t, kind)
             \/ Check(t) \/ Enter(t) \/ Wait(t) \/ Fetch(t) \/ FetchFails(t)
             \/ Superseded(t) \/ Schedule(t) \/ Release(t) \/ Read(t)
      PROVE  FreshInv'
  <2>1. quiet
    BY <1>4 DEF Call, Check, Enter, Wait, Fetch, FetchFails, Superseded, Schedule, Release,
                Leave, Read, dbVars, cacheVars
  <2>2. \A u \in Threads \ {t} : /\ pc'[u] = pc[u]
                                 /\ myEpoch'[u] = myEpoch[u]
                                 /\ fetched'[u] = fetched[u]
    BY <1>0, <1>4 DEF Call, Check, Enter, Wait, Fetch, FetchFails, Superseded, Schedule,
                      Release, Leave, Read, Goto
  <2>3. myEpoch'[t] \in {myEpoch[t], epoch, 0}
    BY <1>0, <1>4 DEF Call, Check, Enter, Wait, Fetch, FetchFails, Superseded, Schedule,
                      Release, Leave, Read
  <2>4. pc'[t] = "apply" => fetched'[t] = Database
    BY <1>0, <1>4 DEF Call, Check, Enter, Wait, Fetch, FetchFails, Superseded, Schedule,
                      Release, Leave, Read, Goto, After
  <2> HIDE DEF quiet
  <2>5. {t} \in SUBSET Threads
    OBVIOUS
  <2> QED BY <1>1, <2>1, <2>2, <2>3, <2>4, <2>5
<1>5. ASSUME NEW t \in Threads,
             Apply(t) \/ \E D \in SUBSET Scenes, x \in Scenes : ApplyFails(t, D, x)
      PROVE  FreshInv'
  <2>1. /\ pc[t] = "apply" /\ Current(t) /\ installed' = fetched[t]
        /\ UNCHANGED <<db, writes, epoch, since, myEpoch, fetched>>
    BY <1>5 DEF Apply, ApplyFails, dbVars
  <2>2. \A u \in Threads : pc'[u] = "apply" => pc[u] = "apply"
    BY <1>0, <1>5 DEF Apply, ApplyFails, Goto
  <2>3. CacheFresh'
    BY <2>1 DEF FreshInv, CacheFresh
  <2> QED BY <2>1, <2>2, <2>3 DEF FreshInv, Current, Database
<1>6. ASSUME Worker \/ UNCHANGED vars
      PROVE  FreshInv'
  <2>1. quiet /\ UNCHANGED <<pc, myEpoch, fetched>>
    BY <1>6 DEF Worker, Take, TearDown, WorkerExit, vars, dbVars, cacheVars, threadVars
  <2> QED BY <2>1 DEF FreshInv, CacheFresh, Current, Database
<1> QED BY <1>2, <1>3, <1>4, <1>5, <1>6 DEF Next, Advance

\* Fetches are installed as long as they are current, by whomever and whenever.
LEMMA FreshInvHolds == Spec => []FreshInv
<1>1. Init => FreshInv
  BY DEF Init, FreshInv, CacheFresh, EmptyFetch, Database
<1> QED BY <1>1, NextFresh, TypeCorrect, PTL DEF Spec

\* What fills the cache was read after the last database update the service was
\* told of, whatever fetches were under way then, even when building raises.
THEOREM NeverStale == Spec => []CacheFresh
<1>1. FreshInv => CacheFresh
  BY DEF FreshInv
<1> QED BY <1>1, FreshInvHolds, PTL

-----------------------------------------------------------------------------
(* Retired scenes.                                                          *)

\* Scene objects that are in use, or given up, have been constructed.
Constructed == ObjectsIn(cached) \cup ObjectsIn(old) \cup Doomed \subseteq 1..built

TeardownInv == Constructed /\ NoLiveTeardown

\* A step that changes neither the cache nor what waits for a refresh, and gives
\* nothing up, keeps the invariant.
LEMMA TeardownSame ==
  ASSUME TeardownInv,
         UNCHANGED built,
         ObjectsIn(cached') \cup ObjectsIn(old') \subseteq ObjectsIn(cached) \cup ObjectsIn(old),
         Doomed' \subseteq Doomed
  PROVE  TeardownInv'
<1>1. ObjectsIn(cached)' = ObjectsIn(cached') /\ ObjectsIn(old)' = ObjectsIn(old')
  BY DEF ObjectsIn
<1> QED BY <1>1 DEF TeardownInv, Constructed, NoLiveTeardown

\* The objects of the cache after an installation were there before, waited for it,
\* or are new.
LEMMA InstallObjects ==
  ASSUME TypeOK, NEW t \in Threads, NEW D \in SUBSET Scenes,
         NEW fresh \in Numbering(Rebuilt(t, D)), Install(t, D, fresh)
  PROVE  /\ built' \in Nat /\ built <= built'
         /\ ObjectsIn(cached)' \subseteq ObjectsIn(cached) \cup ObjectsIn(old)
                                         \cup ((built + 1)..built')
<1>1. built \in Nat /\ cached \in Cells /\ old \in Cells
  BY DEF TypeOK, CacheTypeOK
<1>2. built' = built + Cardinality(Rebuilt(t, D))
  BY DEF Install
<1>3. built' \in Nat /\ built <= built'
  BY <1>1, <1>2, RebuiltCount
<1>4. cached' = [s \in Scenes |->
        IF s \in D THEN ObjectFor(t, fresh, s) ELSE IF s \in Found(t) THEN cached[s] ELSE 0]
  BY DEF Install
<1>5. ASSUME NEW s \in Scenes, cached'[s] # 0
      PROVE  cached'[s] \in ObjectsIn(cached) \cup ObjectsIn(old) \cup ((built + 1)..built')
  <2>1. CASE s \in D
    <3>1. cached'[s] = ObjectFor(t, fresh, s)
      BY <1>4, <2>1
    <3>2. CASE cached[s] # 0
      BY <3>1, <3>2 DEF ObjectFor, ObjectsIn
    <3>3. CASE cached[s] = 0 /\ Reusable(t, s)
      BY <3>1, <3>3, <1>5 DEF ObjectFor, ObjectsIn
    <3>4. CASE cached[s] = 0 /\ ~Reusable(t, s)
      <4>1. s \in Rebuilt(t, D) /\ cached'[s] = fresh[s]
        BY <2>1, <3>1, <3>4 DEF ObjectFor, Rebuilt
      <4> QED BY <1>2, <4>1 DEF Numbering
    <3> QED BY <3>2, <3>3, <3>4
  <2>2. CASE s \notin D
    BY <1>4, <1>5, <2>2 DEF ObjectsIn
  <2> QED BY <2>1, <2>2
<1> QED BY <1>3, <1>5 DEF ObjectsIn

\* Every step keeps the invariant of retired scenes.
LEMMA NextTeardown == TypeOK /\ TypeOK' /\ TeardownInv /\ [Next]_vars => TeardownInv'
<1> SUFFICES ASSUME TypeOK, TypeOK', TeardownInv, [Next]_vars PROVE TeardownInv'
  OBVIOUS
<1>0. /\ retired \in [Threads -> SUBSET Objects] /\ built \in Nat
      /\ pending \in SUBSET Objects /\ torn \in SUBSET Objects
  BY DEF TypeOK, ThreadTypeOK, CacheTypeOK
<1>1. ASSUME UNCHANGED <<cacheVars, workerVars, retired>>
      PROVE  TeardownInv'
  <2>1. UNCHANGED <<built, cached, old>> /\ Doomed' = Doomed
    BY <1>1 DEF cacheVars, workerVars, Doomed
  <2> QED BY <2>1, TeardownSame
<1>2. CASE Invalidate
  <2>1. Doomed' = Doomed /\ UNCHANGED built
    BY <1>2 DEF Invalidate, workerVars, threadVars, Doomed
  <2>2. ObjectsIn(cached') = {}
    BY <1>2 DEF Invalidate, ObjectsIn, NoCells
  <2>3. old' = cached \/ old' = old
    BY <1>2 DEF Invalidate
  <2> QED BY <2>1, <2>2, <2>3, TeardownSame
<1>3. ASSUME NEW t \in Threads, Apply(t)
      PROVE  TeardownInv'
  <2>1. Found(t) \in SUBSET Scenes
    BY DEF Found
  <2>2. PICK fresh \in Numbering(Rebuilt(t, Found(t))) : Install(t, Found(t), fresh)
    BY <1>3 DEF Apply
  <2>3. /\ built' \in Nat /\ built <= built'
        /\ ObjectsIn(cached)' \subseteq ObjectsIn(cached) \cup ObjectsIn(old)
                                        \cup ((built + 1)..built')
    BY <2>1, <2>2, InstallObjects
  <2>4. old' = NoCells /\ UNCHANGED workerVars
    BY <1>3 DEF Apply
  <2>5. retired' = [retired EXCEPT ![t] = (ObjectsIn(cached) \cup ObjectsIn(old))
                                            \ ObjectsIn(cached)']
    BY <1>3 DEF Apply, Retirees, ObjectsIn
  <2>6. ObjectsIn(old)' = {}
    BY <2>4 DEF ObjectsIn, NoCells
  <2>7. Doomed' \subseteq Doomed \cup ((ObjectsIn(cached) \cup ObjectsIn(old))
                                        \ ObjectsIn(cached)')
    BY <1>0, <2>4, <2>5 DEF Doomed, workerVars
  <2>8. (1..built) \cap ((built + 1)..built') = {} /\ 1..built \subseteq 1..built'
        /\ (built + 1)..built' \subseteq 1..built'
    BY <1>0, <2>3
  <2>9. Constructed'
    BY <2>3, <2>6, <2>7, <2>8 DEF TeardownInv, Constructed
  <2>10. NoLiveTeardown'
    BY <2>3, <2>6, <2>7, <2>8 DEF TeardownInv, Constructed, NoLiveTeardown
  <2> QED BY <2>9, <2>10 DEF TeardownInv
<1>4. ASSUME NEW t \in Threads, NEW D \in SUBSET Scenes, NEW x \in Scenes, ApplyFails(t, D, x)
      PROVE  TeardownInv'
  <2>1. PICK fresh \in Numbering(Rebuilt(t, D)) : Install(t, D, fresh)
    BY <1>4 DEF ApplyFails
  <2>2. /\ built' \in Nat /\ built <= built'
        /\ ObjectsIn(cached)' \subseteq ObjectsIn(cached) \cup ObjectsIn(old)
                                        \cup ((built + 1)..built')
    BY <2>1, InstallObjects
  <2>3. ObjectsIn(old)' = ObjectsIn(old) /\ Doomed' = Doomed
    BY <1>4 DEF ApplyFails, ObjectsIn, Doomed, workerVars
  <2>4. (1..built) \cap ((built + 1)..built') = {} /\ 1..built \subseteq 1..built'
        /\ (built + 1)..built' \subseteq 1..built'
    BY <1>0, <2>2
  <2> QED BY <2>2, <2>3, <2>4 DEF TeardownInv, Constructed, NoLiveTeardown
<1>5. ASSUME NEW t \in Threads, Schedule(t)
      PROVE  TeardownInv'
  <2>1. UNCHANGED <<built, cached, old, tearing, torn>>
    BY <1>5 DEF Schedule, cacheVars
  <2>2. pending' = pending \cup retired[t] /\ retired' = [retired EXCEPT ![t] = {}]
    BY <1>5 DEF Schedule
  <2>3. Doomed' \subseteq Doomed
    BY <1>0, <2>1, <2>2 DEF Doomed
  <2> QED BY <2>1, <2>3, TeardownSame
<1>6. CASE Worker
  <2>1. UNCHANGED <<built, cached, old, retired>>
    BY <1>6 DEF Worker, Take, TearDown, WorkerExit, cacheVars, threadVars
  <2>2. Doomed' \subseteq Doomed
    BY <1>6, <2>1 DEF Worker, Take, TearDown, WorkerExit, Doomed
  <2> QED BY <2>1, <2>2, TeardownSame
<1>7. ASSUME NEW s \in Scenes, NEW value \in Versions, Write(s, value)
      PROVE  TeardownInv'
  BY <1>1, <1>7 DEF Write, threadVars
<1>8. ASSUME NEW t \in Threads,
             \/ \E kind \in Kinds : Call(t, kind)
             \/ Check(t) \/ Enter(t) \/ Wait(t) \/ Fetch(t) \/ FetchFails(t)
             \/ Superseded(t) \/ Release(t) \/ Read(t)
      PROVE  TeardownInv'
  BY <1>1, <1>8 DEF Call, Check, Enter, Wait, Fetch, FetchFails, Superseded, Release, Leave, Read
<1>9. CASE UNCHANGED vars
  BY <1>1, <1>9 DEF vars, threadVars
<1> QED BY <1>2, <1>3, <1>4, <1>5, <1>6, <1>7, <1>8, <1>9 DEF Next, Advance

\* Objects in use, or given up, have always been constructed.
LEMMA TeardownInvHolds == Spec => []TeardownInv
<1>1. Init => TeardownInv
  BY DEF Init, TeardownInv, Constructed, NoLiveTeardown, Doomed, ObjectsIn, NoCells
<1> QED BY <1>1, NextTeardown, TypeCorrect, PTL DEF Spec

\* A Scene object that lookups can return, or that the next refresh can bring
\* back, is never handed to the teardown worker, even when building raises.
THEOREM LiveScenesKept == Spec => []NoLiveTeardown
<1>1. TeardownInv => NoLiveTeardown
  BY DEF TeardownInv
<1> QED BY <1>1, TeardownInvHolds, PTL

-----------------------------------------------------------------------------
(* A tracker is forgotten only after a construction raised.                 *)

\* Objects that are in use, wait for the next refresh, or are given up.
Accounted == ObjectsIn(cached) \cup ObjectsIn(old) \cup Doomed

\* A construction raises in the middle of an installation ...
Raises == \E t \in Threads : pc[t] = "apply" /\ pc'[t] = "raise"

\* ... and leaves a usable cache while objects still wait for a refresh.
HalfFilled == valid /\ old # NoCells

Forgets == ~ \A i \in 1..built' : i \in Accounted' \/ i \in (1..built) \ Accounted

RetiredInv == \A t \in Threads : retired[t] # {} => pc[t] = "schedule"

\* The objects an installation constructs are in the cache.
LEMMA InstallCovers ==
  ASSUME TypeOK, NEW t \in Threads, NEW D \in SUBSET Scenes,
         NEW fresh \in Numbering(Rebuilt(t, D)), Install(t, D, fresh)
  PROVE  (built + 1)..built' \subseteq ObjectsIn(cached)'
<1>1. built \in Nat /\ built' = built + Cardinality(Rebuilt(t, D))
  BY DEF TypeOK, CacheTypeOK, Install
<1>2. ASSUME NEW i \in (built + 1)..built'
      PROVE  i \in ObjectsIn(cached)'
  <2>1. PICK s \in Rebuilt(t, D) : fresh[s] = i
    BY <1>1, <1>2 DEF Numbering
  <2>2. s \in Scenes /\ s \in D /\ cached[s] = 0 /\ ~Reusable(t, s)
    BY DEF Rebuilt
  <2>3. cached'[s] = ObjectFor(t, fresh, s)
    BY <2>2 DEF Install
  <2>4. cached'[s] = i
    BY <2>1, <2>2, <2>3 DEF ObjectFor
  <2>5. i # 0
    BY <1>1, <1>2
  <2> QED BY <2>2, <2>4, <2>5 DEF ObjectsIn
<1> QED BY <1>2

\* A step after which every object it knew of, and every new one, is accounted for.
LEMMA NothingForgotten ==
  ASSUME built \in Nat, built' \in Nat, Accounted \subseteq Accounted',
         (built + 1)..built' \subseteq Accounted'
  PROVE  ~Forgets
<1>1. ASSUME NEW i \in 1..built' PROVE i \in Accounted' \/ i \in (1..built) \ Accounted
  <2>1. CASE i <= built
    BY <1>1, <2>1
  <2>2. CASE ~(i <= built)
    BY <1>1, <2>2
  <2> QED BY <2>1, <2>2
<1> QED BY <1>1 DEF Forgets

\* What a step does to the objects the cache answers for.
LEMMA StepAccounts ==
  TypeOK /\ TypeOK' /\ RetiredInv /\ [Next]_vars =>
    /\ RetiredInv'
    /\ HalfFilled' => HalfFilled \/ Raises
    /\ Forgets => valid /\ (HalfFilled \/ Raises)
<1> SUFFICES ASSUME TypeOK, TypeOK', RetiredInv, [Next]_vars
             PROVE  /\ RetiredInv'
                    /\ HalfFilled' => HalfFilled \/ Raises
                    /\ Forgets => valid /\ (HalfFilled \/ Raises)
  OBVIOUS
<1>0. /\ retired \in [Threads -> SUBSET Objects] /\ pc \in [Threads -> Places]
      /\ built \in Nat /\ built' \in Nat /\ tearing \in Int
      /\ ~valid => cached = NoCells
  BY DEF TypeOK, ThreadTypeOK, CacheTypeOK
<1>1. ASSUME UNCHANGED <<valid, cached, old, built, pending, tearing, torn, retired>>,
             \A t \in Threads : pc[t] = "schedule" => pc'[t] = "schedule"
      PROVE  RetiredInv' /\ (HalfFilled' => HalfFilled) /\ ~Forgets
  <2>1. Accounted' = Accounted
    BY <1>1 DEF Accounted, Doomed, ObjectsIn
  <2>2. (built + 1)..built' = {}
    BY <1>0, <1>1
  <2> QED BY <1>0, <1>1, <2>1, <2>2, NothingForgotten DEF RetiredInv, HalfFilled
<1>2. CASE Invalidate
  <2>1. UNCHANGED <<built, pc, retired>> /\ Doomed' = Doomed /\ valid' = FALSE
    BY <1>2 DEF Invalidate, workerVars, threadVars, Doomed
  <2>2. RetiredInv' /\ ~HalfFilled'
    BY <2>1 DEF RetiredInv, HalfFilled
  <2>3. ASSUME ~HalfFilled PROVE ~Forgets
    <3>1. ObjectsIn(cached) \cup ObjectsIn(old) \subseteq ObjectsIn(old)'
      <4>1. CASE valid
        <5>1. old = NoCells /\ old' = cached
          BY <1>2, <2>3, <4>1 DEF Invalidate, HalfFilled
        <5> QED BY <5>1 DEF ObjectsIn, NoCells
      <4>2. CASE ~valid
        <5>1. cached = NoCells /\ old' = old
          BY <1>0, <1>2, <4>2 DEF Invalidate
        <5> QED BY <5>1 DEF ObjectsIn, NoCells
      <4> QED BY <4>1, <4>2
    <3>2. Accounted \subseteq Accounted'
      BY <2>1, <3>1 DEF Accounted
    <3>3. (built + 1)..built' = {}
      BY <1>0, <2>1
    <3> QED BY <1>0, <3>2, <3>3, NothingForgotten
  <2> QED BY <2>2, <2>3 DEF HalfFilled
<1>3. ASSUME NEW t \in Threads, Apply(t)
      PROVE  RetiredInv' /\ ~HalfFilled' /\ ~Forgets
  <2>1. Found(t) \in SUBSET Scenes
    BY DEF Found
  <2>2. PICK fresh \in Numbering(Rebuilt(t, Found(t))) : Install(t, Found(t), fresh)
    BY <1>3 DEF Apply
  <2>3. (built + 1)..built' \subseteq ObjectsIn(cached)'
    BY <2>1, <2>2, InstallCovers
  <2>4. /\ pc[t] = "apply" /\ pc' = [pc EXCEPT ![t] = "schedule"]
        /\ old' = NoCells /\ UNCHANGED workerVars
    BY <1>3 DEF Apply, Goto
  <2>5. retired' = [retired EXCEPT ![t] = (ObjectsIn(cached) \cup ObjectsIn(old))
                                            \ ObjectsIn(cached)']
    BY <1>3 DEF Apply, Retirees, ObjectsIn
  <2>6. retired[t] = {}
    BY <2>4 DEF RetiredInv
  <2>7. Doomed \cup ((ObjectsIn(cached) \cup ObjectsIn(old)) \ ObjectsIn(cached)')
          \subseteq Doomed'
    BY <1>0, <2>4, <2>5, <2>6 DEF Doomed, workerVars
  <2>8. Accounted \subseteq Accounted' /\ (built + 1)..built' \subseteq Accounted'
    BY <2>3, <2>7 DEF Accounted
  <2>9. RetiredInv'
    BY <1>0, <2>4, <2>5 DEF RetiredInv
  <2> QED BY <1>0, <2>4, <2>8, <2>9, NothingForgotten DEF HalfFilled
<1>4. ASSUME NEW t \in Threads, NEW D \in SUBSET Scenes, NEW x \in Scenes, ApplyFails(t, D, x)
      PROVE  RetiredInv' /\ Raises /\ (Forgets => valid)
  <2>1. PICK fresh \in Numbering(Rebuilt(t, D)) : Install(t, D, fresh)
    BY <1>4 DEF ApplyFails
  <2>2. (built + 1)..built' \subseteq ObjectsIn(cached)'
    BY <2>1, InstallCovers
  <2>3. /\ pc[t] = "apply" /\ pc' = [pc EXCEPT ![t] = "raise"]
        /\ UNCHANGED <<old, workerVars, retired>>
    BY <1>4 DEF ApplyFails, Goto
  <2>4. RetiredInv' /\ Raises
    BY <1>0, <2>3 DEF RetiredInv, Raises
  <2>5. ASSUME ~valid PROVE ~Forgets
    <3>1. ObjectsIn(cached) = {}
      BY <1>0, <2>5 DEF ObjectsIn, NoCells
    <3>2. Doomed' = Doomed /\ ObjectsIn(old)' = ObjectsIn(old)
      BY <2>3 DEF Doomed, ObjectsIn, workerVars
    <3>3. Accounted \subseteq Accounted' /\ (built + 1)..built' \subseteq Accounted'
      BY <2>2, <3>1, <3>2 DEF Accounted
    <3> QED BY <1>0, <3>3, NothingForgotten
  <2> QED BY <2>4, <2>5
<1>5. ASSUME NEW t \in Threads, Schedule(t)
      PROVE  RetiredInv' /\ (HalfFilled' => HalfFilled) /\ ~Forgets
  <2>1. UNCHANGED <<valid, built, cached, old, tearing, torn>>
    BY <1>5 DEF Schedule, cacheVars
  <2>2. /\ pending' = pending \cup retired[t] /\ retired' = [retired EXCEPT ![t] = {}]
        /\ pc' = [pc EXCEPT ![t] = "release"]
    BY <1>5 DEF Schedule, Goto
  <2>3. Doomed \subseteq Doomed'
    BY <1>0, <2>1, <2>2 DEF Doomed
  <2>4. RetiredInv'
    BY <1>0, <2>2 DEF RetiredInv
  <2>5. Accounted \subseteq Accounted' /\ (built + 1)..built' = {}
    BY <1>0, <2>1, <2>3 DEF Accounted, ObjectsIn
  <2> QED BY <1>0, <2>1, <2>4, <2>5, NothingForgotten DEF HalfFilled
<1>6. ASSUME Worker
      PROVE  RetiredInv' /\ (HalfFilled' => HalfFilled) /\ ~Forgets
  <2>1. UNCHANGED <<valid, built, cached, old, retired, pc>>
    BY <1>6 DEF Worker, Take, TearDown, WorkerExit, cacheVars, threadVars
  <2>2. Doomed \subseteq Doomed'
    <3>1. ASSUME NEW i \in Objects, Take(i)
          PROVE  Doomed \subseteq Doomed'
      <4>1. i # 0 /\ tearing' = i /\ tearing = 0 /\ pending' = pending \ {i} /\ torn' = torn
        BY <3>1 DEF Take, Objects
      <4> QED BY <2>1, <4>1 DEF Doomed
    <3>2. TearDown \/ WorkerExit => Doomed \subseteq Doomed'
      BY <2>1 DEF TearDown, WorkerExit, Doomed
    <3> QED BY <1>6, <3>1, <3>2 DEF Worker
  <2>3. Accounted \subseteq Accounted' /\ (built + 1)..built' = {}
    BY <1>0, <2>1, <2>2 DEF Accounted, ObjectsIn
  <2> QED BY <1>0, <2>1, <2>3, NothingForgotten DEF HalfFilled, RetiredInv
<1>7. ASSUME NEW s \in Scenes, NEW value \in Versions, Write(s, value)
      PROVE  RetiredInv' /\ (HalfFilled' => HalfFilled) /\ ~Forgets
  BY <1>1, <1>7 DEF Write, cacheVars, workerVars, threadVars
<1>8. ASSUME NEW t \in Threads,
             \/ \E kind \in Kinds : Call(t, kind)
             \/ Check(t) \/ Enter(t) \/ Wait(t) \/ Fetch(t) \/ FetchFails(t)
             \/ Superseded(t) \/ Release(t) \/ Read(t)
      PROVE  RetiredInv' /\ (HalfFilled' => HalfFilled) /\ ~Forgets
  <2>1. UNCHANGED <<valid, cached, old, built, pending, tearing, torn, retired>>
    BY <1>8 DEF Call, Check, Enter, Wait, Fetch, FetchFails, Superseded, Release, Leave, Read,
                cacheVars, workerVars
  <2>2. pc[t] # "schedule" /\ \A u \in Threads \ {t} : pc'[u] = pc[u]
    BY <1>0, <1>8 DEF Call, Check, Enter, Wait, Fetch, FetchFails, Superseded, Release, Leave,
                      Read, Goto
  <2> QED BY <1>1, <2>1, <2>2
<1>9. ASSUME UNCHANGED vars
      PROVE  RetiredInv' /\ (HalfFilled' => HalfFilled) /\ ~Forgets
  BY <1>1, <1>9 DEF vars, cacheVars, workerVars, threadVars
<1> QED BY <1>2, <1>3, <1>4, <1>5, <1>6, <1>7, <1>8, <1>9 DEF Next, Advance

\* A step forgets a Scene object, and leaves its tracker running where nobody can
\* stop it, only when the cache is usable and a construction raises in it, or has
\* raised and left it half filled since; only a construction that raises does that.
THEOREM RaisesForget ==
  Spec => [][/\ HalfFilled' => HalfFilled \/ Raises
             /\ Forgets => valid /\ (HalfFilled \/ Raises)]_vars
<1>1. Init => RetiredInv
  BY DEF Init, RetiredInv
<1>2. TypeOK /\ TypeOK' /\ RetiredInv /\ [Next]_vars =>
        /\ RetiredInv'
        /\ [/\ HalfFilled' => HalfFilled \/ Raises
            /\ Forgets => valid /\ (HalfFilled \/ Raises)]_vars
  BY StepAccounts
<1> QED BY <1>1, <1>2, TypeCorrect, PTL DEF Spec

LeakInv ==
  /\ valid => old = NoCells
  /\ RetiredInv
  /\ NoTrackerLeak

\* Every step keeps the leak invariant, if no construction raises.
LEMMA NextLeak ==
  TypeOK /\ TypeOK' /\ ~BuildMayFail /\ LeakInv /\ [Next]_vars => LeakInv'
<1> SUFFICES ASSUME TypeOK, TypeOK', ~BuildMayFail, LeakInv, [Next]_vars PROVE LeakInv'
  OBVIOUS
<1>0. pc \in [Threads -> Places] /\ pc' \in [Threads -> Places]
  BY DEF TypeOK, ThreadTypeOK
<1>1. ~Raises
  <2> SUFFICES ASSUME NEW t \in Threads, pc[t] = "apply", pc'[t] = "raise" PROVE FALSE
    BY DEF Raises
  <2>1. ASSUME NEW u \in Threads, Advance(u) \/ \E kind \in Kinds : Call(u, kind)
        PROVE  FALSE
    BY <1>0, <2>1 DEF Advance, Call, Check, Enter, Wait, Fetch, FetchFails, Superseded, Apply,
                      ApplyFails, Schedule, Release, Leave, Read, Goto, After
  <2>2. pc' # pc
    OBVIOUS
  <2> QED BY <2>1, <2>2 DEF Next, Write, Invalidate, Worker, Take, TearDown, WorkerExit, vars, threadVars
<1>2. ~HalfFilled
  BY DEF LeakInv, HalfFilled
<1>3. RetiredInv' /\ ~HalfFilled' /\ ~Forgets
  BY <1>1, <1>2, StepAccounts DEF LeakInv
<1>4. \A i \in 1..built' : i \in Accounted'
  BY <1>3 DEF Forgets, LeakInv, NoTrackerLeak, Accounted
<1> QED BY <1>3, <1>4 DEF LeakInv, HalfFilled, NoTrackerLeak, Accounted

\* The leak invariant always holds, if no construction raises.
LEMMA LeakInvHolds == ASSUME ~BuildMayFail PROVE Spec => []LeakInv
<1>1. Init => LeakInv
  <2> SUFFICES ASSUME Init PROVE LeakInv
    OBVIOUS
  <2>1. 1..built = {}
    BY DEF Init
  <2> QED BY <2>1 DEF Init, LeakInv, RetiredInv, NoTrackerLeak
<1>2. TypeOK /\ TypeOK' /\ LeakInv /\ [Next]_vars => LeakInv'
  BY NextLeak
<1> QED BY <1>1, <1>2, TypeCorrect, PTL DEF Spec

\* While no construction raises, every Scene object is in use, waits for the next
\* refresh, or is with the teardown worker: none is forgotten with its threads.
THEOREM NoTrackerForgotten == ASSUME ~BuildMayFail PROVE Spec => []NoTrackerLeak
<1>1. LeakInv => NoTrackerLeak
  BY DEF LeakInv
<1>2. Spec => []LeakInv
  BY LeakInvHolds
<1> QED BY <1>1, <1>2, PTL

-----------------------------------------------------------------------------
(* Each scene's object holds the scene's data.                              *)

\* No two scenes share an object.
Injective(cells) == \A r, s \in Scenes : cells[r] # 0 /\ cells[r] = cells[s] => r = s

\* An object holds the data that its scene was last built from.
HoldsData(cells) == \A s \in Scenes : cells[s] # 0 => data[cells[s]] = signature[s]

MatchInv ==
  /\ Injective(cached) /\ HoldsData(cached)
  /\ Injective(old) /\ HoldsData(old)
  /\ SceneMatchesData

\* The scenes that are built together get different numbers.
LEMMA NumberingInjective ==
  ASSUME built \in Nat, NEW R \in SUBSET Scenes, NEW fresh \in Numbering(R)
  PROVE  \A r, s \in R : fresh[r] = fresh[s] => r = s
<1> DEFINE T == (built + 1)..(built + Cardinality(R))
           f == [s \in R |-> fresh[s]]
<1>1. IsFiniteSet(R) /\ Cardinality(R) \in Nat
  BY FS_Subset, FS_CardinalityType, ConfigAssumption
<1>2. Cardinality(T) = Cardinality(R)
  <2>1. built + 1 \in Int /\ built + Cardinality(R) \in Int
    BY <1>1
  <2>2. Cardinality(T) = IF built + 1 > built + Cardinality(R) THEN 0
                         ELSE (built + Cardinality(R)) - (built + 1) + 1
    BY <2>1, FS_Interval
  <2> QED BY <1>1, <2>2
<1>3. f \in Surjection(R, T)
  <2>1. \A s \in R : fresh[s] \in T
    BY DEF Numbering
  <2>2. \A i \in T : \E s \in R : fresh[s] = i
    BY DEF Numbering
  <2> HIDE DEF T
  <2> QED BY <2>1, <2>2 DEF Surjection
<1>4. f \in Injection(R, T)
  <2> HIDE DEF T, f
  <2> QED BY <1>1, <1>2, <1>3, FS_SurjSameCardinalityImpliesInj
<1>5. \A r, s \in R : f[r] = f[s] => r = s
  <2>1. DOMAIN f = R
    OBVIOUS
  <2> QED BY <1>4, <2>1 DEF Injection, IsInjective
<1> QED BY <1>5

\* The cells an installation of all the scenes fetched leaves: one object of its own
\* for each of them, which holds the fetched data.
LEMMA InstallMatches ==
  ASSUME TypeOK, TypeOK', Constructed, valid => old = NoCells, MatchInv,
         NEW t \in Threads, NEW fresh \in Numbering(Rebuilt(t, Found(t))),
         Install(t, Found(t), fresh)
  PROVE  /\ Injective(cached)' /\ HoldsData(cached)'
         /\ \A s \in Scenes : cached'[s] # 0 <=> fetched[t].found[s] # 0
         /\ \A s \in Scenes : cached'[s] # 0 => data'[cached'[s]] = fetched[t].found[s]
<1> DEFINE D == Found(t)
<1>1. built \in Nat /\ cached \in Cells /\ old \in Cells /\ cached' \in Cells
  BY DEF TypeOK, CacheTypeOK
<1>2. \A s \in Scenes : s \in D <=> fetched[t].found[s] # 0
  BY DEF Found
<1>3. \A s \in Scenes : cached'[s] = IF s \in D THEN ObjectFor(t, fresh, s) ELSE 0
  BY <1>2 DEF Install
<1>4. \A s \in Scenes : /\ cached[s] # 0 => cached[s] \in 1..built
                        /\ old[s] # 0 => old[s] \in 1..built
  BY DEF Constructed, ObjectsIn
<1>5. \A s \in Rebuilt(t, D) : fresh[s] \in Nat /\ fresh[s] > built
  <2>1. D \in SUBSET Scenes
    BY DEF Found
  <2>2. Rebuilt(t, D) \subseteq Scenes /\ Cardinality(Rebuilt(t, D)) \in Nat
    BY <2>1, RebuiltCount
  <2>3. \A s \in Rebuilt(t, D) :
          fresh[s] \in (built + 1)..(built + Cardinality(Rebuilt(t, D)))
    BY <2>2 DEF Numbering
  <2> QED BY <1>1, <2>2, <2>3
<1>6. \A r, s \in Scenes : cached[r] # 0 => old[s] = 0
  BY DEF NoCells, TypeOK, CacheTypeOK
\* Where the object of a scene comes from.
<1>7. \A s \in D : \/ cached[s] # 0 /\ cached'[s] = cached[s]
                   \/ cached[s] = 0 /\ old[s] # 0 /\ Reusable(t, s) /\ cached'[s] = old[s]
                   \/ s \in Rebuilt(t, D) /\ cached'[s] = fresh[s]
  BY <1>3 DEF ObjectFor, Reusable, Rebuilt, Found
<1>8. \A s \in D : s \in Scenes
  BY DEF Found
<1>9. \A s \in D : cached'[s] # 0
  BY <1>1, <1>5, <1>7
<1>10. \A r, s \in D : cached'[r] = cached'[s] => r = s
  <2> SUFFICES ASSUME NEW r \in D, NEW s \in D, cached'[r] = cached'[s] PROVE r = s
    OBVIOUS
  <2>1. Rebuilt(t, D) \in SUBSET Scenes
    BY DEF Rebuilt, Found
  <2>2. r \in Rebuilt(t, D) /\ s \in Rebuilt(t, D) /\ fresh[r] = fresh[s] => r = s
    <3> HIDE DEF D
    <3> QED BY <1>1, <2>1, NumberingInjective DEF D
  <2>3. cached[r] # 0 /\ cached[r] = cached[s] => r = s
    BY <1>8 DEF MatchInv, Injective
  <2>4. old[r] # 0 /\ old[r] = old[s] => r = s
    BY <1>8 DEF MatchInv, Injective
  <2>5. \A q \in Rebuilt(t, D), p \in D : fresh[q] # cached[p] /\ fresh[q] # old[p]
    BY <1>1, <1>4, <1>5, <1>8
  <2> QED BY <1>6, <1>7, <1>8, <2>2, <2>3, <2>4, <2>5
<1>11. Injective(cached)'
  <2>1. Injective(cached)' <=> \A r, s \in Scenes : cached'[r] # 0 /\ cached'[r] = cached'[s] => r = s
    BY DEF Injective
  <2> QED BY <1>3, <1>10, <2>1
<1>12. ASSUME NEW s \in D
       PROVE  data'[cached'[s]] = fetched[t].found[s]
  <2>1. cached'[s] \in Objects
    BY <1>1, <1>8, <1>9 DEF Cells, Objects
  <2>2. data' = [i \in Objects |->
          IF \E r \in Stored(t, D) : cached'[r] = i
          THEN fetched[t].found[CHOOSE r \in Stored(t, D) : cached'[r] = i] ELSE data[i]]
    BY DEF Install
  <2>3. Stored(t, D) \subseteq D
    BY DEF Stored
  <2>4. CASE s \in Stored(t, D)
    <3> DEFINE c == CHOOSE r \in Stored(t, D) : cached'[r] = cached'[s]
    <3>1. c \in Stored(t, D) /\ cached'[c] = cached'[s]
      BY <2>4
    <3>2. c = s
      BY <1>10, <2>3, <3>1
    <3>3. data'[cached'[s]] = fetched[t].found[c]
      BY <2>1, <2>2, <2>4
    <3> QED BY <3>2, <3>3
  <2>5. CASE s \notin Stored(t, D)
    <3>1. ~ \E r \in Stored(t, D) : cached'[r] = cached'[s]
      BY <1>10, <2>3, <2>5
    <3>2. data'[cached'[s]] = data[cached'[s]]
      BY <2>1, <2>2, <3>1
    <3>3. cached[s] = 0 /\ tracked /\ Reusable(t, s)
      BY <2>5 DEF Stored
    <3>4. cached'[s] = old[s] /\ old[s] # 0 /\ signature[s] = fetched[t].found[s]
      BY <1>7, <3>3 DEF Reusable, Rebuilt
    <3>5. data[old[s]] = signature[s]
      BY <1>8, <3>4 DEF MatchInv, HoldsData
    <3> QED BY <3>2, <3>4, <3>5
  <2> QED BY <2>4, <2>5
<1>13. \A s \in D : signature'[s] = fetched[t].found[s]
  BY <1>8 DEF Install
<1>14. HoldsData(cached)'
  <2>1. HoldsData(cached)' <=> \A s \in Scenes : cached'[s] # 0 => data'[cached'[s]] = signature'[s]
    BY DEF HoldsData
  <2> QED BY <1>3, <1>12, <1>13, <2>1
<1>15. \A s \in Scenes : cached'[s] # 0 <=> fetched[t].found[s] # 0
  BY <1>2, <1>3, <1>9
<1>16. \A s \in Scenes : cached'[s] # 0 => data'[cached'[s]] = fetched[t].found[s]
  BY <1>3, <1>12
<1> QED BY <1>11, <1>14, <1>15, <1>16

\* Every step keeps the data invariant, if no construction raises.
LEMMA NextMatch ==
  TypeOK /\ TypeOK' /\ Constructed /\ (valid => old = NoCells) /\ ~BuildMayFail
    /\ MatchInv /\ [Next]_vars => MatchInv'
<1> SUFFICES ASSUME TypeOK, TypeOK', Constructed, valid => old = NoCells, ~BuildMayFail,
                    MatchInv, [Next]_vars
             PROVE  MatchInv'
  OBVIOUS
<1>1. ASSUME UNCHANGED <<valid, cached, indexed, old, signature, data, installed>>
      PROVE  MatchInv'
  BY <1>1 DEF MatchInv, Injective, HoldsData, SceneMatchesData
<1>2. CASE Invalidate
  <2>1. /\ UNCHANGED <<signature, data>>
        /\ cached' = NoCells /\ ~valid'
        /\ old' = cached \/ old' = old
    BY <1>2 DEF Invalidate
  <2>2. Injective(cached)' /\ HoldsData(cached)'
    BY <2>1 DEF Injective, HoldsData, NoCells
  <2>3. Injective(old)' /\ HoldsData(old)'
    BY <2>1 DEF MatchInv, Injective, HoldsData
  <2> QED BY <2>1, <2>2, <2>3 DEF MatchInv, SceneMatchesData
<1>3. ASSUME NEW t \in Threads, Apply(t)
      PROVE  MatchInv'
  <2>1. PICK fresh \in Numbering(Rebuilt(t, Found(t))) : Install(t, Found(t), fresh)
    BY <1>3 DEF Apply
  <2>2. /\ Injective(cached)' /\ HoldsData(cached)'
        /\ \A s \in Scenes : cached'[s] # 0 <=> fetched[t].found[s] # 0
        /\ \A s \in Scenes : cached'[s] # 0 => data'[cached'[s]] = fetched[t].found[s]
    BY <2>1, InstallMatches
  <2>3. old' = NoCells /\ installed' = fetched[t] /\ indexed' = Found(t)
    BY <1>3, <2>1 DEF Apply, Install
  <2>4. Injective(old)' /\ HoldsData(old)'
    BY <2>3 DEF Injective, HoldsData, NoCells
  <2>5. SceneMatchesData'
    BY <2>2, <2>3 DEF SceneMatchesData, Found
  <2> QED BY <2>2, <2>4, <2>5 DEF MatchInv
<1>4. ASSUME NEW t \in Threads, NEW D \in SUBSET Scenes, NEW x \in Scenes, ApplyFails(t, D, x)
      PROVE  FALSE
  BY <1>4 DEF ApplyFails
<1>5. ASSUME NEW t \in Threads,
             \/ \E kind \in Kinds : Call(t, kind)
             \/ Check(t) \/ Enter(t) \/ Wait(t) \/ Fetch(t) \/ FetchFails(t)
             \/ Superseded(t) \/ Schedule(t) \/ Release(t) \/ Read(t)
      PROVE  MatchInv'
  BY <1>1, <1>5 DEF Call, Check, Enter, Wait, Fetch, FetchFails, Superseded, Schedule, Release,
                    Leave, Read, cacheVars
<1>6. ASSUME \/ \E s \in Scenes, value \in Versions : Write(s, value)
             \/ Worker \/ UNCHANGED vars
      PROVE  MatchInv'
  BY <1>1, <1>6 DEF Write, Worker, Take, TearDown, WorkerExit, vars, cacheVars
<1> QED BY <1>2, <1>3, <1>4, <1>5, <1>6 DEF Next, Advance

\* While no construction raises, a usable cache holds exactly the scenes last
\* fetched, each under its cameras and with its own data: no object is shared, and
\* none is brought back after an invalidation with data that has changed since.
THEOREM CacheMatchesFetch == ASSUME ~BuildMayFail PROVE Spec => []SceneMatchesData
<1>1. Init => MatchInv
  BY DEF Init, MatchInv, Injective, HoldsData, SceneMatchesData, NoCells, EmptyFetch
<1>2. MatchInv => SceneMatchesData
  BY DEF MatchInv
<1>3. TypeOK /\ TypeOK' /\ LeakInv /\ TeardownInv /\ MatchInv /\ [Next]_vars => MatchInv'
  BY NextMatch DEF LeakInv, TeardownInv
<1>4. Spec => []LeakInv
  BY LeakInvHolds
<1> QED BY <1>1, <1>2, <1>3, <1>4, TeardownInvHolds, TypeCorrect, PTL DEF Spec

-----------------------------------------------------------------------------
(* Forced refreshes.                                                        *)

\* Places of a thread that owns the refresh under way.
Refreshing == {"fetch", "apply", "schedule", "release", "failed", "raise"}

OneRefresh ==
  /\ \A t \in Threads : pc[t] \in Refreshing => busy
  /\ \A t, u \in Threads : pc[t] \in Refreshing /\ pc[u] \in Refreshing => t = u

ForcedInv ==
  /\ OneRefresh
  /\ \A t \in Threads : asked[t] <= writes
  /\ \A t \in Threads : pc[t] \in {"fetch", "apply"} /\ ~Current(t) => ~valid
  /\ \A t \in Threads : call[t] = "force" /\ pc[t] = "apply" => fetched[t].version >= asked[t]
  /\ \A t \in Threads : call[t] = "force" /\ pc[t] \in {"schedule", "release"} /\ valid
                          => installed.version >= asked[t]

\* Every step keeps the invariant of forced refreshes.
LEMMA NextForced == TypeOK /\ TypeOK' /\ ForcedInv /\ [Next]_vars => ForcedInv'
<1> SUFFICES ASSUME TypeOK, TypeOK', ForcedInv, [Next]_vars PROVE ForcedInv'
  OBVIOUS
<1>0. /\ pc \in [Threads -> Places] /\ pc' \in [Threads -> Places]
      /\ asked \in [Threads -> Int] /\ writes \in Int /\ writes' \in Int
      /\ call \in [Threads -> {"lookup", "force"}]
      /\ myEpoch \in [Threads -> Int] /\ epoch \in Int
      /\ fetched \in [Threads -> Fetches]
  <2>1. Versions \subseteq Int /\ 0..MaxInvalidations \subseteq Int
    BY BoundsAssumption DEF Versions
  <2> QED BY <2>1 DEF TypeOK, CacheTypeOK, ThreadTypeOK
\* A step of the owner of the refresh, and what follows for the others.
<1>1. ASSUME NEW t \in Threads, pc[t] \in Refreshing,
             \A u \in Threads \ {t} : pc'[u] = pc[u],
             pc'[t] \in Refreshing => busy'
      PROVE  OneRefresh' /\ \A u \in Threads \ {t} : pc'[u] \notin Refreshing
  BY <1>0, <1>1 DEF ForcedInv, OneRefresh
<1>2. ASSUME NEW s \in Scenes, NEW value \in Versions, Write(s, value)
      PROVE  ForcedInv'
  <2>1. writes' = writes + 1
        /\ UNCHANGED <<valid, installed, epoch, busy, pc, call, asked, myEpoch, fetched>>
    BY <1>2 DEF Write, cacheVars, threadVars
  <2>2. \A t \in Threads : asked'[t] <= writes'
    BY <1>0, <2>1 DEF ForcedInv
  <2> QED BY <2>1, <2>2 DEF ForcedInv, OneRefresh, Current
<1>3. CASE Invalidate
  <2>1. ~valid' /\ UNCHANGED <<writes, busy, pc, call, asked, fetched>>
    BY <1>3 DEF Invalidate, dbVars, threadVars
  <2> QED BY <2>1 DEF ForcedInv, OneRefresh
\* Steps outside a refresh.
<1>4. ASSUME NEW t \in Threads,
             \/ \E kind \in Kinds : Call(t, kind)
             \/ Check(t) \/ Wait(t) \/ Read(t)
      PROVE  ForcedInv'
  <2>1. UNCHANGED <<writes, valid, installed, epoch, busy, myEpoch, fetched>>
    BY <1>4 DEF Call, Check, Wait, Read, dbVars, cacheVars
  <2>2. pc'[t] \notin Refreshing /\ \A u \in Threads \ {t} : pc'[u] = pc[u] /\ call'[u] = call[u]
                                                          /\ asked'[u] = asked[u]
    BY <1>0, <1>4 DEF Call, Check, Wait, Read, Goto, After, Refreshing
  <2>3. asked'[t] <= writes'
    <3>1. 0 <= writes
      BY DEF TypeOK, CacheTypeOK, Versions
    <3>2. asked'[t] \in {asked[t], writes, 0}
      BY <1>0, <1>4 DEF Call, Check, Wait, Read
    <3>3. writes' = writes /\ asked[t] <= writes
      BY <2>1 DEF ForcedInv
    <3> QED BY <1>0, <3>1, <3>2, <3>3
  <2>4. \A u \in Threads : asked'[u] <= writes'
    BY <2>1, <2>2, <2>3 DEF ForcedInv
  <2>5. OneRefresh'
    BY <2>1, <2>2 DEF ForcedInv, OneRefresh
  <2> QED BY <2>1, <2>2, <2>4, <2>5 DEF ForcedInv, Current, Refreshing
<1>5. ASSUME NEW t \in Threads, Enter(t)
      PROVE  ForcedInv'
  <2>1. UNCHANGED <<writes, valid, installed, epoch, call, asked, fetched>>
    BY <1>5 DEF Enter, dbVars, cacheVars
  <2>2. \A u \in Threads \ {t} : pc'[u] = pc[u] /\ myEpoch'[u] = myEpoch[u]
    BY <1>0, <1>5 DEF Enter, Goto
  <2>3. \/ pc'[t] = "wait" /\ busy' = busy
        \/ pc'[t] = "fetch" /\ ~busy /\ busy' /\ myEpoch'[t] = epoch
    BY <1>0, <1>5 DEF Enter, Goto
  <2>4. OneRefresh'
    BY <2>2, <2>3 DEF ForcedInv, OneRefresh, Refreshing
  <2> QED BY <2>1, <2>2, <2>3, <2>4 DEF ForcedInv, Current
<1>6. ASSUME NEW t \in Threads, Fetch(t)
      PROVE  ForcedInv'
  <2>1. UNCHANGED <<writes, valid, installed, epoch, busy, call, asked, myEpoch>>
    BY <1>6 DEF Fetch, dbVars, cacheVars
  <2>2. /\ pc[t] = "fetch" /\ pc'[t] = "apply" /\ fetched'[t].version = writes
        /\ \A u \in Threads \ {t} : pc'[u] = pc[u] /\ fetched'[u] = fetched[u]
    BY <1>0, <1>6 DEF Fetch, Goto, Database
  <2>3. OneRefresh'
    BY <1>1, <2>1, <2>2 DEF ForcedInv, OneRefresh, Refreshing
  <2>4. fetched'[t].version >= asked'[t]
    BY <1>0, <2>1, <2>2 DEF ForcedInv
  <2> QED BY <2>1, <2>2, <2>3, <2>4 DEF ForcedInv, Current
\* Steps of the owner that do not change what is fetched or installed.
<1>7. ASSUME NEW t \in Threads, FetchFails(t) \/ Superseded(t) \/ Schedule(t) \/ Release(t)
      PROVE  ForcedInv'
  <2>1. UNCHANGED <<writes, valid, installed, epoch, call, asked>>
    BY <1>7 DEF FetchFails, Superseded, Schedule, Release, Leave, dbVars, cacheVars
  <2>2. /\ pc[t] \in Refreshing /\ pc'[t] \notin {"fetch", "apply", "schedule"}
        /\ pc'[t] = "release" => \/ pc[t] = "schedule"
                                 \/ pc[t] = "apply" /\ ~Current(t)
        /\ pc'[t] \in Refreshing => UNCHANGED busy
        /\ \A u \in Threads \ {t} : pc'[u] = pc[u]
    BY <1>0, <1>7 DEF FetchFails, Superseded, Schedule, Release, Leave, Goto, After, Refreshing
  <2>3. pc'[t] \in Refreshing => busy'
    BY <2>2 DEF ForcedInv, OneRefresh
  <2>4. OneRefresh' /\ \A u \in Threads \ {t} : pc'[u] \notin Refreshing
    BY <1>1, <2>2, <2>3
  <2>5. call'[t] = "force" /\ pc'[t] = "release" /\ valid' => installed'.version >= asked'[t]
    BY <2>1, <2>2 DEF ForcedInv
  <2> QED BY <2>1, <2>2, <2>4, <2>5 DEF ForcedInv, Refreshing
<1>8. ASSUME NEW t \in Threads,
             Apply(t) \/ \E D \in SUBSET Scenes, x \in Scenes : ApplyFails(t, D, x)
      PROVE  ForcedInv'
  <2>1. /\ pc[t] = "apply" /\ pc'[t] \in {"schedule", "raise"} /\ installed' = fetched[t]
        /\ \A u \in Threads \ {t} : pc'[u] = pc[u]
        /\ UNCHANGED <<writes, busy, call, asked>>
    BY <1>0, <1>8 DEF Apply, ApplyFails, Goto, dbVars
  <2>2. busy'
    BY <2>1 DEF ForcedInv, OneRefresh, Refreshing
  <2>3. OneRefresh' /\ \A u \in Threads \ {t} : pc'[u] \notin Refreshing
    BY <1>1, <2>1, <2>2 DEF Refreshing
  <2>4. call'[t] = "force" => installed'.version >= asked'[t]
    BY <2>1 DEF ForcedInv
  <2> QED BY <2>1, <2>3, <2>4 DEF ForcedInv, Refreshing
<1>9. ASSUME Worker \/ UNCHANGED vars
      PROVE  ForcedInv'
  <2>1. UNCHANGED <<writes, valid, installed, epoch, busy, pc, call, asked, myEpoch, fetched>>
    BY <1>9 DEF Worker, Take, TearDown, WorkerExit, vars, dbVars, cacheVars, threadVars
  <2> QED BY <2>1 DEF ForcedInv, OneRefresh, Current
<1> QED BY <1>2, <1>3, <1>4, <1>5, <1>6, <1>7, <1>8, <1>9 DEF Next, Advance

\* One refresh runs at a time, and a forced one fetched after it was asked for.
LEMMA ForcedInvHolds == Spec => []ForcedInv
<1>1. Init => ForcedInv
  BY DEF Init, ForcedInv, OneRefresh, Refreshing, Current
<1> QED BY <1>1, NextForced, TypeCorrect, PTL DEF Spec

\* A forced refresh that returns from its own fetch leaves in the cache nothing that
\* was read before it was asked for, even when building raises and whatever refresh
\* was under way when it was called.
THEOREM ForcedIsFresh == Spec => ForcedSeesWrite
<1>1. TypeOK /\ ForcedInv /\ [Next]_vars =>
        [\A t \in Threads : /\ call[t] = "force"
                            /\ pc[t] \in {"release", "wait"}
                            /\ pc'[t] = "idle"
                            /\ valid'
                            => installed'.version >= asked[t]]_vars
  <2> SUFFICES ASSUME TypeOK, ForcedInv, Next, NEW t \in Threads,
                      call[t] = "force", pc[t] \in {"release", "wait"}, pc'[t] = "idle", valid'
               PROVE  installed'.version >= asked[t]
    OBVIOUS
  <2>0. pc \in [Threads -> Places]
    BY DEF TypeOK, ThreadTypeOK
  <2>1. ASSUME NEW u \in Threads, u # t,
               Advance(u) \/ \E kind \in Kinds : Call(u, kind)
        PROVE  pc'[t] = pc[t]
    BY <2>0, <2>1 DEF Advance, Call, Check, Enter, Wait, Fetch, FetchFails, Superseded, Apply,
                      ApplyFails, Schedule, Release, Leave, Read, Goto
  <2>2. ASSUME (\E s \in Scenes, value \in Versions : Write(s, value)) \/ Invalidate \/ Worker
        PROVE  pc' = pc
    BY <2>2 DEF Write, Invalidate, Worker, Take, TearDown, WorkerExit, threadVars
  <2>3. Advance(t) \/ \E kind \in Kinds : Call(t, kind)
    BY <2>1, <2>2 DEF Next
  <2>4. Wait(t) \/ Release(t)
    BY <2>3 DEF Advance, Call, Check, Enter, Fetch, FetchFails, Superseded, Apply,
                ApplyFails, Schedule, Read
  <2>5. CASE Wait(t)
    BY <2>0, <2>5 DEF Wait, Goto
  <2>6. CASE Release(t)
    <3>1. pc[t] = "release" /\ UNCHANGED <<valid, installed>>
      BY <2>6 DEF Release, Leave, cacheVars
    <3> QED BY <3>1 DEF ForcedInv
  <2> QED BY <2>4, <2>5, <2>6
<1>2. ForcedSeesWrite <=>
        [][\A t \in Threads : /\ call[t] = "force"
                              /\ pc[t] \in {"release", "wait"}
                              /\ pc'[t] = "idle"
                              /\ valid'
                              => installed'.version >= asked[t]]_vars
  BY DEF ForcedSeesWrite
<1> QED BY <1>1, <1>2, ForcedInvHolds, TypeCorrect, PTL DEF Spec

-----------------------------------------------------------------------------
(* The refinement of DatabaseView.                                          *)

\* The cache was filled with a version that the database had reached then, and a
\* fetch that waits to be installed is not older than what it replaces.
OrderInv ==
  /\ installed.version <= writes
  /\ \A t \in Threads : pc[t] = "apply" => /\ installed.version <= fetched[t].version
                                          /\ fetched[t].version <= writes

\* Every step keeps the order of the fetches, as one refresh runs at a time.
LEMMA NextOrder == TypeOK /\ TypeOK' /\ ForcedInv /\ OrderInv /\ [Next]_vars => OrderInv'
<1> SUFFICES ASSUME TypeOK, TypeOK', ForcedInv, OrderInv, [Next]_vars PROVE OrderInv'
  OBVIOUS
<1>0. /\ pc \in [Threads -> Places] /\ fetched \in [Threads -> Fetches]
      /\ writes \in Int /\ installed.version \in Int
      /\ \A t \in Threads : fetched[t].version \in Int
  <2>1. \A f \in Fetches : f.version \in Int
    BY DEF Fetches, Versions
  <2>2. pc \in [Threads -> Places] /\ fetched \in [Threads -> Fetches] /\ installed \in Fetches
    BY DEF TypeOK, CacheTypeOK, ThreadTypeOK
  <2>3. writes \in Int
    BY DEF TypeOK, CacheTypeOK, Versions
  <2> QED BY <2>1, <2>2, <2>3
<1>1. ASSUME NEW s \in Scenes, NEW value \in Versions, Write(s, value)
      PROVE  OrderInv'
  <2>1. writes' = writes + 1 /\ UNCHANGED <<installed, pc, fetched>>
    BY <1>1 DEF Write, cacheVars, threadVars
  <2> QED BY <1>0, <2>1 DEF OrderInv
<1>2. ASSUME NEW t \in Threads, Fetch(t)
      PROVE  OrderInv'
  <2>1. UNCHANGED <<writes, installed>>
    BY <1>2 DEF Fetch, dbVars, cacheVars
  <2>2. /\ fetched'[t].version = writes
        /\ \A u \in Threads \ {t} : pc'[u] = pc[u] /\ fetched'[u] = fetched[u]
    BY <1>0, <1>2 DEF Fetch, Goto, Database
  <2> QED BY <1>0, <2>1, <2>2 DEF OrderInv
<1>3. ASSUME NEW t \in Threads,
             Apply(t) \/ \E D \in SUBSET Scenes, x \in Scenes : ApplyFails(t, D, x)
      PROVE  OrderInv'
  <2>1. /\ pc[t] = "apply" /\ pc'[t] # "apply" /\ installed' = fetched[t]
        /\ \A u \in Threads \ {t} : pc'[u] = pc[u]
        /\ UNCHANGED <<writes, fetched>>
    BY <1>0, <1>3 DEF Apply, ApplyFails, Goto, dbVars
  <2>2. \A u \in Threads : pc'[u] # "apply"
    BY <2>1 DEF ForcedInv, OneRefresh, Refreshing
  <2> QED BY <2>1, <2>2 DEF OrderInv
<1>4. ASSUME NEW t \in Threads,
             \/ \E kind \in Kinds : Call(t, kind)
             \/ Check(t) \/ Enter(t) \/ Wait(t) \/ FetchFails(t)
             \/ Superseded(t) \/ Schedule(t) \/ Release(t) \/ Read(t)
      PROVE  OrderInv'
  <2>1. UNCHANGED <<writes, installed>>
    BY <1>4 DEF Call, Check, Enter, Wait, FetchFails, Superseded, Schedule, Release, Leave, Read,
                dbVars, cacheVars
  <2>2. pc'[t] # "apply"
    BY <1>0, <1>4 DEF Call, Check, Enter, Wait, FetchFails, Superseded, Schedule, Release, Leave,
                      Read, Goto, After
  <2>3. \A u \in Threads \ {t} : pc'[u] = pc[u] /\ fetched'[u] = fetched[u]
    BY <1>0, <1>4 DEF Call, Check, Enter, Wait, FetchFails, Superseded, Schedule, Release, Leave,
                      Read, Goto
  <2> QED BY <2>1, <2>2, <2>3 DEF OrderInv
<1>5. ASSUME Invalidate \/ Worker \/ UNCHANGED vars
      PROVE  OrderInv'
  <2>1. UNCHANGED <<writes, installed, pc, fetched>>
    BY <1>5 DEF Invalidate, Worker, Take, TearDown, WorkerExit, vars, dbVars, cacheVars, threadVars
  <2> QED BY <2>1 DEF OrderInv
<1> QED BY <1>1, <1>2, <1>3, <1>4, <1>5 DEF Next, Advance

\* Objects that hold a fetch's data, scene by scene, show the fetch.
LEMMA ObjectsShow ==
  ASSUME NEW fetch \in Fetches, NEW cells, NEW held,
         \A s \in Scenes : (cells[s] # 0 <=> fetch.found[s] # 0)
                            /\ (cells[s] # 0 => held[cells[s]] = fetch.found[s])
  PROVE  fetch = [found |-> [s \in Scenes |-> IF cells[s] = 0 THEN 0 ELSE held[cells[s]]],
                  version |-> fetch.version]
<1>1. PICK found \in [Scenes -> Versions], version \in Versions :
        fetch = [found |-> found, version |-> version]
  BY DEF Fetches
<1>2. \A s \in Scenes : found[s] = IF cells[s] = 0 THEN 0 ELSE held[cells[s]]
  BY <1>1
<1>3. found = [s \in Scenes |-> IF cells[s] = 0 THEN 0 ELSE held[cells[s]]]
  BY <1>2
<1> QED BY <1>1, <1>3

\* Every step maps to a step of DatabaseView, or to none.
LEMMA ViewStep ==
  ~BuildMayFail /\ TypeOK /\ TypeOK' /\ SceneMatchesData /\ SceneMatchesData'
    /\ FreshInv /\ OrderInv /\ [Next]_vars => [View!Next]_(View!viewVars)
<1> SUFFICES ASSUME ~BuildMayFail, TypeOK, TypeOK', SceneMatchesData, SceneMatchesData',
                    FreshInv, OrderInv, [Next]_vars
             PROVE  View!Next \/ UNCHANGED View!viewVars
  OBVIOUS
<1> DEFINE seen == IF valid THEN {Held} ELSE {}
<1>0. /\ seen = IF valid THEN {installed} ELSE {}
      /\ seen' = IF valid' THEN {installed'} ELSE {}
  <2>1. installed \in Fetches /\ installed' \in Fetches
    BY DEF TypeOK, CacheTypeOK
  <2>2. valid => Held = installed
    BY <2>1, ObjectsShow DEF SceneMatchesData, Held
  <2>3. valid' => Held' = installed'
    BY <2>1, ObjectsShow DEF SceneMatchesData, Held
  <2> QED BY <2>2, <2>3
<1>1. ASSUME UNCHANGED <<db, writes, since, valid, installed>>
      PROVE  UNCHANGED View!viewVars
  <2>1. Database' = Database /\ since' = since /\ seen' = seen
    BY <1>0, <1>1 DEF Database
  <2> QED BY <2>1 DEF View!viewVars
<1>2. ASSUME NEW s \in Scenes, NEW value \in Versions, Write(s, value)
      PROVE  View!Change(s, value)
  <2>1. /\ db' = [db EXCEPT ![s] = value] /\ writes' = writes + 1
        /\ since' = since \cup {Database'} /\ UNCHANGED <<valid, installed>>
    BY <1>2 DEF Write, cacheVars
  <2>2. Database' = [found |-> [Database.found EXCEPT ![s] = value], version |-> Database.version + 1]
    BY <2>1 DEF Database
  <2>3. seen' = seen
    BY <1>0, <2>1
  <2> QED BY <2>1, <2>2, <2>3 DEF View!Change
<1>3. CASE Invalidate
  <2>1. ~valid' /\ since' = {Database} /\ UNCHANGED <<db, writes>>
    BY <1>3 DEF Invalidate, dbVars
  <2>2. seen' = {} /\ Database' = Database
    BY <1>0, <2>1 DEF Database
  <2> QED BY <2>1, <2>2 DEF View!Next, View!Invalidate
<1>4. ASSUME NEW t \in Threads, Apply(t)
      PROVE  fetched[t] \in since /\ View!Load(fetched[t])
  <2>1. /\ pc[t] = "apply" /\ Current(t) /\ installed' = fetched[t] /\ valid'
        /\ UNCHANGED <<db, writes, since>>
    BY <1>4 DEF Apply, Install, dbVars
  <2>2. fetched[t] \in since
    BY <2>1 DEF FreshInv
  <2>3. \A content \in seen : content.version <= fetched[t].version
    BY <1>0, <2>1 DEF OrderInv
  <2>4. seen' = {fetched[t]} /\ Database' = Database
    BY <1>0, <2>1 DEF Database
  <2> QED BY <2>1, <2>2, <2>3, <2>4 DEF View!Load
<1>5. ASSUME NEW t \in Threads,
             \/ \E kind \in Kinds : Call(t, kind)
             \/ Check(t) \/ Enter(t) \/ Wait(t) \/ Fetch(t) \/ FetchFails(t)
             \/ Superseded(t) \/ Schedule(t) \/ Release(t) \/ Read(t)
      PROVE  UNCHANGED View!viewVars
  BY <1>1, <1>5 DEF Call, Check, Enter, Wait, Fetch, FetchFails, Superseded, Schedule, Release,
                    Leave, Read, dbVars, cacheVars
<1>6. ASSUME NEW t \in Threads, NEW D \in SUBSET Scenes, NEW x \in Scenes, ApplyFails(t, D, x)
      PROVE  FALSE
  BY <1>6 DEF ApplyFails
<1>7. ASSUME Worker \/ UNCHANGED vars
      PROVE  UNCHANGED View!viewVars
  BY <1>1, <1>7 DEF Worker, Take, TearDown, WorkerExit, vars, dbVars, cacheVars
<1> QED BY <1>2, <1>3, <1>4, <1>5, <1>6, <1>7 DEF Next, Advance, View!Next

\* While no construction raises, the cache implements DatabaseView: callers find
\* one content of the database, as new as the last change the service was told of,
\* and until it is told of the next one they never find an older one than before.
THEOREM ViewImplemented == ASSUME ~BuildMayFail PROVE Spec => ViewSpec
<1>1. Init => View!Init /\ OrderInv
  <2> SUFFICES ASSUME Init PROVE View!Init /\ OrderInv
    OBVIOUS
  <2>1. Database = [found |-> [s \in Scenes |-> 0], version |-> 0] /\ since = {Database}
    BY DEF Init, Database, EmptyFetch
  <2>2. valid /\ Held = Database
    BY <2>1 DEF Init, Held, EmptyFetch, NoCells
  <2>3. OrderInv
    BY DEF Init, OrderInv, EmptyFetch
  <2> QED BY <2>1, <2>2, <2>3 DEF View!Init
<1>2. TypeOK /\ TypeOK' /\ SceneMatchesData /\ SceneMatchesData' /\ FreshInv /\ OrderInv
        /\ [Next]_vars => [View!Next]_(View!viewVars)
  BY ViewStep, Zenon
<1>3. Spec => []SceneMatchesData
  BY CacheMatchesFetch
<1> QED BY <1>1, <1>2, <1>3, NextOrder, FreshInvHolds, ForcedInvHolds, TypeCorrect, PTL
        DEF Spec, ViewSpec, View!Spec

=============================================================================
