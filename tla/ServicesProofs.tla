--------------------------- MODULE ServicesProofs ---------------------------
(***************************************************************************)
(* Proofs about the services that MCServices puts next to each other: the  *)
(* threads of a category, the MQTT session of the tracker service, the     *)
(* remote children, the events of a region and the markers of a scene.     *)
(* They share no state, so each has its own invariant.                     *)
(***************************************************************************)
EXTENDS CategoryTrackers, MqttSession, RemoteChildren, RegionEvents, SceneRegistration,
        FiniteSetTheorems, SequenceTheorems, TLAPS

-----------------------------------------------------------------------------
(* The UUID manager of a category.                                          *)

Workers == {None, "idle", "busy", "closing", "dead"}

(* join() only looks at threads that were made, and a manager that was     *)
(* shut down belongs to a thread that has ended: no other thread ever      *)
(* takes its place.                                                        *)
ManagerInv ==
  /\ worker \in [Categories -> Workers]
  /\ manager \in [Categories -> {"open", "shut"}]
  /\ running \subseteq Created
  /\ \A c \in Categories : manager[c] = "shut" => worker[c] = "dead"

\* ManagerInv is inductive.
LEMMA ManagerStep == ManagerInv /\ [TrackersNext]_<<trackerVars, chunked>> => ManagerInv'
<1> SUFFICES ASSUME ManagerInv, [TrackersNext]_<<trackerVars, chunked>> PROVE ManagerInv'
  OBVIOUS
<1> USE DEF ManagerInv, Workers, None, Created
<1>1. ASSUME UNCHANGED <<running, worker, manager>> PROVE ManagerInv'
  BY <1>1
<1>2. ASSUME NEW m \in Messengers, NEW c \in Categories, TrackObjects(m, c) PROVE ManagerInv'
  BY <1>2 DEF TrackObjects
<1>3. ASSUME NEW c \in Categories, Worker(c) PROVE ManagerInv'
  <2>1. CASE Get(c)
    BY <2>1 DEF Get
  <2>2. CASE Tracked(c)
    BY <2>2 DEF Tracked
  <2>3. CASE End(c)
    BY <2>3 DEF End
  <2> QED BY <1>3, <2>1, <2>2, <2>3 DEF Worker
<1>4. CASE Join
  BY <1>4 DEF Join
<1>5. ASSUME NEW c \in Categories, Close(c) PROVE ManagerInv'
  BY <1>5 DEF Close, Closable, Alive
<1>6. ASSUME Signal PROVE UNCHANGED <<running, worker, manager>>
  BY <1>6 DEF Signal
<1>7. ASSUME Feeder PROVE UNCHANGED <<running, worker, manager>>
  BY <1>7 DEF Feeder, PopAll, FeedCategory, FeedDone, FeederStops
<1>8. ASSUME NEW m \in Messengers, Messenger(m) PROVE UNCHANGED <<running, worker, manager>>
  BY <1>8 DEF Messenger, CheckJoined, PutFrame
<1>9. CASE Joiner
  BY <1>1, <1>5, <1>6, <1>9 DEF Joiner, FeederJoined, ThreadsJoined
<1>10. CASE UNCHANGED <<trackerVars, chunked>>
  BY <1>1, <1>10 DEF trackerVars
<1> QED
  BY <1>1, <1>2, <1>3, <1>4, <1>7, <1>8, <1>9, <1>10 DEF TrackersNext

(* A thread that takes frames never has its UUID manager shut down under   *)
(* it, however long it outlives the deadline of join() (tracking.py:188,   *)
(* 278-282).                                                               *)
THEOREM ManagerHeldHolds == TrackersSpec => []ManagerHeld
<1>1. TrackersInit => ManagerInv
  BY DEF TrackersInit, ManagerInv, Workers, None, Created
<1>2. ManagerInv => ManagerHeld
  BY DEF ManagerInv, Workers, ManagerHeld
<1> QED BY <1>1, <1>2, ManagerStep, PTL DEF TrackersSpec

-----------------------------------------------------------------------------
(* The queue of a category.                                                 *)

\* Messengers that have found room for their frame.
Putting(c) == {m \in Messengers : message[m].pc = "put" /\ message[m].category = c}

(* A messenger between its look at the queue and its put counts as a frame *)
(* already there; without chunks the processor has nothing to hand on.     *)
QueueInv ==
  /\ message \in [Messengers -> [pc : {"none", "check", "put"}, category : Categories \cup {None}]]
  /\ trackQueue \in [Categories -> Seq({"frame", "stop"})]
  /\ chunked \in BOOLEAN
  /\ ~chunked => feeder = None
  /\ \A c \in Categories :
       Len(trackQueue[c]) <= Signals + IF chunked THEN 1
                                  ELSE Cardinality(Messengers) - Cardinality(Putting(c))

\* The numbers in QueueInv are natural numbers.
LEMMA Counts ==
  ASSUME IsFiniteSet(Messengers), NEW c \in Categories
  PROVE  /\ Cardinality(Messengers) \in Nat
         /\ Cardinality(Putting(c)) \in Nat
         /\ Cardinality(Putting(c)) <= Cardinality(Messengers)
         /\ Signals \in {0, 1}
<1>1. Putting(c) \in SUBSET Messengers
  BY DEF Putting
<1>2. IsFiniteSet(Putting(c)) /\ Cardinality(Putting(c)) <= Cardinality(Messengers)
  BY <1>1, FS_Subset
<1>3. Cardinality(Messengers) \in Nat /\ Cardinality(Putting(c)) \in Nat
  BY <1>2, FS_CardinalityType
<1>4. Signals \in {0, 1}
  BY DEF Signals
<1> QED BY <1>2, <1>3, <1>4

\* A step that keeps or shortens every queue, and lets no messenger in.
LEMMA QueueKept ==
  ASSUME IsFiniteSet(Messengers), QueueInv,
         trackQueue' \in [Categories -> Seq({"frame", "stop"})],
         \A c \in Categories : Len(trackQueue'[c]) <= Len(trackQueue[c]),
         message' = message, chunked' = chunked, Signals' = Signals,
         ~chunked => feeder' = None
  PROVE  QueueInv'
<1>1. \A c \in Categories : Putting(c)' = Putting(c)
  BY DEF Putting
<1>2. ASSUME NEW c \in Categories
      PROVE  Len(trackQueue'[c]) <= Signals' + IF chunked' THEN 1
                 ELSE Cardinality(Messengers) - Cardinality(Putting(c)')
  <2>1. Len(trackQueue[c]) \in Nat /\ Len(trackQueue'[c]) \in Nat
    BY LenProperties DEF QueueInv
  <2>2. Signals' = Signals /\ chunked' = chunked /\ Putting(c)' = Putting(c)
    BY <1>1
  <2>3. Len(trackQueue'[c]) <= Len(trackQueue[c])
    OBVIOUS
  <2>4. /\ Cardinality(Messengers) \in Nat /\ Cardinality(Putting(c)) \in Nat
        /\ Signals \in {0, 1}
    BY Counts
  <2>5. Len(trackQueue[c]) <= Signals + IF chunked THEN 1
                 ELSE Cardinality(Messengers) - Cardinality(Putting(c))
    BY DEF QueueInv
  <2> QED BY <2>1, <2>2, <2>3, <2>4, <2>5
<1> QED BY <1>2 DEF QueueInv

\* One more item at the end of a queue.
LEMMA LongerQueue ==
  ASSUME trackQueue \in [Categories -> Seq({"frame", "stop"})], NEW d, NEW x \in {"frame", "stop"}
  PROVE  [trackQueue EXCEPT ![d] = Append(@, x)] \in [Categories -> Seq({"frame", "stop"})]
<1>1. CASE d \in Categories
  <2>1. Append(trackQueue[d], x) \in Seq({"frame", "stop"})
    BY <1>1, AppendProperties
  <2> QED BY <1>1, <2>1
<1>2. CASE d \notin Categories
  BY <1>2
<1> QED BY <1>1, <1>2

\* A messenger that has looked at the queue, or has arrived.
LEMMA QueueTrack ==
  ASSUME IsFiniteSet(Messengers), QueueInv, NEW m \in Messengers, NEW d \in Categories,
         TrackObjects(m, d), chunked' = chunked
  PROVE  QueueInv'
<1>1. \A c \in Categories : Putting(c)' = Putting(c)
  BY DEF Putting, QueueInv, TrackObjects
<1>2. Signals' = Signals
  BY DEF Signals, TrackObjects
<1>3. message' \in [Messengers -> [pc : {"none", "check", "put"}, category : Categories \cup {None}]]
  BY DEF TrackObjects, QueueInv
<1>4. ~chunked => feeder' = None
  BY DEF TrackObjects, QueueInv
<1> QED BY <1>1, <1>2, <1>3, <1>4 DEF TrackObjects, QueueInv

LEMMA QueueCheck ==
  ASSUME IsFiniteSet(Messengers), QueueInv, NEW m \in Messengers, CheckJoined(m),
         chunked' = chunked
  PROVE  QueueInv'
<1> DEFINE d == message[m].category
<1>1. Signals' = Signals /\ feeder' = feeder /\ trackQueue' = trackQueue
  BY DEF Signals, CheckJoined
<1>2. message' \in [Messengers -> [pc : {"none", "check", "put"}, category : Categories \cup {None}]]
  BY DEF CheckJoined, QueueInv
<1>3. ASSUME NEW c \in Categories, ~chunked
      PROVE  Len(trackQueue[c]) <= Signals + (Cardinality(Messengers) - Cardinality(Putting(c)'))
  <2>1. CASE Putting(c)' = Putting(c)
    BY <1>3, <2>1 DEF QueueInv
  <2>2. CASE Putting(c)' # Putting(c)
    <3>1. d = c /\ ~Busy(c)
      BY <1>3, <2>2 DEF Putting, CheckJoined, QueueInv
    <3>2. Len(trackQueue[c]) = 0
      BY <3>1 DEF Busy
    <3>3. Putting(c)' \in SUBSET Messengers
      BY DEF Putting
    <3>4. /\ Cardinality(Putting(c)') \in Nat
          /\ Cardinality(Putting(c)') <= Cardinality(Messengers)
      BY <3>3, FS_Subset, FS_CardinalityType
    <3> QED BY <3>2, <3>4, Counts
  <2> QED BY <2>1, <2>2
<1> QED BY <1>1, <1>2, <1>3 DEF QueueInv

LEMMA QueuePut ==
  ASSUME IsFiniteSet(Messengers), QueueInv, NEW m \in Messengers, PutFrame(m), chunked' = chunked
  PROVE  QueueInv'
<1> DEFINE d == message[m].category
<1>1. Signals' = Signals /\ feeder' = feeder
  BY DEF Signals, PutFrame
<1>2. message' \in [Messengers -> [pc : {"none", "check", "put"}, category : Categories \cup {None}]]
  BY SMTT(30) DEF PutFrame, QueueInv
<1>3. trackQueue' \in [Categories -> Seq({"frame", "stop"})]
  <2>1. trackQueue' = trackQueue \/ trackQueue' = [trackQueue EXCEPT ![d] = Append(@, "frame")]
    BY DEF PutFrame
  <2>2. [trackQueue EXCEPT ![d] = Append(@, "frame")] \in [Categories -> Seq({"frame", "stop"})]
    BY LongerQueue DEF QueueInv
  <2> QED BY <2>1, <2>2 DEF QueueInv
<1>4. ASSUME NEW c \in Categories
      PROVE  Len(trackQueue'[c]) <= Signals + IF chunked THEN 1
                 ELSE Cardinality(Messengers) - Cardinality(Putting(c)')
  <2>1. CASE chunked
    BY <1>4, <2>1 DEF PutFrame, QueueInv
  <2>2. CASE ~chunked /\ d # c
    <3>1. trackQueue'[c] = trackQueue[c]
      BY <2>2 DEF PutFrame, QueueInv
    <3>2. Putting(c)' = Putting(c)
      BY <2>2 DEF PutFrame, Putting, QueueInv
    <3> QED BY <2>2, <3>1, <3>2 DEF QueueInv
  <2>3. CASE ~chunked /\ d = c
    <3>1. Len(trackQueue'[c]) = Len(trackQueue[c]) + 1
      BY <2>3 DEF PutFrame, QueueInv
    <3>2. Putting(c)' = Putting(c) \ {m}
      BY <2>3 DEF PutFrame, Putting, QueueInv
    <3>3. m \in Putting(c)
      BY <2>3 DEF PutFrame, Putting
    <3>4. IsFiniteSet(Putting(c))
      <4>1. Putting(c) \in SUBSET Messengers
        BY DEF Putting
      <4> QED BY <4>1, FS_Subset
    <3>5. Cardinality(Putting(c)') = Cardinality(Putting(c)) - 1
      BY <3>2, <3>3, <3>4, FS_RemoveElement
    <3>6. Len(trackQueue[c]) \in Nat
      BY LenProperties DEF QueueInv
    <3>7. Len(trackQueue[c]) <= Signals + (Cardinality(Messengers) - Cardinality(Putting(c)))
      BY <2>3 DEF QueueInv
    <3>8. /\ Cardinality(Messengers) \in Nat
          /\ Cardinality(Putting(c)) \in Nat
          /\ Signals \in {0, 1}
      BY Counts
    <3>9. Len(trackQueue[c]) + 1 <= Signals + (Cardinality(Messengers) - (Cardinality(Putting(c)) - 1))
      BY <3>6, <3>7, <3>8
    <3> QED BY <2>3, <3>1, <3>5, <3>9
  <2> QED BY <2>1, <2>2, <2>3
<1> QED BY <1>1, <1>2, <1>3, <1>4 DEF QueueInv

\* The processor hands a batch to a queue that is empty.
LEMMA QueueFeeder ==
  ASSUME IsFiniteSet(Messengers), QueueInv, Feeder, chunked' = chunked
  PROVE  QueueInv'
<1>1. feeder # None /\ chunked
  BY DEF Feeder, PopAll, FeedCategory, FeedDone, FeederStops, QueueInv, None
<1>2. Signals' = Signals /\ message' = message
  BY DEF Signals, Feeder, PopAll, FeedCategory, FeedDone, FeederStops
<1>3. CASE trackQueue' = trackQueue
  BY <1>1, <1>2, <1>3 DEF QueueInv
<1>4. ASSUME NEW d \in Categories, FeedCategory(d) PROVE QueueInv'
  <2>1. trackQueue' \in [Categories -> Seq({"frame", "stop"})]
    BY <1>4, LongerQueue DEF FeedCategory, QueueInv
  <2>2. ASSUME NEW c \in Categories PROVE Len(trackQueue'[c]) <= Signals + 1
    <3>1. CASE trackQueue'[c] = trackQueue[c]
      BY <1>1, <3>1 DEF QueueInv
    <3>2. CASE trackQueue'[c] # trackQueue[c]
      <4>1. trackQueue[c] = <<>> /\ trackQueue'[c] = Append(trackQueue[c], "frame")
        BY <1>4, <3>2 DEF FeedCategory, Busy, QueueInv
      <4>2. Len(trackQueue'[c]) = 1
        BY <4>1
      <4> QED BY <4>2 DEF Signals
    <3> QED BY <3>1, <3>2
  <2> QED BY <1>1, <1>2, <2>1, <2>2 DEF QueueInv
<1> QED BY <1>3, <1>4 DEF Feeder, PopAll, FeedDone, FeederStops

\* The signal of join() is the one item beside the frames.
LEMMA QueueJoiner ==
  ASSUME IsFiniteSet(Messengers), QueueInv, Joiner, chunked' = chunked
  PROVE  QueueInv'
<1>1. message' = message /\ feeder' = feeder
  BY DEF Joiner, FeederJoined, Signal, ThreadsJoined, Close
<1>2. CASE Signal
  <2>1. Signals = 0 /\ Signals' = 1
    BY <1>2 DEF Signal, Signals
  <2>2. trackQueue' \in [Categories -> Seq({"frame", "stop"})]
    BY <1>2 DEF Signal, QueueInv
  <2>3. ASSUME NEW c \in Categories
        PROVE  Len(trackQueue'[c]) <= Signals' + IF chunked THEN 1
                   ELSE Cardinality(Messengers) - Cardinality(Putting(c))
    <3>1. Len(trackQueue[c]) \in Nat
      BY LenProperties DEF QueueInv
    <3>2. Len(trackQueue'[c]) <= Len(trackQueue[c]) + 1 /\ Len(trackQueue'[c]) \in Nat
      BY <1>2, <3>1 DEF Signal, QueueInv
    <3> QED BY <2>1, <3>1, <3>2, Counts DEF QueueInv
  <2>4. \A c \in Categories : Putting(c)' = Putting(c)
    BY <1>1 DEF Putting
  <2> QED BY <1>1, <2>2, <2>3, <2>4 DEF QueueInv
<1>3. CASE ~Signal
  <2>1. trackQueue' = trackQueue /\ Signals' = Signals
    BY <1>3 DEF Joiner, FeederJoined, ThreadsJoined, Close, Signals
  <2>2. \A c \in Categories : Len(trackQueue'[c]) <= Len(trackQueue[c])
    BY <2>1, LenProperties DEF QueueInv
  <2> QED BY <1>1, <2>1, <2>2, QueueKept DEF QueueInv
<1> QED BY <1>2, <1>3

LEMMA QueueWorker ==
  ASSUME IsFiniteSet(Messengers), QueueInv, NEW d \in Categories, Worker(d), chunked' = chunked
  PROVE  QueueInv'
<1>1. message' = message /\ feeder' = feeder /\ Signals' = Signals
  BY DEF Worker, Get, Tracked, End, Signals
<1>2. CASE Get(d)
  <2>1. trackQueue[d] # <<>> /\ trackQueue' = [trackQueue EXCEPT ![d] = Tail(@)]
    BY <1>2 DEF Get
  <2>2. trackQueue' \in [Categories -> Seq({"frame", "stop"})]
    BY <2>1 DEF QueueInv
  <2>3. ASSUME NEW c \in Categories PROVE Len(trackQueue'[c]) <= Len(trackQueue[c])
    <3>1. Len(trackQueue[c]) \in Nat
      BY LenProperties DEF QueueInv
    <3>2. CASE c = d
      <4>1. trackQueue'[c] = Tail(trackQueue[c]) /\ trackQueue[c] # <<>>
        BY <2>1, <3>2 DEF QueueInv
      <4>2. Len(Tail(trackQueue[c])) = Len(trackQueue[c]) - 1
        BY <4>1 DEF QueueInv
      <4> QED BY <3>1, <4>1, <4>2
    <3>3. CASE c # d
      BY <2>1, <3>1, <3>3 DEF QueueInv
    <3> QED BY <3>2, <3>3
  <2> QED BY <1>1, <2>2, <2>3, QueueKept DEF QueueInv
<1>3. CASE trackQueue' = trackQueue
  <2>1. \A c \in Categories : Len(trackQueue'[c]) <= Len(trackQueue[c])
    BY <1>3, LenProperties DEF QueueInv
  <2> QED BY <1>1, <1>3, <2>1, QueueKept DEF QueueInv
<1> QED BY <1>2, <1>3 DEF Worker, Tracked, End

LEMMA QueueStep ==
  ASSUME IsFiniteSet(Messengers)
  PROVE  QueueInv /\ [TrackersNext]_<<trackerVars, chunked>> => QueueInv'
<1> SUFFICES ASSUME QueueInv, [TrackersNext]_<<trackerVars, chunked>> PROVE QueueInv'
  OBVIOUS
<1>1. chunked' = chunked
  BY DEF TrackersNext
<1>2. CASE UNCHANGED <<trackerVars, chunked>>
  <2>1. UNCHANGED <<message, trackQueue, feeder, joiner>>
    BY <1>2 DEF trackerVars
  <2>2. \A c \in Categories : Len(trackQueue'[c]) <= Len(trackQueue[c])
    BY <2>1, LenProperties DEF QueueInv
  <2> QED BY <1>1, <2>1, <2>2, QueueKept DEF QueueInv, Signals
<1>3. CASE Join
  <2>1. UNCHANGED <<message, trackQueue>> /\ Signals' = Signals
    BY <1>3 DEF Join, Signals
  <2>2. ~chunked => feeder' = None
    BY <1>3 DEF Join, QueueInv, None
  <2>3. \A c \in Categories : Len(trackQueue'[c]) <= Len(trackQueue[c])
    BY <2>1, LenProperties DEF QueueInv
  <2> QED BY <1>1, <2>1, <2>2, <2>3, QueueKept DEF QueueInv
<1>4. ASSUME NEW m \in Messengers, Messenger(m) PROVE QueueInv'
  BY <1>1, <1>4, QueueCheck, QueuePut DEF Messenger
<1> QED
  BY <1>1, <1>2, <1>3, <1>4, QueueTrack, QueueFeeder, QueueJoiner, QueueWorker DEF TrackersNext

(* However many threads bring messages, no category has more frames        *)
(* waiting than one, or without chunks one for each messenger that found   *)
(* the queue empty at the same time; join() adds one signal (tracking.py:  *)
(* 94, 262, time_chunking.py:107).                                         *)
THEOREM QueueBoundedHolds ==
  ASSUME IsFiniteSet(Messengers)
  PROVE  TrackersSpec => []QueueBounded
<1>1. TrackersInit => QueueInv
  <2> SUFFICES ASSUME TrackersInit PROVE QueueInv
    OBVIOUS
  <2>1. ASSUME NEW c \in Categories
        PROVE  Len(trackQueue[c]) <= Signals + IF chunked THEN 1
                   ELSE Cardinality(Messengers) - Cardinality(Putting(c))
    BY <2>1, Counts DEF TrackersInit, Signals
  <2> QED BY <2>1 DEF TrackersInit, QueueInv, None
<1>2. QueueInv => QueueBounded
  BY Counts DEF QueueInv, QueueBounded
<1>3. QueueInv /\ [TrackersNext]_<<trackerVars, chunked>> => QueueInv'
  BY QueueStep
<1> QED BY <1>1, <1>2, <1>3, PTL DEF TrackersSpec

-----------------------------------------------------------------------------
(* The MQTT session of the tracker service.                                 *)

\* The message handler is alive: constructed, and not yet destroyed.
HandlerLives == main \in {"insert", "send", "running", "unset"}

(* The callback is set exactly while the handler lives, and whoever runs   *)
(* it holds the mutex that taking it away needs.                           *)
HandlerInv ==
  /\ cb = [pc |-> cb.pc, event |-> cb.event, skip |-> cb.skip]
  /\ handler = "set" <=> HandlerLives
  /\ cb.pc = "handling" => handler = "set"

\* A step of the library's thread changes neither the handler nor the main thread.
LEMMA LibraryKeepsHandler == HandlerInv /\ Library => HandlerInv'
<1> SUFFICES ASSUME HandlerInv, Library PROVE HandlerInv'
  OBVIOUS
<1> USE DEF HandlerInv, HandlerLives
<1>1. CASE Enter \/ Count \/ SetConnected \/ Resubscribe \/ HandleUpdate \/ Leave
  <2>1. UNCHANGED <<handler, main>>
    BY <1>1 DEF Enter, Count, SetConnected, Resubscribe, HandleUpdate, Leave, client
  <2>2. \E pc \in {"none", "count", "body", "resubscribe", "leave"} : \E ev, skip :
          cb' = [pc |-> pc, event |-> ev, skip |-> skip]
    BY <1>1 DEF Enter, Count, SetConnected, Resubscribe, HandleUpdate, Leave, Callback, NoCallback
  <2> QED BY <2>1, <2>2
<1>2. CASE Arrive
  BY <1>2 DEF Arrive, Callback, client
<1> QED BY <1>1, <1>2 DEF Library

(* No message reaches the handler before it exists or after it is          *)
(* destroyed, although the library's thread and the main thread agree only *)
(* on the mutex: the flags that tell callbacks to stop come later          *)
(* (mqtt_client.cpp:187-207, main.cpp:222-223).                            *)
THEOREM HandlerSafe == SessionSpec => []HandlerOutlivesCalls
<1>1. SessionInit => HandlerInv
  BY DEF SessionInit, HandlerInv, HandlerLives, NoCallback
<1>2. HandlerInv /\ [SessionNext]_sessionVars => HandlerInv'
  <2> SUFFICES ASSUME HandlerInv, [SessionNext]_sessionVars PROVE HandlerInv'
    OBVIOUS
  <2> USE DEF HandlerInv, HandlerLives
  <2>1. CASE UNCHANGED sessionVars
    BY <2>1 DEF sessionVars
  <2>2. CASE Update \/ LinkUp \/ LinkLost \/ ConnectFails
    BY <2>2 DEF Update, LinkUp, LinkLost, ConnectFails, client
  <2>3. CASE Library
    BY <2>3, LibraryKeepsHandler
  <2>4. CASE LoadScenes \/ ConnectClient \/ Insert \/ Send \/ Run \/ Unsubscribe
    BY <2>4 DEF LoadScenes, ConnectClient, Insert, Send, Run, Unsubscribe, client
  <2>5. CASE UnsetCallback
    BY <2>5 DEF UnsetCallback, MutexFree
  <2>6. CASE Disconnect \/ Drained \/ Exit
    BY <2>6 DEF Disconnect, Drained, Exit, NoCallback
  <2> QED BY <2>1, <2>2, <2>3, <2>4, <2>5, <2>6 DEF SessionNext, Main
<1>3. HandlerInv => HandlerOutlivesCalls
  BY DEF HandlerInv, HandlerLives, HandlerOutlivesCalls
<1> QED BY <1>1, <1>2, <1>3, PTL DEF SessionSpec

-----------------------------------------------------------------------------
(* The remote children: controllers, loops and the reconcile.               *)

Names == Hosts \cup {"none"}
KidRecords == [child : Children, host : Names, loop : BOOLEAN, up : BOOLEAN,
         tell : {"none", "connected", "disconnected"}]

KidsTypeOK ==
  /\ row \in [Children -> Names]
  /\ made \in Seq(KidRecords)

\* The controller is the one of its child.
Owned(k) == kids[made[k].child] = k /\ made[k].child \in described

(* While the rows are read: who has changed gives way, once, to one that is *)
(* new and does not run yet.                                               *)
ReadKept ==
  /\ job.next \in [Children -> 0..Len(made)]
  /\ \A c \in Children :
       /\ job.next[c] # 0 => made[job.next[c]].child = c /\ c \in described
       /\ ParentOf[c] \in job.todo => job.next[c] = 0
       /\ kids[c] # 0 /\ job.next[c] \notin {0, kids[c]} => kids[c] \in job.stop
  /\ \A k \in job.start : job.next[made[k].child] = k

\* While loops end and start: who is not owned any more is to be stopped.
StopKept ==
  /\ \A k \in Controllers : Running(k) => k \in job.stop \/ Owned(k)
  /\ \A k \in job.start : Owned(k)

JobKept ==
  /\ job = [at |-> job.at, todo |-> job.todo, next |-> job.next, stop |-> job.stop, start |-> job.start]
  /\ job.at \in {"read", "stop"}
  /\ job.start \subseteq Controllers
  /\ \A k \in job.start : ~Running(k)
  /\ job.at = "read" => ReadKept
  /\ job.at = "stop" => StopKept

\* Between the flag and what is said of it.
Answering == job.at = "answer" /\ job.child \in Children /\ kids[job.child] # 0

KidsKept ==
  /\ kids \in [Children -> 0..Len(made)]
  /\ \A c \in Children : kids[c] # 0 => made[kids[c]].child = c
  /\ \A j, k \in Controllers : Running(j) /\ Running(k) /\ made[j].child = made[k].child => j = k
  /\ job.at # "stop" => \A k \in Controllers : Running(k) => Owned(k)
  /\ job = NoJob \/ JobKept \/ Answering

HaveClients == \A k \in Controllers : HasClient(k)

KidsInv == KidsTypeOK /\ (HaveClients => KidsKept)

\* SetToSeq names every element of a finite set.
LEMMA SetToSeqFacts ==
  ASSUME NEW S, IsFiniteSet(S)
  PROVE  /\ Cardinality(S) \in Nat
         /\ SetToSeq(S) \in [1..Cardinality(S) -> S]
         /\ \A x \in S : \E i \in 1..Cardinality(S) : SetToSeq(S)[i] = x
<1> DEFINE n == Cardinality(S)
<1>1. n \in Nat /\ IsFiniteSet(1..n) /\ Cardinality(1..n) = n
  BY FS_CardinalityType, FS_Interval
<1>2. ExistsBijection(1..n, S)
  BY <1>1, FS_SameCardinalityBij
<1>3. PICK f \in [1..n -> S] : IsInjective(f)
  BY <1>2 DEF ExistsBijection, Bijection, Injection, IsInjective
<1>4. PICK q : q = SetToSeq(S) /\ q \in [1..n -> S] /\ IsInjective(q)
  BY <1>3 DEF SetToSeq
<1>5. q \in Surjection(1..n, S)
  <2>1. q \in Injection(1..n, S)
    BY <1>4, Zenon DEF Injection
  <2> QED BY <1>1, <2>1, FS_Injection
<1> QED BY <1>1, <1>4, <1>5 DEF Surjection

\* There are n new controllers, and those of the children have the numbers "new".
NewKids(s, n, new) ==
  /\ made' \in Seq(KidRecords) /\ Len(made') = Len(made) + n
  /\ \A k \in Controllers : made'[k] = made[k]
  /\ \A k \in (Len(made) + 1)..(Len(made) + n) :
       ~made'[k].loop /\ ~made'[k].up /\ made'[k].tell = "none"
  /\ \A c \in Changed(s) : new[c] \in (Len(made) + 1)..(Len(made) + n) /\ made'[new[c]].child = c

\* The reconcile takes them up.
JobTakes(s, new) ==
  job' = [job EXCEPT
    !.todo = @ \ {s},
    !.next = [c \in Children |-> IF c \notin Wanted(s) THEN @[c]
                                 ELSE IF Reused(c) THEN kids[c] ELSE new[c]],
    !.start = @ \cup {new[c] : c \in Changed(s)},
    !.stop = @ \cup ({kids[c] : c \in Changed(s)} \ {0})]

LEMMA MadeLength ==
  ASSUME KidsTypeOK
  PROVE  made \in Seq(KidRecords) /\ Len(made) \in Nat /\ Controllers = 1..Len(made)
<1>1. made \in Seq(KidRecords)
  BY DEF KidsTypeOK
<1> QED BY <1>1, LenProperties DEF Controllers

\* What reading the rows of a scene does to controllers and reconcile.
LEMMA SceneRead ==
  ASSUME KidsTypeOK, NEW s \in Parents, NEW refused \in SUBSET Wanted(s), ReadScene(s, refused)
  PROVE  \E n \in Nat, new \in [Changed(s) -> Nat] : NewKids(s, n, new) /\ JobTakes(s, new)
<1> DEFINE n == Cardinality(Changed(s))
           at(c) == CHOOSE i \in DOMAIN Fresh(s) : Fresh(s)[i] = c
           new == [c \in Changed(s) |-> Place(s, c)]
           added == NewControllers(s)
<1>1. IsFiniteSet(Changed(s)) /\ Changed(s) \subseteq Children
  BY ChildrenAssumption, FS_Subset DEF Changed, Wanted
<1>2. /\ n \in Nat /\ Fresh(s) \in [1..n -> Changed(s)]
      /\ \A c \in Changed(s) : \E i \in 1..n : Fresh(s)[i] = c
  BY <1>1, SetToSeqFacts DEF Fresh
<1>3. \A c \in Changed(s) : at(c) \in 1..n /\ Fresh(s)[at(c)] = c
  BY <1>2
<1>4. new \in [Changed(s) -> (Len(made) + 1)..(Len(made) + n)] /\ Len(made) \in Nat
  <2>1. Len(made) \in Nat
    BY MadeLength
  <2>2. \A c \in Changed(s) : Place(s, c) \in (Len(made) + 1)..(Len(made) + n)
    BY <1>2, <1>3, <2>1 DEF Place
  <2> QED BY <2>1, <2>2
<1>5. /\ added \in [1..n -> KidRecords]
      /\ \A i \in 1..n : /\ ~added[i].loop /\ ~added[i].up /\ added[i].tell = "none"
                         /\ added[i].child = Fresh(s)[i]
  <2>1. \A i \in 1..n : Fresh(s)[i] \in Children /\ row[Fresh(s)[i]] \in Names
    BY <1>1, <1>2 DEF KidsTypeOK
  <2>2. \A i \in 1..n : /\ NewController(Fresh(s)[i]) \in KidRecords /\ ~NewController(Fresh(s)[i]).loop
                       /\ ~NewController(Fresh(s)[i]).up /\ NewController(Fresh(s)[i]).tell = "none"
                       /\ NewController(Fresh(s)[i]).child = Fresh(s)[i]
    BY <2>1 DEF NewController, KidRecords
  <2> QED BY <1>2, <2>2 DEF NewControllers
<1>6. /\ made' \in Seq(KidRecords) /\ Len(made') = Len(made) + n
      /\ \A i \in 1..(Len(made) + n) : made'[i] = IF i <= Len(made) THEN made[i] ELSE added[i - Len(made)]
  <2>1. added \in Seq(KidRecords) /\ Len(added) = n
    BY <1>2, <1>5
  <2>2. made \in Seq(KidRecords) /\ made' = made \o added
    BY DEF KidsTypeOK, ReadScene
  <2> HIDE DEF added
  <2> QED BY <2>1, <2>2, ConcatProperties, ZenonT(60)
<1> HIDE DEF added
<1>7. \A k \in Controllers : made'[k] = made[k]
  BY <1>2, <1>4, <1>6 DEF KidsTypeOK, Controllers
<1>8. \A k \in (Len(made) + 1)..(Len(made) + n) :
        ~made'[k].loop /\ ~made'[k].up /\ made'[k].tell = "none"
  BY <1>2, <1>4, <1>5, <1>6, SMTT(30)
<1>9. \A c \in Changed(s) : made'[new[c]].child = c
  <2>1. ASSUME NEW c \in Changed(s) PROVE made'[new[c]].child = c
    <3>1. new[c] = Len(made) + at(c) /\ at(c) \in 1..n /\ Fresh(s)[at(c)] = c
      BY <1>3 DEF Place
    <3>2. made'[new[c]] = added[at(c)]
      BY <1>2, <1>4, <1>6, <3>1
    <3> QED BY <1>5, <3>1, <3>2
  <2> QED BY <2>1
<1>10. JobTakes(s, new)
  <2>1. \A c \in Children : c \in Wanted(s) /\ ~Reused(c) => new[c] = Place(s, c)
    BY DEF Changed
  <2>2. {new[c] : c \in Changed(s)} = {Place(s, c) : c \in Changed(s)}
    OBVIOUS
  <2> HIDE DEF new
  <2> QED BY <2>1, <2>2, ZenonT(60) DEF ReadScene, JobTakes
<1> HIDE DEF n, new
<1>11. NewKids(s, n, new)
  BY <1>4, <1>6, <1>7, <1>8, <1>9, Zenon DEF NewKids
<1>12. new \in [Changed(s) -> Nat]
  BY <1>2, <1>4
<1> QED BY <1>2, <1>10, <1>11, <1>12, Zenon

\* One controller changes, of the same child and host.
LEMMA KidSet ==
  ASSUME KidsTypeOK, NEW k \in Controllers, NEW r \in KidRecords, made' = [made EXCEPT ![k] = r]
  PROVE  /\ made' \in Seq(KidRecords) /\ Len(made') = Len(made) /\ Controllers' = Controllers
         /\ made'[k] = r /\ \A j \in Controllers : j # k => made'[j] = made[j]
<1>1. made \in Seq(KidRecords) /\ k \in 1..Len(made) /\ DOMAIN made = 1..Len(made)
  BY DEF KidsTypeOK, Controllers
<1>2. made' \in Seq(KidRecords) /\ Len(made') = Len(made)
      /\ \A j \in 1..Len(made) : made'[j] = IF j = k THEN r ELSE made[j]
  BY <1>1, ExceptSeq
<1> QED BY <1>1, <1>2 DEF Controllers

\* A step that starts and ends no loop, and leaves the reconcile alone.
LEMMA KidsQuiet ==
  ASSUME KidsInv, UNCHANGED <<kids, described, job>>, row' \in [Children -> Names],
         made' \in Seq(KidRecords), Len(made') = Len(made),
         \A k \in Controllers : /\ made'[k].loop = made[k].loop /\ made'[k].child = made[k].child
                                /\ made'[k].host = made[k].host
  PROVE  KidsInv'
<1>1. Controllers' = Controllers /\ Controllers = 1..Len(made) /\ Len(made) \in Nat
  BY DEF KidsInv, KidsTypeOK, Controllers
<1>2. KidsTypeOK'
  BY DEF KidsInv, KidsTypeOK
<1>3. SUFFICES ASSUME HaveClients' PROVE KidsKept'
  BY <1>2 DEF KidsInv
<1>4. KidsKept
  BY <1>1, <1>3 DEF KidsInv, HaveClients, HasClient
<1>5. \A k \in Controllers : /\ Running(k)' <=> Running(k)
                             /\ Owned(k)' <=> Owned(k)
  BY DEF Running, Owned
<1>6. \A c \in Children : kids[c] # 0 => kids[c] \in Controllers
  BY <1>1, <1>4 DEF KidsKept
<1>7. ASSUME JobKept PROVE JobKept'
  <2>1. ASSUME ReadKept PROVE ReadKept'
    <3>1. \A c \in Children : job.next[c] # 0 => job.next[c] \in Controllers
      BY <1>1, <2>1 DEF ReadKept
    <3>2. \A k \in job.start : k \in Controllers
      BY <1>7 DEF JobKept
    <3> QED BY <1>1, <2>1, <3>1, <3>2 DEF ReadKept
  <2>2. ASSUME StopKept PROVE StopKept'
    BY <1>1, <1>5, <1>7, <2>2 DEF StopKept, JobKept
  <2> QED BY <1>1, <1>5, <1>7, <2>1, <2>2 DEF JobKept
<1>8. Answering => Answering'
  BY DEF Answering
<1> QED BY <1>1, <1>4, <1>5, <1>6, <1>7, <1>8 DEF KidsKept

\* The callbacks of the loops.
LEMMA KidsTurn ==
  ASSUME KidsInv, NEW k \in Controllers,
         ChildTells(k) \/ \E up \in BOOLEAN : ChildTurns(k, up)
  PROVE  KidsInv'
<1>1. made[k] \in KidRecords
  BY DEF KidsInv, KidsTypeOK, Controllers
<1>2. PICK r \in KidRecords :
        /\ made' = [made EXCEPT ![k] = r]
        /\ r.loop = made[k].loop /\ r.child = made[k].child /\ r.host = made[k].host
  <2>1. CASE ChildTells(k)
    <3> DEFINE r == [made[k] EXCEPT !.tell = "none"]
    <3>1. made' = [made EXCEPT ![k] = r]
      BY <2>1 DEF ChildTells
    <3>2. r \in KidRecords
      BY <1>1 DEF KidRecords
    <3>3. r.loop = made[k].loop /\ r.child = made[k].child /\ r.host = made[k].host
      BY <1>1 DEF KidRecords
    <3> QED BY <3>1, <3>2, <3>3, Zenon
  <2>2. ASSUME NEW up \in BOOLEAN, ChildTurns(k, up)
        PROVE  \E r \in KidRecords :
                 /\ made' = [made EXCEPT ![k] = r]
                 /\ r.loop = made[k].loop /\ r.child = made[k].child /\ r.host = made[k].host
    <3> DEFINE tell == IF up THEN "connected" ELSE "disconnected"
               r == [made[k] EXCEPT !.up = up, !.tell = tell]
    <3>1. made' = [made EXCEPT ![k] = r]
      BY <2>2 DEF ChildTurns, Flagged, Word
    <3>2. tell \in {"none", "connected", "disconnected"}
      OBVIOUS
    <3>3. r \in KidRecords
      BY <1>1, <3>2 DEF KidRecords
    <3>4. r.loop = made[k].loop /\ r.child = made[k].child /\ r.host = made[k].host
      BY <1>1 DEF KidRecords
    <3> QED BY <3>1, <3>3, <3>4
  <2> QED BY <2>1, <2>2
<1>3. UNCHANGED <<row, kids, described, job>>
  BY DEF ChildTells, ChildTurns
<1>4. /\ made' \in Seq(KidRecords) /\ Len(made') = Len(made)
      /\ made'[k] = r /\ \A j \in Controllers : j # k => made'[j] = made[j]
  BY <1>2, KidSet, Zenon DEF KidsInv
<1>5. \A j \in Controllers : /\ made'[j].loop = made[j].loop /\ made'[j].child = made[j].child
                             /\ made'[j].host = made[j].host
  BY <1>2, <1>4
<1> QED BY <1>3, <1>4, <1>5, KidsQuiet DEF KidsInv, KidsTypeOK

\* The rows are read for the next reconcile.
LEMMA KidsRead ==
  ASSUME KidsInv, NEW s \in Parents, NEW refused \in SUBSET Wanted(s), ReadScene(s, refused)
  PROVE  KidsInv'
<1>0. KidsTypeOK /\ Len(made) \in Nat /\ Controllers = 1..Len(made)
  BY MadeLength DEF KidsInv
<1>1. PICK n \in Nat, new \in [Changed(s) -> Nat] : NewKids(s, n, new) /\ JobTakes(s, new)
  BY <1>0, SceneRead, Zenon
<1>e. job' = [job EXCEPT
             !.todo = @ \ {s},
             !.next = [c \in Children |-> IF c \notin Wanted(s) THEN @[c]
                                          ELSE IF Reused(c) THEN kids[c] ELSE new[c]],
             !.start = @ \cup {new[c] : c \in Changed(s)},
             !.stop = @ \cup ({kids[c] : c \in Changed(s)} \ {0})]
  BY <1>1 DEF JobTakes
<1>f. /\ \A c \in Changed(s) : new[c] \in (Len(made) + 1)..(Len(made) + n) /\ made'[new[c]].child = c
      /\ made' \in Seq(KidRecords) /\ Len(made') = Len(made) + n
      /\ \A k \in Controllers : made'[k] = made[k]
      /\ \A k \in (Len(made) + 1)..(Len(made) + n) : ~made'[k].loop
  BY <1>1 DEF NewKids
<1>2. UNCHANGED <<row, kids>> /\ described' = described \cup Wanted(s) /\ job.at = "read" /\ s \in job.todo
  BY DEF ReadScene
<1>3. KidsTypeOK'
  BY <1>0, <1>f, <1>2 DEF KidsTypeOK
<1>4. Controllers \subseteq Controllers' /\ Controllers' = 1..(Len(made) + n)
  BY <1>0, <1>f, <1>3 DEF KidsTypeOK, Controllers
<1>5. SUFFICES ASSUME HaveClients' PROVE KidsKept'
  BY <1>3 DEF KidsInv
<1>6. KidsKept
  BY <1>f, <1>4, <1>5 DEF KidsInv, HaveClients, HasClient
<1>7. JobKept /\ ReadKept /\ \A k \in Controllers : Running(k) => Owned(k)
  BY <1>2, <1>6 DEF KidsKept, JobKept, NoJob, Answering
<1>8. \A k \in Controllers' : Running(k)' => k \in Controllers /\ Running(k)
  <2>1. \A k \in Controllers' : k \in Controllers \/ k \in (Len(made) + 1)..(Len(made) + n)
    BY <1>0, <1>f, <1>4
  <2> QED BY <1>f, <2>1 DEF Running
<1>9. \A k \in Controllers : Owned(k) => Owned(k)'
  BY <1>f, <1>2 DEF Owned
<1>10. \A c \in Children : kids[c] # 0 => kids[c] \in Controllers /\ made[kids[c]].child = c
  BY <1>0, <1>6 DEF KidsKept
<1>11. JobKept'
  <2>1. PICK next \in [Children -> Nat] :
          /\ \A c \in Children : next[c] = IF c \notin Wanted(s) THEN job.next[c]
                                           ELSE IF Reused(c) THEN kids[c] ELSE new[c]
          /\ job' = [at |-> "read", todo |-> job.todo \ {s}, next |-> next,
                     stop |-> job.stop \cup ({kids[c] : c \in Changed(s)} \ {0}),
                     start |-> job.start \cup {new[c] : c \in Changed(s)}]
    <3> DEFINE next == [c \in Children |-> IF c \notin Wanted(s) THEN job.next[c]
                                           ELSE IF Reused(c) THEN kids[c] ELSE new[c]]
    <3>1. next \in [Children -> Nat]
      BY <1>0, <1>6, <1>f, <1>7 DEF ReadKept, KidsKept, Changed
    <3>2. job' = [job EXCEPT !.todo = @ \ {s}, !.next = next,
                    !.start = @ \cup {new[c] : c \in Changed(s)},
                    !.stop = @ \cup ({kids[c] : c \in Changed(s)} \ {0})]
      BY <1>e
    <3>3. job = [at |-> "read", todo |-> job.todo, next |-> job.next, stop |-> job.stop, start |-> job.start]
      BY <1>2, <1>7 DEF JobKept
    <3> HIDE DEF next
    <3>4. job' = [at |-> "read", todo |-> job.todo \ {s}, next |-> next,
                     stop |-> job.stop \cup ({kids[c] : c \in Changed(s)} \ {0}),
                     start |-> job.start \cup {new[c] : c \in Changed(s)}]
      <4> DEFINE more == {new[c] : c \in Changed(s)}
                 over == {kids[c] : c \in Changed(s)} \ {0}
      <4>1. job' = [job EXCEPT !.todo = @ \ {s}, !.next = next, !.start = @ \cup more, !.stop = @ \cup over]
        BY <3>2
      <4> HIDE DEF more, over
      <4>2. job' = [at |-> "read", todo |-> job.todo \ {s}, next |-> next,
                    stop |-> job.stop \cup over, start |-> job.start \cup more]
        <5>1. PICK td, nx, sp, sr :
                job = [at |-> "read", todo |-> td, next |-> nx, stop |-> sp, start |-> sr]
          BY <3>3
        <5>2. job.todo = td /\ job.stop = sp /\ job.start = sr
          BY <5>1
        <5>3. PICK j : j = job'
          OBVIOUS
        <5>4. j = [job EXCEPT !.todo = td \ {s}, !.next = next, !.start = sr \cup more, !.stop = sp \cup over]
          BY <4>1, <5>2, <5>3
        <5>5. j.at = "read" /\ j.todo = td \ {s} /\ j.next = next /\ j.stop = sp \cup over /\ j.start = sr \cup more
          BY <5>1, <5>4
        <5>6. j = [at |-> j.at, todo |-> j.todo, next |-> j.next, stop |-> j.stop, start |-> j.start]
          BY <5>1, <5>4
        <5> QED BY <5>2, <5>3, <5>5, <5>6
      <4> QED BY <4>2 DEF more, over
    <3> QED BY <3>1, <3>4 DEF next
  <2>2. /\ job'.at = "read" /\ job'.todo = job.todo \ {s} /\ job'.next = next
        /\ job'.stop = job.stop \cup ({kids[c] : c \in Changed(s)} \ {0})
        /\ job'.start = job.start \cup {new[c] : c \in Changed(s)}
        /\ job' = [at |-> job'.at, todo |-> job'.todo, next |-> job'.next,
                   stop |-> job'.stop, start |-> job'.start]
    BY <2>1
  <2>n. /\ next \in [Children -> Nat]
        /\ \A c \in Children : next[c] = IF c \notin Wanted(s) THEN job.next[c]
                                         ELSE IF Reused(c) THEN kids[c] ELSE new[c]
    BY <2>1
  <2>3. \A c \in Children : c \in Wanted(s) => ParentOf[c] = s /\ job.next[c] = 0
    BY <1>2, <1>7 DEF Wanted, ReadKept
  <2>4. \A k \in job'.start : k \in Controllers' /\ ~Running(k)'
    <3>1. \A k \in job.start : k \in Controllers /\ ~Running(k)
      BY <1>7 DEF JobKept
    <3>2. \A c \in Changed(s) : new[c] \in Controllers' /\ ~Running(new[c])'
      BY <1>0, <1>f, <1>4 DEF Running
    <3> QED BY <1>f, <1>4, <2>2, <3>1, <3>2 DEF Running
  <2>5. next \in [Children -> 0..Len(made')]
    <3>1. ASSUME NEW c \in Children PROVE next[c] \in 0..Len(made')
      <4>1. CASE c \notin Wanted(s)
        BY <1>0, <1>f, <1>7, <2>n, <4>1 DEF ReadKept
      <4>2. CASE c \in Wanted(s) /\ Reused(c)
        BY <1>0, <1>6, <1>f, <2>n, <4>2 DEF KidsKept
      <4>3. CASE c \in Changed(s)
        BY <1>0, <1>f, <2>n, <4>3 DEF Changed
      <4> QED BY <4>1, <4>2, <4>3 DEF Changed
    <3> QED BY <2>n, <3>1
  <2>6. ASSUME NEW c \in Children
        PROVE  /\ next[c] # 0 => made'[next[c]].child = c /\ c \in described'
               /\ ParentOf[c] \in job'.todo => next[c] = 0
               /\ kids[c] # 0 /\ next[c] \notin {0, kids[c]} => kids[c] \in job'.stop
    <3>1. CASE c \notin Wanted(s)
      <4>1. next[c] = job.next[c] /\ (job.next[c] # 0 => job.next[c] \in Controllers)
        BY <1>0, <1>7, <2>n, <3>1 DEF ReadKept
      <4> QED BY <1>f, <1>2, <1>7, <2>2, <4>1 DEF ReadKept
    <3>2. CASE c \in Wanted(s) /\ Reused(c)
      BY <1>f, <1>2, <1>10, <2>n, <2>2, <2>3, <3>2
    <3>3. CASE c \in Changed(s)
      BY <1>f, <1>2, <2>n, <2>2, <2>3, <3>3 DEF Changed
    <3> QED BY <3>1, <3>2, <3>3 DEF Changed
  <2>7. ASSUME NEW k \in job'.start PROVE next[made'[k].child] = k
    <3>1. CASE k \in job.start
      <4>1. k \in Controllers /\ job.next[made[k].child] = k /\ k # 0
        BY <1>0, <1>7, <3>1 DEF JobKept, ReadKept
      <4>2. made[k] \in KidRecords
        BY <1>0, <4>1 DEF KidsTypeOK
      <4>3. made[k].child \in Children
        BY <4>2 DEF KidRecords
      <4> QED BY <1>f, <2>n, <2>3, <4>1, <4>3
    <3>2. CASE \E c \in Changed(s) : k = new[c]
      BY <1>f, <2>n, <3>2 DEF Changed, Wanted
    <3> QED BY <2>2, <3>1, <3>2
  <2>8. ReadKept'
    BY <1>2, <2>2, <2>5, <2>6, <2>7 DEF ReadKept
  <2> QED BY <2>2, <2>4, <2>8 DEF JobKept
<1>12. \A c \in Children : kids'[c] # 0 => made'[kids'[c]].child = c
  BY <1>f, <1>2, <1>10
<1>13. \A k \in Controllers' : Running(k)' => Owned(k)'
  BY <1>7, <1>8, <1>9
<1>14. \A j, k \in Controllers' : Running(j)' /\ Running(k)' /\ made'[j].child = made'[k].child => j = k
  BY <1>f, <1>6, <1>8 DEF KidsKept
<1>15. kids' \in [Children -> 0..Len(made')]
  BY <1>0, <1>2, <1>6, <1>f DEF KidsKept
<1> QED BY <1>11, <1>12, <1>13, <1>14, <1>15 DEF KidsKept

LEMMA KidsInitial == ChildrenInit => KidsInv
<1> SUFFICES ASSUME ChildrenInit PROVE KidsInv
  OBVIOUS
<1>1. made = <<>> /\ kids = NoChild /\ job = NoJob /\ row = FirstRow
  BY DEF ChildrenInit
<1>2. made \in Seq(KidRecords) /\ Len(made) = 0 /\ Controllers = {}
  BY <1>1 DEF Controllers
<1> QED BY <1>1, <1>2, ChildrenAssumption DEF KidsInv, KidsTypeOK, KidsKept, NoChild, Names

\* A step of the reconcile that leaves the controllers as they are.
LEMMA KidsJob ==
  ASSUME KidsInv, UNCHANGED <<row, made>>, KidsKept => KidsKept'
  PROVE  KidsInv'
<1>1. KidsTypeOK'
  BY DEF KidsInv, KidsTypeOK
<1>2. HaveClients' => HaveClients
  BY DEF HaveClients, HasClient, Controllers
<1> QED BY <1>1, <1>2 DEF KidsInv

\* The reconcile begins, is interrupted, or is over.
LEMMA KidsBegin ==
  ASSUME KidsInv,
         \/ OnConnect \/ OnNotice \/ ReadRaises \/ Finish \/ \E s \in Parents : ReadFails(s)
  PROVE  KidsInv'
<1>0. UNCHANGED <<row, made, kids, described>> /\ Controllers' = Controllers
      /\ \A k : (Running(k)' <=> Running(k)) /\ (Owned(k)' <=> Owned(k))
  BY DEF OnConnect, OnNotice, ReadRaises, Finish, ReadFails, Controllers, Running, Owned
<1>2. SUFFICES ASSUME KidsKept PROVE KidsKept'
  BY <1>0, KidsJob
<1>3. CASE OnConnect \/ OnNotice
  <2>1. job.at # "stop" /\ job' = [at |-> "read", todo |-> Parents, next |-> NoChild, stop |-> {}, start |-> {}]
    BY <1>3 DEF OnConnect, OnNotice, Begin, NoJob
  <2>2. job'.at = "read" /\ job'.next = NoChild /\ job'.start = {}
        /\ job' = [at |-> job'.at, todo |-> job'.todo, next |-> job'.next, stop |-> job'.stop, start |-> job'.start]
    BY <2>1
  <2>3. NoChild \in [Children -> 0..Len(made)] /\ \A c \in Children : NoChild[c] = 0
    BY DEF NoChild, KidsInv, KidsTypeOK
  <2>4. ReadKept'
    BY <1>0, <2>2, <2>3 DEF ReadKept
  <2>5. JobKept'
    BY <2>2, <2>4 DEF JobKept
  <2> QED BY <1>0, <1>2, <2>1, <2>5 DEF KidsKept
<1>4. CASE ReadRaises
  BY <1>0, <1>2, <1>4 DEF ReadRaises, KidsKept, NoJob
<1>5. CASE Finish
  <2>1. JobKept /\ StopKept /\ job.stop = {} /\ job' = NoJob
    BY <1>2, <1>5 DEF Finish, KidsKept, JobKept, NoJob, Answering
  <2> QED BY <1>0, <1>2, <2>1 DEF KidsKept, StopKept
<1>6. ASSUME NEW s \in Parents, ReadFails(s) PROVE KidsKept'
  <2>1. JobKept /\ ReadKept /\ job.at = "read" /\ job' = [job EXCEPT !.todo = @ \ {s}]
    BY <1>2, <1>6 DEF ReadFails, KidsKept, JobKept, NoJob, Answering
  <2>2. /\ job'.at = job.at /\ job'.todo = job.todo \ {s} /\ job'.next = job.next
        /\ job'.stop = job.stop /\ job'.start = job.start
        /\ job' = [at |-> job'.at, todo |-> job'.todo, next |-> job'.next, stop |-> job'.stop, start |-> job'.start]
    <3>1. PICK j : j = job'
      OBVIOUS
    <3>2. j = [job EXCEPT !.todo = @ \ {s}]
      BY <2>1, <3>1
    <3>3. /\ j.at = job.at /\ j.todo = job.todo \ {s} /\ j.next = job.next
          /\ j.stop = job.stop /\ j.start = job.start
      BY <2>1, <3>2 DEF JobKept
    <3>4. j = [at |-> j.at, todo |-> j.todo, next |-> j.next, stop |-> j.stop, start |-> j.start]
      BY <2>1, <3>2 DEF JobKept
    <3> QED BY <3>1, <3>3, <3>4
  <2>3. ReadKept'
    BY <1>0, <2>1, <2>2 DEF ReadKept
  <2>4. JobKept'
    BY <1>0, <2>1, <2>2, <2>3 DEF JobKept
  <2> QED BY <1>0, <1>2, <2>1, <2>2, <2>4 DEF KidsKept
<1> QED BY <1>3, <1>4, <1>5, <1>6

\* The thread of the parent answers a question.
LEMMA KidsAnswer ==
  ASSUME KidsInv, Answer \/ \E c \in Children : AskStatus(c)
  PROVE  KidsInv'
<1>0. UNCHANGED <<row, made, kids, described>> /\ Controllers' = Controllers /\ job.at # "stop"
      /\ \A k : (Running(k)' <=> Running(k)) /\ (Owned(k)' <=> Owned(k))
  BY DEF Answer, AskStatus, NoJob, Controllers, Running, Owned
<1>1. job' = NoJob \/ Answering'
  <2>1. CASE Answer
    BY <2>1 DEF Answer
  <2>2. ASSUME NEW c \in Children, AskStatus(c) PROVE Answering'
    <3>1. job'.at = "answer" /\ job'.child = c /\ kids[c] # 0
      BY <2>2 DEF AskStatus
    <3> QED BY <1>0, <3>1 DEF Answering
  <2> QED BY <2>1, <2>2
<1> QED BY <1>0, <1>1, KidsJob DEF KidsKept

\* The new collection replaces the old one.
LEMMA KidsCommit ==
  ASSUME KidsInv, Commit
  PROVE  KidsInv'
<1>0. /\ UNCHANGED <<row, made>> /\ Controllers' = Controllers /\ \A k : Running(k)' <=> Running(k)
      /\ kids' = job.next /\ described' = described \ Removed /\ job.at = "read"
      /\ job' = [job EXCEPT !.at = "stop", !.stop = @ \cup {kids[c] : c \in Removed}]
  BY DEF Commit, Controllers, Running
<1>t. made \in Seq(KidRecords) /\ Controllers = 1..Len(made)
  BY DEF KidsInv, KidsTypeOK, Controllers
<1>1. ASSUME KidsKept PROVE KidsKept'
  <2>1. JobKept /\ ReadKept
    BY <1>0, <1>1 DEF KidsKept, JobKept, NoJob, Answering
  <2>2. /\ job'.at = "stop" /\ job'.start = job.start
        /\ job'.stop = job.stop \cup {kids[c] : c \in Removed}
        /\ job' = [at |-> job'.at, todo |-> job'.todo, next |-> job'.next, stop |-> job'.stop, start |-> job'.start]
    <3>1. PICK j, over : j = job' /\ over = {kids[c] : c \in Removed}
      OBVIOUS
    <3>2. j = [job EXCEPT !.at = "stop", !.stop = @ \cup over]
      BY <1>0, <3>1
    <3>3. j.at = "stop" /\ j.stop = job.stop \cup over /\ j.start = job.start
      BY <2>1, <3>2 DEF JobKept
    <3>4. j = [at |-> j.at, todo |-> j.todo, next |-> j.next, stop |-> j.stop, start |-> j.start]
      BY <2>1, <3>2 DEF JobKept
    <3> QED BY <3>1, <3>3, <3>4
  <2>3. kids' \in [Children -> 0..Len(made)] /\ kids' = job.next
    BY <1>0, <2>1 DEF ReadKept
  <2>4. \A k \in Controllers : made[k].child \in Children /\ k # 0
    <3>1. \A k \in Controllers : made[k] \in KidRecords /\ k # 0
      BY <1>t
    <3> QED BY <3>1 DEF KidRecords
  <2>5. ASSUME NEW k \in Controllers, Running(k) PROVE k \in job'.stop \/ Owned(k)'
    <3>1. PICK c \in Children : c = made[k].child
      BY <2>4
    <3>2. kids[c] = k /\ c \in described /\ k # 0
      BY <1>0, <1>1, <2>4, <2>5, <3>1 DEF KidsKept, Owned
    <3>3. CASE job.next[c] = 0
      BY <2>2, <3>2, <3>3 DEF Removed
    <3>4. CASE job.next[c] = k
      BY <1>0, <3>1, <3>2, <3>4 DEF Owned, Removed
    <3>5. CASE job.next[c] \notin {0, k}
      BY <2>1, <2>2, <3>2, <3>5 DEF ReadKept
    <3> QED BY <3>3, <3>4, <3>5
  <2>6. ASSUME NEW k \in job.start PROVE Owned(k)'
    <3>0. k \in Controllers
      BY <2>1 DEF JobKept
    <3>1. PICK c \in Children : c = made[k].child
      BY <2>4, <3>0
    <3>2. job.next[c] = k /\ k # 0
      BY <2>1, <2>4, <3>0, <3>1 DEF ReadKept
    <3>3. c \in described /\ c \notin Removed
      BY <2>1, <3>2 DEF ReadKept, Removed
    <3> QED BY <1>0, <3>1, <3>2, <3>3 DEF Owned
  <2>7. StopKept'
    BY <1>0, <2>2, <2>5, <2>6 DEF StopKept
  <2>8. JobKept'
    BY <1>0, <2>1, <2>2, <2>7 DEF JobKept
  <2>9. \A c \in Children : kids'[c] # 0 => made'[kids'[c]].child = c
    BY <1>0, <2>1, <2>3 DEF ReadKept
  <2> QED BY <1>0, <1>1, <2>2, <2>3, <2>8, <2>9 DEF KidsKept
<1> QED BY <1>0, <1>1, KidsJob

\* A controller without a client: the update ends, or the process starts again.
LEMMA KidsRaise ==
  ASSUME KidsInv, NEW k \in Controllers, ~HasClient(k), Raise, row' = row,
         line.heard => made' = made
  PROVE  KidsInv'
<1>1. CASE line.heard
  <2>1. UNCHANGED <<row, made>> /\ ~HaveClients'
    BY <1>1 DEF HaveClients, HasClient, Controllers
  <2> QED BY <2>1 DEF KidsInv, KidsTypeOK
<1>2. CASE ~line.heard
  <2>1. made' = <<>> /\ kids' = NoChild /\ job' = NoJob
    BY <1>2 DEF Raise
  <2>2. made' \in Seq(KidRecords) /\ Len(made') = 0 /\ Controllers' = {}
    BY <2>1 DEF Controllers
  <2>3. KidsKept'
    BY <2>1, <2>2 DEF KidsKept, NoChild
  <2> QED BY <2>2, <2>3 DEF KidsInv, KidsTypeOK
<1> QED BY <1>1, <1>2

\* A step of the reconcile by which the loop of one controller ends or starts.
LEMMA KidsLoop ==
  ASSUME KidsInv, NEW k \in Controllers, NEW r \in KidRecords, made' = [made EXCEPT ![k] = r],
         r.child = made[k].child, r.host = made[k].host,
         UNCHANGED <<row, kids, described>>,
         KidsKept /\ job.at = "stop", JobKept /\ StopKept => JobKept',
         r.loop => \A j \in Controllers : Running(j) /\ made[j].child = made[k].child => j = k,
         job'.at = "stop"
  PROVE  KidsInv'
<1>1. /\ made' \in Seq(KidRecords) /\ Len(made') = Len(made) /\ Controllers' = Controllers
      /\ made'[k] = r /\ \A j \in Controllers : j # k => made'[j] = made[j]
  BY KidSet DEF KidsInv
<1>2. \A j \in Controllers : made'[j].child = made[j].child /\ (j # k => (Running(j)' <=> Running(j)))
  BY <1>1 DEF Running
<1>3. JobKept /\ StopKept
  BY DEF KidsKept, JobKept, NoJob, Answering
<1>4. \A i, j \in Controllers : Running(i)' /\ Running(j)' /\ made'[i].child = made'[j].child => i = j
  BY <1>1, <1>2 DEF KidsKept, Running
<1>5. \A c \in Children : kids[c] # 0 => kids[c] \in Controllers
  BY DEF KidsKept, KidsInv, KidsTypeOK, Controllers
<1>6. KidsKept'
  BY <1>1, <1>2, <1>3, <1>4, <1>5 DEF KidsKept
<1> QED BY <1>1, <1>6 DEF KidsInv, KidsTypeOK

LEMMA KidsStopStart ==
  ASSUME KidsInv, NEW k \in Controllers, StopChild(k) \/ StartChild(k)
  PROVE  KidsInv'
<1>0. made[k] \in KidRecords /\ row' = row /\ job.at = "stop"
  BY DEF KidsInv, KidsTypeOK, Controllers, StopChild, StartChild, Startable
<1>1. CASE ~HasClient(k)
  <2>1. Raise /\ (line.heard => made' = made)
    BY <1>1 DEF StopChild, StartChild, Raise
  <2> QED BY <1>0, <1>1, <2>1, KidsRaise
<1>2. CASE HasClient(k)
  <2>1. PICK r \in KidRecords :
          /\ made' = [made EXCEPT ![k] = r]
          /\ r.child = made[k].child /\ r.host = made[k].host
          /\ StopChild(k) => ~r.loop
    <3>1. CASE StopChild(k)
      <4> DEFINE r == [made[k] EXCEPT !.loop = FALSE, !.up = FALSE]
      <4>1. made' = [made EXCEPT ![k] = r]
        BY <1>2, <3>1 DEF StopChild
      <4>2. r \in KidRecords /\ r.child = made[k].child /\ r.host = made[k].host /\ ~r.loop
        BY <1>0 DEF KidRecords
      <4> QED BY <4>1, <4>2
    <3>2. CASE StartChild(k) /\ ~StopChild(k)
      <4> DEFINE r == [made[k] EXCEPT !.loop = TRUE]
      <4>1. made' = [made EXCEPT ![k] = r]
        BY <1>2, <3>2 DEF StartChild
      <4>2. r \in KidRecords /\ r.child = made[k].child /\ r.host = made[k].host
        BY <1>0 DEF KidRecords
      <4> QED BY <3>2, <4>1, <4>2
    <3> QED BY <3>1, <3>2
  <2>2. /\ made' \in Seq(KidRecords) /\ Len(made') = Len(made) /\ Controllers' = Controllers
        /\ made'[k] = r /\ \A j \in Controllers : j # k => made'[j] = made[j]
    BY <2>1, KidSet DEF KidsInv
  <2>3. CASE ~HaveClients
    <3>1. ~HaveClients'
      BY <2>1, <2>2, <2>3 DEF HaveClients, HasClient
    <3> QED BY <1>0, <2>2, <3>1 DEF KidsInv, KidsTypeOK
  <2>4. CASE HaveClients
    <3>1. KidsKept /\ JobKept /\ StopKept
      BY <1>0, <2>4 DEF KidsInv, KidsKept, JobKept, NoJob, Answering
    <3>2. \A j \in Controllers : made'[j].child = made[j].child /\ (j # k => (Running(j)' <=> Running(j)))
      BY <2>1, <2>2 DEF Running
    <3>3. CASE StopChild(k)
      <4>1. /\ UNCHANGED <<kids, described>> /\ k \in job.stop
            /\ job' = [job EXCEPT !.stop = @ \ {k}]
        BY <1>2, <3>3 DEF StopChild
      <4>2. /\ job'.at = "stop" /\ job'.start = job.start /\ job'.stop = job.stop \ {k}
            /\ job' = [at |-> job'.at, todo |-> job'.todo, next |-> job'.next, stop |-> job'.stop, start |-> job'.start]
        <5>1. PICK j : j = job'
          OBVIOUS
        <5>2. j = [job EXCEPT !.stop = @ \ {k}]
          BY <4>1, <5>1
        <5>3. j.at = "stop" /\ j.start = job.start /\ j.stop = job.stop \ {k}
          BY <1>0, <3>1, <5>2 DEF JobKept
        <5>4. j = [at |-> j.at, todo |-> j.todo, next |-> j.next, stop |-> j.stop, start |-> j.start]
          BY <3>1, <5>2 DEF JobKept
        <5> QED BY <5>1, <5>3, <5>4
      <4>3. ~Running(k)'
        BY <2>1, <2>2, <3>3 DEF Running
      <4>4. \A j \in Controllers : Owned(j)' <=> Owned(j)
        BY <3>2, <4>1 DEF Owned
      <4>5. StopKept'
        BY <2>2, <3>1, <3>2, <4>2, <4>3, <4>4 DEF StopKept, JobKept
      <4>6. \A j \in job.start : ~Running(j)' /\ j \in Controllers
        BY <3>1, <3>2, <4>3 DEF JobKept
      <4>7. JobKept'
        BY <2>2, <4>2, <4>5, <4>6 DEF JobKept
      <4> QED BY <1>0, <2>1, <3>1, <3>3, <4>1, <4>2, <4>7, KidsLoop
    <3>4. CASE StartChild(k)
      <4>1. /\ UNCHANGED <<kids, described>> /\ k \in job.start /\ job.stop = {}
            /\ job' = [job EXCEPT !.start = @ \ {k}]
        BY <1>2, <3>4 DEF StartChild, Startable
      <4>2. /\ job'.at = "stop" /\ job'.start = job.start \ {k} /\ job'.stop = job.stop
            /\ job' = [at |-> job'.at, todo |-> job'.todo, next |-> job'.next, stop |-> job'.stop, start |-> job'.start]
        <5>1. PICK j : j = job'
          OBVIOUS
        <5>2. j = [job EXCEPT !.start = @ \ {k}]
          BY <4>1, <5>1
        <5>3. j.at = "stop" /\ j.start = job.start \ {k} /\ j.stop = job.stop
          BY <1>0, <3>1, <5>2 DEF JobKept
        <5>4. j = [at |-> j.at, todo |-> j.todo, next |-> j.next, stop |-> j.stop, start |-> j.start]
          BY <3>1, <5>2 DEF JobKept
        <5> QED BY <5>1, <5>3, <5>4
      <4>3. \A j \in Controllers : Running(j) => Owned(j)
        BY <3>1, <4>1 DEF StopKept
      <4>4. Owned(k)
        BY <3>1, <4>1 DEF StopKept
      <4>5. \A j \in Controllers : Owned(j)' <=> Owned(j)
        BY <3>2, <4>1 DEF Owned
      <4>6. StopKept'
        BY <2>2, <3>1, <3>2, <4>2, <4>3, <4>4, <4>5 DEF StopKept, JobKept
      <4>7. \A j \in job.start \ {k} : ~Running(j)' /\ j \in Controllers
        BY <3>1, <3>2 DEF JobKept
      <4>8. JobKept'
        BY <2>2, <4>2, <4>6, <4>7 DEF JobKept
      <4>9. \A j \in Controllers : Running(j) /\ made[j].child = made[k].child => j = k
        BY <4>3, <4>4 DEF Owned
      <4> QED BY <1>0, <2>1, <3>1, <4>1, <4>2, <4>8, <4>9, KidsLoop
    <3> QED BY <3>3, <3>4
  <2> QED BY <2>3, <2>4
<1> QED BY <1>1, <1>2

LEMMA KidsStep == KidsInv /\ [ChildrenNext]_childVars => KidsInv'
<1> SUFFICES ASSUME KidsInv, [ChildrenNext]_childVars PROVE KidsInv'
  OBVIOUS
<1>1. ASSUME NEW c \in Children, NEW h \in Names, ChangeRow(c, h) PROVE KidsInv'
  <2>1. UNCHANGED <<made, kids, described, job>> /\ row' \in [Children -> Names]
    BY <1>1 DEF ChangeRow, KidsInv, KidsTypeOK
  <2> QED BY <2>1, KidsQuiet DEF KidsInv, KidsTypeOK
<1>2. CASE ConnectionLost \/ Work \/ UNCHANGED childVars
  <2>1. UNCHANGED <<row, made, kids, described, job>>
    BY <1>2 DEF ConnectionLost, Work, childVars
  <2> QED BY <2>1, KidsQuiet DEF KidsInv, KidsTypeOK
<1>3. ASSUME NEW s \in Parents, NEW refused \in SUBSET Wanted(s), ReadScene(s, refused) PROVE KidsInv'
  BY <1>3, KidsRead
<1>4. CASE Commit
  BY <1>4, KidsCommit
<1>5. CASE \/ OnConnect \/ OnNotice \/ ReadRaises \/ Finish \/ \E s \in Parents : ReadFails(s)
  BY <1>5, KidsBegin
<1>6. ASSUME NEW k \in Controllers,
             \/ StopChild(k) \/ StartChild(k) \/ ChildTells(k)
             \/ \E up \in BOOLEAN : ChildTurns(k, up)
      PROVE  KidsInv'
  BY <1>6, KidsStopStart, KidsTurn
<1>7. CASE Answer \/ \E c \in Children : AskStatus(c)
  BY <1>7, KidsAnswer
<1> QED BY <1>1, <1>2, <1>3, <1>4, <1>5, <1>6, <1>7 DEF ChildrenNext, Names

(* While no host was bad, a child never has two network loops, and between *)
(* updates every loop belongs to the controller the next update can end.   *)
THEOREM ChildLoopsOwned == ChildrenSpec => [](HaveClients => LoopsOwned)
<1>1. KidsInv => (HaveClients => LoopsOwned)
  BY DEF KidsInv, KidsKept, LoopsOwned, Owned, NoJob
<1> QED BY <1>1, KidsInitial, KidsStep, PTL DEF ChildrenSpec

-----------------------------------------------------------------------------
(* The remote children: what is said of them.                               *)

Works == [child : Children, status : {"connected", "disconnected", "error"}]

\* What will be shown of the child when the queue is empty, if nothing is added.
Says(c, status) ==
  \/ \E i \in 1..Len(queue) : /\ queue[i].child = c /\ queue[i].status = status
                              /\ \A j \in 1..Len(queue) : j > i => queue[j].child # c
  \/ (\A i \in 1..Len(queue) : queue[i].child # c) /\ shown[c] = status

\* A loop that does not run has nothing to tell, and what one tells is true.
TellsTrue(k) ==
  /\ ~made[k].loop => ~made[k].up /\ made[k].tell = "none"
  /\ made[k].tell = "connected" => made[k].up
  /\ made[k].tell = "disconnected" => ~made[k].up

(* A child is not said to be connected unless a loop is, or is about to    *)
(* say that it is not; and the other way round.                            *)
SaysTrue(c) ==
  /\ Says(c, "connected") =>
       \E k \in Controllers : made[k].child = c /\ (made[k].up \/ made[k].tell = "disconnected")
  /\ Says(c, "disconnected") =>
       \A k \in Controllers : made[k].child = c /\ made[k].up => made[k].tell = "connected"

\* What is said of the child is true, or its last word was lost or overtaken.
WordTrue(c) == c \in amiss \/ SaysTrue(c)

StatusKept ==
  /\ queue \in Seq(Works) /\ shown \in [Children -> {"none", "connected", "disconnected", "error"}]
  /\ \A k \in Controllers : TellsTrue(k)
  /\ \A c \in Children : WordTrue(c)

\* What is said of a child after the n works were put on the queue, if none of it
\* was dropped.
SaysMore(n, works) ==
  /\ queue' \in Seq(Works)
  /\ shown' = shown =>
       \A c, st : c \notin amiss' /\ Says(c, st)' =>
         \/ \E i \in 1..n : works[i].child = c /\ works[i].status = st
         \/ (\A i \in 1..n : works[i].child # c) /\ c \notin amiss /\ Says(c, st)

LEMMA PutSays ==
  ASSUME queue \in Seq(Works), NEW n \in Nat, NEW works \in [1..n -> Works], Put(works)
  PROVE  SaysMore(n, works)
<1> DEFINE all == queue \o works
           m == IF Len(all) < Capacity THEN Len(all) ELSE Capacity
<1>1. works \in Seq(Works) /\ Len(works) = n
  OBVIOUS
<1>2. /\ all \in Seq(Works) /\ Len(all) = Len(queue) + n /\ Len(queue) \in Nat
      /\ \A i \in 1..(Len(queue) + n) : all[i] = IF i <= Len(queue) THEN queue[i] ELSE works[i - Len(queue)]
  <2> HIDE DEF Works
  <2>1. \A Q, W : Q \in Seq(Works) /\ W \in Seq(Works) =>
          /\ Q \o W \in Seq(Works) /\ Len(Q \o W) = Len(Q) + Len(W) /\ Len(Q) \in Nat
          /\ \A i \in 1..(Len(Q) + Len(W)) : (Q \o W)[i] = IF i <= Len(Q) THEN Q[i] ELSE W[i - Len(Q)]
    BY ConcatProperties, LenProperties
  <2> QED BY <1>1, <2>1
<1>3. /\ queue' = SubSeq(all, 1, m)
      /\ amiss' = (amiss \ ChildrenOf(works)) \cup ChildrenOf(SubSeq(all, m + 1, Len(all)))
  BY DEF Put
<1> HIDE DEF all
<1>4. m \in Nat /\ m <= Len(all)
  BY <1>2, ChildrenAssumption
<1> HIDE DEF m
<1>5. /\ queue' \in Seq(Works) /\ Len(queue') = m
      /\ \A i \in 1..m : queue'[i] = all[i] /\ i \in 1..Len(all)
  <2>1. /\ SubSeq(all, 1, m) \in Seq(Works) /\ Len(SubSeq(all, 1, m)) = m
        /\ \A i \in 1..m : SubSeq(all, 1, m)[i] = all[i] /\ i \in 1..Len(all)
    <3>1. \A i \in 1..m : all[i] \in Works /\ i \in 1..Len(all)
      BY <1>2, <1>4
    <3> QED BY <1>4, <3>1, SubSeqProperties
  <2> QED BY <1>3, <2>1
<1>6. \A i \in 1..Len(all) : i > m => all[i].child \in ChildrenOf(SubSeq(all, m + 1, Len(all)))
  <2> DEFINE rest == SubSeq(all, m + 1, Len(all))
  <2>1. /\ rest \in Seq(Works) /\ (m + 1 <= Len(all) => Len(rest) = Len(all) - m)
        /\ \A i \in 1..(Len(all) - m) : rest[i] = all[m + i]
    <3>1. \A i \in (m + 1)..Len(all) : all[i] \in Works
      BY <1>2, <1>4
    <3>2. m + 1 \in Int /\ Len(all) \in Int /\ Len(all) - (m + 1) + 1 = Len(all) - m
      BY <1>2, <1>4
    <3>3. /\ rest \in Seq(Works)
          /\ Len(rest) = IF m + 1 <= Len(all) THEN Len(all) - (m + 1) + 1 ELSE 0
          /\ \A i \in 1..(Len(all) - (m + 1) + 1) : rest[i] = all[m + 1 + i - 1]
      BY <3>1, <3>2, SubSeqProperties
    <3>4. \A i \in 1..(Len(all) - m) : m + 1 + i - 1 = m + i
      BY <1>4
    <3> QED BY <3>2, <3>3, <3>4
  <2> HIDE DEF rest
  <2>2. ASSUME NEW i \in 1..Len(all), i > m PROVE all[i].child \in ChildrenOf(rest)
    <3>0. Len(all) \in Nat
      BY <1>2
    <3>a. PICK j \in Int : j = i - m
      BY <1>4, <3>0
    <3>1. j \in 1..(Len(all) - m) /\ m + j = i
      BY <1>4, <2>2, <3>0, <3>a
    <3>2. m + 1 <= Len(all) /\ j \in DOMAIN rest
      BY <1>2, <1>4, <2>1, <2>2, <3>1
    <3>3. rest[j] = all[i]
      BY <2>1, <3>1
    <3> QED BY <3>2, <3>3 DEF ChildrenOf
  <2> QED BY <2>2 DEF rest
<1>7. ASSUME shown' = shown, NEW c, NEW st, c \notin amiss', Says(c, st)',
             ~\E i \in 1..n : works[i].child = c /\ works[i].status = st
      PROVE  (\A i \in 1..n : works[i].child # c) /\ c \notin amiss /\ Says(c, st)
  <2>r. \A i \in 1..Len(all) : i > m => all[i].child # c
    BY <1>3, <1>6, <1>7
  <2>c. (\A i \in 1..n : works[i].child # c) => c \notin amiss
    <3>1. (\A i \in 1..n : works[i].child # c) => c \notin ChildrenOf(works)
      BY DEF ChildrenOf
    <3> QED BY <1>3, <1>7, <3>1
  <2>1. \A i \in 1..Len(all) : i \in 1..m \/ i > m
    BY <1>2, <1>4
  <2>2. \A i \in 1..Len(queue) : i \in 1..Len(all) /\ all[i] = queue[i]
    BY <1>2
  <2>3. ASSUME NEW i \in 1..n
        PROVE  Len(queue) + i \in 1..Len(all) /\ all[Len(queue) + i] = works[i]
    <3>1. PICK j \in Nat : j = Len(queue) + i
      BY <1>2
    <3>2. j \in 1..(Len(queue) + n) /\ ~(j <= Len(queue)) /\ j - Len(queue) = i
      BY <1>2, <3>1
    <3>3. all[j] = works[i] /\ j \in 1..Len(all)
      BY <1>2, <3>2
    <3> QED BY <3>1, <3>3
  <2>4. CASE \E i \in 1..Len(all) : /\ all[i].child = c /\ all[i].status = st
                                    /\ \A j \in 1..Len(all) : j > i => all[j].child # c
    <3>1. PICK i \in 1..Len(all) : /\ all[i].child = c /\ all[i].status = st
                                   /\ \A j \in 1..Len(all) : j > i => all[j].child # c
      BY <2>4
    <3>2. i <= Len(queue)
      <4>1. CASE i > Len(queue)
        <5>1. i - Len(queue) \in 1..n /\ all[i] = works[i - Len(queue)]
          BY <1>2, <4>1
        <5> QED BY <1>7, <3>1, <5>1
      <4> QED BY <1>2, <4>1
    <3>3. \A k \in 1..n : works[k].child # c
      BY <1>2, <2>3, <3>1, <3>2
    <3>4. i \in 1..Len(queue) /\ queue[i].child = c /\ queue[i].status = st
      BY <1>2, <2>2, <3>1, <3>2
    <3>5. \A j \in 1..Len(queue) : j > i => queue[j].child # c
      BY <2>2, <3>1
    <3> QED BY <2>c, <3>3, <3>4, <3>5 DEF Says
  <2>5. CASE (\A i \in 1..Len(all) : all[i].child # c) /\ shown[c] = st
    <3>1. \A i \in 1..n : works[i].child # c
      BY <2>3, <2>5
    <3>2. \A i \in 1..Len(queue) : queue[i].child # c
      BY <2>2, <2>5
    <3> QED BY <2>c, <2>5, <3>1, <3>2 DEF Says
  <2>6. ASSUME NEW i \in 1..m, queue'[i].child = c, queue'[i].status = st,
               \A j \in 1..m : j > i => queue'[j].child # c
        PROVE  \E k \in 1..Len(all) : /\ all[k].child = c /\ all[k].status = st
                                      /\ \A j \in 1..Len(all) : j > k => all[j].child # c
    <3>1. i \in 1..Len(all) /\ all[i].child = c /\ all[i].status = st
      BY <1>5, <2>6
    <3>2. ASSUME NEW j \in 1..Len(all), j > i PROVE all[j].child # c
      BY <1>5, <2>r, <2>1, <2>6, <3>2
    <3> QED BY <3>1, <3>2
  <2>7. CASE (\A i \in 1..m : queue'[i].child # c) /\ shown'[c] = st
    <3>1. \A i \in 1..Len(all) : all[i].child # c
      BY <1>5, <2>r, <2>1, <2>7
    <3> QED BY <1>7, <2>5, <2>7, <3>1
  <2> QED BY <1>5, <1>7, <2>4, <2>6, <2>7 DEF Says
<1> QED BY <1>5, <1>7, Zenon DEF SaysMore

\* The worker takes a work, and what it publishes is heard or not.
LEMMA WorkSays ==
  ASSUME queue \in Seq(Works), shown \in [Children -> {"none", "connected", "disconnected", "error"}], Work
  PROVE  /\ queue' \in Seq(Works)
         /\ shown' \in [Children -> {"none", "connected", "disconnected", "error"}]
         /\ \A c \in Children : c \notin amiss' =>
              c \notin amiss /\ \A st : Says(c, st)' => Says(c, st)
<1>1. queue # <<>> /\ queue' = Tail(queue)
  BY DEF Work
<1>s. \/ shown' = [shown EXCEPT ![Head(queue).child] = Head(queue).status]
      \/ shown' = shown /\ (HasWork(Head(queue).child, queue') \/ Head(queue).child \in amiss')
  BY <1>1 DEF Work, Publish
<1>m. amiss \subseteq amiss'
  BY DEF Work
<1>2. /\ Len(queue) \in Nat /\ Len(queue) >= 1 /\ queue[1] \in Works /\ Head(queue) = queue[1]
      /\ queue' \in Seq(Works) /\ Len(queue') = Len(queue) - 1
      /\ \A i \in 1..Len(queue') : queue'[i] = queue[i + 1] /\ i + 1 \in 1..Len(queue)
  BY <1>1, HeadTailProperties
<1>3. \A j \in 1..Len(queue) : j = 1 \/ j - 1 \in 1..Len(queue')
  BY <1>2
<1>4. ASSUME NEW c \in Children, NEW st, c \notin amiss', Says(c, st)' PROVE Says(c, st)
  <2>1. CASE \E i \in 1..Len(queue') : /\ queue'[i].child = c /\ queue'[i].status = st
                                       /\ \A j \in 1..Len(queue') : j > i => queue'[j].child # c
    <3>1. PICK i \in 1..Len(queue') : /\ queue'[i].child = c /\ queue'[i].status = st
                                      /\ \A j \in 1..Len(queue') : j > i => queue'[j].child # c
      BY <2>1
    <3>2. i + 1 \in 1..Len(queue) /\ queue[i + 1].child = c /\ queue[i + 1].status = st
      BY <1>2, <3>1
    <3>3. ASSUME NEW j \in 1..Len(queue), j > i + 1 PROVE queue[j].child # c
      <4>1. j - 1 \in 1..Len(queue') /\ j - 1 > i
        BY <1>2, <1>3, <3>3
      <4>2. queue'[j - 1] = queue[j - 1 + 1] /\ j - 1 + 1 = j
        BY <1>2, <4>1
      <4> QED BY <3>1, <4>1, <4>2
    <3> QED BY <3>2, <3>3 DEF Says
  <2>2. CASE (\A i \in 1..Len(queue') : queue'[i].child # c) /\ shown'[c] = st
    <3>1. \A j \in 1..Len(queue) : j > 1 => queue[j].child # c
      <4>1. ASSUME NEW j \in 1..Len(queue), j > 1 PROVE queue[j].child # c
        <5>1. j - 1 \in 1..Len(queue') /\ queue'[j - 1] = queue[j - 1 + 1] /\ j - 1 + 1 = j
          BY <1>2, <1>3, <4>1
        <5> QED BY <2>2, <5>1
      <4> QED BY <4>1
    <3>n. ~HasWork(c, queue')
      BY <2>2 DEF HasWork, ChildrenOf
    <3>2. CASE queue[1].child = c
      <4>1. shown' = [shown EXCEPT ![c] = queue[1].status]
        BY <1>2, <1>s, <1>4, <3>n, <3>2
      <4>2. st = queue[1].status
        BY <2>2, <4>1
      <4> QED BY <1>2, <3>1, <3>2, <4>2 DEF Says
    <3>3. CASE queue[1].child # c
      <4>1. shown[c] = st
        BY <1>s, <1>2, <2>2, <3>3
      <4>2. \A j \in 1..Len(queue) : queue[j].child # c
        BY <1>2, <3>1, <3>3
      <4> QED BY <4>1, <4>2 DEF Says
    <3> QED BY <3>2, <3>3
  <2> QED BY <1>4, <2>1, <2>2 DEF Says
<1>5. shown' \in [Children -> {"none", "connected", "disconnected", "error"}]
  BY <1>s, <1>2 DEF Works
<1> QED BY <1>2, <1>m, <1>4, <1>5

\* What is said depends on the queue and on what is shown.
LEMMA SaysSame ==
  ASSUME UNCHANGED <<queue, shown>>
  PROVE  \A c, st : Says(c, st)' <=> Says(c, st)
BY DEF Says

\* One controller changes: the others are as they were.
LEMMA OneTurns ==
  ASSUME KidsTypeOK, NEW k \in Controllers, NEW r \in KidRecords, made' = [made EXCEPT ![k] = r]
  PROVE  /\ Controllers' = Controllers /\ made'[k] = r
         /\ \A j \in Controllers : j # k => made'[j] = made[j] /\ (TellsTrue(j)' <=> TellsTrue(j))
<1>1. /\ Controllers' = Controllers /\ made'[k] = r
      /\ \A j \in Controllers : j # k => made'[j] = made[j]
  BY KidSet
<1> QED BY <1>1 DEF TellsTrue

\* A step that neither says anything nor changes a controller.
LEMMA StatusQuiet ==
  ASSUME StatusKept, UNCHANGED <<made, queue, shown, amiss>>
  PROVE  StatusKept'
<1>1. Controllers' = Controllers /\ \A k : TellsTrue(k)' <=> TellsTrue(k)
  BY DEF Controllers, TellsTrue
<1>2. \A c \in Children : SaysTrue(c)' <=> SaysTrue(c)
  BY <1>1, SaysSame DEF SaysTrue
<1> QED BY <1>1, <1>2 DEF StatusKept, WordTrue

\* A loop starts.
LEMMA StatusStart ==
  ASSUME KidsInv, StatusKept, NEW k \in Controllers, StartChild(k), HasClient(k)
  PROVE  StatusKept'
<1>0. made[k] \in KidRecords /\ UNCHANGED <<queue, shown, amiss>>
  BY DEF KidsInv, KidsTypeOK, Controllers, StartChild
<1>1. PICK r \in KidRecords :
        /\ made' = [made EXCEPT ![k] = r]
        /\ r.child = made[k].child /\ r.up = made[k].up /\ r.tell = made[k].tell /\ r.loop
  <2> DEFINE r == [made[k] EXCEPT !.loop = TRUE]
  <2>1. made' = [made EXCEPT ![k] = r]
    BY DEF StartChild
  <2>2. r \in KidRecords /\ r.child = made[k].child /\ r.up = made[k].up /\ r.tell = made[k].tell /\ r.loop
    BY <1>0 DEF KidRecords
  <2> QED BY <2>1, <2>2
<1>2. /\ Controllers' = Controllers /\ made'[k] = r
      /\ \A j \in Controllers : j # k => made'[j] = made[j] /\ (TellsTrue(j)' <=> TellsTrue(j))
  BY <1>1, OneTurns DEF KidsInv
<1>3. \A j \in Controllers : TellsTrue(j)'
  BY <1>1, <1>2 DEF StatusKept, TellsTrue
<1>4. \A j \in Controllers : made'[j].child = made[j].child /\ made'[j].up = made[j].up
                             /\ made'[j].tell = made[j].tell
  BY <1>1, <1>2
<1>5. \A c \in Children : SaysTrue(c) => SaysTrue(c)'
  BY <1>0, <1>2, <1>4, SaysSame DEF SaysTrue
<1> QED BY <1>0, <1>2, <1>3, <1>5 DEF StatusKept, WordTrue

\* A callback changes the flag, and has something to tell.
LEMMA StatusTurns ==
  ASSUME KidsInv, StatusKept, NEW k \in Controllers, NEW up \in BOOLEAN, ChildTurns(k, up)
  PROVE  StatusKept'
<1>0. made[k] \in KidRecords /\ UNCHANGED <<queue, shown, amiss>>
      /\ made[k].loop /\ made[k].up # up /\ made[k].tell = "none"
  BY DEF KidsInv, KidsTypeOK, Controllers, ChildTurns
<1>1. PICK r \in KidRecords :
        /\ made' = [made EXCEPT ![k] = r]
        /\ r.child = made[k].child /\ r.loop
        /\ r.up => r.tell = "connected"
        /\ ~r.up => r.tell = "disconnected"
  <2> DEFINE tell == IF up THEN "connected" ELSE "disconnected"
             r == [made[k] EXCEPT !.up = up, !.tell = tell]
  <2>1. made' = [made EXCEPT ![k] = r]
    BY DEF ChildTurns, Flagged, Word
  <2>2. tell \in {"none", "connected", "disconnected"}
    OBVIOUS
  <2>3. r \in KidRecords
    BY <1>0, <2>2 DEF KidRecords
  <2>4. r.child = made[k].child /\ r.loop /\ r.up = up /\ r.tell = tell
    BY <1>0 DEF KidRecords
  <2> QED BY <2>1, <2>3, <2>4
<1>2. /\ Controllers' = Controllers /\ made'[k] = r
      /\ \A j \in Controllers : j # k => made'[j] = made[j] /\ (TellsTrue(j)' <=> TellsTrue(j))
  BY <1>1, OneTurns DEF KidsInv
<1>3. \A j \in Controllers : TellsTrue(j)'
  BY <1>1, <1>2 DEF StatusKept, TellsTrue
<1>4. ASSUME NEW c \in Children, SaysTrue(c) PROVE SaysTrue(c)'
  <2>1. ASSUME Says(c, "connected")'
        PROVE  \E j \in Controllers : made'[j].child = c /\ (made'[j].up \/ made'[j].tell = "disconnected")
    <3>1. PICK j \in Controllers : made[j].child = c /\ (made[j].up \/ made[j].tell = "disconnected")
      BY <1>0, <1>4, <2>1, SaysSame DEF SaysTrue
    <3>2. made'[j].child = c /\ (made'[j].up \/ made'[j].tell = "disconnected")
      BY <1>1, <1>2, <3>1
    <3> QED BY <3>2
  <2>2. ASSUME Says(c, "disconnected")', NEW j \in Controllers, made'[j].child = c, made'[j].up
        PROVE  made'[j].tell = "connected"
    <3>1. Says(c, "disconnected")
      BY <1>0, <2>2, SaysSame
    <3>2. j # k => made[j].tell = "connected"
      BY <1>2, <1>4, <2>2, <3>1 DEF SaysTrue
    <3> QED BY <1>1, <1>2, <2>2, <3>2
  <2> QED BY <1>2, <2>1, <2>2 DEF SaysTrue
<1> QED BY <1>0, <1>2, <1>3, <1>4 DEF StatusKept, WordTrue

\* The worker publishes a status.
LEMMA StatusShown ==
  ASSUME StatusKept, Work
  PROVE  StatusKept'
<1>1. made' = made /\ Controllers' = Controllers /\ \A k : TellsTrue(k)' <=> TellsTrue(k)
  BY DEF Work, Controllers, TellsTrue
<1>2. /\ queue' \in Seq(Works)
      /\ shown' \in [Children -> {"none", "connected", "disconnected", "error"}]
      /\ \A c \in Children : c \notin amiss' =>
           c \notin amiss /\ \A st : Says(c, st)' => Says(c, st)
  BY WorkSays DEF StatusKept
<1>3. ASSUME NEW c \in Children, c \notin amiss' PROVE SaysTrue(c)'
  <2>1. SaysTrue(c)
    BY <1>2, <1>3 DEF StatusKept, WordTrue
  <2>2. \A st : Says(c, st)' => Says(c, st)
    BY <1>2, <1>3
  <2> QED BY <1>1, <2>1, <2>2 DEF SaysTrue
<1> QED BY <1>1, <1>2, <1>3 DEF StatusKept, WordTrue

\* The thread of the parent publishes what it read, which is what the child is said
\* to be if no work of it waits.
LEMMA StatusAnswered ==
  ASSUME KidsInv, HaveClients, StatusKept, Answer
  PROVE  StatusKept'
<1>1. made' = made /\ kids' = kids /\ queue' = queue /\ Controllers' = Controllers
      /\ \A k : TellsTrue(k)' <=> TellsTrue(k)
  BY DEF Answer, Controllers, TellsTrue
<1>2. PICK a : a = job.child
  OBVIOUS
<1>3. KidsKept /\ a \in Children /\ kids[a] # 0
  BY <1>2 DEF KidsInv, KidsKept, Answer, Answering, JobKept, NoJob
<1>4. PICK st : st = Word(job.up)
  OBVIOUS
<1>5. st \in {"connected", "disconnected"}
  BY <1>4 DEF Word
<1>6. \/ shown' = shown /\ amiss' = amiss
      \/ shown' = [shown EXCEPT ![a] = st] /\ HasWork(a, queue) /\ amiss' = amiss
      \/ shown' = [shown EXCEPT ![a] = st] /\ amiss' = amiss \cup {a}
      \/ /\ shown' = [shown EXCEPT ![a] = st] /\ amiss' = amiss \ {a} /\ ~HasWork(a, queue)
         /\ made[kids[a]].up = job.up
  BY <1>2, <1>4 DEF Answer, Publish
<1>7. shown' \in [Children -> {"none", "connected", "disconnected", "error"}]
      /\ \A c \in Children : c # a => shown'[c] = shown[c]
  BY <1>5, <1>6 DEF StatusKept
<1>8. ASSUME NEW c \in Children, c # a PROVE WordTrue(c)'
  <2>1. c \in amiss => c \in amiss'
    BY <1>6, <1>8
  <2>2. \A s : Says(c, s)' <=> Says(c, s)
    BY <1>1, <1>7, <1>8 DEF Says
  <2>3. SaysTrue(c) => SaysTrue(c)'
    BY <1>1, <2>2 DEF SaysTrue
  <2> QED BY <2>1, <2>3 DEF StatusKept, WordTrue
<1>9. WordTrue(a)'
  <2>1. CASE shown' = shown /\ amiss' = amiss
    <3>1. SaysTrue(a) => SaysTrue(a)'
      BY <1>1, <2>1, SaysSame DEF SaysTrue
    <3> QED BY <1>3, <2>1, <3>1 DEF StatusKept, WordTrue
  <2>2. CASE HasWork(a, queue) /\ amiss' = amiss
    <3>1. \E i \in 1..Len(queue) : queue[i].child = a
      BY <2>2 DEF HasWork, ChildrenOf, StatusKept
    <3>2. \A s : Says(a, s)' <=> Says(a, s)
      BY <1>1, <3>1 DEF Says
    <3>3. SaysTrue(a) => SaysTrue(a)'
      BY <1>1, <3>2 DEF SaysTrue
    <3> QED BY <1>3, <2>2, <3>3 DEF StatusKept, WordTrue
  <2>3. CASE amiss' = amiss \cup {a}
    BY <2>3 DEF WordTrue
  <2>4. CASE /\ shown' = [shown EXCEPT ![a] = st] /\ ~HasWork(a, queue)
             /\ made[kids[a]].up = job.up
    <3>1. \A s : Says(a, s)' => s = st
      <4>1. \A i \in 1..Len(queue) : queue[i].child # a
        BY <2>4 DEF HasWork, ChildrenOf, StatusKept
      <4>2. shown'[a] = st
        BY <1>3, <2>4 DEF StatusKept
      <4> QED BY <1>1, <4>1, <4>2 DEF Says
    <3>2. kids[a] \in Controllers /\ made[kids[a]].child = a
      BY <1>3 DEF KidsKept, KidsInv, KidsTypeOK, Controllers
    <3>3. (st = "connected" => made[kids[a]].up) /\ (st = "disconnected" => ~made[kids[a]].up)
      BY <1>4, <2>4 DEF Word
    <3>4. \A k \in Controllers : made[k].child = a /\ made[k].up => k = kids[a]
      <4>1. \A k \in Controllers : made[k].up => Running(k)
        BY DEF StatusKept, TellsTrue, Running
      <4>2. \A k \in Controllers : Running(k) => Owned(k)
        BY <1>3 DEF KidsKept, Answer
      <4> QED BY <4>1, <4>2 DEF Owned
    <3>5. Says(a, "connected")' =>
            \E k \in Controllers : made[k].child = a /\ (made[k].up \/ made[k].tell = "disconnected")
      BY <3>1, <3>2, <3>3
    <3>6. Says(a, "disconnected")' =>
            \A k \in Controllers : made[k].child = a /\ made[k].up => made[k].tell = "connected"
      BY <3>1, <3>3, <3>4
    <3> QED BY <1>1, <3>5, <3>6 DEF SaysTrue, WordTrue
  <2> QED BY <1>6, <2>1, <2>2, <2>3, <2>4
<1>10. \A c \in Children : WordTrue(c)'
  BY <1>8, <1>9
<1> QED BY <1>1, <1>7, <1>10 DEF StatusKept

\* One status is put on the queue, or none.
LEMMA OneSays ==
  ASSUME queue \in Seq(Works), shown' = shown, NEW work \in Works, Put(<<work>>)
  PROVE  /\ queue' \in Seq(Works)
         /\ \A c, st : c \notin amiss' /\ Says(c, st)' =>
              \/ c = work.child /\ st = work.status
              \/ c # work.child /\ c \notin amiss /\ Says(c, st)
<1>1. PICK n \in Nat : n = 1
  OBVIOUS
<1>2. <<work>> \in [1..n -> Works] /\ <<work>>[1] = work
  BY <1>1
<1>3. \A i \in 1..n : i = 1
  BY <1>1
<1>4. 1 \in 1..n
  BY <1>1
<1>5. PICK works : works = <<work>>
  OBVIOUS
<1>5a. works \in [1..n -> Works] /\ works[1] = work
  BY <1>2, <1>5
<1>5b. Put(works)
  BY <1>5, Zenon
<1>6. SaysMore(n, works)
  BY <1>5a, <1>5b, PutSays, Zenon
<1> QED BY <1>3, <1>4, <1>5a, <1>6 DEF SaysMore

LEMMA NoneSays ==
  ASSUME queue \in Seq(Works), shown' = shown, Put(<<>>)
  PROVE  /\ queue' \in Seq(Works)
         /\ \A c, st : c \notin amiss' /\ Says(c, st)' => c \notin amiss /\ Says(c, st)
<1>1. PICK n \in Nat : n = 0
  OBVIOUS
<1>2. <<>> \in [1..n -> Works] /\ ~\E i : i \in 1..n
  BY <1>1
<1>5. PICK works \in [1..n -> Works] : Put(works)
  BY <1>2
<1>6. SaysMore(n, works)
  BY <1>5, PutSays, Zenon
<1> QED BY <1>2, <1>6 DEF SaysMore

\* What a controller has to tell is put on the queue.
LEMMA StatusTold ==
  ASSUME KidsInv, KidsKept, StatusKept, NEW k \in Controllers, ChildTells(k)
  PROVE  StatusKept'
<1>0. made[k] \in KidRecords /\ shown' = shown /\ made[k].tell \in {"connected", "disconnected"}
  <2>1. made[k] \in KidRecords
    BY DEF KidsInv, KidsTypeOK, Controllers
  <2> QED BY <2>1 DEF KidRecords, ChildTells
<1>1. PICK r \in KidRecords :
        /\ made' = [made EXCEPT ![k] = r]
        /\ r.child = made[k].child /\ r.loop = made[k].loop /\ r.up = made[k].up /\ r.tell = "none"
  <2> DEFINE r == [made[k] EXCEPT !.tell = "none"]
  <2>1. made' = [made EXCEPT ![k] = r]
    BY DEF ChildTells
  <2>2. r \in KidRecords
    BY <1>0 DEF KidRecords
  <2>3. r.child = made[k].child /\ r.loop = made[k].loop /\ r.up = made[k].up /\ r.tell = "none"
    BY <1>0 DEF KidRecords
  <2> QED BY <2>1, <2>2, <2>3
<1>2. /\ Controllers' = Controllers /\ made'[k] = r
      /\ \A j \in Controllers : j # k => made'[j] = made[j] /\ (TellsTrue(j)' <=> TellsTrue(j))
  BY <1>1, OneTurns DEF KidsInv
<1>3. \A j \in Controllers : TellsTrue(j)'
  BY <1>1, <1>2 DEF StatusKept, TellsTrue
<1>4. PICK work \in Works : Put(<<work>>) /\ work.child = made[k].child /\ work.status = made[k].tell
  <2>1. [child |-> made[k].child, status |-> made[k].tell] \in Works
    BY <1>0 DEF KidRecords, Works
  <2> QED BY <2>1 DEF ChildTells
<1>5. /\ queue' \in Seq(Works)
      /\ \A c, st : c \notin amiss' /\ Says(c, st)' =>
           \/ c = made[k].child /\ st = made[k].tell
           \/ c # made[k].child /\ c \notin amiss /\ Says(c, st)
  <2>1. queue \in Seq(Works)
    BY DEF StatusKept
  <2>2. /\ queue' \in Seq(Works)
        /\ \A c, st : c \notin amiss' /\ Says(c, st)' =>
             \/ c = work.child /\ st = work.status
             \/ c # work.child /\ c \notin amiss /\ Says(c, st)
    BY <1>0, <1>4, <2>1, OneSays
  <2> QED BY <1>4, <2>2
<1>6. ASSUME NEW c \in Children, WordTrue(c), c \notin amiss' PROVE SaysTrue(c)'
  <2>1. CASE c # made[k].child
    <3>1. \A st : Says(c, st)' => SaysTrue(c) /\ Says(c, st)
      BY <1>5, <1>6, <2>1 DEF WordTrue
    <3>2. \A j \in Controllers : made[j].child = c => j # k /\ made'[j] = made[j]
      BY <1>2, <2>1
    <3>3. \A j \in Controllers : made'[j].child = c => j # k /\ made[j].child = c
      BY <1>1, <1>2, <2>1
    <3>4. Says(c, "connected")' =>
            \E j \in Controllers : made'[j].child = c /\ (made'[j].up \/ made'[j].tell = "disconnected")
      BY <3>1, <3>2 DEF SaysTrue
    <3>5. Says(c, "disconnected")' =>
            \A j \in Controllers : made'[j].child = c /\ made'[j].up => made'[j].tell = "connected"
      BY <3>1, <3>2, <3>3 DEF SaysTrue
    <3> QED BY <1>2, <3>4, <3>5 DEF SaysTrue
  <2>2. CASE c = made[k].child
    <3>1. \A st : Says(c, st)' => st = made[k].tell
      BY <1>5, <1>6, <2>2
    <3>2. made[k].tell = "connected" => made[k].up
      BY DEF StatusKept, TellsTrue
    <3>3. Says(c, "connected")' =>
            \E j \in Controllers : made'[j].child = c /\ (made'[j].up \/ made'[j].tell = "disconnected")
      BY <1>1, <1>2, <2>2, <3>1, <3>2
    <3>4. ASSUME Says(c, "disconnected")', NEW j \in Controllers, made'[j].child = c, made'[j].up
          PROVE  FALSE
      <4>1. made[k].tell = "disconnected" /\ ~made[k].up /\ Running(k)
        BY <1>0, <3>1, <3>4 DEF StatusKept, TellsTrue, Running
      <4>2. j # k /\ made[j].child = c /\ made[j].up
        BY <1>1, <1>2, <3>4, <4>1
      <4>3. Running(j)
        BY <4>2 DEF StatusKept, TellsTrue, Running
      <4> QED BY <2>2, <4>1, <4>2, <4>3 DEF KidsKept
    <3> QED BY <1>2, <3>3, <3>4 DEF SaysTrue
  <2> QED BY <2>1, <2>2
<1> QED BY <1>0, <1>2, <1>3, <1>5, <1>6 DEF StatusKept, WordTrue

\* A loop ends: when it was connected it says that it is not any more.
LEMMA StatusStop ==
  ASSUME KidsInv, KidsKept, StatusKept, NEW k \in Controllers, StopChild(k), HasClient(k)
  PROVE  StatusKept'
<1>0. made[k] \in KidRecords /\ shown' = shown /\ made[k].tell = "none"
  BY DEF KidsInv, KidsTypeOK, Controllers, StopChild
<1>1. PICK r \in KidRecords :
        /\ made' = [made EXCEPT ![k] = r]
        /\ r.child = made[k].child /\ ~r.loop /\ ~r.up /\ r.tell = "none"
  <2> DEFINE r == [made[k] EXCEPT !.loop = FALSE, !.up = FALSE]
  <2>1. made' = [made EXCEPT ![k] = r]
    BY DEF StopChild
  <2>2. r \in KidRecords
    BY <1>0 DEF KidRecords
  <2>3. r.child = made[k].child /\ ~r.loop /\ ~r.up /\ r.tell = "none"
    BY <1>0 DEF KidRecords
  <2> QED BY <2>1, <2>2, <2>3
<1>2. /\ Controllers' = Controllers /\ made'[k] = r
      /\ \A j \in Controllers : j # k => made'[j] = made[j] /\ (TellsTrue(j)' <=> TellsTrue(j))
  BY <1>1, OneTurns DEF KidsInv
<1>3. \A j \in Controllers : TellsTrue(j)'
  BY <1>1, <1>2 DEF StatusKept, TellsTrue
<1>4. queue \in Seq(Works)
  BY DEF StatusKept
<1>5. CASE made[k].up
  <2>1. PICK work \in Works : Put(<<work>>) /\ work.child = made[k].child /\ work.status = "disconnected"
    <3>1. [child |-> made[k].child, status |-> "disconnected"] \in Works
      BY <1>0 DEF KidRecords, Works
    <3> QED BY <1>5, <3>1 DEF StopChild
  <2>2. /\ queue' \in Seq(Works)
        /\ \A c, st : c \notin amiss' /\ Says(c, st)' =>
             \/ c = work.child /\ st = work.status
             \/ c # work.child /\ c \notin amiss /\ Says(c, st)
    BY <1>0, <1>4, <2>1, OneSays
  <2>4. \A c, st : c \notin amiss' /\ Says(c, st)' =>
           \/ c = made[k].child /\ st = "disconnected"
           \/ c # made[k].child /\ c \notin amiss /\ Says(c, st)
    BY <2>1, <2>2
  <2>5. ASSUME NEW c \in Children, WordTrue(c), c \notin amiss' PROVE SaysTrue(c)'
    <3>1. CASE c # made[k].child
      <4>1. \A st : Says(c, st)' => SaysTrue(c) /\ Says(c, st)
        BY <2>4, <2>5, <3>1 DEF WordTrue
      <4>2. \A j \in Controllers : made[j].child = c => j # k /\ made'[j] = made[j]
        BY <1>2, <3>1
      <4>3. \A j \in Controllers : made'[j].child = c => j # k /\ made[j].child = c
        BY <1>1, <1>2, <3>1
      <4>4. Says(c, "connected")' =>
              \E j \in Controllers : made'[j].child = c /\ (made'[j].up \/ made'[j].tell = "disconnected")
        BY <4>1, <4>2 DEF SaysTrue
      <4>5. Says(c, "disconnected")' =>
              \A j \in Controllers : made'[j].child = c /\ made'[j].up => made'[j].tell = "connected"
        BY <4>1, <4>2, <4>3 DEF SaysTrue
      <4> QED BY <1>2, <4>4, <4>5 DEF SaysTrue
    <3>2. CASE c = made[k].child
      <4>1. \A st : Says(c, st)' => st = "disconnected"
        BY <2>4, <2>5, <3>2
      <4>2. ~Says(c, "connected")'
        BY <4>1
      <4>3. ASSUME NEW j \in Controllers, made'[j].child = c, made'[j].up PROVE FALSE
        <5>1. j # k /\ made[j].child = c /\ made[j].up
          BY <1>1, <1>2, <4>3
        <5>2. Running(j) /\ Running(k)
          BY <1>5, <5>1 DEF StatusKept, TellsTrue, Running
        <5> QED BY <3>2, <5>1, <5>2 DEF KidsKept
      <4> QED BY <1>2, <4>2, <4>3 DEF SaysTrue
    <3> QED BY <3>1, <3>2
  <2> QED BY <1>0, <1>2, <1>3, <2>2, <2>5 DEF StatusKept, WordTrue
<1>6. CASE ~made[k].up
  <2>1. Put(<<>>)
    BY <1>6 DEF StopChild
  <2>2. /\ queue' \in Seq(Works)
        /\ \A c, st : c \notin amiss' /\ Says(c, st)' => c \notin amiss /\ Says(c, st)
    BY <1>0, <1>4, <2>1, NoneSays
  <2>4. ASSUME NEW c \in Children, WordTrue(c), c \notin amiss' PROVE SaysTrue(c)'
    <3>1. \A j \in Controllers : made'[j].child = made[j].child /\ (made'[j].up <=> made[j].up)
                                 /\ made'[j].tell = made[j].tell
      BY <1>0, <1>1, <1>2, <1>6
    <3>2. \A st : Says(c, st)' => SaysTrue(c) /\ Says(c, st)
      BY <2>2, <2>4 DEF WordTrue
    <3> QED BY <1>2, <3>1, <3>2 DEF SaysTrue
  <2> QED BY <1>0, <1>2, <1>3, <2>2, <2>4 DEF StatusKept, WordTrue
<1> QED BY <1>5, <1>6

\* New controllers are not connected and have nothing to tell; errors are.
LEMMA StatusRead ==
  ASSUME KidsInv, StatusKept, NEW s \in Parents, NEW refused \in SUBSET Wanted(s), ReadScene(s, refused)
  PROVE  StatusKept'
<1>0. KidsTypeOK /\ shown' = shown /\ Len(made) \in Nat /\ Controllers = 1..Len(made)
  BY MadeLength DEF KidsInv, ReadScene
<1>1. PICK n \in Nat :
        /\ made' \in Seq(KidRecords) /\ Len(made') = Len(made) + n
        /\ \A k \in Controllers : made'[k] = made[k]
        /\ \A k \in (Len(made) + 1)..(Len(made) + n) :
             ~made'[k].loop /\ ~made'[k].up /\ made'[k].tell = "none"
  <2>1. PICK n \in Nat, new \in [Changed(s) -> Nat] : NewKids(s, n, new) /\ JobTakes(s, new)
    BY <1>0, SceneRead, Zenon
  <2> QED BY <2>1, Zenon DEF NewKids
<1>2. /\ Controllers \subseteq Controllers'
      /\ \A k \in Controllers' : k \in Controllers \/ (~made'[k].loop /\ ~made'[k].up /\ made'[k].tell = "none")
  <2>1. Controllers' = 1..(Len(made) + n)
    BY <1>1 DEF Controllers
  <2>2. \A k \in 1..(Len(made) + n) : k \in 1..Len(made) \/ k \in (Len(made) + 1)..(Len(made) + n)
    BY <1>0
  <2>3. 1..Len(made) \subseteq 1..(Len(made) + n)
    BY <1>0
  <2> QED BY <1>0, <1>1, <2>1, <2>2, <2>3
<1>3. \A k \in Controllers' : TellsTrue(k)'
  BY <1>1, <1>2 DEF StatusKept, TellsTrue
<1>4. \E m \in Nat : \E news \in [1..m -> Works] :
        Put(news) /\ \A i \in 1..m : news[i].status = "error"
  <2> DEFINE C == Changed(s) \cap refused
             cs == SetToSeq(C)
             m == Cardinality(C)
             news == [i \in DOMAIN cs |-> [child |-> cs[i], status |-> "error"]]
  <2>1. C \subseteq Children /\ IsFiniteSet(C)
    BY ChildrenAssumption, FS_Subset DEF Changed, Wanted
  <2>2. m \in Nat /\ cs \in [1..m -> C]
    BY <2>1, SetToSeqFacts
  <2>3. \A i \in 1..m : [child |-> cs[i], status |-> "error"] \in Works
    BY <2>1, <2>2 DEF Works
  <2> HIDE DEF C, cs, m
  <2>4. news \in [1..m -> Works] /\ \A i \in 1..m : news[i].status = "error"
    BY <2>2, <2>3
  <2>5. Put(news)
    BY DEF ReadScene, Errors, C, cs
  <2> QED BY <2>2, <2>4, <2>5
<1>5. /\ queue' \in Seq(Works)
      /\ \A c, st : c \notin amiss' /\ Says(c, st)' =>
           st = "error" \/ (c \notin amiss /\ Says(c, st))
  <2>0. PICK m \in Nat : \E news \in [1..m -> Works] :
          Put(news) /\ \A i \in 1..m : news[i].status = "error"
    BY <1>4
  <2>a. PICK news \in [1..m -> Works] : Put(news) /\ \A i \in 1..m : news[i].status = "error"
    BY <2>0
  <2>1. queue \in Seq(Works)
    BY DEF StatusKept
  <2>2. SaysMore(m, news)
    BY <2>a, <2>1, PutSays, Zenon
  <2> QED BY <1>0, <2>a, <2>2 DEF SaysMore
<1>6. ASSUME NEW c \in Children, WordTrue(c), c \notin amiss' PROVE SaysTrue(c)'
  <2>1. Says(c, "connected")' => SaysTrue(c) /\ Says(c, "connected")
    BY <1>5, <1>6 DEF WordTrue
  <2>2. Says(c, "disconnected")' => SaysTrue(c) /\ Says(c, "disconnected")
    BY <1>5, <1>6 DEF WordTrue
  <2>3. Says(c, "connected")' =>
          \E k \in Controllers' : made'[k].child = c /\ (made'[k].up \/ made'[k].tell = "disconnected")
    BY <1>1, <1>2, <2>1 DEF SaysTrue
  <2>4. Says(c, "disconnected")' =>
          \A k \in Controllers' : made'[k].child = c /\ made'[k].up => made'[k].tell = "connected"
    BY <1>1, <1>2, <2>2 DEF SaysTrue
  <2> QED BY <2>3, <2>4 DEF SaysTrue
<1> QED BY <1>0, <1>3, <1>5, <1>6 DEF StatusKept, WordTrue

LEMMA StatusInitial == ChildrenInit => StatusKept
<1> SUFFICES ASSUME ChildrenInit PROVE StatusKept
  OBVIOUS
<1>1. made = <<>> /\ queue = <<>> /\ shown = [c \in Children |-> "none"]
  BY DEF ChildrenInit
<1>2. Controllers = {} /\ queue \in Seq(Works) /\ Len(queue) = 0
  BY <1>1 DEF Controllers
<1>3. \A c \in Children : SaysTrue(c)
  BY <1>1, <1>2 DEF SaysTrue, Says
<1> QED BY <1>1, <1>2, <1>3 DEF StatusKept, WordTrue

LEMMA StatusStep ==
  ASSUME HaveClients, KidsInv, StatusKept, [ChildrenNext]_childVars
  PROVE  StatusKept'
<1>0. KidsKept /\ \A k \in Controllers : HasClient(k)
  BY DEF HaveClients, KidsInv
<1>1. CASE \/ ConnectionLost \/ OnConnect \/ OnNotice \/ ReadRaises \/ Commit \/ Finish
           \/ UNCHANGED childVars \/ \E s \in Parents : ReadFails(s)
           \/ \E c \in Children : AskStatus(c)
           \/ \E c \in Children : \E h \in Names : ChangeRow(c, h)
  <2>1. UNCHANGED <<made, queue, shown, amiss>>
    BY <1>1 DEF ConnectionLost, OnConnect, OnNotice, ReadRaises, Commit, Finish, childVars, ReadFails,
                ChangeRow, AskStatus
  <2> QED BY <2>1, StatusQuiet
<1>2. CASE Work \/ Answer
  BY <1>2, StatusShown, StatusAnswered
<1>3. ASSUME NEW s \in Parents, NEW refused \in SUBSET Wanted(s), ReadScene(s, refused) PROVE StatusKept'
  BY <1>3, StatusRead
<1>4. ASSUME NEW k \in Controllers,
             \/ StopChild(k) \/ StartChild(k) \/ ChildTells(k)
             \/ \E up \in BOOLEAN : ChildTurns(k, up)
      PROVE  StatusKept'
  BY <1>0, <1>4, StatusStop, StatusStart, StatusTold, StatusTurns
<1> QED BY <1>1, <1>2, <1>3, <1>4 DEF ChildrenNext, Names

(* While every controller has a client: once the work of a child is done,  *)
(* it is shown connected only if it is, and disconnected only if it is     *)
(* not, unless its last word was lost or out of date.                      *)
THEOREM StatusesSettle == ChildrenSpec /\ []HaveClients => []StatusSettles
<1>1. HaveClients /\ KidsInv /\ StatusKept => StatusSettles
  <2> SUFFICES ASSUME HaveClients, KidsInv, StatusKept, NEW c \in Children, c \notin amiss, job = NoJob,
                      kids[c] # 0, made[kids[c]].tell = "none", ~HasWork(c, queue)
               PROVE  /\ shown[c] = "connected" => made[kids[c]].up
                      /\ shown[c] = "disconnected" => ~made[kids[c]].up
    BY DEF StatusSettles
  <2>1. KidsKept
    BY DEF KidsInv
  <2>2. kids[c] \in Controllers /\ made[kids[c]].child = c
    BY <2>1 DEF KidsKept, KidsInv, KidsTypeOK, Controllers
  <2>n. \A i \in 1..Len(queue) : queue[i].child # c
    BY DEF HasWork, ChildrenOf, StatusKept
  <2>3. Says(c, "connected") <=> shown[c] = "connected"
    BY <2>n DEF Says
  <2>4. Says(c, "disconnected") <=> shown[c] = "disconnected"
    BY <2>n DEF Says
  <2>5. SaysTrue(c)
    BY DEF StatusKept, WordTrue
  <2>6. \A k \in Controllers : made[k].child = c /\ (made[k].up \/ made[k].tell = "disconnected") => k = kids[c]
    <3>1. \A k \in Controllers : made[k].up \/ made[k].tell = "disconnected" => Running(k)
      BY DEF StatusKept, TellsTrue, Running
    <3>2. \A k \in Controllers : Running(k) => Owned(k)
      BY <2>1 DEF KidsKept, NoJob
    <3> QED BY <3>1, <3>2 DEF Owned
  <2> QED BY <2>2, <2>3, <2>4, <2>5, <2>6 DEF SaysTrue
<1>2. HaveClients /\ [ChildrenNext]_childVars /\ KidsInv /\ StatusKept => (KidsInv /\ StatusKept)'
  BY KidsStep, StatusStep
<1> QED BY <1>1, <1>2, KidsInitial, StatusInitial, PTL DEF ChildrenSpec

-----------------------------------------------------------------------------
(* Analytics: the events of a region.                                       *)

\* What an object's history, or what the last event left of it, says of the
\* region is covered by a published entry.
History == [locs : Nat, region : BOOLEAN]
Backed(i) ==
  /\ held[i] \in {"no", "live", "stale", "stale, never entered"}
  /\ held[i] = "live" /\ chain[i].region => i \in told
  /\ held[i] = "stale" => i \in told
  /\ held[i] = "stale, never entered" => ~chain[i].region
RegionInv == chain \in [Objects -> History] /\ \A i \in Objects : Backed(i)

\* A message enters no region, and a history it drops is in none.
LEMMA IngestHistory ==
  ASSUME RegionInv, NEW t
  PROVE  /\ Ingest(t) \in [Objects -> History]
         /\ \A i \in Objects :
              /\ Ingest(t)[i].region => chain[i].region
              /\ i \in Of(t) /\ place[i] = "absent" => ~Ingest(t)[i].region
<1> SUFFICES ASSUME NEW i \in Objects
             PROVE  /\ Ingest(t)[i] \in History
                    /\ Ingest(t)[i].region => chain[i].region
                    /\ i \in Of(t) /\ place[i] = "absent" => ~Ingest(t)[i].region
  BY DEF Ingest
<1>1. PICK h \in History : h = chain[i]
  BY DEF RegionInv
<1>2. CASE i \notin Of(t)
  BY <1>1, <1>2 DEF Ingest, History
<1>3. CASE i \in Of(t) /\ place[i] = "absent"
  BY <1>3 DEF Ingest, NoChain, History
<1>4. CASE i \in Of(t) /\ place[i] # "absent"
  <2>1. PICK n \in Nat : Ingest(t)[i] = [h EXCEPT !.locs = n]
    BY <1>1, <1>4 DEF Ingest, History
  <2>2. Ingest(t)[i] \in History /\ Ingest(t)[i].region = h.region
    BY <2>1 DEF History
  <2> QED BY <1>1, <1>4, <2>2
<1> QED BY <1>2, <1>3, <1>4

\* A new object enters the region, the others keep what they had.
LEMMA EnteringHistory ==
  ASSUME RegionInv, NEW t
  PROVE  /\ Entering(t) \in [Objects -> History]
         /\ \A i \in Objects : Entering(t)[i].region => i \in New(t) \/ Ingest(t)[i].region
<1> SUFFICES ASSUME NEW i \in Objects
             PROVE  /\ Entering(t)[i] \in History
                    /\ Entering(t)[i].region => i \in New(t) \/ Ingest(t)[i].region
  BY DEF Entering
<1>1. PICK h \in History : h = Ingest(t)[i]
  BY IngestHistory
<1>2. CASE i \in New(t)
  <2>1. Entering(t)[i] = [h EXCEPT !.region = TRUE]
    BY <1>1, <1>2 DEF Entering, History
  <2> QED BY <1>2, <2>1 DEF History
<1>3. CASE i \notin New(t)
  <2>1. Entering(t)[i] = [h EXCEPT !.region = h.region]
    BY <1>1, <1>3 DEF Entering, History
  <2>2. Entering(t)[i] = h
    BY <2>1 DEF History
  <2> QED BY <1>1, <2>2
<1> QED BY <1>2, <1>3

\* What the message leaves of the last event is still covered.
LEMMA HeldBacked ==
  ASSUME RegionInv, NEW t, NEW i \in Objects
  PROVE  /\ Held(t)[i] \in {"no", "live", "stale", "stale, never entered"}
         /\ Held(t)[i] = "no" <=> held[i] = "no"
         /\ Held(t)[i] = "live" /\ Entering(t)[i].region => i \in told
         /\ Held(t)[i] = "stale" => i \in told
         /\ Held(t)[i] = "stale, never entered" => ~Entering(t)[i].region
<1>1. Backed(i)
  BY DEF RegionInv
<1>2. held[i] # "no" => i \notin New(t)
  BY DEF New, Previous, Current, Present
<1>3. /\ Ingest(t)[i].region => chain[i].region
      /\ i \in Of(t) /\ place[i] = "absent" => ~Ingest(t)[i].region
      /\ Entering(t)[i].region => i \in New(t) \/ Ingest(t)[i].region
  BY IngestHistory, EnteringHistory
<1>4. CASE i \in Dropped(t) /\ held[i] = "live"
  <2>1. i \in Of(t) /\ place[i] = "absent"
    BY <1>4 DEF Dropped
  <2>2. Held(t)[i] = IF chain[i].region THEN "stale" ELSE "stale, never entered"
    BY <1>4 DEF Held
  <2> QED BY <1>1, <1>2, <1>3, <1>4, <2>1, <2>2 DEF Backed
<1>5. CASE ~(i \in Dropped(t) /\ held[i] = "live")
  <2>1. Held(t)[i] = held[i]
    BY <1>5 DEF Held
  <2> QED BY <1>1, <1>2, <1>3, <2>1 DEF Backed
<1> QED BY <1>4, <1>5

\* An exit is covered by an entry.
LEMMA ExitedTold ==
  ASSUME RegionInv, NEW t
  PROVE  Exited(t) \subseteq told
BY HeldBacked DEF Exited, Old, Previous, Of

\* Without an event.
LEMMA QuietBacked ==
  ASSUME RegionInv, NEW t, KeepQuiet(t)
  PROVE  RegionInv'
<1>1. held' = Held(t) /\ chain' = Entering(t) /\ told' = told
  BY DEF KeepQuiet, KeptWithout
<1>2. ASSUME NEW i \in Objects PROVE Backed(i)'
  BY <1>1, HeldBacked DEF Backed
<1> QED BY <1>1, <1>2, EnteringHistory DEF RegionInv

\* With an event: it tells of the new objects, and what it leaves behind are the
\* objects inside.
LEMMA EventBacked ==
  ASSUME RegionInv, NEW t, EmitEvent(t)
  PROVE  RegionInv'
<1>1. /\ told' = (told \ Exited(t)) \cup New(t)
      /\ held' = [i \in Objects |-> IF i \in Current(t) THEN "live"
                                    ELSE IF i \in Of(t) THEN "no" ELSE held[i]]
      /\ chain' = [i \in Objects |->
           [Entering(t)[i] EXCEPT !.region = @ /\ ~(i \in Old(t) /\ Held(t)[i] = "live")]]
  BY DEF EmitEvent
<1>2. ASSUME NEW i \in Objects
      PROVE  chain'[i] \in History /\ (chain'[i].region => Entering(t)[i].region)
  <2>1. PICK h \in History : h = Entering(t)[i]
    BY EnteringHistory
  <2>2. CASE i \in Old(t) /\ Held(t)[i] = "live"
    <3>1. chain'[i] = [h EXCEPT !.region = FALSE]
      BY <1>1, <2>1, <2>2 DEF History
    <3> QED BY <3>1 DEF History
  <2>3. CASE ~(i \in Old(t) /\ Held(t)[i] = "live")
    <3>1. chain'[i] = [h EXCEPT !.region = h.region]
      BY <1>1, <2>1, <2>3 DEF History
    <3>2. chain'[i] = h
      BY <3>1 DEF History
    <3> QED BY <2>1, <3>2
  <2> QED BY <2>2, <2>3
<1>3. ASSUME NEW i \in Objects PROVE Backed(i)'
  <2>1. CASE i \in Current(t)
    <3>1. held'[i] = "live" /\ i \notin Exited(t)
      BY <1>1, <2>1 DEF Exited, Old
    <3>2. i \in New(t) \/ held[i] # "no"
      BY <2>1 DEF New, Previous, Current, Present
    <3>3. chain'[i].region => i \in New(t) \/ i \in told
      BY <1>2, <3>2, HeldBacked, EnteringHistory, IngestHistory
    <3> QED BY <1>1, <3>1, <3>3 DEF Backed
  <2>2. CASE i \in Of(t) \ Current(t)
    BY <1>1, <2>2 DEF Backed
  <2>3. CASE i \notin Of(t)
    <3>1. i \notin Current(t) /\ i \notin New(t) /\ i \notin Exited(t) /\ i \notin Dropped(t)
      BY <2>3 DEF Current, Present, New, Exited, Old, Previous, Dropped
    <3>2. held'[i] = held[i] /\ Held(t)[i] = held[i] /\ (i \in told <=> i \in told')
      BY <1>1, <2>3, <3>1 DEF Held
    <3> QED BY <1>2, <3>2, HeldBacked DEF Backed
  <2> QED BY <2>1, <2>2, <2>3
<1>4. chain' = [i \in Objects |-> chain'[i]]
  BY <1>1
<1> QED BY <1>2, <1>3, <1>4 DEF RegionInv

LEMMA RegionStep == RegionInv /\ [RegionNext]_regionVars => RegionInv'
<1> SUFFICES ASSUME RegionInv, [RegionNext]_regionVars PROVE RegionInv'
  OBVIOUS
<1>1. CASE UNCHANGED <<chain, held, told>>
  BY <1>1 DEF RegionInv, Backed
<1>2. CASE \E t \in Types : HandleSceneData(t)
  BY <1>2, QuietBacked, EventBacked DEF HandleSceneData
<1> QED BY <1>1, <1>2 DEF RegionNext, Tick, Move, regionVars

LEMMA RegionStart == RegionInit => RegionInv
BY DEF RegionInit, RegionInv, Backed, History, NoChain

\* Nobody leaves a region who was not announced: an exit is published only for an
\* object whose entry was, whatever the debounce swallowed and whichever histories
\* were dropped (region.py:98-137).
THEOREM ExitsAreEarned == RegionSpec => ExitFollowsEntry
<1>1. RegionInv /\ [RegionNext]_regionVars => [event'.exited \subseteq told]_event
  <2> SUFFICES ASSUME RegionInv, [RegionNext]_regionVars, event' # event
               PROVE  event'.exited \subseteq told
    OBVIOUS
  <2>1. CASE event' = NoEvent
    BY <2>1 DEF NoEvent
  <2>2. CASE \E t \in Types : EmitEvent(t)
    BY <2>2, ExitedTold DEF EmitEvent
  <2> QED BY <2>1, <2>2 DEF RegionNext, Tick, Move, HandleSceneData, KeepQuiet, regionVars
<1> QED BY <1>1, RegionStart, RegionStep, PTL DEF RegionSpec, ExitFollowsEntry

-----------------------------------------------------------------------------
(* Auto calibration: the markers of a scene.                                *)

\* A run of the thread r is a run; while it replaces the markers no other does, and
\* those it has not yet to delete are the ones of its map.
AsRun(x) == x = [pc |-> x.pc, left |-> x.left, map |-> x.map, update |-> x.update,
                 stamp |-> x.stamp]
InRun(r) == run[r].pc \notin {"idle", "acquire"}
Replaces(r) ==
  /\ run[r].pc = "clear" => Stored \subseteq run[r].left
  /\ run[r].pc \in {"create", "mark"} => \A t \in Stored : markers[t] = run[r].map
RunsInv ==
  /\ DOMAIN run = Runs /\ run = [r \in Runs |-> run[r]]
  /\ markers = [t \in Tags |-> markers[t]]
  /\ \A r \in Runs : AsRun(run[r]) /\ Replaces(r)
  /\ \A r, s \in Runs : InRun(r) /\ InRun(s) => r = s

\* Markers are only deleted, and a thread takes up nothing that a marker counts for.
LEMMA DeletesKeep ==
  ASSUME RunsInv, markers' = [t \in Tags |-> markers'[t]],
         \A t \in Tags : markers'[t] \in {0, markers[t]},
         run' = [r \in Runs |-> run'[r]], DOMAIN run' = Runs,
         \A r \in Runs : \/ run'[r] = run[r]
                         \/ AsRun(run'[r]) /\ run'[r].pc \in {"idle", "acquire"}
  PROVE  RunsInv'
<1>1. Stored' \subseteq Stored /\ \A t \in Stored' : markers'[t] = markers[t]
  BY DEF Stored
<1>2. ASSUME NEW r \in Runs
      PROVE  AsRun(run'[r]) /\ Replaces(r)' /\ (InRun(r)' => InRun(r))
  <2>1. CASE run'[r] = run[r]
    <3>1. AsRun(run[r]) /\ Replaces(r)
      BY DEF RunsInv
    <3>2. Replaces(r)'
      BY <1>1, <2>1, <3>1 DEF Replaces
    <3> QED BY <2>1, <3>1, <3>2 DEF InRun
  <2>2. CASE AsRun(run'[r]) /\ run'[r].pc \in {"idle", "acquire"}
    BY <2>2 DEF Replaces, InRun
  <2> QED BY <2>1, <2>2
<1> QED BY <1>2 DEF RunsInv

\* A handler may start a run in a thread that is idle.
LEMMA StartKeeps ==
  ASSUME RunsInv, NEW v, StartRun(v), markers' = markers
  PROVE  RunsInv'
<1>1. CASE run' = run
  BY <1>1, DeletesKeep DEF RunsInv
<1>2. CASE \E r \in Runs : run' = [run EXCEPT ![r] =
                 [NoRun EXCEPT !.pc = "acquire", !.map = v, !.update = TRUE]]
  <2>1. PICK r \in Runs : run' = [run EXCEPT ![r] =
                 [NoRun EXCEPT !.pc = "acquire", !.map = v, !.update = TRUE]]
    BY <1>2
  <2>2. DOMAIN run' = Runs /\ run' = [s \in Runs |-> run'[s]]
        /\ \A s \in Runs : s # r => run'[s] = run[s]
    BY <2>1 DEF RunsInv
  <2>3. AsRun(run'[r]) /\ run'[r].pc = "acquire"
    BY <2>1 DEF NoRun, AsRun, RunsInv
  <2>4. \A t \in Tags : markers'[t] \in {0, markers[t]}
    OBVIOUS
  <2>5. markers' = [t \in Tags |-> markers'[t]]
    BY DEF RunsInv
  <2> QED BY <2>2, <2>3, <2>4, <2>5, DeletesKeep
<1> QED BY <1>1, <1>2 DEF StartRun

\* One thread goes on to x, the markers change as they may there.
LEMMA RunMoves ==
  ASSUME RunsInv, NEW r \in Runs, NEW x, AsRun(x), run' = [run EXCEPT ![r] = x],
         markers' = [t \in Tags |-> markers'[t]],
         x.pc \notin {"idle", "acquire"} => InRun(r) \/ ~Locked,
         (\A t \in Tags : markers'[t] \in {0, markers[t]}) \/ InRun(r),
         x.pc = "clear" => Stored' \subseteq x.left,
         x.pc \in {"create", "mark"} => \A t \in Stored' : markers'[t] = x.map
  PROVE  RunsInv'
<1>1. DOMAIN run' = Runs /\ run' = [s \in Runs |-> run'[s]] /\ run'[r] = x
      /\ \A s \in Runs : s # r => run'[s] = run[s]
  BY DEF RunsInv
<1>2. AsRun(run'[r]) /\ Replaces(r)'
  BY <1>1 DEF Replaces
<1>3. ASSUME NEW s \in Runs, s # r PROVE AsRun(run'[s]) /\ Replaces(s)'
  <2>1. run'[s] = run[s] /\ AsRun(run[s]) /\ Replaces(s)
    BY <1>1, <1>3 DEF RunsInv
  <2>2. CASE ~InRun(s)
    BY <2>1, <2>2 DEF InRun, Replaces
  <2>3. CASE InRun(s)
    <3>1. ~InRun(r)
      BY <1>3, <2>3 DEF RunsInv
    <3>2. \A t \in Tags : markers'[t] \in {0, markers[t]}
      BY <3>1
    <3>3. Stored' \subseteq Stored /\ \A t \in Stored' : markers'[t] = markers[t]
      BY <3>2 DEF Stored
    <3> QED BY <2>1, <3>3 DEF Replaces
  <2> QED BY <2>2, <2>3
<1>4. ASSUME NEW s \in Runs, s # r, InRun(s)', InRun(r)' PROVE FALSE
  <2>1. InRun(s) /\ x.pc \notin {"idle", "acquire"}
    BY <1>1, <1>4 DEF InRun
  <2> QED BY <1>4, <2>1 DEF RunsInv, Locked, InRun
<1>5. ASSUME NEW s \in Runs, s # r, NEW u \in Runs, u # r, InRun(s)', InRun(u)' PROVE s = u
  BY <1>1, <1>5 DEF RunsInv, InRun
<1> QED BY <1>1, <1>2, <1>3, <1>4, <1>5 DEF RunsInv

\* A handler's steps and the Manager's.
LEMMA HandlersKeep ==
  ASSUME RunsInv, Upload \/ Edit \/ Post \/ Handle \/ ResetFails
  PROVE  RunsInv'
<1>1. DOMAIN run = Runs /\ run = [r \in Runs |-> run[r]] /\ markers = [t \in Tags |-> markers[t]]
  BY DEF RunsInv
<1>2. CASE run' = run /\ markers' = markers
  BY <1>1, <1>2, DeletesKeep
<1>3. CASE ResetDelete
  <2>1. PICK t \in call.left : markers' = [markers EXCEPT ![t] = 0]
    BY <1>3 DEF ResetDelete
  <2>2. markers' = [u \in Tags |-> markers'[u]] /\ \A u \in Tags : markers'[u] \in {0, markers[u]}
    BY <1>1, <2>1
  <2>3. run' = run
    BY <1>3 DEF ResetDelete
  <2> QED BY <1>1, <2>2, <2>3, DeletesKeep
<1>4. CASE ResetDone
  BY <1>4, StartKeeps DEF ResetDone
<1>5. CASE Post
  BY <1>2, <1>5, StartKeeps DEF Post
<1> QED BY <1>2, <1>3, <1>4, <1>5 DEF Upload, Edit, Handle, Patch, ResetList, ResetFails

\* A run's steps.
LEMMA RunKeeps ==
  ASSUME RunsInv, NEW r \in Runs, RunStep(r) \/ RequestFails(r)
  PROVE  RunsInv'
<1>1. /\ DOMAIN run = Runs /\ markers = [t \in Tags |-> markers[t]]
      /\ AsRun(run[r]) /\ Replaces(r)
  BY DEF RunsInv
<1>2. AsRun(NoRun) /\ NoRun.pc = "idle"
  BY DEF AsRun, NoRun
<1>3. PICK x : x = run[r] /\ AsRun(x)
  BY <1>1
<1>4. ASSUME NEW p PROVE /\ AsRun([x EXCEPT !.pc = p]) /\ [x EXCEPT !.pc = p].pc = p
                         /\ [x EXCEPT !.pc = p].left = x.left /\ [x EXCEPT !.pc = p].map = x.map
  BY <1>3 DEF AsRun
<1>5. ASSUME run' = [run EXCEPT ![r] = NoRun], markers' = markers PROVE RunsInv'
  BY <1>1, <1>2, <1>5, RunMoves
<1>6. CASE Acquire(r)
  <2>1. run' = [run EXCEPT ![r] = [x EXCEPT !.pc = "build"]] /\ ~Locked /\ markers' = markers
    BY <1>3, <1>6 DEF Acquire, Step
  <2> QED BY <1>1, <1>4, <2>1, RunMoves
<1>7. CASE Build(r)
  <2>1. PICK p \in {"list", "load"} : run' = [run EXCEPT ![r] = [x EXCEPT !.pc = p]]
    BY <1>3, <1>7 DEF Build, Step
  <2>2. markers' = markers /\ InRun(r)
    BY <1>7 DEF Build, Step, InRun
  <2> QED BY <1>1, <1>4, <2>1, <2>2, RunMoves
<1>8. CASE List(r)
  <2>1. markers' = markers /\ InRun(r)
    BY <1>8 DEF List, Step, InRun
  <2>2. CASE ready
    <3>1. PICK y : y = [x EXCEPT !.pc = "clear", !.left = Stored]
      OBVIOUS
    <3>2. run' = [run EXCEPT ![r] = y]
      BY <1>3, <1>8, <2>2, <3>1 DEF List, Step, Cleared
    <3>3. AsRun(y) /\ y.pc = "clear" /\ y.left = Stored
      BY <1>3, <3>1 DEF AsRun
    <3>4. Stored' = Stored
      BY <2>1 DEF Stored
    <3> QED BY <1>1, <2>1, <3>2, <3>3, <3>4, RunMoves
  <2>3. CASE ~ready
    BY <1>5, <1>8, <2>1, <2>3 DEF List, Step
  <2> QED BY <2>2, <2>3
<1>9. CASE Clear(r)
  <2>1. InRun(r) /\ Stored \subseteq x.left /\ x.pc = "clear"
    BY <1>1, <1>3, <1>9 DEF Clear, Step, InRun, Replaces
  <2>2. ASSUME NEW t \in x.left, markers' = [markers EXCEPT ![t] = 0],
               Step(r, "clear", IF markers[t] = 0 THEN NoRun ELSE [x EXCEPT !.left = @ \ {t}])
        PROVE  RunsInv'
    <3>1. markers' = [u \in Tags |-> markers'[u]] /\ \A u \in Tags : markers'[u] \in {0, markers[u]}
      BY <1>1, <2>2
    <3>2. CASE markers[t] = 0
      <4>1. run' = [run EXCEPT ![r] = NoRun]
        BY <2>2, <3>2 DEF Step
      <4> QED BY <1>2, <3>1, <4>1, RunMoves
    <3>3. CASE markers[t] # 0
      <4>1. PICK y : y = [x EXCEPT !.left = @ \ {t}]
        OBVIOUS
      <4>2. run' = [run EXCEPT ![r] = y]
        BY <2>2, <3>3, <4>1 DEF Step
      <4>3. AsRun(y) /\ y.pc = "clear" /\ y.left = x.left \ {t}
        BY <1>3, <2>1, <4>1 DEF AsRun
      <4>4. Stored' \subseteq Stored \ {t}
        BY <1>1, <2>2 DEF Stored
      <4> QED BY <2>1, <3>1, <4>2, <4>3, <4>4, RunMoves
    <3> QED BY <3>2, <3>3
  <2>3. ASSUME x.left = {}, markers' = markers,
               Step(r, "clear", [x EXCEPT !.pc = "create", !.left = TagsOf(x.map)])
        PROVE  RunsInv'
    <3>1. PICK y : y = [x EXCEPT !.pc = "create", !.left = TagsOf(x.map)]
      OBVIOUS
    <3>2. AsRun(y) /\ y.pc = "create" /\ run' = [run EXCEPT ![r] = y]
      BY <1>3, <2>3, <3>1 DEF AsRun, Step
    <3>3. Stored' = {}
      BY <2>1, <2>3 DEF Stored
    <3> QED BY <1>1, <2>1, <2>3, <3>2, <3>3, RunMoves
  <2> QED BY <1>3, <1>9, <2>2, <2>3 DEF Clear
<1>10. CASE Create(r)
  <2>1. InRun(r) /\ x.pc = "create" /\ \A u \in Stored : markers[u] = x.map
    BY <1>1, <1>3, <1>10 DEF Create, Step, InRun, Replaces
  <2>2. ASSUME NEW t \in x.left, markers' = [markers EXCEPT ![t] = x.map],
               Step(r, "create", [x EXCEPT !.left = @ \ {t}])
        PROVE  RunsInv'
    <3>1. markers' = [u \in Tags |-> markers'[u]]
          /\ \A u \in Tags : markers'[u] = IF u = t THEN x.map ELSE markers[u]
      BY <1>1, <2>2
    <3>2. \A u \in Stored' : markers'[u] = x.map
      BY <2>1, <3>1 DEF Stored
    <3>3. PICK y : y = [x EXCEPT !.left = @ \ {t}]
      OBVIOUS
    <3>4. AsRun(y) /\ y.pc = "create" /\ y.map = x.map /\ run' = [run EXCEPT ![r] = y]
      BY <1>3, <2>1, <2>2, <3>3 DEF AsRun, Step
    <3> QED BY <2>1, <3>1, <3>2, <3>4, RunMoves
  <2>3. ASSUME x.left = {}, markers' = markers,
               Step(r, "create", [x EXCEPT !.pc = "mark", !.stamp = map])
        PROVE  RunsInv'
    <3>1. PICK y : y = [x EXCEPT !.pc = "mark", !.stamp = map]
      OBVIOUS
    <3>2. AsRun(y) /\ y.pc = "mark" /\ y.map = x.map /\ run' = [run EXCEPT ![r] = y]
      BY <1>3, <2>3, <3>1 DEF AsRun, Step
    <3>3. \A u \in Stored' : markers'[u] = x.map
      BY <2>1, <2>3 DEF Stored
    <3> QED BY <1>1, <2>1, <2>3, <3>2, <3>3, RunMoves
  <2> QED BY <1>3, <1>10, <2>2, <2>3 DEF Create
<1>11. CASE Mark(r)
  <2>1. run' = [run EXCEPT ![r] = [x EXCEPT !.pc = "load"]] /\ InRun(r) /\ markers' = markers
    BY <1>3, <1>11 DEF Mark, Step, InRun
  <2> QED BY <1>1, <1>4, <2>1, RunMoves
<1>12. CASE LoadMarkers(r) \/ RequestFails(r)
  BY <1>5, <1>12 DEF LoadMarkers, RequestFails, Step
<1> QED BY <1>6, <1>7, <1>8, <1>9, <1>10, <1>11, <1>12 DEF RunStep

LEMMA RunsStart == RegistrationInit => RunsInv
<1> SUFFICES ASSUME RegistrationInit PROVE RunsInv
  OBVIOUS
<1>1. markers = [t \in Tags |-> markers[t]]
  BY DEF RegistrationInit
<1>2. PICK r \in Runs : run = [s \in Runs |-> IF s = r
        THEN [NoRun EXCEPT !.pc = "acquire", !.map = 1, !.update = processed = 0] ELSE NoRun]
  BY DEF RegistrationInit
<1>3. PICK first : first = [NoRun EXCEPT !.pc = "acquire", !.map = 1, !.update = processed = 0]
  OBVIOUS
<1>4. AsRun(first) /\ first.pc = "acquire" /\ AsRun(NoRun) /\ NoRun.pc = "idle"
  BY <1>3 DEF AsRun, NoRun
<1>5. DOMAIN run = Runs /\ run = [s \in Runs |-> run[s]] /\ \A s \in Runs : run[s] \in {first, NoRun}
  BY <1>2, <1>3
<1> QED BY <1>1, <1>4, <1>5 DEF RunsInv, Replaces, InRun

LEMMA RunsStep == RunsInv /\ [RegistrationNext]_registrationVars => RunsInv'
<1> SUFFICES ASSUME RunsInv, [RegistrationNext]_registrationVars PROVE RunsInv'
  OBVIOUS
<1>1. CASE UNCHANGED registrationVars
  BY <1>1 DEF registrationVars, RunsInv, Replaces, InRun, Stored
<1> QED BY <1>1, HandlersKeep, RunKeeps DEF RegistrationNext

\* No marker of an older map stands beside the new ones when a scene is marked as
\* registered, whichever runs, resets and uploads went on meanwhile
\* (atag_camera_calibration_controller.py:114).
THEOREM NoObsoleteMarkers == RegistrationSpec => NothingObsolete
<1>1. RunsInv => (\A r \in Runs : Marks(r) => \A t \in Stored : markers[t] = run[r].map)
  BY DEF RunsInv, Replaces, Marks
<1>2. RunsInv /\ [RegistrationNext]_registrationVars
        => [\A r \in Runs : Marks(r) => \A t \in Stored : markers[t] = run[r].map]_registrationVars
  BY <1>1
<1> QED BY <1>2, RunsStart, RunsStep, PTL DEF RegistrationSpec, NothingObsolete

=============================================================================
