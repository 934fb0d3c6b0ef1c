--------------------------- MODULE TrackerPipeline ---------------------------
(***************************************************************************)
(* The frame pipeline of the C++ tracker service (tracker/src).            *)
(*                                                                         *)
(*   MQTT thread      handleCameraMessage: one batch per active scope of   *)
(*                    the camera's scene, added to the TimeChunkBuffer     *)
(*   scheduler thread every interval: pop_all, then one chunk per scope to *)
(*                    that scope's bounded worker queue                    *)
(*   worker threads   one per scope: process the chunks of their queue     *)
(*   main thread      starts the parts and stops them in order             *)
(*                                                                         *)
(* A scope is a (scene, category) pair.  A batch stands for the detections *)
(* one camera message carries for one scope, possibly none; the detections *)
(* themselves are abstracted away.  "seq" is the batch's receive_time: the *)
(* MQTT thread stamps messages one after the other.  "time" is the capture *)
(* timestamp the camera wrote into the message.                            *)
(***************************************************************************)
EXTENDS Integers, Sequences, FiniteSets

CONSTANTS
  Cameras,        \* camera ids of the scene registry
  Scenes,         \* scene ids
  Categories,     \* object categories with a valid topic segment
  SceneOf,        \* SceneRegistry: the scene each camera belongs to
  MaxWorkers,     \* config_.max_workers
  QueueCapacity,  \* kWorkerQueueCapacity
  MaxFrames,      \* bound of the model: camera messages received
  Times,          \* capture timestamps a message may carry
  NoBatch         \* no message in the MQTT callback

ASSUME SceneOfAssumption == SceneOf \in [Cameras -> Scenes]
ASSUME BoundsAssumption ==
  /\ MaxWorkers \in Nat
  /\ QueueCapacity \in Nat \ {0}
  /\ MaxFrames \in Nat
  /\ Times \subseteq Nat

Scopes == Scenes \X Categories
Frames == 1..MaxFrames
Batch == [camera : Cameras, seq : Frames, time : Times]

ASSUME NoBatchAssumption == NoBatch \notin Batch

(***************************************************************************)
(* Chunk::make_sentinel is an empty Chunk.  A chunk the scheduler builds   *)
(* holds a batch: a scope enters the buffer with its first batch.          *)
(***************************************************************************)
Sentinel == {}

VARIABLES
  phase,     \* where main() is
  received,  \* camera messages received so far
  incoming,  \* the batch the MQTT callback is handing out, or NoBatch
  todo,      \* scopes the callback has still to add it to
  active,    \* MessageHandler::active_scopes_
  buffer,    \* TimeChunkBuffer: per scope, the latest batch of each camera
  sched,     \* where the scheduler thread is
  stopping,  \* TimeChunkScheduler::stop_requested_
  snapshot,  \* what pop_all returned and dispatch has still to hand over
  worker,    \* per scope, where its worker thread is
  ending,    \* per scope, TrackingWorker::stop_requested_
  queue,     \* per scope, the worker's queue
  current,   \* per scope, the chunk inside process_chunk
  stamp,     \* per scope, timestamp of the tracks published last
  lastSeq,   \* history: per scope and camera, the last batch processed
  fate       \* history: per scope and message, what became of its batch

handlerVars == <<received, incoming, todo, active>>
workerVars == <<worker, ending, queue, current, stamp, lastSeq>>
schedVars == <<sched, stopping, snapshot>>
vars == <<phase, handlerVars, buffer, schedVars, workerVars, fate>>

Phases == {"init", "scheduling", "running", "handler_stopped", "joining",
           "sentinels", "clearing", "stopped"}
Fates == {"none", "live", "superseded", "limit", "full", "tracked"}

HandlerTypeOK ==
  /\ phase \in Phases
  /\ received \in 0..MaxFrames
  /\ incoming \in Batch \cup {NoBatch}
  /\ todo \in SUBSET Scopes
  /\ todo # {} => incoming # NoBatch
  /\ active \in SUBSET Scopes

SchedulerTypeOK ==
  /\ buffer \in [Scopes -> SUBSET Batch]
  /\ sched \in {"off", "waiting", "dispatching", "exited"}
  /\ stopping \in BOOLEAN
  /\ snapshot \in [Scopes -> SUBSET Batch]

WorkerTypeOK ==
  /\ worker \in [Scopes -> {"none", "waiting", "processing", "exited", "joined"}]
  /\ ending \in [Scopes -> BOOLEAN]
  /\ queue \in [Scopes -> Seq(SUBSET Batch)]
  /\ current \in [Scopes -> SUBSET Batch]
  /\ \A s \in Scopes : (worker[s] = "processing") = (current[s] # {})

HistoryTypeOK ==
  /\ stamp \in [Scopes -> Times \cup {0}]
  /\ lastSeq \in [Scopes -> [Cameras -> 0..MaxFrames]]
  /\ fate \in [Scopes -> [Frames -> Fates]]

TypeOK == HandlerTypeOK /\ SchedulerTypeOK /\ WorkerTypeOK /\ HistoryTypeOK

Init ==
  /\ phase = "init"
  /\ received = 0
  /\ incoming = NoBatch
  /\ todo = {}
  /\ active = {}
  /\ buffer = [s \in Scopes |-> {}]
  /\ sched = "off"
  /\ stopping = FALSE
  /\ snapshot = [s \in Scopes |-> {}]
  /\ worker = [s \in Scopes |-> "none"]
  /\ ending = [s \in Scopes |-> FALSE]
  /\ queue = [s \in Scopes |-> <<>>]
  /\ current = [s \in Scopes |-> {}]
  /\ stamp = [s \in Scopes |-> 0]
  /\ lastSeq = [s \in Scopes |-> [c \in Cameras |-> 0]]
  /\ fate = [s \in Scopes |-> [n \in Frames |-> "none"]]

\* The history of scope s once the batches of the set B have met verdict v.
Settle(s, B, v) ==
  [fate EXCEPT ![s] = [n \in Frames |->
     IF \E b \in B : b.seq = n THEN v ELSE fate[s][n]]]

Workers == {s \in Scopes : worker[s] # "none"}

-----------------------------------------------------------------------------
(* MQTT thread.  message_arrived holds callback_mutex_ from Receive to the  *)
(* last AddBatch, so messages are handled one at a time.                    *)

\* Messages are delivered while the handler's callback is installed.
Listening == phase = "running"

\* handleCameraMessage returns early: topic, JSON, schema, camera or timestamp
\* is bad, or the message lags by more than max_lag_s.
Reject ==
  /\ Listening
  /\ todo = {}
  /\ received < MaxFrames
  /\ received' = received + 1
  /\ UNCHANGED <<phase, incoming, todo, active, buffer, schedVars, workerVars, fate>>

\* A valid message of camera c, taken at time t, with detections of the
\* categories "cats": their scopes become active, and every active scope of the
\* scene is to get a batch of this message, empty if its category is not in it.
Receive(c, t, cats) ==
  /\ Listening
  /\ todo = {}
  /\ received < MaxFrames
  /\ received' = received + 1
  /\ active' = active \cup ({SceneOf[c]} \X cats)
  /\ todo' = {s \in active' : s[1] = SceneOf[c]}
  /\ incoming' = IF todo' = {} THEN NoBatch
                 ELSE [camera |-> c, seq |-> received', time |-> t]
  /\ UNCHANGED <<phase, buffer, schedVars, workerVars, fate>>

\* Mutant of AddBatch: the buffer keeps the older batches of a camera as well.
AddBatchKeepingOlder(s) ==
  /\ s \in todo
  /\ buffer' = [buffer EXCEPT ![s] = @ \cup {incoming}]
  /\ fate' = [fate EXCEPT ![s][incoming.seq] = "live"]
  /\ todo' = todo \ {s}
  /\ incoming' = IF todo' = {} THEN NoBatch ELSE incoming
  /\ UNCHANGED <<phase, received, active, schedVars, workerVars>>

\* TimeChunkBuffer::add: keep the latest batch of each camera.
AddBatch(s) ==
  LET old == {b \in buffer[s] : b.camera = incoming.camera} IN
  /\ s \in todo
  /\ buffer' = [buffer EXCEPT ![s] = (@ \ old) \cup {incoming}]
  /\ fate' = [Settle(s, old, "superseded") EXCEPT ![s][incoming.seq] = "live"]
  /\ todo' = todo \ {s}
  /\ incoming' = IF todo' = {} THEN NoBatch ELSE incoming
  /\ UNCHANGED <<phase, received, active, schedVars, workerVars>>

-----------------------------------------------------------------------------
(* Scheduler thread.                                                        *)

\* Mutant of PopAll: the buffer is copied, not swapped with an empty one.
PopAllByCopy ==
  /\ sched = "waiting"
  /\ ~stopping
  /\ snapshot' = buffer
  /\ sched' = IF \A s \in Scopes : buffer[s] = {} THEN "waiting" ELSE "dispatching"
  /\ UNCHANGED <<phase, handlerVars, buffer, stopping, workerVars, fate>>

\* One turn of run(): the interval is over, no stop is requested, pop_all.
PopAll ==
  /\ sched = "waiting"
  /\ ~stopping
  /\ snapshot' = buffer
  /\ buffer' = [s \in Scopes |-> {}]
  /\ sched' = IF \A s \in Scopes : buffer[s] = {} THEN "waiting" ELSE "dispatching"
  /\ UNCHANGED <<phase, handlerVars, stopping, workerVars, fate>>

\* Mutant of Dispatched: dispatch() ends after the first scope.
DispatchedFirst(s) ==
  /\ snapshot' = [snapshot EXCEPT ![s] = {}]
  /\ sched' = "waiting"
  /\ UNCHANGED <<phase, handlerVars, buffer, stopping, ending, current, stamp, lastSeq>>

\* Scope s of the snapshot is dealt with; the last one ends dispatch().
Dispatched(s) ==
  /\ snapshot' = [snapshot EXCEPT ![s] = {}]
  /\ sched' = IF \A r \in Scopes \ {s} : snapshot[r] = {} THEN "waiting" ELSE sched
  /\ UNCHANGED <<phase, handlerVars, buffer, stopping, ending, current, stamp, lastSeq>>

\* get_or_create_worker returns nullptr: all workers are taken by other scopes.
DropAtLimit(s) ==
  /\ sched = "dispatching"
  /\ snapshot[s] # {}
  /\ worker[s] = "none"
  /\ Cardinality(Workers) >= MaxWorkers
  /\ fate' = Settle(s, snapshot[s], "limit")
  /\ Dispatched(s)
  /\ UNCHANGED <<worker, queue>>

\* The scope has a worker or gets one, and try_enqueue takes the chunk.
Enqueue(s) ==
  /\ sched = "dispatching"
  /\ snapshot[s] # {}
  /\ worker[s] # "none" \/ Cardinality(Workers) < MaxWorkers
  /\ Len(queue[s]) < QueueCapacity
  /\ worker' = [worker EXCEPT ![s] = IF @ = "none" THEN "waiting" ELSE @]
  /\ queue' = [queue EXCEPT ![s] = Append(@, snapshot[s])]
  /\ Dispatched(s)
  /\ UNCHANGED fate

\* Mutant of DropAtFull: a full queue makes room by evicting its oldest chunk,
\* which nobody counts.
EvictOldest(s) ==
  /\ sched = "dispatching"
  /\ snapshot[s] # {}
  /\ worker[s] # "none"
  /\ Len(queue[s]) >= QueueCapacity
  /\ queue' = [queue EXCEPT ![s] = Append(Tail(@), snapshot[s])]
  /\ Dispatched(s)
  /\ UNCHANGED <<worker, fate>>

\* try_enqueue drops the current chunk: the worker's queue is full.
DropAtFull(s) ==
  /\ sched = "dispatching"
  /\ snapshot[s] # {}
  /\ worker[s] # "none"
  /\ Len(queue[s]) >= QueueCapacity
  /\ fate' = Settle(s, snapshot[s], "full")
  /\ Dispatched(s)
  /\ UNCHANGED <<worker, queue>>

\* Mutant of SchedulerExit: the thread wants to leave an empty buffer behind.
SchedulerExitDrained ==
  /\ sched = "waiting"
  /\ stopping
  /\ \A s \in Scopes : buffer[s] = {}
  /\ sched' = "exited"
  /\ UNCHANGED <<phase, handlerVars, buffer, stopping, snapshot, workerVars, fate>>

\* run() sees stop_requested_ between two dispatches and returns.
SchedulerExit ==
  /\ sched = "waiting"
  /\ stopping
  /\ sched' = "exited"
  /\ UNCHANGED <<phase, handlerVars, buffer, stopping, snapshot, workerVars, fate>>

-----------------------------------------------------------------------------
(* Worker threads.                                                          *)

\* Mutants of Wake: the sentinel is taken for a chunk of no batches ...
WakeIgnoringSentinel(s) ==
  /\ worker[s] = "waiting"
  /\ queue[s] # <<>>
  /\ queue' = [queue EXCEPT ![s] = Tail(@)]
  /\ current' = [current EXCEPT ![s] = Head(queue[s])]
  /\ worker' = [worker EXCEPT ![s] = "processing"]
  /\ UNCHANGED <<phase, handlerVars, buffer, schedVars, ending, stamp, lastSeq, fate>>

\* ... and a stop request ends the thread whatever its queue still holds.
WakeStoppingAtOnce(s) ==
  /\ worker[s] = "waiting"
  /\ queue[s] # <<>> \/ ending[s]
  /\ IF ending[s]
     THEN /\ worker' = [worker EXCEPT ![s] = "exited"]
          /\ UNCHANGED <<queue, current>>
     ELSE /\ queue' = [queue EXCEPT ![s] = Tail(@)]
          /\ current' = [current EXCEPT ![s] = Head(queue[s])]
          /\ worker' = [worker EXCEPT ![s] =
               IF Head(queue[s]) = Sentinel THEN "exited" ELSE "processing"]
  /\ UNCHANGED <<phase, handlerVars, buffer, schedVars, ending, stamp, lastSeq, fate>>

\* TrackingWorker::run wakes up: it stops on an empty queue after a stop
\* request, and on the sentinel; any other chunk it starts to process.
Wake(s) ==
  /\ worker[s] = "waiting"
  /\ queue[s] # <<>> \/ ending[s]
  /\ IF queue[s] = <<>>
     THEN /\ worker' = [worker EXCEPT ![s] = "exited"]
          /\ UNCHANGED <<queue, current>>
     ELSE /\ queue' = [queue EXCEPT ![s] = Tail(@)]
          /\ current' = [current EXCEPT ![s] = Head(queue[s])]
          /\ worker' = [worker EXCEPT ![s] =
               IF Head(queue[s]) = Sentinel THEN "exited" ELSE "processing"]
  /\ UNCHANGED <<phase, handlerVars, buffer, schedVars, ending, stamp, lastSeq, fate>>

\* build_chunk sorts the batches by receive_time; b is the last of them.
IsBack(b, chunk) == b \in chunk /\ \A o \in chunk : o.seq <= b.seq

\* process_chunk: the batches go to the tracker, and the tracks, even when there
\* are none, are published with the timestamp of the last batch.
Process(s) ==
  /\ worker[s] = "processing"
  /\ \E b \in current[s] :
       IsBack(b, current[s]) /\ stamp' = [stamp EXCEPT ![s] = b.time]
  /\ lastSeq' = [lastSeq EXCEPT ![s] = [c \in Cameras |->
       IF \E b \in current[s] : b.camera = c
       THEN (CHOOSE b \in current[s] : b.camera = c).seq ELSE lastSeq[s][c]]]
  /\ fate' = Settle(s, current[s], "tracked")
  /\ current' = [current EXCEPT ![s] = {}]
  /\ worker' = [worker EXCEPT ![s] = "waiting"]
  /\ UNCHANGED <<phase, handlerVars, buffer, schedVars, ending, queue>>

-----------------------------------------------------------------------------
(* main(): start the scheduler, then the handler; after a signal or a       *)
(* database update stop them in the same order as data flows.               *)

StartScheduler ==
  /\ phase = "init"
  /\ phase' = "scheduling"
  /\ sched' = "waiting"
  /\ UNCHANGED <<handlerVars, buffer, stopping, snapshot, workerVars, fate>>

StartHandler ==
  /\ phase = "scheduling"
  /\ phase' = "running"
  /\ UNCHANGED <<handlerVars, buffer, schedVars, workerVars, fate>>

\* MessageHandler::stop: setMessageCallback(nullptr) waits on callback_mutex_
\* until no callback runs.
StopHandler ==
  /\ phase = "running"
  /\ todo = {}
  /\ phase' = "handler_stopped"
  /\ UNCHANGED <<handlerVars, buffer, schedVars, workerVars, fate>>

\* TimeChunkScheduler::stop sets stop_requested_ and notifies the thread.
RequestStop ==
  /\ phase = "handler_stopped"
  /\ phase' = "joining"
  /\ stopping' = TRUE
  /\ UNCHANGED <<handlerVars, buffer, sched, snapshot, workerVars, fate>>

JoinScheduler ==
  /\ phase = "joining"
  /\ sched = "exited"
  /\ phase' = "sentinels"
  /\ UNCHANGED <<handlerVars, buffer, schedVars, workerVars, fate>>

\* push_sentinel on every worker, past the capacity check.
PushSentinels ==
  /\ phase = "sentinels"
  /\ phase' = "clearing"
  /\ queue' = [s \in Scopes |->
       IF s \in Workers THEN Append(queue[s], Sentinel) ELSE queue[s]]
  /\ UNCHANGED <<handlerVars, buffer, schedVars, worker, ending, current, stamp,
                 lastSeq, fate>>

\* workers_.clear(): the destructors run one after the other; each sets the
\* worker's stop_requested_ ...
BeginDestroy(s) ==
  /\ phase = "clearing"
  /\ s \in Workers
  /\ \A r \in Scopes : ending[r] => worker[r] = "joined"
  /\ ending' = [ending EXCEPT ![s] = TRUE]
  /\ UNCHANGED <<phase, handlerVars, buffer, schedVars, worker, queue, current, stamp,
                 lastSeq, fate>>

\* ... and joins its thread.
JoinWorker(s) ==
  /\ ending[s]
  /\ worker[s] = "exited"
  /\ worker' = [worker EXCEPT ![s] = "joined"]
  /\ UNCHANGED <<phase, handlerVars, buffer, schedVars, ending, queue, current, stamp,
                 lastSeq, fate>>

Stopped ==
  /\ phase = "clearing"
  /\ \A s \in Workers : worker[s] = "joined"
  /\ phase' = "stopped"
  /\ UNCHANGED <<handlerVars, buffer, schedVars, workerVars, fate>>

\* The process has ended.
Terminated ==
  /\ phase = "stopped"
  /\ UNCHANGED vars

-----------------------------------------------------------------------------
MqttThread ==
  \/ Reject
  \/ \E c \in Cameras, t \in Times, cats \in SUBSET Categories : Receive(c, t, cats)
  \/ \E s \in Scopes : AddBatch(s)

SchedulerThread ==
  \/ PopAll
  \/ \E s \in Scopes : DropAtLimit(s) \/ Enqueue(s) \/ DropAtFull(s)
  \/ SchedulerExit

WorkerThread(s) == Wake(s) \/ Process(s)

ShutDown ==
  \/ RequestStop
  \/ JoinScheduler
  \/ PushSentinels
  \/ \E s \in Scopes : BeginDestroy(s) \/ JoinWorker(s)
  \/ Stopped

MainThread == StartScheduler \/ StartHandler \/ StopHandler \/ ShutDown

Next ==
  \/ MqttThread
  \/ SchedulerThread
  \/ \E s \in Scopes : WorkerThread(s)
  \/ MainThread
  \/ Terminated

Spec == Init /\ [][Next]_vars

(***************************************************************************)
(* Every thread that can run does run, and a callback that was entered     *)
(* completes.  Messages and the stop of the service need not ever come.    *)
(***************************************************************************)
Fairness ==
  /\ WF_vars(\E s \in Scopes : AddBatch(s))
  /\ WF_vars(SchedulerThread)
  /\ \A s \in Scopes : WF_vars(WorkerThread(s))
  /\ WF_vars(StartScheduler \/ StartHandler \/ ShutDown)

FairSpec == Spec /\ Fairness

-----------------------------------------------------------------------------
(* Properties.                                                              *)

\* Messages whose batch for scope s is in the set B.
SeqsOf(B) == {b.seq : b \in B}

\* The batches in the chunks of the queue q, and in those of scope s's worker.
BatchesIn(q) == UNION {q[i] : i \in 1..Len(q)}
Queued(s) == BatchesIn(queue[s])

\* Where a batch of scope s can be between add() and the end of process_chunk.
InFlight(s) == buffer[s] \cup snapshot[s] \cup Queued(s) \cup current[s]

(***************************************************************************)
(* No batch leaks: a batch that entered the buffer is in exactly the       *)
(* stages it can still leave with a verdict (superseded by a newer frame   *)
(* of its camera, dropped at a limit, tracked), across the swap of the     *)
(* buffer, the hand-over to a queue and the shutdown.                      *)
(***************************************************************************)
Conserved(s) == SeqsOf(InFlight(s)) = {n \in Frames : fate[s][n] = "live"}

FrameConservation == \A s \in Scopes : Conserved(s)

\* Batches of B come, camera by camera, before those of C.
Before(B, C) == \A b \in B, c \in C : b.camera = c.camera => b.seq < c.seq

\* A chunk holds one batch of a camera at most.
OneEach(B) == \A b, c \in B : b.camera = c.camera => b = c

\* The chunks of a queue are of that kind, and in that order.
InOrder(q) ==
  \A i \in 1..Len(q) : OneEach(q[i]) /\ \A j \in 1..Len(q) : i < j => Before(q[i], q[j])

(***************************************************************************)
(* The frames of one camera reach a scope's tracker in the order the       *)
(* service received them and none twice: whatever was processed is older   *)
(* than the chunk in work, that one older than every queued chunk, those   *)
(* in queue order, then the snapshot, then the buffer; and a chunk never   *)
(* mixes two frames of a camera.                                           *)
(***************************************************************************)
ScopeOrder(s) ==
  /\ \A b \in InFlight(s) : lastSeq[s][b.camera] < b.seq
  /\ Before(current[s], Queued(s) \cup snapshot[s] \cup buffer[s])
  /\ InOrder(queue[s])
  /\ Before(Queued(s), snapshot[s] \cup buffer[s])
  /\ Before(snapshot[s], buffer[s])
  /\ OneEach(current[s]) /\ OneEach(snapshot[s]) /\ OneEach(buffer[s])

CameraOrder == \A s \in Scopes : ScopeOrder(s)

(***************************************************************************)
(* CameraOrder is not inductive alone: it needs that nothing in flight is  *)
(* numbered past the last message received, and that the batch the MQTT    *)
(* callback holds is newer than all there is in the scopes it is still to  *)
(* be added to.                                                            *)
(***************************************************************************)
NewestInHand(s) ==
  /\ \A b \in InFlight(s) : b.seq <= received
  /\ \A c \in Cameras : lastSeq[s][c] <= received
  /\ s \in todo =>
       /\ incoming.seq = received
       /\ \A b \in InFlight(s) : b.seq < incoming.seq
       /\ lastSeq[s][incoming.camera] < incoming.seq

OrderInv == TypeOK /\ \A s \in Scopes : ScopeOrder(s) /\ NewestInHand(s)

(***************************************************************************)
(* FrameConservation rests on the order as well: two stages hold no batch  *)
(* of the same message, since a message is of one camera.                  *)
(***************************************************************************)
OneCamera(s) == \A b, c \in InFlight(s) : b.seq = c.seq => b.camera = c.camera

ConservationInv == OrderInv /\ \A s \in Scopes : Conserved(s) /\ OneCamera(s)

(***************************************************************************)
(* The sentinel ends its queue: nothing is behind it, so no chunk that     *)
(* try_enqueue accepted is abandoned by a worker that stops at it, and     *)
(* only the sentinel exceeds the queue's capacity.                         *)
(***************************************************************************)
SentinelLast ==
  \A s \in Scopes :
    /\ \A i \in 1..Len(queue[s]) : queue[s][i] = Sentinel => i = Len(queue[s])
    /\ Len(queue[s]) > QueueCapacity =>
         Len(queue[s]) = QueueCapacity + 1 /\ queue[s][Len(queue[s])] = Sentinel
    /\ worker[s] \in {"exited", "joined"} => queue[s] = <<>>

(***************************************************************************)
(* When the scheduler has stopped, every batch it took from the buffer has *)
(* been tracked or dropped with a count; what is lost uncounted is only    *)
(* what was still in the buffer.  (docs/implementation.md: Draining ends   *)
(* with the queues empty.)                                                 *)
(***************************************************************************)
DrainedWhenStopped ==
  phase = "stopped" =>
    \A s \in Scopes :
      /\ InFlight(s) = buffer[s]
      /\ worker[s] \in {"none", "joined"}

(***************************************************************************)
(* What makes both inductive: the sentinels come when the scheduler has    *)
(* left its loop with an empty snapshot; from then on the queue of every   *)
(* worker that still runs ends in its one sentinel.                        *)
(***************************************************************************)
EndsInSentinel(q) ==
  /\ Len(q) \in 1..(QueueCapacity + 1)
  /\ \A i \in 1..Len(q) : q[i] = Sentinel <=> i = Len(q)

InService(s) ==
  /\ Len(queue[s]) <= QueueCapacity
  /\ \A i \in 1..Len(queue[s]) : queue[s][i] # Sentinel
  /\ worker[s] \notin {"exited", "joined"}
  /\ ~ending[s]

InClearing(s) ==
  /\ worker[s] \in {"exited", "joined"} => queue[s] = <<>>
  /\ worker[s] \in {"waiting", "processing"} => EndsInSentinel(queue[s])

ShutdownScope(s) ==
  /\ worker[s] = "none" => queue[s] = <<>>
  /\ snapshot[s] # {} => sched = "dispatching"
  /\ IF phase \in {"clearing", "stopped"} THEN InClearing(s) ELSE InService(s)
  /\ phase = "stopped" => worker[s] \in {"none", "joined"}

ShutdownInv ==
  /\ TypeOK
  /\ phase = "init" => sched = "off"
  /\ phase \in {"sentinels", "clearing", "stopped"} => sched = "exited"
  /\ \A s \in Scopes : ShutdownScope(s)

\* A shutdown that was begun ends: no thread waits for another for ever.
StopTerminates == phase = "handler_stopped" ~> phase = "stopped"

\* While the service runs, a buffered batch is eventually tracked, superseded by
\* a newer one or dropped at a limit: no scope is forgotten by the scheduler.
FramesSettle ==
  \A s \in Scopes, n \in Frames :
    fate[s][n] = "live" ~> (fate[s][n] # "live" \/ phase # "running")

\* The frames of the feed that the batches in flight carry.
Pending ==
  [s \in Scopes |-> {[source |-> b.camera, seq |-> b.seq] : b \in InFlight(s)}]

(***************************************************************************)
(* The pipeline implements the lossy ordered feed of FrameFeed: the frames *)
(* in flight are its pending frames.                                       *)
(***************************************************************************)
Feed == INSTANCE FrameFeed WITH
  Channels <- Scopes,
  Sources <- Cameras,
  Seqs <- Frames,
  pending <- Pending,
  delivered <- lastSeq

FeedSpec == Feed!Spec

==============================================================================
