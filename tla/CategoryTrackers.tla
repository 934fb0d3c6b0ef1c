-------------------------- MODULE CategoryTrackers --------------------------
(***************************************************************************)
(* The tracker of a scene in the controller: one thread with a queue per   *)
(* category, made when a message first brings the category.  A message is  *)
(* queued directly, or kept per camera until the chunk processor hands the *)
(* newest of every camera to the queue in one batch; a category that still *)
(* has a batch in its queue gets none.  join() stops the processor, then   *)
(* the threads, and shuts down the UUID manager of every thread that has   *)
(* ended; a thread that outlives the deadline does that itself.            *)
(***************************************************************************)
EXTENDS Naturals, Sequences, FiniteSets

CONSTANTS Categories, Cameras,
          Messengers, \* threads that bring messages
          MaxMessages \* bound

VARIABLES chunked,  \* time_chunking_enabled, chosen once
          joined,   \* _joined
          joiner,   \* where the thread in join() is
          running,  \* categories join() has yet to signal, wait for or close
          worker,   \* thread of each category
          trackQueue,    \* its queue: frames and the shutdown signal
          manager,  \* its UUID manager: open or shut
          message,  \* what each messenger is at
          feeder,   \* the chunk processor
          buffer,   \* cameras with a frame kept for each category
          taken,    \* frames the processor has popped and not handed on
          messages
trackerVars == <<joined, joiner, running, worker, trackQueue, manager, message, feeder, buffer, taken, messages>>

None == "none"
Created == {c \in Categories : worker[c] # None}
Alive(c) == worker[c] \in {"idle", "busy", "closing"}
Nothing == [c \in Categories |-> {}]

TrackersInit ==
  /\ chunked \in BOOLEAN
  /\ joined = FALSE /\ joiner = "away" /\ running = {}
  /\ worker = [c \in Categories |-> None] /\ trackQueue = [c \in Categories |-> <<>>]
  /\ manager = [c \in Categories |-> "open"]
  /\ message = [m \in Messengers |-> [pc |-> "none", category |-> None]]
  /\ feeder = None /\ buffer = Nothing /\ taken = Nothing /\ messages = 0

(***************************************************************************)
(* Messages                                                                *)
(***************************************************************************)
(* Trackers are created under the lifecycle lock, never after join().     *)
TrackObjects(m, c) ==
  /\ message[m].pc = "none" /\ messages < MaxMessages /\ messages' = messages + 1
  /\ message' = [message EXCEPT ![m] = [pc |-> "check", category |-> c]]
  /\ worker' = IF joined \/ worker[c] # None THEN worker ELSE [worker EXCEPT ![c] = "idle"]
  /\ feeder' = IF chunked /\ ~joined /\ feeder = None THEN "wait" ELSE feeder
  /\ UNCHANGED <<joined, joiner, running, trackQueue, manager, buffer, taken>>

\* Mutant of Busy: a batch is queued behind others.
BusyNever(c) == FALSE

Busy(c) == trackQueue[c] # <<>>

(* Without the lock: join() may go on between this look and the put.      *)
CheckJoined(m) ==
  LET c == message[m].category
  IN /\ message[m].pc = "check"
     /\ message' = [message EXCEPT ![m].pc = IF joined \/ (~chunked /\ Busy(c)) THEN "none" ELSE "put"]
     /\ UNCHANGED <<joined, joiner, running, worker, trackQueue, manager, feeder, buffer, taken, messages>>

PutFrame(m) ==
  LET c == message[m].category
  IN /\ message[m].pc = "put"
     /\ message' = [message EXCEPT ![m].pc = "none"]
     /\ \/ /\ chunked
           /\ \E a \in Cameras : buffer' = [buffer EXCEPT ![c] = @ \cup {a}]
           /\ UNCHANGED trackQueue
        \/ /\ ~chunked
           /\ trackQueue' = [trackQueue EXCEPT ![c] = Append(@, "frame")]
           /\ UNCHANGED buffer
     /\ UNCHANGED <<joined, joiner, running, worker, manager, feeder, taken, messages>>

(***************************************************************************)
(* The chunk processor                                                     *)
(***************************************************************************)
PopAll ==
  /\ feeder = "wait"
  /\ feeder' = "feed" /\ taken' = buffer /\ buffer' = Nothing
  /\ UNCHANGED <<joined, joiner, running, worker, trackQueue, manager, message, messages>>

(* One category's batch, dropped if its thread is behind.                 *)
FeedCategory(c) ==
  /\ feeder \in {"feed", "feed, stopping"} /\ taken[c] # {}
  /\ taken' = [taken EXCEPT ![c] = {}]
  /\ trackQueue' = IF Busy(c) THEN trackQueue ELSE [trackQueue EXCEPT ![c] = Append(@, "frame")]
  /\ UNCHANGED <<joined, joiner, running, worker, manager, message, feeder, buffer, messages>>

FeedDone ==
  /\ feeder \in {"feed", "feed, stopping"} /\ taken = Nothing
  /\ feeder' = IF feeder = "feed" THEN "wait" ELSE "dead"
  /\ UNCHANGED <<joined, joiner, running, worker, trackQueue, manager, message, buffer, taken, messages>>

FeederStops ==
  /\ feeder = "stopping" /\ feeder' = "dead"
  /\ UNCHANGED <<joined, joiner, running, worker, trackQueue, manager, message, buffer, taken, messages>>

(***************************************************************************)
(* The thread of a category                                                *)
(***************************************************************************)
Get(c) ==
  /\ worker[c] = "idle" /\ trackQueue[c] # <<>>
  /\ worker' = [worker EXCEPT ![c] = IF Head(trackQueue[c]) = "stop" THEN "closing" ELSE "busy"]
  /\ trackQueue' = [trackQueue EXCEPT ![c] = Tail(@)]
  /\ UNCHANGED <<joined, joiner, running, manager, message, feeder, buffer, taken, messages>>

(* With or without an exception.                                           *)
Tracked(c) ==
  /\ worker[c] = "busy" /\ worker' = [worker EXCEPT ![c] = "idle"]
  /\ UNCHANGED <<joined, joiner, running, trackQueue, manager, message, feeder, buffer, taken, messages>>

End(c) ==
  /\ worker[c] = "closing" /\ worker' = [worker EXCEPT ![c] = "dead"]
  /\ manager' = [manager EXCEPT ![c] = "shut"]
  /\ UNCHANGED <<joined, joiner, running, trackQueue, message, feeder, buffer, taken, messages>>

(***************************************************************************)
(* join()                                                                  *)
(***************************************************************************)
Join ==
  /\ joiner = "away" /\ joiner' = "feeder" /\ joined' = TRUE
  /\ running' = Created
  /\ feeder' = IF feeder = "wait" THEN "stopping"
               ELSE IF feeder = "feed" THEN "feed, stopping" ELSE feeder
  /\ UNCHANGED <<worker, trackQueue, manager, message, buffer, taken, messages>>

(* Every wait ends with the thread or with the deadline.                   *)
FeederJoined ==
  /\ joiner = "feeder" /\ joiner' = "signal"
  /\ UNCHANGED <<joined, running, worker, trackQueue, manager, message, feeder, buffer, taken, messages>>

Signalled == running

Signal ==
  /\ joiner = "signal" /\ joiner' = "wait"
  /\ trackQueue' = [c \in Categories |-> IF c \in Signalled THEN Append(trackQueue[c], "stop") ELSE trackQueue[c]]
  /\ UNCHANGED <<joined, running, worker, manager, message, feeder, buffer, taken, messages>>

ThreadsJoined ==
  /\ joiner = "wait" /\ joiner' = "close"
  /\ UNCHANGED <<joined, running, worker, trackQueue, manager, message, feeder, buffer, taken, messages>>

\* Mutant of Closable: the manager is shut down under a running thread.
ClosableAlways(c) == TRUE

Closable(c) == ~Alive(c)

Close(c) ==
  /\ joiner = "close" /\ c \in running /\ running' = running \ {c}
  /\ manager' = [manager EXCEPT ![c] = IF Closable(c) THEN "shut" ELSE @]
  /\ UNCHANGED <<joined, joiner, worker, trackQueue, message, feeder, buffer, taken, messages>>

Messenger(m) == CheckJoined(m) \/ PutFrame(m)
Feeder == PopAll \/ (\E c \in Categories : FeedCategory(c)) \/ FeedDone \/ FeederStops
Worker(c) == Get(c) \/ Tracked(c) \/ End(c)
Joiner == FeederJoined \/ Signal \/ ThreadsJoined \/ \E c \in Categories : Close(c)

TrackersNext ==
  /\ UNCHANGED chunked
  /\ \/ \E m \in Messengers, c \in Categories : TrackObjects(m, c)
     \/ \E m \in Messengers : Messenger(m)
     \/ Feeder \/ Join \/ Joiner
     \/ \E c \in Categories : Worker(c)

(* join() may never be called; every thread goes on.                       *)
TrackersFairness ==
  /\ WF_trackerVars(Joiner) /\ WF_trackerVars(Feeder)
  /\ \A m \in Messengers : WF_trackerVars(Messenger(m))
  /\ \A c \in Categories : WF_trackerVars(Worker(c))

TrackersSpec == TrackersInit /\ [][TrackersNext]_<<trackerVars, chunked>> /\ TrackersFairness

(***************************************************************************)
(* Properties.                                                             *)
(***************************************************************************)
(* A thread that outlives the deadline keeps its UUID manager until it     *)
(* exits (tracking.py:188, 278-282).                                       *)
ManagerHeld == \A c \in Categories : worker[c] \in {"idle", "busy"} => manager[c] = "open"

(* Two messengers may both find the queue empty, more than one frame each  *)
(* never waits for a thread, beside the signal of join() (tracking.py:94,  *)
(* time_chunking.py:107).                                                  *)
Signals == IF joiner \in {"wait", "close"} THEN 1 ELSE 0
QueueBounded ==
  \A c \in Categories :
    Len(trackQueue[c]) <= Signals + (IF chunked THEN 1 ELSE Cardinality(Messengers))

(* After join() every thread there ever was ends and every UUID manager is *)
(* shut down, whichever category a message brings meanwhile                *)
(* (tracking.py:113-117, 252-283).                                         *)
JoinEnded ==
  joined => \A c \in Created : worker[c] = "dead" /\ manager[c] = "shut"
=============================================================================
