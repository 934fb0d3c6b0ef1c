----------------------- MODULE TrackerPipelineProofs -----------------------
(***************************************************************************)
(* Proofs about TrackerPipeline, for any cameras, scenes, categories,      *)
(* worker limit, queue capacity and number of messages.                    *)
(***************************************************************************)
EXTENDS TrackerPipeline, SequenceTheorems, TLAPS

-----------------------------------------------------------------------------
(* Type correctness.                                                        *)

\* A verdict on batches of one scope keeps the history well typed.
LEMMA SettleType ==
  ASSUME fate \in [Scopes -> [Frames -> Fates]], NEW s \in Scopes, NEW B, NEW v \in Fates
  PROVE  Settle(s, B, v) \in [Scopes -> [Frames -> Fates]]
  BY DEF Settle

\* Init establishes the type invariant.
LEMMA InitType == Init => TypeOK
<1> SUFFICES ASSUME Init PROVE TypeOK
  OBVIOUS
<1> USE BoundsAssumption DEF Init
<1>1. HandlerTypeOK
  BY DEF HandlerTypeOK, Phases
<1>2. SchedulerTypeOK
  BY DEF SchedulerTypeOK
<1>3. WorkerTypeOK
  BY DEF WorkerTypeOK
<1>4. HistoryTypeOK
  BY DEF HistoryTypeOK, Fates
<1> QED BY <1>1, <1>2, <1>3, <1>4 DEF TypeOK

\* Every step keeps the type invariant.
LEMMA NextType == TypeOK /\ [Next]_vars => TypeOK'
<1> SUFFICES ASSUME TypeOK, [Next]_vars PROVE TypeOK'
  OBVIOUS
<1> HandlerTypeOK /\ SchedulerTypeOK /\ WorkerTypeOK /\ HistoryTypeOK
  BY DEF TypeOK
<1> USE BoundsAssumption, SceneOfAssumption, NoBatchAssumption
<1>1. CASE Reject
  <2>1. HandlerTypeOK'
    BY <1>1 DEF HandlerTypeOK, Reject, Phases, handlerVars
  <2>2. SchedulerTypeOK'
    BY <1>1 DEF SchedulerTypeOK, Reject, schedVars
  <2>3. WorkerTypeOK'
    BY <1>1 DEF WorkerTypeOK, Reject, Sentinel, workerVars
  <2>4. HistoryTypeOK'
    BY <1>1, SettleType DEF HistoryTypeOK, Reject, Fates, workerVars
  <2> QED BY <2>1, <2>2, <2>3, <2>4 DEF TypeOK
<1>2. ASSUME NEW c \in Cameras, NEW t \in Times, NEW cats \in SUBSET Categories, Receive(c, t, cats)
      PROVE  TypeOK'
  <2>1. HandlerTypeOK'
    <3>1. received \in 0..MaxFrames /\ received' = received + 1 /\ received < MaxFrames
      BY <1>2 DEF Receive, HandlerTypeOK
    <3>2. received' \in 0..MaxFrames /\ received' \in Frames
      BY <3>1 DEF Frames
    <3>3. active' \in SUBSET Scopes /\ todo' \in SUBSET Scopes
      BY <1>2 DEF Receive, HandlerTypeOK, Scopes
    <3>4. [camera |-> c, seq |-> received', time |-> t] \in Batch
      BY <3>2 DEF Batch
    <3>5. incoming' \in Batch \cup {NoBatch} /\ (todo' # {} => incoming' # NoBatch)
      BY <1>2, <3>4 DEF Receive
    <3> QED BY <1>2, <3>2, <3>3, <3>5 DEF Receive, HandlerTypeOK
  <2>2. SchedulerTypeOK'
    BY <1>2 DEF SchedulerTypeOK, Receive, schedVars
  <2>3. WorkerTypeOK'
    BY <1>2 DEF WorkerTypeOK, Receive, Sentinel, workerVars
  <2>4. HistoryTypeOK'
    BY <1>2, SettleType DEF HistoryTypeOK, Receive, Fates, workerVars
  <2> QED BY <2>1, <2>2, <2>3, <2>4 DEF TypeOK
<1>3. ASSUME NEW s \in Scopes, AddBatch(s)
      PROVE  TypeOK'
  <2>1. HandlerTypeOK'
    BY <1>3 DEF HandlerTypeOK, AddBatch, Phases
  <2>2. incoming \in Batch /\ incoming.seq \in Frames
    BY <1>3 DEF HandlerTypeOK, AddBatch, Batch
  <2>3. SchedulerTypeOK'
    <3>1. buffer' \in [Scopes -> SUBSET Batch]
      BY <1>3, <2>2 DEF SchedulerTypeOK, AddBatch
    <3> QED BY <1>3, <3>1 DEF SchedulerTypeOK, AddBatch, schedVars
  <2>4. WorkerTypeOK'
    BY <1>3 DEF WorkerTypeOK, AddBatch, workerVars
  <2>5. HistoryTypeOK'
    <3> DEFINE old == {b \in buffer[s] : b.camera = incoming.camera}
    <3>1. Settle(s, old, "superseded") \in [Scopes -> [Frames -> Fates]]
      BY SettleType DEF HistoryTypeOK, Fates
    <3>2. fate' = [Settle(s, old, "superseded") EXCEPT ![s][incoming.seq] = "live"]
      BY <1>3 DEF AddBatch
    <3> HIDE DEF old
    <3>3. fate' \in [Scopes -> [Frames -> Fates]]
      BY <2>2, <3>1, <3>2 DEF Fates
    <3> QED BY <1>3, <3>3 DEF HistoryTypeOK, AddBatch, workerVars
  <2> QED BY <2>1, <2>3, <2>4, <2>5 DEF TypeOK
<1>4. CASE PopAll
  <2>1. HandlerTypeOK'
    BY <1>4 DEF HandlerTypeOK, PopAll, Phases, handlerVars
  <2>2. SchedulerTypeOK'
    BY <1>4 DEF SchedulerTypeOK, PopAll, schedVars
  <2>3. WorkerTypeOK'
    BY <1>4 DEF WorkerTypeOK, PopAll, Sentinel, workerVars
  <2>4. HistoryTypeOK'
    BY <1>4, SettleType DEF HistoryTypeOK, PopAll, Fates, workerVars
  <2> QED BY <2>1, <2>2, <2>3, <2>4 DEF TypeOK
<1>5. ASSUME NEW s \in Scopes, DropAtLimit(s)
      PROVE  TypeOK'
  <2>1. HandlerTypeOK'
    BY <1>5 DEF HandlerTypeOK, DropAtLimit, Dispatched, Phases, handlerVars
  <2>2. SchedulerTypeOK'
    BY <1>5 DEF SchedulerTypeOK, DropAtLimit, Dispatched, schedVars
  <2>3. WorkerTypeOK'
    BY <1>5 DEF WorkerTypeOK, DropAtLimit, Dispatched, Sentinel, workerVars
  <2>4. HistoryTypeOK'
    BY <1>5, SettleType DEF HistoryTypeOK, DropAtLimit, Dispatched, Fates, workerVars
  <2> QED BY <2>1, <2>2, <2>3, <2>4 DEF TypeOK
<1>6. ASSUME NEW s \in Scopes, DropAtFull(s)
      PROVE  TypeOK'
  <2>1. HandlerTypeOK'
    BY <1>6 DEF HandlerTypeOK, DropAtFull, Dispatched, Phases, handlerVars
  <2>2. SchedulerTypeOK'
    BY <1>6 DEF SchedulerTypeOK, DropAtFull, Dispatched, schedVars
  <2>3. WorkerTypeOK'
    BY <1>6 DEF WorkerTypeOK, DropAtFull, Dispatched, Sentinel, workerVars
  <2>4. HistoryTypeOK'
    BY <1>6, SettleType DEF HistoryTypeOK, DropAtFull, Dispatched, Fates, workerVars
  <2> QED BY <2>1, <2>2, <2>3, <2>4 DEF TypeOK
<1>7. ASSUME NEW s \in Scopes, Enqueue(s)
      PROVE  TypeOK'
  <2>1. HandlerTypeOK'
    BY <1>7 DEF HandlerTypeOK, Enqueue, Dispatched, Phases, handlerVars
  <2>2. SchedulerTypeOK'
    BY <1>7 DEF SchedulerTypeOK, Enqueue, Dispatched, schedVars
  <2>3. WorkerTypeOK'
    <3>1. queue' \in [Scopes -> Seq(SUBSET Batch)]
      BY <1>7 DEF WorkerTypeOK, SchedulerTypeOK, Enqueue
    <3>2. worker' \in [Scopes -> {"none", "waiting", "processing", "exited", "joined"}]
      BY <1>7 DEF WorkerTypeOK, Enqueue
    <3>3. \A r \in Scopes : (worker'[r] = "processing") = (worker[r] = "processing")
      BY <1>7 DEF WorkerTypeOK, Enqueue
    <3> QED BY <1>7, <3>1, <3>2, <3>3 DEF WorkerTypeOK, Enqueue, Dispatched
  <2>4. HistoryTypeOK'
    BY <1>7, SettleType DEF HistoryTypeOK, Enqueue, Dispatched, Fates, workerVars
  <2> QED BY <2>1, <2>2, <2>3, <2>4 DEF TypeOK
<1>8. CASE SchedulerExit
  <2>1. HandlerTypeOK'
    BY <1>8 DEF HandlerTypeOK, SchedulerExit, Phases, handlerVars
  <2>2. SchedulerTypeOK'
    BY <1>8 DEF SchedulerTypeOK, SchedulerExit, schedVars
  <2>3. WorkerTypeOK'
    BY <1>8 DEF WorkerTypeOK, SchedulerExit, Sentinel, workerVars
  <2>4. HistoryTypeOK'
    BY <1>8, SettleType DEF HistoryTypeOK, SchedulerExit, Fates, workerVars
  <2> QED BY <2>1, <2>2, <2>3, <2>4 DEF TypeOK
<1>9. ASSUME NEW s \in Scopes, Wake(s)
      PROVE  TypeOK'
  <2>1. HandlerTypeOK'
    BY <1>9 DEF HandlerTypeOK, Wake, Phases, handlerVars
  <2>2. SchedulerTypeOK'
    BY <1>9 DEF SchedulerTypeOK, Wake, schedVars
  <2>3. WorkerTypeOK'
    <3>1. CASE queue[s] = <<>>
      BY <1>9, <3>1 DEF WorkerTypeOK, Wake
    <3>2. CASE queue[s] # <<>>
      <4>1. Head(queue[s]) \in SUBSET Batch /\ Tail(queue[s]) \in Seq(SUBSET Batch)
        BY <3>2, HeadTailProperties DEF WorkerTypeOK
      <4>2. queue' \in [Scopes -> Seq(SUBSET Batch)]
        BY <1>9, <3>2, <4>1 DEF WorkerTypeOK, Wake
      <4>3. current' \in [Scopes -> SUBSET Batch]
        BY <1>9, <3>2, <4>1 DEF WorkerTypeOK, Wake
      <4>4. worker' \in [Scopes -> {"none", "waiting", "processing", "exited", "joined"}]
        BY <1>9, <3>2 DEF WorkerTypeOK, Wake
      <4>5. \A r \in Scopes : (worker'[r] = "processing") = (current'[r] # {})
        <5>1. \A r \in Scopes \ {s} : worker'[r] = worker[r] /\ current'[r] = current[r]
          BY <1>9, <3>2 DEF WorkerTypeOK, Wake
        <5>2. (worker'[s] = "processing") = (current'[s] # {})
          BY <1>9, <3>2 DEF WorkerTypeOK, Wake, Sentinel
        <5>3. \A r \in Scopes : (worker[r] = "processing") = (current[r] # {})
          BY DEF WorkerTypeOK
        <5> QED BY <5>1, <5>2, <5>3
      <4> QED BY <1>9, <4>2, <4>3, <4>4, <4>5 DEF WorkerTypeOK, Wake
    <3> QED BY <3>1, <3>2
  <2>4. HistoryTypeOK'
    BY <1>9, SettleType DEF HistoryTypeOK, Wake, Fates, workerVars
  <2> QED BY <2>1, <2>2, <2>3, <2>4 DEF TypeOK
<1>10. ASSUME NEW s \in Scopes, Process(s)
      PROVE  TypeOK'
  <2>1. HandlerTypeOK'
    BY <1>10 DEF HandlerTypeOK, Process, Phases, handlerVars
  <2>2. SchedulerTypeOK'
    BY <1>10 DEF SchedulerTypeOK, Process, schedVars
  <2>3. WorkerTypeOK'
    BY <1>10 DEF WorkerTypeOK, Process, Sentinel, workerVars
  <2>4. HistoryTypeOK'
    <3>1. current[s] \in SUBSET Batch /\ current[s] # {}
      BY <1>10 DEF WorkerTypeOK, Process
    <3>2. stamp' \in [Scopes -> Times \cup {0}]
      BY <1>10, <3>1 DEF HistoryTypeOK, Process, Batch
    <3>3. ASSUME NEW c \in Cameras, \E b \in current[s] : b.camera = c
          PROVE  (CHOOSE b \in current[s] : b.camera = c).seq \in 0..MaxFrames
      BY <3>1, <3>3 DEF Batch, Frames
    <3>4. lastSeq' \in [Scopes -> [Cameras -> 0..MaxFrames]]
      BY <1>10, <3>3 DEF HistoryTypeOK, Process
    <3>5. fate' \in [Scopes -> [Frames -> Fates]]
      BY <1>10, SettleType DEF HistoryTypeOK, Process, Fates
    <3> QED BY <3>2, <3>4, <3>5 DEF HistoryTypeOK
  <2> QED BY <2>1, <2>2, <2>3, <2>4 DEF TypeOK
<1>11. CASE StartScheduler
  <2>1. HandlerTypeOK'
    BY <1>11 DEF HandlerTypeOK, StartScheduler, Phases, handlerVars
  <2>2. SchedulerTypeOK'
    BY <1>11 DEF SchedulerTypeOK, StartScheduler, schedVars
  <2>3. WorkerTypeOK'
    BY <1>11 DEF WorkerTypeOK, StartScheduler, Sentinel, workerVars
  <2>4. HistoryTypeOK'
    BY <1>11, SettleType DEF HistoryTypeOK, StartScheduler, Fates, workerVars
  <2> QED BY <2>1, <2>2, <2>3, <2>4 DEF TypeOK
<1>12. CASE StartHandler
  <2>1. HandlerTypeOK'
    BY <1>12 DEF HandlerTypeOK, StartHandler, Phases, handlerVars
  <2>2. SchedulerTypeOK'
    BY <1>12 DEF SchedulerTypeOK, StartHandler, schedVars
  <2>3. WorkerTypeOK'
    BY <1>12 DEF WorkerTypeOK, StartHandler, Sentinel, workerVars
  <2>4. HistoryTypeOK'
    BY <1>12, SettleType DEF HistoryTypeOK, StartHandler, Fates, workerVars
  <2> QED BY <2>1, <2>2, <2>3, <2>4 DEF TypeOK
<1>13. CASE StopHandler
  <2>1. HandlerTypeOK'
    BY <1>13 DEF HandlerTypeOK, StopHandler, Phases, handlerVars
  <2>2. SchedulerTypeOK'
    BY <1>13 DEF SchedulerTypeOK, StopHandler, schedVars
  <2>3. WorkerTypeOK'
    BY <1>13 DEF WorkerTypeOK, StopHandler, Sentinel, workerVars
  <2>4. HistoryTypeOK'
    BY <1>13, SettleType DEF HistoryTypeOK, StopHandler, Fates, workerVars
  <2> QED BY <2>1, <2>2, <2>3, <2>4 DEF TypeOK
<1>14. CASE RequestStop
  <2>1. HandlerTypeOK'
    BY <1>14 DEF HandlerTypeOK, RequestStop, Phases, handlerVars
  <2>2. SchedulerTypeOK'
    BY <1>14 DEF SchedulerTypeOK, RequestStop, schedVars
  <2>3. WorkerTypeOK'
    BY <1>14 DEF WorkerTypeOK, RequestStop, Sentinel, workerVars
  <2>4. HistoryTypeOK'
    BY <1>14, SettleType DEF HistoryTypeOK, RequestStop, Fates, workerVars
  <2> QED BY <2>1, <2>2, <2>3, <2>4 DEF TypeOK
<1>15. CASE JoinScheduler
  <2>1. HandlerTypeOK'
    BY <1>15 DEF HandlerTypeOK, JoinScheduler, Phases, handlerVars
  <2>2. SchedulerTypeOK'
    BY <1>15 DEF SchedulerTypeOK, JoinScheduler, schedVars
  <2>3. WorkerTypeOK'
    BY <1>15 DEF WorkerTypeOK, JoinScheduler, Sentinel, workerVars
  <2>4. HistoryTypeOK'
    BY <1>15, SettleType DEF HistoryTypeOK, JoinScheduler, Fates, workerVars
  <2> QED BY <2>1, <2>2, <2>3, <2>4 DEF TypeOK
<1>16. CASE PushSentinels
  <2>1. HandlerTypeOK'
    BY <1>16 DEF HandlerTypeOK, PushSentinels, Phases, handlerVars
  <2>2. SchedulerTypeOK'
    BY <1>16 DEF SchedulerTypeOK, PushSentinels, schedVars
  <2>3. WorkerTypeOK'
    BY <1>16 DEF WorkerTypeOK, PushSentinels, Sentinel, workerVars
  <2>4. HistoryTypeOK'
    BY <1>16, SettleType DEF HistoryTypeOK, PushSentinels, Fates, workerVars
  <2> QED BY <2>1, <2>2, <2>3, <2>4 DEF TypeOK
<1>17. ASSUME NEW s \in Scopes, BeginDestroy(s)
      PROVE  TypeOK'
  <2>1. HandlerTypeOK'
    BY <1>17 DEF HandlerTypeOK, BeginDestroy, Phases, handlerVars
  <2>2. SchedulerTypeOK'
    BY <1>17 DEF SchedulerTypeOK, BeginDestroy, schedVars
  <2>3. WorkerTypeOK'
    BY <1>17 DEF WorkerTypeOK, BeginDestroy, Sentinel, workerVars
  <2>4. HistoryTypeOK'
    BY <1>17, SettleType DEF HistoryTypeOK, BeginDestroy, Fates, workerVars
  <2> QED BY <2>1, <2>2, <2>3, <2>4 DEF TypeOK
<1>18. ASSUME NEW s \in Scopes, JoinWorker(s)
      PROVE  TypeOK'
  <2>1. HandlerTypeOK'
    BY <1>18 DEF HandlerTypeOK, JoinWorker, Phases, handlerVars
  <2>2. SchedulerTypeOK'
    BY <1>18 DEF SchedulerTypeOK, JoinWorker, schedVars
  <2>3. WorkerTypeOK'
    BY <1>18 DEF WorkerTypeOK, JoinWorker, Sentinel, workerVars
  <2>4. HistoryTypeOK'
    BY <1>18, SettleType DEF HistoryTypeOK, JoinWorker, Fates, workerVars
  <2> QED BY <2>1, <2>2, <2>3, <2>4 DEF TypeOK
<1>19. CASE Stopped
  <2>1. HandlerTypeOK'
    BY <1>19 DEF HandlerTypeOK, Stopped, Phases, handlerVars
  <2>2. SchedulerTypeOK'
    BY <1>19 DEF SchedulerTypeOK, Stopped, schedVars
  <2>3. WorkerTypeOK'
    BY <1>19 DEF WorkerTypeOK, Stopped, Sentinel, workerVars
  <2>4. HistoryTypeOK'
    BY <1>19, SettleType DEF HistoryTypeOK, Stopped, Fates, workerVars
  <2> QED BY <2>1, <2>2, <2>3, <2>4 DEF TypeOK
<1>20. CASE UNCHANGED vars
  BY <1>20 DEF vars, handlerVars, schedVars, workerVars, TypeOK, HandlerTypeOK, SchedulerTypeOK, WorkerTypeOK, HistoryTypeOK
<1> QED
  BY <1>1, <1>2, <1>3, <1>4, <1>5, <1>6, <1>7, <1>8, <1>9, <1>10, <1>11, <1>12, <1>13, <1>14, <1>15, <1>16, <1>17, <1>18, <1>19, <1>20
  DEF Next, MqttThread, SchedulerThread, WorkerThread, MainThread, ShutDown, Terminated

\* The state of the pipeline is always well typed.
THEOREM TypeCorrect == Spec => []TypeOK
  BY InitType, NextType, PTL DEF Spec

-----------------------------------------------------------------------------
(* The frames of a camera reach a scope's tracker in order.                 *)

\* The batches of a queue that grew by one chunk.
LEMMA BatchesAppend ==
  ASSUME NEW S, NEW q \in Seq(SUBSET S), NEW x \in SUBSET S
  PROVE  BatchesIn(Append(q, x)) = BatchesIn(q) \cup x
<1>1. Len(Append(q, x)) = Len(q) + 1 /\ Append(q, x)[Len(q) + 1] = x
      /\ \A i \in 1..Len(q) : Append(q, x)[i] = q[i]
  BY AppendProperties
<1>2. 1..(Len(q) + 1) = 1..Len(q) \cup {Len(q) + 1}
  BY LenProperties
<1> QED BY <1>1, <1>2 DEF BatchesIn

\* The batches of a queue are those of its head and those of its tail.
LEMMA BatchesTail ==
  ASSUME NEW S, NEW q \in Seq(SUBSET S), q # <<>>
  PROVE  BatchesIn(q) = Head(q) \cup BatchesIn(Tail(q))
<1>1. Len(q) \in Nat /\ Len(q) > 0 /\ Len(Tail(q)) = Len(q) - 1 /\ Head(q) = q[1]
      /\ \A i \in 1..Len(Tail(q)) : Tail(q)[i] = q[i + 1]
  BY HeadTailProperties, LenProperties, EmptySeq
<1>2. ASSUME NEW b PROVE b \in BatchesIn(q) <=> b \in Head(q) \cup BatchesIn(Tail(q))
  <2>1. ASSUME NEW i \in 1..Len(q), b \in q[i] PROVE b \in Head(q) \cup BatchesIn(Tail(q))
    <3>1. CASE i = 1
      BY <1>1, <2>1, <3>1
    <3>2. CASE i # 1
      <4>1. i - 1 \in 1..Len(Tail(q)) /\ Tail(q)[i - 1] = q[i]
        BY <1>1, <3>2
      <4> QED BY <2>1, <4>1 DEF BatchesIn
    <3> QED BY <3>1, <3>2
  <2>2. ASSUME b \in Head(q) PROVE b \in BatchesIn(q)
    BY <1>1, <2>2 DEF BatchesIn
  <2>3. ASSUME NEW i \in 1..Len(Tail(q)), b \in Tail(q)[i] PROVE b \in BatchesIn(q)
    <3>1. i + 1 \in 1..Len(q)
      BY <1>1
    <3> QED BY <1>1, <2>3, <3>1 DEF BatchesIn
  <2> QED BY <2>1, <2>2, <2>3 DEF BatchesIn
<1> QED BY <1>2

\* A chunk newer than the whole queue can be appended in order.
LEMMA InOrderAppend ==
  ASSUME NEW S, NEW q \in Seq(SUBSET S), NEW x \in SUBSET S, InOrder(q),
         Before(BatchesIn(q), x), OneEach(x)
  PROVE  InOrder(Append(q, x))
<1>1. Len(Append(q, x)) = Len(q) + 1 /\ Append(q, x)[Len(q) + 1] = x
      /\ \A i \in 1..Len(q) : Append(q, x)[i] = q[i]
  BY AppendProperties
<1>2. ASSUME NEW i \in 1..Len(q) + 1, NEW j \in 1..Len(q) + 1, i < j
      PROVE  Before(Append(q, x)[i], Append(q, x)[j])
  <2>1. i \in 1..Len(q)
    BY <1>2, LenProperties
  <2>2. CASE j = Len(q) + 1
    <3>1. q[i] \subseteq BatchesIn(q)
      BY <2>1 DEF BatchesIn
    <3> QED BY <1>1, <2>1, <2>2, <3>1 DEF Before
  <2>3. CASE j # Len(q) + 1
    <3>1. j \in 1..Len(q)
      BY <2>3, LenProperties
    <3> QED BY <1>1, <1>2, <2>1, <3>1 DEF InOrder
  <2> QED BY <2>2, <2>3
<1> QED BY <1>1, <1>2 DEF InOrder

\* The head of an ordered queue comes before its tail, which stays ordered.
LEMMA InOrderTail ==
  ASSUME NEW S, NEW q \in Seq(SUBSET S), q # <<>>, InOrder(q)
  PROVE  InOrder(Tail(q)) /\ OneEach(Head(q)) /\ Before(Head(q), BatchesIn(Tail(q)))
<1>1. Len(q) \in Nat /\ Len(q) > 0 /\ Len(Tail(q)) = Len(q) - 1 /\ Head(q) = q[1]
      /\ \A i \in 1..Len(Tail(q)) : Tail(q)[i] = q[i + 1]
  BY HeadTailProperties, LenProperties, EmptySeq
<1>2. InOrder(Tail(q))
  BY <1>1 DEF InOrder
<1>3. \A j \in 1..Len(Tail(q)) : Before(Head(q), Tail(q)[j])
  BY <1>1 DEF InOrder
<1>4. OneEach(Head(q))
  BY <1>1 DEF InOrder
<1> QED BY <1>2, <1>3, <1>4 DEF BatchesIn, Before

-----------------------------------------------------------------------------
(* The inductive invariant.                                                 *)

\* A step that leaves scope r's stages alone keeps its order.
LEMMA SameScope ==
  ASSUME NEW r \in Scopes, buffer'[r] = buffer[r], snapshot'[r] = snapshot[r],
         queue'[r] = queue[r], current'[r] = current[r], lastSeq'[r] = lastSeq[r],
         ScopeOrder(r)
  PROVE  ScopeOrder(r)'
  BY DEF ScopeOrder, InFlight, Queued, BatchesIn, InOrder, Before, OneEach

\* A step that only takes batches of r out of flight keeps r's bounds, as long as
\* the MQTT callback's message and its destinations shrink or stay.
LEMMA StillNewest ==
  ASSUME NEW r \in Scopes, InFlight(r)' \subseteq InFlight(r), lastSeq'[r] = lastSeq[r],
         received' = received, r \in todo' => r \in todo /\ incoming' = incoming,
         NewestInHand(r)
  PROVE  NewestInHand(r)'
  BY DEF NewestInHand

\* Init establishes the order invariant.
LEMMA InitOrder == Init => OrderInv
<1> SUFFICES ASSUME Init PROVE OrderInv
  OBVIOUS
<1>1. TypeOK
  BY InitType
<1>2. ASSUME NEW s \in Scopes PROVE ScopeOrder(s) /\ NewestInHand(s)
  <2>1. BatchesIn(queue[s]) = {} /\ Len(queue[s]) = 0
    BY <1>2 DEF Init, BatchesIn
  <2>2. InFlight(s) = {} /\ current[s] = {} /\ snapshot[s] = {}
    BY <1>2, <2>1 DEF Init, InFlight, Queued
  <2>3. ScopeOrder(s)
    <3>1. InOrder(queue[s])
      BY <2>1 DEF InOrder
    <3>2. Queued(s) = {} /\ buffer[s] = {}
      BY <2>2 DEF InFlight
    <3> QED BY <2>2, <3>1, <3>2 DEF ScopeOrder, Before, OneEach
  <2>4. NewestInHand(s)
    BY <1>2, <2>2 DEF NewestInHand, Init
  <2> QED BY <2>3, <2>4
<1> QED BY <1>1, <1>2 DEF OrderInv

\* A valid message: nothing in flight moves, and its number is a new one.
LEMMA ReceiveOrder ==
  ASSUME OrderInv, NEW c \in Cameras, NEW t \in Times, NEW cats \in SUBSET Categories,
         Receive(c, t, cats), NEW r \in Scopes
  PROVE  ScopeOrder(r)' /\ NewestInHand(r)'
<1>1. ScopeOrder(r) /\ NewestInHand(r) /\ received \in Nat /\ lastSeq[r] \in [Cameras -> 0..MaxFrames]
  BY DEF OrderInv, TypeOK, HandlerTypeOK, HistoryTypeOK
<1>2. buffer' = buffer /\ snapshot' = snapshot /\ queue' = queue /\ current' = current
      /\ lastSeq' = lastSeq /\ received' = received + 1
  BY DEF Receive, schedVars, workerVars
<1>3. ScopeOrder(r)' /\ InFlight(r)' = InFlight(r)
  BY <1>1, <1>2, SameScope DEF InFlight, Queued
<1>4. \A b \in InFlight(r) : b \in Batch /\ b.seq \in Nat
  <2>1. InFlight(r) \subseteq Batch
    BY DEF OrderInv, TypeOK, SchedulerTypeOK, WorkerTypeOK, InFlight, Queued, BatchesIn
  <2> QED BY <2>1 DEF Batch, Frames
<1>5. r \in todo' => incoming' = [camera |-> c, seq |-> received + 1, time |-> t]
  BY <1>2 DEF Receive
<1>6. NewestInHand(r)'
  BY <1>1, <1>2, <1>3, <1>4, <1>5, BoundsAssumption DEF NewestInHand
<1> QED BY <1>3, <1>6

\* The message is the newest of its camera in the scope it is added to.
LEMMA AddBatchOrder ==
  ASSUME OrderInv, NEW s \in Scopes, AddBatch(s), NEW r \in Scopes
  PROVE  ScopeOrder(r)' /\ NewestInHand(r)'
<1>1. ScopeOrder(r) /\ NewestInHand(r) /\ ScopeOrder(s) /\ NewestInHand(s)
  BY DEF OrderInv
<1>2. snapshot' = snapshot /\ queue' = queue /\ current' = current
      /\ lastSeq' = lastSeq /\ received' = received
      /\ s \in todo /\ todo' = todo \ {s} /\ (todo' # {} => incoming' = incoming)
  BY DEF AddBatch, schedVars, workerVars
<1>3. CASE r # s
  <2>1. buffer'[r] = buffer[r]
    BY <1>3 DEF AddBatch, OrderInv, TypeOK, SchedulerTypeOK
  <2>2. InFlight(r)' = InFlight(r)
    BY <1>2, <2>1 DEF InFlight, Queued
  <2>3. ScopeOrder(r)'
    BY <1>1, <1>2, <2>1, SameScope
  <2>4. NewestInHand(r)'
    BY <1>1, <1>2, <2>2, StillNewest
  <2> QED BY <2>3, <2>4
<1>4. CASE r = s
  <2>1. buffer'[s] \subseteq buffer[s] \cup {incoming}
    BY DEF AddBatch, OrderInv, TypeOK, SchedulerTypeOK
  <2>2. InFlight(s)' \subseteq InFlight(s) \cup {incoming}
    BY <1>2, <2>1 DEF InFlight, Queued
  <2>3. Queued(s)' = Queued(s)
    BY <1>2 DEF Queued
  <2>4. /\ incoming.seq = received
        /\ \A b \in InFlight(s) : b.seq < incoming.seq
        /\ lastSeq[s][incoming.camera] < incoming.seq
    BY <1>1, <1>2 DEF NewestInHand
  <2>5. \A b \in InFlight(s)' : lastSeq'[s][b.camera] < b.seq
    BY <1>1, <1>2, <2>2, <2>4 DEF ScopeOrder
  <2>6. \A X \in SUBSET InFlight(s) : Before(X, buffer[s]) => Before(X, buffer'[s])
    BY <2>1, <2>4 DEF Before
  <2>7. Before(current[s], buffer[s]) /\ Before(current[s], Queued(s) \cup snapshot[s])
        /\ Before(Queued(s), buffer[s]) /\ Before(Queued(s), snapshot[s])
        /\ Before(snapshot[s], buffer[s])
    BY <1>1 DEF ScopeOrder, Before, OneEach
  <2>8. Before(current[s], buffer'[s]) /\ Before(Queued(s), buffer'[s])
        /\ Before(snapshot[s], buffer'[s])
    BY <2>6, <2>7 DEF InFlight
  <2>9. InOrder(queue'[s])
    BY <1>1, <1>2 DEF ScopeOrder
  <2>10. OneEach(buffer'[s])
    <3> DEFINE old == {b \in buffer[s] : b.camera = incoming.camera}
    <3>1. buffer'[s] = (buffer[s] \ old) \cup {incoming}
      BY DEF AddBatch, OrderInv, TypeOK, SchedulerTypeOK
    <3> QED BY <1>1, <3>1 DEF ScopeOrder, OneEach
  <2>11. ScopeOrder(s)'
    BY <1>1, <1>2, <2>3, <2>5, <2>7, <2>8, <2>9, <2>10 DEF ScopeOrder, Before
  <2>12. received \in Nat
    BY DEF OrderInv, TypeOK, HandlerTypeOK
  <2>13. NewestInHand(s)'
    BY <1>1, <1>2, <2>2, <2>4, <2>12 DEF NewestInHand
  <2> QED BY <1>4, <2>11, <2>13
<1> QED BY <1>3, <1>4

\* The buffer moves into the snapshot as a whole, in front of what is added later.
LEMMA PopAllOrder ==
  ASSUME OrderInv, PopAll, NEW r \in Scopes
  PROVE  ScopeOrder(r)' /\ NewestInHand(r)'
<1>1. ScopeOrder(r) /\ NewestInHand(r)
  BY DEF OrderInv
<1>2. queue' = queue /\ current' = current /\ lastSeq' = lastSeq /\ received' = received
      /\ todo' = todo /\ incoming' = incoming /\ snapshot'[r] = buffer[r] /\ buffer'[r] = {}
  BY DEF PopAll, handlerVars, workerVars
<1>3. InFlight(r)' \subseteq InFlight(r) /\ Queued(r)' = Queued(r)
  BY <1>2 DEF InFlight, Queued
<1>4. ScopeOrder(r)'
  BY <1>1, <1>2, <1>3 DEF ScopeOrder, Before, OneEach
<1>5. NewestInHand(r)'
  BY <1>1, <1>2, <1>3, StillNewest
<1> QED BY <1>4, <1>5

\* A chunk leaves the snapshot and is not queued.
LEMMA DropOrder ==
  ASSUME OrderInv, NEW s \in Scopes, DropAtLimit(s) \/ DropAtFull(s), NEW r \in Scopes
  PROVE  ScopeOrder(r)' /\ NewestInHand(r)'
<1>1. ScopeOrder(r) /\ NewestInHand(r)
  BY DEF OrderInv
<1>2. queue' = queue /\ current' = current /\ lastSeq' = lastSeq /\ received' = received
      /\ todo' = todo /\ incoming' = incoming /\ buffer' = buffer
      /\ snapshot' = [snapshot EXCEPT ![s] = {}]
  BY DEF DropAtLimit, DropAtFull, Dispatched, handlerVars
<1>3. snapshot'[r] \subseteq snapshot[r]
  BY <1>2 DEF OrderInv, TypeOK, SchedulerTypeOK
<1>4. InFlight(r)' \subseteq InFlight(r) /\ Queued(r)' = Queued(r)
  BY <1>2, <1>3 DEF InFlight, Queued
<1>5. ScopeOrder(r)'
  BY <1>1, <1>2, <1>3, <1>4 DEF ScopeOrder, Before, OneEach
<1>6. NewestInHand(r)'
  BY <1>1, <1>2, <1>4, StillNewest
<1> QED BY <1>5, <1>6

\* A chunk goes from the snapshot to the end of its queue.
LEMMA EnqueueOrder ==
  ASSUME OrderInv, NEW s \in Scopes, Enqueue(s), NEW r \in Scopes
  PROVE  ScopeOrder(r)' /\ NewestInHand(r)'
<1>1. ScopeOrder(r) /\ NewestInHand(r)
  BY DEF OrderInv
<1>2. current' = current /\ lastSeq' = lastSeq /\ received' = received
      /\ todo' = todo /\ incoming' = incoming /\ buffer' = buffer
      /\ snapshot' = [snapshot EXCEPT ![s] = {}]
      /\ queue' = [queue EXCEPT ![s] = Append(@, snapshot[s])]
  BY DEF Enqueue, Dispatched, handlerVars
<1>3. snapshot \in [Scopes -> SUBSET Batch] /\ queue \in [Scopes -> Seq(SUBSET Batch)]
  BY DEF OrderInv, TypeOK, SchedulerTypeOK, WorkerTypeOK
<1>4. CASE r # s
  <2>1. snapshot'[r] = snapshot[r] /\ queue'[r] = queue[r]
    BY <1>2, <1>3, <1>4
  <2>2. InFlight(r)' = InFlight(r)
    BY <1>2, <2>1 DEF InFlight, Queued
  <2>3. ScopeOrder(r)'
    BY <1>1, <1>2, <2>1, SameScope
  <2>4. NewestInHand(r)'
    BY <1>1, <1>2, <2>2, StillNewest
  <2> QED BY <2>3, <2>4
<1>5. CASE r = s
  <2>1. snapshot'[s] = {} /\ queue'[s] = Append(queue[s], snapshot[s])
    BY <1>2, <1>3
  <2>2. Queued(s)' = Queued(s) \cup snapshot[s]
    <3>1. queue[s] \in Seq(SUBSET Batch) /\ snapshot[s] \in SUBSET Batch
      BY <1>3
    <3>2. BatchesIn(Append(queue[s], snapshot[s])) = BatchesIn(queue[s]) \cup snapshot[s]
      BY <3>1, BatchesAppend
    <3> QED BY <2>1, <3>2 DEF Queued
  <2>3. InFlight(s)' = InFlight(s)
    BY <1>2, <2>1, <2>2 DEF InFlight
  <2>4. InOrder(queue'[s])
    <3>1. InOrder(queue[s]) /\ Before(BatchesIn(queue[s]), snapshot[s])
          /\ OneEach(snapshot[s])
      BY <1>1, <1>5 DEF ScopeOrder, Queued, Before
    <3> QED BY <1>3, <2>1, <3>1, InOrderAppend
  <2>5. ScopeOrder(s)'
    BY <1>1, <1>2, <1>5, <2>1, <2>2, <2>3, <2>4 DEF ScopeOrder, Before, OneEach
  <2>6. NewestInHand(s)'
    BY <1>1, <1>2, <1>5, <2>3, StillNewest
  <2> QED BY <1>5, <2>5, <2>6
<1> QED BY <1>4, <1>5

\* The head of a queue becomes the chunk in work.
LEMMA WakeOrder ==
  ASSUME OrderInv, NEW s \in Scopes, Wake(s), NEW r \in Scopes
  PROVE  ScopeOrder(r)' /\ NewestInHand(r)'
<1>1. ScopeOrder(r) /\ NewestInHand(r)
  BY DEF OrderInv
<1>2. lastSeq' = lastSeq /\ received' = received /\ todo' = todo /\ incoming' = incoming
      /\ buffer' = buffer /\ snapshot' = snapshot
  BY DEF Wake, handlerVars, schedVars
<1>3. queue \in [Scopes -> Seq(SUBSET Batch)] /\ current \in [Scopes -> SUBSET Batch]
      /\ current[s] = {}
  BY DEF OrderInv, TypeOK, WorkerTypeOK, Wake
<1>4. CASE r # s \/ queue[s] = <<>>
  <2>1. queue'[r] = queue[r] /\ current'[r] = current[r]
    BY <1>3, <1>4 DEF Wake
  <2>2. InFlight(r)' = InFlight(r)
    BY <1>2, <2>1 DEF InFlight, Queued
  <2>3. ScopeOrder(r)'
    BY <1>1, <1>2, <2>1, SameScope
  <2>4. NewestInHand(r)'
    BY <1>1, <1>2, <2>2, StillNewest
  <2> QED BY <2>3, <2>4
<1>5. CASE r = s /\ queue[s] # <<>>
  <2>1. queue'[s] = Tail(queue[s]) /\ current'[s] = Head(queue[s])
    BY <1>3, <1>5 DEF Wake
  <2>2. Queued(s) = Head(queue[s]) \cup BatchesIn(Tail(queue[s]))
    BY <1>3, <1>5, BatchesTail DEF Queued
  <2>3. Queued(s)' = BatchesIn(Tail(queue[s]))
    BY <2>1 DEF Queued
  <2>4. InFlight(s)' = InFlight(s)
    BY <1>2, <1>3, <2>1, <2>2, <2>3 DEF InFlight
  <2>5. InOrder(Tail(queue[s])) /\ OneEach(Head(queue[s]))
        /\ Before(Head(queue[s]), BatchesIn(Tail(queue[s])))
    BY <1>1, <1>3, <1>5, InOrderTail DEF ScopeOrder
  <2>6. ScopeOrder(s)'
    BY <1>1, <1>2, <1>5, <2>1, <2>2, <2>3, <2>4, <2>5 DEF ScopeOrder, Before, OneEach
  <2>7. NewestInHand(s)'
    BY <1>1, <1>2, <1>5, <2>4, StillNewest
  <2> QED BY <1>5, <2>6, <2>7
<1> QED BY <1>4, <1>5

\* The chunk in work becomes the last one processed.
LEMMA ProcessOrder ==
  ASSUME OrderInv, NEW s \in Scopes, Process(s), NEW r \in Scopes
  PROVE  ScopeOrder(r)' /\ NewestInHand(r)'
<1>1. ScopeOrder(r) /\ NewestInHand(r)
  BY DEF OrderInv
<1>2. received' = received /\ todo' = todo /\ incoming' = incoming
      /\ buffer' = buffer /\ snapshot' = snapshot /\ queue' = queue
      /\ current' = [current EXCEPT ![s] = {}]
  BY DEF Process, handlerVars, schedVars
<1>3. current \in [Scopes -> SUBSET Batch] /\ lastSeq \in [Scopes -> [Cameras -> 0..MaxFrames]]
      /\ queue \in [Scopes -> Seq(SUBSET Batch)] /\ snapshot \in [Scopes -> SUBSET Batch]
      /\ buffer \in [Scopes -> SUBSET Batch]
  BY DEF OrderInv, TypeOK, WorkerTypeOK, HistoryTypeOK, SchedulerTypeOK
<1>4. CASE r # s
  <2>1. current'[r] = current[r] /\ lastSeq'[r] = lastSeq[r]
    BY <1>2, <1>3, <1>4 DEF Process
  <2>2. InFlight(r)' = InFlight(r)
    BY <1>2, <2>1 DEF InFlight, Queued
  <2>3. ScopeOrder(r)'
    BY <1>1, <1>2, <2>1, SameScope
  <2>4. NewestInHand(r)'
    BY <1>1, <1>2, <2>1, <2>2, StillNewest
  <2> QED BY <2>3, <2>4
<1>5. CASE r = s
  <2>1. current'[s] = {} /\ Queued(s)' = Queued(s)
    BY <1>2, <1>3 DEF Queued
  <2>2. InFlight(s) = InFlight(s)' \cup current[s]
    BY <1>2, <2>1 DEF InFlight
  <2>3. InFlight(s)' = Queued(s) \cup snapshot[s] \cup buffer[s]
    BY <1>2, <2>1 DEF InFlight
  <2>4. ASSUME NEW c \in Cameras
        PROVE  \/ lastSeq'[s][c] = lastSeq[s][c]
               \/ \E b \in current[s] : b.camera = c /\ lastSeq'[s][c] = b.seq
    BY <1>3 DEF Process
  <2>5. InFlight(s) \subseteq Batch
    BY <1>3 DEF InFlight, Queued, BatchesIn
  <2>6. ASSUME NEW b \in InFlight(s)' PROVE lastSeq'[s][b.camera] < b.seq
    <3>1. b \in InFlight(s) /\ b.camera \in Cameras
      BY <2>2, <2>5 DEF Batch
    <3>2. lastSeq[s][b.camera] < b.seq
      BY <1>1, <1>5, <3>1 DEF ScopeOrder
    <3>3. \A d \in current[s] : d.camera = b.camera => d.seq < b.seq
      BY <1>1, <1>5, <2>3, <2>6 DEF ScopeOrder, Before, OneEach
    <3> QED BY <2>4, <3>1, <3>2, <3>3
  <2>7. ScopeOrder(s)'
    BY <1>1, <1>2, <1>5, <2>1, <2>6 DEF ScopeOrder, Before, OneEach
  <2>8. ASSUME NEW c \in Cameras PROVE lastSeq'[s][c] <= received
    BY <1>1, <1>5, <2>2, <2>4 DEF NewestInHand
  <2>9. s \in todo => lastSeq'[s][incoming.camera] < incoming.seq
    <3>1. s \in todo => incoming.camera \in Cameras
      BY DEF OrderInv, TypeOK, HandlerTypeOK, Batch
    <3> QED BY <1>1, <1>5, <2>2, <2>4, <3>1 DEF NewestInHand
  <2>10. NewestInHand(s)'
    BY <1>1, <1>2, <1>5, <2>2, <2>8, <2>9 DEF NewestInHand
  <2> QED BY <1>5, <2>7, <2>10
<1> QED BY <1>4, <1>5

\* A sentinel carries no batch.
LEMMA SentinelsOrder ==
  ASSUME OrderInv, PushSentinels, NEW r \in Scopes
  PROVE  ScopeOrder(r)' /\ NewestInHand(r)'
<1>1. ScopeOrder(r) /\ NewestInHand(r)
  BY DEF OrderInv
<1>2. received' = received /\ todo' = todo /\ incoming' = incoming /\ lastSeq' = lastSeq
      /\ buffer' = buffer /\ snapshot' = snapshot /\ current' = current
      /\ (queue'[r] = queue[r] \/ queue'[r] = Append(queue[r], Sentinel))
  BY DEF PushSentinels, handlerVars, schedVars
<1>3. queue[r] \in Seq(SUBSET Batch) /\ Sentinel \in SUBSET Batch
  BY DEF OrderInv, TypeOK, WorkerTypeOK, Sentinel
<1>4. InOrder(queue[r])
  BY <1>1 DEF ScopeOrder
<1>5. Queued(r)' = Queued(r) /\ InOrder(queue'[r])
  <2>1. CASE queue'[r] = queue[r]
    BY <1>4, <2>1 DEF Queued
  <2>2. CASE queue'[r] = Append(queue[r], Sentinel)
    <3>1. BatchesIn(queue'[r]) = BatchesIn(queue[r]) \cup Sentinel
      BY <1>3, <2>2, BatchesAppend
    <3>2. Before(BatchesIn(queue[r]), Sentinel) /\ OneEach(Sentinel)
      BY DEF Before, OneEach, Sentinel
    <3>3. InOrder(queue'[r])
      BY <1>3, <1>4, <2>2, <3>2, InOrderAppend
    <3> QED BY <3>1, <3>3 DEF Queued, Sentinel
  <2> QED BY <1>2, <2>1, <2>2
<1>6. InFlight(r)' = InFlight(r)
  BY <1>2, <1>5 DEF InFlight
<1>7. ScopeOrder(r)'
  BY <1>1, <1>2, <1>5, <1>6 DEF ScopeOrder
<1>8. NewestInHand(r)'
  BY <1>1, <1>2, <1>6, StillNewest
<1> QED BY <1>7, <1>8

\* A step that moves no batch, Reject apart, which counts a message nobody gets.
LEMMA IdleOrder ==
  ASSUME OrderInv, NEW r \in Scopes,
         UNCHANGED <<buffer, snapshot, queue, current, lastSeq, todo, incoming>>,
         \/ received' = received
         \/ todo = {} /\ received' = received + 1
  PROVE  ScopeOrder(r)' /\ NewestInHand(r)'
<1>1. ScopeOrder(r) /\ NewestInHand(r)
  BY DEF OrderInv
<1>2. ScopeOrder(r)' /\ InFlight(r)' = InFlight(r)
  BY <1>1, SameScope DEF InFlight, Queued
<1>3. CASE received' = received
  BY <1>1, <1>2, <1>3, StillNewest
<1>4. CASE todo = {} /\ received' = received + 1
  <2>1. received \in Nat /\ lastSeq[r] \in [Cameras -> 0..MaxFrames]
    BY DEF OrderInv, TypeOK, HandlerTypeOK, HistoryTypeOK
  <2>2. \A b \in InFlight(r) : b.seq \in Nat
    <3>1. InFlight(r) \subseteq Batch
      BY DEF OrderInv, TypeOK, SchedulerTypeOK, WorkerTypeOK, InFlight, Queued, BatchesIn
    <3> QED BY <3>1 DEF Batch, Frames
  <2> QED BY <1>1, <1>2, <1>4, <2>1, <2>2, BoundsAssumption DEF NewestInHand
<1> QED BY <1>3, <1>4

\* Every step keeps the order invariant.
LEMMA NextOrder == OrderInv /\ [Next]_vars => OrderInv'
<1> SUFFICES ASSUME OrderInv, [Next]_vars PROVE OrderInv'
  OBVIOUS
<1>1. TypeOK'
  BY NextType DEF OrderInv
<1>2. ASSUME NEW r \in Scopes PROVE ScopeOrder(r)' /\ NewestInHand(r)'
  <2>1. CASE Reject
    BY <2>1, IdleOrder DEF Reject, schedVars, workerVars
  <2>2. CASE \E c \in Cameras, t \in Times, cats \in SUBSET Categories : Receive(c, t, cats)
    BY <2>2, ReceiveOrder
  <2>3. CASE \E s \in Scopes : AddBatch(s)
    BY <2>3, AddBatchOrder
  <2>4. CASE PopAll
    BY <2>4, PopAllOrder
  <2>5. CASE \E s \in Scopes : DropAtLimit(s) \/ Enqueue(s) \/ DropAtFull(s)
    BY <2>5, DropOrder, EnqueueOrder
  <2>6. CASE \E s \in Scopes : WorkerThread(s)
    BY <2>6, WakeOrder, ProcessOrder DEF WorkerThread
  <2>7. CASE PushSentinels
    BY <2>7, SentinelsOrder
  <2>8. CASE SchedulerExit \/ StartScheduler \/ StartHandler \/ StopHandler \/ RequestStop
             \/ JoinScheduler \/ Stopped
             \/ \E s \in Scopes : BeginDestroy(s) \/ JoinWorker(s)
    <3>1. UNCHANGED <<buffer, snapshot, queue, current, lastSeq, todo, incoming, received>>
      BY <2>8 DEF SchedulerExit, StartScheduler, StartHandler, StopHandler, RequestStop,
                  JoinScheduler, Stopped, BeginDestroy, JoinWorker,
                  handlerVars, schedVars, workerVars
    <3> QED BY <3>1, IdleOrder
  <2>9. CASE UNCHANGED vars
    BY <2>9, IdleOrder DEF vars, handlerVars, schedVars, workerVars
  <2> QED
    BY <2>1, <2>2, <2>3, <2>4, <2>5, <2>6, <2>7, <2>8, <2>9
    DEF Next, MqttThread, SchedulerThread, MainThread, ShutDown, Terminated
<1> QED BY <1>1, <1>2 DEF OrderInv

\* The frames of a camera reach every scope's tracker in the order they arrived
\* and none twice, whatever the threads' interleaving.
THEOREM FramesInOrder == Spec => []CameraOrder
<1>1. OrderInv => CameraOrder
  BY DEF OrderInv, CameraOrder
<1> QED BY <1>1, InitOrder, NextOrder, PTL DEF Spec

=============================================================================
