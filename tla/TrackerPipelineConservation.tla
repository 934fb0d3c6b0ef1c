-------------------- MODULE TrackerPipelineConservation --------------------
(***************************************************************************)
(* Proofs that no frame is lost without a count: a shutdown abandons no    *)
(* chunk a worker's queue has accepted, and what entered a scope's buffer  *)
(* and has no verdict yet is in exactly the stages of the pipeline.  From  *)
(* these follows that the pipeline implements FrameFeed.                   *)
(***************************************************************************)
EXTENDS TrackerPipelineProofs

-----------------------------------------------------------------------------
(* The shutdown.                                                            *)

\* The shutdown part of the invariant, without the types.
LEMMA InitShutdown == Init => ShutdownInv
<1> SUFFICES ASSUME Init PROVE ShutdownInv
  OBVIOUS
<1>1. TypeOK
  BY InitType
<1>2. ASSUME NEW s \in Scopes PROVE ShutdownScope(s)
  <2>1. queue[s] = <<>> /\ Len(queue[s]) = 0
    BY <1>2 DEF Init
  <2>2. phase = "init" /\ worker[s] = "none" /\ ~ending[s] /\ snapshot[s] = {}
    BY <1>2 DEF Init
  <2> QED BY <2>1, <2>2, BoundsAssumption DEF ShutdownScope, InService
<1>3. phase = "init" /\ sched = "off"
  BY DEF Init
<1> QED BY <1>1, <1>2, <1>3 DEF ShutdownInv

\* A step that leaves scope r and main() alone; the snapshot may lose r's chunk.
LEMMA SameShutdown ==
  ASSUME NEW r \in Scopes, ShutdownScope(r), queue'[r] = queue[r],
         worker'[r] = worker[r], ending'[r] = ending[r], phase' = phase,
         snapshot'[r] = {} \/ (snapshot'[r] = snapshot[r] /\ sched' = sched)
  PROVE  ShutdownScope(r)'
  BY DEF ShutdownScope, InService, InClearing, EndsInSentinel

\* The steps of the MQTT thread change nothing a shutdown depends on.
LEMMA MqttShutdown ==
  ASSUME ShutdownInv, MqttThread, NEW r \in Scopes
  PROVE  ShutdownScope(r)' /\ sched' = sched /\ phase' = phase
<1>1. ShutdownScope(r)
  BY DEF ShutdownInv
<1>2. UNCHANGED <<phase, sched, snapshot, worker, ending, queue>>
  BY DEF MqttThread, Reject, Receive, AddBatch, schedVars, workerVars
<1> QED BY <1>1, <1>2, SameShutdown

\* pop_all runs only while the scheduler waits: main() has not joined it yet.
LEMMA PopAllShutdown ==
  ASSUME ShutdownInv, PopAll, NEW r \in Scopes
  PROVE  ShutdownScope(r)' /\ phase' = phase /\ sched # "exited"
<1>1. ShutdownScope(r)
  BY DEF ShutdownInv
<1>2. UNCHANGED <<phase, worker, ending, queue>> /\ sched = "waiting"
  BY DEF PopAll, workerVars
<1>3. snapshot'[r] = buffer[r]
  BY DEF PopAll
<1>4. snapshot'[r] # {} => sched' = "dispatching"
  BY <1>3 DEF PopAll
<1> QED BY <1>1, <1>2, <1>4 DEF ShutdownScope, InService, InClearing, EndsInSentinel

\* A dropped chunk leaves the snapshot; the last one ends the dispatch.
LEMMA DropShutdown ==
  ASSUME ShutdownInv, NEW s \in Scopes, DropAtLimit(s) \/ DropAtFull(s), NEW r \in Scopes
  PROVE  ShutdownScope(r)' /\ phase' = phase /\ sched # "exited"
<1>1. ShutdownScope(r)
  BY DEF ShutdownInv
<1>2. UNCHANGED <<phase, worker, ending, queue>> /\ sched = "dispatching" /\ Dispatched(s)
  BY DEF DropAtLimit, DropAtFull, Dispatched
<1>3. snapshot'[r] = {} \/ (snapshot'[r] = snapshot[r] /\ sched' = sched)
  BY <1>2 DEF Dispatched, ShutdownInv, TypeOK, SchedulerTypeOK
<1> QED BY <1>1, <1>2, <1>3, SameShutdown

\* A chunk is queued only while the workers are in service.
LEMMA EnqueueShutdown ==
  ASSUME ShutdownInv, NEW s \in Scopes, Enqueue(s), NEW r \in Scopes
  PROVE  ShutdownScope(r)' /\ phase' = phase /\ sched # "exited"
<1>1. ShutdownScope(r) /\ ShutdownScope(s)
  BY DEF ShutdownInv
<1>2. UNCHANGED <<phase, ending>> /\ sched = "dispatching" /\ Dispatched(s)
  BY DEF Enqueue, Dispatched
<1>3. phase \notin {"sentinels", "clearing", "stopped"}
  BY <1>2 DEF ShutdownInv
<1>4. snapshot'[r] = {} \/ (snapshot'[r] = snapshot[r] /\ sched' = sched)
  BY <1>2 DEF Dispatched, ShutdownInv, TypeOK, SchedulerTypeOK
<1>5. CASE r # s
  <2>1. queue'[r] = queue[r] /\ worker'[r] = worker[r]
    BY <1>5 DEF Enqueue, ShutdownInv, TypeOK, WorkerTypeOK
  <2> QED BY <1>1, <1>2, <1>4, <2>1, SameShutdown
<1>6. CASE r = s
  <2> DEFINE q == queue[s]
             x == snapshot[s]
  <2>1. q \in Seq(SUBSET Batch) /\ x \in SUBSET Batch /\ x # {} /\ Len(q) < QueueCapacity
    BY DEF Enqueue, ShutdownInv, TypeOK, WorkerTypeOK, SchedulerTypeOK
  <2>2. queue'[s] = Append(q, x)
    BY DEF Enqueue, ShutdownInv, TypeOK, WorkerTypeOK
  <2>3. worker'[s] = IF worker[s] = "none" THEN "waiting" ELSE worker[s]
    BY DEF Enqueue, ShutdownInv, TypeOK, WorkerTypeOK
  <2>4. InService(s)
    BY <1>1, <1>3 DEF ShutdownScope
  <2> HIDE DEF q, x
  <2>5. Len(Append(q, x)) = Len(q) + 1 /\ Append(q, x)[Len(q) + 1] = x
        /\ \A i \in 1..Len(q) : Append(q, x)[i] = q[i]
    BY <2>1, AppendProperties
  <2>6. Len(q) \in Nat /\ QueueCapacity \in Nat
    BY <2>1, LenProperties, BoundsAssumption
  <2>7. \A i \in 1..Len(q) : q[i] # Sentinel
    BY <2>4 DEF InService, q
  <2>8. \A i \in 1..Len(Append(q, x)) : Append(q, x)[i] # Sentinel
    BY <2>1, <2>5, <2>6, <2>7 DEF Sentinel
  <2>9. Len(Append(q, x)) <= QueueCapacity
    BY <2>1, <2>5, <2>6
  <2>10. InService(s)'
    BY <1>2, <2>2, <2>3, <2>4, <2>8, <2>9 DEF InService
  <2>11. worker'[s] # "none" /\ phase' \notin {"clearing", "stopped"}
    BY <1>2, <1>3, <2>3
  <2>12. snapshot'[s] = {} \/ (snapshot[s] = snapshot'[s] /\ sched' = sched)
    BY <1>4, <1>6
  <2> QED BY <1>1, <1>2, <1>6, <2>10, <2>11, <2>12 DEF ShutdownScope
<1> QED BY <1>2, <1>5, <1>6

\* The scheduler leaves its loop with nothing left to dispatch.
LEMMA SchedulerExitShutdown ==
  ASSUME ShutdownInv, SchedulerExit, NEW r \in Scopes
  PROVE  ShutdownScope(r)' /\ sched' = "exited"
<1>1. ShutdownScope(r)
  BY DEF ShutdownInv
<1>2. UNCHANGED <<phase, worker, ending, queue, snapshot>>
      /\ sched = "waiting" /\ sched' = "exited"
  BY DEF SchedulerExit, workerVars
<1>3. snapshot'[r] = {}
  BY <1>1, <1>2 DEF ShutdownScope
<1> QED BY <1>1, <1>2, <1>3, SameShutdown

\* A worker takes the head of its queue: in service that is a chunk, and in
\* clearing the sentinel is the head only when it is all there is.
LEMMA WakeShutdown ==
  ASSUME ShutdownInv, NEW s \in Scopes, Wake(s), NEW r \in Scopes
  PROVE  ShutdownScope(r)' /\ phase' = phase /\ sched' = sched
<1>1. ShutdownScope(r) /\ ShutdownScope(s)
  BY DEF ShutdownInv
<1>2. UNCHANGED <<phase, ending, snapshot, sched>> /\ worker[s] = "waiting"
  BY DEF Wake, schedVars
<1>3. CASE r # s
  <2>1. queue'[r] = queue[r] /\ worker'[r] = worker[r]
    BY <1>3 DEF Wake, ShutdownInv, TypeOK, WorkerTypeOK
  <2> QED BY <1>1, <1>2, <2>1, SameShutdown
<1>4. CASE r = s
  <2> DEFINE q == queue[s]
  <2>1. q \in Seq(SUBSET Batch)
    BY DEF ShutdownInv, TypeOK, WorkerTypeOK
  <2>2. q # <<>>
    <3>1. CASE phase \in {"clearing", "stopped"}
      <4>1. EndsInSentinel(q)
        BY <1>1, <1>2, <3>1 DEF ShutdownScope, InClearing
      <4>2. Len(q) \in 1..(QueueCapacity + 1)
        BY <4>1 DEF EndsInSentinel
      <4> HIDE DEF q
      <4>3. Len(q) # 0
        BY <4>2, BoundsAssumption
      <4> QED BY <4>3
    <3>2. CASE phase \notin {"clearing", "stopped"}
      <4>1. ~ending[s]
        BY <1>1, <3>2 DEF ShutdownScope, InService
      <4> QED BY <4>1 DEF Wake
    <3> QED BY <3>1, <3>2
  <2>3. queue'[s] = Tail(q)
        /\ worker'[s] = IF Head(q) = Sentinel THEN "exited" ELSE "processing"
    BY <2>2 DEF Wake, ShutdownInv, TypeOK, WorkerTypeOK
  <2>4. phase \notin {"clearing", "stopped"} => InService(s)
    BY <1>1 DEF ShutdownScope
  <2>5. phase \in {"clearing", "stopped"} => EndsInSentinel(q) /\ phase # "stopped"
    BY <1>1, <1>2 DEF ShutdownScope, InClearing
  <2>6. InService(s) => \A i \in 1..Len(q) : q[i] # Sentinel
    BY DEF InService
  <2>7. InService(s) => Len(q) <= QueueCapacity /\ ~ending[s]
    BY DEF InService
  <2> HIDE DEF q
  <2>8. /\ Len(q) \in Nat /\ Len(q) > 0 /\ Len(Tail(q)) = Len(q) - 1 /\ Head(q) = q[1]
        /\ \A i \in 1..Len(Tail(q)) : Tail(q)[i] = q[i + 1]
        /\ Tail(q) \in Seq(SUBSET Batch)
    BY <2>1, <2>2, HeadTailProperties, LenProperties, EmptySeq
  <2>9. CASE phase \notin {"clearing", "stopped"}
    <3>1. Head(q) # Sentinel
      BY <2>4, <2>6, <2>8, <2>9
    <3>2. \A i \in 1..Len(Tail(q)) : Tail(q)[i] # Sentinel
      BY <2>4, <2>6, <2>8, <2>9
    <3>3. Len(Tail(q)) <= QueueCapacity
      BY <2>4, <2>7, <2>8, <2>9, BoundsAssumption
    <3>4. InService(s)'
      BY <1>2, <2>3, <2>4, <2>7, <2>9, <3>1, <3>2, <3>3 DEF InService
    <3>5. worker'[s] = "processing"
      BY <2>3, <3>1
    <3> QED BY <1>1, <1>2, <1>4, <2>9, <3>4, <3>5 DEF ShutdownScope
  <2>10. CASE phase \in {"clearing", "stopped"}
    <3>1. Len(q) \in 1..(QueueCapacity + 1)
          /\ \A i \in 1..Len(q) : q[i] = Sentinel <=> i = Len(q)
      BY <2>5, <2>10 DEF EndsInSentinel
    <3>0. Head(q) = Sentinel <=> Len(q) = 1
      <4>1. 1 \in 1..Len(q)
        BY <2>8
      <4>2. q[1] = Sentinel <=> 1 = Len(q)
        BY <3>1, <4>1
      <4> QED BY <2>8, <4>2
    <3>2. CASE Head(q) = Sentinel
      <4>1. Len(q) = 1
        BY <3>0, <3>2
      <4>2. Tail(q) = <<>>
        <5>1. Len(Tail(q)) = 0 /\ Tail(q) \in Seq(SUBSET Batch)
          BY <2>8, <4>1
        <5> QED BY <5>1, EmptySeq
      <4>3. InClearing(s)'
        BY <2>3, <3>2, <4>2 DEF InClearing
      <4> QED BY <1>1, <1>2, <1>4, <2>3, <2>5, <2>10, <3>2, <4>3 DEF ShutdownScope
    <3>3. CASE Head(q) # Sentinel
      <4>1. Len(q) # 1
        BY <3>0, <3>3
      <4>2. Len(Tail(q)) \in 1..(QueueCapacity + 1)
        <5>1. Len(q) \in 1..(QueueCapacity + 1) /\ Len(Tail(q)) = Len(q) - 1
          BY <2>8, <3>1
        <5>2. QueueCapacity \in Nat
          BY BoundsAssumption
        <5>3. \A k \in 1..(QueueCapacity + 1) : k # 1 => k - 1 \in 1..(QueueCapacity + 1)
          BY <5>2
        <5> QED BY <4>1, <5>1, <5>3
      <4>3. \A i \in 1..Len(Tail(q)) : Tail(q)[i] = Sentinel <=> i = Len(Tail(q))
        <5> SUFFICES ASSUME NEW i \in 1..Len(Tail(q))
                     PROVE  Tail(q)[i] = Sentinel <=> i = Len(Tail(q))
          OBVIOUS
        <5>1. i + 1 \in 1..Len(q) /\ Tail(q)[i] = q[i + 1]
          BY <2>8
        <5>2. q[i + 1] = Sentinel <=> i + 1 = Len(q)
          BY <3>1, <5>1
        <5>3. i + 1 = Len(q) <=> i = Len(Tail(q))
          BY <2>8
        <5> QED BY <5>1, <5>2, <5>3
      <4>4. EndsInSentinel(queue[s])'
        BY <2>3, <4>2, <4>3 DEF EndsInSentinel
      <4>5. worker'[s] = "processing"
        BY <2>3, <3>3
      <4>6. InClearing(s)'
        BY <4>4, <4>5 DEF InClearing
      <4> QED BY <1>1, <1>2, <1>4, <2>5, <2>10, <4>5, <4>6 DEF ShutdownScope
    <3> QED BY <3>2, <3>3
  <2> QED BY <2>9, <2>10
<1> QED BY <1>2, <1>3, <1>4

\* A chunk done, the worker waits again.
LEMMA ProcessShutdown ==
  ASSUME ShutdownInv, NEW s \in Scopes, Process(s), NEW r \in Scopes
  PROVE  ShutdownScope(r)' /\ phase' = phase /\ sched' = sched
<1>1. ShutdownScope(r)
  BY DEF ShutdownInv
<1>2. UNCHANGED <<phase, ending, snapshot, sched, queue>>
  BY DEF Process, schedVars
<1>3. worker'[r] = IF r = s THEN "waiting" ELSE worker[r]
  BY DEF Process, ShutdownInv, TypeOK, WorkerTypeOK
<1>4. r = s => worker[r] = "processing"
  BY DEF Process
<1> QED BY <1>1, <1>2, <1>3, <1>4
        DEF ShutdownScope, InService, InClearing, EndsInSentinel

\* main() moves on without touching the workers.
LEMMA PhaseShutdown ==
  ASSUME ShutdownInv, NEW r \in Scopes,
         StartScheduler \/ StartHandler \/ StopHandler \/ RequestStop \/ JoinScheduler
  PROVE  ShutdownScope(r)' /\ (phase' = "sentinels" => sched' = "exited")
         /\ phase' \notin {"clearing", "stopped"}
<1>1. ShutdownScope(r)
  BY DEF ShutdownInv
<1>2. UNCHANGED <<worker, ending, queue, snapshot>>
  BY DEF StartScheduler, StartHandler, StopHandler, RequestStop, JoinScheduler,
         schedVars, workerVars
<1>3. phase \notin {"clearing", "stopped"} /\ phase' \notin {"clearing", "stopped"}
      /\ (phase' = "sentinels" => sched' = "exited")
  BY DEF StartScheduler, StartHandler, StopHandler, RequestStop, JoinScheduler, schedVars
<1>4. snapshot[r] # {} => sched' = "dispatching"
  <2>1. CASE StartScheduler
    <3>1. snapshot[r] = {}
      BY <1>1, <2>1 DEF StartScheduler, ShutdownScope, ShutdownInv
    <3> QED BY <3>1
  <2>2. CASE ~StartScheduler
    BY <1>1, <2>2 DEF StartHandler, StopHandler, RequestStop, JoinScheduler, schedVars,
                      ShutdownScope
  <2> QED BY <2>1, <2>2
<1> QED BY <1>1, <1>2, <1>3, <1>4 DEF ShutdownScope, InService

\* Every worker's queue gets its sentinel, once the scheduler is gone.
LEMMA SentinelsShutdown ==
  ASSUME ShutdownInv, PushSentinels, NEW r \in Scopes
  PROVE  ShutdownScope(r)' /\ sched' = sched /\ sched = "exited"
<1>1. ShutdownScope(r) /\ sched = "exited"
  BY DEF ShutdownInv, PushSentinels
<1>2. UNCHANGED <<worker, ending, snapshot, sched>> /\ phase' = "clearing"
      /\ phase = "sentinels"
  BY DEF PushSentinels, schedVars
<1>3. InService(r)
  BY <1>1, <1>2 DEF ShutdownScope
<1>4. CASE worker[r] = "none"
  <2>1. queue'[r] = queue[r]
    BY <1>4 DEF PushSentinels, Workers
  <2> QED BY <1>1, <1>2, <1>4, <2>1 DEF ShutdownScope, InClearing
<1>5. CASE worker[r] # "none"
  <2> DEFINE q == queue[r]
  <2>1. queue'[r] = Append(q, Sentinel)
    BY <1>5 DEF PushSentinels, Workers
  <2>2. q \in Seq(SUBSET Batch) /\ Sentinel \in SUBSET Batch
    BY DEF ShutdownInv, TypeOK, WorkerTypeOK, Sentinel
  <2>3. Len(q) <= QueueCapacity /\ \A i \in 1..Len(q) : q[i] # Sentinel
    BY <1>3 DEF InService
  <2> HIDE DEF q
  <2>4. Len(Append(q, Sentinel)) = Len(q) + 1 /\ Append(q, Sentinel)[Len(q) + 1] = Sentinel
        /\ \A i \in 1..Len(q) : Append(q, Sentinel)[i] = q[i]
    BY <2>2, AppendProperties
  <2>5. Len(q) \in Nat /\ QueueCapacity \in Nat
    BY <2>2, LenProperties, BoundsAssumption
  <2>6. Len(Append(q, Sentinel)) \in 1..(QueueCapacity + 1)
    BY <2>3, <2>4, <2>5
  <2>7. \A i \in 1..Len(Append(q, Sentinel)) :
           Append(q, Sentinel)[i] = Sentinel <=> i = Len(Append(q, Sentinel))
    BY <2>3, <2>4, <2>5
  <2>8. EndsInSentinel(queue[r])'
    BY <2>1, <2>6, <2>7 DEF EndsInSentinel
  <2>9. InClearing(r)'
    BY <1>2, <1>3, <2>8 DEF InClearing, InService
  <2> QED BY <1>1, <1>2, <1>5, <2>9 DEF ShutdownScope
<1> QED BY <1>1, <1>2, <1>4, <1>5

\* A destructor asks one worker to end, or has joined it.
LEMMA DestroyShutdown ==
  ASSUME ShutdownInv, NEW s \in Scopes, BeginDestroy(s) \/ JoinWorker(s), NEW r \in Scopes
  PROVE  ShutdownScope(r)' /\ phase' = phase /\ sched' = sched
<1>1. ShutdownScope(r) /\ ShutdownScope(s)
  BY DEF ShutdownInv
<1>2. UNCHANGED <<phase, queue, snapshot, sched>>
  BY DEF BeginDestroy, JoinWorker, schedVars
<1>3. phase \in {"clearing", "stopped"}
  BY <1>1 DEF BeginDestroy, JoinWorker, ShutdownScope, InService
<1>4. worker'[r] = worker[r] \/ (worker[r] = "exited" /\ worker'[r] = "joined")
  BY DEF BeginDestroy, JoinWorker, ShutdownInv, TypeOK, WorkerTypeOK
<1> QED BY <1>1, <1>2, <1>3, <1>4 DEF ShutdownScope, InClearing, EndsInSentinel

\* main() has joined every worker.
LEMMA StoppedShutdown ==
  ASSUME ShutdownInv, Stopped, NEW r \in Scopes
  PROVE  ShutdownScope(r)' /\ sched' = sched /\ sched = "exited"
<1>1. ShutdownScope(r) /\ sched = "exited"
  BY DEF ShutdownInv, Stopped
<1>2. UNCHANGED <<worker, queue, snapshot, sched>> /\ phase = "clearing"
      /\ phase' = "stopped"
  BY DEF Stopped, schedVars, workerVars
<1>3. worker[r] \in {"none", "joined"}
  BY DEF Stopped, Workers
<1> QED BY <1>1, <1>2, <1>3 DEF ShutdownScope, InClearing

\* Every step keeps the shutdown invariant.
LEMMA NextShutdown == ShutdownInv /\ [Next]_vars => ShutdownInv'
<1> SUFFICES ASSUME ShutdownInv, [Next]_vars PROVE ShutdownInv'
  OBVIOUS
<1> DEFINE MainInv ==
      /\ phase = "init" => sched = "off"
      /\ phase \in {"sentinels", "clearing", "stopped"} => sched = "exited"
<1>1. TypeOK' /\ MainInv
  BY NextType DEF ShutdownInv
<1>2. ASSUME MqttThread PROVE MainInv' /\ \A r \in Scopes : ShutdownScope(r)'
  <2>1. sched' = sched /\ phase' = phase
    BY <1>2 DEF MqttThread, Reject, Receive, AddBatch, schedVars
  <2> QED BY <1>1, <1>2, <2>1, MqttShutdown
<1>3. ASSUME PopAll PROVE MainInv' /\ \A r \in Scopes : ShutdownScope(r)'
  <2>1. phase' = phase /\ sched = "waiting"
    BY <1>3 DEF PopAll
  <2> QED BY <1>1, <1>3, <2>1, PopAllShutdown
<1>4. ASSUME NEW s \in Scopes, DropAtLimit(s) \/ Enqueue(s) \/ DropAtFull(s)
      PROVE  MainInv' /\ \A r \in Scopes : ShutdownScope(r)'
  <2>1. phase' = phase /\ sched = "dispatching"
    BY <1>4 DEF DropAtLimit, Enqueue, DropAtFull, Dispatched
  <2> QED BY <1>1, <1>4, <2>1, DropShutdown, EnqueueShutdown
<1>5. ASSUME SchedulerExit PROVE MainInv' /\ \A r \in Scopes : ShutdownScope(r)'
  <2>1. phase' = phase /\ sched = "waiting" /\ sched' = "exited"
    BY <1>5 DEF SchedulerExit
  <2> QED BY <1>1, <1>5, <2>1, SchedulerExitShutdown
<1>6. ASSUME NEW s \in Scopes, WorkerThread(s) \/ BeginDestroy(s) \/ JoinWorker(s)
      PROVE  MainInv' /\ \A r \in Scopes : ShutdownScope(r)'
  <2>1. phase' = phase /\ sched' = sched
    BY <1>6 DEF WorkerThread, Wake, Process, BeginDestroy, JoinWorker, schedVars
  <2> QED BY <1>1, <1>6, <2>1, WakeShutdown, ProcessShutdown, DestroyShutdown
          DEF WorkerThread
<1>7. ASSUME StartScheduler \/ StartHandler \/ StopHandler \/ RequestStop \/ JoinScheduler
      PROVE  MainInv' /\ \A r \in Scopes : ShutdownScope(r)'
  <2>1. phase' # "init"
    BY <1>7 DEF StartScheduler, StartHandler, StopHandler, RequestStop, JoinScheduler
  <2>2. phase' \notin {"clearing", "stopped"} /\ (phase' = "sentinels" => sched' = "exited")
    BY <1>7 DEF StartScheduler, StartHandler, StopHandler, RequestStop, JoinScheduler,
                schedVars
  <2> QED BY <1>7, <2>1, <2>2, PhaseShutdown
<1>8. ASSUME PushSentinels \/ Stopped
      PROVE  MainInv' /\ \A r \in Scopes : ShutdownScope(r)'
  <2>1. phase' # "init" /\ sched' = sched /\ sched = "exited"
    BY <1>1, <1>8 DEF PushSentinels, Stopped, schedVars
  <2> QED BY <1>8, <2>1, SentinelsShutdown, StoppedShutdown
<1>9. ASSUME UNCHANGED vars PROVE MainInv' /\ \A r \in Scopes : ShutdownScope(r)'
  <2>1. UNCHANGED <<phase, sched, snapshot, worker, ending, queue>>
    BY <1>9 DEF vars, schedVars, workerVars
  <2>2. \A r \in Scopes : ShutdownScope(r)
    BY DEF ShutdownInv
  <2> QED BY <1>1, <2>1, <2>2, SameShutdown
<1>10. MainInv' /\ \A r \in Scopes : ShutdownScope(r)'
  BY <1>2, <1>3, <1>4, <1>5, <1>6, <1>7, <1>8, <1>9
  DEF Next, MqttThread, SchedulerThread, MainThread, ShutDown, Terminated
<1> QED BY <1>1, <1>10 DEF ShutdownInv

\* No chunk is behind a sentinel or left by a worker that has ended, and only a
\* sentinel exceeds a queue's capacity.
THEOREM SentinelEndsQueue == Spec => []SentinelLast
<1>1. ASSUME ShutdownInv, NEW s \in Scopes
      PROVE  /\ \A i \in 1..Len(queue[s]) : queue[s][i] = Sentinel => i = Len(queue[s])
             /\ Len(queue[s]) > QueueCapacity =>
                  Len(queue[s]) = QueueCapacity + 1 /\ queue[s][Len(queue[s])] = Sentinel
             /\ worker[s] \in {"exited", "joined"} => queue[s] = <<>>
  <2> DEFINE q == queue[s]
  <2>1. ShutdownScope(s) /\ q \in Seq(SUBSET Batch)
        /\ worker[s] \in {"none", "waiting", "processing", "exited", "joined"}
    BY <1>1 DEF ShutdownInv, TypeOK, WorkerTypeOK
  <2>2. QueueCapacity \in Nat
    BY BoundsAssumption
  <2>3. CASE InService(s)
    <3>1. Len(q) \in Nat
      BY <2>1, LenProperties
    <3> QED BY <2>2, <2>3, <3>1 DEF InService
  <2>4. CASE EndsInSentinel(q) /\ worker[s] \notin {"exited", "joined"}
    BY <2>2, <2>4 DEF EndsInSentinel
  <2>5. CASE q = <<>>
    <3>1. Len(q) = 0
      BY <2>5
    <3> QED BY <2>2, <2>5, <3>1
  <2> QED BY <2>1, <2>3, <2>4, <2>5 DEF ShutdownScope, InClearing
<1>2. ShutdownInv => SentinelLast
  BY <1>1 DEF SentinelLast
<1> QED BY <1>2, InitShutdown, NextShutdown, PTL DEF Spec

\* When the scheduler has stopped, what it took from the buffer was tracked or
\* dropped with a count.
THEOREM NothingAbandoned == Spec => []DrainedWhenStopped
<1>1. ASSUME ShutdownInv, phase = "stopped", NEW s \in Scopes
      PROVE  InFlight(s) = buffer[s] /\ worker[s] \in {"none", "joined"}
  <2>1. ShutdownScope(s) /\ sched = "exited"
    BY <1>1 DEF ShutdownInv
  <2>2. worker[s] \in {"none", "joined"} /\ snapshot[s] = {} /\ queue[s] = <<>>
    BY <1>1, <2>1 DEF ShutdownScope, InClearing
  <2>3. current[s] = {}
    BY <1>1, <2>2 DEF ShutdownInv, TypeOK, WorkerTypeOK
  <2>4. Queued(s) = {}
    <3>1. Len(queue[s]) = 0
      BY <2>2
    <3> QED BY <3>1 DEF Queued, BatchesIn
  <2> QED BY <2>2, <2>3, <2>4 DEF InFlight
<1>2. ShutdownInv => DrainedWhenStopped
  BY <1>1 DEF DrainedWhenStopped
<1> QED BY <1>2, InitShutdown, NextShutdown, PTL DEF Spec

-----------------------------------------------------------------------------
(* No batch leaks.                                                          *)

\* Everything in flight is a batch.
LEMMA InFlightBatches ==
  ASSUME OrderInv, NEW r \in Scopes
  PROVE  /\ InFlight(r) \subseteq Batch
         /\ \A b \in InFlight(r) : b.seq \in Frames /\ b.seq \in Nat
<1>1. InFlight(r) \subseteq Batch
  BY DEF OrderInv, TypeOK, SchedulerTypeOK, WorkerTypeOK, InFlight, Queued, BatchesIn
<1> QED BY <1>1 DEF Batch, Frames

\* A step that neither moves nor judges the batches of scope r.
LEMMA SameConserved ==
  ASSUME NEW r \in Scopes, InFlight(r)' = InFlight(r), fate'[r] = fate[r],
         Conserved(r), OneCamera(r)
  PROVE  Conserved(r)' /\ OneCamera(r)'
  BY DEF Conserved, OneCamera, SeqsOf

\* Settle judges the batches of one scope and leaves the others alone.
LEMMA SettleElsewhere ==
  ASSUME TypeOK, NEW s \in Scopes, NEW r \in Scopes \ {s}, NEW B, NEW v
  PROVE  Settle(s, B, v)[r] = fate[r]
  BY DEF Settle, TypeOK, HistoryTypeOK

\* A set of batches leaves flight with a verdict, and none of their messages is
\* in flight elsewhere in the scope.
LEMMA LeaveConserved ==
  ASSUME OrderInv, NEW s \in Scopes, NEW B \in SUBSET InFlight(s), NEW v,
         v # "live", InFlight(s)' = InFlight(s) \ B,
         \A b \in B, c \in InFlight(s) \ B : b.seq # c.seq,
         fate' = Settle(s, B, v), Conserved(s), OneCamera(s)
  PROVE  Conserved(s)' /\ OneCamera(s)'
<1>1. \A b \in InFlight(s) : b.seq \in Frames
  BY InFlightBatches
<1>2. SeqsOf(InFlight(s))' = SeqsOf(InFlight(s)) \ SeqsOf(B)
  BY DEF SeqsOf
<1>3. \A n \in Frames : fate'[s][n] = IF \E b \in B : b.seq = n THEN v ELSE fate[s][n]
  BY DEF Settle, OrderInv, TypeOK, HistoryTypeOK
<1>4. {n \in Frames : fate'[s][n] = "live"} = {n \in Frames : fate[s][n] = "live"} \ SeqsOf(B)
  BY <1>3 DEF SeqsOf
<1>5. OneCamera(s)'
  BY DEF OneCamera
<1> QED BY <1>2, <1>4, <1>5 DEF Conserved

\* Two stages that are in order share no message.
LEMMA OrderedApart ==
  ASSUME OrderInv, NEW s \in Scopes, OneCamera(s), NEW B \in SUBSET InFlight(s),
         NEW C \in SUBSET InFlight(s), Before(B, C)
  PROVE  \A b \in B, c \in C : b.seq # c.seq
<1>1. \A b \in InFlight(s) : b.seq \in Nat
  BY InFlightBatches
<1> QED BY <1>1 DEF OneCamera, Before

\* A step that neither moves nor judges any batch.
LEMMA IdleConserved ==
  ASSUME ConservationInv, NEW r \in Scopes, UNCHANGED <<buffer, snapshot, queue, current, fate>>
  PROVE  Conserved(r)' /\ OneCamera(r)'
<1>1. InFlight(r)' = InFlight(r)
  BY DEF InFlight, Queued
<1> QED BY <1>1, SameConserved DEF ConservationInv

\* The new batch is live; the one it replaces is superseded.
LEMMA AddBatchConserved ==
  ASSUME ConservationInv, NEW s \in Scopes, AddBatch(s), NEW r \in Scopes
  PROVE  Conserved(r)' /\ OneCamera(r)'
<1> DEFINE old == {b \in buffer[s] : b.camera = incoming.camera}
<1>1. OrderInv /\ TypeOK /\ ScopeOrder(s) /\ NewestInHand(s) /\ Conserved(s) /\ OneCamera(s)
      /\ Conserved(r) /\ OneCamera(r)
  BY DEF ConservationInv, OrderInv
<1>2. snapshot' = snapshot /\ queue' = queue /\ current' = current /\ s \in todo
      /\ buffer' = [buffer EXCEPT ![s] = (@ \ old) \cup {incoming}]
      /\ fate' = [Settle(s, old, "superseded") EXCEPT ![s][incoming.seq] = "live"]
  BY DEF AddBatch, schedVars, workerVars
<1>3. buffer \in [Scopes -> SUBSET Batch] /\ incoming \in Batch
      /\ fate \in [Scopes -> [Frames -> Fates]]
  BY <1>1, <1>2 DEF TypeOK, HandlerTypeOK, SchedulerTypeOK, HistoryTypeOK
<1>4. Settle(s, old, "superseded") \in [Scopes -> [Frames -> Fates]]
  BY <1>3, SettleType DEF Fates
<1>5. CASE r # s
  <2>1. InFlight(r)' = InFlight(r)
    BY <1>2, <1>3, <1>5 DEF InFlight, Queued
  <2>2. Settle(s, old, "superseded")[r] = fate[r]
    BY <1>1, <1>5, SettleElsewhere
  <2> HIDE DEF old
  <2>3. fate'[r] = fate[r]
    BY <1>2, <1>4, <1>5, <2>2
  <2> QED BY <1>1, <2>1, <2>3, SameConserved
<1>6. CASE r = s
  <2>1. buffer'[s] = (buffer[s] \ old) \cup {incoming}
    BY <1>2, <1>3
  <2>2. \A b \in InFlight(s) : b.seq < incoming.seq /\ b.seq \in Nat
    BY <1>1, <1>2, InFlightBatches DEF NewestInHand
  <2>3. incoming.seq \in Frames /\ incoming.seq \in Nat
    BY <1>3 DEF Batch, Frames
  <2>4. old \subseteq InFlight(s)
    BY DEF InFlight
  <2>5. \A c \in current[s] \cup Queued(s) \cup snapshot[s], b \in old : c.seq # b.seq
    <3> DEFINE rest == current[s] \cup Queued(s) \cup snapshot[s]
    <3>1. Before(rest, old) /\ rest \in SUBSET InFlight(s)
      BY <1>1 DEF ScopeOrder, Before, InFlight
    <3> HIDE DEF rest, old
    <3>2. \A c \in rest, b \in old : c.seq # b.seq
      BY <1>1, <2>4, <3>1, OrderedApart
    <3> QED BY <3>2 DEF rest
  <2>6. \A b \in old, c \in InFlight(s) \ old : b.seq # c.seq
    <3>1. \A c \in buffer[s] \ old : c.camera # incoming.camera
      OBVIOUS
    <3>2. \A b \in old, c \in buffer[s] \ old : b.seq # c.seq
      BY <1>1, <2>4, <3>1 DEF OneCamera, InFlight
    <3> QED BY <2>5, <3>2 DEF InFlight
  <2>7. InFlight(s)' = (InFlight(s) \ old) \cup {incoming}
    BY <1>2, <2>1, <2>5 DEF InFlight, Queued
  <2>8. \A n \in Frames : fate'[s][n] =
          IF n = incoming.seq THEN "live"
          ELSE IF \E b \in old : b.seq = n THEN "superseded" ELSE fate[s][n]
    <3>1. \A n \in Frames : Settle(s, old, "superseded")[s][n] =
            IF \E b \in old : b.seq = n THEN "superseded" ELSE fate[s][n]
      BY <1>3 DEF Settle
    <3> HIDE DEF old
    <3> QED BY <1>2, <1>4, <2>3, <3>1
  <2> HIDE DEF old
  <2>9. SeqsOf(InFlight(s))' = (SeqsOf(InFlight(s)) \ SeqsOf(old)) \cup {incoming.seq}
    BY <2>6, <2>7 DEF SeqsOf
  <2>10. {n \in Frames : fate'[s][n] = "live"}
           = ({n \in Frames : fate[s][n] = "live"} \ SeqsOf(old)) \cup {incoming.seq}
    BY <2>3, <2>8 DEF SeqsOf
  <2>11. OneCamera(s)'
    BY <1>1, <2>2, <2>3, <2>7 DEF OneCamera
  <2> QED BY <1>1, <1>6, <2>9, <2>10, <2>11 DEF Conserved
<1> QED BY <1>5, <1>6

\* Moving the buffer into an empty snapshot keeps what is in flight.
LEMMA PopAllConserved ==
  ASSUME ConservationInv, ShutdownInv, PopAll, NEW r \in Scopes
  PROVE  Conserved(r)' /\ OneCamera(r)' /\ InFlight(r)' = InFlight(r)
<1>1. snapshot[r] = {}
  BY DEF PopAll, ShutdownInv, ShutdownScope
<1>2. queue' = queue /\ current' = current /\ fate' = fate
      /\ snapshot'[r] = buffer[r] /\ buffer'[r] = {}
  BY DEF PopAll, workerVars
<1>3. InFlight(r)' = InFlight(r)
  BY <1>1, <1>2 DEF InFlight, Queued
<1> QED BY <1>2, <1>3, SameConserved DEF ConservationInv

\* A dropped chunk leaves flight with its verdict.
LEMMA DropConserved ==
  ASSUME ConservationInv, NEW s \in Scopes, DropAtLimit(s) \/ DropAtFull(s), NEW r \in Scopes
  PROVE  Conserved(r)' /\ OneCamera(r)'
<1>1. OrderInv /\ TypeOK /\ ScopeOrder(s) /\ Conserved(s) /\ OneCamera(s)
      /\ Conserved(r) /\ OneCamera(r)
  BY DEF ConservationInv, OrderInv
<1>2. queue' = queue /\ current' = current /\ buffer' = buffer
      /\ snapshot' = [snapshot EXCEPT ![s] = {}]
  BY DEF DropAtLimit, DropAtFull, Dispatched
<1>3. PICK v \in {"limit", "full"} : fate' = Settle(s, snapshot[s], v)
  BY DEF DropAtLimit, DropAtFull
<1>4. snapshot \in [Scopes -> SUBSET Batch]
  BY <1>1 DEF TypeOK, SchedulerTypeOK
<1>5. CASE r # s
  <2>1. InFlight(r)' = InFlight(r)
    BY <1>2, <1>4, <1>5 DEF InFlight, Queued
  <2>2. fate'[r] = fate[r]
    BY <1>1, <1>3, <1>5, SettleElsewhere
  <2> QED BY <1>1, <2>1, <2>2, SameConserved
<1>6. CASE r = s
  <2> DEFINE rest == current[s] \cup Queued(s) \cup buffer[s]
  <2>1. snapshot'[s] = {} /\ Queued(s)' = Queued(s)
    BY <1>2, <1>4 DEF Queued
  <2>2. InFlight(s)' = rest /\ InFlight(s) = rest \cup snapshot[s]
    BY <1>2, <2>1 DEF InFlight
  <2>3. Before(current[s] \cup Queued(s), snapshot[s]) /\ Before(snapshot[s], buffer[s])
    BY <1>1 DEF ScopeOrder, Before
  <2>4. \A c \in current[s] \cup Queued(s), b \in snapshot[s] : c.seq # b.seq
    BY <1>1, <2>2, <2>3, OrderedApart
  <2>5. \A b \in snapshot[s], c \in buffer[s] : b.seq # c.seq
    BY <1>1, <2>2, <2>3, OrderedApart
  <2>6. \A b \in snapshot[s], c \in rest : b.seq # c.seq
    BY <2>4, <2>5
  <2> HIDE DEF rest
  <2>7. InFlight(s)' = InFlight(s) \ snapshot[s]
    BY <2>2, <2>6
  <2>8. \A b \in snapshot[s], c \in InFlight(s) \ snapshot[s] : b.seq # c.seq
    BY <2>2, <2>6
  <2>9. snapshot[s] \in SUBSET InFlight(s) /\ v # "live"
    BY <2>2, <1>3
  <2>10. Conserved(s)' /\ OneCamera(s)'
    BY <1>1, <1>3, <2>7, <2>8, <2>9, LeaveConserved
  <2> QED BY <1>6, <2>10
<1> QED BY <1>5, <1>6

\* A chunk moves from the snapshot to its queue.
LEMMA EnqueueConserved ==
  ASSUME ConservationInv, NEW s \in Scopes, Enqueue(s), NEW r \in Scopes
  PROVE  Conserved(r)' /\ OneCamera(r)' /\ InFlight(r)' = InFlight(r)
<1>1. snapshot \in [Scopes -> SUBSET Batch] /\ queue \in [Scopes -> Seq(SUBSET Batch)]
  BY DEF ConservationInv, OrderInv, TypeOK, SchedulerTypeOK, WorkerTypeOK
<1>2. current' = current /\ buffer' = buffer /\ fate' = fate
      /\ snapshot' = [snapshot EXCEPT ![s] = {}]
      /\ queue' = [queue EXCEPT ![s] = Append(@, snapshot[s])]
  BY DEF Enqueue, Dispatched
<1>3. InFlight(r)' = InFlight(r)
  <2>1. CASE r # s
    BY <1>1, <1>2, <2>1 DEF InFlight, Queued
  <2>2. CASE r = s
    <3>1. queue[s] \in Seq(SUBSET Batch) /\ snapshot[s] \in SUBSET Batch
      BY <1>1
    <3>2. BatchesIn(Append(queue[s], snapshot[s])) = BatchesIn(queue[s]) \cup snapshot[s]
      BY <3>1, BatchesAppend
    <3>3. snapshot'[s] = {} /\ Queued(s)' = Queued(s) \cup snapshot[s]
      BY <1>1, <1>2, <3>2 DEF Queued
    <3> QED BY <1>2, <2>2, <3>3 DEF InFlight
  <2> QED BY <2>1, <2>2
<1> QED BY <1>2, <1>3, SameConserved DEF ConservationInv

\* A chunk moves from its queue into work.
LEMMA WakeConserved ==
  ASSUME ConservationInv, NEW s \in Scopes, Wake(s), NEW r \in Scopes
  PROVE  Conserved(r)' /\ OneCamera(r)' /\ InFlight(r)' = InFlight(r)
<1>1. queue \in [Scopes -> Seq(SUBSET Batch)] /\ current \in [Scopes -> SUBSET Batch]
      /\ current[s] = {}
  BY DEF ConservationInv, OrderInv, TypeOK, WorkerTypeOK, Wake
<1>2. buffer' = buffer /\ snapshot' = snapshot /\ fate' = fate
  BY DEF Wake, schedVars
<1>3. InFlight(r)' = InFlight(r)
  <2>1. CASE r # s \/ queue[s] = <<>>
    <3>1. queue'[r] = queue[r] /\ current'[r] = current[r]
      BY <1>1, <2>1 DEF Wake
    <3> QED BY <1>2, <3>1 DEF InFlight, Queued
  <2>2. CASE r = s /\ queue[s] # <<>>
    <3>1. queue'[s] = Tail(queue[s]) /\ current'[s] = Head(queue[s])
      BY <1>1, <2>2 DEF Wake
    <3>2. queue[s] \in Seq(SUBSET Batch)
      BY <1>1
    <3>3. BatchesIn(queue[s]) = Head(queue[s]) \cup BatchesIn(Tail(queue[s]))
      BY <2>2, <3>2, BatchesTail
    <3> QED BY <1>1, <1>2, <2>2, <3>1, <3>3 DEF InFlight, Queued
  <2> QED BY <2>1, <2>2
<1> QED BY <1>2, <1>3, SameConserved DEF ConservationInv

\* A processed chunk leaves flight as tracked.
LEMMA ProcessConserved ==
  ASSUME ConservationInv, NEW s \in Scopes, Process(s), NEW r \in Scopes
  PROVE  Conserved(r)' /\ OneCamera(r)'
<1>1. OrderInv /\ TypeOK /\ ScopeOrder(s) /\ Conserved(s) /\ OneCamera(s)
      /\ Conserved(r) /\ OneCamera(r)
  BY DEF ConservationInv, OrderInv
<1>2. queue' = queue /\ snapshot' = snapshot /\ buffer' = buffer
      /\ current' = [current EXCEPT ![s] = {}] /\ fate' = Settle(s, current[s], "tracked")
  BY DEF Process, schedVars
<1>3. current \in [Scopes -> SUBSET Batch]
  BY <1>1 DEF TypeOK, WorkerTypeOK
<1>4. CASE r # s
  <2>1. InFlight(r)' = InFlight(r)
    BY <1>2, <1>3, <1>4 DEF InFlight, Queued
  <2>2. fate'[r] = fate[r]
    BY <1>1, <1>2, <1>4, SettleElsewhere
  <2> QED BY <1>1, <2>1, <2>2, SameConserved
<1>5. CASE r = s
  <2> DEFINE rest == Queued(s) \cup snapshot[s] \cup buffer[s]
  <2>1. current'[s] = {} /\ Queued(s)' = Queued(s)
    BY <1>2, <1>3 DEF Queued
  <2>2. InFlight(s)' = rest /\ InFlight(s) = rest \cup current[s]
    BY <1>2, <2>1 DEF InFlight
  <2>3. Before(current[s], rest)
    BY <1>1 DEF ScopeOrder
  <2> HIDE DEF rest
  <2>4. \A b \in current[s], c \in rest : b.seq # c.seq
    BY <1>1, <2>2, <2>3, OrderedApart
  <2>5. InFlight(s)' = InFlight(s) \ current[s]
    BY <2>2, <2>4
  <2>6. \A b \in current[s], c \in InFlight(s) \ current[s] : b.seq # c.seq
    BY <2>2, <2>4
  <2>7. current[s] \in SUBSET InFlight(s)
    BY <2>2
  <2>8. Conserved(s)' /\ OneCamera(s)'
    BY <1>1, <1>2, <2>5, <2>6, <2>7, LeaveConserved
  <2> QED BY <1>5, <2>8
<1> QED BY <1>4, <1>5

\* A sentinel carries no batch.
LEMMA SentinelsConserved ==
  ASSUME ConservationInv, PushSentinels, NEW r \in Scopes
  PROVE  Conserved(r)' /\ OneCamera(r)' /\ InFlight(r)' = InFlight(r)
<1>1. buffer' = buffer /\ snapshot' = snapshot /\ current' = current /\ fate' = fate
      /\ (queue'[r] = queue[r] \/ queue'[r] = Append(queue[r], Sentinel))
  BY DEF PushSentinels, schedVars
<1>2. queue[r] \in Seq(SUBSET Batch) /\ Sentinel \in SUBSET Batch
  BY DEF ConservationInv, OrderInv, TypeOK, WorkerTypeOK, Sentinel
<1>3. BatchesIn(Append(queue[r], Sentinel)) = BatchesIn(queue[r])
  <2>1. BatchesIn(Append(queue[r], Sentinel)) = BatchesIn(queue[r]) \cup Sentinel
    BY <1>2, BatchesAppend
  <2> QED BY <2>1 DEF Sentinel
<1>4. InFlight(r)' = InFlight(r)
  BY <1>1, <1>3 DEF InFlight, Queued
<1> QED BY <1>1, <1>4, SameConserved DEF ConservationInv

\* Init: nothing is in flight and no message has a history.
LEMMA InitConserved == Init => ConservationInv
<1> SUFFICES ASSUME Init PROVE ConservationInv
  OBVIOUS
<1>1. OrderInv
  BY InitOrder
<1>2. ASSUME NEW s \in Scopes PROVE Conserved(s) /\ OneCamera(s)
  <2>1. BatchesIn(queue[s]) = {}
    BY <1>2 DEF Init, BatchesIn
  <2>2. InFlight(s) = {}
    BY <1>2, <2>1 DEF Init, InFlight, Queued
  <2>3. {n \in Frames : fate[s][n] = "live"} = {}
    BY <1>2 DEF Init
  <2> QED BY <2>2, <2>3 DEF Conserved, OneCamera, SeqsOf
<1> QED BY <1>1, <1>2 DEF ConservationInv

\* Every step keeps every batch accounted for.
LEMMA NextConserved == ConservationInv /\ ShutdownInv /\ [Next]_vars => ConservationInv'
<1> SUFFICES ASSUME ConservationInv, ShutdownInv, [Next]_vars PROVE ConservationInv'
  OBVIOUS
<1>1. OrderInv'
  BY NextOrder DEF ConservationInv
<1>2. ASSUME NEW r \in Scopes PROVE Conserved(r)' /\ OneCamera(r)'
  <2>1. CASE Reject \/ SchedulerExit
             \/ \E c \in Cameras, t \in Times, cats \in SUBSET Categories : Receive(c, t, cats)
    <3>1. UNCHANGED <<buffer, snapshot, queue, current, fate>>
      BY <2>1 DEF Reject, SchedulerExit, Receive, schedVars, workerVars
    <3> QED BY <3>1, IdleConserved
  <2>2. CASE \E s \in Scopes : AddBatch(s)
    BY <2>2, AddBatchConserved
  <2>3. CASE PopAll
    BY <2>3, PopAllConserved
  <2>4. CASE \E s \in Scopes : DropAtLimit(s) \/ Enqueue(s) \/ DropAtFull(s)
    BY <2>4, DropConserved, EnqueueConserved
  <2>5. CASE \E s \in Scopes : WorkerThread(s)
    BY <2>5, WakeConserved, ProcessConserved DEF WorkerThread
  <2>6. CASE PushSentinels
    BY <2>6, SentinelsConserved
  <2>7. CASE StartScheduler \/ StartHandler \/ StopHandler \/ RequestStop
             \/ JoinScheduler \/ Stopped
             \/ \E s \in Scopes : BeginDestroy(s) \/ JoinWorker(s)
    <3>1. UNCHANGED <<buffer, snapshot, queue, current, fate>>
      BY <2>7 DEF StartScheduler, StartHandler, StopHandler, RequestStop, JoinScheduler,
                  Stopped, BeginDestroy, JoinWorker, schedVars, workerVars
    <3> QED BY <3>1, IdleConserved
  <2>8. CASE UNCHANGED vars
    BY <2>8, IdleConserved DEF vars, schedVars, workerVars
  <2> QED
    BY <2>1, <2>2, <2>3, <2>4, <2>5, <2>6, <2>7, <2>8
    DEF Next, MqttThread, SchedulerThread, MainThread, ShutDown, Terminated
<1> QED BY <1>1, <1>2 DEF ConservationInv

\* No batch leaks between the stages of the pipeline, whatever the interleaving.
THEOREM NoFrameLeaks == Spec => []FrameConservation
<1>1. ConservationInv => FrameConservation
  BY DEF ConservationInv, FrameConservation
<1> QED
  BY <1>1, InitConserved, NextConserved, InitShutdown, NextShutdown, PTL DEF Spec

-----------------------------------------------------------------------------
(* The refinement of FrameFeed.                                             *)

\* The batches of a set as frames of the feed.
Image(B) == {[source |-> b.camera, seq |-> b.seq] : b \in B}

\* What the feed sees of a scope before and after a step.
LEMMA PendingImage ==
  /\ Pending = [s \in Scopes |-> Pending[s]] /\ Pending' = [s \in Scopes |-> Pending'[s]]
  /\ \A s \in Scopes : Pending[s] = Image(InFlight(s))
  /\ \A s \in Scopes : \A B : InFlight(s)' = B => Pending'[s] = Image(B)
BY DEF Pending, Image

\* A step that moves batches from stage to stage, or none, is none of the feed.
LEMMA FeedStutters ==
  ASSUME \A s \in Scopes : InFlight(s)' = InFlight(s), lastSeq' = lastSeq
  PROVE  UNCHANGED Feed!feedVars
<1>1. Pending' = Pending
  BY PendingImage
<1> QED BY <1>1 DEF Feed!feedVars

\* A scope loses batches, the others keep theirs.
LEMMA FeedLoses ==
  ASSUME NEW s \in Scopes, InFlight(s)' \subseteq InFlight(s), lastSeq' = lastSeq,
         \A r \in Scopes \ {s} : InFlight(r)' = InFlight(r)
  PROVE  Feed!Next
<1> DEFINE lost == Pending[s] \ Pending'[s]
<1>1. PICK B : B = InFlight(s)' /\ B \subseteq InFlight(s)
  OBVIOUS
<1>2. Pending'[s] = Image(B) /\ Pending'[s] \subseteq Pending[s]
  BY <1>1, PendingImage DEF Image
<1>3. Pending'[s] = Pending[s] \ lost /\ lost \in SUBSET Pending[s]
  BY <1>2
<1>4. \A r \in Scopes \ {s} : Pending'[r] = Pending[r]
  BY PendingImage
<1> HIDE DEF lost
<1>5. Pending' = [Pending EXCEPT ![s] = @ \ lost]
  BY <1>3, <1>4, PendingImage
<1>6. Feed!Lose(s, lost)
  BY <1>5 DEF Feed!Lose
<1> QED BY <1>3, <1>6 DEF Feed!Next

\* A batch enters, and one of the same camera may leave to make room.
LEMMA FeedSends ==
  ASSUME OrderInv, NEW s \in Scopes, AddBatch(s)
  PROVE  Feed!Next
<1> DEFINE old == {b \in buffer[s] : b.camera = incoming.camera}
           f == [source |-> incoming.camera, seq |-> incoming.seq]
           lost == Pending[s] \ Pending'[s]
<1>1. snapshot' = snapshot /\ queue' = queue /\ current' = current /\ s \in todo
      /\ lastSeq' = lastSeq /\ buffer' = [buffer EXCEPT ![s] = (@ \ old) \cup {incoming}]
  BY DEF AddBatch, schedVars, workerVars
<1>2. buffer \in [Scopes -> SUBSET Batch] /\ incoming \in Batch
  BY <1>1 DEF OrderInv, TypeOK, HandlerTypeOK, SchedulerTypeOK
<1>3. buffer'[s] = (buffer[s] \ old) \cup {incoming}
  BY <1>1, <1>2
<1>4. \A r \in Scopes \ {s} : Pending'[r] = Pending[r]
  <2> SUFFICES ASSUME NEW r \in Scopes \ {s} PROVE Pending'[r] = Pending[r]
    OBVIOUS
  <2>1. buffer'[r] = buffer[r]
    BY <1>1, <1>2
  <2>2. InFlight(r)' = InFlight(r)
    BY <1>1, <2>1 DEF InFlight, Queued
  <2> QED BY <2>2, PendingImage
<1>5. PICK B : B = InFlight(s)'
  OBVIOUS
<1>6. /\ B \subseteq InFlight(s) \cup {incoming} /\ incoming \in B
      /\ \A b \in InFlight(s) : b \in B \/ b.camera = incoming.camera
  BY <1>1, <1>3, <1>5 DEF InFlight, Queued
<1>7. Pending[s] = Image(InFlight(s)) /\ Pending'[s] = Image(B)
  BY <1>5, PendingImage
<1>8. Pending'[s] = (Pending[s] \ lost) \cup {f} /\ \A g \in lost : g.source = f.source
  BY <1>6, <1>7 DEF Image
<1>9. /\ \A g \in Pending[s] : g.source = f.source => g.seq < f.seq
      /\ lastSeq[s][f.source] < f.seq /\ f \in [source : Cameras, seq : Frames]
  <2>1. NewestInHand(s)
    BY DEF OrderInv
  <2>2. \A b \in InFlight(s) : b.seq < incoming.seq
    BY <1>1, <2>1 DEF NewestInHand
  <2>3. lastSeq[s][incoming.camera] < incoming.seq
    BY <1>1, <2>1 DEF NewestInHand
  <2>4. f \in [source : Cameras, seq : Frames]
    BY <1>2 DEF Batch
  <2> QED BY <1>7, <2>2, <2>3, <2>4 DEF Image
<1>10. lost \in SUBSET Pending[s]
  OBVIOUS
<1> HIDE DEF lost, f
<1>11. Pending' = [Pending EXCEPT ![s] = (@ \ lost) \cup {f}]
  BY <1>4, <1>8, PendingImage
<1>12. Feed!Send(s, f, lost)
  BY <1>1, <1>8, <1>9, <1>11 DEF Feed!Send
<1> QED BY <1>9, <1>10, <1>12 DEF Feed!Next, Feed!Frame

\* The chunk in work is delivered: it holds the oldest batch of each of its cameras.
LEMMA FeedDelivers ==
  ASSUME OrderInv, NEW s \in Scopes, Process(s)
  PROVE  Feed!Next
<1> DEFINE got == Image(current[s])
           rest == Queued(s) \cup snapshot[s] \cup buffer[s]
<1>1. /\ queue' = queue /\ snapshot' = snapshot /\ buffer' = buffer
      /\ current' = [current EXCEPT ![s] = {}]
      /\ lastSeq' = [lastSeq EXCEPT ![s] = [c \in Cameras |->
           IF \E b \in current[s] : b.camera = c
           THEN (CHOOSE b \in current[s] : b.camera = c).seq ELSE lastSeq[s][c]]]
  BY DEF Process, schedVars
<1>2. current \in [Scopes -> SUBSET Batch] /\ current[s] # {} /\ ScopeOrder(s)
  BY DEF OrderInv, TypeOK, WorkerTypeOK, Process
<1>3. \A r \in Scopes \ {s} : Pending'[r] = Pending[r]
  <2> SUFFICES ASSUME NEW r \in Scopes \ {s} PROVE Pending'[r] = Pending[r]
    OBVIOUS
  <2>1. current'[r] = current[r]
    BY <1>1, <1>2
  <2>2. InFlight(r)' = InFlight(r)
    BY <1>1, <2>1 DEF InFlight, Queued
  <2> QED BY <2>2, PendingImage
<1>4. InFlight(s) = current[s] \cup rest /\ InFlight(s)' = rest
  BY <1>1, <1>2 DEF InFlight, Queued
<1>5. Before(current[s], rest) /\ OneEach(current[s])
  BY <1>2 DEF ScopeOrder
<1>6. \A b \in InFlight(s) : b.seq \in Nat
  BY InFlightBatches
<1>7. PICK B, C : B = rest /\ C = current[s]
  OBVIOUS
<1>8. Pending[s] = Image(B \cup C) /\ Pending'[s] = Image(B) /\ got = Image(C)
  BY <1>4, <1>7, PendingImage
<1> HIDE DEF rest, got
<1>9. /\ \A c \in C, b \in B : c.camera = b.camera => c.seq < b.seq
      /\ \A c, b \in C : c.camera = b.camera => c = b
      /\ \A b \in B \cup C : b.seq \in Nat
  BY <1>4, <1>5, <1>6, <1>7 DEF Before, OneEach
<1>10. got # {} /\ got \subseteq Pending[s]
  <2>1. PICK b \in C : TRUE
    BY <1>2, <1>7
  <2>2. [source |-> b.camera, seq |-> b.seq] \in got
    BY <1>8 DEF Image
  <2>3. got \subseteq Pending[s]
    BY <1>8 DEF Image
  <2> QED BY <2>2, <2>3
<1>11. \A f \in got, g \in Pending[s] : f.source = g.source => f = g \/ f.seq < g.seq
  BY <1>8, <1>9 DEF Image
<1>12. Pending'[s] = Pending[s] \ got
  BY <1>8, <1>9 DEF Image
<1>13. \A c \in Cameras :
         (IF \E f \in got : f.source = c
          THEN (CHOOSE f \in got : f.source = c).seq ELSE lastSeq[s][c])
         = (IF \E b \in C : b.camera = c
            THEN (CHOOSE b \in C : b.camera = c).seq ELSE lastSeq[s][c])
  <2> TAKE c \in Cameras
  <2>1. CASE \A b \in C : b.camera # c
    <3>1. \A f \in got : f.source # c
      BY <1>8, <2>1 DEF Image
    <3> QED BY <2>1, <3>1
  <2>2. CASE \E b \in C : b.camera = c
    <3>1. PICK b \in C : b.camera = c
      BY <2>2
    <3>2. (CHOOSE e \in C : e.camera = c) = b
      BY <1>9, <3>1
    <3>3. PICK f \in got : f = [source |-> b.camera, seq |-> b.seq]
      BY <1>8, <3>1 DEF Image
    <3>4. f.source = c /\ f.seq = b.seq
      BY <3>1, <3>3
    <3>5. \A g \in got : g.source = c => g = f
      BY <1>8, <1>9, <3>1, <3>3 DEF Image
    <3>6. (CHOOSE g \in got : g.source = c) = f
      BY <3>4, <3>5
    <3> QED BY <3>1, <3>2, <3>4, <3>6
  <2> QED BY <2>1, <2>2
<1>14. lastSeq' = [lastSeq EXCEPT ![s] = [c \in Cameras |->
         IF \E f \in got : f.source = c
         THEN (CHOOSE f \in got : f.source = c).seq ELSE lastSeq[s][c]]]
  <2>1. [c \in Cameras |->
           IF \E f \in got : f.source = c
           THEN (CHOOSE f \in got : f.source = c).seq ELSE lastSeq[s][c]]
        = [c \in Cameras |->
             IF \E b \in C : b.camera = c
             THEN (CHOOSE b \in C : b.camera = c).seq ELSE lastSeq[s][c]]
    BY <1>13, Zenon
  <2>2. lastSeq' = [lastSeq EXCEPT ![s] = [c \in Cameras |->
           IF \E b \in C : b.camera = c
           THEN (CHOOSE b \in C : b.camera = c).seq ELSE lastSeq[s][c]]]
    BY <1>1, <1>7, Zenon
  <2> QED BY <2>1, <2>2, Zenon
<1>15. Pending' = [Pending EXCEPT ![s] = @ \ got]
  BY <1>3, <1>12, PendingImage
<1>16. Feed!Deliver(s, got)
  BY <1>10, <1>11, <1>14, <1>15 DEF Feed!Deliver
<1>17. got \in SUBSET Pending[s]
  BY <1>10
<1> QED BY <1>16, <1>17 DEF Feed!Next

\* A dropped chunk is lost to the feed.
LEMMA FeedDrops ==
  ASSUME OrderInv, NEW s \in Scopes, DropAtLimit(s) \/ DropAtFull(s)
  PROVE  Feed!Next
<1>1. queue' = queue /\ current' = current /\ buffer' = buffer /\ lastSeq' = lastSeq
      /\ snapshot' = [snapshot EXCEPT ![s] = {}]
  BY DEF DropAtLimit, DropAtFull, Dispatched, workerVars
<1>2. snapshot \in [Scopes -> SUBSET Batch]
  BY DEF OrderInv, TypeOK, SchedulerTypeOK
<1>3. snapshot'[s] = {} /\ \A r \in Scopes \ {s} : snapshot'[r] = snapshot[r]
  BY <1>1, <1>2
<1>4. InFlight(s)' \subseteq InFlight(s)
  BY <1>1, <1>3 DEF InFlight, Queued
<1>5. \A r \in Scopes \ {s} : InFlight(r)' = InFlight(r)
  BY <1>1, <1>3 DEF InFlight, Queued
<1> QED BY <1>1, <1>4, <1>5, FeedLoses

\* The empty pipeline is the empty feed.
LEMMA FeedStarts == Init => Feed!Init
<1> SUFFICES ASSUME Init PROVE Feed!Init
  OBVIOUS
<1>1. ASSUME NEW s \in Scopes PROVE Pending[s] = {}
  <2>1. BatchesIn(queue[s]) = {}
    BY DEF Init, BatchesIn
  <2>2. InFlight(s) = {}
    BY <2>1 DEF Init, InFlight, Queued
  <2> QED BY <2>2, PendingImage DEF Image
<1>2. Pending = [s \in Scopes |-> {}]
  BY <1>1, PendingImage
<1> QED BY <1>2 DEF Init, Feed!Init

\* Every step of the threads is a step of the feed, or none.
LEMMA FeedSteps ==
  ConservationInv /\ ShutdownInv /\ [Next]_vars => [Feed!Next]_Feed!feedVars
<1> SUFFICES ASSUME ConservationInv, ShutdownInv, [Next]_vars
             PROVE  Feed!Next \/ UNCHANGED Feed!feedVars
  OBVIOUS
<1>1. OrderInv
  BY DEF ConservationInv
<1>2. CASE \E s \in Scopes : AddBatch(s)
  BY <1>1, <1>2, FeedSends
<1>3. CASE \E s \in Scopes : DropAtLimit(s) \/ DropAtFull(s)
  BY <1>1, <1>3, FeedDrops
<1>4. CASE \E s \in Scopes : Process(s)
  BY <1>1, <1>4, FeedDelivers
<1>5. CASE PopAll \/ PushSentinels \/ \E s \in Scopes : Enqueue(s) \/ Wake(s)
  <2>1. lastSeq' = lastSeq
    BY <1>5 DEF PopAll, PushSentinels, Enqueue, Dispatched, Wake, workerVars
  <2>2. \A r \in Scopes : InFlight(r)' = InFlight(r)
    BY <1>5, PopAllConserved, EnqueueConserved, WakeConserved, SentinelsConserved
  <2> QED BY <2>1, <2>2, FeedStutters
<1>6. CASE UNCHANGED <<buffer, snapshot, queue, current, lastSeq>>
  <2>1. \A r \in Scopes : InFlight(r)' = InFlight(r)
    BY <1>6 DEF InFlight, Queued
  <2> QED BY <1>6, <2>1, FeedStutters
<1>7. CASE Reject \/ SchedulerExit \/ UNCHANGED vars
           \/ \E c \in Cameras, t \in Times, cats \in SUBSET Categories : Receive(c, t, cats)
  BY <1>6, <1>7 DEF Reject, SchedulerExit, Receive, vars, schedVars, workerVars
<1>8. CASE StartScheduler \/ StartHandler \/ StopHandler \/ RequestStop
           \/ JoinScheduler \/ Stopped
           \/ \E s \in Scopes : BeginDestroy(s) \/ JoinWorker(s)
  BY <1>6, <1>8 DEF StartScheduler, StartHandler, StopHandler, RequestStop, JoinScheduler,
                    Stopped, BeginDestroy, JoinWorker, schedVars, workerVars
<1> QED
  BY <1>2, <1>3, <1>4, <1>5, <1>7, <1>8
  DEF Next, MqttThread, SchedulerThread, WorkerThread, MainThread, ShutDown, Terminated

\* The pipeline keeps the promise of the feed: what the buffer, the snapshot, the
\* queues and the workers do to a scope's batches, the shutdown included, is
\* sending, losing and delivering frames in order, each delivered at most once.
THEOREM FeedImplemented == Spec => FeedSpec
BY FeedStarts, FeedSteps, InitConserved, NextConserved, InitShutdown, NextShutdown,
   PTL DEF Spec, FeedSpec, Feed!Spec

=============================================================================
