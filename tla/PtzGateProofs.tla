---------------------------- MODULE PtzGateProofs ----------------------------
(***************************************************************************)
(* Proofs about PtzCalibration and PtzGate, for any scenario, any times    *)
(* and any bounds.                                                         *)
(***************************************************************************)
EXTENDS PtzGate, FiniteSetTheorems, TLAPS

-----------------------------------------------------------------------------
(* The calibration on its way to the resolver.                              *)

Reloads == {"idle", "failed", "taken", "reading", "read"}

CalibTypeOK ==
  /\ mver \in Nat
  /\ notices \subseteq 1..mver
  /\ calib \in 0..mver /\ noticed \in 0..mver
  /\ pending \in BOOLEAN /\ request \in BOOLEAN /\ inSet \in BOOLEAN
  /\ gen \in Nat
  /\ reload \in [at : Reloads, gen : 0..gen, read : 0..mver]

(* A result that will be applied was read after the last notice, as every  *)
(* notice makes a new generation.                                          *)
ReadInv ==
  /\ reload.at = "read" /\ ~Stale => reload.read = NoCalib \/ reload.read >= noticed
  /\ ~pending => calib = NoCalib \/ calib >= noticed

(* A camera in the pending set will be read again, so a notice that finds  *)
(* it there need not ask; one that finds it gone does, also when the read  *)
(* under way is made stale.                                                *)
ServedInv ==
  /\ inSet => request \/ reload.at = "taken"
  /\ reload.at \in {"reading", "read"} /\ Stale => request
  /\ pending /\ reload.at = "idle" => request

CalibInv == CalibTypeOK /\ ReadInv /\ ServedInv

\* What the invariant is about.
calibState == <<managerVars, loadVars>>

\* The invariant does not depend on the life of the service, nor on what is left
\* of the scenario.
LEMMA CalibSame == CalibInv /\ UNCHANGED calibState => CalibInv'
  BY DEF CalibInv, CalibTypeOK, ReadInv, ServedInv, Stale, calibState, managerVars, loadVars

\* Every step of the Manager and of the service's threads keeps the invariant.
LEMMA CalibStep == CalibInv /\ CalibNext => CalibInv'
<1> SUFFICES ASSUME CalibInv, CalibNext PROVE CalibInv'
  OBVIOUS
<1> USE DEF CalibInv, CalibTypeOK, Reloads, NoCalib
<1>0. /\ reload.at \in Reloads /\ reload.gen \in 0..gen /\ reload.read \in 0..mver
  OBVIOUS
<1>1. CASE Save
  <2>1. mver' = mver + 1 /\ UNCHANGED loadVars
    BY <1>1 DEF Save
  <2>2. notices' \subseteq 1..mver'
    BY <1>1, <2>1 DEF Save
  <2>3. 0..mver \subseteq 0..mver' /\ mver' \in Nat
    BY <2>1
  <2>4. CalibTypeOK'
    BY <2>1, <2>2, <2>3 DEF loadVars
  <2> QED BY <2>1, <2>4 DEF ReadInv, ServedInv, Stale, loadVars
<1>2. CASE Start \/ StartUnread
  <2>1. PICK v \in {mver, NoCalib} : Restarts(v)
    BY <1>2 DEF Start, StartUnread
  <2>2. /\ UNCHANGED managerVars /\ calib' = v /\ pending' = FALSE /\ gen' = 0
        /\ request' = FALSE /\ inSet' = FALSE /\ noticed' = 0
        /\ reload' = [at |-> "idle", gen |-> 0, read |-> 0]
    BY <2>1 DEF Restarts, Idle
  <2>3. UNCHANGED <<mver, notices>> /\ 0 \in 0..gen' /\ 0 \in 0..mver'
    BY <2>2 DEF managerVars
  <2>6. reload' \in [at : Reloads, gen : 0..gen', read : 0..mver']
    BY <2>2, <2>3
  <2>4. CalibTypeOK'
    <3>1. calib' \in 0..mver' /\ noticed' \in 0..mver' /\ gen' \in Nat
      BY <2>2, <2>3
    <3>2. mver' \in Nat /\ notices' \subseteq 1..mver'
      BY <2>3
    <3>3. pending' \in BOOLEAN /\ request' \in BOOLEAN /\ inSet' \in BOOLEAN
      BY <2>2
    <3> QED BY <2>6, <3>1, <3>2, <3>3
  <2>5. ReadInv' /\ ServedInv'
    BY <2>2, <2>3 DEF ReadInv, ServedInv
  <2> QED BY <2>4, <2>5
<1>3. CASE Connect
  BY <1>3, CalibSame DEF Connect, calibState
<1>4. CASE Crash
  <2>1. UNCHANGED <<mver, loadVars>> /\ notices' = {}
    BY <1>4 DEF Crash
  <2> QED BY <2>1 DEF ReadInv, ServedInv, Stale, loadVars
<1>5. ASSUME NEW v \in notices, OnCameraConfig(v)
      PROVE  CalibInv'
  <2>1. /\ notices' = notices \ {v} /\ gen' = gen + 1 /\ pending' = TRUE
        /\ request' = (request \/ ~inSet) /\ inSet' = TRUE
        /\ noticed' \in {v, noticed}
        /\ UNCHANGED <<mver, calib, reload>>
    BY <1>5 DEF OnCameraConfig
  <2>2. reload' \in [at : Reloads, gen : 0..gen', read : 0..mver']
    BY <2>1
  <2>3. reload.gen < gen'
    BY <1>0, <2>1
  <2>4. CalibTypeOK'
    BY <2>1, <2>2
  <2>5. ReadInv'
    BY <1>0, <2>1, <2>3 DEF ReadInv, Stale
  <2>6. ServedInv'
    BY <1>0, <2>1 DEF ServedInv, Stale
  <2> QED BY <2>4, <2>5, <2>6
<1>6. CASE TakeRequest
  <2>1. /\ reload.at \in {"idle", "failed"} /\ request' = FALSE
        /\ reload' = [reload EXCEPT !.at = "taken"]
        /\ UNCHANGED <<mver, notices, calib, pending, gen, inSet, noticed>>
    BY <1>6 DEF TakeRequest, Waiting, managerVars
  <2>2. reload' \in [at : Reloads, gen : 0..gen, read : 0..mver] /\ reload'.at = "taken"
    BY <2>1
  <2> QED BY <2>1, <2>2 DEF ReadInv, ServedInv, Stale
<1>7. CASE BeginReload \/ FullRefresh
  <2>1. /\ reload.at # "reading" /\ reload.at # "read"
        /\ reload' = [at |-> "reading", gen |-> gen, read |-> 0]
        /\ UNCHANGED <<mver, notices, calib, pending, gen, request, noticed>>
    BY <1>7 DEF BeginReload, FullRefresh, Waiting, Captured, managerVars
  <2>6. \/ inSet' = FALSE
        \/ reload.at # "taken" /\ inSet' = inSet
    BY <1>7 DEF BeginReload, FullRefresh, Waiting
  <2>2. reload' \in [at : Reloads, gen : 0..gen, read : 0..mver] /\ inSet' \in BOOLEAN
    <3>1. gen \in 0..gen /\ 0 \in 0..mver
      OBVIOUS
    <3> QED BY <2>1, <2>6, <3>1
  <2>3. CalibTypeOK'
    BY <2>1, <2>2
  <2>4. ~Stale'
    BY <2>1 DEF Stale
  <2>5. ReadInv' /\ ServedInv'
    BY <2>1, <2>4, <2>6 DEF ReadInv, ServedInv
  <2> QED BY <2>3, <2>5
<1>8. CASE Load
  <2>1. PICK v \in {mver, NoCalib} : reload' = [reload EXCEPT !.at = "read", !.read = v]
    BY <1>8 DEF Load, ReadAs
  <2>2. /\ reload.at = "reading"
        /\ UNCHANGED <<mver, notices, calib, pending, gen, request, inSet, noticed>>
    BY <1>8 DEF Load, managerVars
  <2>7. v \in 0..mver
    OBVIOUS
  <2>3. /\ reload' \in [at : Reloads, gen : 0..gen, read : 0..mver]
        /\ reload'.at = "read" /\ reload'.gen = reload.gen /\ reload'.read = v
    BY <1>0, <2>1, <2>7
  <2>4. CalibTypeOK'
    BY <2>2, <2>3
  <2>5. v = NoCalib \/ v >= noticed
    OBVIOUS
  <2>6. ReadInv' /\ ServedInv'
    BY <2>2, <2>3, <2>5 DEF ReadInv, ServedInv, Stale
  <2> QED BY <2>4, <2>6
<1>9. CASE LoadFails
  <2>1. /\ reload' = [at |-> "failed", gen |-> 0, read |-> 0] /\ reload.at = "reading"
        /\ UNCHANGED <<mver, notices, calib, pending, gen, request, inSet, noticed>>
    BY <1>9 DEF LoadFails, Idle, managerVars
  <2>2. CalibTypeOK'
    <3>1. reload' \in [at : Reloads, gen : 0..gen, read : 0..mver]
      <4>1. 0 \in 0..gen /\ 0 \in 0..mver
        OBVIOUS
      <4> QED BY <2>1, <4>1
    <3> QED BY <2>1, <3>1
  <2>3. ReadInv' /\ ServedInv'
    BY <2>1 DEF ReadInv, ServedInv
  <2> QED BY <2>2, <2>3
<1>10. CASE Apply
  <2>1. /\ reload' = [at |-> "idle", gen |-> 0, read |-> 0] /\ reload.at = "read"
        /\ UNCHANGED <<mver, notices, gen, request, inSet, noticed>>
    BY <1>10 DEF Apply, Idle, managerVars
  <2>2. \/ Stale /\ UNCHANGED <<calib, pending>>
        \/ ~Stale /\ calib' = reload.read /\ ~pending' /\ pending' \in BOOLEAN
    BY <1>10 DEF Apply
  <2>3. CalibTypeOK'
    <3>1. reload' \in [at : Reloads, gen : 0..gen, read : 0..mver]
      <4>1. 0 \in 0..gen /\ 0 \in 0..mver
        OBVIOUS
      <4> QED BY <2>1, <4>1
    <3> QED BY <1>0, <2>1, <2>2, <3>1
  <2>4. ReadInv' /\ ServedInv'
    BY <2>1, <2>2 DEF ReadInv, ServedInv
  <2> QED BY <2>3, <2>4
<1> QED
  BY <1>1, <1>2, <1>3, <1>4, <1>5, <1>6, <1>7, <1>8, <1>9, <1>10 DEF CalibNext

\* Nothing is read or asked for at first.
LEMMA CalibStarts == CalibInit => CalibInv
<1> SUFFICES ASSUME CalibInit PROVE CalibInv
  OBVIOUS
<1>1. CalibTypeOK
  <2>1. reload = [at |-> "idle", gen |-> 0, read |-> 0] /\ gen = 0 /\ mver = 1
    BY DEF CalibInit, Idle, NoCalib
  <2>2. 0 \in 0..gen /\ 0 \in 0..mver
    BY <2>1
  <2>3. reload \in [at : Reloads, gen : 0..gen, read : 0..mver]
    BY <2>1, <2>2 DEF Reloads
  <2>4. pending \in BOOLEAN /\ request \in BOOLEAN /\ inSet \in BOOLEAN
    BY DEF CalibInit
  <2>5. notices = {} /\ calib = 0 /\ noticed = 0
    BY DEF CalibInit, NoCalib
  <2> QED BY <2>1, <2>2, <2>3, <2>4, <2>5 DEF CalibTypeOK
<1>2. ReadInv /\ ServedInv
  BY DEF CalibInit, ReadInv, ServedInv, NoCalib, Idle
<1> QED BY <1>1, <1>2 DEF CalibInv

LEMMA CalibInvHolds == CalibSpec => []CalibInv
<1>1. CalibInv /\ [CalibNext]_calibVars => CalibInv'
  BY CalibStep, CalibSame DEF calibVars, calibState
<1> QED BY <1>1, CalibStarts, PTL DEF CalibSpec

(* A calibration that counts is at least as new as the newest change the   *)
(* service was told of, whatever read was under way when the notice came.  *)
THEOREM NeverOutdated == CalibSpec => []CalibrationNotOutdated
<1>1. CalibInv => CalibrationNotOutdated
  BY DEF CalibInv, ReadInv, CalibrationNotOutdated
<1> QED BY <1>1, CalibInvHolds, PTL

(* A change the service was told of is asked for or being read under its   *)
(* own generation: no notice gets lost between the pending set, the queue  *)
(* of requests and the refresh thread.                                     *)
THEOREM NoticeIsServed == CalibSpec => []PendingIsServed
<1>1. CalibInv => PendingIsServed
  BY DEF CalibInv, CalibTypeOK, ServedInv, Reloads, PendingIsServed
<1> QED BY <1>1, CalibInvHolds, PTL

-----------------------------------------------------------------------------
(* The whole chain: resolver, broker and gate.                              *)

\* The broker retains a pose and a status.
Retains == DOMAIN retained = {"pose", "status"}

ChainInv == CalibInv /\ Retains

\* What the resolver, the broker and the gate do leaves the calibration alone, or
\* is a step of it.
LEMMA ChainStepsCalib == [Next]_vars => CalibNext \/ UNCHANGED calibState
<1> SUFFICES ASSUME [Next]_vars PROVE CalibNext \/ UNCHANGED calibState
  OBVIOUS
<1> USE DEF calibState
<1>1. CASE UNCHANGED vars
  BY <1>1 DEF vars, calibVars
<1>2. CASE Tick \/ ClockLost \/ ClockBack \/ PollRejected
  BY <1>2 DEF Tick, ClockLost, ClockBack, PollRejected, calibVars
<1>3. CASE \E reported \in Reports : Poll(reported)
  BY <1>3 DEF Poll, calibVars
<1>4. CASE StartService \/ ConnectService \/ CrashService \/ ApplyCalibration
  BY <1>4 DEF StartService, ConnectService, CrashService, ApplyCalibration, CalibNext
<1>5. CASE WillFires \/ CalibrationSteps
  BY <1>5 DEF WillFires, CalibrationSteps, CalibNext, calibVars
<1>6. CASE Deliver \/ Lose \/ Disconnect \/ Reconnect
  BY <1>6 DEF Deliver, Lose, Disconnect, Reconnect, calibVars
<1>7. CASE \E managed \in BOOLEAN : Reconcile(managed)
  BY <1>7 DEF Reconcile
<1>8. CASE VisibilityCamera \/ Admit
  BY <1>8 DEF VisibilityCamera, Admit, Use, calibVars
<1> QED
  BY <1>1, <1>2, <1>3, <1>4, <1>5, <1>6, <1>7, <1>8 DEF Next, ResolverNext

\* A publication replaces what is retained of its kind, and nothing else.
LEMMA PublishRetains ==
  ASSUME NEW m, Publish(m), Retains, m.kind \in {"pose", "status"}
  PROVE  /\ Retains'
         /\ m.kind = "pose" => retained'.pose = m
         /\ m.kind = "status" => retained'.pose = retained.pose
<1>1. retained' = [retained EXCEPT ![m.kind] = m]
  BY DEF Publish
<1> QED BY <1>1 DEF Retains

\* The poses that are made: of the present calibration, and valid only when that
\* one counts.
LEMMA PosesMade ==
  ASSUME [Next]_vars, Retains
  PROVE  /\ Retains'
         /\ retained'.pose # retained.pose =>
              /\ retained'.pose.version = calib
              /\ retained'.pose.valid => calib # NoCalib /\ ~pending
<1>1. CASE \E reported \in Reports : Poll(reported)
  <2>1. PICK reported \in Reports : Poll(reported)
    BY <1>1
  <2>2. PICK m : Publish([kind |-> "pose", seq |-> seq + 1, ts |-> now, valid |-> Valid(m),
                          version |-> calib, pos |-> posAt[now]])
    BY <2>1 DEF Poll, Accept
  <2> DEFINE pose == [kind |-> "pose", seq |-> seq + 1, ts |-> now, valid |-> Valid(m),
                      version |-> calib, pos |-> posAt[now]]
  <2>3. pose.kind = "pose" /\ pose.version = calib /\ pose.valid = Valid(m)
    OBVIOUS
  <2>4. Retains' /\ retained'.pose = pose
    BY <2>2, <2>3, PublishRetains
  <2> HIDE DEF pose
  <2> QED BY <2>3, <2>4 DEF Valid
<1>2. CASE ConnectService \/ WillFires
  <2>1. PICK on, t : Publish(Status(on, t))
    BY <1>2 DEF ConnectService, WillFires
  <2>2. Status(on, t).kind = "status"
    BY DEF Status
  <2> QED BY <2>1, <2>2, PublishRetains
<1>3. CASE UNCHANGED retained
  BY <1>3 DEF Retains
<1>4. \/ \E reported \in Reports : Poll(reported)
      \/ ConnectService \/ WillFires \/ UNCHANGED retained
  <2>1. CASE UNCHANGED vars
    BY <2>1 DEF vars, resolverVars, brokerVars
  <2>2. CASE Tick \/ ClockLost \/ ClockBack \/ PollRejected
    BY <2>2 DEF Tick, ClockLost, ClockBack, PollRejected, brokerVars
  <2>3. CASE StartService \/ CrashService \/ ApplyCalibration \/ CalibrationSteps
    BY <2>3 DEF StartService, CrashService, ApplyCalibration, CalibrationSteps, resolverVars,
                brokerVars
  <2>4. CASE Deliver \/ Lose \/ Disconnect \/ Reconnect
    BY <2>4 DEF Deliver, Lose, Disconnect, Reconnect
  <2>5. CASE \E managed \in BOOLEAN : Reconcile(managed)
    BY <2>5 DEF Reconcile
  <2>6. CASE VisibilityCamera \/ Admit
    BY <2>6 DEF VisibilityCamera, Admit, Use, resolverVars, brokerVars
  <2> QED BY <2>1, <2>2, <2>3, <2>4, <2>5, <2>6 DEF Next, ResolverNext
<1> QED BY <1>1, <1>2, <1>3, <1>4

LEMMA ChainInvHolds == Spec => []ChainInv
<1>1. Init => ChainInv
  BY CalibStarts DEF Init, ResolverInit, ChainInv, Retains
<1>2. ChainInv /\ [Next]_vars => ChainInv'
  BY ChainStepsCalib, CalibStep, CalibSame, PosesMade DEF ChainInv
<1> QED BY <1>1, <1>2, PTL DEF Spec

(* A pose that is made valid has a calibration read after the newest       *)
(* notice, however the reload, the notices and the samples interleave.     *)
THEOREM PosesAreCurrent == Spec => ValidPoseIsCurrent
<1>1. ChainInv /\ [Next]_vars =>
        [retained'.pose # retained.pose /\ retained'.pose.valid
           => retained'.pose.version >= noticed]_vars
  <2> SUFFICES ASSUME ChainInv, [Next]_vars, retained'.pose # retained.pose, retained'.pose.valid
               PROVE  retained'.pose.version >= noticed
    OBVIOUS
  <2>1. retained'.pose.version = calib /\ calib # NoCalib /\ ~pending
    BY PosesMade DEF ChainInv
  <2> QED BY <2>1 DEF ChainInv, CalibInv, ReadInv
<1> QED BY <1>1, ChainInvHolds, PTL DEF Spec, ValidPoseIsCurrent

(* In the chain too, a calibration that counts is never outdated.          *)
THEOREM ChainNeverOutdated == Spec => []CalibrationNotOutdated
<1>1. ChainInv => CalibrationNotOutdated
  BY DEF ChainInv, CalibInv, ReadInv, CalibrationNotOutdated
<1> QED BY <1>1, ChainInvHolds, PTL

-----------------------------------------------------------------------------
(* What is admitted was seen while the camera rested.                       *)

\* The camera was at x from a to b.
Rested(a, b, x) == \A t \in a..b : posAt[t] = x

\* Positions are never taken twice.
WorldInv ==
  /\ now \in Nat \ {0} /\ posAt \in Seq(Nat) /\ Len(posAt) = now
  /\ \A s, t \in 1..now : s <= t => posAt[s] <= posAt[t]

\* The shapes of the records that change field by field.
AsMotion(x) == x = [reading |-> x.reading, motion |-> x.motion, start |-> x.start,
                    known |-> x.known]
AsSource(x) == x = [lastSeq |-> x.lastSeq, lastTs |-> x.lastTs, m |-> x.m, skip |-> x.skip]
AsTracker(x) == x = [managed |-> TRUE, expected |-> x.expected, latest |-> x.latest,
                     since |-> x.since, dwell |-> x.dwell, session |-> x.session]

\* What the motion history of the source knows was sampled in this session.
SourceInv ==
  /\ AsSource(src) /\ AsMotion(src.m)
  /\ seq \in Nat /\ src.lastSeq \in 0..seq /\ src.lastTs \in 0..now /\ session \in 0..now
  /\ src.lastTs = now => polled
  /\ life = "loaded" => src.lastTs = 0
  /\ life = "online" /\ src.lastTs > 0 => session <= src.lastTs
  /\ src.m.start # 0 => src.m.reading # -1
  /\ src.m.reading # -1 =>
       src.lastTs > 0 /\ src.lastSeq > 0 /\ src.m.reading = posAt[src.lastTs] /\ calib # NoCalib

\* A pose and a status as they are published.
IsPose(m) == m.kind = "pose" /\ m.seq \in Nat /\ m.ts \in 1..now /\ m.pos = posAt[m.ts]
IsStatus(m) == m.kind = "status" /\ (m.online => m.ts \in 0..session)

\* Messages on the wire and kept by the broker.
BrokerInv ==
  /\ \E S : wire \in Seq(S)
  /\ \A i \in 1..Len(wire) : IsPose(wire[i]) \/ IsStatus(wire[i])
  /\ DOMAIN retained = {"pose", "status"}
  /\ retained.pose = NoMessage \/ IsPose(retained.pose)
  /\ retained.status = NoMessage \/ IsStatus(retained.status)
  /\ will \in 0..session

\* The dwell is the time in which the camera rested where the latest pose has it.
TrackerOK(g) ==
  /\ AsTracker(g) /\ g.session \in 0..session
  /\ g.latest = NoMessage \/ IsPose(g.latest)
  /\ g.dwell = NoMessage => g.since = 0
  /\ g.dwell # NoMessage =>
       /\ g.dwell = g.latest /\ g.dwell.valid
       /\ g.since \in 1..g.dwell.ts
       /\ Rested(g.since, g.dwell.ts, g.dwell.pos)
TrackerInv == (gate = Unmanaged /\ ~subscribed) \/ TrackerOK(gate)

LeftInv == left \in [Events -> Nat]

GateInv == WorldInv /\ SourceInv /\ BrokerInv /\ TrackerInv /\ LeftInv

\* If p is the pose after a, it says that the camera rested between the two.
Linked(a, p) == p.valid /\ p.seq = a.seq + 1 => Rested(a.ts, p.ts, p.pos)

\* The pose a may be the one the source has published last.
OfSession(a) ==
  a.seq <= src.lastSeq /\ (a.seq = src.lastSeq /\ src.lastTs > 0 => a.ts = src.lastTs)

\* One run of the service: every pose that can still be delivered or followed is of it.
Around ==
  {m \in {wire[i] : i \in 1..Len(wire)} \cup {retained.pose}
         \cup (IF gate.managed THEN {gate.latest} ELSE {}) : m.kind = "pose"}
OneRun ==
  /\ \A a \in Around : OfSession(a)
  /\ \A a, p \in Around : Linked(a, p)
  /\ \/ life = "down" /\ left["start"] \in {0, 1} /\ Around = {}
     \/ life # "down" /\ left["start"] = 0

\* A consumer that stays connected: the dwell and the messages on the wire, in order.
Stream == [i \in 0..Len(wire) |-> IF i = 0 THEN gate.dwell ELSE wire[i]]
SomePose(m) == m.kind = "pose"
SomeOnline(m) == m.kind = "status" /\ m.online
NoStatus(f, i, j) == \A k \in (i + 1)..(j - 1) : f[k].kind # "status"
InOrder(f, n) ==
  \A i, j \in 0..n : i < j =>
    /\ SomePose(f[i]) /\ SomeOnline(f[j]) => f[i].ts <= f[j].ts
    /\ SomeOnline(f[i]) /\ SomePose(f[j]) /\ f[j].valid => f[i].ts < f[j].ts
    /\ SomePose(f[i]) /\ SomePose(f[j]) /\ NoStatus(f, i, j) => Linked(f[i], f[j])
Latest(f, n) ==
  \A i \in 0..n : SomePose(f[i]) /\ NoStatus(f, i, n + 1) => OfSession(f[i])
Connected ==
  /\ left["disconnect"] = 0 /\ left["reconcile"] = 0 /\ subscribed /\ gate.managed
  /\ \A i \in 0..Len(wire) :
       SomePose(Stream[i]) /\ Stream[i].valid => gate.session < Stream[i].ts
  /\ InOrder(Stream, Len(wire))
  /\ life = "online" => Latest(Stream, Len(wire))

HeldInv == GateInv /\ (OneRun \/ Connected)

\* A message more on the wire, and one less.
LEMMA WireGrows ==
  ASSUME NEW w, \E S : w \in Seq(S), NEW m
  PROVE  /\ \E S : Append(w, m) \in Seq(S)
         /\ Len(w) \in Nat /\ Len(Append(w, m)) = Len(w) + 1
         /\ \A i \in 1..Len(w) : Append(w, m)[i] = w[i]
         /\ Append(w, m)[Len(w) + 1] = m
<1>1. PICK S : w \in Seq(S)
  OBVIOUS
<1>2. w \in Seq(S \cup {m})
  BY <1>1
<1>3. Append(w, m) \in Seq(S \cup {m})
  BY <1>2
<1> QED BY <1>2, <1>3

LEMMA WireShrinks ==
  ASSUME NEW w, \E S : w \in Seq(S), w # <<>>
  PROVE  /\ \E S : Tail(w) \in Seq(S)
         /\ Len(w) \in Nat \ {0} /\ Len(Tail(w)) = Len(w) - 1 /\ Head(w) = w[1]
         /\ \A i \in 1..Len(w) - 1 : Tail(w)[i] = w[i + 1]
<1>1. PICK S : w \in Seq(S)
  OBVIOUS
<1> QED BY <1>1

\* Time goes on and leaves the past as it was.
Later == now <= now' /\ \A t \in 1..now : posAt'[t] = posAt[t]

LEMMA WorldStep == WorldInv /\ [Next]_vars => WorldInv' /\ Later
<1> SUFFICES ASSUME WorldInv, [Next]_vars PROVE WorldInv' /\ Later
  OBVIOUS
<1>1. CASE UNCHANGED <<now, posAt>>
  BY <1>1 DEF WorldInv, Later
<1>2. CASE Tick
  <2>1. now' = now + 1 /\ now \in Nat \ {0} /\ posAt \in Seq(Nat) /\ Len(posAt) = now
    BY <1>2 DEF Tick, WorldInv
  <2>2. PICK p \in {posAt[now], posAt[now] + 1} : posAt' = Append(posAt, p)
    BY <1>2 DEF Tick
  <2>3. posAt[now] \in Nat /\ p \in Nat /\ posAt[now] <= p
    BY <2>1, <2>2
  <2>4. posAt' \in Seq(Nat) /\ Len(posAt') = now' /\ posAt'[now'] = p
        /\ \A t \in 1..now : posAt'[t] = posAt[t]
    BY <2>1, <2>2, <2>3
  <2>5. \A t \in 1..now : posAt[t] \in Nat /\ posAt[t] <= posAt[now]
    BY <2>1 DEF WorldInv
  <2>6. \A s, t \in 1..now' : s <= t => posAt'[s] <= posAt'[t]
    <3> SUFFICES ASSUME NEW s \in 1..now', NEW t \in 1..now', s <= t PROVE posAt'[s] <= posAt'[t]
      OBVIOUS
    <3>1. CASE t \in 1..now
      BY <2>1, <2>4, <3>1 DEF WorldInv
    <3>2. CASE t = now' /\ s \in 1..now
      BY <2>3, <2>4, <2>5, <3>2
    <3>3. CASE t = now' /\ s = now'
      BY <2>3, <2>4, <3>3
    <3> QED BY <2>1, <3>1, <3>2, <3>3
  <2> QED BY <2>1, <2>4, <2>6 DEF WorldInv, Later
<1>3. CASE \E reported \in Reports : Poll(reported)
  BY <1>1, <1>3 DEF Poll, worldVars
<1>4. CASE ClockLost \/ ClockBack \/ PollRejected \/ StartService \/ ConnectService \/ CrashService
  BY <1>1, <1>4 DEF ClockLost, ClockBack, PollRejected, StartService, ConnectService, CrashService, worldVars
<1>5. CASE WillFires \/ ApplyCalibration \/ CalibrationSteps
  BY <1>1, <1>5 DEF WillFires, ApplyCalibration, CalibrationSteps, resolverVars, worldVars
<1>6. CASE Deliver \/ Lose \/ Disconnect \/ Reconnect
  BY <1>1, <1>6 DEF Deliver, Lose, Disconnect, Reconnect, worldVars
<1>7. CASE (\E managed \in BOOLEAN : Reconcile(managed)) \/ VisibilityCamera \/ Admit \/ UNCHANGED vars
  BY <1>1, <1>7 DEF Reconcile, VisibilityCamera, Admit, Use, vars, resolverVars, worldVars
<1> QED
  BY <1>2, <1>3, <1>4, <1>5, <1>6, <1>7 DEF Next, ResolverNext

\* What a pose that is published tells.
Tells(p) ==
  /\ p.kind = "pose" /\ p.seq = seq + 1 /\ p.ts = now /\ p.pos = posAt[now]
  /\ src'.lastSeq = seq + 1 /\ src'.lastTs \in {0, now}
  /\ p.valid =>
       /\ src.lastSeq = seq /\ src.lastTs \in 1..now - 1 /\ session < now
       /\ Rested(src.lastTs, now, posAt[now])

\* A reading that has not changed since the last sample: the camera rested.
LEMMA SameReading ==
  ASSUME WorldInv, NEW t \in 1..now, posAt[t] = posAt[now]
  PROVE  Rested(t, now, posAt[now])
<1>1. now \in 1..now /\ posAt[now] \in Nat
  BY DEF WorldInv
<1> SUFFICES ASSUME NEW u \in t..now PROVE posAt[u] = posAt[now]
  BY DEF Rested
<1>2. u \in 1..now /\ posAt[u] \in Nat /\ t <= u /\ u <= now
  BY DEF WorldInv
<1>3. posAt[t] <= posAt[u] /\ posAt[u] <= posAt[now]
  BY <1>1, <1>2 DEF WorldInv
<1> QED BY <1>1, <1>2, <1>3

\* A sample becomes a pose; a valid one was preceded by another of this session,
\* with the same reading.
LEMMA PollSource ==
  ASSUME WorldInv, SourceInv, NEW reported, Poll(reported)
  PROVE  SourceInv' /\ \E p : Publish(p) /\ Tells(p)
<1>1. /\ life = "online" /\ ~polled /\ polled' = TRUE /\ seq' = seq + 1
      /\ UNCHANGED <<life, calib, now, posAt, session>>
  BY DEF Poll, calibVars, loadVars, worldVars
<1>2. /\ now \in Nat \ {0} /\ posAt[now] \in Nat
      /\ seq \in Nat /\ src.lastSeq \in 0..seq /\ src.lastTs \in 0..now - 1 /\ session \in 0..now
      /\ AsMotion(src.m)
  BY <1>1 DEF WorldInv, SourceInv
<1>3. PICK before : before = IF clockOk /\ Continues(src, seq + 1, now) THEN src.m ELSE NoMotion
  OBVIOUS
<1>4. PICK after : after = IF clockOk /\ calib # NoCalib
                           THEN Moved(before, posAt[now], now, reported) ELSE before
  OBVIOUS
<1>5. PICK p : p = [kind |-> "pose", seq |-> seq + 1, ts |-> now, valid |-> Valid(after),
                    version |-> calib, pos |-> posAt[now]]
  OBVIOUS
<1>6. /\ src' = [lastSeq |-> seq + 1, lastTs |-> IF clockOk THEN now ELSE 0, m |-> after,
                 skip |-> FALSE]
      /\ Publish(p)
  BY <1>3, <1>4, <1>5 DEF Poll, Accept
<1>7. p.kind = "pose" /\ p.seq = seq + 1 /\ p.ts = now /\ p.pos = posAt[now]
      /\ (p.valid <=> Valid(after))
  BY <1>5
<1>8. /\ src'.lastSeq = seq + 1 /\ src'.lastTs = (IF clockOk THEN now ELSE 0) /\ src'.m = after
      /\ AsSource(src')
  BY <1>6 DEF AsSource
<1>9. AsMotion(before) /\ AsMotion(after)
  BY <1>2, <1>3, <1>4 DEF AsMotion, NoMotion, Moved
<1>10. /\ before.start # 0 => before.reading # -1
       /\ before.reading # -1 =>
            /\ clockOk /\ calib # NoCalib /\ src.lastTs \in 1..now - 1 /\ src.lastSeq = seq
            /\ before.reading = posAt[src.lastTs]
  <2>1. CASE before = NoMotion
    BY <2>1 DEF NoMotion
  <2>2. CASE before = src.m /\ clockOk /\ Continues(src, seq + 1, now)
    <3>1. src.lastSeq > 0 => seq + 1 = src.lastSeq + 1
      BY <2>2 DEF Continues
    <3> QED BY <1>2, <2>2, <3>1 DEF SourceInv
  <2> QED BY <1>3, <2>1, <2>2
<1>11. CASE clockOk /\ calib # NoCalib
  <2>1. /\ after.reading = posAt[now] /\ after.start = (IF before.start = 0 THEN now ELSE before.start)
        /\ (before.reading # -1 /\ before.reading # posAt[now] => after.motion = now)
    BY <1>4, <1>11 DEF Moved
  <2>2. ASSUME Valid(after)
        PROVE  /\ src.lastSeq = seq /\ src.lastTs \in 1..now - 1
               /\ Rested(src.lastTs, now, posAt[now])
    <3>1. after.motion # now /\ after.start <= now - Settle
      BY <2>2 DEF Valid, Settled
    <3>2. before.start # 0
      BY <1>2, <2>1, <3>1, ResolverAssumption
    <3>3. before.reading = posAt[now] /\ before.reading # -1
      BY <1>10, <2>1, <3>1, <3>2
    <3>4. src.lastTs \in 1..now /\ posAt[src.lastTs] = posAt[now]
      BY <1>2, <1>10, <3>3
    <3> QED BY <1>10, <3>3, <3>4, SameReading
  <2>3. SourceInv'
    BY <1>1, <1>2, <1>8, <1>9, <1>11, <2>1 DEF SourceInv
  <2>4. Tells(p)
    <3>1. p.valid => src.lastTs > 0 /\ session < now
      BY <1>1, <1>2, <1>7, <2>2 DEF SourceInv
    <3> QED BY <1>7, <1>8, <1>11, <2>2, <3>1 DEF Tells
  <2> QED BY <1>6, <2>3, <2>4
<1>12. CASE ~(clockOk /\ calib # NoCalib)
  <2>1. ~Valid(after) /\ after.reading = -1 /\ after.start = 0
    BY <1>4, <1>10, <1>12 DEF Valid
  <2>2. SourceInv'
    BY <1>1, <1>2, <1>8, <1>9, <2>1 DEF SourceInv
  <2>3. Tells(p)
    BY <1>7, <1>8, <2>1 DEF Tells
  <2> QED BY <1>6, <2>2, <2>3
<1> QED BY <1>11, <1>12

\* The steps that the source has no part in.
Elsewhere == UNCHANGED <<src, seq, session, polled, life, calib, now, posAt>>

LEMMA ElsewhereSteps ==
  ASSUME \/ ClockLost \/ ClockBack \/ WillFires \/ CalibrationSteps \/ UNCHANGED vars
         \/ Deliver \/ Lose \/ Disconnect \/ Reconnect
         \/ (\E managed \in BOOLEAN : Reconcile(managed)) \/ VisibilityCamera \/ Admit
  PROVE  Elsewhere
<1> USE DEF Elsewhere, calibVars, loadVars, resolverVars, worldVars, pollVars, brokerVars
<1>1. CASE ClockLost \/ ClockBack \/ WillFires
  BY <1>1 DEF ClockLost, ClockBack, WillFires
<1>2. CASE CalibrationSteps
  BY <1>2 DEF CalibrationSteps, Save, TakeRequest, BeginReload, FullRefresh, Load, LoadFails,
              OnCameraConfig
<1>3. CASE UNCHANGED vars
  BY <1>3 DEF vars
<1>4. CASE Deliver \/ Lose \/ Disconnect \/ Reconnect
  BY <1>4 DEF Deliver, Lose, Disconnect, Reconnect
<1>5. CASE \E managed \in BOOLEAN : Reconcile(managed)
  BY <1>5 DEF Reconcile
<1>6. CASE VisibilityCamera \/ Admit
  BY <1>6 DEF VisibilityCamera, Admit, Use
<1> QED BY <1>1, <1>2, <1>3, <1>4, <1>5, <1>6

LEMMA SourceStep == WorldInv /\ SourceInv /\ [Next]_vars => SourceInv'
<1> SUFFICES ASSUME WorldInv, SourceInv, [Next]_vars PROVE SourceInv'
  OBVIOUS
<1>0. /\ now \in Nat \ {0} /\ seq \in Nat /\ src.lastSeq \in 0..seq /\ src.lastTs \in 0..now
      /\ session \in 0..now /\ AsSource(src) /\ AsMotion(src.m)
  BY DEF WorldInv, SourceInv
<1>a. AsSource(NewSource) /\ NewSource.lastTs = 0 /\ NewSource.lastSeq = 0
      /\ NewSource.m = NoMotion
  BY DEF AsSource, NewSource
<1>b. AsMotion(NoMotion) /\ NoMotion.start = 0 /\ NoMotion.reading = -1
  BY DEF AsMotion, NoMotion
<1>1. CASE Elsewhere
  BY <1>1 DEF Elsewhere, SourceInv
<1>2. CASE Tick
  <2>1. /\ now' = now + 1 /\ UNCHANGED <<src, seq, session, life, calib>>
        /\ \A t \in 1..now : posAt'[t] = posAt[t]
    BY <1>2, WorldStep DEF Tick, calibVars, loadVars, brokerVars, Next, ResolverNext, Later
  <2> QED BY <1>0, <2>1 DEF SourceInv
<1>3. CASE \E reported \in Reports : Poll(reported)
  BY <1>3, PollSource
<1>4. CASE PollRejected
  <2>1. seq' = seq + 1 /\ polled' = TRUE /\ UNCHANGED <<src, session, life, calib, now, posAt>>
    BY <1>4 DEF PollRejected, loadVars, brokerVars, worldVars
  <2> QED BY <1>0, <2>1 DEF SourceInv
<1>5. CASE StartService
  <2>1. /\ seq' = 0 /\ src' = NewSource /\ life' = "loaded"
        /\ UNCHANGED <<session, polled, now, posAt>>
    BY <1>5 DEF StartService, Start, StartUnread, Restarts, brokerVars, worldVars
  <2> QED BY <1>0, <1>a, <1>b, <2>1 DEF SourceInv
<1>6. CASE ConnectService
  <2>1. /\ life = "loaded" /\ life' = "online" /\ session' = now
        /\ UNCHANGED <<src, seq, polled, calib, now, posAt>>
    BY <1>6 DEF ConnectService, Connect, loadVars, pollVars, worldVars
  <2> QED BY <1>0, <2>1 DEF SourceInv
<1>7. CASE CrashService
  <2>1. life' = "down" /\ UNCHANGED <<src, seq, session, polled, calib, now, posAt>>
    BY <1>7 DEF CrashService, Crash, loadVars, pollVars, worldVars
  <2> QED BY <1>0, <2>1 DEF SourceInv
<1>8. CASE ApplyCalibration
  <2>1. UNCHANGED <<seq, session, polled, life, now, posAt>>
    BY <1>8 DEF ApplyCalibration, Apply, brokerVars, pollVars, worldVars
  <2>2. CASE src' = src /\ calib' = calib
    BY <2>1, <2>2 DEF SourceInv
  <2>3. CASE ~Stale /\ reload.read = calib
    <3>1. calib' = calib
      BY <1>8, <2>3 DEF ApplyCalibration, Apply
    <3>2. AsSource(src') /\ src'.lastSeq = src.lastSeq /\ src'.lastTs = src.lastTs /\ src'.m = src.m
      BY <1>0, <1>8, <2>3 DEF ApplyCalibration, AsSource
    <3> QED BY <2>1, <3>1, <3>2 DEF SourceInv
  <2>4. CASE ~Stale /\ reload.read # calib
    <3>1. AsSource(src') /\ src'.lastSeq = src.lastSeq /\ src'.lastTs = src.lastTs /\ src'.m = NoMotion
      BY <1>0, <1>8, <2>4 DEF ApplyCalibration, AsSource
    <3> QED BY <1>0, <1>b, <2>1, <3>1 DEF SourceInv
  <2> QED BY <1>8, <2>2, <2>3, <2>4 DEF ApplyCalibration, Apply
<1> QED
  BY <1>1, <1>2, <1>3, <1>4, <1>5, <1>6, <1>7, <1>8, ElsewhereSteps DEF Next, ResolverNext

-----------------------------------------------------------------------------
(* Messages.                                                                *)

\* Messages keep saying what they say, as sessions only get later.
LEMMA SessionLater == WorldInv /\ SourceInv /\ [Next]_vars => session <= session'
<1> SUFFICES ASSUME WorldInv, SourceInv, [Next]_vars PROVE session <= session'
  OBVIOUS
<1>0. session \in Nat /\ session <= now
  BY DEF WorldInv, SourceInv
<1>1. CASE ConnectService
  BY <1>0, <1>1 DEF ConnectService
<1>2. CASE session' = session
  BY <1>0, <1>2
<1>3. CASE Tick \/ PollRejected \/ StartService \/ CrashService \/ ApplyCalibration
           \/ \E reported \in Reports : Poll(reported)
  BY <1>2, <1>3 DEF Tick, PollRejected, StartService, CrashService, ApplyCalibration, Poll, brokerVars
<1>4. CASE Elsewhere
  BY <1>2, <1>4 DEF Elsewhere
<1> QED BY <1>1, <1>3, <1>4, ElsewhereSteps DEF Next, ResolverNext

LEMMA MessagesKept ==
  ASSUME WorldInv, SourceInv, [Next]_vars
  PROVE  \A m : (IsPose(m) => IsPose(m)') /\ (IsStatus(m) => IsStatus(m)')
<1>1. session <= session' /\ Later /\ session \in Nat /\ session' \in Nat /\ now \in Nat
      /\ now' \in Nat
  BY SessionLater, WorldStep, SourceStep DEF SourceInv, WorldInv
<1> QED BY <1>1 DEF IsPose, IsStatus, Later


IsMessage(m) == IsPose(m) \/ IsStatus(m)
WireOK == (\E S : wire \in Seq(S)) /\ \A i \in 1..Len(wire) : IsMessage(wire[i])
RetainedOK ==
  /\ DOMAIN retained = {"pose", "status"}
  /\ retained.pose = NoMessage \/ IsPose(retained.pose)
  /\ retained.status = NoMessage \/ IsStatus(retained.status)

LEMMA BrokerParts == BrokerInv <=> WireOK /\ RetainedOK /\ will \in 0..session
  BY DEF BrokerInv, WireOK, RetainedOK, IsMessage

\* What was said of the messages can still be said of them.
LEMMA MessagesStay ==
  ASSUME WireOK, RetainedOK, \A m : (IsPose(m) => IsPose(m)') /\ (IsStatus(m) => IsStatus(m)')
  PROVE  /\ wire' = wire => WireOK'
         /\ retained' = retained => RetainedOK'
<1>1. ASSUME wire' = wire PROVE WireOK'
  <2>1. ASSUME NEW i \in 1..Len(wire') PROVE IsMessage(wire[i])'
    <3>1. PICK k : k = wire[i] /\ k = wire'[i]
      BY <1>1
    <3>2. IsMessage(k)'
      BY <1>1, <3>1 DEF WireOK, IsMessage
    <3> QED BY <3>1, <3>2
  <2> QED BY <1>1, <2>1 DEF WireOK
<1>2. ASSUME retained' = retained PROVE RetainedOK'
  <2>1. PICK p, s : p = retained.pose /\ s = retained.status /\ p = retained'.pose /\ s = retained'.status
    BY <1>2
  <2>2. (p = NoMessage \/ IsPose(p)') /\ (s = NoMessage \/ IsStatus(s)')
    BY <2>1 DEF RetainedOK
  <2> QED BY <1>2, <2>1, <2>2 DEF RetainedOK
<1> QED BY <1>1, <1>2

\* A message is published.
LEMMA PublishKeeps ==
  ASSUME WireOK, RetainedOK, \A m : (IsPose(m) => IsPose(m)') /\ (IsStatus(m) => IsStatus(m)'),
         NEW m, Publish(m), IsMessage(m)'
  PROVE  WireOK' /\ RetainedOK'
<1>1. wire' = (IF subscribed THEN Append(wire, m) ELSE wire)
      /\ retained' = [retained EXCEPT ![m.kind] = m]
  BY DEF Publish
<1>2. ASSUME ~subscribed PROVE WireOK'
  BY <1>1, <1>2, MessagesStay
<1>3. ASSUME subscribed PROVE WireOK'
  <2>1. /\ \E S : wire' \in Seq(S)
        /\ Len(wire) \in Nat /\ Len(wire') = Len(wire) + 1
        /\ \A i \in 1..Len(wire) : wire'[i] = wire[i]
        /\ wire'[Len(wire) + 1] = m
    <3>1. PICK S : wire \in Seq(S)
      BY DEF WireOK
    <3>2. wire' = Append(wire, m)
      BY <1>1, <1>3
    <3>3. wire' \in Seq(S \cup {m})
      BY <3>1, <3>2
    <3>4. /\ Len(wire) \in Nat /\ Len(wire') = Len(wire) + 1
          /\ \A i \in 1..Len(wire) : wire'[i] = wire[i]
          /\ wire'[Len(wire) + 1] = m
      BY <3>1, <3>2
    <3> QED BY <3>3, <3>4, Zenon
  <2>2. ASSUME NEW i \in 1..Len(wire') PROVE IsMessage(wire[i])'
    <3>1. PICK k : k = wire'[i]
      OBVIOUS
    <3>2. CASE i = Len(wire) + 1
      BY <2>1, <3>1, <3>2
    <3>3. CASE i \in 1..Len(wire)
      <4>1. k = wire[i]
        BY <2>1, <3>1, <3>3
      <4>2. IsMessage(k)'
        BY <3>3, <4>1 DEF WireOK, IsMessage
      <4> QED BY <3>1, <4>2
    <3> QED BY <2>1, <3>2, <3>3
  <2> QED BY <2>1, <2>2 DEF WireOK
<1>4. WireOK'
  BY <1>2, <1>3
<1>5. CASE m.kind = "pose"
  <2>1. PICK s : s = retained.status
    OBVIOUS
  <2>2. retained'.pose = m /\ retained'.status = s /\ DOMAIN retained' = {"pose", "status"}
    BY <1>1, <1>5, <2>1 DEF RetainedOK
  <2>3. IsPose(m)' /\ (s = NoMessage \/ IsStatus(s)')
    BY <1>5, <2>1 DEF IsMessage, IsStatus, RetainedOK
  <2> QED BY <1>4, <2>2, <2>3 DEF RetainedOK
<1>6. CASE m.kind = "status"
  <2>1. PICK p : p = retained.pose
    OBVIOUS
  <2>2. retained'.status = m /\ retained'.pose = p /\ DOMAIN retained' = {"pose", "status"}
    BY <1>1, <1>6, <2>1 DEF RetainedOK
  <2>3. IsStatus(m)' /\ (p = NoMessage \/ IsPose(p)')
    BY <1>6, <2>1 DEF IsMessage, IsPose, RetainedOK
  <2> QED BY <1>4, <2>2, <2>3 DEF RetainedOK
<1> QED BY <1>4, <1>5, <1>6 DEF IsMessage, IsPose, IsStatus

\* A message leaves the wire.
LEMMA TailKeeps ==
  ASSUME WireOK, \A m : (IsPose(m) => IsPose(m)') /\ (IsStatus(m) => IsStatus(m)'),
         wire # <<>>, wire' = Tail(wire)
  PROVE  WireOK'
<1>1. /\ \E S : wire' \in Seq(S)
      /\ Len(wire) \in Nat \ {0} /\ Len(wire') = Len(wire) - 1
      /\ \A i \in 1..Len(wire) - 1 : wire'[i] = wire[i + 1]
  BY WireShrinks DEF WireOK
<1>2. ASSUME NEW i \in 1..Len(wire') PROVE IsMessage(wire[i])'
  <2>1. PICK k : k = wire'[i]
    OBVIOUS
  <2>2. k = wire[i + 1] /\ i + 1 \in 1..Len(wire)
    BY <1>1, <2>1
  <2>3. IsMessage(k)'
    BY <2>2 DEF WireOK, IsMessage
  <2> QED BY <2>1, <2>3
<1> QED BY <1>1, <1>2 DEF WireOK

\* A subscription gets what the broker has.
LEMMA SubscribeKeeps ==
  ASSUME RetainedOK, \A m : (IsPose(m) => IsPose(m)') /\ (IsStatus(m) => IsStatus(m)'), Subscribe
  PROVE  WireOK' /\ \A i \in 1..Len(wire') : wire'[i] \in Retained
<1>1. IsFiniteSet(Retained)
  <2>1. IsFiniteSet({retained.pose, retained.status})
    <3>1. IsFiniteSet({}) /\ IsFiniteSet({} \cup {retained.pose})
      BY FS_EmptySet, FS_AddElement
    <3>2. IsFiniteSet(({} \cup {retained.pose}) \cup {retained.status})
      BY <3>1, FS_AddElement
    <3>3. ({} \cup {retained.pose}) \cup {retained.status} = {retained.pose, retained.status}
      OBVIOUS
    <3> QED BY <3>2, <3>3
  <2>2. Retained \subseteq {retained.pose, retained.status}
    BY DEF Retained
  <2> QED BY <2>1, <2>2, FS_Subset
<1>2. PICK n \in Nat : n = Cardinality(Retained)
  BY <1>1, FS_CardinalityType
<1>3. wire' \in [1..n -> Retained]
  BY <1>2 DEF Subscribe, SetToSeqs
<1>4. wire' \in Seq(Retained) /\ Len(wire') = n
  BY <1>3
<1>5. ASSUME NEW i \in 1..Len(wire') PROVE IsMessage(wire[i])' /\ wire'[i] \in Retained
  <2>1. PICK k : k = wire'[i] /\ k \in Retained
    BY <1>3, <1>4
  <2>2. IsMessage(k)'
    BY <2>1 DEF Retained, RetainedOK, IsMessage
  <2> QED BY <2>1, <2>2
<1> QED BY <1>4, <1>5 DEF WireOK

LEMMA BrokerStep == WorldInv /\ SourceInv /\ BrokerInv /\ [Next]_vars => BrokerInv'
<1> SUFFICES ASSUME WorldInv, SourceInv, BrokerInv, [Next]_vars PROVE BrokerInv'
  OBVIOUS
<1>1. WireOK /\ RetainedOK /\ \A m : (IsPose(m) => IsPose(m)') /\ (IsStatus(m) => IsStatus(m)')
  BY BrokerParts, MessagesKept
<1>2. /\ now \in Nat \ {0} /\ now' \in Nat /\ session \in 0..now /\ session' \in Nat /\ session <= session'
      /\ will \in 0..session /\ WorldInv' /\ SourceInv'
  BY BrokerParts, WorldStep, SourceStep, SessionLater DEF WorldInv, SourceInv
<1>3. will' = will => will' \in 0..session'
  BY <1>2
<1>4. WireOK' /\ RetainedOK' /\ will' \in 0..session' => BrokerInv'
  BY DEF BrokerInv, WireOK, RetainedOK, IsMessage
<1>5. CASE UNCHANGED <<wire, retained>> /\ will' \in 0..session'
  BY <1>1, <1>4, <1>5, MessagesStay
<1>6. CASE \E reported \in Reports : Poll(reported)
  <2>1. PICK reported \in Reports : Poll(reported)
    BY <1>6
  <2>2. PICK p : Publish(p) /\ Tells(p)
    BY <2>1, PollSource
  <2>3. IsPose(p)
    BY <1>2, <2>2 DEF Tells, IsPose, SourceInv
  <2>4. will' = will
    BY <2>1 DEF Poll
  <2> QED BY <1>1, <1>3, <1>4, <2>2, <2>3, <2>4, PublishKeeps DEF IsMessage
<1>7. CASE ConnectService
  <2>1. PICK s : s = Status(TRUE, now) /\ Publish(s)
    BY <1>7 DEF ConnectService
  <2>2. session' = now /\ will' = will
    BY <1>7 DEF ConnectService
  <2>3. IsStatus(s)'
    BY <1>2, <2>1, <2>2 DEF IsStatus, Status
  <2> QED BY <1>1, <1>3, <1>4, <2>1, <2>2, <2>3, PublishKeeps DEF IsMessage
<1>8. CASE WillFires
  <2>1. PICK s : s = Status(FALSE, will) /\ Publish(s)
    BY <1>8 DEF WillFires
  <2>2. will' = 0
    BY <1>8 DEF WillFires
  <2>3. IsStatus(s)'
    BY <2>1 DEF IsStatus, Status
  <2>4. will' \in 0..session'
    BY <1>2, <2>2
  <2> QED BY <1>1, <1>4, <2>1, <2>3, <2>4, PublishKeeps DEF IsMessage
<1>9. CASE CrashService
  BY <1>2, <1>5, <1>9 DEF CrashService
<1>10. CASE Tick \/ ClockLost \/ ClockBack \/ PollRejected \/ StartService
            \/ ApplyCalibration \/ CalibrationSteps
  BY <1>3, <1>5, <1>10 DEF Tick, ClockLost, ClockBack, PollRejected, StartService,
     ApplyCalibration, CalibrationSteps, resolverVars, brokerVars
<1>11. CASE Deliver \/ Lose
  <2>1. wire # <<>> /\ wire' = Tail(wire) /\ UNCHANGED <<retained, will>>
    BY <1>11 DEF Deliver, Lose
  <2> QED BY <1>1, <1>3, <1>4, <2>1, TailKeeps, MessagesStay
<1>12. ASSUME Subscribe, UNCHANGED <<retained, will>> PROVE BrokerInv'
  BY <1>1, <1>3, <1>4, <1>12, SubscribeKeeps, MessagesStay
<1>13. ASSUME wire' = <<>>, UNCHANGED <<retained, will>> PROVE BrokerInv'
  <2>1. WireOK'
    BY <1>13 DEF WireOK
  <2> QED BY <1>1, <1>3, <1>4, <1>13, <2>1, MessagesStay
<1>14. CASE Disconnect \/ Reconnect \/ \E managed \in BOOLEAN : Reconcile(managed)
  BY <1>3, <1>5, <1>12, <1>13, <1>14 DEF Disconnect, Reconnect, Reconcile
<1>15. CASE VisibilityCamera \/ Admit \/ UNCHANGED vars
  BY <1>3, <1>5, <1>15 DEF VisibilityCamera, Admit, Use, vars, resolverVars, brokerVars
<1> QED
  BY <1>6, <1>7, <1>8, <1>9, <1>10, <1>11, <1>14, <1>15 DEF Next, ResolverNext

-----------------------------------------------------------------------------
(* The dwell tracker.                                                       *)

LEMMA ResetTracker ==
  ASSUME NEW g, AsTracker(g)
  PROVE  /\ AsTracker(Reset(g)) /\ Reset(g).dwell = NoMessage /\ Reset(g).latest = g.latest
         /\ Reset(g).session = g.session /\ Reset(g).since = 0 /\ Reset(g).expected = g.expected
<1>1. PICK e, l, s, d, n : g = [managed |-> TRUE, expected |-> e, latest |-> l, since |-> s,
                                dwell |-> d, session |-> n]
  BY DEF AsTracker
<1>2. Reset(g) = [managed |-> TRUE, expected |-> e, latest |-> l, since |-> 0,
                  dwell |-> NoMessage, session |-> n]
  <2>1. PICK h : h = [g EXCEPT !.since = 0]
    OBVIOUS
  <2>2. h = [managed |-> TRUE, expected |-> e, latest |-> l, since |-> 0, dwell |-> d,
             session |-> n]
    BY <1>1, <2>1
  <2>3. Reset(g) = [h EXCEPT !.dwell = NoMessage]
    BY <2>1, Zenon DEF Reset
  <2> QED BY <2>2, <2>3
<1>3. g.latest = l /\ g.session = n /\ g.expected = e
  BY <1>1
<1>4. ASSUME NEW r, r = [managed |-> TRUE, expected |-> e, latest |-> l, since |-> 0,
                         dwell |-> NoMessage, session |-> n]
      PROVE  /\ AsTracker(r) /\ r.dwell = NoMessage /\ r.latest = l
             /\ r.session = n /\ r.since = 0 /\ r.expected = e
  BY <1>4 DEF AsTracker
<1> QED BY <1>2, <1>3, <1>4

\* A pose ends the dwell, begins one or carries it on.
LEMMA OnPoseDwell ==
  ASSUME NEW g, AsTracker(g), NEW p, p # NoMessage,
         g.dwell # NoMessage => g.dwell = g.latest, g.dwell = NoMessage => g.since = 0
  PROVE  /\ AsTracker(OnPose(g, p)) /\ OnPose(g, p).latest = p
         /\ OnPose(g, p).session = g.session
         /\ \/ OnPose(g, p).dwell = NoMessage /\ OnPose(g, p).since = 0
            \/ /\ OnPose(g, p).dwell = p /\ p.valid
               /\ \/ OnPose(g, p).since = p.ts
                  \/ /\ g.dwell # NoMessage /\ Follows(p, g.latest)
                     /\ OnPose(g, p).since = g.since
<1> DEFINE Carries(x) == /\ AsTracker(x) /\ x.session = g.session
                         /\ x.dwell = NoMessage => x.since = 0
                         /\ x.dwell # NoMessage =>
                              g.dwell # NoMessage /\ x.since = g.since /\ Follows(p, g.latest)
<1>1. PICK h : h = (IF Follows(p, g.latest) THEN g ELSE Reset(g))
  OBVIOUS
<1>2. Carries(h)
  <2>1. CASE Follows(p, g.latest)
    BY <1>1, <2>1
  <2>2. CASE ~Follows(p, g.latest)
    BY <1>1, <2>2, ResetTracker
  <2> QED BY <2>1, <2>2
<1>3. PICK g1 : g1 = [h EXCEPT !.latest = p]
  OBVIOUS
<1>4. Carries(g1) /\ g1.latest = p
  <2>1. PICK e, l, s, d, n : h = [managed |-> TRUE, expected |-> e, latest |-> l, since |-> s,
                                  dwell |-> d, session |-> n]
    BY <1>2 DEF AsTracker
  <2>2. g1 = [managed |-> TRUE, expected |-> e, latest |-> p, since |-> s, dwell |-> d,
              session |-> n]
    BY <1>3, <2>1
  <2>3. h.session = n /\ h.dwell = d /\ h.since = s
    BY <2>1
  <2>4. AsTracker(g1) /\ g1.latest = p /\ g1.session = n /\ g1.dwell = d /\ g1.since = s
    BY <2>2 DEF AsTracker
  <2> QED BY <1>2, <2>3, <2>4
<1>5. PICK g2 : g2 = IF g1.dwell # NoMessage /\ g1.dwell.version # p.version THEN Reset(g1) ELSE g1
  OBVIOUS
<1>6. Carries(g2) /\ g2.latest = p
  <2>1. CASE g2 = g1
    BY <1>4, <2>1
  <2>2. CASE g2 = Reset(g1)
    BY <1>4, <2>2, ResetTracker
  <2> QED BY <1>5, <2>1, <2>2
<1>7. OnPose(g, p) = IF p.valid /\ p.version = g.expected
                     THEN [g2 EXCEPT !.dwell = p, !.since = IF @ = 0 THEN p.ts ELSE @]
                     ELSE Reset(g1)
  BY <1>1, <1>3, <1>5 DEF OnPose
<1>8. CASE p.valid /\ p.version = g.expected
  <2>1. PICK e, s, d, n : g2 = [managed |-> TRUE, expected |-> e, latest |-> p, since |-> s,
                                dwell |-> d, session |-> n]
    BY <1>6 DEF AsTracker
  <2>2. OnPose(g, p) = [managed |-> TRUE, expected |-> e, latest |-> p,
                        since |-> IF s = 0 THEN p.ts ELSE s, dwell |-> p, session |-> n]
    BY <1>7, <1>8, <2>1
  <2>3. /\ OnPose(g, p).latest = p /\ OnPose(g, p).session = n /\ OnPose(g, p).dwell = p
        /\ OnPose(g, p).since = (IF s = 0 THEN p.ts ELSE s) /\ AsTracker(OnPose(g, p))
    BY <2>2 DEF AsTracker
  <2>4. g2.session = n /\ g2.dwell = d /\ g2.since = s
    BY <2>1
  <2> QED BY <1>6, <1>8, <2>3, <2>4
<1>9. CASE ~(p.valid /\ p.version = g.expected)
  <2>1. OnPose(g, p) = Reset(g1)
    BY <1>7, <1>9
  <2> HIDE DEF Carries
  <2>2. AsTracker(g1) /\ g1.latest = p /\ g1.session = g.session
    BY <1>4 DEF Carries
  <2> QED BY <2>1, <2>2, ResetTracker
<1> QED BY <1>8, <1>9

LEMMA OnStatusDwell ==
  ASSUME NEW g, AsTracker(g), NEW s
  PROVE  /\ AsTracker(OnStatus(g, s)) /\ OnStatus(g, s).latest = g.latest
         /\ OnStatus(g, s).session = (IF s.online THEN s.ts ELSE 0)
         /\ \/ OnStatus(g, s).dwell = NoMessage /\ OnStatus(g, s).since = 0
            \/ /\ OnStatus(g, s).dwell = g.dwell /\ OnStatus(g, s).since = g.since
               /\ s.online /\ s.ts = g.session
<1>1. PICK of : of = IF s.online THEN s.ts ELSE 0
  OBVIOUS
<1>2. PICK h : h = IF s.online /\ of = g.session THEN g ELSE Reset(g)
  OBVIOUS
<1>3. /\ AsTracker(h) /\ h.latest = g.latest
      /\ \/ h.dwell = NoMessage /\ h.since = 0
         \/ h.dwell = g.dwell /\ h.since = g.since /\ s.online /\ s.ts = g.session
  <2>1. CASE s.online /\ of = g.session
    BY <1>1, <1>2, <2>1
  <2>2. CASE ~(s.online /\ of = g.session)
    BY <1>2, <2>2, ResetTracker
  <2> QED BY <2>1, <2>2
<1>4. PICK r : r = [h EXCEPT !.session = of]
  OBVIOUS
<1>5. OnStatus(g, s) = r
  BY <1>1, <1>2, <1>4, Zenon DEF OnStatus
<1>6. PICK e, l, a, d, n : h = [managed |-> TRUE, expected |-> e, latest |-> l, since |-> a,
                                dwell |-> d, session |-> n]
  BY <1>3 DEF AsTracker
<1>7. r = [managed |-> TRUE, expected |-> e, latest |-> l, since |-> a, dwell |-> d,
           session |-> of]
  BY <1>4, <1>6
<1>8. AsTracker(r) /\ r.latest = h.latest /\ r.dwell = h.dwell /\ r.since = h.since
      /\ r.session = of
  BY <1>6, <1>7 DEF AsTracker
<1> QED BY <1>1, <1>3, <1>5, <1>8

\* A tracker is left as it was.
LEMMA TrackerStays ==
  ASSUME NEW g, WorldInv, WorldInv', Later, session \in Nat, session' \in Nat,
         session <= session', TrackerOK(g)
  PROVE  TrackerOK(g)'
<1>1. now \in Nat /\ now' \in Nat /\ now <= now' /\ session \in Nat /\ session' \in Nat
  BY DEF WorldInv, Later
<1>2. AsTracker(g) /\ (g.session \in 0..session')
  BY <1>1 DEF TrackerOK
<1>3. ASSUME NEW m, IsPose(m) PROVE IsPose(m)' /\ m.ts \in 1..now
  BY <1>1, <1>3 DEF IsPose, Later
<1>4. ASSUME g.dwell # NoMessage
      PROVE  Rested(g.since, g.dwell.ts, g.dwell.pos)'
  <2>1. IsPose(g.dwell) /\ g.since \in 1..g.dwell.ts /\ Rested(g.since, g.dwell.ts, g.dwell.pos)
    BY <1>4 DEF TrackerOK
  <2>2. g.dwell.ts \in 1..now
    BY <1>3, <2>1
  <2> QED BY <1>1, <2>1, <2>2 DEF Rested, Later
<1> QED BY <1>2, <1>3, <1>4 DEF TrackerOK

LEMMA ResetStays ==
  ASSUME NEW g, TrackerOK(g) PROVE TrackerOK(Reset(g))
<1>1. PICK r : r = Reset(g)
  OBVIOUS
<1>2. /\ AsTracker(r) /\ r.dwell = NoMessage /\ r.latest = g.latest
      /\ r.session = g.session /\ r.since = 0
  BY <1>1, ResetTracker DEF TrackerOK
<1>3. TrackerOK(r)
  BY <1>2 DEF TrackerOK
<1> QED BY <1>1, <1>3

\* A pose that is linked to the dwell leaves a dwell of poses at rest.
LEMMA OnPoseStays ==
  ASSUME NEW g, NEW p, WorldInv, TrackerOK(g), IsPose(p),
         g.dwell # NoMessage => Linked(g.dwell, p)
  PROVE  TrackerOK(OnPose(g, p))
<1>1. PICK r : r = OnPose(g, p)
  OBVIOUS
<1>2. p # NoMessage
  BY DEF IsPose, NoMessage
<1>3. /\ AsTracker(r) /\ r.latest = p /\ r.session = g.session
      /\ \/ r.dwell = NoMessage /\ r.since = 0
         \/ /\ r.dwell = p /\ p.valid
            /\ \/ r.since = p.ts
               \/ g.dwell # NoMessage /\ Follows(p, g.latest) /\ r.since = g.since
  BY <1>1, <1>2, OnPoseDwell DEF TrackerOK
<1>4. p.ts \in 1..now /\ now \in Nat /\ p.pos = posAt[p.ts]
  BY DEF IsPose, WorldInv
<1>5. ASSUME r.since = p.ts
      PROVE  r.since \in 1..p.ts /\ Rested(r.since, p.ts, p.pos)
  BY <1>4, <1>5 DEF Rested
<1>6. ASSUME g.dwell # NoMessage, Follows(p, g.latest), r.since = g.since, p.valid
      PROVE  r.since \in 1..p.ts /\ Rested(r.since, p.ts, p.pos)
  <2>1. /\ IsPose(g.dwell) /\ g.dwell = g.latest /\ g.since \in 1..g.dwell.ts
        /\ Rested(g.since, g.dwell.ts, g.dwell.pos)
    BY <1>6 DEF TrackerOK
  <2>2. p.seq = g.dwell.seq + 1 /\ p.ts > g.dwell.ts
    BY <1>6, <2>1 DEF Follows
  <2>3. Rested(g.dwell.ts, p.ts, p.pos)
    BY <1>6, <2>2 DEF Linked
  <2>4. g.dwell.ts \in 1..now /\ posAt[g.dwell.ts] = g.dwell.pos
    BY <2>1 DEF IsPose
  <2>5. g.dwell.pos = p.pos
    BY <1>4, <2>2, <2>3, <2>4 DEF Rested
  <2> QED BY <1>4, <1>6, <2>1, <2>2, <2>3, <2>4, <2>5 DEF Rested
<1>7. TrackerOK(r)
  <2>1. CASE r.dwell = NoMessage /\ r.since = 0
    BY <1>3, <2>1 DEF TrackerOK
  <2>2. CASE r.dwell = p /\ p.valid /\ r.since \in 1..p.ts /\ Rested(r.since, p.ts, p.pos)
    BY <1>2, <1>3, <2>2 DEF TrackerOK
  <2> QED BY <1>3, <1>5, <1>6, <2>1, <2>2
<1> QED BY <1>1, <1>7

LEMMA OnStatusStays ==
  ASSUME NEW g, NEW s, session \in Nat, TrackerOK(g), IsStatus(s)
  PROVE  TrackerOK(OnStatus(g, s))
<1>1. PICK r : r = OnStatus(g, s)
  OBVIOUS
<1>2. /\ AsTracker(r) /\ r.latest = g.latest /\ r.session = (IF s.online THEN s.ts ELSE 0)
      /\ \/ r.dwell = NoMessage /\ r.since = 0
         \/ r.dwell = g.dwell /\ r.since = g.since
  BY <1>1, OnStatusDwell DEF TrackerOK
<1>3. r.session \in 0..session
  BY <1>2 DEF IsStatus
<1>4. TrackerOK(r)
  BY <1>2, <1>3 DEF TrackerOK
<1> QED BY <1>1, <1>4

\* Deliver takes the first message; the other steps leave the tracker, make a
\* new one, or end its dwell.
LEMMA GateSteps ==
  [Next]_vars =>
    \/ UNCHANGED <<gate, subscribed>>
    \/ Deliver
    \/ UNCHANGED gate /\ Disconnect
    \/ UNCHANGED gate /\ Reconnect
    \/ gate' = Unmanaged /\ ~subscribed'
    \/ gate' = NewTracker(mver)
    \/ gate.managed /\ UNCHANGED subscribed
       /\ (gate' = gate \/ gate' = [Reset(gate) EXCEPT !.expected = mver])
<1> SUFFICES ASSUME [Next]_vars
    PROVE  \/ UNCHANGED <<gate, subscribed>>
           \/ Deliver
           \/ UNCHANGED gate /\ Disconnect
           \/ UNCHANGED gate /\ Reconnect
           \/ gate' = Unmanaged /\ ~subscribed'
           \/ gate' = NewTracker(mver)
           \/ gate.managed /\ UNCHANGED subscribed
              /\ (gate' = gate \/ gate' = [Reset(gate) EXCEPT !.expected = mver])
  OBVIOUS
<1>1. CASE ResolverNext /\ UNCHANGED gateVars
  <2>1. UNCHANGED subscribed
    BY <1>1 DEF ResolverNext, Tick, ClockLost, ClockBack, Poll, PollRejected, StartService,
       ConnectService, CrashService, WillFires, ApplyCalibration, CalibrationSteps,
       resolverVars, brokerVars
  <2> QED BY <1>1, <2>1 DEF gateVars
<1>2. CASE Lose \/ VisibilityCamera \/ Admit \/ UNCHANGED vars
  BY <1>2 DEF Lose, VisibilityCamera, Admit, Use, vars, resolverVars, brokerVars, gateVars
<1>3. CASE Deliver \/ Disconnect \/ Reconnect
  BY <1>3 DEF Disconnect, Reconnect, gateVars
<1>4. CASE \E managed \in BOOLEAN : Reconcile(managed)
  BY <1>4, Zenon DEF Reconcile, Subscribe
<1> QED BY <1>1, <1>2, <1>3, <1>4 DEF Next

LEMMA TrackerStep ==
  ASSUME WorldInv, WorldInv', Later, session \in Nat, session' \in Nat, session <= session',
         BrokerInv, TrackerInv, [Next]_vars,
         \A p : wire # <<>> /\ p = wire[1] /\ IsPose(p)
                /\ TrackerOK(gate) /\ gate.dwell # NoMessage => Linked(gate.dwell, p)
  PROVE  TrackerInv'
<1> PICK g : g = gate
  OBVIOUS
<1> PICK h : h = gate'
  OBVIOUS
<1>1. ASSUME TrackerOK(h) PROVE TrackerInv'
  <2>1. TrackerOK(h)'
    BY <1>1, TrackerStays
  <2> QED BY <2>1 DEF TrackerInv
<1>2. CASE gate = Unmanaged /\ ~subscribed
  <2>1. ~g.managed /\ ~subscribed
    BY <1>2 DEF Unmanaged
  <2>2. CASE UNCHANGED <<gate, subscribed>> \/ (gate' = Unmanaged /\ ~subscribed')
    BY <1>2, <2>2 DEF TrackerInv
  <2>3. CASE gate' = NewTracker(mver)
    <3>1. AsTracker(h) /\ h.session = 0 /\ h.latest = NoMessage /\ h.since = 0 /\ h.dwell = NoMessage
      BY <2>3 DEF NewTracker, AsTracker
    <3>2. TrackerOK(h)
      BY <3>1 DEF TrackerOK
    <3> QED BY <1>1, <3>2
  <2> QED BY <2>1, <2>2, <2>3, GateSteps DEF Deliver, Disconnect, Reconnect
<1>3. CASE TrackerOK(g)
  <2>1. CASE UNCHANGED gate
    BY <1>1, <1>3, <2>1
  <2>2. CASE gate' = Unmanaged /\ ~subscribed'
    BY <2>2 DEF TrackerInv
  <2>3. CASE gate' = NewTracker(mver)
    <3>1. AsTracker(h) /\ h.session = 0 /\ h.latest = NoMessage /\ h.since = 0 /\ h.dwell = NoMessage
      BY <2>3 DEF NewTracker, AsTracker
    <3>2. TrackerOK(h)
      BY <3>1 DEF TrackerOK
    <3> QED BY <1>1, <3>2
  <2>4. CASE gate' = [Reset(gate) EXCEPT !.expected = mver]
    <3>1. PICK r : r = Reset(g)
      OBVIOUS
    <3>2. TrackerOK(r) /\ r.dwell = NoMessage
      BY <1>3, <3>1, ResetStays, ResetTracker DEF TrackerOK
    <3>3. PICK e, l, a, d, n : r = [managed |-> TRUE, expected |-> e, latest |-> l, since |-> a,
                                    dwell |-> d, session |-> n]
      BY <3>2 DEF TrackerOK, AsTracker
    <3>4. h = [r EXCEPT !.expected = mver]
      BY <2>4, <3>1
    <3>5. h = [managed |-> TRUE, expected |-> mver, latest |-> l, since |-> a,
               dwell |-> d, session |-> n]
      BY <3>3, <3>4
    <3>6. AsTracker(h) /\ h.latest = r.latest /\ h.since = r.since /\ h.dwell = r.dwell
          /\ h.session = r.session
      BY <3>3, <3>5 DEF AsTracker
    <3>7. TrackerOK(h)
      BY <3>2, <3>6 DEF TrackerOK
    <3> QED BY <1>1, <3>7
  <2>5. CASE Deliver
    <3>1. PICK m : m = Head(wire)
      OBVIOUS
    <3>2. wire # <<>> /\ h = (IF m.kind = "pose" THEN OnPose(g, m) ELSE OnStatus(g, m))
      BY <2>5, <3>1 DEF Deliver
    <3>3. m = wire[1] /\ (IsPose(m) \/ IsStatus(m))
      <4>1. Len(wire) \in Nat \ {0} /\ Head(wire) = wire[1]
        BY <3>2, WireShrinks DEF BrokerInv
      <4> QED BY <3>1, <4>1 DEF BrokerInv
    <3>4. CASE m.kind = "pose"
      <4>1. IsPose(m)
        BY <3>3, <3>4 DEF IsStatus
      <4>2. g.dwell # NoMessage => Linked(g.dwell, m)
        BY <1>3, <3>2, <3>3, <4>1
      <4>3. TrackerOK(h)
        BY <1>3, <3>2, <3>4, <4>1, <4>2, OnPoseStays
      <4> QED BY <1>1, <4>3
    <3>5. CASE m.kind # "pose"
      <4>1. IsStatus(m)
        BY <3>3, <3>5 DEF IsPose
      <4>2. TrackerOK(h)
        BY <1>3, <3>2, <3>5, <4>1, OnStatusStays
      <4> QED BY <1>1, <4>2
    <3> QED BY <3>4, <3>5
  <2> QED BY <2>1, <2>2, <2>3, <2>4, <2>5, GateSteps
<1> QED BY <1>2, <1>3 DEF TrackerInv

-----------------------------------------------------------------------------
(* What is left of the scenario.                                            *)

LEMMA Spends ==
  ASSUME LeftInv, NEW e \in Events, Spend(e)
  PROVE  /\ LeftInv' /\ left'[e] = left[e] - 1
         /\ \A f \in Events \ {e} : left'[f] = left[f]
  BY DEF LeftInv, Spend

\* A scenario is used up; only the service's start uses up its starts.
LEMMA LeftStep ==
  ASSUME LeftInv, [Next]_vars
  PROVE  /\ LeftInv' /\ left'["disconnect"] <= left["disconnect"]
         /\ left'["reconcile"] <= left["reconcile"]
         /\ ~StartService => left'["start"] = left["start"]
         /\ StartService => left["start"] > 0 /\ left'["start"] = left["start"] - 1
<1> DEFINE Used == /\ LeftInv' /\ left'["disconnect"] <= left["disconnect"]
                   /\ left'["reconcile"] <= left["reconcile"]
                   /\ left'["start"] = left["start"]
<1>0. /\ left["disconnect"] \in Nat /\ left["reconcile"] \in Nat /\ left["start"] \in Nat
      /\ {"start", "disconnect", "reconcile", "badload"} \subseteq Events
  BY DEF LeftInv, Events
<1>1. ASSUME NEW e \in Events \ {"start"}, Spend(e) PROVE Used
  <2>1. /\ LeftInv' /\ left'[e] = left[e] - 1 /\ e # "start"
        /\ \A f \in Events \ {e} : left'[f] = left[f]
    BY <1>1, Spends
  <2> QED BY <1>0, <2>1
<1>2. ASSUME UNCHANGED left PROVE Used
  BY <1>0, <1>2 DEF LeftInv
<1> HIDE DEF Used
<1>3. CASE StartService
  <2>1. CASE Spend("start")
    <3>1. left["start"] > 0
      BY <2>1 DEF Spend
    <3>2. /\ LeftInv' /\ left'["start"] = left["start"] - 1
          /\ \A f \in Events \ {"start"} : left'[f] = left[f]
      BY <1>0, <2>1, Spends
    <3>3. left'["disconnect"] = left["disconnect"] /\ left'["reconcile"] = left["reconcile"]
      BY <1>0, <3>2
    <3> QED BY <1>0, <1>3, <3>1, <3>2, <3>3
  <2>2. CASE left' = [left EXCEPT !.start = @ - 1, !.badload = @ - 1]
             /\ left.start > 0 /\ left.badload > 0
    <3>1. PICK l : l = [left EXCEPT !.start = @ - 1]
      OBVIOUS
    <3>2. l \in [Events -> Nat] /\ l["disconnect"] = left["disconnect"]
          /\ l["reconcile"] = left["reconcile"] /\ l["badload"] > 0
          /\ l["start"] = left["start"] - 1 /\ left["start"] > 0
      BY <1>0, <2>2, <3>1 DEF LeftInv
    <3>3. left' = [l EXCEPT !.badload = @ - 1]
      BY <2>2, <3>1, Zenon
    <3> QED BY <1>0, <1>3, <3>2, <3>3 DEF LeftInv
  <2> QED BY <1>3, <2>1, <2>2 DEF StartService, Start, StartUnread
<1>4. ASSUME CalibrationSteps PROVE Used
  <2>1. CASE Spend("save") \/ Spend("badload") \/ UNCHANGED left
    BY <1>1, <1>2, <2>1 DEF Events
  <2>2. Spend("save") \/ Spend("badload") \/ UNCHANGED left
    BY <1>4 DEF CalibrationSteps, Save, TakeRequest, BeginReload, FullRefresh, Load, LoadFails,
       OnCameraConfig, Reads
  <2> QED BY <2>1, <2>2
<1>5. ASSUME ClockLost \/ PollRejected \/ Lose \/ Disconnect \/ \E managed \in BOOLEAN : Reconcile(managed)
      PROVE  Used
  <2>1. Spend("clock") \/ Spend("reject") \/ Spend("lose") \/ Spend("disconnect") \/ Spend("reconcile")
    BY <1>5 DEF ClockLost, PollRejected, Lose, Disconnect, Reconcile
  <2> QED BY <1>1, <2>1 DEF Events
<1>6. ASSUME \/ Tick \/ ClockBack \/ (\E reported \in Reports : Poll(reported)) \/ WillFires
             \/ ConnectService \/ CrashService \/ ApplyCalibration
      PROVE  Used
  <2>1. UNCHANGED left
    BY <1>6 DEF Tick, ClockBack, Poll, WillFires, ConnectService, CrashService, ApplyCalibration,
       Connect, Crash, Apply, calibVars
  <2> QED BY <1>2, <2>1
<1>7. ASSUME Deliver \/ Reconnect \/ VisibilityCamera \/ Admit \/ UNCHANGED vars PROVE Used
  <2>1. UNCHANGED left
    BY <1>7 DEF Deliver, Reconnect, VisibilityCamera, Admit, Use, vars, calibVars
  <2> QED BY <1>2, <2>1
<1>8. CASE ~StartService
  <2>1. Used
    BY <1>4, <1>5, <1>6, <1>7, <1>8 DEF Next, ResolverNext
  <2> QED BY <1>8, <2>1 DEF Used
<1> QED BY <1>3, <1>8

\* The life of the service.
LEMMA LifeStep ==
  ASSUME [Next]_vars
  PROVE  \/ life' = life
         \/ StartService /\ life = "down" /\ life' = "loaded"
         \/ ConnectService /\ life = "loaded" /\ life' = "online"
         \/ CrashService /\ life # "down" /\ life' = "down" /\ left["start"] > 0
<1>1. CASE StartService
  BY <1>1 DEF StartService, Start, StartUnread, Restarts
<1>2. CASE ConnectService
  BY <1>2 DEF ConnectService, Connect
<1>3. CASE CrashService
  BY <1>3 DEF CrashService, Crash
<1>4. CASE Tick \/ PollRejected \/ ApplyCalibration \/ \E reported \in Reports : Poll(reported)
  BY <1>4 DEF Tick, PollRejected, ApplyCalibration, Poll, Apply, calibVars
<1>5. CASE Elsewhere
  BY <1>5 DEF Elsewhere
<1> QED BY <1>1, <1>2, <1>3, <1>4, <1>5, ElsewhereSteps DEF Next, ResolverNext

\* A sample leaves the gate alone.
LEMMA PollsOnly ==
  ASSUME [Next]_vars, NEW reported, Poll(reported)
  PROVE  UNCHANGED gateVars
<1>1. ~Elsewhere
  BY DEF Elsewhere, Poll
<1>2. ResolverNext /\ UNCHANGED gateVars
  BY <1>1, ElsewhereSteps DEF Next
<1> QED BY <1>2

-----------------------------------------------------------------------------
(* Poses that follow one another.                                           *)

\* What was said of two poses can still be said of them.
LEMMA LinkedStays ==
  ASSUME WorldInv, Later, NEW a, NEW p, IsPose(a), IsPose(p), Linked(a, p)
  PROVE  Linked(a, p)'
  BY DEF WorldInv, Later, IsPose, Linked, Rested

\* A new pose is linked to every pose the source may have published last.
LEMMA PollLinks ==
  ASSUME WorldInv, SourceInv, UNCHANGED posAt, NEW a, NEW p, IsPose(a), OfSession(a), Tells(p)
  PROVE  Linked(a, p)' /\ Linked(p, a)' /\ Linked(p, p)' /\ OfSession(a)' /\ OfSession(p)'
<1>1. /\ a.seq \in Nat /\ a.seq <= src.lastSeq /\ src.lastSeq \in Nat /\ seq \in Nat
      /\ src.lastSeq <= seq
  BY DEF SourceInv, IsPose, OfSession
<1>2. p.seq = seq + 1 /\ p.ts = now /\ p.pos = posAt[now] /\ src'.lastSeq = seq + 1
      /\ src'.lastTs \in {0, now}
  BY DEF Tells
<1>3. Linked(a, p)'
  <2> SUFFICES ASSUME p.valid, p.seq = a.seq + 1 PROVE \A t \in a.ts..p.ts : posAt'[t] = p.pos
    BY DEF Linked, Rested
  <2>1. src.lastSeq = seq /\ src.lastTs > 0 /\ Rested(src.lastTs, now, posAt[now])
    BY DEF Tells
  <2>2. a.ts = src.lastTs
    BY <1>1, <1>2, <2>1 DEF OfSession
  <2> QED BY <1>2, <2>1, <2>2 DEF Rested
<1>4. Linked(p, a)' /\ Linked(p, p)'
  BY <1>1, <1>2 DEF Linked
<1>5. OfSession(a)' /\ OfSession(p)'
  BY <1>1, <1>2 DEF OfSession
<1> QED BY <1>3, <1>4, <1>5

\* Only a sample and a start change what the source has published.
LEMMA SourceStays ==
  ASSUME SourceInv, [Next]_vars, ~StartService, ~\E reported \in Reports : Poll(reported)
  PROVE  src'.lastSeq = src.lastSeq /\ src'.lastTs = src.lastTs
<1>1. CASE ApplyCalibration
  <2>1. CASE src' = src
    BY <2>1
  <2>2. CASE src' = [src EXCEPT !.skip = FALSE]
    BY <2>2 DEF SourceInv, AsSource
  <2>3. CASE src' = [src EXCEPT !.m = NoMotion, !.skip = @ \/ src.lastSeq > 0]
    <3>1. PICK x : x = [src EXCEPT !.m = NoMotion]
      OBVIOUS
    <3>2. x.lastSeq = src.lastSeq /\ x.lastTs = src.lastTs
          /\ x = [lastSeq |-> x.lastSeq, lastTs |-> x.lastTs, m |-> x.m, skip |-> x.skip]
      BY <3>1 DEF SourceInv, AsSource
    <3>3. PICK v : v = (src.skip \/ src.lastSeq > 0)
      OBVIOUS
    <3>4. x.skip = src.skip
      BY <3>1 DEF SourceInv, AsSource
    <3>5. src' = [x EXCEPT !.skip = @ \/ src.lastSeq > 0]
      BY <2>3, <3>1, Zenon
    <3>6. src' = [x EXCEPT !.skip = v]
      BY <3>3, <3>4, <3>5
    <3> QED BY <3>2, <3>6
  <2> QED BY <1>1, <2>1, <2>2, <2>3 DEF ApplyCalibration
<1>2. CASE Tick \/ PollRejected \/ ConnectService \/ CrashService
  <2>1. src' = src
    BY <1>2 DEF Tick, PollRejected, ConnectService, CrashService
  <2> QED BY <2>1
<1>3. CASE Elsewhere
  BY <1>3 DEF Elsewhere
<1> QED BY <1>1, <1>2, <1>3, ElsewhereSteps DEF Next, ResolverNext

LEMMA SessionStays ==
  ASSUME SourceInv, [Next]_vars, ~StartService, ~(\E reported \in Reports : Poll(reported)),
         NEW a, OfSession(a)
  PROVE  OfSession(a)'
  BY SourceStays DEF OfSession

-----------------------------------------------------------------------------
(* One run of the service.                                                  *)

InAround(m) ==
  /\ m.kind = "pose"
  /\ \/ \E i \in 1..Len(wire) : wire[i] = m
     \/ m = retained.pose
     \/ gate.managed /\ m = gate.latest

LEMMA AroundIs == \A m : m \in Around <=> InAround(m)
<1> TAKE m
<1>1. ASSUME m \in Around PROVE InAround(m)
  BY <1>1 DEF Around, InAround
<1>2. ASSUME InAround(m) PROVE m \in Around
  BY <1>2 DEF Around, InAround
<1> QED BY <1>1, <1>2

LEMMA AroundPoses ==
  ASSUME BrokerInv, TrackerInv, NEW m, InAround(m)
  PROVE  IsPose(m)
<1>1. m # NoMessage
  BY DEF InAround, NoMessage
<1>2. CASE \E i \in 1..Len(wire) : wire[i] = m
  BY <1>2 DEF BrokerInv, InAround, IsStatus
<1>3. CASE m = retained.pose
  BY <1>1, <1>3 DEF BrokerInv
<1>4. CASE gate.managed /\ m = gate.latest
  BY <1>1, <1>4 DEF TrackerInv, TrackerOK, Unmanaged
<1> QED BY <1>2, <1>3, <1>4 DEF InAround

\* The message that is published is the only one to join the others.
LEMMA PublishAround ==
  ASSUME BrokerInv, NEW p, Publish(p), p.kind \in {"pose", "status"}, UNCHANGED gate,
         NEW m, InAround(m)'
  PROVE  InAround(m) \/ m = p
<1>1. wire' = (IF subscribed THEN Append(wire, p) ELSE wire)
      /\ retained' = [retained EXCEPT ![p.kind] = p]
      /\ DOMAIN retained = {"pose", "status"}
  BY DEF Publish, BrokerInv
<1>2. ASSUME m = retained'.pose PROVE m = p \/ m = retained.pose
  BY <1>1, <1>2
<1>3. ASSUME NEW i \in 1..Len(wire'), wire'[i] = m
      PROVE  m = p \/ \E k \in 1..Len(wire) : wire[k] = m
  <2>1. CASE subscribed
    <3>1. /\ Len(wire) \in Nat /\ Len(wire') = Len(wire) + 1
          /\ \A k \in 1..Len(wire) : wire'[k] = wire[k]
          /\ wire'[Len(wire) + 1] = p
      BY <1>1, <2>1, WireGrows DEF BrokerInv
    <3> QED BY <1>3, <3>1
  <2>2. CASE ~subscribed
    BY <1>1, <1>3, <2>2
  <2> QED BY <2>1, <2>2
<1> QED BY <1>2, <1>3 DEF InAround

\* What the tracker takes for the latest pose.
LEMMA LatestStep ==
  ASSUME BrokerInv, TrackerInv, [Next]_vars, gate'.managed, gate'.latest.kind = "pose"
  PROVE  \/ gate.managed /\ gate'.latest = gate.latest
         \/ wire # <<>> /\ gate'.latest = wire[1]
<1> PICK g : g = gate
  OBVIOUS
<1> PICK h : h = gate'
  OBVIOUS
<1>0. h.managed /\ h.latest # NoMessage
  BY DEF NoMessage
<1>1. CASE UNCHANGED gate
  BY <1>1
<1>2. CASE gate' = Unmanaged
  BY <1>0, <1>2 DEF Unmanaged
<1>3. CASE gate' = NewTracker(mver)
  BY <1>0, <1>3 DEF NewTracker
<1>4. CASE gate.managed /\ gate' = [Reset(gate) EXCEPT !.expected = mver]
  <2>1. TrackerOK(g)
    BY <1>4 DEF TrackerInv, Unmanaged
  <2>2. PICK r : r = Reset(g)
    OBVIOUS
  <2>3. AsTracker(r) /\ r.latest = g.latest
    BY <2>1, <2>2, ResetTracker DEF TrackerOK
  <2>4. h = [r EXCEPT !.expected = mver]
    BY <1>4, <2>2
  <2>5. PICK e, l, a, d, n : r = [managed |-> TRUE, expected |-> e, latest |-> l, since |-> a,
                                  dwell |-> d, session |-> n]
    BY <2>3 DEF AsTracker
  <2>6. h.latest = r.latest
    BY <2>4, <2>5
  <2> QED BY <1>4, <2>3, <2>6
<1>5. CASE Deliver
  <2>1. TrackerOK(g) /\ g.managed
    <3>1. TrackerOK(g) /\ AsTracker(g)
      BY <1>5 DEF Deliver, TrackerInv, TrackerOK
    <3>2. PICK e, l, a, d, n : g = [managed |-> TRUE, expected |-> e, latest |-> l, since |-> a,
                                    dwell |-> d, session |-> n]
      BY <3>1 DEF AsTracker
    <3> QED BY <3>1, <3>2
  <2>2. PICK m : m = Head(wire)
    OBVIOUS
  <2>3. wire # <<>> /\ h = (IF m.kind = "pose" THEN OnPose(g, m) ELSE OnStatus(g, m))
    BY <1>5, <2>2 DEF Deliver
  <2>4. m = wire[1]
    BY <2>2, <2>3, WireShrinks DEF BrokerInv
  <2>5. CASE m.kind = "pose"
    <3>1. m # NoMessage
      BY <2>5 DEF NoMessage
    <3>2. h.latest = m
      BY <2>1, <2>3, <2>5, <3>1, OnPoseDwell DEF TrackerOK
    <3> QED BY <2>3, <2>4, <3>2
  <2>6. CASE m.kind # "pose"
    <3>1. AsTracker(g) /\ h = OnStatus(g, m)
      BY <2>1, <2>3, <2>6 DEF TrackerOK
    <3>2. OnStatus(g, m).latest = g.latest
      BY <3>1, OnStatusDwell, Zenon
    <3> QED BY <2>1, <3>1, <3>2, Zenon
  <2> QED BY <2>5, <2>6
<1> QED BY <1>1, <1>2, <1>3, <1>4, <1>5, GateSteps

\* Only a sample makes a pose.
LEMMA AroundStep ==
  ASSUME WorldInv, SourceInv, BrokerInv, TrackerInv, [Next]_vars,
         ~\E reported \in Reports : Poll(reported),
         NEW m, InAround(m)'
  PROVE  InAround(m)
<1>0. WireOK /\ RetainedOK /\ (\A k : (IsPose(k) => IsPose(k)') /\ (IsStatus(k) => IsStatus(k)'))
  BY BrokerParts, MessagesKept
<1>1. m.kind = "pose" /\ m # NoMessage
  BY DEF InAround, NoMessage
<1>2. CASE gate'.managed /\ m = gate'.latest
  <2>1. CASE gate.managed /\ m = gate.latest
    BY <1>1, <2>1 DEF InAround
  <2>2. CASE wire # <<>> /\ m = wire[1]
    <3>1. Len(wire) \in Nat \ {0}
      BY <2>2, WireShrinks DEF BrokerInv
    <3> QED BY <1>1, <2>2, <3>1 DEF InAround
  <2> QED BY <1>1, <1>2, <2>1, <2>2, LatestStep
<1>3. CASE (ConnectService \/ WillFires) /\ UNCHANGED gateVars
  <2>1. PICK s : Publish(s) /\ s.kind = "status"
    BY <1>3 DEF ConnectService, WillFires, Status
  <2>2. UNCHANGED gate
    BY <1>3 DEF gateVars
  <2>3. InAround(m) \/ m = s
    BY <2>1, <2>2, PublishAround
  <2> QED BY <1>1, <2>1, <2>3
<1>4. ASSUME m = retained'.pose, UNCHANGED retained PROVE InAround(m)
  BY <1>1, <1>4 DEF InAround
<1>5. ASSUME NEW i \in 1..Len(wire'), wire'[i] = m, UNCHANGED wire PROVE InAround(m)
  BY <1>1, <1>5 DEF InAround
<1>6. CASE UNCHANGED <<wire, retained>>
  BY <1>2, <1>4, <1>5, <1>6 DEF InAround
<1>7. CASE wire' = <<>> /\ UNCHANGED retained
  BY <1>2, <1>4, <1>7 DEF InAround
<1>8. CASE Deliver \/ Lose
  <2>1. wire # <<>> /\ wire' = Tail(wire) /\ UNCHANGED retained
    BY <1>8 DEF Deliver, Lose
  <2>2. /\ Len(wire) \in Nat \ {0} /\ Len(wire') = Len(wire) - 1
        /\ \A i \in 1..Len(wire) - 1 : wire'[i] = wire[i + 1]
    BY <2>1, WireShrinks DEF BrokerInv
  <2>3. ASSUME NEW i \in 1..Len(wire'), wire'[i] = m PROVE InAround(m)
    <3>1. i + 1 \in 1..Len(wire) /\ wire[i + 1] = m
      BY <2>2, <2>3
    <3> QED BY <1>1, <3>1 DEF InAround
  <2> QED BY <1>2, <1>4, <2>1, <2>3 DEF InAround
<1>9. CASE Subscribe /\ UNCHANGED retained
  <2>1. \A i \in 1..Len(wire') : wire'[i] \in Retained
    BY <1>0, <1>9, SubscribeKeeps
  <2>2. ASSUME NEW i \in 1..Len(wire'), wire'[i] = m PROVE InAround(m)
    <3>1. m = retained.pose \/ m = retained.status
      BY <2>1, <2>2 DEF Retained
    <3>2. m # retained.status
      BY <1>0, <1>1 DEF RetainedOK, IsStatus
    <3> QED BY <1>1, <3>1, <3>2 DEF InAround
  <2> QED BY <1>2, <1>4, <1>9, <2>2 DEF InAround
<1>10. CASE Disconnect \/ Reconnect \/ \E managed \in BOOLEAN : Reconcile(managed)
  BY <1>6, <1>7, <1>9, <1>10 DEF Disconnect, Reconnect, Reconcile
<1>11. CASE Tick \/ ClockLost \/ ClockBack \/ PollRejected \/ StartService \/ CrashService
            \/ ApplyCalibration \/ CalibrationSteps
  BY <1>6, <1>11 DEF Tick, ClockLost, ClockBack, PollRejected, StartService, CrashService,
     ApplyCalibration, CalibrationSteps, resolverVars, brokerVars
<1>12. CASE VisibilityCamera \/ Admit \/ UNCHANGED vars
  BY <1>6, <1>12 DEF VisibilityCamera, Admit, Use, vars, resolverVars, brokerVars
<1> QED BY <1>3, <1>8, <1>10, <1>11, <1>12 DEF Next, ResolverNext

\* A service that is not started again keeps to one run.
LEMMA OneRunStep ==
  ASSUME WorldInv, SourceInv, BrokerInv, TrackerInv, LeftInv, OneRun, [Next]_vars
  PROVE  OneRun'
<1>0. /\ Later /\ LeftInv' /\ (~StartService => left'["start"] = left["start"])
  BY WorldStep, LeftStep
<1>1. /\ \A a : InAround(a) => OfSession(a) /\ IsPose(a)
      /\ \A a, p : InAround(a) /\ InAround(p) => Linked(a, p)
      /\ \/ life = "down" /\ left["start"] \in {0, 1} /\ \A a : ~InAround(a)
         \/ life # "down" /\ left["start"] = 0
  BY AroundIs, AroundPoses DEF OneRun
<1>2. ASSUME /\ \A a : InAround(a)' => OfSession(a)'
             /\ \A a, p : InAround(a)' /\ InAround(p)' => Linked(a, p)'
             /\ \/ life' = "down" /\ left'["start"] \in {0, 1} /\ \A a : ~InAround(a)'
                \/ life' # "down" /\ left'["start"] = 0
      PROVE  OneRun'
  <2>1. (\A m : m \in Around <=> InAround(m))'
    BY AroundIs, PTL
  <2> QED BY <1>2, <2>1 DEF OneRun
<1>3. CASE \E reported \in Reports : Poll(reported) /\ UNCHANGED gateVars
  <2>1. PICK reported \in Reports : Poll(reported) /\ UNCHANGED gateVars
    BY <1>3
  <2>2. PICK p : Publish(p) /\ Tells(p)
    BY <2>1, PollSource
  <2>3. p.kind = "pose" /\ UNCHANGED <<gate, posAt, life, left>> /\ life = "online"
    BY <2>1, <2>2 DEF Tells, gateVars, Poll, worldVars, calibVars
  <2>4. ASSUME NEW a, InAround(a)' PROVE InAround(a) \/ a = p
    BY <2>2, <2>3, <2>4, PublishAround
  <2>5. ASSUME NEW a, InAround(a)
        PROVE  Linked(a, p)' /\ Linked(p, a)' /\ Linked(p, p)' /\ OfSession(a)' /\ OfSession(p)'
    BY <1>1, <2>2, <2>3, <2>5, PollLinks
  <2>6. OfSession(p)' /\ Linked(p, p)'
    BY <2>2 DEF Tells, OfSession, Linked, SourceInv
  <2>7. \A a, q : InAround(a) /\ InAround(q) => Linked(a, q)'
    BY <1>0, <1>1, LinkedStays
  <2>8. \A a : InAround(a)' => OfSession(a)'
    BY <2>4, <2>5, <2>6
  <2>9. \A a, q : InAround(a)' /\ InAround(q)' => Linked(a, q)'
    BY <2>4, <2>5, <2>6, <2>7
  <2> QED BY <1>1, <1>2, <2>3, <2>8, <2>9
<1>4. CASE ~\E reported \in Reports : Poll(reported)
  <2>1. \A a : InAround(a)' => InAround(a)
    BY <1>4, AroundStep
  <2>2. \A a, q : InAround(a)' /\ InAround(q)' => Linked(a, q)'
    BY <1>0, <1>1, <2>1, LinkedStays
  <2>3. CASE StartService
    <3>1. life = "down" /\ life' = "loaded" /\ left["start"] \in {0, 1}
      BY <1>1, <2>3 DEF StartService, Start, StartUnread, Restarts
    <3>2. left'["start"] = 0
      <4>1. left["start"] > 0 /\ left'["start"] = left["start"] - 1
        BY <2>3, LeftStep
      <4> QED BY <3>1, <4>1
    <3> QED BY <1>1, <1>2, <2>1, <2>2, <3>1, <3>2
  <2>4. CASE ~StartService
    <3>1. \A a : InAround(a)' => OfSession(a)'
      BY <1>1, <1>4, <2>1, <2>4, SessionStays
    <3>2. left'["start"] = left["start"]
      BY <1>0, <2>4
    <3>3. CASE life' = "down" /\ life = "down"
      BY <1>1, <1>2, <2>1, <2>2, <3>1, <3>2, <3>3
    <3>4. CASE life' # "down" /\ life # "down"
      BY <1>1, <1>2, <2>1, <2>2, <3>1, <3>2, <3>4
    <3>5. CASE CrashService
      BY <1>1, <3>5 DEF CrashService, Crash
    <3>6. ASSUME ~CrashService PROVE life' = "down" <=> life = "down"
      BY <2>4, <3>6, LifeStep
    <3> QED BY <3>3, <3>4, <3>5, <3>6
  <2> QED BY <2>3, <2>4
<1> QED BY <1>3, <1>4, PollsOnly

-----------------------------------------------------------------------------
(* A consumer that stays connected.                                         *)

\* The first message is taken, or lost behind the dwell.
LEMMA StreamShifts ==
  ASSUME NEW n \in Nat, NEW f, NEW h, \A i \in 1..n : h[i] = f[i + 1],
         h[0] = NoMessage \/ h[0] = f[1] \/ (h[0] = f[0] /\ f[1].kind = "pose"),
         InOrder(f, n + 1)
  PROVE  InOrder(h, n) /\ (Latest(f, n + 1) => Latest(h, n))
<1> DEFINE From(i, a) == /\ h[i] = f[a] /\ a <= i + 1
                         /\ \A j \in (i + 1)..(n + 1) : NoStatus(h, i, j) => NoStatus(f, a, j + 1)
<1>1. ASSUME NEW i \in 1..n PROVE From(i, i + 1)
  <2>1. ASSUME NEW j \in (i + 1)..(n + 1), NoStatus(h, i, j), NEW k \in (i + 2)..j
        PROVE  f[k].kind # "status"
    <3>1. k - 1 \in (i + 1)..(j - 1) /\ k - 1 \in 1..n
      BY <2>1
    <3>2. h[k - 1].kind # "status" /\ h[k - 1] = f[(k - 1) + 1]
      BY <2>1, <3>1 DEF NoStatus
    <3> QED BY <3>2
  <2> QED BY <2>1 DEF NoStatus
<1>2. ASSUME h[0] = f[1] PROVE From(0, 1)
  <2>1. ASSUME NEW j \in 1..(n + 1), NoStatus(h, 0, j), NEW k \in 2..j
        PROVE  f[k].kind # "status"
    <3>1. k - 1 \in 1..(j - 1) /\ k - 1 \in 1..n
      BY <2>1
    <3>2. h[k - 1].kind # "status" /\ h[k - 1] = f[(k - 1) + 1]
      BY <2>1, <3>1 DEF NoStatus
    <3> QED BY <3>2
  <2> QED BY <1>2, <2>1 DEF NoStatus
<1>3. ASSUME h[0] = f[0], f[1].kind = "pose" PROVE From(0, 0)
  <2>1. ASSUME NEW j \in 1..(n + 1), NoStatus(h, 0, j), NEW k \in 1..j
        PROVE  f[k].kind # "status"
    <3>1. CASE k = 1
      BY <1>3, <3>1
    <3>2. CASE k # 1
      <4>1. k - 1 \in 1..(j - 1) /\ k - 1 \in 1..n
        BY <2>1, <3>2
      <4>2. h[k - 1].kind # "status" /\ h[k - 1] = f[(k - 1) + 1]
        BY <2>1, <4>1 DEF NoStatus
      <4> QED BY <4>2
    <3> QED BY <3>1, <3>2
  <2> QED BY <1>3, <2>1 DEF NoStatus
<1> HIDE DEF From
<1>4. ASSUME NEW i \in 0..n, SomePose(h[i]) \/ SomeOnline(h[i])
      PROVE  \E a \in 0..i + 1 : From(i, a)
  <2>1. CASE i \in 1..n
    BY <1>1, <2>1
  <2>2. CASE i = 0
    <3>1. h[0] # NoMessage
      BY <1>4, <2>2 DEF SomePose, SomeOnline, NoMessage
    <3> QED BY <1>2, <1>3, <2>2, <3>1
  <2> QED BY <2>1, <2>2
<1>5. InOrder(h, n)
  <2> SUFFICES ASSUME NEW i \in 0..n, NEW j \in 0..n, i < j, SomePose(h[i]) \/ SomeOnline(h[i])
               PROVE  /\ SomePose(h[i]) /\ SomeOnline(h[j]) => h[i].ts <= h[j].ts
                      /\ SomeOnline(h[i]) /\ SomePose(h[j]) /\ h[j].valid => h[i].ts < h[j].ts
                      /\ SomePose(h[i]) /\ SomePose(h[j]) /\ NoStatus(h, i, j) => Linked(h[i], h[j])
    BY DEF InOrder
  <2>1. PICK a \in 0..i + 1 : From(i, a)
    BY <1>4
  <2>2. j \in 1..n /\ j \in (i + 1)..(n + 1) /\ a < j + 1 /\ a \in 0..(n + 1) /\ j + 1 \in 0..(n + 1)
    OBVIOUS
  <2>3. h[i] = f[a] /\ h[j] = f[j + 1] /\ (NoStatus(h, i, j) => NoStatus(f, a, j + 1))
    BY <2>1, <2>2 DEF From
  <2>4. PICK b : b = j + 1
    OBVIOUS
  <2>5. /\ SomePose(f[a]) /\ SomeOnline(f[b]) => f[a].ts <= f[b].ts
        /\ SomeOnline(f[a]) /\ SomePose(f[b]) /\ f[b].valid => f[a].ts < f[b].ts
        /\ SomePose(f[a]) /\ SomePose(f[b]) /\ NoStatus(f, a, b) => Linked(f[a], f[b])
    BY <2>2, <2>4 DEF InOrder
  <2> QED BY <2>3, <2>4, <2>5
<1>6. ASSUME Latest(f, n + 1) PROVE Latest(h, n)
  <2> SUFFICES ASSUME NEW i \in 0..n, SomePose(h[i]), NoStatus(h, i, n + 1)
               PROVE  OfSession(h[i])
    BY DEF Latest
  <2>1. PICK a \in 0..i + 1 : From(i, a)
    BY <1>4
  <2>2. h[i] = f[a] /\ NoStatus(f, a, (n + 1) + 1) /\ a \in 0..(n + 1)
    BY <2>1 DEF From
  <2> QED BY <1>6, <2>2 DEF Latest
<1> QED BY <1>5, <1>6

\* A message joins the others; what is said of them is said of the next state.
LEMMA StreamGrows ==
  ASSUME NEW n \in Nat, NEW f, NEW h, NEW m, \A i \in 0..n : h[i] = f[i], h[n + 1] = m,
         InOrder(f, n)',
         SomeOnline(m) => \A i \in 0..n : SomePose(f[i]) => f[i].ts <= m.ts,
         SomePose(m) /\ m.valid => \A i \in 0..n : SomeOnline(f[i]) => f[i].ts < m.ts,
         SomePose(m) => \A i \in 0..n : SomePose(f[i]) /\ NoStatus(f, i, n + 1) => Linked(f[i], m)'
  PROVE  InOrder(h, n + 1)'
<1>1. \A i, j \in 0..(n + 1) : j <= n + 1 /\ NoStatus(h, i, j) => NoStatus(f, i, j)
  <2> SUFFICES ASSUME NEW i \in 0..(n + 1), NEW j \in 0..(n + 1), NoStatus(h, i, j),
                      NEW k \in (i + 1)..(j - 1)
               PROVE  f[k].kind # "status"
    BY DEF NoStatus
  <2>1. k \in 0..n /\ h[k].kind # "status"
    BY DEF NoStatus
  <2> QED BY <2>1
<1> SUFFICES ASSUME NEW i \in 0..(n + 1), NEW j \in 0..(n + 1), i < j
             PROVE  /\ SomePose(h[i]) /\ SomeOnline(h[j]) => h[i].ts <= h[j].ts
                    /\ SomeOnline(h[i]) /\ SomePose(h[j]) /\ h[j].valid => h[i].ts < h[j].ts
                    /\ SomePose(h[i]) /\ SomePose(h[j]) /\ NoStatus(h, i, j) => Linked(h[i], h[j])'
  BY DEF InOrder, SomePose, SomeOnline, NoStatus
<1>2. i \in 0..n /\ h[i] = f[i]
  OBVIOUS
<1>3. CASE j \in 0..n
  <2>1. /\ SomePose(f[i]) /\ SomeOnline(f[j]) => f[i].ts <= f[j].ts
        /\ SomeOnline(f[i]) /\ SomePose(f[j]) /\ f[j].valid => f[i].ts < f[j].ts
        /\ SomePose(f[i]) /\ SomePose(f[j]) /\ NoStatus(f, i, j) => Linked(f[i], f[j])'
    BY <1>2, <1>3 DEF InOrder, SomePose, SomeOnline, NoStatus
  <2>2. h[j] = f[j]
    BY <1>3
  <2> QED BY <1>1, <1>2, <2>1, <2>2
<1>4. CASE j = n + 1
  <2>1. h[j] = m /\ (NoStatus(h, i, j) => NoStatus(f, i, n + 1))
    BY <1>1, <1>4
  <2> QED BY <1>2, <2>1
<1> QED BY <1>3, <1>4

\* The poses stay linked, and those of the session stay of the session.
LEMMA StreamStays ==
  ASSUME WorldInv, Later, NEW n \in Nat, NEW f, \A i \in 0..n : SomePose(f[i]) => IsPose(f[i]),
         InOrder(f, n)
  PROVE  InOrder(f, n)'
<1>1. \A i, j \in 0..n : SomePose(f[i]) /\ SomePose(f[j]) /\ Linked(f[i], f[j]) => Linked(f[i], f[j])'
  <2> TAKE i \in 0..n, j \in 0..n
  <2> PICK a, p : a = f[i] /\ p = f[j]
    OBVIOUS
  <2>1. IsPose(a) /\ IsPose(p) /\ Linked(a, p) => Linked(a, p)'
    BY LinkedStays
  <2> QED BY <2>1
<1> QED BY <1>1 DEF InOrder, SomePose, SomeOnline, NoStatus

\* What is in the stream.
LEMMA StreamMessages ==
  ASSUME WorldInv, SourceInv, BrokerInv, TrackerInv, gate.managed
  PROVE  /\ Len(wire) \in Nat /\ Stream[0] = gate.dwell
         /\ \A i \in 1..Len(wire) : i \in 0..Len(wire) /\ Stream[i] = wire[i]
         /\ \A i \in 0..Len(wire) : /\ SomePose(Stream[i]) => IsPose(Stream[i])
                                    /\ SomeOnline(Stream[i]) => Stream[i].ts \in 0..session
<1>1. TrackerOK(gate)
  BY DEF TrackerInv, Unmanaged
<1>2. Len(wire) \in Nat
  BY DEF BrokerInv
<1>3. Stream[0] = gate.dwell /\ \A i \in 1..Len(wire) : Stream[i] = wire[i]
  BY <1>2 DEF Stream
<1>4. ASSUME NEW m, m = gate.dwell
      PROVE  (SomePose(m) => IsPose(m)) /\ ~SomeOnline(m)
  <2>1. CASE m = NoMessage
    BY <2>1 DEF NoMessage, SomePose, SomeOnline
  <2>2. CASE m # NoMessage
    <3>1. IsPose(m)
      BY <1>1, <1>4, <2>2 DEF TrackerOK
    <3> QED BY <3>1 DEF IsPose, SomeOnline
  <2> QED BY <2>1, <2>2
<1>5. ASSUME NEW i \in 1..Len(wire), NEW m, m = wire[i]
      PROVE  (SomePose(m) => IsPose(m)) /\ (SomeOnline(m) => m.ts \in 0..session)
  BY <1>5 DEF BrokerInv, IsPose, IsStatus, SomePose, SomeOnline
<1>6. ASSUME NEW i \in 0..Len(wire)
      PROVE  (SomePose(Stream[i]) => IsPose(Stream[i])) /\ (SomeOnline(Stream[i]) => Stream[i].ts \in 0..session)
  <2>1. CASE i = 0
    BY <1>3, <1>4, <2>1
  <2>2. CASE i \in 1..Len(wire)
    BY <1>3, <1>5, <2>2
  <2> QED BY <1>2, <2>1, <2>2
<1> QED BY <1>2, <1>3, <1>6

LEMMA OnStatusKeeps ==
  ASSUME NEW g, AsTracker(g), NEW s
  PROVE  /\ OnStatus(g, s).managed
         /\ OnStatus(g, s).session = (IF s.online THEN s.ts ELSE 0)
         /\ OnStatus(g, s).dwell # NoMessage =>
              g.dwell # NoMessage /\ s.online /\ s.ts = g.session
<1>1. PICK e, l, a, d, n : OnStatus(g, s) = [managed |-> TRUE, expected |-> e, latest |-> l,
                                             since |-> a, dwell |-> d, session |-> n]
  <2>1. AsTracker(OnStatus(g, s))
    BY OnStatusDwell
  <2> PICK r : r = OnStatus(g, s)
    OBVIOUS
  <2>2. AsTracker(r)
    BY <2>1
  <2>3. \E e, l, a, d, n : r = [managed |-> TRUE, expected |-> e, latest |-> l,
                               since |-> a, dwell |-> d, session |-> n]
    BY <2>2 DEF AsTracker
  <2> QED BY <2>3
<1>2. OnStatus(g, s).managed
  BY <1>1
<1>3. OnStatus(g, s).session = (IF s.online THEN s.ts ELSE 0)
  BY OnStatusDwell
<1>4. ASSUME OnStatus(g, s).dwell # NoMessage
      PROVE  g.dwell # NoMessage /\ s.online /\ s.ts = g.session
  BY <1>4, OnStatusDwell
<1> QED BY <1>2, <1>3, <1>4

\* An online status that comes after a pose of the dwell begins another session, and
\* so ends the dwell.
LEMMA StatusEnds ==
  ASSUME SourceInv, BrokerInv, TrackerInv, Connected, WorldInv,
         NEW s, wire # <<>>, s = wire[1], IsStatus(s)
  PROVE  /\ OnStatus(gate, s).managed /\ OnStatus(gate, s).dwell = NoMessage
         /\ OnStatus(gate, s).session = (IF s.online THEN s.ts ELSE 0)
<1> PICK g : g = gate
  OBVIOUS
<1> PICK r : r = OnStatus(g, s)
  OBVIOUS
<1>0. gate.managed
  BY DEF Connected
<1>1. TrackerOK(g) /\ AsTracker(g)
  <2>1. TrackerOK(g)
    BY <1>0 DEF TrackerInv, Unmanaged
  <2>2. AsTracker(g)
    BY <2>1, Zenon DEF TrackerOK
  <2> QED BY <2>1, <2>2
<1>2. /\ r.managed /\ r.session = (IF s.online THEN s.ts ELSE 0)
      /\ r.dwell # NoMessage => g.dwell # NoMessage /\ s.online /\ s.ts = g.session
  BY <1>1, OnStatusKeeps
<1>4. ASSUME g.dwell # NoMessage, s.online, s.ts = g.session PROVE FALSE
  <2>1. 1 \in 1..Len(wire) /\ Len(wire) \in Nat /\ 0 \in 0..Len(wire) /\ 1 \in 0..Len(wire)
    BY WireShrinks DEF BrokerInv
  <2>2. Stream[0] = g.dwell /\ Stream[1] = s
    BY <1>0, <2>1, StreamMessages
  <2>3. IsPose(g.dwell) /\ g.dwell.valid
    BY <1>1, <1>4 DEF TrackerOK
  <2>4. SomePose(g.dwell) /\ SomeOnline(s)
    BY <1>4, <2>3 DEF IsPose, IsStatus, SomePose, SomeOnline
  <2>5. g.session < g.dwell.ts
    BY <2>1, <2>2, <2>3, <2>4 DEF Connected
  <2>6. g.dwell.ts <= s.ts
    <3>1. InOrder(Stream, Len(wire))
      BY DEF Connected
    <3>2. 0 < 1
      OBVIOUS
    <3>3. SomePose(Stream[0]) /\ SomeOnline(Stream[1]) => Stream[0].ts <= Stream[1].ts
      BY <2>1, <3>1, <3>2, Zenon DEF InOrder
    <3> QED BY <2>2, <2>4, <3>3
  <2>7. g.dwell.ts \in Nat /\ g.session \in Nat
    BY <1>1, <2>3 DEF IsPose, TrackerOK, WorldInv, SourceInv
  <2> QED BY <1>4, <2>5, <2>6, <2>7
<1> QED BY <1>2, <1>4

LEMMA OnPoseKeeps ==
  ASSUME NEW g, TrackerOK(g), NEW p, p # NoMessage
  PROVE  /\ OnPose(g, p).managed /\ OnPose(g, p).session = g.session
         /\ OnPose(g, p).dwell \in {NoMessage, p}
<1>1. /\ AsTracker(g)
      /\ g.dwell # NoMessage => g.dwell = g.latest
      /\ g.dwell = NoMessage => g.since = 0
  BY DEF TrackerOK
<1> PICK r : r = OnPose(g, p)
  OBVIOUS
<1>2. AsTracker(r) /\ r.session = g.session /\ (r.dwell = NoMessage \/ r.dwell = p)
  BY <1>1, OnPoseDwell
<1>3. PICK e, l, a, d, n : r = [managed |-> TRUE, expected |-> e, latest |-> l,
                               since |-> a, dwell |-> d, session |-> n]
  BY <1>2 DEF AsTracker
<1>4. r.managed
  BY <1>3
<1> QED BY <1>2, <1>4

\* A consumer that stays connected stays so in order.
LEMMA ConnectedStep ==
  ASSUME WorldInv, SourceInv, BrokerInv, TrackerInv, LeftInv, Connected, [Next]_vars
  PROVE  Connected'
<1>0. /\ WorldInv' /\ Later /\ LeftInv' /\ now \in Nat
      /\ session \in 0..now /\ seq \in Nat
  BY WorldStep, LeftStep DEF WorldInv, SourceInv
<1>1. left'["disconnect"] = 0 /\ left'["reconcile"] = 0 /\ subscribed /\ gate.managed
  <2>1. left["disconnect"] = 0 /\ left["reconcile"] = 0 /\ subscribed /\ gate.managed
    BY DEF Connected
  <2>2. left'["disconnect"] \in Nat /\ left'["reconcile"] \in Nat
    BY <1>0 DEF LeftInv, Events
  <2>3. left'["disconnect"] <= 0 /\ left'["reconcile"] <= 0
    BY <2>1, LeftStep
  <2> QED BY <2>1, <2>2, <2>3
<1>2. ~Disconnect /\ ~Reconnect /\ ~\E managed \in BOOLEAN : Reconcile(managed)
  <2>1. left["disconnect"] = 0 /\ left["reconcile"] = 0
    BY DEF Connected
  <2>2. ~Spend("disconnect") /\ ~Spend("reconcile")
    BY <2>1 DEF Spend
  <2> QED BY <1>1, <2>2 DEF Disconnect, Reconnect, Reconcile
<1>3. PICK n, f, g : n = Len(wire) /\ f = Stream /\ g = gate
  OBVIOUS
<1>4. /\ n \in Nat /\ f[0] = g.dwell /\ \A i \in 1..n : f[i] = wire[i]
      /\ \A i \in 0..n : SomePose(f[i]) => IsPose(f[i])
      /\ \A i \in 0..n : SomeOnline(f[i]) => f[i].ts \in 0..session
  BY <1>1, <1>3, StreamMessages
<1>5. /\ \A i \in 0..n : SomePose(f[i]) /\ f[i].valid => g.session < f[i].ts
      /\ InOrder(f, n) /\ (life = "online" => Latest(f, n))
  BY <1>3 DEF Connected
<1>6. TrackerOK(g)
  BY <1>1, <1>3 DEF TrackerInv, Unmanaged
<1>7. ASSUME NEW k, NEW h, k = Len(wire'), h = Stream', subscribed', gate'.managed,
             \A i \in 0..k : SomePose(h[i]) /\ h[i].valid => gate'.session < h[i].ts,
             InOrder(h, k)', life' = "online" => Latest(h, k)'
      PROVE  Connected'
  <2>1. InOrder(Stream, Len(wire))'
    BY <1>7 DEF InOrder, SomePose, SomeOnline, NoStatus, Linked
  <2>2. life' = "online" => Latest(Stream, Len(wire))'
    BY <1>7 DEF Latest, SomePose, NoStatus, OfSession
  <2>3. \A i \in 0..Len(wire') : SomePose(Stream[i])' /\ (Stream[i].valid)' => gate'.session < (Stream[i].ts)'
    BY <1>7 DEF SomePose
  <2> QED BY <1>1, <1>7, <2>1, <2>2, <2>3 DEF Connected
<1>8. ASSUME ~\E reported \in Reports : Poll(reported), ~ConnectService, life' = "online",
             NEW k \in Nat, NEW h, life = "online" => Latest(h, k)
      PROVE  Latest(h, k)'
  <2>1. life = "online" /\ ~StartService
    BY <1>8, LifeStep DEF StartService, Start, StartUnread, Restarts
  <2>2. \A a : OfSession(a) => OfSession(a)'
    BY <1>8, <2>1, SessionStays
  <2> QED BY <1>8, <2>1, <2>2 DEF Latest, SomePose, NoStatus
\* Nothing is published and nothing taken.
<1>9. CASE /\ UNCHANGED <<wire, gate, subscribed>> /\ ~ConnectService
           /\ ~\E reported \in Reports : Poll(reported)
  <2>1. n = Len(wire') /\ f = Stream' /\ subscribed' /\ gate'.managed /\ gate'.session = g.session
    BY <1>1, <1>3, <1>9 DEF Stream
  <2>2. InOrder(f, n)'
    BY <1>0, <1>4, <1>5, StreamStays
  <2> QED BY <1>4, <1>5, <1>7, <1>8, <1>9, <2>1, <2>2
\* The first message goes.
<1>10. CASE Deliver \/ Lose
  <2>1. wire # <<>> /\ wire' = Tail(wire) /\ UNCHANGED subscribed /\ Elsewhere
    BY <1>10, ElsewhereSteps DEF Deliver, Lose
  <2>2. PICK k, h, m : k = Len(wire') /\ h = Stream' /\ m = wire[1]
    OBVIOUS
  <2>3. /\ Len(wire) \in Nat \ {0} /\ Len(wire') = Len(wire) - 1 /\ Head(wire) = wire[1]
        /\ \A i \in 1..Len(wire) - 1 : wire'[i] = wire[i + 1]
    BY <2>1, WireShrinks DEF BrokerInv
  <2>4. k \in Nat /\ n = k + 1 /\ f[1] = m /\ h[0] = gate'.dwell
        /\ \A i \in 1..k : h[i] = f[i + 1]
    <3>1. k \in Nat /\ n = k + 1 /\ f[1] = m
      BY <1>3, <1>4, <2>2, <2>3
    <3>2. h = [i \in 0..k |-> IF i = 0 THEN gate'.dwell ELSE wire'[i]]
      BY <2>2 DEF Stream
    <3>3. h[0] = gate'.dwell
      BY <3>1, <3>2
    <3>4. ASSUME NEW i \in 1..k PROVE h[i] = f[i + 1]
      <4>1. h[i] = wire'[i] /\ i \in 1..Len(wire) - 1
        BY <1>3, <2>2, <2>3, <3>1, <3>2
      <4>2. f[i + 1] = wire[i + 1]
        BY <1>4, <3>1
      <4> QED BY <2>3, <4>1, <4>2
    <3> QED BY <3>1, <3>3, <3>4
  <2>5. IsPose(m) \/ IsStatus(m)
    BY <2>2, <2>3 DEF BrokerInv
  <2>6. /\ gate'.managed
        /\ h[0] = NoMessage \/ h[0] = f[1] \/ (h[0] = f[0] /\ f[1].kind = "pose")
        /\ \/ gate'.session = g.session
           \/ IsStatus(m) /\ h[0] = NoMessage /\ gate'.session = (IF m.online THEN m.ts ELSE 0)
    <3>1. CASE Lose
      BY <1>1, <1>3, <1>4, <2>2, <2>3, <2>4, <3>1 DEF Lose
    <3>2. CASE Deliver /\ m.kind = "pose"
      <4>1. gate' = OnPose(g, m)
        BY <1>3, <2>2, <2>3, <3>2 DEF Deliver
      <4>2. m # NoMessage
        BY <3>2 DEF NoMessage
      <4> QED BY <1>6, <2>4, <4>1, <4>2, OnPoseKeeps
    <3>3. CASE Deliver /\ m.kind # "pose"
      <4>1. gate' = OnStatus(gate, m)
        BY <2>2, <2>3, <3>3 DEF Deliver
      <4>2. IsStatus(m)
        BY <2>5, <3>3 DEF IsPose
      <4> QED BY <2>1, <2>2, <2>4, <4>1, <4>2, StatusEnds
    <3> QED BY <1>10, <3>1, <3>2, <3>3
  <2>7. \A i \in 0..k : SomePose(h[i]) => IsPose(h[i])
    <3> SUFFICES ASSUME NEW i \in 0..k, SomePose(h[i]) PROVE IsPose(h[i])
      OBVIOUS
    <3>1. CASE i = 0
      <4>1. h[0] # NoMessage
        BY <3>1 DEF SomePose, NoMessage
      <4>2. 0 \in 0..n /\ 1 \in 0..n
        BY <2>4
      <4> QED BY <1>4, <2>6, <3>1, <4>1, <4>2
    <3>2. CASE i \in 1..k
      <4>1. i + 1 \in 0..n /\ h[i] = f[i + 1]
        BY <2>4, <3>2
      <4> QED BY <1>4, <4>1
    <3> QED BY <2>4, <3>1, <3>2
  <2>8. \A i \in 0..k : SomePose(h[i]) /\ h[i].valid => gate'.session < h[i].ts
    <3> SUFFICES ASSUME NEW i \in 0..k, SomePose(h[i]), h[i].valid PROVE gate'.session < h[i].ts
      OBVIOUS
    <3>1. CASE gate'.session = g.session
      <4>1. \E a \in 0..n : h[i] = f[a]
        <5>1. CASE i = 0
          <6>1. h[0] # NoMessage
            BY <5>1 DEF SomePose, NoMessage
          <6>2. 0 \in 0..n /\ 1 \in 0..n
            BY <2>4
          <6> QED BY <2>6, <5>1, <6>1, <6>2
        <5>2. CASE i \in 1..k
          <6>1. i + 1 \in 0..n /\ h[i] = f[i + 1]
            BY <2>4, <5>2
          <6> QED BY <6>1
        <5> QED BY <2>4, <5>1, <5>2
      <4> QED BY <1>5, <3>1, <4>1
    <3>2. CASE IsStatus(m) /\ h[0] = NoMessage /\ gate'.session = (IF m.online THEN m.ts ELSE 0)
      <4>1. i # 0
        BY <3>2 DEF SomePose, NoMessage
      <4>2. PICK b : b = i + 1
        OBVIOUS
      <4>3. b \in 0..n /\ 1 \in 0..n /\ 1 < b /\ h[i] = f[b]
        BY <2>4, <4>1, <4>2
      <4>4. CASE m.online
        <5>1. SomeOnline(f[1])
          BY <2>4, <3>2, <4>4 DEF IsStatus, SomeOnline
        <5>2. f[1].ts < f[b].ts
          BY <1>5, <4>3, <5>1, Zenon DEF InOrder
        <5> QED BY <2>4, <3>2, <4>3, <4>4, <5>2
      <4>5. CASE ~m.online
        <5>1. h[i].ts \in 1..now
          BY <2>7 DEF IsPose
        <5> QED BY <1>0, <3>2, <4>5, <5>1
      <4> QED BY <4>4, <4>5
    <3> QED BY <2>6, <3>1, <3>2
  <2>9. InOrder(h, k) /\ (Latest(f, k + 1) => Latest(h, k))
    <3>1. InOrder(f, k + 1)
      BY <1>5, <2>4
    <3> QED BY <2>4, <2>6, <3>1, StreamShifts
  <2>10. InOrder(h, k)'
    BY <1>0, <2>4, <2>7, <2>9, StreamStays
  <2>11. life' = "online" => Latest(h, k)'
    <3>1. ~ConnectService /\ ~\E reported \in Reports : Poll(reported)
      BY <2>1 DEF Elsewhere, ConnectService, Connect, Poll
    <3>2. life = "online" => Latest(h, k)
      BY <1>5, <2>4, <2>9
    <3> QED BY <1>8, <2>4, <3>1, <3>2
  <2> QED BY <1>1, <1>7, <2>1, <2>2, <2>6, <2>8, <2>10, <2>11
\* A message is published.
<1>11. ASSUME NEW m, Publish(m), UNCHANGED <<gate, subscribed>>,
              SomeOnline(m) => m.ts = now,
              SomePose(m) => Tells(m) /\ life = "online" /\ UNCHANGED posAt,
              m.kind = "status" \/ SomePose(m)
       PROVE  Connected'
  <2>1. PICK k, h : k = Len(wire') /\ h = Stream'
    OBVIOUS
  <2>2. wire' = Append(wire, m)
    BY <1>1, <1>11 DEF Publish
  <2>3. k = n + 1 /\ h[n + 1] = m /\ \A i \in 0..n : h[i] = f[i]
    <3>1. /\ Len(wire') = Len(wire) + 1 /\ wire'[Len(wire) + 1] = m
          /\ \A i \in 1..Len(wire) : wire'[i] = wire[i]
      BY <2>2, WireGrows DEF BrokerInv
    <3>2. k = n + 1 /\ h = [i \in 0..k |-> IF i = 0 THEN gate'.dwell ELSE wire'[i]]
      BY <1>3, <2>1, <3>1 DEF Stream
    <3>3. h[n + 1] = m
      BY <1>3, <1>4, <3>1, <3>2
    <3>4. ASSUME NEW i \in 0..n PROVE h[i] = f[i]
      <4>1. CASE i = 0
        BY <1>3, <1>4, <1>11, <3>2, <4>1
      <4>2. CASE i \in 1..n
        <5>1. h[i] = wire'[i]
          BY <1>4, <3>2, <4>2
        <5> QED BY <1>3, <1>4, <3>1, <4>2, <5>1
      <4> QED BY <1>4, <4>1, <4>2
    <3> QED BY <3>2, <3>3, <3>4
  <2>4. \A i \in 0..k : SomePose(h[i]) /\ h[i].valid => gate'.session < h[i].ts
    <3>1. ASSUME SomePose(m), m.valid PROVE g.session < m.ts
      <4>1. m.ts = now /\ session < now
        <5>1. Tells(m)
          BY <1>11, <3>1
        <5> QED BY <3>1, <5>1 DEF Tells
      <4>2. g.session \in 0..session
        BY <1>6 DEF TrackerOK
      <4> QED BY <1>0, <4>1, <4>2
    <3>2. gate'.session = g.session /\ \A i \in 0..k : i \in 0..n \/ i = n + 1
      BY <1>3, <1>4, <1>11, <2>3
    <3> QED BY <1>5, <2>3, <3>1, <3>2
  <2>5. InOrder(f, n)'
    BY <1>0, <1>4, <1>5, StreamStays
  <2>6. SomePose(m) => \A i \in 0..n : SomePose(f[i]) /\ NoStatus(f, i, n + 1) =>
                         Linked(f[i], m)' /\ OfSession(f[i])'
    <3> SUFFICES ASSUME SomePose(m), NEW i \in 0..n, SomePose(f[i]), NoStatus(f, i, n + 1)
                 PROVE  Linked(f[i], m)' /\ OfSession(f[i])'
      OBVIOUS
    <3>1. PICK a : a = f[i]
      OBVIOUS
    <3>2. IsPose(a) /\ OfSession(a) /\ Tells(m) /\ UNCHANGED posAt
      BY <1>4, <1>5, <1>11, <3>1 DEF Latest
    <3>3. Linked(a, m)' /\ OfSession(a)'
      BY <3>2, PollLinks
    <3> QED BY <3>1, <3>3
  <2>7. InOrder(h, n + 1)'
    <3>1. SomeOnline(m) => \A i \in 0..n : SomePose(f[i]) => f[i].ts <= m.ts
      BY <1>0, <1>4, <1>11 DEF IsPose
    <3>2. SomePose(m) /\ m.valid => \A i \in 0..n : SomeOnline(f[i]) => f[i].ts < m.ts
      <4> SUFFICES ASSUME SomePose(m), m.valid, NEW i \in 0..n, SomeOnline(f[i])
                   PROVE  f[i].ts < m.ts
        OBVIOUS
      <4>1. m.ts = now /\ session < now
        BY <1>11 DEF Tells
      <4>2. f[i].ts \in 0..session
        BY <1>4
      <4> QED BY <1>0, <4>1, <4>2
    <3> QED BY <1>4, <2>3, <2>5, <2>6, <3>1, <3>2, StreamGrows
  <2>8. ASSUME life' = "online" PROVE Latest(h, n + 1)'
    <3> SUFFICES ASSUME NEW i \in 0..(n + 1), SomePose(h[i]), NoStatus(h, i, (n + 1) + 1)
                 PROVE  OfSession(h[i])'
      BY DEF Latest, SomePose, NoStatus
    <3>1. CASE m.kind = "status"
      <4>1. i = n + 1
        <5>1. ASSUME i # n + 1 PROVE FALSE
          <6>1. n + 1 \in (i + 1)..(((n + 1) + 1) - 1)
            BY <1>4, <5>1
          <6> QED BY <2>3, <3>1, <6>1 DEF NoStatus
        <5> QED BY <5>1
      <4> QED BY <2>3, <3>1, <4>1 DEF SomePose
    <3>2. CASE SomePose(m)
      <4>1. CASE i = n + 1
        <5>1. OfSession(m)'
          <6>1. Tells(m)
            BY <1>11, <3>2
          <6>2. m.seq = seq + 1 /\ src'.lastSeq = seq + 1 /\ src'.lastTs \in {0, now} /\ m.ts = now
            BY <6>1 DEF Tells
          <6> QED BY <1>0, <6>2 DEF OfSession
        <5> QED BY <2>3, <4>1, <5>1
      <4>2. CASE i \in 0..n
        <5>1. NoStatus(f, i, n + 1)
          <6> SUFFICES ASSUME NEW j \in (i + 1)..((n + 1) - 1) PROVE f[j].kind # "status"
            BY DEF NoStatus
          <6>1. j \in (i + 1)..(((n + 1) + 1) - 1) /\ j \in 0..n
            BY <1>4, <4>2
          <6> QED BY <2>3, <6>1 DEF NoStatus
        <5>2. h[i] = f[i]
          BY <2>3, <4>2
        <5> QED BY <2>6, <3>2, <4>2, <5>1, <5>2
      <4> QED BY <1>4, <4>1, <4>2
    <3> QED BY <1>11, <2>8, <3>1, <3>2
  <2>9. subscribed' /\ gate'.managed
    BY <1>1, <1>11
  <2> QED BY <1>7, <2>1, <2>3, <2>4, <2>7, <2>8, <2>9
<1>12. CASE (\E reported \in Reports : Poll(reported)) /\ UNCHANGED gateVars
  <2>1. PICK reported \in Reports : Poll(reported) /\ UNCHANGED gateVars
    BY <1>12
  <2>2. PICK p : Publish(p) /\ Tells(p)
    BY <2>1, PollSource
  <2>3. UNCHANGED <<gate, subscribed, posAt, life>> /\ life = "online"
    BY <2>1 DEF Poll, gateVars, worldVars, calibVars
  <2>4. SomePose(p) /\ ~SomeOnline(p)
    BY <2>2 DEF Tells, SomePose, SomeOnline
  <2> QED BY <1>11, <2>2, <2>3, <2>4
<1>13. CASE (ConnectService \/ WillFires) /\ UNCHANGED gateVars
  <2>1. PICK s : Publish(s) /\ s.kind = "status" /\ (SomeOnline(s) => s.ts = now)
    <3>1. CASE ConnectService
      <4>1. Publish(Status(TRUE, now))
        BY <3>1 DEF ConnectService
      <4>2. Status(TRUE, now).kind = "status" /\ Status(TRUE, now).ts = now
        BY DEF Status
      <4> QED BY <4>1, <4>2
    <3>2. CASE WillFires
      <4>1. Publish(Status(FALSE, will))
        BY <3>2 DEF WillFires
      <4>2. Status(FALSE, will).kind = "status" /\ ~SomeOnline(Status(FALSE, will))
        BY DEF Status, SomeOnline
      <4> QED BY <4>1, <4>2
    <3> QED BY <1>13, <3>1, <3>2
  <2>2. UNCHANGED gate
    BY <1>13 DEF gateVars
  <2>3. UNCHANGED subscribed
    BY <1>13 DEF ConnectService, WillFires
  <2>4. ~SomePose(s)
    BY <2>1 DEF SomePose
  <2>5. SomePose(s) => Tells(s) /\ life = "online" /\ UNCHANGED posAt
    BY <2>4
  <2>6. UNCHANGED <<gate, subscribed>>
    BY <2>2, <2>3
  <2>7. /\ Publish(s) /\ UNCHANGED <<gate, subscribed>> /\ (SomeOnline(s) => s.ts = now)
        /\ SomePose(s) => Tells(s) /\ life = "online" /\ UNCHANGED posAt
        /\ s.kind = "status" \/ SomePose(s)
    BY <2>1, <2>5, <2>6, Zenon
  <2> QED BY <1>11, <2>7, Zenon
<1>14. CASE ResolverNext /\ UNCHANGED gateVars
  <2>1. CASE Tick \/ ClockLost \/ ClockBack \/ PollRejected \/ StartService \/ CrashService
             \/ ApplyCalibration \/ CalibrationSteps
    <3>1. UNCHANGED <<wire, subscribed>>
      BY <2>1 DEF Tick, ClockLost, ClockBack, PollRejected, StartService, CrashService,
         ApplyCalibration, CalibrationSteps, resolverVars, brokerVars
    <3>2. UNCHANGED gate
      BY <1>14 DEF gateVars
    <3> QED BY <1>9, <1>12, <1>13, <1>14, <3>1, <3>2
  <2> QED BY <1>12, <1>13, <1>14, <2>1 DEF ResolverNext
<1>15. CASE VisibilityCamera \/ Admit \/ UNCHANGED vars
  <2>1. ~ConnectService /\ ~\E reported \in Reports : Poll(reported)
    <3>1. Elsewhere
      BY <1>15, ElsewhereSteps
    <3> QED BY <3>1 DEF Elsewhere, ConnectService, Connect, Poll
  <2>2. UNCHANGED <<wire, gate, subscribed>>
    BY <1>15 DEF VisibilityCamera, Admit, Use, vars, resolverVars, brokerVars, gateVars
  <2> QED BY <1>9, <2>1, <2>2
<1> QED BY <1>2, <1>10, <1>14, <1>15 DEF Next

-----------------------------------------------------------------------------
\* In a behaviour the service restarts or the consumer subscribes again, not both.
RestartsOrResubscribes ==
  \A e \in Scenarios :
    e \in [Events -> Nat] /\ (e["start"] \in {0, 1} \/ (e["disconnect"] = 0 /\ e["reconcile"] = 0))

LEMMA HeldStarts == RestartsOrResubscribes /\ Init => HeldInv
<1> SUFFICES ASSUME RestartsOrResubscribes, Init PROVE HeldInv
  OBVIOUS
<1>1. /\ left \in Scenarios /\ life = "down" /\ now = 1 /\ posAt = <<0>> /\ seq = 0 /\ src = NewSource
      /\ session = 0 /\ will = 0 /\ wire = <<>> /\ subscribed = TRUE /\ gate = NewTracker(1)
      /\ retained = [pose |-> NoMessage, status |-> NoMessage] /\ polled = FALSE
  BY DEF Init, ResolverInit, CalibInit
<1>2. LeftInv
  BY <1>1 DEF RestartsOrResubscribes, LeftInv
<1>3. WorldInv
  BY <1>1 DEF WorldInv
<1>4. SourceInv
  <2>1. AsSource(NewSource) /\ NewSource.lastTs = 0 /\ NewSource.lastSeq = 0
        /\ NewSource.m = NoMotion
    BY DEF AsSource, NewSource
  <2>2. AsMotion(NoMotion) /\ NoMotion.start = 0 /\ NoMotion.reading = -1
    BY DEF AsMotion, NoMotion
  <2> QED BY <1>1, <2>1, <2>2 DEF SourceInv
<1>5. BrokerInv
  <2>1. wire \in Seq({}) /\ Len(wire) = 0
    BY <1>1
  <2>2. DOMAIN retained = {"pose", "status"} /\ retained.pose = NoMessage /\ retained.status = NoMessage
    BY <1>1
  <2> QED BY <1>1, <2>1, <2>2 DEF BrokerInv
<1>6. /\ AsTracker(gate) /\ gate.session = 0 /\ gate.latest = NoMessage /\ gate.since = 0
      /\ gate.dwell = NoMessage /\ gate.managed
  BY <1>1 DEF NewTracker, AsTracker
<1>7. TrackerInv
  BY <1>1, <1>6 DEF TrackerInv, TrackerOK
<1>8. CASE left["start"] \in {0, 1}
  <2>1. \A m : ~InAround(m)
    BY <1>1, <1>6 DEF InAround, NoMessage
  <2>2. Around = {}
    BY <2>1, AroundIs
  <2> QED BY <1>1, <1>2, <1>3, <1>4, <1>5, <1>7, <1>8, <2>2 DEF HeldInv, GateInv, OneRun
<1>9. CASE left["disconnect"] = 0 /\ left["reconcile"] = 0
  <2>1. Len(wire) = 0 /\ \A i \in 0..0 : Stream[i] = NoMessage
    BY <1>1, <1>6 DEF Stream
  <2>2. InOrder(Stream, Len(wire))
    BY <2>1 DEF InOrder
  <2>3. \A i \in 0..0 : ~SomePose(Stream[i])
    BY <2>1 DEF SomePose, NoMessage
  <2>4. Connected
    BY <1>1, <1>6, <1>9, <2>1, <2>2, <2>3 DEF Connected
  <2> QED BY <1>2, <1>3, <1>4, <1>5, <1>7, <2>4 DEF HeldInv, GateInv
<1> QED BY <1>1, <1>8, <1>9 DEF RestartsOrResubscribes

LEMMA HeldStep == HeldInv /\ [Next]_vars => HeldInv'
<1> SUFFICES ASSUME HeldInv, [Next]_vars PROVE HeldInv'
  OBVIOUS
<1>1. WorldInv /\ SourceInv /\ BrokerInv /\ TrackerInv /\ LeftInv /\ (OneRun \/ Connected)
  BY DEF HeldInv, GateInv
<1>2. WorldInv' /\ Later /\ SourceInv' /\ BrokerInv' /\ LeftInv' /\ session <= session'
  BY <1>1, WorldStep, SourceStep, BrokerStep, LeftStep, SessionLater
<1>3. session \in Nat /\ session' \in Nat
  BY <1>1, <1>2 DEF WorldInv, SourceInv
<1>4. ASSUME NEW p, wire # <<>>, p = wire[1], IsPose(p), TrackerOK(gate), gate.dwell # NoMessage
      PROVE  Linked(gate.dwell, p)
  <2>1. 1 \in 1..Len(wire) /\ 0 \in 0..Len(wire) /\ 1 \in 0..Len(wire)
    BY <1>1, <1>4, WireShrinks DEF BrokerInv
  <2>2. PICK a, g : a = gate.dwell /\ g = gate
    OBVIOUS
  <2>3. IsPose(a) /\ a = gate.latest
    BY <1>4, <2>2 DEF TrackerOK
  <2>4. g.managed
    <3>1. AsTracker(g)
      BY <1>4, <2>2 DEF TrackerOK
    <3>2. PICK e, l, s, d, n : g = [managed |-> TRUE, expected |-> e, latest |-> l,
                                    since |-> s, dwell |-> d, session |-> n]
      BY <3>1 DEF AsTracker
    <3> QED BY <3>2
  <2>5. CASE OneRun
    <3>1. InAround(a)
      BY <2>2, <2>3, <2>4 DEF IsPose, InAround
    <3>2. InAround(p)
      BY <1>4, <2>1 DEF IsPose, InAround
    <3>3. a \in Around /\ p \in Around
      BY <3>1, <3>2, AroundIs
    <3> QED BY <2>2, <2>5, <3>3 DEF OneRun
  <2>6. CASE Connected
    <3>1. Stream[0] = a /\ Stream[1] = p
      BY <1>1, <1>4, <2>1, <2>2, <2>4, StreamMessages
    <3>2. SomePose(a) /\ SomePose(p)
      BY <1>4, <2>3 DEF IsPose, SomePose
    <3>3. NoStatus(Stream, 0, 1) /\ 0 < 1
      BY DEF NoStatus
    <3>4. InOrder(Stream, Len(wire))
      BY <2>6 DEF Connected
    <3>5. SomePose(Stream[0]) /\ SomePose(Stream[1]) /\ NoStatus(Stream, 0, 1)
          => Linked(Stream[0], Stream[1])
      BY <2>1, <3>3, <3>4, Zenon DEF InOrder
    <3> QED BY <2>2, <3>1, <3>2, <3>3, <3>5
  <2> QED BY <1>1, <2>5, <2>6
<1>5. TrackerInv'
  BY <1>1, <1>2, <1>3, <1>4, TrackerStep
<1>6. OneRun' \/ Connected'
  BY <1>1, OneRunStep, ConnectedStep
<1> QED BY <1>2, <1>5, <1>6 DEF HeldInv, GateInv

LEMMA HeldInvHolds == RestartsOrResubscribes => (Spec => []HeldInv)
<1>1. RestartsOrResubscribes /\ Init => HeldInv
  BY HeldStarts
<1>2. HeldInv /\ [Next]_vars => HeldInv'
  BY HeldStep
<1> QED BY <1>1, <1>2, PTL DEF Spec

\* Unless the service restarts and the consumer subscribes again in one behaviour, a
\* detection that is admitted was taken while the camera held the position of the
\* pose that admits it, for as long before as its time is uncertain.
THEOREM AdmittedHeld == RestartsOrResubscribes => (Spec => []AdmittedWhileHeld)
<1>1. HeldInv => AdmittedWhileHeld
  <2> SUFFICES ASSUME HeldInv, NEW o \in 1..now, Admits(o), NEW t \in (o - Uncertainty)..o
               PROVE  posAt[t] = gate.dwell.pos
    BY DEF AdmittedWhileHeld
  <2>1. gate.managed /\ gate.dwell # NoMessage /\ o <= gate.dwell.ts /\ o - Uncertainty >= gate.since
    BY DEF Admits
  <2>2. TrackerOK(gate) /\ now \in Nat
    BY <2>1 DEF HeldInv, GateInv, WorldInv, TrackerInv, Unmanaged
  <2>3. /\ IsPose(gate.dwell) /\ gate.since \in 1..gate.dwell.ts
        /\ Rested(gate.since, gate.dwell.ts, gate.dwell.pos)
    BY <2>1, <2>2 DEF TrackerOK
  <2>4. t \in gate.since..gate.dwell.ts
    BY <2>1, <2>2, <2>3, GateAssumption DEF IsPose
  <2> QED BY <2>3, <2>4 DEF Rested
<1> QED BY <1>1, HeldInvHolds, PTL

=============================================================================
