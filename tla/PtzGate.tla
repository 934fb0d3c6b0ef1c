------------------------------- MODULE PtzGate -------------------------------
(***************************************************************************)
(* The controller's gate for the detections of a PTZ camera                *)
(* (positioning_dwell.py, ptz/registry.py, ptz/ingress.py), fed by the     *)
(* positioning service through the broker. A detection is a time of        *)
(* observation; the gate decides on it at once, so whether one would be    *)
(* admitted is a predicate on the state, and only the use of a pose for    *)
(* projection is a step.                                                   *)
(***************************************************************************)
EXTENDS PtzResolver

CONSTANTS
  Latency,          \* max_detection_pipeline_latency_s
  Uncertainty       \* max_detection_timestamp_uncertainty_s

ASSUME GateAssumption == Latency \in Nat /\ Uncertainty \in Nat

VARIABLES
  gate,         \* the camera's DwellTracker, or Unmanaged
  projected     \* _SourceState.projected: the pose it was made of

gateVars == <<gate, projected>>
vars == <<calibVars, resolverVars, gateVars>>

Unmanaged == [managed |-> FALSE]
NewTracker(version) ==
  [managed |-> TRUE, expected |-> version, latest |-> NoMessage, since |-> 0,
   dwell |-> NoMessage, session |-> 0]

Init ==
  /\ ResolverInit
  /\ gate = NewTracker(1) /\ projected = NoMessage

Reset(g) == [g EXCEPT !.since = 0, !.dwell = NoMessage]

(* Mutant of Follows. *)
FollowsInTime(p, previous) == previous = NoMessage \/ p.ts > previous.ts

(* on_pose: the next in sequence, and later. *)
Follows(p, previous) ==
  previous = NoMessage \/ (p.seq = previous.seq + 1 /\ p.ts > previous.ts)

(* DwellTracker.on_pose. A valid pose is stationary. *)
OnPose(g, p) ==
  LET g1 == [(IF Follows(p, g.latest) THEN g ELSE Reset(g)) EXCEPT !.latest = p]
      g2 == IF g1.dwell # NoMessage /\ g1.dwell.version # p.version THEN Reset(g1) ELSE g1
  IN IF p.valid /\ p.version = g.expected
     THEN [g2 EXCEPT !.dwell = p, !.since = IF @ = 0 THEN p.ts ELSE @]
     ELSE Reset(g1)

(* DwellTracker.on_status: offline or another session ends the dwell. *)
OnStatus(g, s) ==
  LET of == IF s.online THEN s.ts ELSE 0
  IN [(IF s.online /\ of = g.session THEN g ELSE Reset(g)) EXCEPT !.session = of]

Deliver ==
  /\ subscribed /\ wire # <<>>
  /\ LET m == Head(wire) IN
       gate' = IF m.kind = "pose" THEN OnPose(gate, m) ELSE OnStatus(gate, m)
  /\ wire' = Tail(wire)
  /\ UNCHANGED <<calibVars, worldVars, pollVars, src, clockOk, session, will, retained,
                 subscribed, projected>>

Lose ==
  /\ wire # <<>> /\ Head(wire).kind = "pose" /\ Spend("lose")
  /\ wire' = Tail(wire)
  /\ UNCHANGED <<managerVars, life, loadVars, worldVars, pollVars, src, clockOk, session, will, retained,
                 subscribed, gate, projected>>

Disconnect ==
  /\ subscribed /\ Spend("disconnect")
  /\ subscribed' = FALSE /\ wire' = <<>>
  /\ UNCHANGED <<managerVars, life, loadVars, worldVars, pollVars, src, clockOk, session, will, retained,
                 gate, projected>>

(* A subscription gets what the broker retained. The topics to subscribe   *)
(* are the difference of two sets: they come in either order.              *)
Retained == {m \in {retained.pose, retained.status} : m # NoMessage}

Subscribe == subscribed' = TRUE /\ wire' \in SetToSeqs(Retained)

Reconnect ==
  /\ ~subscribed /\ gate.managed /\ Subscribe
  /\ UNCHANGED <<calibVars, worldVars, pollVars, src, clockOk, session, will, retained,
                 gateVars>>

(* reconcile after a refresh of the scenes, which makes a new object of    *)
(* the camera. A tracker that stays resets when its expected version       *)
(* changes; one for a camera that comes back is new.                       *)
Reconcile(managed) ==
  /\ Spend("reconcile")
  /\ \/ /\ gate.managed /\ subscribed /\ managed
        /\ gate' = IF gate.expected = mver THEN gate ELSE [Reset(gate) EXCEPT !.expected = mver]
        /\ UNCHANGED <<subscribed, wire>>
     \/ /\ gate.managed /\ subscribed /\ ~managed
        /\ gate' = Unmanaged /\ subscribed' = FALSE /\ wire' = <<>>
     \/ ~gate.managed /\ managed /\ gate' = NewTracker(mver) /\ Subscribe
  /\ projected' = NoMessage
  /\ UNCHANGED <<managerVars, life, loadVars, worldVars, pollVars, src, clockOk, session,
                 will, retained>>

---------------------------------------------------------------------------
Fresh(p) == p # NoMessage /\ p.valid /\ p.version = gate.expected /\ now - p.ts < MaxPoseAge

(* DwellTracker.evaluate for a detection observed at o, with the           *)
(* controller's clock synchronized.                                        *)
Admits(o) ==
  /\ gate.managed
  /\ gate.latest # NoMessage /\ gate.latest.valid /\ gate.latest.version = gate.expected
  /\ gate.dwell # NoMessage /\ now - gate.dwell.ts < MaxPoseAge
  /\ now - o <= Latency
  /\ o <= gate.dwell.ts
  /\ gate.dwell.ts - gate.since >= Latency
  /\ o - Uncertainty >= gate.since

(* PTZPoseRegistry._projected: the cached projection serves every pose of  *)
(* the same sequence number.                                               *)
Projection(p) == IF projected # NoMessage /\ projected.seq = p.seq THEN projected ELSE p

(* visibility_camera, and admit for some detection: the pose in use is     *)
(* projected and cached.                                                   *)
Use(p) ==
  /\ projected' = Projection(p)
  /\ UNCHANGED <<calibVars, resolverVars, gate>>

VisibilityCamera == gate.managed /\ Fresh(gate.latest) /\ Use(gate.latest)
Admit == (\E o \in 1..now : Admits(o)) /\ Use(gate.dwell)

Next ==
  \/ ResolverNext /\ UNCHANGED gateVars
  \/ Deliver \/ Lose \/ Disconnect \/ Reconnect
  \/ \E managed \in BOOLEAN : Reconcile(managed)
  \/ VisibilityCamera \/ Admit

Spec == Init /\ [][Next]_vars

---------------------------------------------------------------------------
(* A detection that is admitted was taken while the camera held the very   *)
(* position of the pose that admits it, for as long before the observation *)
(* as its time is uncertain: over lost, late and missing poses, rejected   *)
(* samples, and a restart of the service or of the connection.  A restart  *)
(* of both together is what DwellInOneSession is about.                    *)
AdmittedWhileHeld ==
  \A o \in 1..now : Admits(o) =>
    \A t \in (o - Uncertainty)..o : posAt[t] = gate.dwell.pos

(* The dwell never spans a change of the resolver's session: a dwell that  *)
(* began before the present session has no pose of it.                     *)
DwellInOneSession ==
  gate.managed /\ gate.dwell # NoMessage /\ gate.since < session
    => gate.dwell.ts <= session

(* A valid pose is made only with a calibration read after the newest      *)
(* change notice that the service had received by then.                    *)
ValidPoseIsCurrent ==
  [][retained'.pose # retained.pose /\ retained'.pose.valid
       => retained'.pose.version >= noticed]_vars

=============================================================================
