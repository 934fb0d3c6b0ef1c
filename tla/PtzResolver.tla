----------------------------- MODULE PtzResolver -----------------------------
(***************************************************************************)
(* The positioning service with one PTZ camera: the poller that samples    *)
(* the camera (ptz_poller.py), the resolver that turns each accepted       *)
(* sample into one valid or invalid pose (ptz_resolver.py), and the broker *)
(* that keeps the last pose and the last status of the service.            *)
(*                                                                         *)
(* Time is counted in poll intervals. The camera's position at each tick   *)
(* is recorded; positions are never taken twice, as a camera cannot go and *)
(* come back between two samples. Angles are exact: two readings differ by *)
(* more than the settle threshold exactly when the positions differ.       *)
(***************************************************************************)
EXTENDS PtzCalibration, Sequences, SequencesExt

CONSTANTS
  MaxTime,         \* bound: ticks
  MaxPosition,     \* bound: positions the camera takes, in this order
  HomePositions,   \* positions within the backlash home tolerance
  Settle,          \* settle_interval_s
  MaxPoseAge,      \* max_pose_age_s
  Reports,         \* reported_move_status: TRUE for MOVING
  MaxInFlight      \* bound: messages on the wire

ASSUME ResolverAssumption ==
  /\ MaxTime \in Nat \ {0} /\ MaxPosition \in Nat /\ HomePositions \subseteq Nat
  /\ Settle \in Nat \ {0} /\ MaxPoseAge \in Nat \ {0}
  /\ Reports \subseteq BOOLEAN /\ MaxInFlight \in Nat \ {0}

VARIABLES
  now,
  posAt,       \* posAt[t]: where the camera was at tick t
  seq,         \* PTZPoller.sequence
  polled,      \* the camera was polled at this tick
  src,         \* _SourceState of the camera
  clockOk,     \* ClockMonitor.is_synchronized
  session,     \* time of the service's connection
  will,        \* session whose last will the broker still holds, 0 for none
  retained,    \* retained messages: [pose, status]
  wire,        \* messages on their way to the subscriber
  subscribed   \* the consumer is connected

worldVars    == <<now, posAt>>
pollVars     == <<seq, polled>>
brokerVars   == <<session, will, retained, wire, subscribed>>
resolverVars == <<worldVars, pollVars, src, clockOk, brokerVars>>

NoMessage == [kind |-> "none"]

Status(online, ts) == [kind |-> "status", online |-> online, ts |-> ts]

NoMotion  == [reading |-> -1, motion |-> 0, start |-> 0, known |-> FALSE]
NewSource == [lastSeq |-> 0, lastTs |-> 0, m |-> NoMotion, skip |-> FALSE]

ResolverInit ==
  /\ CalibInit
  /\ now = 1 /\ posAt = <<0>>
  /\ seq = 0 /\ polled = FALSE
  /\ src = NewSource /\ clockOk = TRUE
  /\ session = 0 /\ will = 0 /\ wire = <<>> /\ subscribed = TRUE
  /\ retained = [pose |-> NoMessage, status |-> NoMessage]

Publish(m) ==
  /\ Len(wire) < MaxInFlight
  /\ retained' = [retained EXCEPT ![m.kind] = m]
  /\ wire' = IF subscribed THEN Append(wire, m) ELSE wire

---------------------------------------------------------------------------
(* A tick: the camera stays or moves on. *)
Tick ==
  /\ now < MaxTime /\ now' = now + 1
  /\ \E p \in {posAt[now], posAt[now] + 1} :
       p <= MaxPosition /\ posAt' = Append(posAt, p)
  /\ polled' = FALSE
  /\ UNCHANGED <<calibVars, seq, src, clockOk, brokerVars>>

ClockLost ==
  /\ clockOk /\ Spend("clock") /\ clockOk' = FALSE
  /\ UNCHANGED <<managerVars, life, loadVars, worldVars, pollVars, src, brokerVars>>

ClockBack ==
  /\ ~clockOk /\ clockOk' = TRUE
  /\ UNCHANGED <<calibVars, worldVars, pollVars, src, brokerVars>>

(* _has_continuity_gap, negated: the next number, and not too late. *)
Continues(s, n, ts) ==
  /\ s.lastSeq > 0 => n = s.lastSeq + 1
  /\ s.lastTs > 0 => ts - s.lastTs <= MaxPoseAge

(* _resolve_motion: backlash known once the camera was home; a changed     *)
(* reading or a reported move is motion; history begins with the first     *)
(* sample after a reset.                                                   *)
Moved(m, pos, ts, reported) ==
  [reading |-> pos,
   motion  |-> IF reported \/ (m.reading # -1 /\ m.reading # pos) THEN ts ELSE m.motion,
   start   |-> IF m.start = 0 THEN ts ELSE m.start,
   known   |-> m.known \/ pos \in HomePositions]

(* _stationary_state: still now, and the history spans a settle interval   *)
(* without motion.                                                         *)
Settled(m, ts) ==
  /\ m.known /\ m.motion # ts
  /\ m.start <= ts - Settle
  /\ m.motion > 0 => ts - m.motion >= Settle

(* Mutant of Valid. *)
ValidWhilePending(m) ==
  clockOk /\ calib # NoCalib /\ Settled(m, now) /\ ~src.skip

(* The first pose after a change of calibration, and every pose while a    *)
(* reload is pending, is invalid.                                          *)
Valid(m) ==
  clockOk /\ calib # NoCalib /\ Settled(m, now) /\ ~src.skip /\ ~pending

(* _submit_locked for a sample of this tick: one pose, valid or invalid.   *)
Accept(n, reported) ==
  LET before == IF clockOk /\ Continues(src, n, now) THEN src.m ELSE NoMotion
      after  == IF clockOk /\ calib # NoCalib
                THEN Moved(before, posAt[now], now, reported) ELSE before
  IN /\ src' = [lastSeq |-> n, lastTs |-> IF clockOk THEN now ELSE 0, m |-> after,
                skip |-> FALSE]
     /\ Publish([kind |-> "pose", seq |-> n, ts |-> now, valid |-> Valid(after),
                 version |-> calib, pos |-> posAt[now]])

(* poll_once. A poll that fails takes no number and shows as a tick        *)
(* without a poll.                                                         *)
Poll(reported) ==
  /\ life = "online" /\ ~polled
  /\ polled' = TRUE /\ seq' = seq + 1
  /\ Accept(seq + 1, reported)
  /\ UNCHANGED <<calibVars, worldVars, clockOk, session, will, subscribed>>

(* A sample that is refused has used its number: the next one has a gap.   *)
PollRejected ==
  /\ life = "online" /\ ~polled /\ Spend("reject")
  /\ polled' = TRUE /\ seq' = seq + 1
  /\ UNCHANGED <<managerVars, life, loadVars, worldVars, src, clockOk, brokerVars>>

---------------------------------------------------------------------------
(* Lifecycle and calibration, with their effect on the source. *)
StartService ==
  /\ Start \/ StartUnread
  /\ seq' = 0 /\ src' = NewSource
  /\ UNCHANGED <<worldVars, polled, clockOk, brokerVars>>

(* on_connect: the status of the new session goes out before any pose. *)
ConnectService ==
  /\ Connect
  /\ session' = now /\ Publish(Status(TRUE, now))
  /\ UNCHANGED <<worldVars, pollVars, src, clockOk, will, subscribed>>

CrashService ==
  /\ Crash
  /\ will' = IF life = "online" THEN session ELSE will
  /\ UNCHANGED <<worldVars, pollVars, src, clockOk, session, retained, wire, subscribed>>

(* The last will carries the start of its session. *)
WillFires ==
  /\ will > 0 /\ will' = 0 /\ Publish(Status(FALSE, will))
  /\ UNCHANGED <<calibVars, worldVars, pollVars, src, clockOk, session, subscribed>>

ApplyCalibration ==
  /\ Apply
  /\ src' = IF Stale THEN src
            ELSE IF reload.read = calib THEN [src EXCEPT !.skip = FALSE]
            ELSE [src EXCEPT !.m = NoMotion, !.skip = @ \/ src.lastSeq > 0]
  /\ UNCHANGED <<worldVars, pollVars, clockOk, brokerVars>>

CalibrationSteps ==
  /\ \/ Save \/ TakeRequest \/ BeginReload \/ FullRefresh \/ Load \/ LoadFails
     \/ \E v \in notices : OnCameraConfig(v)
  /\ UNCHANGED resolverVars

ResolverNext ==
  \/ Tick \/ ClockLost \/ ClockBack
  \/ \E reported \in Reports : Poll(reported)
  \/ PollRejected
  \/ StartService \/ ConnectService \/ CrashService \/ WillFires
  \/ ApplyCalibration \/ CalibrationSteps

=============================================================================
