--------------------------- MODULE PtzCalibration ---------------------------
(***************************************************************************)
(* The PTZ calibration of one camera on its way from the Manager to the    *)
(* resolver of the positioning service (positioning_service.py,            *)
(* manager_calibration.py, the calibration part of ptz_resolver.py).       *)
(*                                                                         *)
(* The Manager commits a change and publishes a notice; the MQTT thread of *)
(* the service invalidates and queues a reload; one refresh thread reads   *)
(* the Manager, on request and at intervals, and applies what it read      *)
(* under the generation it captured before the read.                       *)
(***************************************************************************)
EXTENDS Integers, FiniteSets

CONSTANT Scenarios   \* bound: how often each event happens, a choice of scenarios

(* Events of the environment, and the timer of the periodic refresh: a     *)
(* scenario has it (any number above 0) or not.                            *)
Events == {"save", "start", "badload", "refresh",
           "reject", "clock", "lose", "disconnect", "reconcile"}

VARIABLES
  mver,       \* version in the Manager's database
  notices,    \* change notices on their way to the service
  life,       \* the service: down, loaded (not connected yet), online
  left,       \* what is left of the scenario
  calib,      \* source_calibrations[camera]: a version, NoCalib for None
  pending,    \* calibration_pending
  gen,        \* _calibration_generations[camera]
  request,    \* the camera is in _calibration_requests
  inSet,      \* the camera is in _pending_calibration_sources
  reload,     \* the refresh thread: [at, gen, read]
  noticed     \* history: newest version whose notice this process received

managerVars == <<mver, notices>>
loadVars    == <<calib, pending, gen, request, inSet, reload, noticed>>
calibVars   == <<managerVars, life, left, loadVars>>

Spend(e) == left[e] > 0 /\ left' = [left EXCEPT ![e] = @ - 1]

NoCalib == 0
Idle     == [at |-> "idle", gen |-> 0, read |-> NoCalib]

CalibInit ==
  /\ mver = 1 /\ notices = {}
  /\ life = "down" /\ left \in Scenarios
  /\ calib = NoCalib /\ pending = FALSE /\ gen = 0
  /\ request = FALSE /\ inSet = FALSE /\ reload = Idle
  /\ noticed = NoCalib

---------------------------------------------------------------------------
(* The Manager: the notice follows the commit. Without a subscriber it is  *)
(* lost.                                                                   *)
Save ==
  /\ Spend("save")
  /\ mver' = mver + 1
  /\ notices' = IF life = "online" THEN notices \cup {mver + 1} ELSE notices
  /\ UNCHANGED <<life, loadVars>>

(* A read of the Manager returns the committed record, or None or an error *)
(* for a record that is missing, incomplete or refused.                    *)
Reads(v) == (v = mver /\ UNCHANGED left) \/ (v = NoCalib /\ Spend("badload"))

Restarts(v) ==
  /\ life = "down" /\ life' = "loaded"
  /\ calib' = v /\ pending' = FALSE /\ gen' = 0
  /\ request' = FALSE /\ inSet' = FALSE
  /\ reload' = Idle /\ noticed' = NoCalib
  /\ UNCHANGED managerVars

(* main and __init__: the first calibrations are read before connecting. A *)
(* camera without one is served all the same.                              *)
Start == Restarts(mver) /\ Spend("start")

StartUnread ==
  /\ left.start > 0 /\ left.badload > 0
  /\ left' = [left EXCEPT !.start = @ - 1, !.badload = @ - 1]
  /\ Restarts(NoCalib)

Connect ==
  /\ life = "loaded" /\ life' = "online"
  /\ UNCHANGED <<managerVars, left, loadVars>>

Crash ==
  /\ life # "down" /\ life' = "down" /\ notices' = {}
  /\ left.start > 0
  /\ UNCHANGED <<mver, left, loadVars>>

(* on_camera_config: invalidate, then queue unless the camera is pending.  *)
OnCameraConfig(v) ==
  /\ life = "online" /\ v \in notices
  /\ notices' = notices \ {v}
  /\ gen' = gen + 1 /\ pending' = TRUE
  /\ request' = (request \/ ~inSet) /\ inSet' = TRUE
  /\ noticed' = IF v > noticed THEN v ELSE noticed
  /\ UNCHANGED <<mver, life, left, calib, reload>>

---------------------------------------------------------------------------
(* refresh_calibrations *)
Waiting == reload.at \in {"idle", "failed"}

TakeRequest ==
  /\ life = "online" /\ Waiting /\ request
  /\ request' = FALSE /\ reload' = [reload EXCEPT !.at = "taken"]
  /\ UNCHANGED <<managerVars, life, left, calib, pending, gen, inSet, noticed>>

Captured == [at |-> "reading", gen |-> gen, read |-> NoCalib]

(* Mutant of BeginReload: the camera stays in the pending set. *)
BeginReloadKept ==
  /\ life = "online" /\ reload.at = "taken"
  /\ reload' = Captured
  /\ UNCHANGED <<managerVars, life, left, calib, pending, gen, request, inSet, noticed>>

(* The camera leaves the pending set before the generation is captured.    *)
BeginReload ==
  /\ life = "online" /\ reload.at = "taken"
  /\ inSet' = FALSE /\ reload' = Captured
  /\ UNCHANGED <<managerVars, life, left, calib, pending, gen, request, noticed>>

(* The periodic reload of every source, whether or not one was asked for.  *)
FullRefresh ==
  /\ life = "online" /\ Waiting /\ left.refresh > 0
  /\ reload' = Captured
  /\ UNCHANGED <<managerVars, life, left, calib, pending, gen, request, inSet, noticed>>

(* The generation of the result is the one from before the read. *)
ReadAs(v) == [reload EXCEPT !.at = "read", !.read = v]

Load ==
  /\ life = "online" /\ reload.at = "reading"
  /\ \E v \in {mver, NoCalib} : Reads(v) /\ reload' = ReadAs(v)
  /\ UNCHANGED <<managerVars, life, calib, pending, gen, request, inSet, noticed>>

(* A transport error leaves calibration and pending as they are; the       *)
(* thread goes back to waiting.                                            *)
LoadFails ==
  /\ life = "online" /\ reload.at = "reading" /\ Spend("badload")
  /\ reload' = [Idle EXCEPT !.at = "failed"]
  /\ UNCHANGED <<managerVars, life, calib, pending, gen, request, inSet, noticed>>

(* Mutant of Stale. *)
StaleNever == FALSE

Stale == reload.gen # gen

(* update_calibration: a stale result is dropped; an equal one only clears *)
(* the pending mark.                                                       *)
Apply ==
  /\ life = "online" /\ reload.at = "read"
  /\ IF Stale
     THEN UNCHANGED <<calib, pending>>
     ELSE calib' = reload.read /\ pending' = FALSE
  /\ reload' = Idle
  /\ UNCHANGED <<managerVars, life, left, gen, request, inSet, noticed>>

CalibNext ==
  \/ Save \/ Start \/ StartUnread \/ Connect \/ Crash
  \/ \E v \in notices : OnCameraConfig(v)
  \/ TakeRequest \/ BeginReload \/ FullRefresh \/ Load \/ LoadFails \/ Apply

(* The process restarts and its threads run; the rest is environment.      *)
CalibFairness ==
  /\ WF_calibVars(Start) /\ WF_calibVars(Connect)
  /\ WF_calibVars(BeginReload) /\ WF_calibVars(FullRefresh)
  /\ WF_calibVars(Load) /\ WF_calibVars(Apply)

CalibSpec == CalibInit /\ [][CalibNext]_calibVars /\ CalibFairness

---------------------------------------------------------------------------
(* A calibration that counts is never older than the newest change the     *)
(* service was told of: a read that was under way when the notice came is  *)
(* not applied, and until a later one is, every pose is invalid.           *)
CalibrationNotOutdated ==
  life = "online" /\ ~pending => calib = NoCalib \/ calib >= noticed

(* A change the service was told of is being looked after: a request is    *)
(* queued, or the reload under way is one whose result will count; only a  *)
(* read that just failed leaves it to the periodic refresh.                *)
PendingIsServed ==
  life = "online" /\ pending =>
    \/ request \/ reload.at \in {"taken", "failed"}
    \/ reload.at \in {"reading", "read"} /\ ~Stale

(* Changes and faults come to an end; then the resolver ends up with the   *)
(* Manager's calibration, also when the notice was lost.                   *)
CalibrationConverged ==
  life = "online" => calib = mver /\ ~pending

=============================================================================
