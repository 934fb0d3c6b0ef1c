------------------------- MODULE SceneRegistration -------------------------
(***************************************************************************)
(* Registration of a scene for AprilTag calibration.  The Manager tells    *)
(* the service of every save of the scene; the handler resets what is      *)
(* stored when the map is newer than the last registration and starts a    *)
(* run in a thread of its own, unless a run holds the lock.  A run detects *)
(* the tags, replaces the stored markers one request at a time and marks   *)
(* the scene processed, which is again a save.  Handlers run one at a      *)
(* time, runs and the Manager's users in between their requests.           *)
(***************************************************************************)
EXTENDS Naturals

CONSTANTS Tags,        \* AprilTag ids
          TagsOf(_),   \* the tags to be found on each version of the map
          Runs,        \* threads; Cardinality bounds how many are alive
          MaxMap,      \* bound on versions of the map
          MaxCalls,    \* bound on saves without a new map and on clients' calls
          MaxRefusals  \* bound on failed requests to the Manager

VARIABLES map,       \* version of the scene's map, counts the uploads
          processed, \* map_processed: 0 if None, or the version uploaded last
                     \* when that time was taken
          markers,   \* the version of the map each stored marker is from, or 0
          ready,     \* the scene has an entry in cam_calib_objs
          saves,     \* saves the service has yet to be told of
          call,      \* the call being handled: its step, markers left, map
          run,       \* the threads of process_scene
          calls, failures
registrationVars == <<map, processed, markers, ready, saves, call, run, calls, failures>>

NoCall == [pc |-> "idle", left |-> {}, map |-> 0]
NoRun == [pc |-> "idle", left |-> {}, map |-> 0, update |-> FALSE, stamp |-> 0]
Stored == {t \in Tags : markers[t] # 0}

(* The map file is newer than map_processed, or that was set to None.      *)
Updated == processed < map

Locked == \E r \in Runs : run[r].pc \notin {"idle", "acquire"}

(* preprocess_scenes starts a run for the scene as it is found.           *)
RegistrationInit ==
  /\ map = 1 /\ processed \in {0, 1}
  /\ markers = [t \in Tags |-> IF t \in TagsOf(1) THEN processed ELSE 0]
  /\ ready = FALSE /\ saves = 0 /\ call = NoCall
  /\ \E r \in Runs :
       run = [s \in Runs |-> IF s = r THEN [NoRun EXCEPT !.pc = "acquire", !.map = 1,
                                                         !.update = processed = 0]
                             ELSE NoRun]
  /\ calls = 0 /\ failures = 0

(***************************************************************************)
(* The Manager                                                             *)
(***************************************************************************)
Upload ==
  /\ map < MaxMap /\ map' = map + 1 /\ processed' = 0
  /\ saves' = saves + 1
  /\ UNCHANGED <<markers, ready, call, run, calls, failures>>

Edit ==
  /\ calls < MaxCalls /\ calls' = calls + 1
  /\ saves' = saves + 1
  /\ UNCHANGED <<map, processed, markers, ready, call, run, failures>>

(***************************************************************************)
(* Handlers                                                                *)
(***************************************************************************)
(* scene_update_thread_wrapper: nothing is started, or kept for later,     *)
(* while a run holds the lock.                                             *)
StartRun(version) ==
  IF Locked THEN UNCHANGED run
  ELSE \E r \in Runs : /\ run[r].pc = "idle"
                       /\ run' = [run EXCEPT ![r] = [NoRun EXCEPT !.pc = "acquire",
                                                       !.map = version, !.update = TRUE]]

Patch ==
  /\ saves > 0 /\ call.pc = "idle" /\ saves' = saves - 1
  /\ \/ /\ Updated
        /\ ready' = FALSE
        /\ call' = [pc |-> "list", left |-> {}, map |-> map]
     \/ ~Updated /\ UNCHANGED <<ready, call>>
  /\ UNCHANGED <<map, processed, markers, run, calls, failures>>

ResetList ==
  /\ call.pc = "list"
  /\ call' = [call EXCEPT !.pc = "delete", !.left = Stored]
  /\ UNCHANGED <<map, processed, markers, ready, saves, run, calls, failures>>

(* A marker that someone else deleted ends the reset; its result is not    *)
(* looked at.                                                              *)
ResetDelete ==
  /\ call.pc = "delete"
  /\ \E t \in call.left :
       /\ markers' = [markers EXCEPT ![t] = 0]
       /\ call' = [call EXCEPT !.left = IF markers[t] = 0 THEN {} ELSE @ \ {t}]
  /\ UNCHANGED <<map, processed, ready, saves, run, calls, failures>>

ResetFails ==
  /\ call.pc \in {"list", "delete"} /\ failures < MaxRefusals
  /\ failures' = failures + 1
  /\ call' = [call EXCEPT !.pc = "delete", !.left = {}]
  /\ UNCHANGED <<map, processed, markers, ready, saves, run, calls>>

ResetDone ==
  /\ call.pc = "delete" /\ call.left = {}
  /\ call' = NoCall /\ StartRun(call.map)
  /\ UNCHANGED <<map, processed, markers, ready, saves, calls, failures>>

(* A client's registration: refused as busy, started, or, when there is    *)
(* nothing new, answered from the stored markers in the handler itself.    *)
Post ==
  /\ calls < MaxCalls /\ calls' = calls + 1 /\ call.pc = "idle"
  /\ \/ Updated /\ StartRun(map) /\ UNCHANGED ready
     \/ ~Updated /\ ready' = TRUE /\ UNCHANGED run
  /\ UNCHANGED <<map, processed, markers, saves, call, failures>>

(***************************************************************************)
(* A run                                                                   *)
(***************************************************************************)
Step(r, from, to) == /\ run[r].pc = from
                     /\ run' = [run EXCEPT ![r] = to]

Acquire(r) ==
  /\ ~Locked
  /\ Step(r, "acquire", [run[r] EXCEPT !.pc = "build"])
  /\ UNCHANGED <<map, processed, markers, ready, saves, call, calls, failures>>

Build(r) ==
  /\ Step(r, "build", [run[r] EXCEPT !.pc = IF run[r].update THEN "list" ELSE "load"])
  /\ ready' = TRUE
  /\ UNCHANGED <<map, processed, markers, saves, call, calls, failures>>

\* Mutant of Cleared: the markers found first are left as they are.
ClearedNever == {}

(* What a run deletes before it stores its own markers.                    *)
Cleared == Stored

(* After the detection, which a reset may have left without its object.    *)
List(r) ==
  /\ Step(r, "list", IF ready THEN [run[r] EXCEPT !.pc = "clear", !.left = Cleared]
                     ELSE NoRun)
  /\ UNCHANGED <<map, processed, markers, ready, saves, call, calls, failures>>

Clear(r) ==
  /\ \/ \E t \in run[r].left :
          /\ markers' = [markers EXCEPT ![t] = 0]
          /\ Step(r, "clear", IF markers[t] = 0 THEN NoRun
                              ELSE [run[r] EXCEPT !.left = @ \ {t}])
     \/ /\ run[r].left = {} /\ UNCHANGED markers
        /\ Step(r, "clear", [run[r] EXCEPT !.pc = "create", !.left = TagsOf(run[r].map)])
  /\ UNCHANGED <<map, processed, ready, saves, call, calls, failures>>

(* Only a run with the lock creates markers, so the one to be created is   *)
(* not found among those listed before.                                    *)
Create(r) ==
  /\ \/ \E t \in run[r].left :
          /\ markers' = [markers EXCEPT ![t] = run[r].map]
          /\ Step(r, "create", [run[r] EXCEPT !.left = @ \ {t}])
     \/ /\ run[r].left = {} /\ UNCHANGED markers
        /\ Step(r, "create", [run[r] EXCEPT !.pc = "mark", !.stamp = map])
  /\ UNCHANGED <<map, processed, ready, saves, call, calls, failures>>

Mark(r) ==
  /\ Step(r, "mark", [run[r] EXCEPT !.pc = "load"])
  /\ processed' = run[r].stamp /\ saves' = saves + 1
  /\ UNCHANGED <<map, markers, ready, call, calls, failures>>

(* The stored markers become the object's; without an object that is an    *)
(* error, and either way the run is over.                                  *)
LoadMarkers(r) ==
  /\ Step(r, "load", NoRun)
  /\ UNCHANGED <<map, processed, markers, ready, saves, call, calls, failures>>

(* A failed request ends the replacement with a RuntimeError.             *)
RequestFails(r) ==
  /\ failures < MaxRefusals /\ failures' = failures + 1
  /\ run[r].pc \in {"list", "clear", "create", "mark"}
  /\ run' = [run EXCEPT ![r] = NoRun]
  /\ UNCHANGED <<map, processed, markers, ready, saves, call, calls>>

RunStep(r) == \/ Acquire(r) \/ Build(r) \/ List(r) \/ Clear(r) \/ Create(r)
              \/ Mark(r) \/ LoadMarkers(r)
Handle == Patch \/ ResetList \/ ResetDelete \/ ResetDone

RegistrationNext ==
  \/ Upload \/ Edit \/ Post
  \/ Handle \/ ResetFails
  \/ \E r \in Runs : RunStep(r) \/ RequestFails(r)

RegistrationFairness == WF_registrationVars(Handle) /\ \A r \in Runs : WF_registrationVars(RunStep(r))

RegistrationSpec == RegistrationInit /\ [][RegistrationNext]_registrationVars /\ RegistrationFairness

(***************************************************************************)
(* Properties.                                                             *)
(***************************************************************************)
Marks(r) == run[r].pc = "mark" /\ run'[r].pc = "load"

(* "Always clear then insert so ... obsolete IDs from a prior map cannot   *)
(* linger beside the new set" (atag_camera_calibration_controller.py:114): *)
(* whatever runs, resets and uploads go on, a scene is marked when every   *)
(* stored marker is from the map the marking run looked at.                *)
NothingObsolete ==
  [][\A r \in Runs : Marks(r) => \A t \in Stored : markers[t] = run[r].map]_registrationVars

AtRest == saves = 0 /\ call = NoCall /\ \A r \in Runs : run[r] = NoRun

(* "map_processed is updated only after the full replace succeeds;         *)
(* otherwise ... processed state is left unset so registration can be      *)
(* retried" (atag_camera_calibration_controller.py:116-118): at rest, a    *)
(* scene that counts as registered has a marker for every tag of its map.  *)
MarkedIsComplete == AtRest /\ ~Updated => TagsOf(map) \subseteq Stored
=============================================================================
