------------------------------ MODULE MCServices ------------------------------
(***************************************************************************)
(* Small instances of the services that do not share state with each       *)
(* other, in one run: the first state chooses one of Parts, and only that  *)
(* service's variables move.  Each service starts from its own Init and    *)
(* keeps its own fairness.                                                 *)
(***************************************************************************)
EXTENDS CategoryTrackers, MqttSession, PtzCalibration, RemoteChildren,
        RegionEvents, SceneRegistration

CONSTANT Parts

VARIABLE part

\* Two objects of one type and one of another.
MCTypeOf == [a |-> 1, b |-> 1, c |-> 2]

\* The second map has lost a tag.
MCTagsOf(v) == IF v = 1 THEN {"t1", "t2"} ELSE {"t2"}

\* The tracker threads of one scene.
MCCategories == {"person", "vehicle"}
MCMessengers == {"m1", "m2"}

\* Two changes, a restart, a failed read, and the periodic refresh.
MCScenarios ==
  { [e \in Events |-> CASE e \in {"save", "start"} -> 2
                        [] e \in {"badload", "refresh"} -> 1
                        [] OTHER -> 0] }

\* One remote child of the first of two scenes: a request can fail before and
\* after the child was read.
MCParentOf == [c1 |-> "p1"]
MCFirstRow == [c1 |-> "h1"]

vars == <<part, chunked, regionVars, registrationVars, trackerVars, sessionVars, calibVars, childVars>>

Init ==
  /\ part \in Parts
  /\ RegionInit /\ RegistrationInit /\ TrackersInit
  /\ SessionInit /\ CalibInit /\ ChildrenInit
  \* The services that are not run have one initial state.
  /\ part # "registration" => processed = 0 /\ run["r2"] = NoRun
  /\ part # "trackers" => ~chunked

InRegion == /\ part = "region" /\ RegionNext
  /\ UNCHANGED <<part, chunked, registrationVars, trackerVars, sessionVars, calibVars, childVars>>
InRegistration == /\ part = "registration" /\ RegistrationNext
  /\ UNCHANGED <<part, chunked, regionVars, trackerVars, sessionVars, calibVars, childVars>>
InTrackers == /\ part = "trackers" /\ TrackersNext
  /\ UNCHANGED <<part, chunked, regionVars, registrationVars, sessionVars, calibVars, childVars>>
InSession == /\ part = "session" /\ SessionNext
  /\ UNCHANGED <<part, chunked, regionVars, registrationVars, trackerVars, calibVars, childVars>>
InCalibration == /\ part = "calibration" /\ CalibNext
  /\ UNCHANGED <<part, chunked, regionVars, registrationVars, trackerVars, sessionVars, childVars>>
InKids == /\ part = "children" /\ ChildrenNext
  /\ UNCHANGED <<part, chunked, regionVars, registrationVars, trackerVars, sessionVars, calibVars>>

Next == InRegion \/ InRegistration \/ InTrackers \/ InSession \/ InCalibration \/ InKids

(***************************************************************************)
(* The fairness of the services.  As the part never changes, fairness of a *)
(* disjunction over the services is fairness of the action of the one that *)
(* runs: each line below is an action, or a choice that is fair as a       *)
(* whole, of each service that has that many.                              *)
(***************************************************************************)
own == CASE part = "region" -> regionVars
         [] part = "registration" -> registrationVars
         [] part = "trackers" -> trackerVars
         [] part = "session" -> sessionVars
         [] part = "calibration" -> calibVars
         [] part = "children" -> childVars
At(p, A) == part = p /\ part' = part /\ A

Fair1 == \/ At("region", Tick)
         \/ At("registration", Handle)
         \/ At("trackers", Joiner)
         \/ At("session", LinkUp)
         \/ At("calibration", Start)
         \/ At("children", OnConnect)
Fair2 == \/ At("region", HandleSceneData(1))
         \/ At("registration", RunStep("r1"))
         \/ At("trackers", Feeder)
         \/ At("session", Library)
         \/ At("calibration", Connect)
         \/ At("children", Answer)
Fair3 == \/ At("region", HandleSceneData(2))
         \/ At("registration", RunStep("r2"))
         \/ At("trackers", Messenger("m1"))
         \/ At("session", Main)
         \/ At("calibration", BeginReload)
         \/ At("children", Work)
Fair4 == \/ At("trackers", Messenger("m2"))
         \/ At("calibration", FullRefresh)
         \/ At("children", \E s \in {"p1", "p2"}, refused \in SUBSET {"c1"} : ReadScene(s, refused))
Fair5 == \/ At("trackers", Worker("person"))
         \/ At("calibration", Load)
         \/ At("children", Commit)
Fair6 == \/ At("trackers", Worker("vehicle"))
         \/ At("calibration", Apply)
         \/ At("children", Finish)
Fair7 == At("children", \E k \in Controllers : StartChild(k))
Fair8 == At("children", \E k \in Controllers : ChildTells(k))

Fairness ==
  /\ WF_own(Fair1) /\ WF_own(Fair2) /\ WF_own(Fair3) /\ WF_own(Fair4)
  /\ WF_own(Fair5) /\ WF_own(Fair6) /\ WF_own(Fair7) /\ WF_own(Fair8)
  /\ SF_own(At("children", OnNotice))
  /\ SF_own(At("children", \E k \in Controllers : StopChild(k)))

Spec == Init /\ [][Next]_vars /\ Fairness

(***************************************************************************)
(* Once the users, the network and the failures leave a service alone, its *)
(* threads bring it where it should be, whatever order they went in:       *)
(*  - every entry and exit of a region has had its event, although the     *)
(*    types of objects share one debounce time (region.py:98);             *)
(*  - registration is at rest: the save by which a run marks the scene     *)
(*    does not start another run (auto_camera_calibration_api.py:569-585); *)
(*  - after join() every thread of a tracker has ended, whatever category  *)
(*    a message brought meanwhile (tracking.py:252-283);                   *)
(*  - the tracker service is subscribed to every topic and runs scenes at  *)
(*    least as new as any update it handled (mqtt_client.cpp:187-287);     *)
(*  - the calibration in use is the Manager's, also when the notice was    *)
(*    lost (positioning_service.py, refresh_calibrations);                 *)
(*  - the remote children of the Manager's rows are connected, and no      *)
(*    others, unless a change or a request was missed                      *)
(*    (scene_controller.py:1416-1608).                                     *)
(***************************************************************************)
ServicesSettle ==
  <>[](CASE part = "region" -> OccupancyTold
         [] part = "registration" -> AtRest
         [] part = "trackers" -> JoinEnded
         [] part = "session" -> AllSubscribed /\ UpdateServed
         [] part = "calibration" -> CalibrationConverged
         [] part = "children" -> ChildrenInLine)

===============================================================================
