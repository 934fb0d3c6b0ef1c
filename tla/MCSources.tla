------------------------------ MODULE MCSources ------------------------------
(***************************************************************************)
(* Small instances of two stores in one run: the maps of a scene in the    *)
(* Manager, and the poses and claims of external sources in the            *)
(* controller.  They share nothing: the first state chooses one of Parts,  *)
(* and only its variables move.                                            *)
(***************************************************************************)
EXTENDS SourceMaps, ExternalSource

CONSTANT Parts

VARIABLE part

Kind(pose, cameras, intrinsics) == [pose |-> pose, cameras |-> cameras, intrinsics |-> intrinsics]

\* Two publishers that use one object id; the first message with the whole
\* calibration, one without a pose, and a pose without cameras.
MCKinds == {Kind("good", TRUE, TRUE), Kind("none", FALSE, TRUE), Kind("good", FALSE, FALSE)}

Init ==
  /\ part \in Parts
  /\ MapsInit /\ ExternalInit
  \* The one that is not run has one initial state.
  /\ part # "external" => sweep["pose"].on
  /\ part # "maps" => scene = NoScene

vars == <<part, mapVars, externalVars>>

InMaps == part = "maps" /\ MapsNext /\ UNCHANGED <<part, externalVars>>
InExternal == part = "external" /\ ExternalNext /\ UNCHANGED <<part, mapVars>>

Next == InMaps \/ InExternal

(***************************************************************************)
(* As the part never changes, fairness of a disjunction over the two is    *)
(* fairness of the action of the one that runs.                            *)
(***************************************************************************)
own == IF part = "maps" THEN mapVars ELSE externalVars
At(p, A) == part = p /\ part' = part /\ A
Sweeping(c) == SweepTick(c) \/ SweepEntry(c) \/ ChunkDone(c) \/ SweepDone(c)

Fairness ==
  /\ WF_own(At("maps", Sweep) \/ At("external", Clock))
  /\ WF_own(At("maps", Request("w1")) \/ At("external", ResolveIntrinsics))
  /\ WF_own(At("maps", Request("w2")) \/ At("external", Claim))
  /\ WF_own(At("external", Sweeping("pose"))) /\ WF_own(At("external", Sweeping("claim")))

Spec == Init /\ [][Next]_vars /\ Fairness

(* What nobody needs goes in the end: zips that were replaced or deleted,  *)
(* or whose upload failed, and poses and claims that have expired, however *)
(* the entries of a cache move while it is swept in chunks                 *)
(* (mapping_store.py:287-302, external_source.py:368-391).                 *)
LeftoversGo ==
  <>[](IF part = "maps" THEN NoZipLeft ELSE ExpiredAreSwept)

=============================================================================
