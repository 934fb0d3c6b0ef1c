------------------------- MODULE MCTrackerPipeline -------------------------
(* A small instance of TrackerPipeline: one scene with all the cameras.     *)
EXTENDS TrackerPipeline

CONSTANT Scene

OneScene == {Scene}
AllInOneScene == [c \in Cameras |-> Scene]

=============================================================================
