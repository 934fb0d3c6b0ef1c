-------------------------- MODULE MCTrackLifecycle --------------------------
(* TrackLifecycle on small instances. *)
EXTENDS TrackLifecycle, TLC

=============================================================================
