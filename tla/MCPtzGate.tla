------------------------------ MODULE MCPtzGate ------------------------------
(* The PTZ chain on small instances. *)
EXTENDS PtzGate

\* The camera starts at home; its second stop is away, its third near home again.
NearHome == {0, 2}
NeverMoving == {FALSE}

Calm == [e \in Events |-> IF e = "start" THEN 1 ELSE 0]
With(s) == [e \in Events |-> Calm[e] + (IF e \in s THEN 1 ELSE 0)]
Returning == [With({"reconcile"}) EXCEPT !["reconcile"] = 2]

\* What may go wrong together in one behaviour.
MCScenarios ==
  { With({"lose", "clock"}), With({"lose", "reject"}), With({"disconnect"}),
    With({"start"}), With({"reconcile", "save"}), Returning, With({"save", "refresh", "badload"}) }

\* The service restarts while the consumer is not connected.
MCInterrupted == {With({"start", "disconnect"})}

=============================================================================
