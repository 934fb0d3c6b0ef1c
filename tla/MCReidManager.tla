---------------------------- MODULE MCReidManager ----------------------------
(* ReidManager on small instances. *)
EXTENDS ReidManager

CONSTANTS r1, r2, person

\* The first track may leave and come back.
MCLives == [rv \in {r1, r2} |-> IF rv = r1 THEN 2 ELSE 1]

=============================================================================
