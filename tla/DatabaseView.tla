---------------------------- MODULE DatabaseView ----------------------------
(***************************************************************************)
(* What the scene cache promises its callers: a view of the manager's      *)
(* database that may lag behind it.  The view is always one content that   *)
(* the database had as a whole, never a mixture of two, it had it when the *)
(* service was last told of a change or later, and until the service is    *)
(* told of the next one the view never goes back in time.  SceneCache      *)
(* implements this with fetches, an epoch and the reuse of Scene objects.  *)
(***************************************************************************)
EXTENDS Naturals

CONSTANTS
  Scenes,  \* scene uids
  Data     \* what the database can say of a scene; 0: nothing, there is none

VARIABLES
  db,      \* the content of the database: what it says of each scene, numbered
  since,   \* the contents it had since the service was last told of a change
  view     \* the content that callers find; none when the cache is empty

viewVars == <<db, since, view>>

Init ==
  /\ db = [found |-> [s \in Scenes |-> 0], version |-> 0]
  /\ since = {db}
  /\ view = {db}

\* A user creates, changes or deletes a scene.
Change(s, datum) ==
  /\ db' = [found |-> [db.found EXCEPT ![s] = datum], version |-> db.version + 1]
  /\ since' = since \cup {db'}
  /\ UNCHANGED view

\* The service is told of a change.
Invalidate ==
  /\ since' = {db}
  /\ view' = {}
  /\ UNCHANGED db

\* Callers find a content, not older than the one they found before.
Load(content) ==
  /\ \A seen \in view : seen.version <= content.version
  /\ view' = {content}
  /\ UNCHANGED <<db, since>>

Next ==
  \/ \E s \in Scenes, datum \in Data : Change(s, datum)
  \/ Invalidate
  \/ \E content \in since : Load(content)

Spec == Init /\ [][Next]_viewVars

=============================================================================
