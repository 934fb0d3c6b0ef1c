---------------------------- MODULE RegionEvents ----------------------------
(***************************************************************************)
(* Entries and exits of one region in the analytics service: a message of  *)
(* tracked objects of one type is ingested, the events of the region are   *)
(* computed against what the last event of that type left behind, and the  *)
(* event and the region's own topic are published, all in one call of      *)
(* handleSceneDataMessage.  Events of all types share one debounce time.   *)
(* An object's history lives as long as each message of its type names it; *)
(* what the last event left behind may refer to a history that was         *)
(* dropped.                                                                *)
(***************************************************************************)
EXTENDS Naturals

CONSTANTS Objects,   \* ids of tracked objects
          TypeOf,    \* their types
          Debounce,  \* DEBOUNCE_DELAY in ticks
          MinFrames, \* MIN_FRAMES_FOR_RELIABLE_TRACK
          MaxMoves   \* bound: how often an object moves, appears or is lost

VARIABLES place,  \* where the tracker reports each object
          moves,
          since,  \* ticks since the last event of the region (rstate.when)
          chain,  \* the live object's history: locations, region entered
          held,   \* rstate.objects: "live" shares the object's history, the
                  \* others refer to a dropped one
          told,   \* objects whose last published event is an entry
          inTopic, \* objects in the last message of the region's topic
          event   \* entered and exited of the event just published
regionVars == <<place, moves, since, chain, held, told, inTopic, event>>

Types == {TypeOf[i] : i \in Objects}
Of(t) == {i \in Objects : TypeOf[i] = t}
NoChain == [locs |-> 0, region |-> FALSE]
NoEvent == [entered |-> {}, exited |-> {}]

RegionInit ==
  /\ place = [i \in Objects |-> "absent"] /\ moves = 0
  /\ since = Debounce + 1
  /\ chain = [i \in Objects |-> NoChain] /\ held = [i \in Objects |-> "no"]
  /\ told = {} /\ inTopic = {} /\ event = NoEvent

Move(i) ==
  /\ moves < MaxMoves /\ moves' = moves + 1
  /\ \E p \in {"absent", "out", "in"} \ {place[i]} : place' = [place EXCEPT ![i] = p]
  /\ event' = NoEvent
  /\ UNCHANGED <<since, chain, held, told, inTopic>>

Tick ==
  /\ since <= Debounce /\ since' = since + 1
  /\ event' = NoEvent
  /\ UNCHANGED <<place, moves, chain, held, told, inTopic>>

(* The objects of the type that the message does not name are dropped, the *)
(* others gain a location.                                                 *)
Ingest(t) ==
  [i \in Objects |->
     IF i \notin Of(t) THEN chain[i]
     ELSE IF place[i] = "absent" THEN NoChain
     ELSE [chain[i] EXCEPT !.locs = IF @ > MinFrames THEN @ ELSE @ + 1]]

Dropped(t) == {i \in Of(t) : place[i] = "absent" /\ chain[i] # NoChain}
Held(t) ==
  [i \in Objects |->
     IF i \in Dropped(t) /\ held[i] = "live"
     THEN IF chain[i].region THEN "stale" ELSE "stale, never entered"
     ELSE held[i]]

Present(t) == {i \in Of(t) : place[i] # "absent"}
Current(t) == {i \in Present(t) : place[i] = "in" /\ Ingest(t)[i].locs > MinFrames}
Previous(t) == {i \in Of(t) : held[i] # "no"}
New(t) == Current(t) \ Previous(t)
Old(t) == Previous(t) \ Current(t)

Entering(t) ==
  [i \in Objects |-> [Ingest(t)[i] EXCEPT !.region = @ \/ i \in New(t)]]

\* Mutant of EmitsEvent: only an entry makes an event.
EmitsOnEntry(t) == New(t) # {} /\ since > Debounce

EmitsEvent(t) == New(t) \cup Old(t) # {} /\ since > Debounce

(* An exit is published when the history the last event referred to still *)
(* has the entry.                                                          *)
Exited(t) ==
  {i \in Old(t) : \/ Held(t)[i] = "live" /\ Entering(t)[i].region
                  \/ Held(t)[i] = "stale"}

\* Mutant of KeptWithout: the objects of a message without an event are kept.
KeptAlways(t) ==
  [i \in Objects |-> IF i \in Of(t) THEN IF i \in Current(t) THEN "live" ELSE "no"
                     ELSE held[i]]

(* What the next message is compared with changes with an event only.     *)
KeptWithout(t) == Held(t)

PublishRegion(t) == inTopic' = (inTopic \ Of(t)) \cup {i \in Present(t) : chain'[i].region}

EmitEvent(t) ==
  /\ EmitsEvent(t)
  /\ event' = [entered |-> New(t), exited |-> Exited(t)]
  /\ told' = (told \ Exited(t)) \cup New(t)
  /\ held' = [i \in Objects |-> IF i \in Current(t) THEN "live"
                                ELSE IF i \in Of(t) THEN "no" ELSE held[i]]
  /\ chain' = [i \in Objects |->
                 [Entering(t)[i] EXCEPT !.region = @ /\ ~(i \in Old(t) /\ Held(t)[i] = "live")]]
  /\ since' = 0

KeepQuiet(t) ==
  /\ ~EmitsEvent(t)
  /\ held' = KeptWithout(t)
  /\ chain' = Entering(t)
  /\ event' = NoEvent
  /\ UNCHANGED <<since, told>>

HandleSceneData(t) ==
  /\ EmitEvent(t) \/ KeepQuiet(t)
  /\ PublishRegion(t)
  /\ UNCHANGED <<place, moves>>

RegionNext ==
  \/ Tick
  \/ \E i \in Objects : Move(i)
  \/ \E t \in Types : HandleSceneData(t)

(* Time goes on and the tracker keeps sending messages of every type.     *)
RegionFairness ==
  /\ WF_regionVars(Tick)
  /\ \A t \in Types : WF_regionVars(HandleSceneData(t))

RegionSpec == RegionInit /\ [][RegionNext]_regionVars /\ RegionFairness

(***************************************************************************)
(* Properties.                                                             *)
(***************************************************************************)
Inside == {i \in Objects : place[i] = "in"}

(* Nobody leaves who was not announced: an exit is published only for an   *)
(* object whose entry was, across debounced events and dropped histories   *)
(* (region.py:98-137).                                                     *)
ExitFollowsEntry == [][event'.exited \subseteq told]_event

(* However the types take turns at the one debounce time, once the objects *)
(* stay where they are every entry and every exit is accounted for in an   *)
(* event (region.py:98, rstate.when shared by all types).                  *)
OccupancyTold == {i \in Objects : held[i] # "no"} = Inside

(* "Publishes the subset of tracked objects currently inside each region"  *)
(* (src/analytics/README.md:22-23): once the objects stay where they are,  *)
(* the region's topic names those inside.                                  *)
ShownSettles == <>[](inTopic = Inside)
=============================================================================
