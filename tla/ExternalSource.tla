--------------------------- MODULE ExternalSource ---------------------------
(***************************************************************************)
(* External sources of the controller (external_source.py and its calls in *)
(* scene_controller.py): the cache of source poses and the registry of     *)
(* identity claims of one scene, filled by the worker of moving-object     *)
(* messages and swept by two timer threads, each in chunks under its lock. *)
(*                                                                         *)
(* A message has an event time, which the worker compares with its clock.  *)
(* Processing takes no time: the clock moves while the worker waits.       *)
(***************************************************************************)
EXTENDS Integers, Sequences, SequencesExt

CONSTANTS
  Sources,     \* publishers
  Ids,         \* object ids
  Ttl,         \* lifetime of a pose and of a claim
  MaxLag,      \* max_lag, which is also the grace of the sweeps
  Chunk,       \* DEFAULT_SWEEP_CHUNK_SIZE
  Kinds,       \* what messages carry: [pose, cameras, intrinsics]
  MaxNow,      \* bound: the clock
  MaxMessages  \* bound: messages that are not dropped

ASSUME TimesAreNaturals == Ttl \in Nat /\ MaxLag \in Nat /\ MaxNow \in Nat

VARIABLES
  now,
  entries,   \* both caches: entries["pose"] of sources, entries["claim"] of ids
  order,     \* their order of use, oldest first
  sweep,     \* their timers: [on, timer, tick, left, looked]
  work,      \* the worker: [at, m]
  count,     \* messages so far
  ideal,     \* history: the claims if none were ever swept
  newest     \* history: the newest pose kept of each source

externalVars == <<now, entries, order, sweep, work, count, ideal, newest>>

Caches == {"pose", "claim"}
Messages == {[pose |-> k.pose, cameras |-> k.cameras, intrinsics |-> k.intrinsics,
              source |-> s, when |-> t, id |-> i]
               : k \in Kinds, s \in Sources, t \in 0..(MaxNow + MaxLag), i \in Ids}
None == [when |-> -1]
Nothing == [k \in {} |-> None]

(* The caches share no state, so a behaviour sweeps one of them.            *)
ExternalInit ==
  /\ now = 0 /\ count = 0 /\ work = [at |-> "idle"]
  /\ entries = [c \in Caches |-> Nothing] /\ order = [c \in Caches |-> <<>>]
  /\ \E d \in Caches :
       sweep = [c \in Caches |->
                  [on |-> c = d, timer |-> c = d, tick |-> FALSE, left |-> 0, looked |-> 0]]
  /\ ideal = Nothing /\ newest = [s \in Sources |-> -1]

Has(c, k) == k \in DOMAIN entries[c]
Put(f, k, e) == [x \in DOMAIN f \cup {k} |-> IF x = k THEN e ELSE f[x]]
MoveToEnd(c, k) == [order EXCEPT ![c] = Append(Remove(@, k), k)]

Live(e, when) == when <= e.exp
Kept(s) == IF Has("pose", s) THEN entries["pose"][s] ELSE None

(* The lock of a cache is held while a chunk of it is examined.             *)
Free(c) == sweep[c].looked = 0

---------------------------------------------------------------------------
Clock ==
  /\ now < MaxNow /\ work.at = "idle" /\ now' = now + 1
  /\ \A c \in Caches : Free(c)
  /\ UNCHANGED <<entries, order, sweep, work, count, ideal, newest>>

(* Mutant of OutOfOrder. *)
OutOfOrderNever(m, kept) == FALSE

(* An older pose than the one kept does not replace it. *)
OutOfOrder(m, kept) == kept # None /\ m.when < kept.when

(* A source with cameras must send them with every pose. *)
CamerasMissing(m, kept) ==
  ~m.cameras /\ m.pose # "none" /\ kept # None /\ kept.camerasWhen >= 0

(* A pose within the lifetime of the last keeps its calibration. *)
NewPose(m, kept) ==
  LET same == kept # None /\ Live(kept, m.when)
  IN [when |-> m.when, exp |-> m.when + Ttl,
      intrinsics |-> same /\ kept.intrinsics,
      camerasWhen |-> IF same THEN kept.camerasWhen ELSE -1]

(* _resolveFromPose, _resolveFromCache *)
Resolved(m, kept) ==
  CASE CamerasMissing(m, kept) -> None
    [] m.pose = "good" /\ ~OutOfOrder(m, kept) -> NewPose(m, kept)
    [] m.pose = "bad" /\ ~OutOfOrder(m, kept) -> None
    [] OTHER -> IF kept # None /\ Live(kept, m.when) THEN kept ELSE None

(* Cameras have an order of their own. *)
WithCameras(m, e) ==
  IF m.cameras /\ m.when >= e.camerasWhen
  THEN [e EXCEPT !.camerasWhen = m.when, !.intrinsics = FALSE] ELSE e

(* _processMovingObjectMessage and resolveMessage: too late or too early,  *)
(* the message goes no further, and without a pose to use neither.         *)
Receive(m) ==
  /\ work.at = "idle" /\ Free("pose") /\ count < MaxMessages /\ count' = count + 1
  /\ m.when - now <= MaxLag /\ now - m.when <= MaxLag
  /\ LET e == Resolved(m, Kept(m.source))
     IN /\ e # None
        /\ entries' = [entries EXCEPT !["pose"] = Put(@, m.source, WithCameras(m, e))]
        /\ order' = IF m.pose = "none" \/ OutOfOrder(m, Kept(m.source)) THEN order
                    ELSE MoveToEnd("pose", m.source)
        /\ newest' = [newest EXCEPT ![m.source] = IF e.when > @ THEN e.when ELSE @]
        /\ work' = [at |-> "intrinsics", m |-> m]
  /\ UNCHANGED <<now, sweep, ideal>>

(* resolveIntrinsics for pixel detections: those of the message, unless it *)
(* is older than the pose, or those kept.  A message without them is       *)
(* discarded if it has pixel detections; one with translations alone needs *)
(* none.                                                                   *)
ResolveIntrinsics ==
  /\ work.at = "intrinsics" /\ Free("pose")
  /\ LET m == work.m
         e == Kept(m.source)
         live == e # None /\ Live(e, m.when)
         given == live /\ m.intrinsics /\ m.when >= e.when
     IN /\ entries' = IF given
                      THEN [entries EXCEPT !["pose"][m.source].intrinsics = TRUE] ELSE entries
        /\ order' = IF given THEN MoveToEnd("pose", m.source) ELSE order
        /\ \E pixels \in BOOLEAN :
             work' = IF ~pixels \/ given \/ (live /\ e.intrinsics) THEN [work EXCEPT !.at = "claim"]
                     ELSE [at |-> "idle"]
  /\ UNCHANGED <<now, sweep, count, ideal, newest>>

---------------------------------------------------------------------------
Collides(f, m) == m.id \in DOMAIN f /\ f[m.id].source # m.source /\ Live(f[m.id], m.when)

(* The owner's own late message leaves its claim as it is. *)
Stored(f, m) ==
  IF m.id \in DOMAIN f /\ f[m.id].source = m.source /\ m.when < f[m.id].when THEN f
  ELSE Put(f, m.id, [source |-> m.source, when |-> m.when, exp |-> m.when + Ttl])

(* claim *)
Claim ==
  /\ work.at = "claim" /\ Free("claim") /\ work' = [at |-> "idle"]
  /\ LET m == work.m
         f == entries["claim"]
     IN IF Collides(f, m)
        THEN UNCHANGED <<entries, order, ideal>>
        ELSE /\ entries' = [entries EXCEPT !["claim"] = Stored(f, m)]
             /\ order' = IF Stored(f, m) = f THEN order ELSE MoveToEnd("claim", m.id)
             /\ ideal' = Stored(ideal, m)
  /\ UNCHANGED <<now, sweep, count, newest>>

---------------------------------------------------------------------------
(* The timer fires: the tick knows how many entries there are. *)
SweepTick(c) ==
  /\ sweep[c].timer
  /\ sweep' = [sweep EXCEPT ![c].timer = FALSE, ![c].tick = TRUE, ![c].left = Len(order[c])]
  /\ UNCHANGED <<now, entries, order, work, count, ideal, newest>>

(* Mutant of Expired. *)
ExpiredEarly(e) == now > e.exp

Expired(e) == now > e.exp + MaxLag

Without(f, k) == [x \in DOMAIN f \ {k} |-> f[x]]

(* _sweepExpiredChunk: a chunk takes the lock and examines the entry at    *)
(* the front, time and again; what lives goes to the end.                  *)
InChunk(c) == sweep[c].tick /\ (~Free(c) \/ (sweep[c].left > 0 /\ sweep[c].on))

SweepEntry(c) ==
  /\ InChunk(c) /\ order[c] # <<>> /\ sweep[c].looked < Chunk
  /\ LET k == Head(order[c])
         gone == Expired(entries[c][k])
     IN /\ order' = [order EXCEPT ![c] = IF gone THEN Tail(@) ELSE Append(Tail(@), k)]
        /\ entries' = IF gone THEN [entries EXCEPT ![c] = Without(@, k)] ELSE entries
  /\ sweep' = [sweep EXCEPT ![c].looked = @ + 1]
  /\ UNCHANGED <<now, work, count, ideal, newest>>

(* The lock is released; the tick goes on, if there was something to see.  *)
ChunkDone(c) ==
  LET n == sweep[c].looked
  IN /\ InChunk(c) /\ (order[c] = <<>> \/ n = Chunk)
     /\ sweep' = [sweep EXCEPT ![c].looked = 0,
                              ![c].left = IF n = 0 \/ @ <= n THEN 0 ELSE @ - n]
     /\ UNCHANGED <<now, entries, order, work, count, ideal, newest>>

Rescheduled(c) == sweep[c].on

SweepDone(c) ==
  /\ sweep[c].tick /\ ~InChunk(c)
  /\ sweep' = [sweep EXCEPT ![c].tick = FALSE, ![c].timer = Rescheduled(c)]
  /\ UNCHANGED <<now, entries, order, work, count, ideal, newest>>

(* shutdown: the event is set and a waiting timer cancelled. *)
StopSweep(c) ==
  /\ sweep[c].on
  /\ sweep' = [sweep EXCEPT ![c].on = FALSE, ![c].timer = FALSE]
  /\ UNCHANGED <<now, entries, order, work, count, ideal, newest>>

ExternalNext ==
  \/ Clock \/ \E m \in Messages : Receive(m)
  \/ ResolveIntrinsics \/ Claim
  \/ \E c \in Caches : SweepTick(c) \/ SweepEntry(c) \/ ChunkDone(c) \/ SweepDone(c) \/ StopSweep(c)

(* The timers fire and their ticks go on.                                  *)
ExternalFairness ==
  /\ WF_externalVars(Clock)
  /\ WF_externalVars(ResolveIntrinsics) /\ WF_externalVars(Claim)
  /\ \A c \in Caches : WF_externalVars(SweepTick(c) \/ SweepEntry(c) \/ ChunkDone(c) \/ SweepDone(c))

ExternalSpec == ExternalInit /\ [][ExternalNext]_externalVars /\ ExternalFairness

---------------------------------------------------------------------------
(* A pose never gives way to an older one, not even across its removal by  *)
(* the sweep: whatever message may still come is newer than what was swept.*)
PosesAdvance ==
  [][\A s \in Sources : Kept(s)' # Kept(s) /\ Kept(s)' # None => Kept(s)'.when >= newest[s]]_externalVars

(* The sweep is not seen: a message that may still come is refused with    *)
(* the claims that are left exactly when it would be with all claims kept. *)
SweepNotSeen ==
  \A s \in Sources, i \in Ids, t \in (now - MaxLag)..(now + MaxLag) :
    LET m == [source |-> s, id |-> i, when |-> t]
    IN Collides(entries["claim"], m) <=> Collides(ideal, m)

(* Sources and ids are the publishers' choice: what has expired goes, in   *)
(* chunks, however the entries move in the meantime.                       *)
ExpiredAreSwept ==
  \A c \in Caches : sweep[c].on => \A k \in DOMAIN entries[c] : ~Expired(entries[c][k])

=============================================================================
