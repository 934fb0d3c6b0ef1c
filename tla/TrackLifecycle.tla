--------------------------- MODULE TrackLifecycle ---------------------------
(***************************************************************************)
(* rv::tracking::TrackManager under MultipleObjectTracker::track           *)
(* (controller/src/robot_vision/src/rv/tracking): the life of the tracks   *)
(* of one scene and category.                                              *)
(*                                                                         *)
(* A frame ages the suspended tracks, matches detections to tracks,        *)
(* updates the counters, reactivates, suspends and deletes tracks and      *)
(* creates new ones for the detections that are left.  Which tracks a      *)
(* frame's detections match, and which estimates move, comes from the      *)
(* geometry and is any choice here.                                        *)
(***************************************************************************)
EXTENDS Integers

CONSTANTS
  Unreliable,       \* mMaxNumberOfUnreliableFrames
  Reactivation,     \* mReactivationFrames
  DynamicFrames,    \* mNonMeasurementFramesDynamic
  StaticFrames,     \* mNonMeasurementFramesStatic
  MaxAge,           \* mSuspendedTrackMaxAgeSecs, in ticks of the clock
  MaxElapsed,       \* bound: ticks between two frames
  MaxBirths,        \* bound: tracks created by one frame
  MaxTracks         \* bound: tracks created in all

\* updateTrackerConfig rounds positive times up; nothing sets mReactivationFrames,
\* which is 1.
ASSUME FramesAssumption ==
  /\ Unreliable \in Nat /\ Reactivation \in Nat /\ Reactivation <= Unreliable
  /\ DynamicFrames \in Nat /\ StaticFrames \in Nat
  /\ MaxAge \in Nat
ASSUME BoundsAssumption ==
  /\ MaxElapsed \in Nat \ {0}
  /\ MaxBirths \in Nat
  /\ MaxTracks \in Nat

VARIABLES
  currentId,    \* mCurrentId
  active,       \* ids in mKalmanEstimators
  suspended,    \* ids in mSuspendedKalmanEstimators
  misses,       \* mNonMeasurementFrames, a function of the ids it holds
  tracked,      \* mNumberOfTrackedFrames, likewise; counts beyond Unreliable are equal
  age,          \* now - mSuspensionTimes, likewise
  hits,         \* history: frames with a measurement, per track, up to Unreliable
  idle          \* history: frames since the last measurement, per track

vars == <<currentId, active, suspended, misses, tracked, age, hits, idle>>

Ids == 1..MaxTracks
Longest == IF DynamicFrames > StaticFrames THEN DynamicFrames ELSE StaticFrames

TypeOK ==
  /\ currentId \in 0..MaxTracks
  /\ active \in SUBSET Ids
  /\ suspended \in SUBSET Ids
  /\ DOMAIN misses \in SUBSET Ids
  /\ \A id \in DOMAIN misses : misses[id] \in 0..Longest
  /\ DOMAIN tracked \in SUBSET Ids
  /\ \A id \in DOMAIN tracked : tracked[id] \in 0..Unreliable
  /\ DOMAIN age \in SUBSET Ids
  /\ \A id \in DOMAIN age : age[id] \in 0..MaxAge
  /\ hits \in [Ids -> 0..Unreliable]
  /\ idle \in [Ids -> 0..(Longest + 1)]

Init ==
  /\ currentId = 0
  /\ active = {}
  /\ suspended = {}
  /\ misses = << >>
  /\ tracked = << >>
  /\ age = << >>
  /\ hits = [id \in Ids |-> 0]
  /\ idle = [id \in Ids |-> 0]

\* A counter that saturates: above the limit its values are not told apart.
UpTo(limit, n) == IF n < limit THEN n ELSE limit

-----------------------------------------------------------------------------
(* The steps of one frame.  M is the set of tracks with a measurement.      *)

\* cleanupOldSuspendedTracks, at the start of predict.
Expired(elapsed) == {id \in suspended : age[id] + elapsed > MaxAge}

Remembered(elapsed) == suspended \ Expired(elapsed)

\* The suspended tracks that are reactivated: those with a measurement.
Back(M) == M \cap suspended

\* The tracks that are active before the check of their counters.
Live(M) == active \cup Back(M)

\* Mutant of Misses: the counter goes on after a measurement.
MissesInAll(M, id) == IF id \in Back(M) THEN 0 ELSE misses[id] + (IF id \in M THEN 0 ELSE 1)

\* Mutant of Misses: a frame without a measurement is not counted.
MissesNever(M, id) == IF id \in M THEN 0 ELSE misses[id]

\* Frames in a row without a measurement; a reactivated track starts anew.
Misses(M, id) == IF id \in M THEN 0 ELSE misses[id] + 1

\* Mutant of TrackedFrames: every frame of a track counts.
TrackedFramesInAll(M, id) ==
  IF id \in Back(M) THEN Unreliable - Reactivation ELSE UpTo(Unreliable, tracked[id] + 1)

\* Frames with a measurement, put back by a reactivation.
TrackedFrames(M, id) ==
  IF id \in Back(M) THEN Unreliable - Reactivation
  ELSE IF id \in M THEN UpTo(Unreliable, tracked[id] + 1) ELSE tracked[id]

\* isReliable.
Reliable(M, id) == TrackedFrames(M, id) >= Unreliable

\* The deletion list: unreliable tracks and reliable ones that move.
Deleted(M, moving) ==
  {id \in Live(M) : (Reliable(M, id) => id \in moving) /\ Misses(M, id) > DynamicFrames}

\* The list of tracks to suspend: reliable ones that rest.
ToSuspend(M, moving) ==
  {id \in Live(M) : Reliable(M, id) /\ id \notin moving /\ Misses(M, id) > StaticFrames}

\* Mutant of Counted: suspendTrack leaves the counter of missed frames.
CountedWithSuspended(M, gone, resting) == Live(M) \ gone

\* The tracks that keep a counter of missed frames.
Counted(M, gone, resting) == Live(M) \ (gone \cup resting)

\* Mutant of NewIds: createTrack numbers on from the tracks there are.
NewIdsAfterLive(births) ==
  LET top == CHOOSE n \in 0..MaxTracks :
               /\ n \in active \cup suspended \cup {0}
               /\ \A id \in active \cup suspended : id <= n
  IN  (top + 1)..UpTo(MaxTracks, top + births)

\* createTrack: the ids of the new tracks.
NewIds(births) == (currentId + 1)..(currentId + births)

\* One call of MultipleObjectTracker::track, "elapsed" ticks after the last.
Frame(elapsed, M, moving, births) ==
  LET gone    == Deleted(M, moving)
      resting == ToSuspend(M, moving)
      born    == NewIds(births)
      kept    == Remembered(elapsed) \ Back(M)
      counted == Counted(M, gone, resting)
  IN  /\ M \subseteq active \cup Remembered(elapsed)
      /\ moving \subseteq Live(M)
      /\ currentId + births <= MaxTracks
      /\ currentId' = currentId + births
      /\ active' = (Live(M) \ (gone \cup resting)) \cup born
      /\ suspended' = kept \cup resting
      /\ misses' = [id \in counted \cup born |-> IF id \in born THEN 0 ELSE Misses(M, id)]
      /\ tracked' = [id \in (DOMAIN tracked \ gone) \cup born |->
           IF id \in born THEN 0
           ELSE IF id \in Live(M) THEN TrackedFrames(M, id) ELSE tracked[id]]
      /\ age' = [id \in kept \cup resting |-> IF id \in resting THEN 0 ELSE age[id] + elapsed]
      /\ hits' = [id \in Ids |->
           IF id \in born THEN 0 ELSE IF id \in M THEN UpTo(Unreliable, hits[id] + 1) ELSE hits[id]]
      /\ idle' = [id \in Ids |->
           IF id \in born \cup M THEN 0
           ELSE IF id \in Live(M) THEN UpTo(Longest + 1, idle[id] + 1) ELSE idle[id]]

Next ==
  \E elapsed \in 1..MaxElapsed, births \in 0..MaxBirths,
     M \in SUBSET (active \cup suspended), moving \in SUBSET (active \cup suspended) :
    Frame(elapsed, M, moving, births)

Spec == Init /\ [][Next]_vars

\* Frames keep coming: the cameras publish, also when they detect nothing.
FairSpec == Spec /\ WF_vars(Next)

-----------------------------------------------------------------------------
(* Properties.                                                              *)

Alive == active \cup suspended

\* A track is active or suspended, never both, and each map of the manager has
\* the entries of its tracks: none is missing, so no lookup creates one, and none
\* stays in the maps that correct() walks over (TrackManager.cpp:185).
CountersMatch ==
  /\ active \cap suspended = {}
  /\ DOMAIN misses = active
  /\ DOMAIN age = suspended
  /\ Alive \subseteq DOMAIN tracked

\* "An object becomes reliable when at least mMaxNumberOfUnreliableFrames frames
\* have been measured" (TrackManager.hpp:81), across suspensions as well.
ReliableIsEarned ==
  \A id \in active : tracked[id] >= Unreliable => hits[id] >= Unreliable

\* A suspended track has been reliable: clutter is never remembered.
SuspendedWasReliable == \A id \in suspended : hits[id] >= Unreliable

\* The number of a track that is gone never names another one.
NeverReused == [][\A id \in 1..currentId : id \notin Alive => id \notin Alive']_vars

\* A track goes only after more unmeasured frames in a row than the limit for
\* moving objects, or out of suspension when it was there too long.
NoEarlyDeath ==
  [][\A id \in Alive \ Alive' :
       IF id \in active THEN idle[id] >= DynamicFrames ELSE age[id] + MaxElapsed > MaxAge]_vars

\* A track that is not measured any more goes in the end, out of suspension, too.
UnseenTracksGo == \A id \in Ids : []<>(id \notin Alive \/ idle[id] = 0)

=============================================================================
