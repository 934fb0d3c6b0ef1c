----------------------- MODULE TrackLifecycleProofs -----------------------
(***************************************************************************)
(* What holds of the tracks of a scene for any limits, any clock and any   *)
(* sequence of frames: every frame preserves TrackInv.                     *)
(***************************************************************************)
EXTENDS TrackLifecycle, TLAPS

\* The tracks that exist have been numbered.
Numbered == Alive \subseteq 1..currentId

\* The counters of an active track are bounded by what really happened to it.
CountersEarned ==
  \A id \in active : tracked[id] <= hits[id] /\ misses[id] <= idle[id]

\* What a frame preserves.
TrackInv ==
  /\ TypeOK
  /\ CountersMatch
  /\ Numbered
  /\ CountersEarned
  /\ SuspendedWasReliable

\* A frame of the tracks there are, as Next takes it.
Step(elapsed, M, moving, births) ==
  /\ elapsed \in 1..MaxElapsed
  /\ births \in 0..MaxBirths
  /\ M \in SUBSET (active \cup suspended)
  /\ moving \in SUBSET (active \cup suspended)
  /\ Frame(elapsed, M, moving, births)

-----------------------------------------------------------------------------
(* What a frame does, fact by fact.                                         *)

\* No track exists at first.
LEMMA InitTracks == Init => TrackInv
  <1> SUFFICES ASSUME Init PROVE TrackInv
    OBVIOUS
  <1> USE DEF Init
  <1>1. UpTo(1, 0) = 0 /\ Longest \in Nat
    BY FramesAssumption DEF UpTo, Longest
  <1>2. TypeOK
    <2>1. currentId \in 0..MaxTracks
      BY BoundsAssumption
    <2>2. DOMAIN misses = {} /\ DOMAIN tracked = {} /\ DOMAIN age = {}
      OBVIOUS
    <2>3. hits \in [Ids -> 0..Unreliable] /\ idle \in [Ids -> 0..(Longest + 1)]
      BY <1>1, FramesAssumption
    <2> QED
      BY <2>1, <2>2, <2>3 DEF TypeOK
  <1>3. DOMAIN misses = {} /\ DOMAIN age = {}
    OBVIOUS
  <1> QED
    BY <1>2, <1>3 DEF TrackInv, CountersMatch, Numbered, CountersEarned, SuspendedWasReliable, Alive

\* What the limits are.
LEMMA Limits ==
    /\ Unreliable \in Nat /\ Reactivation \in Nat
    /\ Unreliable - Reactivation \in 0..Unreliable
    /\ DynamicFrames \in Nat /\ StaticFrames \in Nat /\ Longest \in Nat
    /\ DynamicFrames <= Longest /\ StaticFrames <= Longest
    /\ MaxAge \in Nat /\ MaxElapsed \in Nat /\ MaxBirths \in Nat /\ MaxTracks \in Nat
  BY FramesAssumption, BoundsAssumption DEF Longest

\* The counter of missed frames after the frame, and what it says of the track.
LEMMA MissesCounted ==
  ASSUME TrackInv, NEW M, NEW id \in Live(M), M \subseteq active \cup suspended
  PROVE  /\ Misses(M, id) \in 0..(Longest + 1)
         /\ id \in M => Misses(M, id) = 0
         /\ id \notin M => id \in active /\ Misses(M, id) = misses[id] + 1
  <1>1. CASE id \in M
    BY <1>1, Limits DEF Misses
  <1>2. CASE id \notin M
    <2>1. id \in active
      BY <1>2 DEF Live, Back
    <2>2. misses[id] \in 0..Longest
      BY <2>1 DEF TrackInv, TypeOK, CountersMatch
    <2> QED
      BY <1>2, <2>1, <2>2, Limits DEF Misses
  <1> QED
    BY <1>1, <1>2

\* The counter of measured frames after the frame.
LEMMA FramesCounted ==
  ASSUME TrackInv, NEW M, NEW id \in Live(M), M \subseteq active \cup suspended
  PROVE  /\ TrackedFrames(M, id) \in 0..Unreliable
         /\ TrackedFrames(M, id) <= IF id \in M THEN UpTo(Unreliable, hits[id] + 1) ELSE hits[id]
  <1>1. id \in Ids
    BY DEF Live, Back, TrackInv, TypeOK
  <1>2. hits[id] \in 0..Unreliable
    BY <1>1 DEF TrackInv, TypeOK
  <1>3. CASE id \in Back(M)
    <2>1. id \in suspended /\ id \in M
      BY <1>3 DEF Back
    <2>2. hits[id] >= Unreliable
      BY <2>1 DEF TrackInv, SuspendedWasReliable
    <2>3. TrackedFrames(M, id) = Unreliable - Reactivation
      BY <1>3 DEF TrackedFrames
    <2> QED
      BY <1>2, <2>1, <2>2, <2>3, Limits DEF UpTo
  <1>4. CASE id \notin Back(M)
    <2>1. id \in active
      BY <1>4 DEF Live
    <2>2. id \in DOMAIN tracked
      BY <2>1 DEF TrackInv, CountersMatch, Alive
    <2>3. tracked[id] \in 0..Unreliable /\ tracked[id] <= hits[id]
      BY <2>1, <2>2 DEF TrackInv, TypeOK, CountersEarned
    <2>4. TrackedFrames(M, id) = IF id \in M THEN UpTo(Unreliable, tracked[id] + 1) ELSE tracked[id]
      BY <1>4 DEF TrackedFrames
    <2> QED
      BY <1>2, <2>3, <2>4, Limits DEF UpTo
  <1> QED
    BY <1>3, <1>4

\* The tracks a frame gives up or puts to rest are distinct, live and unmeasured,
\* the others are within the limits.
LEMMA Judged ==
  ASSUME TrackInv, NEW M, NEW moving, M \subseteq active \cup suspended
  PROVE  /\ Deleted(M, moving) \subseteq active \ M
         /\ ToSuspend(M, moving) \subseteq active \ M
         /\ Deleted(M, moving) \cap ToSuspend(M, moving) = {}
         /\ \A id \in Deleted(M, moving) : misses[id] >= DynamicFrames
         /\ \A id \in ToSuspend(M, moving) : hits[id] >= Unreliable
         /\ \A id \in Live(M) \ (Deleted(M, moving) \cup ToSuspend(M, moving)) :
              Misses(M, id) \in 0..Longest
  <1>1. ASSUME NEW id \in Deleted(M, moving)
        PROVE  id \in active /\ id \notin M /\ misses[id] >= DynamicFrames
    <2>1. id \in Live(M) /\ Misses(M, id) > DynamicFrames
      BY DEF Deleted
    <2>2. id \notin M
      BY <2>1, MissesCounted, Limits
    <2>3. id \in active /\ Misses(M, id) = misses[id] + 1
      BY <2>1, <2>2, MissesCounted
    <2>4. misses[id] \in 0..Longest
      BY <2>3 DEF TrackInv, TypeOK, CountersMatch
    <2> QED
      BY <2>1, <2>2, <2>3, <2>4, Limits
  <1>2. ASSUME NEW id \in ToSuspend(M, moving)
        PROVE  id \in active /\ id \notin M /\ hits[id] >= Unreliable
    <2>1. id \in Live(M) /\ Misses(M, id) > StaticFrames /\ TrackedFrames(M, id) >= Unreliable
      BY DEF ToSuspend, Reliable
    <2>2. id \notin M
      BY <2>1, MissesCounted, Limits
    <2>3. id \in active
      BY <2>1, <2>2, MissesCounted
    <2>4. TrackedFrames(M, id) \in 0..Unreliable /\ TrackedFrames(M, id) <= hits[id]
      BY <2>1, <2>2, FramesCounted
    <2>5. hits[id] \in 0..Unreliable
      BY <2>3 DEF TrackInv, TypeOK
    <2> QED
      BY <2>1, <2>2, <2>3, <2>4, <2>5, Limits
  <1>3. Deleted(M, moving) \cap ToSuspend(M, moving) = {}
    BY DEF Deleted, ToSuspend
  <1>4. ASSUME NEW id \in Live(M), id \notin Deleted(M, moving), id \notin ToSuspend(M, moving)
        PROVE  Misses(M, id) \in 0..Longest
    <2>1. Misses(M, id) \in 0..(Longest + 1)
      BY MissesCounted
    <2>2. ~(Misses(M, id) > DynamicFrames) \/ ~(Misses(M, id) > StaticFrames)
      BY <1>4 DEF Deleted, ToSuspend
    <2> QED
      BY <2>1, <2>2, Limits
  <1> QED
    BY <1>1, <1>2, <1>3, <1>4

-----------------------------------------------------------------------------
(* A frame preserves the invariant.                                         *)

LEMMA StepTracks ==
  ASSUME TrackInv, NEW elapsed, NEW M, NEW moving, NEW births, Step(elapsed, M, moving, births)
  PROVE  /\ TrackInv'
         /\ Alive' \subseteq Alive \cup (currentId + 1)..MaxTracks
         /\ \A id \in Alive \ Alive' :
              IF id \in active THEN misses[id] >= DynamicFrames ELSE age[id] + MaxElapsed > MaxAge
  <1> DEFINE gone    == Deleted(M, moving)
             resting == ToSuspend(M, moving)
             born    == NewIds(births)
             stay    == Remembered(elapsed)
             kept    == stay \ Back(M)
             counted == Live(M) \ (gone \cup resting)
  <1>1. /\ elapsed \in 1..MaxElapsed /\ births \in 0..MaxBirths
        /\ M \subseteq active \cup stay
        /\ currentId + births <= MaxTracks
        /\ currentId' = currentId + births
        /\ active' = counted \cup born
        /\ suspended' = kept \cup resting
    BY DEF Step, Frame, Counted
  <1>2. misses' = [id \in counted \cup born |-> IF id \in born THEN 0 ELSE Misses(M, id)]
    BY DEF Step, Frame, Counted
  <1>3. tracked' = [id \in (DOMAIN tracked \ gone) \cup born |->
           IF id \in born THEN 0 ELSE IF id \in Live(M) THEN TrackedFrames(M, id) ELSE tracked[id]]
    BY DEF Step, Frame
  <1>4. age' = [id \in kept \cup resting |-> IF id \in resting THEN 0 ELSE age[id] + elapsed]
    BY DEF Step, Frame
  <1>5. hits' = [id \in Ids |->
           IF id \in born THEN 0 ELSE IF id \in M THEN UpTo(Unreliable, hits[id] + 1) ELSE hits[id]]
    BY DEF Step, Frame
  <1>6. idle' = [id \in Ids |->
           IF id \in born \cup M THEN 0
           ELSE IF id \in Live(M) THEN UpTo(Longest + 1, idle[id] + 1) ELSE idle[id]]
    BY DEF Step, Frame
  <1>7. stay \subseteq suspended /\ M \subseteq active \cup suspended
    BY <1>1 DEF Remembered
  <1>8. /\ gone \subseteq active \ M /\ resting \subseteq active \ M /\ gone \cap resting = {}
        /\ \A id \in gone : misses[id] >= DynamicFrames
        /\ \A id \in resting : hits[id] >= Unreliable
        /\ \A id \in counted : Misses(M, id) \in 0..Longest
    BY <1>7, Judged
  <1>9. /\ active \cap suspended = {} /\ active \subseteq 1..currentId
        /\ suspended \subseteq 1..currentId /\ currentId \in 0..MaxTracks
    BY DEF TrackInv, TypeOK, CountersMatch, Numbered, Alive
  <1>10. /\ born = (currentId + 1)..(currentId + births)
         /\ born \subseteq (currentId + 1)..MaxTracks /\ born \subseteq Ids
         /\ born \cap (active \cup suspended) = {}
         /\ born \subseteq 1..currentId'
    BY <1>1, <1>9, Limits DEF NewIds, Ids
  <1>11. Live(M) = active \cup (M \cap suspended) /\ kept = stay \ M
    BY <1>7 DEF Live, Back
  <1>12. \A id \in kept : age[id] + elapsed \in 0..MaxAge
    BY <1>1, <1>7, Limits DEF Remembered, Expired, TrackInv, TypeOK, CountersMatch
  <1>13. \A id \in Live(M) : /\ TrackedFrames(M, id) \in 0..Unreliable
                             /\ id \in M => TrackedFrames(M, id) <= UpTo(Unreliable, hits[id] + 1)
                             /\ id \notin M => TrackedFrames(M, id) <= hits[id]
    BY <1>7, FramesCounted
  <1>14. \A id \in Live(M) : /\ id \in M => Misses(M, id) = 0
                             /\ id \notin M => id \in active /\ Misses(M, id) = misses[id] + 1
    BY <1>7, MissesCounted
  <1>15. /\ hits \in [Ids -> 0..Unreliable] /\ idle \in [Ids -> 0..(Longest + 1)]
         /\ active \subseteq Ids /\ suspended \subseteq Ids
         /\ active \cup suspended \subseteq DOMAIN tracked /\ DOMAIN tracked \subseteq Ids
         /\ \A id \in DOMAIN tracked : tracked[id] \in 0..Unreliable
         /\ \A id \in active : misses[id] \in 0..Longest
         /\ \A id \in active : misses[id] <= idle[id]
         /\ \A id \in suspended : hits[id] >= Unreliable /\ age[id] \in 0..MaxAge
    BY DEF TrackInv, TypeOK, CountersMatch, CountersEarned, SuspendedWasReliable, Alive
  <1> HIDE DEF gone, resting, born, stay, kept, counted
  <1>16. counted = Live(M) \ (gone \cup resting) /\ kept = stay \ Back(M)
    BY DEF counted, kept
  <1>17. hits' \in [Ids -> 0..Unreliable]
    BY <1>5, <1>15, Limits DEF UpTo
  <1>18. idle' \in [Ids -> 0..(Longest + 1)]
    BY <1>6, <1>15, Limits DEF UpTo
  <1>19. /\ \A id \in DOMAIN misses' : misses'[id] \in 0..Longest
         /\ DOMAIN misses' = active'
    BY <1>1, <1>2, <1>8, Limits
  <1>20. \A id \in DOMAIN tracked' : tracked'[id] \in 0..Unreliable
    BY <1>3, <1>13, <1>15, Limits
  <1>21. /\ \A id \in DOMAIN age' : age'[id] \in 0..MaxAge
         /\ DOMAIN age' = suspended'
    BY <1>1, <1>4, <1>12, Limits
  <1>22. /\ currentId' \in 0..MaxTracks
         /\ active' \in SUBSET Ids /\ suspended' \in SUBSET Ids
         /\ DOMAIN tracked' \in SUBSET Ids
    <2>1. currentId' \in 0..MaxTracks
      BY <1>1, <1>9, Limits
    <2>2. active' \subseteq Ids /\ suspended' \subseteq Ids
      BY <1>1, <1>7, <1>8, <1>10, <1>11, <1>15, <1>16
    <2>3. DOMAIN tracked' \subseteq Ids
      BY <1>3, <1>10, <1>15
    <2> QED
      BY <2>1, <2>2, <2>3
  <1>23. TypeOK'
    BY <1>17, <1>18, <1>19, <1>20, <1>21, <1>22 DEF TypeOK, Ids, Longest
  <1>24. active' \cap suspended' = {}
    BY <1>1, <1>7, <1>8, <1>9, <1>10, <1>11, <1>16
  <1>25. Alive' \subseteq DOMAIN tracked'
    <2>1. active' \subseteq DOMAIN tracked'
      BY <1>1, <1>3, <1>11, <1>15, <1>16
    <2>2. suspended' \cap gone = {}
      BY <1>1, <1>7, <1>8, <1>9, <1>11
    <2>3. suspended' \subseteq DOMAIN tracked
      BY <1>1, <1>7, <1>8, <1>11, <1>15
    <2> QED
      BY <1>3, <2>1, <2>2, <2>3 DEF Alive
  <1>26. CountersMatch'
    BY <1>19, <1>21, <1>24, <1>25 DEF CountersMatch
  <1>27. Numbered'
    <2>1. 1..currentId \subseteq 1..currentId'
      BY <1>1, <1>9, Limits
    <2> QED
      BY <2>1, <1>1, <1>7, <1>8, <1>9, <1>10, <1>11, <1>16 DEF Numbered, Alive
  <1>28. CountersEarned'
    <2> SUFFICES ASSUME NEW id \in active'
                 PROVE  tracked'[id] <= hits'[id] /\ misses'[id] <= idle'[id]
      BY DEF CountersEarned
    <2>1. id \in DOMAIN tracked' /\ id \in Ids
      BY <1>22, <1>25 DEF Alive
    <2>2. CASE id \in born
      BY <2>1, <2>2, <1>1, <1>2, <1>3, <1>5, <1>6
    <2>3. CASE id \notin born
      <3>1. id \in counted /\ id \in Live(M)
        BY <2>3, <1>1, <1>16
      <3>2. tracked'[id] = TrackedFrames(M, id) /\ misses'[id] = Misses(M, id)
        BY <3>1, <2>1, <2>3, <1>2, <1>3
      <3>3. CASE id \in M
        BY <3>1, <3>2, <3>3, <2>1, <2>3, <1>5, <1>6, <1>13, <1>14, Limits
      <3>4. CASE id \notin M
        <4>1. id \in active /\ Misses(M, id) = misses[id] + 1
          BY <3>1, <3>4, <1>14
        <4>2. hits'[id] = hits[id] /\ idle'[id] = UpTo(Longest + 1, idle[id] + 1)
          BY <3>1, <3>4, <2>1, <2>3, <1>5, <1>6
        <4>3. TrackedFrames(M, id) <= hits[id]
          BY <3>1, <3>4, <1>13
        <4>4. misses[id] \in 0..Longest /\ misses[id] <= idle[id] /\ idle[id] \in 0..(Longest + 1)
          BY <4>1, <2>1, <1>15
        <4> QED
          BY <3>2, <4>1, <4>2, <4>3, <4>4, Limits DEF UpTo
      <3> QED
        BY <3>3, <3>4
    <2> QED
      BY <2>2, <2>3
  <1>29. SuspendedWasReliable'
    <2> SUFFICES ASSUME NEW id \in suspended' PROVE hits'[id] >= Unreliable
      BY DEF SuspendedWasReliable
    <2>1. hits[id] >= Unreliable /\ id \in Ids /\ id \notin born /\ id \notin M
      BY <1>1, <1>7, <1>8, <1>10, <1>11, <1>15
    <2> QED
      BY <2>1, <1>5
  <1>30. Alive' \subseteq Alive \cup (currentId + 1)..MaxTracks
    BY <1>1, <1>7, <1>8, <1>10, <1>11, <1>16 DEF Alive
  <1>31. ASSUME NEW id \in Alive, id \notin Alive'
         PROVE  IF id \in active THEN misses[id] >= DynamicFrames ELSE age[id] + MaxElapsed > MaxAge
    <2>1. CASE id \in active
      <3>1. id \in gone
        BY <2>1, <1>31, <1>1, <1>11, <1>16 DEF Alive
      <3> QED
        BY <2>1, <3>1, <1>8
    <2>2. CASE id \notin active
      <3>1. id \in suspended
        BY <2>2 DEF Alive
      <3>2. id \notin stay
        BY <2>2, <3>1, <1>31, <1>1, <1>8, <1>11, <1>16 DEF Alive
      <3>3. age[id] + elapsed > MaxAge
        BY <3>1, <3>2 DEF stay, Remembered, Expired
      <3>4. age[id] \in 0..MaxAge
        BY <3>1, <1>15
      <3> QED
        BY <2>2, <3>3, <3>4, <1>1, Limits
    <2> QED
      BY <2>1, <2>2
  <1> QED
    BY <1>23, <1>26, <1>27, <1>28, <1>29, <1>30, <1>31 DEF TrackInv

\* Every step of the specification is a frame or changes nothing.
LEMMA NextTracks == TrackInv /\ [Next]_vars => TrackInv'
  <1> SUFFICES ASSUME TrackInv, [Next]_vars PROVE TrackInv'
    OBVIOUS
  <1>1. CASE Next
    <2>1. PICK elapsed \in 1..MaxElapsed, births \in 0..MaxBirths,
               M \in SUBSET (active \cup suspended), moving \in SUBSET (active \cup suspended) :
                 Frame(elapsed, M, moving, births)
      BY <1>1 DEF Next
    <2>2. Step(elapsed, M, moving, births)
      BY <2>1 DEF Step
    <2> QED
      BY <2>2, StepTracks
  <1>2. CASE UNCHANGED vars
    BY <1>2 DEF vars, TrackInv, TypeOK, CountersMatch, Numbered, CountersEarned, SuspendedWasReliable, Alive
  <1> QED
    BY <1>1, <1>2

-----------------------------------------------------------------------------
(* The theorems.                                                            *)

\* TrackInv holds in every state.
LEMMA TracksAlways == Spec => []TrackInv
  BY InitTracks, NextTracks, PTL DEF Spec

\* The maps of the manager hold exactly the tracks they should: correct() finds
\* every counter it reads and suspends or deletes only tracks that are there
\* (TrackManager.cpp:126-225).
THEOREM MapsAgree == Spec => [](TypeOK /\ CountersMatch)
  <1>1. TrackInv => TypeOK /\ CountersMatch
    BY DEF TrackInv
  <1> QED
    BY <1>1, TracksAlways, PTL

\* A track that counts as reliable, or that is kept in suspension, was measured in
\* mMaxNumberOfUnreliableFrames frames (TrackManager.cpp:323-326, 47-57).
THEOREM ReliabilityEarned == Spec => [](ReliableIsEarned /\ SuspendedWasReliable)
  <1>1. TrackInv => ReliableIsEarned /\ SuspendedWasReliable
    <2> SUFFICES ASSUME TrackInv, NEW id \in active, tracked[id] >= Unreliable
                 PROVE  hits[id] >= Unreliable
      BY DEF ReliableIsEarned, TrackInv
    <2>1. tracked[id] \in 0..Unreliable /\ hits[id] \in 0..Unreliable /\ tracked[id] <= hits[id]
      BY DEF TrackInv, TypeOK, CountersMatch, CountersEarned, Alive
    <2> QED
      BY <2>1, Limits
  <1> QED
    BY <1>1, TracksAlways, PTL

\* The id of a track that was deleted or expired is never given to another one
\* (TrackManager.cpp:11-25): createTrack counts up and nothing comes back.
THEOREM IdsAreFresh == Spec => NeverReused
  <1>1. ASSUME TrackInv, [Next]_vars
        PROVE  [\A id \in 1..currentId : id \notin Alive => id \notin Alive']_vars
    <2>1. CASE Next
      <3>1. PICK elapsed \in 1..MaxElapsed, births \in 0..MaxBirths,
                 M \in SUBSET (active \cup suspended), moving \in SUBSET (active \cup suspended) :
                   Frame(elapsed, M, moving, births)
        BY <2>1 DEF Next
      <3>2. Alive' \subseteq Alive \cup (currentId + 1)..MaxTracks
        BY <3>1, <1>1, StepTracks DEF Step
      <3>3. currentId \in Nat
        BY <1>1, Limits DEF TrackInv, TypeOK
      <3> QED
        BY <3>2, <3>3
    <2>2. CASE UNCHANGED vars
      BY <2>2
    <2> QED
      BY <1>1, <2>1, <2>2
  <1> QED
    BY <1>1, TracksAlways, PTL DEF Spec, NeverReused

\* A track is given up only after more unmeasured frames in a row than the limit,
\* or when its suspension lasted too long (TrackManager.cpp:184-224, 59-78).
THEOREM NoTrackDiesEarly == Spec => NoEarlyDeath
  <1>1. ASSUME TrackInv, [Next]_vars
        PROVE  [\A id \in Alive \ Alive' :
                  IF id \in active THEN idle[id] >= DynamicFrames
                  ELSE age[id] + MaxElapsed > MaxAge]_vars
    <2>1. CASE Next
      <3>1. PICK elapsed \in 1..MaxElapsed, births \in 0..MaxBirths,
                 M \in SUBSET (active \cup suspended), moving \in SUBSET (active \cup suspended) :
                   Frame(elapsed, M, moving, births)
        BY <2>1 DEF Next
      <3>2. \A id \in Alive \ Alive' :
              IF id \in active THEN misses[id] >= DynamicFrames ELSE age[id] + MaxElapsed > MaxAge
        BY <3>1, <1>1, StepTracks DEF Step
      <3>3. \A id \in active : /\ misses[id] \in 0..Longest /\ idle[id] \in 0..(Longest + 1)
                               /\ misses[id] <= idle[id]
        BY <1>1 DEF TrackInv, TypeOK, CountersMatch, CountersEarned
      <3>4. \A id \in active : misses[id] >= DynamicFrames => idle[id] >= DynamicFrames
        BY <3>3, Limits
      <3> QED
        BY <3>2, <3>4
    <2>2. CASE UNCHANGED vars
      BY <2>2
    <2> QED
      BY <1>1, <2>1, <2>2
  <1> QED
    BY <1>1, TracksAlways, PTL DEF Spec, NoEarlyDeath

=============================================================================
