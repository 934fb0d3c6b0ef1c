----------------------------- MODULE ReidManager -----------------------------
(***************************************************************************)
(* UUIDManager of one category (controller/src/controller/uuid_manager.py) *)
(* with the hierarchy publisher of scene_controller.py: the identities of  *)
(* live tracks, the similarity queries that decide them, the write of      *)
(* their crops to the ReID database, and what a parent scene is told.      *)
(*                                                                         *)
(* The tracking thread assigns and prunes.  Pool threads search, answer    *)
(* and write.  A timer flushes.  The publisher reads the write flags       *)
(* without their lock.  Crops are local camera crops that pass the area    *)
(* gate; their number is kept only up to the query threshold.              *)
(***************************************************************************)
EXTENDS Integers, FiniteSets

CONSTANTS
  Tracks,        \* rv_id: track numbers of the robot vision library
  Earlier,       \* identities the database holds at the start
  NoGid,
  MinFeatures,   \* minimum_feature_count
  MaxLives       \* bound: how often each number enters active_ids

ASSUME ReidAssumption ==
  /\ MinFeatures \in Nat \ {0}
  /\ MaxLives \in [Tracks -> Nat]
  /\ NoGid \notin Earlier \cup Tracks \cup ((Tracks \cup {NoGid}) \X Nat)
  /\ Earlier \cap (Tracks \X Nat) = {}

VARIABLES
  live,        \* keys of active_ids
  ids,         \* active_ids[rv][0], NoGid while undecided
  lives,       \* how often the number entered active_ids: tells its lives apart
  asked,       \* active_query
  seen,        \* quality_observation_counts, up to MinFeatures
  local,       \* tracks with vectors in enrollment_features
  queries,     \* queries in the pool: [rv, life, own: the gid of the object]
  gidCounter,  \* MovingObject.gid_counter
  database,    \* identities with vectors in the database
  staged,      \* features_for_database[rv]: [gid, full], or NoEntry
  stamped,     \* keys of features_for_database_timestamps
  jobs,        \* writes on their way: [n, rv, life, gid, phase, epoch]
  enabled,     \* reid_enabled
  healthy,     \* reid_write_healthy
  confirmed,   \* reid_write_confirmed
  empty,       \* reid_empty_batch_before_confirm
  epoch,       \* reid_write_epoch
  shown,       \* tracks whose current object carries an embedding
  policy,      \* what the publisher read last
  stored,      \* history: <<rv, life>> whose crops were stored here
  offered,     \* history: [track, cause] published for the parent to enroll
  claimed      \* tracks that were last published with will_enroll

idVars     == <<live, ids, lives, asked, seen, local, queries, gidCounter>>
flagVars   == <<enabled, healthy, confirmed, empty, epoch>>
stageVars  == <<staged, stamped, jobs>>
recordVars == <<database, stored>>
wireVars   == <<policy, offered, claimed>>
vars == <<idVars, flagVars, stageVars, recordVars, wireVars, shown>>

NoEntry == [gid |-> NoGid, full |-> FALSE]

\* A new object starts with the uuid of its detection (setGID).
OwnGid(rv, life) == <<rv, life>>
CounterGid(n) == <<NoGid, n>>
Gids == Earlier \cup (Tracks \X Nat) \cup ({NoGid} \X Nat)
Life(rv) == <<rv, lives[rv]>>

Phases == {"taken", "queued", "refused", "stored", "partial", "invalid", "failed"}
Policies == {"withhold", "will_enroll", "empty", "stopped"}

\* active_ids and the maps of the queries: none has a key of a track that is gone.
IdsOK ==
  /\ live \subseteq Tracks /\ asked \subseteq live /\ local \subseteq live
  /\ ids \in [Tracks -> Gids \cup {NoGid}]
  /\ \A rv \in Tracks \ live : ids[rv] = NoGid
  /\ lives \in [Tracks -> Nat]
  /\ seen \in [Tracks -> 0..MinFeatures]
  /\ \A q \in queries : q.rv \in Tracks /\ q.life \in Nat /\ q.own \in Gids
  /\ gidCounter \in Nat

\* The maps of the staged features, likewise, and the writes taken from them.
StageOK ==
  /\ stamped \subseteq live
  /\ staged \in [Tracks -> [gid : Gids \cup {NoGid}, full : BOOLEAN]]
  /\ \A rv \in Tracks : staged[rv].full => staged[rv].gid # NoGid
  /\ jobs \subseteq [n : Int, rv : Tracks, life : Nat, gid : Gids, phase : Phases, epoch : Nat]

TypeOK ==
  /\ IdsOK
  /\ StageOK
  /\ {enabled, healthy, confirmed, empty} \subseteq BOOLEAN
  /\ epoch \in Nat
  /\ database \subseteq Gids
  /\ shown \subseteq live /\ claimed \subseteq live
  /\ policy \in Policies

Init ==
  /\ live = {} /\ asked = {} /\ local = {} /\ queries = {} /\ shown = {}
  /\ ids = [rv \in Tracks |-> NoGid]
  /\ lives = [rv \in Tracks |-> 0]
  /\ seen = [rv \in Tracks |-> 0]
  /\ gidCounter = 0
  /\ database = Earlier
  /\ staged = [rv \in Tracks |-> NoEntry]
  /\ stamped = {} /\ jobs = {}
  /\ enabled = TRUE /\ healthy = TRUE /\ confirmed = FALSE /\ empty = FALSE
  /\ epoch = 0
  /\ policy = "withhold"
  /\ stored = {} /\ offered = {} /\ claimed = {}

\* _localEnrollmentAllowed.
Allowed == enabled /\ healthy /\ ~empty

-----------------------------------------------------------------------------
(* Taking staged features for a write: _addNewFeaturesToDatabase.           *)

\* A number that tells a write from the others on their way.
FreeNumber(n) ==
  /\ \A j \in jobs : j.n # n
  /\ \A i \in 1..(n - 1) : \E j \in jobs : j.n = i

\* The entry leaves the map.  If it has vectors and local enrollment is allowed
\* the caller goes on to hand it to the pool.
Take(rv) ==
  /\ staged' = [staged EXCEPT ![rv] = NoEntry]
  /\ IF staged[rv].full /\ Allowed
     THEN \E n \in 1..(Cardinality(jobs) + 1) :
            /\ FreeNumber(n)
            /\ jobs' = jobs \cup {[n |-> n, rv |-> rv, life |-> lives[rv],
                                   gid |-> staged[rv].gid, phase |-> "taken", epoch |-> 0]}
     ELSE UNCHANGED jobs

\* The epoch is read, without the lock, only after that check.
Submit(j) ==
  /\ j.phase = "taken"
  /\ jobs' = (jobs \ {j}) \cup {[j EXCEPT !.phase = "queued", !.epoch = epoch]}
  /\ UNCHANGED <<staged, stamped, idVars, flagVars, recordVars, wireVars, shown>>

\* _flushStaleFeatures: the timer finds an entry that is old enough.
Flush(rv) ==
  /\ rv \in stamped
  /\ stamped' = stamped \ {rv}
  /\ Take(rv)
  /\ UNCHANGED <<idVars, flagVars, recordVars, wireVars, shown>>

-----------------------------------------------------------------------------
(* The tracking thread.                                                     *)

\* The times that pruning a track leaves.
Stamps(rv) == stamped \ {rv}

\* pruneInactiveTracks, for a track that is no longer reliable.
Prune(rv) ==
  /\ rv \in live
  /\ live' = live \ {rv}
  /\ ids' = [ids EXCEPT ![rv] = NoGid]
  /\ asked' = asked \ {rv}
  /\ seen' = [seen EXCEPT ![rv] = 0]
  /\ local' = local \ {rv}
  /\ stamped' = Stamps(rv)
  /\ Take(rv)
  /\ shown' = shown \ {rv}
  /\ claimed' = claimed \ {rv}
  /\ UNCHANGED <<lives, queries, gidCounter, flagVars, recordVars, policy, offered>>

\* assignID and pickBestID, for an object with or without a usable crop.
Assign(rv, crop) ==
  LET new     == rv \notin live
      life    == IF new THEN lives[rv] + 1 ELSE lives[rv]
      gathers == rv \notin asked /\ enabled /\ crop
      count   == IF gathers /\ seen[rv] < MinFeatures THEN seen[rv] + 1 ELSE seen[rv]
      submits == rv \notin asked /\ enabled /\ count >= MinFeatures
      own     == IF ids[rv] = NoGid THEN OwnGid(rv, life) ELSE ids[rv]
      appends == crop /\ Allowed /\ ids[rv] # NoGid
  IN  /\ life <= MaxLives[rv]
      /\ live' = live \cup {rv}
      /\ lives' = [lives EXCEPT ![rv] = life]
      /\ seen' = [seen EXCEPT ![rv] = count]
      /\ local' = IF (gathers /\ Allowed) \/ appends THEN local \cup {rv} ELSE local
      /\ asked' = IF submits THEN asked \cup {rv} ELSE asked
      /\ queries' = IF submits THEN queries \cup {[rv |-> rv, life |-> life, own |-> own]}
                    ELSE queries
      /\ staged' = IF appends /\ staged[rv] # NoEntry
                   THEN [staged EXCEPT ![rv].full = TRUE] ELSE staged
      /\ shown' = IF crop THEN shown \cup {rv} ELSE shown \ {rv}
      /\ UNCHANGED <<ids, gidCounter, stamped, jobs, flagVars, recordVars, wireVars>>

-----------------------------------------------------------------------------
(* The similarity queries, in the pool.                                     *)

\* isNewID.
IsNewId(g) == \A rv \in live : ids[rv] # g

\* Mutant of Matched: an identity another track holds is given again.
MatchedAny(g) == g # NoGid

\* matched_new_id: the answer names an identity that no live track holds.
Matched(g) == g # NoGid /\ IsNewId(g)

\* Without a match the object keeps its own id if that is free; otherwise the
\* counter is advanced to the first id that is.
CounterAt(n) ==
  /\ IsNewId(CounterGid(n))
  /\ \A i \in gidCounter..(n - 1) : ~IsNewId(CounterGid(i))
NewGid(q, n) == IF IsNewId(q.own) THEN q.own ELSE CounterGid(n)

\* Mutant of Stamped: the entry gets no time.
StampedNot(rv) == stamped

\* The times after an entry was staged.
Stamped(rv) == stamped \cup {rv}

\* updateActiveDict, with active_ids_lock held.  "exact": the crop of the query's
\* object is stored already.
Decide(q, g, exact) ==
  \E n \in gidCounter..(gidCounter + Cardinality(live)) :
    LET match == Matched(g)
        gid   == IF match THEN g ELSE NewGid(q, n)
        full  == IF match THEN q.rv \in local \/ (~exact /\ Allowed)
                 ELSE q.rv \in local \/ seen[q.rv] > 0
    IN  /\ CounterAt(n)
        /\ ids' = [ids EXCEPT ![q.rv] = gid]
        /\ gidCounter' = IF match \/ IsNewId(q.own) THEN gidCounter ELSE n + 1
        /\ local' = IF full /\ healthy THEN local \cup {q.rv} ELSE local
        /\ IF healthy
           THEN /\ staged' = [staged EXCEPT ![q.rv] = [gid |-> gid, full |-> full]]
                /\ stamped' = Stamped(q.rv)
           ELSE UNCHANGED <<staged, stamped>>

\* querySimilarity: the answer of the database, if the track number is (again) live.
Answer(q, g, exact) ==
  /\ queries' = queries \ {q}
  /\ IF q.rv \in live THEN Decide(q, g, exact)
     ELSE UNCHANGED <<ids, gidCounter, local, staged, stamped>>
  /\ UNCHANGED <<live, lives, asked, seen, jobs, flagVars, recordVars, wireVars, shown>>

\* _disableReidWrites: queries are too slow.  Bound: once, since more calls only
\* advance the epoch.
Disable ==
  /\ enabled /\ queries # {}
  /\ enabled' = FALSE
  /\ epoch' = epoch + 1
  /\ UNCHANGED <<healthy, confirmed, empty, idVars, stageVars, recordVars, wireVars, shown>>

-----------------------------------------------------------------------------
(* The writes, in the pool.                                                 *)

\* Mutant of Superseded: only the epoch is compared.
SupersededByEpoch(j) == j.epoch # epoch

\* _writeReidEntry, under _reid_write_lock: the write is refused.
Superseded(j) == j.epoch # epoch \/ ~healthy \/ ~enabled \/ empty

\* _writeReidEntry and addEntry.
Write(j, outcome) ==
  /\ j.phase = "queued"
  /\ outcome = "refused" <=> Superseded(j)
  /\ jobs' = (jobs \ {j}) \cup {[j EXCEPT !.phase = outcome]}
  /\ IF outcome \in {"stored", "partial"}
     THEN /\ database' = database \cup {j.gid}
          /\ stored' = stored \cup {<<j.rv, j.life>>}
     ELSE UNCHANGED recordVars
  /\ UNCHANGED <<staged, stamped, idVars, flagVars, wireVars, shown>>

Outcomes == {"refused", "stored", "partial", "invalid", "failed"}

\* Mutant of Confirming: a refused write counts as success.
ConfirmingRefused == {"stored", "partial", "refused"}

\* The outcomes that confirm the write path.
Confirming == {"stored", "partial"}

\* _onReidWriteComplete.
Complete(j) ==
  /\ j.phase \in Outcomes
  /\ jobs' = jobs \ {j}
  /\ confirmed' = (confirmed \/ j.phase \in Confirming)
  /\ empty' = IF j.phase \in Confirming THEN FALSE
              ELSE empty \/ (j.phase = "invalid" /\ ~confirmed)
  /\ healthy' = (healthy /\ j.phase \notin {"partial", "failed"})
  /\ epoch' = IF j.phase \in {"partial", "failed"} \/ (j.phase = "invalid" /\ ~confirmed)
              THEN epoch + 1 ELSE epoch
  /\ UNCHANGED <<enabled, staged, stamped, idVars, recordVars, wireVars, shown>>

-----------------------------------------------------------------------------
(* The publisher of the hierarchy.                                          *)

\* _hierarchyReidPublishPolicy.  "stopped" and "empty" are one value, passthrough, in
\* the code.
Policy ==
  IF confirmed THEN "will_enroll"
  ELSE IF ~enabled \/ ~healthy THEN "stopped"
  ELSE IF empty THEN "empty" ELSE "withhold"

\* publishExternalDetections reads the policy once for all objects.
ReadPolicy ==
  /\ policy' = Policy
  /\ UNCHANGED <<offered, claimed, idVars, flagVars, stageVars, recordVars, shown>>

\* _trackHasReidEnrollment.
HasEnrollment(rv) ==
  staged[rv].full \/ rv \in local \/ seen[rv] > 0 \/ rv \in asked \/ ids[rv] # NoGid

\* _gateReidEmbedding: the crop of a track goes out, with a claim or without.
Publish(rv) ==
  /\ rv \in shown
  /\ policy # "withhold"
  /\ IF policy = "will_enroll" /\ HasEnrollment(rv)
     THEN /\ claimed' = claimed \cup {rv}
          /\ UNCHANGED offered
     ELSE /\ offered' = offered \cup {[track |-> Life(rv), cause |-> policy]}
          /\ claimed' = claimed \ {rv}
  /\ UNCHANGED <<policy, idVars, flagVars, stageVars, recordVars, shown>>

-----------------------------------------------------------------------------
Answers == \E q \in queries, g \in database \cup {NoGid}, exact \in BOOLEAN : Answer(q, g, exact)
Writes == \E j \in jobs : Submit(j) \/ Complete(j) \/ \E o \in Outcomes : Write(j, o)
Flushes == \E rv \in Tracks : Flush(rv)

Next ==
  \/ \E rv \in Tracks : Prune(rv) \/ Publish(rv) \/ \E crop \in BOOLEAN : Assign(rv, crop)
  \/ Answers
  \/ Writes
  \/ Flushes
  \/ Disable
  \/ ReadPolicy

Spec == Init /\ [][Next]_vars

-----------------------------------------------------------------------------
(* Properties.                                                              *)

\* "A parent will not assign the same database UUID to two concurrent live tracks"
\* (Extended-ReID.md): no interleaving of answers, pruning and returning tracks
\* gives one identity to two of them.
GidUnique == \A a, b \in live : a # b /\ ids[a] # NoGid => ids[a] # ids[b]

\* The parent is asked to leave crops alone only after this process has stored one
\* (uuid_manager.py:165).
ClaimsAfterProof == claimed # {} => stored # {}

\* A crop that was left to the parent because writes failed or ReID was switched
\* off is not stored here later, whatever was on its way to the database.
HandedOverForGood ==
  [][\A t \in stored' \ stored, o \in offered : o.track = t => o.cause = "empty"]_vars

\* The timer finds every entry that waits to be written, whichever query staged it
\* and whoever took the last one: none waits for its track to end.
StagedIsTimed == \A rv \in Tracks : staged[rv] # NoEntry => rv \in stamped

=============================================================================
