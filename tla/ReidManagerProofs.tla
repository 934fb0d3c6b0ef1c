-------------------------- MODULE ReidManagerProofs --------------------------
(***************************************************************************)
(* Proofs about ReidManager: identities stay unique, staged features are   *)
(* timed, claims follow a stored crop, and a crop handed over because      *)
(* writes stopped is not stored later, for any tracks and any queries.     *)
(***************************************************************************)
EXTENDS ReidManager, TLAPS

USE ReidAssumption

\* The parts of the type invariant.
FlagsOK ==
  /\ enabled \in BOOLEAN /\ healthy \in BOOLEAN
  /\ confirmed \in BOOLEAN /\ empty \in BOOLEAN
  /\ epoch \in Nat

SetsOK ==
  /\ database \subseteq Gids
  /\ shown \subseteq live
  /\ claimed \subseteq live

LEMMA TypeParts ==
  /\ TypeOK <=> IdsOK /\ StageOK /\ FlagsOK /\ SetsOK /\ policy \in Policies
  /\ TypeOK' <=> IdsOK' /\ StageOK' /\ FlagsOK' /\ SetsOK' /\ policy' \in Policies
BY DEF TypeOK, FlagsOK, SetsOK

LEMMA GidFacts ==
  /\ \A rv \in Tracks, life \in Nat : OwnGid(rv, life) \in Gids
  /\ \A n \in Nat : CounterGid(n) \in Gids
BY DEF OwnGid, CounterGid, Gids

\* A job and an entry, whatever they hold.
Job == [n : Int, rv : Tracks, life : Nat, gid : Gids, phase : Phases, epoch : Nat]
Entry == [gid : Gids \cup {NoGid}, full : BOOLEAN]

LEMMA EntryFacts ==
  ASSUME NEW e \in Entry, e # NoEntry, e.full => e.gid # NoGid
  PROVE  e.gid # NoGid
<1>1. e = [gid |-> e.gid, full |-> e.full] /\ e.full \in BOOLEAN
  BY DEF Entry
<1> QED BY <1>1 DEF NoEntry

-----------------------------------------------------------------------------
(* Types, action by action.                                                 *)

LEMMA TakeTypes ==
  ASSUME IdsOK, StageOK, NEW rv \in Tracks, Take(rv)
  PROVE  /\ staged' \in [Tracks -> Entry]
         /\ \A a \in Tracks : staged'[a].full => staged'[a].gid # NoGid
         /\ jobs' \subseteq Job
<1>1. NoEntry \in Entry /\ ~NoEntry.full
  BY DEF NoEntry, Entry
<1>2. staged' = [staged EXCEPT ![rv] = NoEntry] /\ staged \in [Tracks -> Entry]
  BY DEF Take, StageOK, Entry
<1>3. \A a \in Tracks : staged'[a] = IF a = rv THEN NoEntry ELSE staged[a]
  BY <1>2
<1>4. jobs \subseteq Job
  BY DEF StageOK, Job
<1>5. CASE staged[rv].full /\ Allowed
  <2>1. PICK n \in 1..(Cardinality(jobs) + 1) :
          jobs' = jobs \cup {[n |-> n, rv |-> rv, life |-> lives[rv],
                              gid |-> staged[rv].gid, phase |-> "taken", epoch |-> 0]}
    BY <1>5 DEF Take
  <2>2. n \in Int /\ lives[rv] \in Nat /\ "taken" \in Phases
    BY DEF IdsOK, Phases
  <2>3. staged[rv].gid \in Gids
    BY <1>2, <1>5 DEF StageOK, Entry
  <2> QED BY <1>1, <1>2, <1>3, <1>4, <2>1, <2>2, <2>3 DEF StageOK, Job
<1>6. CASE ~(staged[rv].full /\ Allowed)
  <2>1. jobs' = jobs
    BY <1>6 DEF Take
  <2> QED BY <1>1, <1>2, <1>3, <1>4, <2>1 DEF StageOK
<1> QED BY <1>5, <1>6

LEMMA PruneTypes ==
  ASSUME TypeOK, NEW rv \in Tracks, Prune(rv)
  PROVE  IdsOK' /\ StageOK' /\ SetsOK'
<1>1. IdsOK /\ StageOK /\ SetsOK /\ Take(rv)
  BY TypeParts DEF Prune
<1>2. IdsOK'
  BY <1>1 DEF IdsOK, Prune
<1>3. StageOK'
  BY <1>1, TakeTypes DEF StageOK, Prune, Stamps, Entry, Job
<1>4. SetsOK'
  BY <1>1 DEF SetsOK, Prune, recordVars
<1> QED BY <1>2, <1>3, <1>4

LEMMA FlushTypes ==
  ASSUME TypeOK, NEW rv \in Tracks, Flush(rv)
  PROVE  IdsOK' /\ StageOK' /\ SetsOK'
<1>1. IdsOK /\ StageOK /\ SetsOK /\ Take(rv)
  BY TypeParts DEF Flush
<1>2. IdsOK'
  BY <1>1 DEF IdsOK, Flush, idVars
<1>3. StageOK'
  BY <1>1, TakeTypes DEF StageOK, Flush, Entry, Job, idVars
<1>4. SetsOK'
  BY <1>1 DEF SetsOK, Flush, recordVars, wireVars, idVars
<1> QED BY <1>2, <1>3, <1>4

LEMMA AssignTypes ==
  ASSUME TypeOK, NEW rv \in Tracks, NEW crop \in BOOLEAN, Assign(rv, crop)
  PROVE  IdsOK' /\ StageOK' /\ SetsOK'
<1> DEFINE life  == IF rv \notin live THEN lives[rv] + 1 ELSE lives[rv]
           count == IF (rv \notin asked /\ enabled /\ crop) /\ seen[rv] < MinFeatures
                    THEN seen[rv] + 1 ELSE seen[rv]
           own   == IF ids[rv] = NoGid THEN OwnGid(rv, life) ELSE ids[rv]
<1>1. IdsOK /\ StageOK /\ SetsOK
  BY TypeParts
<1>2. life \in Nat /\ count \in 0..MinFeatures
  BY <1>1 DEF IdsOK
<1>3. own \in Gids
  BY <1>1, <1>2, GidFacts DEF IdsOK
<1>4. /\ live' = live \cup {rv} /\ ids' = ids /\ gidCounter' = gidCounter
      /\ lives' = [lives EXCEPT ![rv] = life]
      /\ seen' = [seen EXCEPT ![rv] = count]
      /\ local' \subseteq local \cup {rv}
      /\ asked' \subseteq asked \cup {rv}
      /\ queries' \subseteq queries \cup {[rv |-> rv, life |-> life, own |-> own]}
      /\ shown' \subseteq shown \cup {rv}
      /\ stamped' = stamped /\ jobs' = jobs /\ database' = database /\ claimed' = claimed
  BY DEF Assign, recordVars, wireVars
<1>5. staged' = staged \/ (staged[rv] # NoEntry /\ ids[rv] # NoGid
                           /\ staged' = [staged EXCEPT ![rv].full = TRUE])
  BY DEF Assign
<1> HIDE DEF life, count, own
<1>6. IdsOK'
  <2>1. \A q \in queries' : q.rv \in Tracks /\ q.life \in Nat /\ q.own \in Gids
    BY <1>1, <1>2, <1>3, <1>4 DEF IdsOK
  <2>2. lives' \in [Tracks -> Nat] /\ seen' \in [Tracks -> 0..MinFeatures]
    BY <1>1, <1>2, <1>4 DEF IdsOK
  <2> QED BY <1>1, <1>4, <2>1, <2>2 DEF IdsOK
<1>7. StageOK'
  <2>1. staged \in [Tracks -> Entry] /\ \A a \in Tracks : staged[a].full => staged[a].gid # NoGid
    BY <1>1 DEF StageOK, Entry
  <2>2. CASE staged' = staged
    BY <1>1, <1>4, <2>2 DEF StageOK
  <2>3. CASE staged[rv] # NoEntry /\ staged' = [staged EXCEPT ![rv].full = TRUE]
    <3>1. staged[rv].gid # NoGid
      BY <2>1, <2>3, EntryFacts
    <3>2. staged' \in [Tracks -> Entry]
      BY <2>1, <2>3 DEF Entry
    <3>3. \A a \in Tracks : staged'[a].gid = staged[a].gid /\ (a # rv => staged'[a] = staged[a])
      BY <2>1, <2>3 DEF Entry
    <3>4. \A a \in Tracks : staged'[a].full => staged'[a].gid # NoGid
      BY <2>1, <3>1, <3>3
    <3> QED BY <1>1, <1>4, <3>2, <3>4 DEF StageOK, Entry
  <2> QED BY <1>5, <2>2, <2>3
<1>8. SetsOK'
  BY <1>1, <1>4 DEF SetsOK
<1> QED BY <1>6, <1>7, <1>8

LEMMA AnswerTypes ==
  ASSUME TypeOK, NEW q \in queries, NEW g \in database \cup {NoGid}, NEW exact \in BOOLEAN,
         Answer(q, g, exact)
  PROVE  IdsOK' /\ StageOK' /\ SetsOK'
<1>1. IdsOK /\ StageOK /\ SetsOK /\ FlagsOK
  BY TypeParts
<1>2. /\ live' = live /\ lives' = lives /\ asked' = asked /\ seen' = seen /\ jobs' = jobs
      /\ queries' = queries \ {q}
      /\ shown' = shown /\ database' = database /\ claimed' = claimed
  BY DEF Answer, recordVars, wireVars
<1>3. SetsOK'
  BY <1>1, <1>2 DEF SetsOK
<1>4. CASE q.rv \notin live
  <2>1. UNCHANGED <<ids, gidCounter, local, staged, stamped>>
    BY <1>4 DEF Answer
  <2>2. IdsOK'
    BY <1>1, <1>2, <2>1 DEF IdsOK
  <2>3. StageOK'
    BY <1>1, <1>2, <2>1 DEF StageOK
  <2> QED BY <1>3, <2>2, <2>3
<1>5. CASE q.rv \in live
  <2> DEFINE full == IF Matched(g) THEN q.rv \in local \/ (~exact /\ Allowed)
                     ELSE q.rv \in local \/ seen[q.rv] > 0
  <2>1. Decide(q, g, exact)
    BY <1>5 DEF Answer
  <2>2. PICK n \in gidCounter..(gidCounter + Cardinality(live)) :
          LET gid == IF Matched(g) THEN g ELSE NewGid(q, n)
          IN  /\ ids' = [ids EXCEPT ![q.rv] = gid]
              /\ gidCounter' = IF Matched(g) \/ IsNewId(q.own) THEN gidCounter ELSE n + 1
              /\ local' = IF full /\ healthy THEN local \cup {q.rv} ELSE local
              /\ IF healthy
                 THEN /\ staged' = [staged EXCEPT ![q.rv] = [gid |-> gid, full |-> full]]
                      /\ stamped' = Stamped(q.rv)
                 ELSE UNCHANGED <<staged, stamped>>
    BY <2>1 DEF Decide
  <2> DEFINE gid == IF Matched(g) THEN g ELSE NewGid(q, n)
  <2>3. n \in Nat
    BY <1>1 DEF IdsOK
  <2>4. full \in BOOLEAN
    OBVIOUS
  <2>5. gid \in Gids /\ gid # NoGid
    <3>1. NoGid \notin Gids
      BY DEF Gids
    <3>2. Matched(g) => g \in Gids
      BY <1>1 DEF Matched, SetsOK
    <3>3. NewGid(q, n) \in Gids
      BY <1>1, <2>3, GidFacts DEF NewGid, IdsOK
    <3> QED BY <3>1, <3>2, <3>3
  <2>6. /\ ids' = [ids EXCEPT ![q.rv] = gid]
        /\ gidCounter' \in {gidCounter, n + 1}
        /\ local' \subseteq local \cup {q.rv}
        /\ \/ /\ staged' = [staged EXCEPT ![q.rv] = [gid |-> gid, full |-> full]]
              /\ stamped' = stamped \cup {q.rv}
           \/ staged' = staged /\ stamped' = stamped
    BY <2>2 DEF Stamped
  <2> HIDE DEF gid, full
  <2>7. IdsOK'
    <3>1. ids' \in [Tracks -> Gids \cup {NoGid}] /\ \A rv \in Tracks \ live' : ids'[rv] = NoGid
      BY <1>1, <1>2, <1>5, <2>5, <2>6 DEF IdsOK
    <3>2. gidCounter' \in Nat
      BY <1>1, <2>3, <2>6 DEF IdsOK
    <3> QED BY <1>1, <1>2, <1>5, <2>6, <3>1, <3>2 DEF IdsOK
  <2>8. StageOK'
    <3>1. q.rv \in Tracks
      BY <1>1 DEF IdsOK
    <3>2. CASE staged' = staged /\ stamped' = stamped
      BY <1>1, <1>2, <3>2 DEF StageOK
    <3>3. CASE /\ staged' = [staged EXCEPT ![q.rv] = [gid |-> gid, full |-> full]]
               /\ stamped' = stamped \cup {q.rv}
      <4>1. staged \in [Tracks -> Entry] /\ \A a \in Tracks : staged[a].full => staged[a].gid # NoGid
        BY <1>1 DEF StageOK, Entry
      <4>2. [gid |-> gid, full |-> full] \in Entry
        BY <2>4, <2>5 DEF Entry
      <4>3. staged' \in [Tracks -> Entry]
        BY <3>1, <3>3, <4>1, <4>2
      <4>4. \A a \in Tracks : staged'[a] = IF a = q.rv THEN [gid |-> gid, full |-> full] ELSE staged[a]
        BY <3>1, <3>3, <4>1
      <4>5. \A a \in Tracks : staged'[a].full => staged'[a].gid # NoGid
        BY <2>5, <4>1, <4>4
      <4> QED BY <1>1, <1>2, <1>5, <3>3, <4>3, <4>5 DEF StageOK, Entry
    <3> QED BY <2>6, <3>2, <3>3
  <2> QED BY <1>3, <2>7, <2>8
<1> QED BY <1>4, <1>5

LEMMA WriteTypes ==
  ASSUME TypeOK, NEW j \in jobs, NEW o \in Outcomes, Submit(j) \/ Complete(j) \/ Write(j, o)
  PROVE  IdsOK' /\ StageOK' /\ FlagsOK' /\ SetsOK' /\ policy' \in Policies
<1>1. IdsOK /\ StageOK /\ SetsOK /\ FlagsOK /\ policy \in Policies
  BY TypeParts
<1>2. jobs \subseteq Job /\ j \in Job
  BY <1>1 DEF StageOK, Job
<1>3. UNCHANGED <<idVars, staged, stamped, wireVars, shown>>
  BY DEF Submit, Complete, Write
<1>4. IdsOK'
  BY <1>1, <1>3 DEF IdsOK, idVars
<1>5. jobs' \subseteq Job
  <2>1. [j EXCEPT !.phase = "queued", !.epoch = epoch] \in Job
    BY <1>1, <1>2 DEF Job, Phases, FlagsOK
  <2>2. [j EXCEPT !.phase = o] \in Job
    BY <1>2 DEF Job, Phases, Outcomes
  <2> QED BY <1>2, <2>1, <2>2 DEF Submit, Complete, Write
<1>6. StageOK'
  BY <1>1, <1>3, <1>5 DEF StageOK, Job, idVars
<1>7. FlagsOK'
  <2>1. CASE Submit(j) \/ Write(j, o)
    BY <1>1, <2>1 DEF FlagsOK, Submit, Write, flagVars
  <2>2. CASE Complete(j)
    <3>1. epoch' \in Nat
      BY <1>1, <2>2 DEF FlagsOK, Complete
    <3>2. confirmed' \in BOOLEAN /\ empty' \in BOOLEAN /\ healthy' \in BOOLEAN /\ enabled' = enabled
      BY <2>2, Zenon DEF Complete
    <3> QED BY <1>1, <3>1, <3>2 DEF FlagsOK
  <2> QED BY <2>1, <2>2
<1>8. database' \subseteq Gids
  BY <1>1, <1>2 DEF Submit, Complete, Write, SetsOK, recordVars, Job
<1>9. SetsOK' /\ policy' \in Policies
  BY <1>1, <1>3, <1>8 DEF SetsOK, idVars, wireVars
<1> QED BY <1>4, <1>6, <1>7, <1>9

LEMMA InitTypes == Init => TypeOK
<1> SUFFICES ASSUME Init PROVE TypeOK
  OBVIOUS
<1>1. NoEntry \in Entry /\ ~NoEntry.full
  BY DEF NoEntry, Entry
<1>2. IdsOK
  BY DEF Init, IdsOK
<1>3. StageOK
  BY <1>1 DEF Init, StageOK, Entry
<1>4. FlagsOK /\ SetsOK /\ policy \in Policies
  BY DEF Init, FlagsOK, SetsOK, Policies, Gids
<1> QED BY <1>2, <1>3, <1>4, TypeParts

LEMMA NextTypes == TypeOK /\ [Next]_vars => TypeOK'
<1> SUFFICES ASSUME TypeOK, [Next]_vars PROVE TypeOK'
  OBVIOUS
<1>0. IdsOK /\ StageOK /\ SetsOK /\ FlagsOK /\ policy \in Policies
  BY TypeParts
<1>1. ASSUME NEW rv \in Tracks, Prune(rv) \/ Flush(rv) \/ \E crop \in BOOLEAN : Assign(rv, crop)
      PROVE  TypeOK'
  <2>1. FlagsOK' /\ policy' \in Policies
    BY <1>0, <1>1 DEF Prune, Flush, Assign, FlagsOK, flagVars, wireVars
  <2> QED BY <1>1, <2>1, PruneTypes, FlushTypes, AssignTypes, TypeParts
<1>2. CASE Answers
  <2>1. FlagsOK' /\ policy' \in Policies
    BY <1>0, <1>2 DEF Answers, Answer, FlagsOK, flagVars, wireVars
  <2> QED BY <1>2, <2>1, AnswerTypes, TypeParts DEF Answers
<1>3. CASE Writes
  <2>1. PICK j \in jobs, o \in Outcomes : Submit(j) \/ Complete(j) \/ Write(j, o)
    BY <1>3 DEF Writes, Outcomes
  <2> QED BY <2>1, WriteTypes, TypeParts
<1>4. ASSUME Disable \/ ReadPolicy \/ (\E rv \in Tracks : Publish(rv)) \/ UNCHANGED vars
      PROVE  TypeOK'
  <2>1. UNCHANGED <<idVars, stageVars, recordVars, shown>>
    BY <1>4 DEF Disable, ReadPolicy, Publish, vars
  <2>2. FlagsOK'
    <3>1. CASE Disable
      <4>1. epoch' = epoch + 1 /\ enabled' = FALSE /\ UNCHANGED <<healthy, confirmed, empty>>
        BY <3>1 DEF Disable
      <4>2. epoch' \in Nat
        BY <1>0, <4>1 DEF FlagsOK
      <4>3. enabled' \in BOOLEAN /\ healthy' \in BOOLEAN /\ confirmed' \in BOOLEAN /\ empty' \in BOOLEAN
        BY <1>0, <4>1, Zenon DEF FlagsOK
      <4> QED BY <4>2, <4>3 DEF FlagsOK
    <3>2. CASE ~Disable
      BY <1>0, <1>4, <3>2 DEF ReadPolicy, Publish, vars, FlagsOK, flagVars
    <3> QED BY <3>1, <3>2
  <2>3. policy' \in Policies
    BY <1>0, <1>4 DEF Disable, ReadPolicy, Publish, vars, wireVars, Policy, Policies
  <2>4. claimed' \subseteq live'
    BY <1>0, <1>4 DEF Disable, ReadPolicy, Publish, vars, wireVars, idVars, SetsOK
  <2>5. IdsOK'
    BY <1>0, <2>1 DEF IdsOK, idVars
  <2>6. StageOK'
    BY <1>0, <2>1 DEF StageOK, idVars, stageVars
  <2>7. SetsOK'
    BY <1>0, <2>1, <2>4 DEF SetsOK, idVars, recordVars
  <2> QED BY <2>2, <2>3, <2>5, <2>6, <2>7, TypeParts
<1> QED BY <1>1, <1>2, <1>3, <1>4 DEF Next, Flushes

\* In every state the maps are keyed by live tracks and hold identities.
THEOREM TypesHold == Spec => []TypeOK
<1>1. Init => TypeOK
  BY InitTypes
<1>2. TypeOK /\ [Next]_vars => TypeOK'
  BY NextTypes
<1> QED BY <1>1, <1>2, PTL DEF Spec

-----------------------------------------------------------------------------
(* Identities.                                                              *)

LEMMA NextUnique == TypeOK /\ TypeOK' /\ GidUnique /\ [Next]_vars => GidUnique'
<1> SUFFICES ASSUME TypeOK, TypeOK', GidUnique, [Next]_vars PROVE GidUnique'
  OBVIOUS
<1>0. IdsOK /\ StageOK /\ IdsOK'
  BY TypeParts
<1>1. ASSUME NEW rv \in Tracks, Prune(rv) PROVE GidUnique'
  BY <1>0, <1>1 DEF Prune, GidUnique, IdsOK
<1>2. ASSUME NEW rv \in Tracks, NEW crop \in BOOLEAN, Assign(rv, crop) PROVE GidUnique'
  <2>1. live' = live \cup {rv} /\ ids' = ids
    BY <1>2 DEF Assign
  <2>2. ids[rv] = NoGid \/ rv \in live
    BY <1>0 DEF IdsOK
  <2> QED BY <2>1, <2>2 DEF GidUnique
<1>3. ASSUME NEW q \in queries, NEW g \in database \cup {NoGid}, NEW exact \in BOOLEAN,
             Answer(q, g, exact)
      PROVE  GidUnique'
  <2>1. live' = live
    BY <1>3 DEF Answer
  <2>2. CASE q.rv \notin live
    BY <1>3, <2>1, <2>2 DEF Answer, GidUnique
  <2>3. CASE q.rv \in live
    <3>1. PICK n \in gidCounter..(gidCounter + Cardinality(live)) :
            /\ CounterAt(n)
            /\ ids' = [ids EXCEPT ![q.rv] = IF Matched(g) THEN g ELSE NewGid(q, n)]
      BY <1>3, <2>3 DEF Answer, Decide
    <3> DEFINE gid == IF Matched(g) THEN g ELSE NewGid(q, n)
    <3>2. IsNewId(gid)
      BY <3>1 DEF Matched, NewGid, CounterAt
    <3> HIDE DEF gid
    <3>3. ids' = [ids EXCEPT ![q.rv] = gid]
      BY <3>1 DEF gid
    <3> QED BY <1>0, <2>1, <2>3, <3>2, <3>3 DEF IsNewId, GidUnique, IdsOK
  <2> QED BY <2>2, <2>3
<1>4. ASSUME UNCHANGED <<live, ids>> PROVE GidUnique'
  BY <1>4 DEF GidUnique
<1>5. Writes \/ Flushes \/ Disable \/ ReadPolicy \/ (\E rv \in Tracks : Publish(rv)) \/ UNCHANGED vars
        => UNCHANGED <<live, ids>>
  BY DEF Writes, Submit, Complete, Write, Flushes, Flush, Disable, ReadPolicy, Publish, vars, idVars
<1> QED BY <1>1, <1>2, <1>3, <1>4, <1>5 DEF Next, Answers

\* No interleaving of answers, pruning and returning tracks gives one identity to
\* two live tracks (isNewID under active_ids_lock).
THEOREM GidsUnique == Spec => []GidUnique
<1>1. Init => GidUnique
  BY DEF Init, GidUnique
<1>2. TypeOK /\ TypeOK' /\ GidUnique /\ [Next]_vars => GidUnique'
  BY NextUnique
<1> QED BY <1>1, <1>2, TypesHold, PTL DEF Spec

-----------------------------------------------------------------------------
(* Staged features.                                                         *)

LEMMA NextTimed == TypeOK /\ StagedIsTimed /\ [Next]_vars => StagedIsTimed'
<1> SUFFICES ASSUME TypeOK, StagedIsTimed, [Next]_vars PROVE StagedIsTimed'
  OBVIOUS
<1>0. IdsOK /\ StageOK
  BY TypeParts
<1>1. ASSUME NEW rv \in Tracks, Prune(rv) \/ Flush(rv) PROVE StagedIsTimed'
  <2>1. staged' = [staged EXCEPT ![rv] = NoEntry] /\ stamped' = stamped \ {rv}
    BY <1>1 DEF Prune, Flush, Take, Stamps
  <2> QED BY <1>0, <2>1 DEF StagedIsTimed, StageOK
<1>2. ASSUME NEW rv \in Tracks, NEW crop \in BOOLEAN, Assign(rv, crop) PROVE StagedIsTimed'
  <2>1. stamped' = stamped /\ (staged' = staged \/ (staged[rv] # NoEntry
                               /\ staged' = [staged EXCEPT ![rv].full = TRUE]))
    BY <1>2 DEF Assign
  <2> QED BY <1>0, <2>1 DEF StagedIsTimed, StageOK
<1>3. ASSUME NEW q \in queries, NEW g \in database \cup {NoGid}, NEW exact \in BOOLEAN,
             Answer(q, g, exact)
      PROVE  StagedIsTimed'
  <2>1. \/ UNCHANGED <<staged, stamped>>
        \/ \E e : staged' = [staged EXCEPT ![q.rv] = e] /\ stamped' = stamped \cup {q.rv}
    BY <1>3 DEF Answer, Decide, Stamped
  <2> QED BY <1>0, <2>1 DEF StagedIsTimed, StageOK
<1>4. Writes \/ Disable \/ ReadPolicy \/ (\E rv \in Tracks : Publish(rv)) \/ UNCHANGED vars
        => UNCHANGED <<staged, stamped>>
  BY DEF Writes, Submit, Complete, Write, Disable, ReadPolicy, Publish, vars, stageVars
<1>5. UNCHANGED <<staged, stamped>> => StagedIsTimed'
  BY DEF StagedIsTimed
<1> QED BY <1>1, <1>2, <1>3, <1>4, <1>5 DEF Next, Answers, Flushes

\* The timer finds every entry that waits to be written.
THEOREM StagedTimed == Spec => []StagedIsTimed
<1>1. Init => StagedIsTimed
  BY DEF Init, StagedIsTimed
<1>2. TypeOK /\ StagedIsTimed /\ [Next]_vars => StagedIsTimed'
  BY NextTimed
<1> QED BY <1>1, <1>2, TypesHold, PTL DEF Spec

-----------------------------------------------------------------------------
(* The hand-off of the write path.                                          *)

\* Whatever says that a crop was stored comes after one: results on their way, the
\* flag and what the publisher read.
ProofInv ==
  /\ \A j \in jobs : j.phase \in Confirming => stored # {}
  /\ confirmed => stored # {}
  /\ policy = "will_enroll" => stored # {}
  /\ claimed # {} => stored # {}

LEMMA NextProof == TypeOK /\ ProofInv /\ [Next]_vars => ProofInv'
<1> SUFFICES ASSUME TypeOK, ProofInv, [Next]_vars PROVE ProofInv'
  OBVIOUS
<1>0. jobs \subseteq Job
  BY DEF TypeOK, StageOK, Job
<1>1. ASSUME NEW j \in jobs, NEW o \in Outcomes, Write(j, o) PROVE ProofInv'
  <2>1. stored \subseteq stored' /\ (o \in Confirming => stored' # {})
    BY <1>1 DEF Write, Confirming, recordVars
  <2>2. jobs' = (jobs \ {j}) \cup {[j EXCEPT !.phase = o]} /\ [j EXCEPT !.phase = o].phase = o
    BY <1>0, <1>1 DEF Write, Job
  <2>3. UNCHANGED <<confirmed, policy, claimed>>
    BY <1>1 DEF Write, flagVars, wireVars
  <2> QED BY <2>1, <2>2, <2>3 DEF ProofInv
<1>2. ASSUME NEW j \in jobs, Submit(j) PROVE ProofInv'
  <2>1. [j EXCEPT !.phase = "queued", !.epoch = epoch].phase = "queued"
    BY <1>0 DEF Job
  <2> QED BY <1>2, <2>1 DEF ProofInv, Submit, Confirming, flagVars, wireVars, recordVars
<1>3. ASSUME NEW j \in jobs, Complete(j) PROVE ProofInv'
  BY <1>3 DEF ProofInv, Complete, wireVars, recordVars
<1>4. ASSUME NEW rv \in Tracks, Prune(rv) \/ Flush(rv) PROVE ProofInv'
  <2>1. Take(rv) /\ claimed' \subseteq claimed /\ UNCHANGED <<confirmed, policy, stored>>
    BY <1>4 DEF Prune, Flush, flagVars, wireVars, recordVars
  <2>2. \A j \in jobs' : j \in jobs \/ j.phase = "taken"
    BY <2>1 DEF Take
  <2> QED BY <2>1, <2>2 DEF ProofInv, Confirming
<1>5. ASSUME NEW rv \in Tracks, Publish(rv) PROVE ProofInv'
  BY <1>5 DEF ProofInv, Publish, flagVars, stageVars, recordVars
<1>6. CASE ReadPolicy
  BY <1>6 DEF ProofInv, ReadPolicy, Policy, flagVars, stageVars, recordVars
<1>7. (\E rv \in Tracks, crop \in BOOLEAN : Assign(rv, crop)) \/ Answers \/ Disable \/ UNCHANGED vars
        => UNCHANGED <<jobs, confirmed, policy, claimed, stored>>
  BY DEF Assign, Answers, Answer, Disable, vars, flagVars, stageVars, wireVars, recordVars
<1>8. UNCHANGED <<jobs, confirmed, policy, claimed, stored>> => ProofInv'
  BY DEF ProofInv
<1> QED BY <1>1, <1>2, <1>3, <1>4, <1>5, <1>6, <1>7, <1>8 DEF Next, Writes, Flushes

\* The parent is asked to leave crops alone only after this process stored one.
THEOREM ClaimsProved == Spec => []ClaimsAfterProof
<1>1. Init => ProofInv
  BY DEF Init, ProofInv
<1>2. TypeOK /\ ProofInv /\ [Next]_vars => ProofInv'
  BY NextProof
<1>3. ProofInv => ClaimsAfterProof
  BY DEF ProofInv, ClaimsAfterProof
<1> QED BY <1>1, <1>2, <1>3, TypesHold, PTL DEF Spec

\* A crop was handed over for good only when writes are off for good, and a track
\* that shows a crop without a claim has met a manager that is switched off.
HandInv ==
  /\ policy = "stopped" => ~enabled \/ ~healthy
  /\ \A rv \in shown : seen[rv] > 0 \/ rv \in asked \/ ~enabled
  /\ \A o \in offered : o.cause # "empty" => ~enabled \/ ~healthy

LEMMA NextHand == TypeOK /\ HandInv /\ [Next]_vars => HandInv'
<1> SUFFICES ASSUME TypeOK, HandInv, [Next]_vars PROVE HandInv'
  OBVIOUS
<1>0. IdsOK /\ SetsOK /\ policy \in Policies
  BY TypeParts
<1>1. ASSUME NEW rv \in Tracks, Prune(rv) PROVE HandInv'
  BY <1>0, <1>1 DEF Prune, HandInv, IdsOK, SetsOK, flagVars
<1>2. ASSUME NEW rv \in Tracks, NEW crop \in BOOLEAN, Assign(rv, crop) PROVE HandInv'
  <2>1. UNCHANGED <<policy, offered, enabled, healthy>> /\ asked \subseteq asked'
    BY <1>2 DEF Assign, flagVars, wireVars
  <2>2. \A a \in shown' : a # rv => a \in shown /\ seen'[a] = seen[a]
    BY <1>0, <1>2 DEF Assign, IdsOK, SetsOK
  <2>3. rv \in shown' => crop
    BY <1>2 DEF Assign
  <2>4. rv \in asked \/ ~enabled \/ ~crop \/ seen'[rv] > 0
    BY <1>0, <1>2 DEF Assign, IdsOK
  <2> QED BY <2>1, <2>2, <2>3, <2>4 DEF HandInv
<1>3. ASSUME NEW rv \in Tracks, Publish(rv) PROVE HandInv'
  <2>1. UNCHANGED <<policy, shown, seen, asked, enabled, healthy>>
    BY <1>3 DEF Publish, idVars, flagVars
  <2>2. CASE offered' = offered
    BY <2>1, <2>2 DEF HandInv
  <2>3. CASE /\ offered' = offered \cup {[track |-> Life(rv), cause |-> policy]}
             /\ ~(policy = "will_enroll" /\ HasEnrollment(rv))
    <3>1. policy # "empty" => ~enabled \/ ~healthy
      BY <1>0, <1>3, <2>3 DEF Publish, HandInv, HasEnrollment, Policies
    <3> QED BY <2>1, <2>3, <3>1 DEF HandInv
  <2> QED BY <1>3, <2>2, <2>3 DEF Publish
<1>4. CASE ReadPolicy
  BY <1>4 DEF HandInv, ReadPolicy, Policy, idVars, flagVars
<1>5. ASSUME NEW j \in jobs, Complete(j) PROVE HandInv'
  BY <1>5 DEF HandInv, Complete, idVars, wireVars
<1>6. CASE Disable
  BY <1>6 DEF HandInv, Disable, idVars, wireVars
<1>7. ASSUME UNCHANGED <<policy, shown, seen, asked, enabled, healthy, offered>> PROVE HandInv'
  BY <1>7 DEF HandInv
<1>8. (\E j \in jobs : Submit(j) \/ \E o \in Outcomes : Write(j, o)) \/ Answers \/ Flushes \/ UNCHANGED vars
        => UNCHANGED <<policy, shown, seen, asked, enabled, healthy, offered>>
  BY DEF Submit, Write, Answers, Answer, Flushes, Flush, vars, idVars, flagVars, wireVars
<1> QED BY <1>1, <1>2, <1>3, <1>4, <1>5, <1>6, <1>7, <1>8 DEF Next, Writes

\* A crop left to the parent because writes failed or ReID was switched off is not
\* stored here later, whatever was on its way (_writeReidEntry).
THEOREM HandedOver == Spec => HandedOverForGood
<1>1. Init => HandInv
  BY DEF Init, HandInv
<1>2. TypeOK /\ HandInv /\ [Next]_vars => HandInv'
  BY NextHand
<1>3. HandInv /\ [Next]_vars =>
        [\A t \in stored' \ stored, o \in offered : o.track = t => o.cause = "empty"]_vars
  <2> SUFFICES ASSUME HandInv, Next,
                      NEW t \in stored' \ stored, NEW o \in offered, o.track = t
               PROVE  o.cause = "empty"
    OBVIOUS
  <2>1. \E j \in jobs, r \in Outcomes : Write(j, r) /\ r # "refused"
    BY ZenonT(60) DEF Next, Prune, Publish, Assign, Answers, Answer, Writes, Submit, Complete,
           Write, Flushes, Flush, Disable, ReadPolicy, recordVars
  <2>2. enabled /\ healthy
    BY <2>1 DEF Write, Superseded
  <2> QED BY <2>2 DEF HandInv
<1> QED BY <1>1, <1>2, <1>3, TypesHold, PTL DEF Spec, HandedOverForGood

=============================================================================
