---------------------------- MODULE SourcesProofs ----------------------------
(***************************************************************************)
(* The two stores that are cleaned up while they are in use: the maps of a *)
(* scene in the Manager, whatever requests overlap, and the poses and      *)
(* claims of external sources in the controller, whatever is swept.        *)
(***************************************************************************)
EXTENDS SourceMaps, ExternalSource, TLAPS

-----------------------------------------------------------------------------
(* The maps of a scene.                                                     *)

\* The files of a kind that were ever stored.
Files(kind) == {NoFile} \cup ({kind} \X (1..made))
AllFiles == Files("map") \cup Files("thumb") \cup Files("zip")

Operations == {"none", "edit", "mesh", "image", "generate", "activate", "delete", "store", "drop"}
SceneRows == [map : Files("map"), thumb : Files("thumb"), default : Files("map")]
Requests == [op : Operations, method : Methods \cup {"none"}, snap : SceneRows,
             row : Files("map"), file : Files("map")]

MapsTypeOK ==
  /\ made \in Nat
  /\ scene \in SceneRows
  /\ rows \in [Methods -> [file : Files("map"), thumb : Files("thumb")]]
  /\ zips \in [Methods -> Files("zip")]
  /\ req \in [Workers -> Requests]
  /\ \A w \in Workers : req[w].op # "none" => req[w].method \in Methods
  /\ jobs \cup doomed \subseteq AllFiles

Mapped == {rows[m].file : m \in Methods}
Uploads == {req[w].file : w \in Workers}

\* Stored, and nobody is about to delete it.
Safe(f) == f \in disk /\ f \notin jobs \cup doomed

(* A scene, or what a request has read of one: its map mirrors its default *)
(* source, or is a file of its own, which no row has or will have.         *)
OwnMap(s) ==
  IF s.default # NoFile THEN s.map = s.default
  ELSE s.map # NoFile => Safe(s.map) /\ s.map \notin Mapped \cup Uploads

(* What the rows name is safe, and so is what a request has stored and not *)
(* recorded yet.                                                           *)
FilesSafe ==
  /\ \A m \in Methods : rows[m].file # NoFile => Safe(rows[m].file)
  /\ \A m \in Methods : zips[m] # NoFile => Safe(zips[m])
  /\ \A w \in Workers : req[w].file # NoFile => Safe(req[w].file)

\* No file belongs to two of them.
FilesApart ==
  /\ \A m, n \in Methods : rows[m].file = rows[n].file /\ rows[m].file # NoFile => m = n
  /\ \A m, n \in Methods : zips[m] = zips[n] /\ zips[m] # NoFile => m = n
  /\ \A w \in Workers : req[w].file # NoFile => req[w].file \notin Mapped
  /\ \A v, w \in Workers : req[v].file = req[w].file /\ req[v].file # NoFile => v = w

ScenesOwn ==
  /\ OwnMap(scene) /\ DefaultExists(scene)
  /\ \A w \in Workers : OwnMap(req[w].snap)

MapsInv == MapsTypeOK /\ FilesSafe /\ FilesApart /\ ScenesOwn

\* Files of different kinds are different, and a new one is none of the old.
LEMMA FilesFacts ==
  ASSUME made \in Nat
  PROVE  /\ \A k : NoFile \in Files(k)
         /\ Files("map") \cap (Files("thumb") \cup Files("zip")) = {NoFile}
         /\ Files("thumb") \cap Files("zip") = {NoFile}
         /\ \A k, l : \A i \in {1, 2} : Fresh(k, i) # NoFile /\ Fresh(k, i) \notin Files(l)
         /\ Fresh("map", 1) # Fresh("thumb", 2)
  BY DEF Files, Fresh, NoFile

\* Files stay what they are, and new ones join.
LEMMA FilesGrow ==
  ASSUME made \in Nat, made' \in Nat, made <= made'
  PROVE  /\ \A k : Files(k) \subseteq Files(k)'
         /\ AllFiles \subseteq AllFiles'
         /\ SceneRows \subseteq SceneRows'
         /\ Requests \subseteq Requests'
         /\ [file : Files("map"), thumb : Files("thumb")]
              \subseteq [file : Files("map"), thumb : Files("thumb")]'
         /\ \A k : \A i \in {1, 2} : made + i <= made' => Fresh(k, i) \in Files(k)'
<1>1. \A k : Files(k) \subseteq Files(k)'
  BY DEF Files, NoFile
<1>2. \A k : \A i \in {1, 2} : made + i <= made' => Fresh(k, i) \in Files(k)'
  BY DEF Files, Fresh, NoFile
<1>3. SceneRows \subseteq SceneRows'
  BY <1>1 DEF SceneRows
<1>4. Requests \subseteq Requests'
  BY <1>1, <1>3 DEF Requests
<1> QED BY <1>1, <1>2, <1>3, <1>4 DEF AllFiles

\* A request that ends leaves nothing of its own.
LEMMA Ended ==
  ASSUME MapsTypeOK, made' \in Nat, made <= made',
         \/ req' = req
         \/ \E w \in Workers : req' = [req EXCEPT ![w] = NoReq]
  PROVE  /\ req' \in [Workers -> Requests']
         /\ \A v \in Workers :
              /\ req'[v].op # "none" => req'[v].method \in Methods
              /\ req'[v].file # NoFile => req'[v].file = req[v].file
              /\ \/ req'[v].snap = req[v].snap
                 \/ req'[v].snap.default = NoFile /\ req'[v].snap.map = NoFile
         /\ \A f : f # NoFile /\ f \notin Uploads => f \notin Uploads'
<1>1. NoReq \in Requests /\ NoReq.op = "none" /\ NoReq.file = NoFile
      /\ NoReq.snap.default = NoFile /\ NoReq.snap.map = NoFile
  <2>1. NoScene \in SceneRows
    BY FilesFacts DEF MapsTypeOK, NoScene, SceneRows
  <2> QED BY <2>1, FilesFacts DEF MapsTypeOK, NoReq, NoScene, Requests, Operations
<1>2. \A v \in Workers : req'[v] = req[v] \/ req'[v] = NoReq
  BY DEF MapsTypeOK
<1>3. req' \in [Workers -> Requests]
  BY <1>1 DEF MapsTypeOK
<1>4. req' \in [Workers -> Requests']
  BY <1>3, FilesGrow DEF MapsTypeOK
<1>5. \A v \in Workers :
         /\ req'[v].op # "none" => req'[v].method \in Methods
         /\ req'[v].file # NoFile => req'[v].file = req[v].file
         /\ \/ req'[v].snap = req[v].snap
            \/ req'[v].snap.default = NoFile /\ req'[v].snap.map = NoFile
  BY <1>1, <1>2 DEF MapsTypeOK
<1> QED BY <1>4, <1>5 DEF Uploads

\* A step that changes no row of the database, and does not harm what is safe.
LEMMA MapsQuiet ==
  ASSUME MapsInv, UNCHANGED <<scene, rows, zips>>, made' \in Nat, made <= made',
         jobs' \cup doomed' \subseteq AllFiles',
         \/ req' = req
         \/ \E w \in Workers : req' = [req EXCEPT ![w] = NoReq],
         \A f \in AllFiles : Safe(f) => Safe(f)'
  PROVE  MapsInv'
<1> USE DEF MapsInv
<1>1. MapsTypeOK'
  BY Ended, FilesGrow DEF MapsTypeOK
<1>2. FilesSafe'
  BY Ended DEF FilesSafe, MapsTypeOK, AllFiles, Requests
<1>3. FilesApart'
  BY Ended DEF FilesApart, Mapped
<1>4. \A s \in SceneRows : OwnMap(s) => OwnMap(s)'
  BY Ended DEF OwnMap, Mapped, SceneRows, AllFiles
<1>5. ScenesOwn'
  <2>1. ASSUME NEW v \in Workers PROVE OwnMap(req[v].snap)'
    <3>1. CASE req'[v].snap = req[v].snap
      BY <1>4, <3>1 DEF ScenesOwn, MapsTypeOK, Requests, OwnMap
    <3>2. CASE req'[v].snap.default = NoFile /\ req'[v].snap.map = NoFile
      BY <3>2 DEF OwnMap
    <3> QED BY <2>1, <3>1, <3>2, Ended
  <2> QED BY <1>4, <2>1 DEF ScenesOwn, MapsTypeOK, DefaultExists, OwnMap
<1> QED BY <1>1, <1>2, <1>3, <1>5

\* Requests that are refused or fail, and the clearing away after the commits.
LEMMA MapsQuietSteps ==
  ASSUME MapsInv,
         \/ Sweep
         \/ \E w \in Workers : \/ LockScene(w) \/ Conflict(w) \/ EditFails(w)
                               \/ GenerateRejected(w) \/ GenerateFails(w) \/ Refuse(w)
                               \/ StoreFails(w)
  PROVE  MapsInv'
<1>0. made \in Nat /\ jobs \cup doomed \subseteq AllFiles
  BY DEF MapsInv, MapsTypeOK
<1>1. ASSUME NEW f \in jobs, Examine(f) PROVE MapsInv'
  <2>1. UNCHANGED <<scene, rows, zips, made, req, disk>> /\ jobs' \cup doomed' \subseteq jobs \cup doomed
    BY <1>1 DEF Examine
  <2>2. AllFiles' = AllFiles /\ \A g : Safe(g) => Safe(g)'
    BY <2>1 DEF AllFiles, Files, Safe
  <2> QED BY <1>0, <2>1, <2>2, MapsQuiet
<1>2. ASSUME NEW f \in doomed, Unlink(f) PROVE MapsInv'
  <2>1. /\ UNCHANGED <<scene, rows, zips, made, req>>
        /\ jobs' \cup doomed' \subseteq jobs \cup doomed /\ disk' = disk \ {f}
    BY <1>2 DEF Unlink
  <2>2. AllFiles' = AllFiles /\ \A g : Safe(g) => Safe(g)'
    BY <2>1 DEF AllFiles, Files, Safe
  <2> QED BY <1>0, <2>1, <2>2, MapsQuiet
<1>3. ASSUME NEW w \in Workers, LockScene(w) \/ Conflict(w) PROVE MapsInv'
  <2>1. /\ UNCHANGED <<scene, rows, zips, made, disk, jobs, doomed>>
        /\ req' = req \/ req' = [req EXCEPT ![w] = NoReq]
    BY <1>3 DEF LockScene, Conflict
  <2>2. AllFiles' = AllFiles /\ \A g : Safe(g) => Safe(g)'
    BY <2>1 DEF AllFiles, Files, Safe
  <2> QED BY <1>0, <2>1, <2>2, MapsQuiet
<1>4. ASSUME NEW w \in Workers, EditFails(w) \/ GenerateRejected(w) \/ Refuse(w) PROVE MapsInv'
  <2>1. /\ UNCHANGED <<scene, rows, zips, made, disk, jobs, doomed>>
        /\ req' = req \/ req' = [req EXCEPT ![w] = NoReq]
    BY <1>4 DEF EditFails, GenerateRejected, Refuse, Untouched, End
  <2>2. AllFiles' = AllFiles /\ \A g : Safe(g) => Safe(g)'
    BY <2>1 DEF AllFiles, Files, Safe
  <2> QED BY <1>0, <2>1, <2>2, MapsQuiet
<1>5. ASSUME NEW w \in Workers, GenerateFails(w) \/ StoreFails(w) PROVE MapsInv'
  <2>1. /\ UNCHANGED <<scene, rows, zips, doomed>> /\ made' = made + 1 /\ disk \subseteq disk'
        /\ jobs' \subseteq jobs \cup {Fresh("zip", 1)}
        /\ req' = req \/ req' = [req EXCEPT ![w] = NoReq]
    BY <1>5 DEF GenerateFails, StoreFails, Retracted, End
  <2>2. Fresh("zip", 1) \in AllFiles' /\ Fresh("zip", 1) \notin AllFiles
    BY <1>0, <2>1, FilesFacts, FilesGrow DEF AllFiles
  <2>3. jobs' \cup doomed' \subseteq AllFiles'
    BY <1>0, <2>1, <2>2, FilesGrow
  <2>4. \A g \in AllFiles : Safe(g) => Safe(g)'
    BY <2>1, <2>2 DEF Safe
  <2> QED BY <1>0, <2>1, <2>3, <2>4, MapsQuiet
<1> QED BY <1>1, <1>2, <1>3, <1>4, <1>5 DEF Sweep, Examine, Unlink

\* A request begins with what it reads of the scene, and stores what it brought.
LEMMA MapsBegin ==
  ASSUME MapsInv, NEW w \in Workers, Begin(w)
  PROVE  MapsInv'
<1> USE DEF MapsInv
<1>0. made \in Nat /\ jobs \cup doomed \subseteq AllFiles
  BY DEF MapsTypeOK
<1>1. PICK op \in Operations \ {"none"}, m \in Methods, f \in {NoFile, Fresh("map", 1)} :
        /\ req' = [req EXCEPT ![w] = [op |-> op, method |-> m, snap |-> scene,
                                      row |-> rows[m].file, file |-> f]]
        /\ IF f = NoFile THEN UNCHANGED <<disk, made>>
           ELSE disk' = disk \cup {f} /\ made' = made + 1
  <2>1. NoFile # Fresh("map", 1)
    BY <1>0, FilesFacts
  <2> QED BY <2>1 DEF Begin, Operations
<1>2. UNCHANGED <<scene, rows, zips, jobs, doomed>>
  BY DEF Begin
<1> DEFINE r == [op |-> op, method |-> m, snap |-> scene, row |-> rows[m].file, file |-> f]
<1>3. made' \in Nat /\ made <= made' /\ f \in Files("map")'
  BY <1>0, <1>1, FilesGrow, FilesFacts DEF Files
<1>4. \A v \in Workers : req'[v] = IF v = w THEN r ELSE req[v]
  BY <1>1 DEF MapsTypeOK
<1>5. r \in Requests'
  BY <1>1, <1>2, <1>3, FilesGrow DEF MapsTypeOK, Requests, SceneRows
<1>6. r.op = op /\ r.method = m /\ r.snap = scene /\ r.file = f
  OBVIOUS
<1> HIDE DEF r
<1>7. MapsTypeOK'
  <2>1. req' \in [Workers -> Requests']
    BY <1>1, <1>3, <1>5, FilesGrow DEF MapsTypeOK, r
  <2>2. \A v \in Workers : req'[v].op # "none" => req'[v].method \in Methods
    BY <1>4, <1>6 DEF MapsTypeOK
  <2> QED BY <1>2, <1>3, <2>1, <2>2, FilesGrow DEF MapsTypeOK
<1>8. \A g : Safe(g) => Safe(g)'
  BY <1>1, <1>2 DEF Safe
<1>9. f # NoFile => f \notin AllFiles /\ Safe(f)'
  BY <1>0, <1>1, <1>2, FilesFacts DEF AllFiles, Safe
<1>10. FilesSafe'
  BY <1>2, <1>4, <1>6, <1>8, <1>9 DEF FilesSafe
<1>11. Uploads \subseteq AllFiles /\ Mapped \subseteq AllFiles
  BY DEF MapsTypeOK, Requests, Uploads, Mapped, AllFiles
<1>12. FilesApart'
  BY <1>2, <1>4, <1>6, <1>9, <1>11 DEF FilesApart, Mapped, Uploads
<1>13. \A s \in SceneRows : OwnMap(s) => OwnMap(s)'
  <2>1. Mapped' = Mapped /\ Uploads' \subseteq Uploads \cup {f, NoFile}
    BY <1>2, <1>4, <1>6 DEF Mapped, Uploads
  <2>2. \A s \in SceneRows : s.map \in AllFiles
    BY DEF SceneRows, AllFiles
  <2> QED BY <1>8, <1>9, <2>1, <2>2 DEF OwnMap
<1>14. ScenesOwn'
  <2>1. \A v \in Workers : req[v].snap \in SceneRows
    BY DEF MapsTypeOK, Requests
  <2>2. \A v \in Workers : OwnMap(req[v].snap)'
    BY <1>4, <1>6, <1>13, <2>1 DEF ScenesOwn, MapsTypeOK, OwnMap
  <2> QED BY <1>2, <1>13, <2>2 DEF ScenesOwn, MapsTypeOK, DefaultExists, OwnMap
<1> QED BY <1>7, <1>10, <1>12, <1>14

\* A request that commits: what other requests have read or stored stays as it was.
LEMMA MapsCommit ==
  ASSUME MapsInv, NEW w \in Workers, End(w), made' \in Nat, made <= made', disk \subseteq disk',
         jobs' \subseteq AllFiles',
         jobs' \subseteq jobs \cup Mapped \cup Files("thumb") \cup Files("zip"),
         Mapped' \subseteq Mapped \cup {req[w].file, NoFile}
  PROVE  /\ \A s \in SceneRows : OwnMap(s) => OwnMap(s)'
         /\ \A v \in Workers : OwnMap(req[v].snap)'
         /\ \A v \in Workers : req'[v].file # NoFile =>
              Safe(req[v].file)' /\ req'[v].file \notin Mapped'
         /\ \A u, v \in Workers : req'[u].file = req'[v].file /\ req'[u].file # NoFile => u = v
         /\ req' \in [Workers -> Requests']
         /\ \A v \in Workers : req'[v].op # "none" => req'[v].method \in Methods
         /\ jobs' \cup doomed' \subseteq AllFiles'
<1> USE DEF MapsInv
<1>0. made \in Nat /\ doomed' = doomed
  BY DEF MapsTypeOK, End
<1>1. req' = req \/ req' = [req EXCEPT ![w] = NoReq]
  BY DEF End
<1>2. /\ req' \in [Workers -> Requests']
      /\ \A v \in Workers :
           /\ req'[v].op # "none" => req'[v].method \in Methods
           /\ req'[v].file # NoFile => req'[v].file = req[v].file
           /\ \/ req'[v].snap = req[v].snap
              \/ req'[v].snap.default = NoFile /\ req'[v].snap.map = NoFile
      /\ \A f : f # NoFile /\ f \notin Uploads => f \notin Uploads'
  BY <1>1, Ended
<1>3. \A v \in Workers : v = w => req'[v].file = NoFile
  BY DEF End, MapsTypeOK, NoReq
<1>4. \A f \in Files("map") : f # NoFile /\ f \notin Mapped /\ Safe(f) => Safe(f)'
  BY <1>0, FilesFacts DEF Safe
<1>5. \A s \in SceneRows : OwnMap(s) => OwnMap(s)'
  <2>1. \A s \in SceneRows : s.map \in Files("map")
    BY DEF SceneRows
  <2>2. req[w].file \in Uploads
    BY DEF Uploads
  <2> QED BY <1>2, <1>4, <2>1, <2>2 DEF OwnMap
<1>6. ASSUME NEW v \in Workers PROVE OwnMap(req[v].snap)'
  <2>1. CASE req'[v].snap = req[v].snap
    BY <1>5, <2>1 DEF ScenesOwn, MapsTypeOK, Requests, OwnMap
  <2>2. CASE req'[v].snap.default = NoFile /\ req'[v].snap.map = NoFile
    BY <2>2 DEF OwnMap
  <2> QED BY <1>2, <2>1, <2>2
<1>7. ASSUME NEW v \in Workers, req'[v].file # NoFile
      PROVE  Safe(req[v].file)' /\ req'[v].file \notin Mapped'
  <2>1. req'[v].file = req[v].file /\ req[v].file \in Files("map")
    BY <1>2, <1>7 DEF MapsTypeOK, Requests
  <2>2. v # w
    BY <1>3, <1>7
  <2>3. req[v].file \notin Mapped /\ Safe(req[v].file)
    BY <1>7, <2>1 DEF FilesApart, FilesSafe
  <2>4. Safe(req[v].file)'
    BY <1>4, <1>7, <2>1, <2>3 DEF Safe
  <2> QED BY <1>7, <2>1, <2>2, <2>3, <2>4 DEF FilesApart
<1>8. \A u, v \in Workers : req'[u].file = req'[v].file /\ req'[u].file # NoFile => u = v
  BY <1>2 DEF FilesApart
<1>9. jobs' \cup doomed' \subseteq AllFiles'
  BY <1>0, FilesGrow DEF MapsTypeOK
<1> QED BY <1>2, <1>5, <1>6, <1>7, <1>8, <1>9

\* What a commit must show of the rows it writes.
RowsOwn ==
  /\ scene \in SceneRows /\ OwnMap(scene) /\ DefaultExists(scene)
  /\ rows \in [Methods -> [file : Files("map"), thumb : Files("thumb")]]
  /\ zips \in [Methods -> Files("zip")]
  /\ \A m \in Methods : rows[m].file # NoFile => Safe(rows[m].file)
  /\ \A m \in Methods : zips[m] # NoFile => Safe(zips[m])
  /\ \A m, n \in Methods : rows[m].file = rows[n].file /\ rows[m].file # NoFile => m = n
  /\ \A m, n \in Methods : zips[m] = zips[n] /\ zips[m] # NoFile => m = n

\* The rows as they are.
LEMMA RowsOwned == MapsInv => RowsOwn
  BY DEF MapsInv, MapsTypeOK, FilesSafe, FilesApart, ScenesOwn, RowsOwn

LEMMA MapsCommitted ==
  ASSUME MapsInv, NEW w \in Workers, End(w), made' \in Nat, made <= made', disk \subseteq disk',
         jobs' \subseteq AllFiles',
         jobs' \subseteq jobs \cup Mapped \cup Files("thumb") \cup Files("zip"),
         Mapped' \subseteq Mapped \cup {req[w].file, NoFile},
         RowsOwn'
  PROVE  MapsInv'
<1>1. /\ \A v \in Workers : OwnMap(req[v].snap)'
      /\ \A v \in Workers : req'[v].file # NoFile =>
           Safe(req[v].file)' /\ req'[v].file \notin Mapped'
      /\ \A u, v \in Workers : req'[u].file = req'[v].file /\ req'[u].file # NoFile => u = v
      /\ req' \in [Workers -> Requests']
      /\ \A v \in Workers : req'[v].op # "none" => req'[v].method \in Methods
      /\ jobs' \cup doomed' \subseteq AllFiles'
  BY MapsCommit
<1>2. MapsTypeOK'
  BY <1>1 DEF MapsTypeOK, RowsOwn
<1>3. FilesSafe'
  BY <1>1 DEF FilesSafe, RowsOwn
<1>4. FilesApart'
  BY <1>1 DEF FilesApart, RowsOwn
<1>5. ScenesOwn'
  BY <1>1 DEF ScenesOwn, RowsOwn
<1> QED BY <1>2, <1>3, <1>4, <1>5 DEF MapsInv

\* The rows of the maps are those they were, with other thumbnails perhaps, and
\* no map or zip of theirs goes.
LEMMA RowsKept ==
  ASSUME MapsInv, made' \in Nat, made <= made', disk \subseteq disk', doomed' = doomed,
         jobs' \subseteq jobs \cup Files("thumb"), zips' = zips,
         rows' \in [Methods -> [file : Files("map"), thumb : Files("thumb")]'],
         \A m \in Methods : rows'[m].file = rows[m].file
  PROVE  /\ Mapped' = Mapped
         /\ \A f \in Files("map") \cup Files("zip") : f # NoFile /\ Safe(f) => Safe(f)'
         /\ scene' \in SceneRows' /\ OwnMap(scene)' /\ DefaultExists(scene)' => RowsOwn'
<1> USE DEF MapsInv
<1>1. made \in Nat
  BY DEF MapsTypeOK
<1>2. \A f \in Files("map") \cup Files("zip") : f # NoFile /\ Safe(f) => Safe(f)'
  BY <1>1, FilesFacts DEF Safe
<1>3. /\ \A m \in Methods : rows'[m].file # NoFile => Safe(rows[m].file)'
      /\ \A m \in Methods : zips'[m] # NoFile => Safe(zips[m])'
  <2>1. \A m \in Methods : rows[m].file \in Files("map") /\ zips[m] \in Files("zip")
    BY DEF MapsTypeOK
  <2>2. \A m \in Methods : rows[m].file # NoFile => rows'[m].file \in disk' /\ rows'[m].file \notin jobs' \cup doomed'
    BY <1>2, <2>1 DEF FilesSafe, Safe
  <2>3. \A m \in Methods : zips[m] # NoFile => zips'[m] \in disk' /\ zips'[m] \notin jobs' \cup doomed'
    BY <1>2, <2>1 DEF FilesSafe, Safe
  <2> QED BY <2>2, <2>3 DEF Safe
<1>4. /\ \A m, n \in Methods : rows'[m].file = rows'[n].file /\ rows'[m].file # NoFile => m = n
      /\ \A m, n \in Methods : zips'[m] = zips'[n] /\ zips'[m] # NoFile => m = n
  BY DEF FilesApart
<1>5. zips' \in [Methods -> Files("zip")']
  BY <1>1, FilesGrow DEF MapsTypeOK
<1>6. Mapped' = Mapped
  BY DEF Mapped
<1> QED BY <1>2, <1>3, <1>4, <1>5, <1>6 DEF RowsOwn

\* An edit writes back a scene that was read before, perhaps long ago.
LEMMA MapsEdit ==
  ASSUME MapsInv, NEW w \in Workers, Edit(w)
  PROVE  MapsInv'
<1>s. PICK s \in SceneRows : s = req[w].snap
  BY DEF MapsInv, MapsTypeOK, Requests
<1>0. made \in Nat /\ OwnMap(s) /\ DefaultExists(s) /\ End(w) /\ UNCHANGED <<zips, doomed>>
  BY <1>s DEF MapsInv, MapsTypeOK, ScenesOwn, Edit, End
<1>1. PICK t \in {s.thumb} \cup IF s.map = NoFile THEN {} ELSE {Fresh("thumb", 1)},
           of \in SUBSET Methods :
        /\ scene' = [s EXCEPT !.thumb = t]
        /\ rows' = [m \in Methods |-> IF m \in of THEN [rows[m] EXCEPT !.thumb = t] ELSE rows[m]]
        /\ jobs' = jobs \cup ({rows[m].thumb : m \in of} \ {t})
        /\ disk' = disk \cup IF t = s.thumb THEN {} ELSE {t}
        /\ made' = IF t = s.thumb THEN made ELSE made + 1
  <2> DEFINE of == {m \in Methods : s.default # NoFile /\ rows[m].file = s.default}
  <2> QED BY <1>s DEF Edit
<1>2. /\ made' \in Nat /\ made <= made' /\ disk \subseteq disk'
      /\ t \in Files("thumb")'
  <2>1. CASE t = s.thumb
    BY <1>0, <1>1, <2>1, FilesGrow DEF SceneRows
  <2>2. CASE t # s.thumb
    <3>1. t = Fresh("thumb", 1) /\ made' = made + 1
      BY <1>1, <2>2
    <3> QED BY <1>0, <1>1, <3>1, FilesGrow
  <2> QED BY <2>1, <2>2
<1>3. \A m \in Methods : rows[m] \in [file : Files("map"), thumb : Files("thumb")]
  BY DEF MapsInv, MapsTypeOK
<1>4. jobs' \subseteq jobs \cup Files("thumb")
  BY <1>1, <1>3
<1>5. /\ rows' \in [Methods -> [file : Files("map"), thumb : Files("thumb")]']
      /\ \A m \in Methods : rows'[m].file = rows[m].file
  BY <1>0, <1>1, <1>2, <1>3, FilesGrow
<1>6. /\ Mapped' = Mapped
      /\ scene' \in SceneRows' /\ OwnMap(scene)' /\ DefaultExists(scene)' => RowsOwn'
      /\ \A f \in Files("map") \cup Files("zip") : f # NoFile /\ Safe(f) => Safe(f)'
  BY <1>0, <1>2, <1>4, <1>5, RowsKept
<1>7. jobs' \subseteq AllFiles' /\ jobs' \subseteq jobs \cup Mapped \cup Files("thumb") \cup Files("zip")
  BY <1>0, <1>2, <1>4, FilesGrow DEF MapsInv, MapsTypeOK, AllFiles
<1>8. OwnMap(s)'
  BY <1>0, <1>2, <1>6, <1>7, MapsCommit
<1>9. scene'.map = s.map /\ scene'.default = s.default /\ scene' \in SceneRows'
  BY <1>0, <1>1, <1>2, FilesGrow DEF SceneRows
<1>10. OwnMap(scene)' /\ DefaultExists(scene)'
  BY <1>0, <1>5, <1>8, <1>9 DEF OwnMap, DefaultExists
<1> QED BY <1>0, <1>2, <1>6, <1>7, <1>9, <1>10, MapsCommitted

\* What is known of a request under way.
LEMMA MapsRequest ==
  ASSUME MapsInv, NEW w \in Workers
  PROVE  /\ made \in Nat
         /\ req[w].file \in Files("map") /\ req[w].snap \in SceneRows
         /\ req[w].op # "none" => req[w].method \in Methods
         /\ \A m \in Methods : /\ rows[m] \in [file : Files("map"), thumb : Files("thumb")]
                               /\ rows[m].file \in Files("map") /\ rows[m].thumb \in Files("thumb")
                               /\ zips[m] \in Files("zip")
         /\ Mapped \subseteq Files("map") /\ Uploads \subseteq Files("map")
         /\ jobs \subseteq AllFiles /\ doomed \subseteq AllFiles /\ scene \in SceneRows
  BY DEF MapsInv, MapsTypeOK, Requests, Mapped, Uploads

\* The map becomes a file of its own: an image, or a mesh made from the cameras.
LEMMA MapsOwn ==
  ASSUME MapsInv, NEW w \in Workers, RecordImage(w) \/ Generate(w)
  PROVE  MapsInv'
<1>0. End(w) /\ UNCHANGED <<rows, zips, jobs, doomed>>
  BY DEF RecordImage, Generate, End
<1>1. PICK f, t :
        /\ scene' = [map |-> f, thumb |-> t, default |-> NoFile]
        /\ made' \in Nat /\ made <= made' /\ disk \subseteq disk'
        /\ f \in Files("map")' /\ t \in Files("thumb")'
        /\ f # NoFile => f \in disk' /\ f \notin jobs \cup doomed /\ f \notin Mapped
        /\ f # NoFile => \A v \in Workers : v # w => req[v].file # f
  <2>1. CASE RecordImage(w)
    <3>1. scene' = [map |-> req[w].file, thumb |-> NoFile, default |-> NoFile]
          /\ UNCHANGED <<made, disk>>
      BY <2>1 DEF RecordImage
    <3>2. req[w].file \in Files("map")' /\ NoFile \in Files("thumb")'
      BY <3>1, MapsRequest, FilesGrow, FilesFacts
    <3>3. req[w].file # NoFile =>
             /\ req[w].file \in disk /\ req[w].file \notin jobs \cup doomed \cup Mapped
             /\ \A v \in Workers : v # w => req[v].file # req[w].file
      BY DEF MapsInv, FilesSafe, FilesApart, Safe
    <3> QED BY <3>1, <3>2, <3>3, MapsRequest
  <2>2. CASE Generate(w)
    <3>1. /\ scene' = [map |-> Fresh("map", 1), thumb |-> Fresh("thumb", 2), default |-> NoFile]
          /\ disk' = disk \cup {Fresh("map", 1), Fresh("thumb", 2)} /\ made' = made + 2
      BY <2>2 DEF Generate
    <3>2. made \in Nat
      BY MapsRequest
    <3>3. Fresh("map", 1) \in Files("map")' /\ Fresh("thumb", 2) \in Files("thumb")'
      BY <3>1, <3>2, FilesGrow
    <3>4. Fresh("map", 1) \notin AllFiles
      BY <3>2, FilesFacts DEF AllFiles
    <3>5. Fresh("map", 1) \notin jobs \cup doomed /\ Fresh("map", 1) \notin Mapped
          /\ \A v \in Workers : req[v].file # Fresh("map", 1)
      BY <3>4, MapsRequest DEF AllFiles
    <3>6. /\ made' \in Nat /\ made <= made' /\ disk \subseteq disk'
          /\ Fresh("map", 1) \in disk'
      BY <3>1, <3>2
    <3> QED BY <3>1, <3>3, <3>5, <3>6
  <2> QED BY <2>1, <2>2
<1>2. \A m \in Methods : rows'[m].file = rows[m].file
  BY <1>0
<1>3. rows' \in [Methods -> [file : Files("map"), thumb : Files("thumb")]']
  BY <1>0, <1>1, MapsRequest, FilesGrow DEF MapsInv, MapsTypeOK
<1>4. /\ Mapped' = Mapped
      /\ scene' \in SceneRows' /\ OwnMap(scene)' /\ DefaultExists(scene)' => RowsOwn'
  BY <1>0, <1>1, <1>2, <1>3, RowsKept
<1>5. scene' \in SceneRows'
  <2>1. NoFile \in Files("map")'
    BY DEF Files
  <2> QED BY <1>1, <2>1 DEF SceneRows
<1>6. f # NoFile => f \notin Uploads'
  BY <1>0, <1>1 DEF Uploads, End, MapsInv, MapsTypeOK, NoReq
<1>7. OwnMap(scene)' /\ DefaultExists(scene)'
  BY <1>0, <1>1, <1>4, <1>6 DEF OwnMap, DefaultExists, Safe
<1>8. jobs' \subseteq AllFiles'
  BY <1>0, <1>1, MapsRequest, FilesGrow
<1> QED BY <1>0, <1>1, <1>4, <1>5, <1>7, <1>8, MapsCommitted

\* The mesh of a row becomes the map.
LEMMA MapsActivate ==
  ASSUME MapsInv, NEW w \in Workers, Activate(w)
  PROVE  MapsInv'
<1>0. /\ End(w) /\ UNCHANGED <<rows, zips, doomed>> /\ made' = made + 1
      /\ jobs' = jobs \cup ({scene.thumb} \ {NoFile}) /\ disk' = disk \cup {Fresh("thumb", 1)}
      /\ scene' = [map |-> req[w].row, thumb |-> Fresh("thumb", 1), default |-> req[w].row]
  BY DEF Activate, End
<1>1. PICK m \in Methods : rows[m].file = req[w].row
  BY MapsRequest DEF Activate, SameRow, Holds
<1>2. made \in Nat /\ made' \in Nat /\ made <= made'
  BY <1>0, MapsRequest
<1>3. \A n \in Methods : rows'[n].file = rows[n].file
  BY <1>0
<1>4. rows' \in [Methods -> [file : Files("map"), thumb : Files("thumb")]']
  BY <1>0, <1>2, FilesGrow DEF MapsInv, MapsTypeOK
<1>5. jobs' \subseteq jobs \cup Files("thumb")
  BY <1>0, MapsRequest DEF SceneRows
<1>6. /\ Mapped' = Mapped
      /\ scene' \in SceneRows' /\ OwnMap(scene)' /\ DefaultExists(scene)' => RowsOwn'
  BY <1>0, <1>2, <1>3, <1>4, <1>5, RowsKept
<1>7. scene' \in SceneRows'
  BY <1>0, <1>1, <1>2, MapsRequest, FilesGrow DEF SceneRows
<1>8. OwnMap(scene)' /\ DefaultExists(scene)'
  BY <1>0, <1>1, <1>3 DEF OwnMap, DefaultExists
<1>9. jobs' \subseteq AllFiles' /\ jobs' \subseteq jobs \cup Mapped \cup Files("thumb") \cup Files("zip")
  BY <1>2, <1>5, MapsRequest, FilesGrow DEF AllFiles
<1> QED BY <1>0, <1>2, <1>6, <1>7, <1>8, <1>9, MapsCommitted

\* A mesh that was uploaded becomes the map and the source of its method.
LEMMA MapsRecord ==
  ASSUME MapsInv, NEW w \in Workers, RecordMesh(w)
  PROVE  MapsInv'
<1>s. PICK f \in Files("map"), m \in Methods, old \in Files("map") :
        f = req[w].file /\ m = req[w].method /\ old = rows[m].file
  BY MapsRequest DEF RecordMesh, Holds
<1>0. /\ End(w) /\ UNCHANGED <<zips, doomed>> /\ made' = made + 1
      /\ scene' = [map |-> f, thumb |-> Fresh("thumb", 1), default |-> f]
      /\ rows' = [rows EXCEPT ![m] = [file |-> f, thumb |-> Fresh("thumb", 1)]]
      /\ jobs' = jobs \cup ({old, rows[m].thumb} \ {NoFile})
      /\ disk' = disk \cup {Fresh("thumb", 1)}
  BY <1>s DEF RecordMesh, End
<1>1. made \in Nat /\ made' \in Nat /\ made <= made' /\ disk \subseteq disk'
  BY <1>0, MapsRequest
<1>2. Fresh("thumb", 1) \in Files("thumb")' /\ f \in Files("map")'
  BY <1>0, <1>1, FilesGrow
<1>3. rows' \in [Methods -> [file : Files("map"), thumb : Files("thumb")]']
  <2>1. [file |-> f, thumb |-> Fresh("thumb", 1)] \in [file : Files("map"), thumb : Files("thumb")]'
    BY <1>2
  <2>2. rows \in [Methods -> [file : Files("map"), thumb : Files("thumb")]']
    BY <1>1, FilesGrow DEF MapsInv, MapsTypeOK
  <2> QED BY <1>0, <2>1, <2>2
<1>4. \A n \in Methods : rows'[n].file = IF n = m THEN f ELSE rows[n].file
  BY <1>0 DEF MapsInv, MapsTypeOK
<1>5. \A g \in Files("map") \cup Files("zip") : g # NoFile /\ g # old /\ Safe(g) => Safe(g)'
  <2>1. rows[m].thumb \in Files("thumb")
    BY MapsRequest
  <2>2. \A g \in Files("map") \cup Files("zip") : g # NoFile => g # rows[m].thumb
    BY <1>1, <2>1, FilesFacts
  <2> QED BY <1>0, <1>1, <2>2 DEF Safe
<1>6. f # NoFile => Safe(f) /\ \A n \in Methods : rows[n].file # f
  BY <1>s DEF MapsInv, FilesSafe, FilesApart, Mapped
<1>7. \A n \in Methods : rows'[n].file # NoFile => Safe(rows[n].file)'
  <2>1. SUFFICES ASSUME NEW n \in Methods, rows'[n].file # NoFile
                 PROVE  rows'[n].file \in disk' /\ rows'[n].file \notin jobs' \cup doomed'
    BY DEF Safe
  <2>2. CASE n = m
    BY <1>s, <1>4, <1>5, <1>6, <2>1, <2>2 DEF Safe
  <2>3. CASE n # m
    <3>1. rows[n].file # old /\ Safe(rows[n].file) /\ rows[n].file \in Files("map")
      BY <1>s, <1>4, <2>1, <2>3, MapsRequest DEF MapsInv, FilesSafe, FilesApart
    <3> QED BY <1>4, <1>5, <2>1, <2>3, <3>1 DEF Safe
  <2> QED BY <2>2, <2>3
<1>8. \A n \in Methods : zips'[n] # NoFile => Safe(zips[n])'
  <2>1. \A n \in Methods : zips[n] # NoFile => zips[n] # old
    BY <1>1, MapsRequest, FilesFacts
  <2> QED BY <1>0, <1>5, <2>1, MapsRequest DEF MapsInv, FilesSafe, Safe
<1>9. /\ \A n, o \in Methods : rows'[n].file = rows'[o].file /\ rows'[n].file # NoFile => n = o
      /\ \A n, o \in Methods : zips'[n] = zips'[o] /\ zips'[n] # NoFile => n = o
  BY <1>0, <1>4, <1>6 DEF MapsInv, FilesApart
<1>10. scene' \in SceneRows' /\ OwnMap(scene)' /\ DefaultExists(scene)'
  BY <1>0, <1>2, <1>4 DEF SceneRows, OwnMap, DefaultExists
<1>11. zips' \in [Methods -> Files("zip")']
  BY <1>0, <1>1, FilesGrow DEF MapsInv, MapsTypeOK
<1>12. RowsOwn'
  BY <1>3, <1>7, <1>8, <1>9, <1>10, <1>11 DEF RowsOwn
<1>13. Mapped' \subseteq Mapped \cup {req[w].file, NoFile}
  BY <1>s, <1>4 DEF Mapped
<1>14. jobs' \subseteq AllFiles' /\ jobs' \subseteq jobs \cup Mapped \cup Files("thumb") \cup Files("zip")
  <2>1. old \in Mapped /\ rows[m].thumb \in Files("thumb")
    BY <1>s, MapsRequest DEF Mapped
  <2> QED BY <1>0, <1>1, <2>1, MapsRequest, FilesGrow DEF AllFiles
<1> QED BY <1>0, <1>1, <1>12, <1>13, <1>14, MapsCommitted

\* A row goes with its files, unless it is the default.
LEMMA MapsDelete ==
  ASSUME MapsInv, NEW w \in Workers, Delete(w)
  PROVE  MapsInv'
<1>s. PICK m \in Methods, old \in Files("map"), zip \in Files("zip") :
        m = req[w].method /\ old = rows[m].file /\ zip = zips[m]
  BY MapsRequest DEF Delete, Holds
<1>0. /\ End(w) /\ UNCHANGED <<scene, disk, made, doomed>>
      /\ rows' = [rows EXCEPT ![m] = NoRow] /\ zips' = [zips EXCEPT ![m] = NoFile]
      /\ jobs' = jobs \cup ({old, rows[m].thumb, zip} \ {NoFile})
  BY <1>s DEF Delete, Deletable, SameRow, End, MapsInv, MapsTypeOK, SceneRows
<1>1. scene.default # old /\ made \in Nat /\ made' \in Nat /\ made <= made' /\ disk \subseteq disk'
  BY <1>s, <1>0, MapsRequest DEF Delete, Deletable, SameRow
<1>2. AllFiles' = AllFiles /\ SceneRows' = SceneRows /\ (\A k : Files(k)' = Files(k))
  BY <1>0 DEF AllFiles, SceneRows, Files
<1>3. NoRow \in [file : Files("map"), thumb : Files("thumb")] /\ NoRow.file = NoFile
      /\ \A k : NoFile \in Files(k)
  BY <1>1, FilesFacts DEF NoRow
<1>4. /\ rows' \in [Methods -> [file : Files("map"), thumb : Files("thumb")]']
      /\ zips' \in [Methods -> Files("zip")']
  <2>1. rows' \in [Methods -> [file : Files("map"), thumb : Files("thumb")]]
    BY <1>0, <1>3 DEF MapsInv, MapsTypeOK
  <2>2. zips' \in [Methods -> Files("zip")]
    BY <1>0, <1>3 DEF MapsInv, MapsTypeOK
  <2> QED BY <1>2, <2>1, <2>2
<1>5. \A n \in Methods : /\ rows'[n].file = IF n = m THEN NoFile ELSE rows[n].file
                         /\ zips'[n] = IF n = m THEN NoFile ELSE zips[n]
  BY <1>0, <1>3 DEF MapsInv, MapsTypeOK
<1>6. \A g \in Files("map") \cup Files("zip") :
         g # NoFile /\ g # old /\ g # zip /\ Safe(g) => Safe(g)'
  <2>1. rows[m].thumb \in Files("thumb")
    BY MapsRequest
  <2>2. \A g \in Files("map") \cup Files("zip") : g # NoFile => g # rows[m].thumb
    BY <1>1, <2>1, FilesFacts
  <2> QED BY <1>0, <1>1, <2>2 DEF Safe
<1>7. \A n \in Methods : rows'[n].file # NoFile => Safe(rows[n].file)'
  <2>1. SUFFICES ASSUME NEW n \in Methods, rows'[n].file # NoFile
                 PROVE  rows'[n].file \in disk' /\ rows'[n].file \notin jobs' \cup doomed'
    BY DEF Safe
  <2>2. n # m /\ rows'[n].file = rows[n].file
    BY <1>5, <2>1
  <2>3. rows[n].file # old /\ Safe(rows[n].file) /\ rows[n].file \in Files("map")
    BY <1>s, <2>1, <2>2, MapsRequest DEF MapsInv, FilesSafe, FilesApart
  <2>4. rows[n].file # zip
    BY <1>1, <2>1, <2>2, <2>3, FilesFacts
  <2> QED BY <1>6, <2>1, <2>2, <2>3, <2>4 DEF Safe
<1>8. \A n \in Methods : zips'[n] # NoFile => Safe(zips[n])'
  <2>1. SUFFICES ASSUME NEW n \in Methods, zips'[n] # NoFile
                 PROVE  zips'[n] \in disk' /\ zips'[n] \notin jobs' \cup doomed'
    BY DEF Safe
  <2>2. n # m /\ zips'[n] = zips[n]
    BY <1>5, <2>1
  <2>3. zips[n] # zip /\ Safe(zips[n]) /\ zips[n] \in Files("zip")
    BY <1>s, <2>1, <2>2, MapsRequest DEF MapsInv, FilesSafe, FilesApart
  <2>4. zips[n] # old
    BY <1>1, <2>1, <2>2, <2>3, FilesFacts
  <2> QED BY <1>6, <2>1, <2>2, <2>3, <2>4 DEF Safe
<1>9. /\ \A n, o \in Methods : rows'[n].file = rows'[o].file /\ rows'[n].file # NoFile => n = o
      /\ \A n, o \in Methods : zips'[n] = zips'[o] /\ zips'[n] # NoFile => n = o
  BY <1>5 DEF MapsInv, FilesApart
<1>10. Mapped' \subseteq Mapped \cup {req[w].file, NoFile}
  BY <1>5 DEF Mapped
<1>11. jobs' \subseteq AllFiles' /\ jobs' \subseteq jobs \cup Mapped \cup Files("thumb") \cup Files("zip")
  <2>1. old \in Mapped /\ rows[m].thumb \in Files("thumb")
    BY <1>s, MapsRequest DEF Mapped
  <2> QED BY <1>0, <1>2, <2>1, MapsRequest DEF AllFiles
<1>12. scene' \in SceneRows' /\ OwnMap(scene)' /\ DefaultExists(scene)'
  <2>1. \A s \in SceneRows : OwnMap(s) => OwnMap(s)'
    BY <1>0, <1>1, <1>10, <1>11, MapsCommit
  <2>2. OwnMap(scene) /\ DefaultExists(scene) /\ scene \in SceneRows
    BY DEF MapsInv, ScenesOwn, MapsTypeOK
  <2>3. OwnMap(scene)'
    BY <1>0, <2>1, <2>2 DEF OwnMap
  <2>4. DefaultExists(scene)'
    BY <1>s, <1>0, <1>1, <1>5, <2>2 DEF DefaultExists
  <2> QED BY <1>0, <1>2, <2>2, <2>3, <2>4
<1>13. RowsOwn'
  BY <1>4, <1>7, <1>8, <1>9, <1>12 DEF RowsOwn
<1> QED BY <1>0, <1>1, <1>10, <1>11, <1>13, MapsCommitted

\* The zip of a method is replaced or goes.
LEMMA MapsZip ==
  ASSUME MapsInv, NEW w \in Workers, Store(w) \/ Drop(w)
  PROVE  MapsInv'
<1>s. PICK m \in Methods, zip \in Files("zip") : m = req[w].method /\ zip = zips[m]
  BY MapsRequest DEF Store, Drop, Holds
<1>n. PICK new \in {NoFile, Fresh("zip", 1)} :
        /\ End(w) /\ UNCHANGED <<scene, rows, doomed>>
        /\ zips' = [zips EXCEPT ![m] = new]
        /\ jobs' = jobs \cup ({zip} \ {NoFile})
        /\ disk \subseteq disk' /\ (new # NoFile => new \in disk')
        /\ made' = made \/ made' = made + 1
        /\ new # NoFile => made' = made + 1
  <2>1. CASE Store(w)
    <3>1. Fresh("zip", 1) # NoFile
      BY MapsRequest, FilesFacts
    <3> QED BY <1>s, <2>1, <3>1 DEF Store, End
  <2>2. CASE Drop(w)
    BY <1>s, <2>2 DEF Drop, End
  <2> QED BY <2>1, <2>2
<1>1. made \in Nat /\ made' \in Nat /\ made <= made'
  BY <1>n, MapsRequest
<1>2. new \in Files("zip")' /\ (new # NoFile => new \notin AllFiles)
  BY <1>n, <1>1, FilesFacts, FilesGrow DEF AllFiles, Files
<1>3. rows' \in [Methods -> [file : Files("map"), thumb : Files("thumb")]']
  BY <1>n, <1>1, FilesGrow DEF MapsInv, MapsTypeOK
<1>4. zips' \in [Methods -> Files("zip")']
  <2>1. zips \in [Methods -> Files("zip")']
    BY <1>1, FilesGrow DEF MapsInv, MapsTypeOK
  <2> QED BY <1>n, <1>2, <2>1
<1>5. \A n \in Methods : zips'[n] = IF n = m THEN new ELSE zips[n]
  BY <1>n DEF MapsInv, MapsTypeOK
<1>6. \A g \in Files("map") \cup Files("zip") : g # NoFile /\ g # zip /\ Safe(g) => Safe(g)'
  BY <1>n DEF Safe
<1>7. \A n \in Methods : rows'[n].file # NoFile => Safe(rows[n].file)'
  <2>1. \A n \in Methods : rows[n].file # NoFile => rows[n].file # zip
    BY <1>1, MapsRequest, FilesFacts
  <2> QED BY <1>n, <1>6, <2>1, MapsRequest DEF MapsInv, FilesSafe, Safe
<1>8. \A n \in Methods : zips'[n] # NoFile => Safe(zips[n])'
  <2>1. SUFFICES ASSUME NEW n \in Methods, zips'[n] # NoFile
                 PROVE  zips'[n] \in disk' /\ zips'[n] \notin jobs' \cup doomed'
    BY DEF Safe
  <2>2. CASE n = m
    BY <1>n, <1>2, <1>5, <2>1, <2>2, MapsRequest DEF AllFiles
  <2>3. CASE n # m
    <3>1. zips[n] # zip /\ Safe(zips[n]) /\ zips[n] \in Files("zip") /\ zips'[n] = zips[n]
      BY <1>s, <1>5, <2>1, <2>3, MapsRequest DEF MapsInv, FilesSafe, FilesApart
    <3> QED BY <1>6, <2>1, <3>1 DEF Safe
  <2> QED BY <2>2, <2>3
<1>9. /\ \A n, o \in Methods : rows'[n].file = rows'[o].file /\ rows'[n].file # NoFile => n = o
      /\ \A n, o \in Methods : zips'[n] = zips'[o] /\ zips'[n] # NoFile => n = o
  <2>1. \A n \in Methods : zips[n] \in AllFiles
    BY MapsRequest DEF AllFiles
  <2> QED BY <1>n, <1>2, <1>5, <2>1 DEF MapsInv, FilesApart
<1>10. Mapped' \subseteq Mapped \cup {req[w].file, NoFile}
  BY <1>n DEF Mapped
<1>11. jobs' \subseteq AllFiles' /\ jobs' \subseteq jobs \cup Mapped \cup Files("thumb") \cup Files("zip")
  BY <1>n, <1>1, MapsRequest, FilesGrow DEF AllFiles
<1>12. scene' \in SceneRows' /\ OwnMap(scene)' /\ DefaultExists(scene)'
  <2>1. \A s \in SceneRows : OwnMap(s) => OwnMap(s)'
    BY <1>n, <1>1, <1>10, <1>11, MapsCommit
  <2>2. OwnMap(scene) /\ DefaultExists(scene) /\ scene \in SceneRows
    BY DEF MapsInv, ScenesOwn, MapsTypeOK
  <2>3. OwnMap(scene)'
    BY <1>n, <2>1, <2>2 DEF OwnMap
  <2>4. DefaultExists(scene)'
    BY <1>n, <2>2 DEF DefaultExists
  <2> QED BY <1>n, <1>1, <2>2, <2>3, <2>4, FilesGrow
<1>13. RowsOwn'
  BY <1>3, <1>4, <1>7, <1>8, <1>9, <1>12 DEF RowsOwn
<1> QED BY <1>n, <1>1, <1>10, <1>11, <1>13, MapsCommitted

LEMMA MapsInitial == MapsInit => MapsInv
<1> SUFFICES ASSUME MapsInit PROVE MapsInv
  OBVIOUS
<1>1. /\ zips = [m \in Methods |-> NoFile] /\ req = [w \in Workers |-> NoReq]
      /\ jobs = {} /\ doomed = {} /\ made \in Nat
  BY DEF MapsInit
<1>2. /\ \A k : NoFile \in Files(k)
      /\ NoRow = [file |-> NoFile, thumb |-> NoFile]
  BY <1>1, FilesFacts DEF NoRow
<1>3. NoReq \in Requests /\ NoReq.op = "none" /\ NoReq.file = NoFile
      /\ NoReq.snap.default = NoFile /\ NoReq.snap.map = NoFile
  <2>1. NoScene \in SceneRows
    BY <1>2 DEF NoScene, SceneRows
  <2> QED BY <1>2, <2>1 DEF NoReq, NoScene, Requests, Operations
<1>4. /\ req \in [Workers -> Requests] /\ zips \in [Methods -> Files("zip")]
      /\ \A w \in Workers : req[w].op = "none" /\ req[w].file = NoFile
                            /\ req[w].snap.default = NoFile /\ req[w].snap.map = NoFile
      /\ \A m \in Methods : zips[m] = NoFile
  BY <1>1, <1>2, <1>3
<1>5. /\ scene \in SceneRows /\ OwnMap(scene) /\ DefaultExists(scene)
      /\ rows \in [Methods -> [file : Files("map"), thumb : Files("thumb")]]
      /\ \A m \in Methods : rows[m].file # NoFile => rows[m].file \in disk
      /\ \A m, n \in Methods : rows[m].file = rows[n].file /\ rows[m].file # NoFile => m = n
  <2>1. CASE scene = NoScene /\ rows = [m \in Methods |-> NoRow]
    BY <2>1, <1>2 DEF NoScene, SceneRows, OwnMap, DefaultExists
  <2>2. CASE scene # NoScene \/ rows # [m \in Methods |-> NoRow]
    <3>1. PICK n \in Methods :
            rows = [m \in Methods |-> IF m = n THEN [file |-> scene.map, thumb |-> scene.thumb]
                                      ELSE NoRow]
      BY <2>2 DEF MapsInit
    <3>2. /\ scene = FirstMesh /\ made = 2 /\ disk = {scene.map, scene.thumb}
      BY <2>2 DEF MapsInit
    <3>3. <<"map", 1>> \in Files("map") /\ <<"thumb", 2>> \in Files("thumb")
      BY <3>2 DEF Files
    <3>4. scene.map = <<"map", 1>> /\ scene.default = <<"map", 1>> /\ scene.thumb = <<"thumb", 2>>
          /\ scene \in SceneRows
      BY <3>2, <3>3 DEF FirstMesh, SceneRows
    <3>5. rows \in [Methods -> [file : Files("map"), thumb : Files("thumb")]]
      BY <1>2, <3>1, <3>3, <3>4
    <3>6. \A m \in Methods : rows[m].file = IF m = n THEN <<"map", 1>> ELSE NoFile
      BY <1>2, <3>1, <3>4
    <3> QED BY <3>2, <3>4, <3>5, <3>6 DEF OwnMap, DefaultExists, NoFile
  <2> QED BY <2>1, <2>2
<1>6. MapsTypeOK
  BY <1>1, <1>4, <1>5 DEF MapsTypeOK
<1>7. FilesSafe
  BY <1>1, <1>4, <1>5 DEF FilesSafe, Safe
<1>8. FilesApart
  BY <1>4, <1>5 DEF FilesApart
<1>9. ScenesOwn
  BY <1>4, <1>5 DEF ScenesOwn, OwnMap
<1> QED BY <1>6, <1>7, <1>8, <1>9 DEF MapsInv

LEMMA MapsStep == MapsInv /\ [MapsNext]_mapVars => MapsInv'
<1> SUFFICES ASSUME MapsInv, [MapsNext]_mapVars PROVE MapsInv'
  OBVIOUS
<1>1. CASE Sweep
  BY <1>1, MapsQuietSteps
<1>2. ASSUME NEW w \in Workers,
             Begin(w) \/ Conflict(w) \/ StoreFails(w) \/ GenerateFails(w) \/ Request(w)
      PROVE  MapsInv'
  <2>1. CASE \/ LockScene(w) \/ Conflict(w) \/ EditFails(w) \/ GenerateRejected(w)
             \/ GenerateFails(w) \/ Refuse(w) \/ StoreFails(w)
    BY <2>1, MapsQuietSteps
  <2>2. CASE Begin(w)
    BY <2>2, MapsBegin
  <2>3. CASE Edit(w)
    BY <2>3, MapsEdit
  <2>4. CASE RecordMesh(w)
    BY <2>4, MapsRecord
  <2>5. CASE RecordImage(w) \/ Generate(w)
    BY <2>5, MapsOwn
  <2>6. CASE Activate(w)
    BY <2>6, MapsActivate
  <2>7. CASE Delete(w)
    BY <2>7, MapsDelete
  <2>8. CASE Store(w) \/ Drop(w)
    BY <2>8, MapsZip
  <2> QED BY <1>2, <2>1, <2>2, <2>3, <2>4, <2>5, <2>6, <2>7, <2>8 DEF Request
<1>3. CASE UNCHANGED mapVars
  BY <1>3, SMTT(30) DEF mapVars, MapsInv, MapsTypeOK, FilesSafe, FilesApart, ScenesOwn, OwnMap,
     DefaultExists, Mapped, Uploads, Safe, Files, AllFiles, SceneRows, Requests
<1> QED BY <1>1, <1>2, <1>3 DEF MapsNext

LEMMA MapsInvariant == MapsSpec => []MapsInv
  BY MapsInitial, MapsStep, PTL DEF MapsSpec

(* Whatever requests overlap, the scene mirrors its default source, and the *)
(* maps and zips that the rows name are on the disk.                        *)
THEOREM FilesServed == MapsSpec => []MapsServed
<1>1. MapsInv => MapsServed
  <2> SUFFICES ASSUME MapsInv PROVE MapsServed
    OBVIOUS
  <2>1. scene.default # NoFile => scene.map = scene.default /\ DefaultExists(scene)
    BY DEF MapsInv, ScenesOwn, OwnMap
  <2>2. \A m \in Methods : /\ rows[m].file \in disk \cup {NoFile}
                           /\ zips[m] \in disk \cup {NoFile}
    BY DEF MapsInv, FilesSafe, Safe
  <2>3. scene.map \in disk \cup {NoFile}
    BY <2>1, <2>2 DEF MapsInv, ScenesOwn, OwnMap, DefaultExists, Safe
  <2> QED BY <2>1, <2>2, <2>3 DEF MapsServed
<1> QED BY <1>1, MapsInvariant, PTL

(* The default cannot be deleted: while the map of a scene stays, so does   *)
(* its source, whatever a request knew of the scene when it came in.        *)
THEOREM SourceKept == MapsSpec => DefaultKept
<1>1. MapsInv /\ [MapsNext]_mapVars
        => [scene.default # NoFile /\ scene'.map = scene.map => scene'.default # NoFile]_scene
  <2> SUFFICES ASSUME MapsInv, [MapsNext]_mapVars, scene.default # NoFile,
                      scene' # scene, scene'.map = scene.map
               PROVE  scene'.default # NoFile
    OBVIOUS
  <2>1. scene.map = scene.default /\ scene.map \in Mapped
    BY DEF MapsInv, ScenesOwn, OwnMap, DefaultExists, Mapped
  <2>2. PICK w \in Workers :
          \/ Edit(w) \/ RecordMesh(w) \/ RecordImage(w) \/ Generate(w) \/ Activate(w) \/ Delete(w)
    BY DEF MapsNext, mapVars, Sweep, Examine, Unlink, Begin, Conflict, StoreFails, GenerateFails,
       Request, LockScene, EditFails, GenerateRejected, Refuse, Untouched, Store, Drop
  <2>3. /\ req[w].snap \in SceneRows /\ OwnMap(req[w].snap)
        /\ req[w].file # NoFile => req[w].file \notin Mapped
        /\ made \in Nat /\ Mapped \subseteq Files("map") /\ scene \in SceneRows
    BY MapsRequest DEF MapsInv, ScenesOwn, FilesApart
  <2>4. CASE Edit(w)
    <3>1. scene'.map = req[w].snap.map /\ scene'.default = req[w].snap.default
      BY <2>3, <2>4 DEF Edit, SceneRows
    <3> QED BY <2>1, <2>3, <3>1 DEF OwnMap
  <2>5. CASE RecordMesh(w) \/ Activate(w)
    BY <2>1, <2>5 DEF RecordMesh, Activate
  <2>6. CASE RecordImage(w)
    BY <2>1, <2>3, <2>6 DEF RecordImage
  <2>7. CASE Generate(w)
    BY <2>1, <2>3, <2>7, FilesFacts DEF Generate
  <2>8. CASE Delete(w)
    BY <2>3, <2>8 DEF Delete, Deletable, SameRow, SceneRows
  <2> QED BY <2>2, <2>4, <2>5, <2>6, <2>7, <2>8
<1> QED BY <1>1, MapsInvariant, PTL DEF MapsSpec, DefaultKept

-----------------------------------------------------------------------------
(* The poses and claims of external sources.                                *)

\* A pose in the cache is the newest of its source; one that was swept is older
\* than any message that may still come.
PoseKept(s) ==
  LET e == entries["pose"][s]
  IN IF Has("pose", s)
     THEN {"when", "exp"} \subseteq DOMAIN e /\ e.when = newest[s] /\ e.exp = e.when + Ttl
     ELSE newest[s] = -1 \/ newest[s] + Ttl + MaxLag < now

\* A claim is that of the caches that are never swept, or was swept from there
\* when no message could be refused with it any more.
ClaimKept(i) ==
  /\ Has("claim", i) => i \in DOMAIN ideal /\ entries["claim"][i] = ideal[i]
  /\ i \in DOMAIN ideal =>
       /\ ideal[i].when \in Int /\ ideal[i].exp = ideal[i].when + Ttl
       /\ Has("claim", i) \/ ideal[i].exp + MaxLag < now

\* A message that is being processed is not late, as the clock waits for it.
WorkKept ==
  work.at # "idle" =>
    /\ work.m.source \in Sources /\ work.m.id \in Ids
    /\ work.m.when \in Int /\ now - work.m.when <= MaxLag

StoresKept ==
  /\ now \in Int /\ newest \in [Sources -> Int]
  /\ entries = [c \in Caches |-> entries[c]]
  /\ \A s \in Sources : PoseKept(s)
  /\ \A i \in Ids : ClaimKept(i)
  /\ WorkKept

LEMMA StoresInitial == ExternalInit => StoresKept
<1> SUFFICES ASSUME ExternalInit PROVE StoresKept
  OBVIOUS
<1>1. /\ now = 0 /\ work.at = "idle" /\ newest = [s \in Sources |-> -1]
      /\ entries = [c \in Caches |-> Nothing] /\ DOMAIN Nothing = {} /\ ideal = Nothing
  BY DEF ExternalInit, Nothing
<1>2. now \in Int /\ newest \in [Sources -> Int] /\ \A s \in Sources : newest[s] = -1
  BY <1>1
<1>3. \A c \in Caches : entries[c] = Nothing
  BY <1>1
<1>4. \A c \in Caches : \A k : ~Has(c, k)
  BY <1>1, <1>3 DEF Has
<1> QED BY <1>1, <1>2, <1>3, <1>4 DEF StoresKept, PoseKept, ClaimKept, WorkKept, Caches

\* A step that touches neither the caches nor what is remembered of them.
LEMMA StoresQuiet ==
  ASSUME StoresKept, now' \in Int, now <= now', UNCHANGED <<entries, ideal, newest>>, WorkKept'
  PROVE  StoresKept'
<1>0. now \in Int /\ \A s \in Sources : newest[s] \in Int
  BY DEF StoresKept
<1>1. ASSUME NEW s \in Sources PROVE PoseKept(s)'
  <2>1. newest[s] + Ttl + MaxLag < now => newest[s] + Ttl + MaxLag < now'
    BY <1>0, TimesAreNaturals
  <2>2. PoseKept(s)
    BY DEF StoresKept
  <2> QED BY <2>1, <2>2 DEF PoseKept, Has
<1>2. ASSUME NEW i \in Ids PROVE ClaimKept(i)'
  <2>1. ClaimKept(i)
    BY DEF StoresKept
  <2>2. i \in DOMAIN ideal /\ ideal[i].exp + MaxLag < now => ideal[i].exp + MaxLag < now'
    BY <1>0, <2>1, TimesAreNaturals DEF ClaimKept
  <2> QED BY <2>1, <2>2 DEF ClaimKept, Has
<1> QED BY <1>1, <1>2 DEF StoresKept

\* What a message leaves as the pose of its source.
LEMMA PoseResolved ==
  ASSUME StoresKept, NEW m \in Messages, now - m.when <= MaxLag,
         Resolved(m, Kept(m.source)) # None
  PROVE  LET e == WithCameras(m, Resolved(m, Kept(m.source)))
         IN /\ {"when", "exp"} \subseteq DOMAIN e /\ e.when = Resolved(m, Kept(m.source)).when
            /\ e.when \in Int /\ e.exp = e.when + Ttl
            /\ e.when >= newest[m.source]
<1> DEFINE r == Resolved(m, Kept(m.source))
<1>1. m.source \in Sources /\ m.when \in Int /\ m.when >= 0
  BY TimesAreNaturals DEF Messages
<1>2. PoseKept(m.source) /\ newest[m.source] \in Int /\ now \in Int
  BY <1>1 DEF StoresKept
<1>3. /\ {"when", "exp"} \subseteq DOMAIN r
      /\ r.when \in Int /\ r.exp = r.when + Ttl /\ r.when >= newest[m.source]
  <2>1. CASE r = NewPose(m, Kept(m.source)) /\ ~OutOfOrder(m, Kept(m.source))
    <3>1. {"when", "exp"} \subseteq DOMAIN r /\ r.when = m.when /\ r.exp = m.when + Ttl
      BY <2>1 DEF NewPose
    <3>2. CASE Has("pose", m.source)
      <4>1. /\ Kept(m.source) # None /\ Kept(m.source).when = newest[m.source]
        BY <1>2, <3>2 DEF PoseKept, Kept, None
      <4> QED BY <1>1, <1>2, <2>1, <3>1, <4>1 DEF OutOfOrder
    <3>3. CASE ~Has("pose", m.source)
      BY <1>1, <1>2, <3>1, <3>3, TimesAreNaturals DEF PoseKept
    <3> QED BY <3>2, <3>3
  <2>2. CASE r = Kept(m.source)
    BY <1>2, <2>2, TimesAreNaturals DEF PoseKept, Kept
  <2> QED BY <2>1, <2>2 DEF Resolved
<1> HIDE DEF r
<1>4. LET e == WithCameras(m, r)
      IN {"when", "exp"} \subseteq DOMAIN e /\ e.when = r.when /\ e.exp = r.exp
  BY <1>3 DEF WithCameras
<1> QED BY <1>3, <1>4 DEF r

LEMMA StoresReceive ==
  ASSUME StoresKept, NEW m \in Messages, Receive(m)
  PROVE  StoresKept'
<1>1. PICK e :
        /\ e = WithCameras(m, Resolved(m, Kept(m.source)))
        /\ {"when", "exp"} \subseteq DOMAIN e
        /\ e.when \in Int /\ e.exp = e.when + Ttl /\ e.when >= newest[m.source]
        /\ entries' = [entries EXCEPT !["pose"] = Put(@, m.source, e)]
        /\ newest' = [newest EXCEPT ![m.source] = e.when]
  <2>1. PICK r : r = Resolved(m, Kept(m.source)) /\ r # None
    BY DEF Receive
  <2>2. /\ now - m.when <= MaxLag
        /\ entries' = [entries EXCEPT !["pose"] = Put(@, m.source, WithCameras(m, r))]
        /\ newest' = [newest EXCEPT ![m.source] = IF r.when > @ THEN r.when ELSE @]
    BY <2>1 DEF Receive
  <2>3. LET e == WithCameras(m, r)
        IN /\ {"when", "exp"} \subseteq DOMAIN e /\ e.when = r.when
           /\ e.when \in Int /\ e.exp = e.when + Ttl
           /\ e.when >= newest[m.source]
    BY <2>1, <2>2, PoseResolved
  <2>4. m.source \in Sources /\ newest \in [Sources -> Int]
    BY DEF Messages, StoresKept
  <2>5. newest' = [newest EXCEPT ![m.source] = r.when]
    <3>1. r.when \in Int /\ r.when >= newest[m.source] /\ newest[m.source] \in Int
      BY <2>3, <2>4
    <3>2. (IF r.when > newest[m.source] THEN r.when ELSE newest[m.source]) = r.when
      BY <3>1
    <3> QED BY <2>2, <3>2
  <2> QED BY <2>1, <2>2, <2>3, <2>5
<1>2. /\ m.source \in Sources /\ m.id \in Ids /\ m.when \in Int /\ now - m.when <= MaxLag
      /\ UNCHANGED <<now, ideal>> /\ work' = [at |-> "intrinsics", m |-> m]
  BY TimesAreNaturals DEF Messages, Receive
<1>3. /\ entries' = [c \in Caches |-> entries'[c]]
      /\ entries'["pose"] = Put(entries["pose"], m.source, e)
      /\ entries'["claim"] = entries["claim"]
  BY <1>1 DEF StoresKept, Caches
<1>4. newest' \in [Sources -> Int]
  BY <1>1, <1>2 DEF StoresKept
<1>5. ASSUME NEW s \in Sources PROVE PoseKept(s)'
  <2>1. CASE s = m.source
    BY <1>1, <1>2, <1>3, <2>1, SMTT(30) DEF StoresKept, PoseKept, Has, Put
  <2>2. CASE s # m.source
    BY <1>1, <1>2, <1>3, <2>2, SMTT(30) DEF StoresKept, PoseKept, Has, Put
  <2> QED BY <2>1, <2>2
<1>6. ASSUME NEW i \in Ids PROVE ClaimKept(i)'
  <2>1. ClaimKept(i) /\ UNCHANGED <<now, ideal>> /\ entries'["claim"] = entries["claim"]
    BY <1>2, <1>3 DEF StoresKept
  <2> QED BY <2>1, Zenon DEF ClaimKept, Has
<1>7. WorkKept'
  BY <1>2 DEF WorkKept
<1> QED BY <1>2, <1>3, <1>4, <1>5, <1>6, <1>7 DEF StoresKept

LEMMA StoresIntrinsics ==
  ASSUME StoresKept, ResolveIntrinsics
  PROVE  StoresKept'
<1>1. PICK s : s = work.m.source
  OBVIOUS
<1>2. /\ s \in Sources /\ UNCHANGED <<now, ideal, newest>>
      /\ \/ entries' = entries
         \/ Has("pose", s) /\ entries' = [entries EXCEPT !["pose"][s].intrinsics = TRUE]
  BY <1>1 DEF ResolveIntrinsics, StoresKept, WorkKept, Kept
<1>3. WorkKept'
  BY DEF ResolveIntrinsics, StoresKept, WorkKept
<1>4. CASE entries' = entries
  BY <1>2, <1>3, <1>4, StoresQuiet DEF StoresKept
<1>5. CASE Has("pose", s) /\ entries' = [entries EXCEPT !["pose"][s].intrinsics = TRUE]
  <2>1. PICK p : p = entries["pose"]
    OBVIOUS
  <2>2. entries' = [entries EXCEPT !["pose"] = [p EXCEPT ![s] = [p[s] EXCEPT !.intrinsics = TRUE]]]
    BY <1>5, <2>1
  <2>3. /\ entries' = [c \in Caches |-> entries'[c]]
        /\ entries'["pose"] = [p EXCEPT ![s] = [p[s] EXCEPT !.intrinsics = TRUE]]
        /\ entries'["claim"] = entries["claim"]
    BY <2>2 DEF StoresKept, Caches
  <2>4. ASSUME NEW t \in Sources PROVE PoseKept(t)'
    <3>1. PICK q : q = [p[s] EXCEPT !.intrinsics = TRUE]
      OBVIOUS
    <3>2. {"when", "exp"} \subseteq DOMAIN p[s] => /\ {"when", "exp"} \subseteq DOMAIN q
                                                  /\ q.when = p[s].when /\ q.exp = p[s].exp
      BY <3>1
    <3>3. PoseKept(t)
      BY DEF StoresKept
    <3>4. entries'["pose"] = [p EXCEPT ![s] = q]
      BY <2>3, <3>1
    <3>5. CASE t = s
      BY <1>2, <1>5, <2>1, <3>2, <3>3, <3>4, <3>5 DEF PoseKept, Has
    <3>6. CASE t # s
      BY <1>2, <1>5, <2>1, <3>3, <3>4, <3>6 DEF PoseKept, Has
    <3> QED BY <3>5, <3>6
  <2>5. \A i \in Ids : ClaimKept(i)'
    BY <1>2, <2>3 DEF StoresKept, ClaimKept, Has
  <2> QED BY <1>2, <1>3, <2>3, <2>4, <2>5 DEF StoresKept
<1> QED BY <1>2, <1>4, <1>5

LEMMA StoresClaim ==
  ASSUME StoresKept, Claim
  PROVE  StoresKept'
<1>1. PICK m : m = work.m
  OBVIOUS
<1>2. /\ m.id \in Ids /\ m.when \in Int /\ now - m.when <= MaxLag /\ now \in Int
      /\ UNCHANGED <<now, newest>>
      /\ IF Collides(entries["claim"], m) THEN UNCHANGED <<entries, ideal>>
         ELSE /\ entries' = [entries EXCEPT !["claim"] = Stored(@, m)]
              /\ ideal' = Stored(ideal, m)
  BY <1>1 DEF Claim, StoresKept, WorkKept
<1>3. WorkKept'
  BY DEF Claim, WorkKept
<1>4. CASE Collides(entries["claim"], m)
  BY <1>2, <1>3, <1>4, StoresQuiet
<1>5. CASE ~Collides(entries["claim"], m)
  <2>1. /\ entries' = [c \in Caches |-> entries'[c]]
        /\ entries'["pose"] = entries["pose"]
        /\ entries'["claim"] = Stored(entries["claim"], m)
        /\ ideal' = Stored(ideal, m)
    BY <1>2, <1>5 DEF StoresKept, Caches
  <2>2. \A s \in Sources : PoseKept(s)'
    BY <1>2, <2>1 DEF StoresKept, PoseKept, Has
  <2>3. ASSUME NEW i \in Ids PROVE ClaimKept(i)'
    <3>0. ClaimKept(i)
      BY <2>3 DEF StoresKept
    <3>1. CASE i # m.id
      BY <1>2, <2>1, <3>0, <3>1, SMTT(30) DEF ClaimKept, Stored, Put, Has
    <3>2. CASE i = m.id /\ Has("claim", i)
      BY <1>2, <2>1, <3>0, <3>2, SMTT(30) DEF ClaimKept, Stored, Put, Has
    <3>3. CASE i = m.id /\ ~Has("claim", i)
      <4>1. i \in DOMAIN ideal => ideal[i].when < m.when /\ ideal[i].when \in Int
        BY <1>2, <3>0, <3>3, TimesAreNaturals DEF ClaimKept
      <4>2. /\ Stored(entries["claim"], m)
                 = Put(entries["claim"], i, [source |-> m.source, when |-> m.when, exp |-> m.when + Ttl])
            /\ Stored(ideal, m)
                 = Put(ideal, i, [source |-> m.source, when |-> m.when, exp |-> m.when + Ttl])
        BY <1>2, <3>3, <4>1 DEF Stored, Has
      <4> QED BY <1>2, <2>1, <4>2 DEF ClaimKept, Put, Has
    <3> QED BY <3>1, <3>2, <3>3
  <2> QED BY <1>2, <1>3, <2>1, <2>2, <2>3 DEF StoresKept
<1> QED BY <1>4, <1>5

LEMMA StoresSweep ==
  ASSUME StoresKept, NEW c \in Caches, SweepEntry(c)
  PROVE  StoresKept'
<1>1. PICK k : k = Head(order[c])
  OBVIOUS
<1>2. UNCHANGED <<now, work, ideal, newest>>
  BY DEF SweepEntry
<1>3. WorkKept'
  BY <1>2 DEF StoresKept, WorkKept
<1>4. CASE ~Expired(entries[c][k])
  BY <1>1, <1>2, <1>3, <1>4, StoresQuiet DEF SweepEntry, StoresKept
<1>5. CASE Expired(entries[c][k])
  <2>1. entries' = [entries EXCEPT ![c] = Without(@, k)]
    BY <1>1, <1>5 DEF SweepEntry
  <2>2. /\ entries' = [d \in Caches |-> entries'[d]]
        /\ entries'[c] = Without(entries[c], k)
        /\ \A d \in Caches : d # c => entries'[d] = entries[d]
    BY <2>1 DEF StoresKept
  <2>3. ASSUME NEW s \in Sources PROVE PoseKept(s)'
    BY <1>2, <1>5, <2>2, <2>3 DEF StoresKept, PoseKept, Has, Without, Expired, Caches
  <2>4. ASSUME NEW i \in Ids PROVE ClaimKept(i)'
    BY <1>2, <1>5, <2>2, <2>4 DEF StoresKept, ClaimKept, Has, Without, Expired, Caches
  <2> QED BY <1>2, <1>3, <2>2, <2>3, <2>4 DEF StoresKept
<1> QED BY <1>4, <1>5

LEMMA StoresStep == StoresKept /\ [ExternalNext]_externalVars => StoresKept'
<1> SUFFICES ASSUME StoresKept, [ExternalNext]_externalVars PROVE StoresKept'
  OBVIOUS
<1>1. CASE Clock
  <2>1. WorkKept'
    BY <1>1 DEF Clock, WorkKept
  <2> QED BY <1>1, <2>1, StoresQuiet DEF Clock, StoresKept
<1>2. ASSUME NEW m \in Messages, Receive(m) PROVE StoresKept'
  BY <1>2, StoresReceive
<1>3. ASSUME NEW c \in Caches, SweepEntry(c) PROVE StoresKept'
  BY <1>3, StoresSweep
<1>4. ASSUME NEW c \in Caches, \/ SweepTick(c) \/ ChunkDone(c) \/ SweepDone(c) \/ StopSweep(c)
                               \/ UNCHANGED externalVars
      PROVE  StoresKept'
  <2>1. UNCHANGED <<now, entries, ideal, newest, work>>
    BY <1>4 DEF SweepTick, ChunkDone, SweepDone, StopSweep, externalVars
  <2> QED BY <2>1, StoresQuiet DEF StoresKept, WorkKept
<1> QED BY <1>1, <1>2, <1>3, <1>4, StoresIntrinsics, StoresClaim DEF ExternalNext, Caches

LEMMA StoresInvariant == ExternalSpec => []StoresKept
  BY StoresInitial, StoresStep, PTL DEF ExternalSpec

(* A message that may still come is refused with the claims that are left   *)
(* exactly when it would be had none been swept.                            *)
THEOREM ClaimsOutliveMessages == ExternalSpec => []SweepNotSeen
<1>1. StoresKept => SweepNotSeen
  <2> SUFFICES ASSUME StoresKept, NEW s \in Sources, NEW i \in Ids,
                      NEW t \in (now - MaxLag)..(now + MaxLag), NEW m,
                      m = [source |-> s, id |-> i, when |-> t]
               PROVE  Collides(entries["claim"], m) <=> Collides(ideal, m)
    BY DEF SweepNotSeen
  <2>1. m.id = i /\ m.source = s /\ m.when = t /\ t \in Int /\ now - MaxLag <= t /\ now \in Int
    BY TimesAreNaturals DEF StoresKept
  <2>2. ClaimKept(i)
    BY DEF StoresKept
  <2> QED BY <2>1, <2>2, TimesAreNaturals DEF ClaimKept, Collides, Live, Has
<1> QED BY <1>1, StoresInvariant, PTL

(* A pose never gives way to an older one, not even when the sweep has      *)
(* removed it before the older one comes.                                   *)
THEOREM PosesOutliveMessages == ExternalSpec => PosesAdvance
<1>1. ASSUME StoresKept, StoresKept', [ExternalNext]_externalVars, NEW s \in Sources,
             Kept(s)' # Kept(s), Kept(s)' # None
      PROVE  Kept(s)'.when >= newest[s]
  <2>1. Kept(s)'.when = newest'[s] /\ newest'[s] \in Int /\ newest[s] \in Int
    BY <1>1 DEF StoresKept, PoseKept, Kept, Has
  <2>2. newest'[s] >= newest[s]
    <3>1. CASE \E m \in Messages : Receive(m)
      <4>1. PICK m \in Messages : Receive(m)
        BY <3>1
      <4>2. PICK r : newest' = [newest EXCEPT ![m.source] = IF r > @ THEN r ELSE @]
        BY <4>1, Zenon DEF Receive
      <4>3. newest \in [Sources -> Int]
        BY <1>1 DEF StoresKept
      <4>4. CASE s = m.source
        BY <2>1, <4>2, <4>3, <4>4
      <4>5. CASE s # m.source
        BY <2>1, <4>2, <4>3, <4>5
      <4> QED BY <4>4, <4>5
    <3>2. CASE ~\E m \in Messages : Receive(m)
      <4>1. newest' = newest
        BY <1>1, <3>2, ZenonT(60) DEF ExternalNext, externalVars, Clock, ResolveIntrinsics, Claim,
           SweepTick, SweepEntry, ChunkDone, SweepDone, StopSweep
      <4> QED BY <2>1, <4>1
    <3> QED BY <3>1, <3>2
  <2> QED BY <2>1, <2>2
<1>2. StoresKept /\ StoresKept' /\ [ExternalNext]_externalVars
        => [\A s \in Sources : Kept(s)' # Kept(s) /\ Kept(s)' # None
                               => Kept(s)'.when >= newest[s]]_externalVars
  BY <1>1
<1> QED BY <1>2, StoresInvariant, PTL DEF ExternalSpec, PosesAdvance

=============================================================================
