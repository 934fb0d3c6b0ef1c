----------------------------- MODULE SourceMaps -----------------------------
(***************************************************************************)
(* The maps of a scene in the Manager: one mesh and one zip per mapping    *)
(* method, one of the meshes mirrored into the scene.  Every request is a  *)
(* database transaction: it loads the scene, later takes the row lock of   *)
(* the scene with its first write (or is refused, where it does not wait), *)
(* and writes what it loaded, the whole row, not only what changed.  Files *)
(* are deleted after the commit, if nothing committed refers to them.      *)
(* A name stored anew is never one that was used before; a row is known by *)
(* its file, which it keeps.                                               *)
(***************************************************************************)
EXTENDS Naturals

CONSTANTS Workers, Methods,
          MaxRequests, \* bound
          MaxFailures  \* bound on commits that fail

NoFile == <<"none", 0>>

VARIABLES scene,   \* map, thumbnail and default_source_map of the scene's row
          rows,    \* SceneSourceMap by method: file and thumbnail
          zips,    \* SceneMappingArtifact by method: bundle
          disk,    \* files in the media store
          made,    \* files stored so far
          lock,    \* the worker with the lock on the scene's row
          req,     \* the request of each worker
          jobs,    \* files to look at after a commit
          doomed,  \* files found without a reference
          requests, failures
mapVars == <<scene, rows, zips, disk, made, lock, req, jobs, doomed, requests, failures>>

NoRow == [file |-> NoFile, thumb |-> NoFile]
NoScene == [map |-> NoFile, thumb |-> NoFile, default |-> NoFile]
FirstMesh == [map |-> <<"map", 1>>, thumb |-> <<"thumb", 2>>, default |-> <<"map", 1>>]
NoReq == [op |-> "none", method |-> "none", snap |-> NoScene, row |-> NoFile, file |-> NoFile]
Nobody == "nobody"
Fresh(kind, k) == <<kind, made + k>>

(* A new scene, or one with a mesh.                                        *)
MapsInit ==
  /\ \/ /\ scene = NoScene /\ rows = [m \in Methods |-> NoRow]
        /\ disk = {} /\ made = 0
     \/ /\ scene = FirstMesh
        /\ \E n \in Methods :
             rows = [m \in Methods |-> IF m = n THEN [file |-> scene.map, thumb |-> scene.thumb]
                                      ELSE NoRow]
        /\ disk = {scene.map, scene.thumb} /\ made = 2
  /\ zips = [m \in Methods |-> NoFile]
  /\ lock = Nobody /\ req = [w \in Workers |-> NoReq]
  /\ jobs = {} /\ doomed = {} /\ requests = 0 /\ failures = 0

(* An uploaded map is on the disk before the row is locked.               *)
Begin(w) ==
  /\ req[w] = NoReq /\ requests < MaxRequests /\ requests' = requests + 1
  /\ \E op \in {"edit", "mesh", "image", "generate", "activate", "delete", "store", "drop"}, m \in Methods :
       /\ op \in {"activate", "delete"} => rows[m] # NoRow
       /\ LET saves == op \in {"mesh", "image"}
          IN /\ req' = [req EXCEPT ![w] =
                          [op |-> op, method |-> m, snap |-> scene, row |-> rows[m].file,
                           file |-> IF saves THEN Fresh("map", 1) ELSE NoFile]]
             /\ disk' = IF saves THEN disk \cup {Fresh("map", 1)} ELSE disk
             /\ made' = IF saves THEN made + 1 ELSE made
  /\ UNCHANGED <<scene, rows, zips, lock, jobs, doomed, failures>>

LockScene(w) ==
  /\ req[w] # NoReq /\ lock = Nobody /\ lock' = w
  /\ UNCHANGED <<scene, rows, zips, disk, made, req, jobs, doomed, requests, failures>>

(* nowait: a conflict instead of a wait.                                   *)
Conflict(w) ==
  /\ req[w].op \in {"activate", "store"} /\ lock \notin {Nobody, w}
  /\ req' = [req EXCEPT ![w] = NoReq]
  /\ UNCHANGED <<scene, rows, zips, disk, made, lock, jobs, doomed, requests, failures>>

Holds(w, op) == lock = w /\ req[w].op = op
End(w) == /\ lock' = Nobody /\ req' = [req EXCEPT ![w] = NoReq]
          /\ UNCHANGED <<doomed, requests>>
Untouched == UNCHANGED <<scene, rows, zips, disk, made, jobs, failures>>

\* Mutant of DefaultExists: the row a scene refers to may be gone.
DefaultExistsAlways(s) == TRUE

(* The foreign key of the scene's row, checked with the commit.           *)
DefaultExists(s) == s.default = NoFile \/ \E m \in Methods : rows[m].file = s.default

(* The whole row is written back as it was loaded, with a new thumbnail    *)
(* if the placement changed; the active mesh's row follows.                *)
Edit(w) ==
  LET s == req[w].snap
      of == {m \in Methods : s.default # NoFile /\ rows[m].file = s.default}
  IN /\ Holds(w, "edit") /\ DefaultExists(s)
     /\ \E t \in {s.thumb} \cup IF s.map = NoFile THEN {} ELSE {Fresh("thumb", 1)} :
          /\ scene' = [s EXCEPT !.thumb = t]
          /\ rows' = [m \in Methods |-> IF m \in of THEN [rows[m] EXCEPT !.thumb = t] ELSE rows[m]]
          /\ jobs' = jobs \cup ({rows[m].thumb : m \in of} \ {t})
          /\ disk' = disk \cup IF t = s.thumb THEN {} ELSE {t}
          /\ made' = IF t = s.thumb THEN made ELSE made + 1
     /\ End(w) /\ UNCHANGED <<zips, failures>>

EditFails(w) == /\ Holds(w, "edit") /\ ~DefaultExists(req[w].snap)
                /\ End(w) /\ Untouched

RecordMesh(w) ==
  LET f == req[w].file
      t == Fresh("thumb", 1)
      m == req[w].method
  IN /\ Holds(w, "mesh")
     /\ scene' = [map |-> f, thumb |-> t, default |-> f]
     /\ rows' = [rows EXCEPT ![m] = [file |-> f, thumb |-> t]]
     /\ jobs' = jobs \cup ({rows[m].file, rows[m].thumb} \ {NoFile})
     /\ disk' = disk \cup {t} /\ made' = made + 1
     /\ End(w) /\ UNCHANGED <<zips, failures>>

RecordImage(w) ==
  /\ Holds(w, "image")
  /\ scene' = [map |-> req[w].file, thumb |-> NoFile, default |-> NoFile]
  /\ End(w) /\ UNCHANGED <<rows, zips, disk, made, jobs, failures>>

(* A mesh made from the cameras belongs to no method.  Each poll that sees *)
(* its job done stores it once more; the row is read with the lock held.   *)
Generate(w) ==
  LET f == Fresh("map", 1)
      t == Fresh("thumb", 2)
  IN /\ Holds(w, "generate")
     /\ scene' = [map |-> f, thumb |-> t, default |-> NoFile]
     /\ disk' = disk \cup {f, t} /\ made' = made + 2
     /\ End(w) /\ UNCHANGED <<rows, zips, jobs, failures>>

(* The job is gone or has failed, or its mesh is rejected.                 *)
GenerateRejected(w) == Holds(w, "generate") /\ End(w) /\ Untouched

(* The transaction is undone, its file is not.                             *)
GenerateFails(w) ==
  /\ Holds(w, "generate") /\ failures < MaxFailures /\ failures' = failures + 1
  /\ disk' = disk \cup {Fresh("map", 1)} /\ made' = made + 1
  /\ End(w) /\ UNCHANGED <<scene, rows, zips, jobs>>

(* The row is looked up again with the lock held.                          *)
SameRow(w) == rows[req[w].method].file = req[w].row

Activate(w) ==
  LET f == req[w].row
      t == Fresh("thumb", 1)
  IN /\ Holds(w, "activate") /\ SameRow(w)
     /\ scene' = [map |-> f, thumb |-> t, default |-> f]
     /\ jobs' = jobs \cup ({scene.thumb} \ {NoFile})
     /\ disk' = disk \cup {t} /\ made' = made + 1
     /\ End(w) /\ UNCHANGED <<rows, zips, failures>>

\* Mutant of Deletable: the default is the one known before the lock.
DeletableAsLoaded(w) == SameRow(w) /\ req[w].snap.default # req[w].row

Deletable(w) == SameRow(w) /\ scene.default # req[w].row

(* Deleting a row sets a reference to it to null.                          *)
Delete(w) ==
  LET m == req[w].method
  IN /\ Holds(w, "delete") /\ Deletable(w)
     /\ rows' = [rows EXCEPT ![m] = NoRow] /\ zips' = [zips EXCEPT ![m] = NoFile]
     /\ scene' = [scene EXCEPT !.default = IF @ = rows[m].file THEN NoFile ELSE @]
     /\ jobs' = jobs \cup ({rows[m].file, rows[m].thumb, zips[m]} \ {NoFile})
     /\ End(w) /\ UNCHANGED <<disk, made, failures>>

Refuse(w) ==
  /\ \/ Holds(w, "activate") /\ ~SameRow(w)
     \/ Holds(w, "delete") /\ ~Deletable(w)
  /\ End(w) /\ Untouched

Store(w) ==
  LET m == req[w].method
  IN /\ Holds(w, "store")
     /\ zips' = [zips EXCEPT ![m] = Fresh("zip", 1)]
     /\ jobs' = jobs \cup ({zips[m]} \ {NoFile})
     /\ disk' = disk \cup {Fresh("zip", 1)} /\ made' = made + 1
     /\ End(w) /\ UNCHANGED <<scene, rows, failures>>

\* Mutant of Retracted: the file of a failed upload is left.
RetractedNever(zip) == {}

(* The file a failed commit leaves to be deleted.                          *)
Retracted(zip) == {zip}

StoreFails(w) ==
  /\ Holds(w, "store") /\ failures < MaxFailures /\ failures' = failures + 1
  /\ jobs' = jobs \cup Retracted(Fresh("zip", 1))
  /\ disk' = disk \cup {Fresh("zip", 1)} /\ made' = made + 1
  /\ End(w) /\ UNCHANGED <<scene, rows, zips>>

Drop(w) ==
  LET m == req[w].method
  IN /\ Holds(w, "drop")
     /\ zips' = [zips EXCEPT ![m] = NoFile]
     /\ jobs' = jobs \cup ({zips[m]} \ {NoFile})
     /\ End(w) /\ UNCHANGED <<scene, rows, disk, made, failures>>

(***************************************************************************)
(* After the commit                                                        *)
(***************************************************************************)
References == {scene.map, scene.thumb}
              \cup {rows[m].file : m \in Methods} \cup {rows[m].thumb : m \in Methods}
              \cup {zips[m] : m \in Methods}

Examine(f) ==
  /\ f \in jobs /\ jobs' = jobs \ {f}
  /\ doomed' = IF f \in References THEN doomed ELSE doomed \cup {f}
  /\ UNCHANGED <<scene, rows, zips, disk, made, lock, req, requests, failures>>

Unlink(f) ==
  /\ f \in doomed /\ doomed' = doomed \ {f} /\ disk' = disk \ {f}
  /\ UNCHANGED <<scene, rows, zips, made, lock, req, jobs, requests, failures>>

Request(w) ==
  \/ LockScene(w) \/ Edit(w) \/ EditFails(w) \/ RecordMesh(w) \/ RecordImage(w)
  \/ Generate(w) \/ GenerateRejected(w) \/ Activate(w) \/ Delete(w) \/ Refuse(w) \/ Store(w) \/ Drop(w)
Sweep == \E f \in jobs \cup doomed : Examine(f) \/ Unlink(f)

MapsNext ==
  \/ Sweep
  \/ \E w \in Workers : Begin(w) \/ Conflict(w) \/ StoreFails(w) \/ GenerateFails(w) \/ Request(w)

MapsFairness == WF_mapVars(Sweep) /\ \A w \in Workers : WF_mapVars(Request(w))

MapsSpec == MapsInit /\ [][MapsNext]_mapVars /\ MapsFairness

(***************************************************************************)
(* Properties.                                                             *)
(***************************************************************************)
(* Whatever requests overlap, the scene mirrors its default source, and    *)
(* the maps and zips the rows name are on the disk (models.py:149,         *)
(* mapping_store.py:416-471, models.py:650-659).                           *)
MapsServed ==
  /\ scene.default # NoFile => scene.map = scene.default /\ DefaultExists(scene)
  /\ ({scene.map} \cup {rows[m].file : m \in Methods} \cup {zips[m] : m \in Methods})
       \subseteq disk \cup {NoFile}

(* "The default map cannot be deleted" (mapping_store.py:478): while the   *)
(* scene's map stays, so does its source, also when the map became the     *)
(* default after the request to delete it had come in.                     *)
DefaultKept ==
  [][scene.default # NoFile /\ scene'.map = scene.map => scene'.default # NoFile]_scene

(* No zip that was replaced, deleted or whose upload failed is left behind *)
(* once the requests are done (mapping_store.py:287-302).                  *)
NoZipLeft ==
  \A f \in disk : f[1] = "zip" => \E m \in Methods : zips[m] = f

=============================================================================
