------------------------------ MODULE SceneOps ------------------------------
(***************************************************************************)
(* The scene a bforge daemon keeps between two operations: its objects     *)
(* with their names and parents (bforge/runtime/lib/scene.py), the session *)
(* operations over it (ops/session.py), the copies and proxies of          *)
(* ops/gameready.py and the temporary names of an export (ops/export.py).  *)
(* An operation runs alone and may fail half-way; what it did stays.       *)
(*                                                                         *)
(* An object has an identity and a name.  A name is a sequence of tokens:  *)
(* <<"rock", "-col", "_1">> is rock-col_1.  Geometry is the set of the     *)
(* shapes it was built from; transforms and materials are left out.        *)
(***************************************************************************)
EXTENDS Integers, Sequences, FiniteSets

CONSTANTS
  Stems,       \* what the operations that build an object call it
  Wanted,      \* the names asked for by a caller
  Foreign,     \* the names of the objects in imported files
  Prefixes,    \* of an import, none among them
  Slug,        \* token -> what sanitize makes of it
  Labels,      \* of snapshots
  FileOf,      \* label -> the file its sanitized name stands for
  Renames,     \* the `rename` maps of an export: sequences of <<from, to>>
  Numbers, Dots, \* what unique_name and Blender append to a name that is taken, in order
  NoOne, NoScene,
  MaxObjects, MaxOps, MaxRestarts

\* NoOne is the parent of what has none, NoScene what is in a file not written yet.
Suffixes == {"-col", "-convcol", "_lod1"}

ASSUME NamesSuffice ==
  /\ MaxObjects \in Nat /\ MaxOps \in Nat /\ MaxRestarts \in Nat
  /\ \A marks \in {Numbers, Dots} :
       /\ marks \in Seq({marks[i] : i \in DOMAIN marks}) /\ MaxObjects <= Len(marks)
       /\ \A i, j \in DOMAIN marks : marks[i] = marks[j] => i = j

ASSUME NamesAreLists ==
  /\ NoOne \notin Int
  /\ \A name \in Wanted \cup Foreign \cup Prefixes : name \in Seq({name[i] : i \in DOMAIN name})
  /\ \A rename \in Renames :
       /\ rename \in Seq({rename[i] : i \in DOMAIN rename})
       /\ \A i \in DOMAIN rename, k \in 1 .. 2 :
            LET name == rename[i][k] IN name \in Seq({name[j] : j \in DOMAIN name})

VARIABLES
  scene,     \* object -> [name, parent, shapes, mesh]
  snapshots, \* label -> the bytes kept in memory
  files,     \* file -> the scene saved in it
  asset,     \* the .blend of session.save
  said,      \* the last answer: the operation, on what, whether it was well, the names in it
  ops, restarts

sceneVars == <<scene, snapshots, files, asset, said, ops, restarts>>

Objects == 1 .. MaxObjects
NoObjects == [o \in {} |-> NoOne]

SceneInit ==
  /\ scene = NoObjects
  /\ snapshots = [l \in Labels |-> NoScene]
  /\ files = [f \in {FileOf[l] : l \in Labels} |-> NoScene]
  /\ asset = NoScene
  /\ said = [op |-> "ready", ok |-> TRUE, on |-> NoOne, names |-> {}]
  /\ ops = 0 /\ restarts = 0

-----------------------------------------------------------------------------
(* Names. *)

Taken(s) == {s[o].name : o \in DOMAIN s}

SlugOf(token) == IF token \in DOMAIN Slug THEN Slug[token] ELSE token

\* sanitize: a suffix at the end survives, everything else becomes snake_case.
Sanitize(name) ==
  [i \in DOMAIN name |->
     IF i = Len(name) /\ i > 1 /\ name[i] \in Suffixes THEN name[i] ELSE SlugOf(name[i])]

\* check_name: snake_case, with at most one suffix, at the end.
Checked(name) ==
  \A i \in DOMAIN name :
    name[i] \in DOMAIN Slug => i = Len(name) /\ i > 1 /\ name[i] \in Suffixes

FirstFree(s, base, marks) ==
  LET i == CHOOSE i \in DOMAIN marks :
             /\ Append(base, marks[i]) \notin Taken(s)
             /\ \A j \in 1 .. i - 1 : Append(base, marks[j]) \in Taken(s)
  IN Append(base, marks[i])

\* A mutant: the name is taken as it is asked for.
NameAsAsked(s, name) == Sanitize(name)

UniqueName(s, name) ==
  LET base == Sanitize(name)
  IN IF base \notin Taken(s) THEN base ELSE FirstFree(s, base, Numbers)

\* What Blender makes of a name that is taken: the next number after a dot.
BlenderName(s, name) ==
  LET bare == IF name[Len(name)] \in {Dots[i] : i \in DOMAIN Dots}
              THEN SubSeq(name, 1, Len(name) - 1) ELSE name
  IN IF name \notin Taken(s) THEN name ELSE FirstFree(s, bare, Dots)

-----------------------------------------------------------------------------
(* The scene. *)

NextId(s) == CHOOSE o \in Objects \ DOMAIN s : \A p \in Objects \ DOMAIN s : o <= p

With(s, object) == [o \in DOMAIN s \cup {NextId(s)} |-> IF o \in DOMAIN s THEN s[o] ELSE object]

\* A removed object leaves its children without a parent.
Without(s, gone) ==
  [o \in DOMAIN s \ gone |-> IF s[o].parent \in gone THEN [s[o] EXCEPT !.parent = NoOne] ELSE s[o]]

\* obj.name = name.
Named(s, o, name) == [s EXCEPT ![o].name = BlenderName(Without(s, {o}), name)]

Tells(op, on, ok, names) ==
  /\ ops' = ops + 1
  /\ said' = [op |-> op, on |-> on, ok |-> ok, names |-> names]

Elsewhere == UNCHANGED <<snapshots, files, asset, restarts>>

HasRoom == Cardinality(DOMAIN scene) < MaxObjects

\* The operations that build a mesh, and the sockets and rigs that are none.
BuildObject(stem, mesh) ==
  /\ HasRoom /\ Elsewhere
  /\ LET name == UniqueName(scene, <<stem>>)
     IN /\ scene' = With(scene, [name |-> name, parent |-> NoOne, mesh |-> mesh,
                                 shapes |-> IF mesh THEN {stem} ELSE {}])
        /\ Tells("build", NoOne, TRUE, {name})

\* object.duplicate, and one level of gameready.lod: the copy keeps the parent.
Duplicate(o, wanted) ==
  /\ HasRoom /\ Elsewhere
  /\ LET name == UniqueName(scene, wanted)
     IN /\ scene' = With(scene, [scene[o] EXCEPT !.name = BlenderName(scene, name)])
        /\ Tells("duplicate", NoOne, TRUE, {BlenderName(scene, name)})

\* gameready.collision: only the simplified proxy gets its name from unique_name.
Collision(o, suffix) ==
  /\ HasRoom /\ Elsewhere /\ scene[o].mesh
  /\ LET proxy_name == Append(scene[o].name, suffix)
         name == IF suffix = "-col" THEN UniqueName(scene, proxy_name) ELSE BlenderName(scene, proxy_name)
     IN /\ scene' = With(scene, [name |-> name, parent |-> o, mesh |-> TRUE, shapes |-> {}])
        /\ Tells("collision", NoOne, TRUE, {name})

\* The object's own name counts as taken.
Rename(o, to) ==
  /\ Elsewhere
  /\ scene' = Named(scene, o, UniqueName(scene, to))
  /\ Tells("rename", NoOne, TRUE, {UniqueName(scene, to)})

\* An object and what it hangs from.
HangingLine(o) ==
  LET up[n \in 0 .. MaxObjects] ==
        IF n = 0 THEN {o} ELSE up[n - 1] \cup {scene[p].parent : p \in up[n - 1] \ {NoOne}}
  IN up[MaxObjects]

\* A mutant: an object may not be its own parent, and that is all.
OnlyItself(o, par) == o # par

MayHangFrom(o, par) == o # par /\ o \notin HangingLine(par)

Parent(o, par) ==
  /\ Elsewhere
  /\ IF MayHangFrom(o, par)
     THEN scene' = [scene EXCEPT ![o].parent = par] /\ Tells("parent", NoOne, TRUE, {scene[o].name})
     ELSE UNCHANGED scene /\ Tells("parent", NoOne, FALSE, {})

\* object.delete: the names one after the other; those before a wrong one are gone.
Delete(objs) ==
  LET wrong == {i \in DOMAIN objs : \E j \in 1 .. i - 1 : objs[i] = objs[j]}
      gone  == {objs[i] : i \in {i \in DOMAIN objs : \A j \in wrong : i < j}}
  IN /\ Elsewhere
     /\ scene' = Without(scene, gone)
     /\ Tells("delete", NoOne, wrong = {}, {})

\* A mutant: the result is named before its sources are freed.
NamedFirst(sources, requested) == UniqueName(scene, requested)

JoinedName(sources, requested) == UniqueName(Without(scene, sources), requested)

\* object.join: the meshes are freed one by one, and one named twice is an error by then.
Join(objs, into) ==
  LET meshes    == {i \in DOMAIN objs : scene[objs[i]].mesh}
      first     == CHOOSE i \in meshes : \A j \in meshes : i <= j
      twice     == {i \in meshes : \E j \in meshes : j < i /\ objs[i] = objs[j]}
      freed     == {objs[i] : i \in {i \in meshes : \A j \in twice : i < j}}
      requested == IF into = <<>> THEN Sanitize(scene[objs[first]].name) ELSE into
      name      == JoinedName(freed, requested)
  IN /\ Elsewhere
     /\ \/ /\ meshes = {}
           /\ UNCHANGED scene /\ Tells("join", NoOne, FALSE, {})
        \/ /\ Cardinality(meshes) = 1 /\ into = <<>>
           /\ UNCHANGED scene /\ Tells("kept", NoOne, TRUE, {scene[objs[first]].name})
        \/ /\ Cardinality(meshes) > (IF into = <<>> THEN 1 ELSE 0)
           /\ IF twice # {} THEN scene' = Without(scene, freed) /\ Tells("join", NoOne, FALSE, {})
              ELSE /\ scene' = With(Without(scene, freed),
                                    [name |-> name, parent |-> NoOne, mesh |-> TRUE,
                                     shapes |-> UNION {scene[o].shapes : o \in freed}])
                   /\ Tells("join", [sources |-> freed, requested |-> requested], TRUE, {name})

-----------------------------------------------------------------------------
(* The session. *)

ResetScene == scene' = NoObjects /\ Elsewhere /\ Tells("reset", NoOne, TRUE, {})

\* The bytes are those of a file, which labels may share.
Snapshot(l) ==
  /\ files' = [files EXCEPT ![FileOf[l]] = scene]
  /\ snapshots' = [snapshots EXCEPT ![l] = scene]
  /\ Tells("snapshot", l, TRUE, {})
  /\ UNCHANGED <<scene, asset, restarts>>

\* A mutant: the file is opened as it is.
FileAsItIs(l) == files

\* The label's bytes go back to the file first.
Rewritten(l) == [files EXCEPT ![FileOf[l]] = snapshots[l]]

Restore(l) ==
  /\ UNCHANGED <<snapshots, asset, restarts>>
  /\ IF snapshots[l] = NoScene
     THEN UNCHANGED <<scene, files>> /\ Tells("restore", l, FALSE, {})
     ELSE /\ files' = Rewritten(l)
          /\ scene' = files'[FileOf[l]]
          /\ Tells("restore", l, TRUE, {})

Save == /\ asset' = scene /\ Tells("save", NoOne, TRUE, {})
        /\ UNCHANGED <<scene, snapshots, files, restarts>>

Open ==
  /\ Elsewhere
  /\ IF asset = NoScene THEN UNCHANGED scene /\ Tells("open", NoOne, FALSE, {})
     ELSE scene' = asset /\ Tells("open", NoOne, TRUE, Taken(asset))

\* session.import: an import that fails after the reset leaves the empty scene.
Import(name, prefix, resetFirst) ==
  LET before == IF resetFirst THEN NoObjects ELSE scene
      loaded == With(before, [name |-> BlenderName(before, name), parent |-> NoOne,
                              mesh |-> TRUE, shapes |-> {Head(name)}])
      given  == BlenderName(before, name)
      mine   == CASE prefix # <<>>     -> UniqueName(loaded, prefix \o given)
                  [] ~Checked(given)   -> UniqueName(loaded, given)
                  [] OTHER             -> given
  IN /\ Elsewhere
     /\ \/ scene' = before /\ Tells("import", NoOne, FALSE, {})
        \/ /\ Cardinality(DOMAIN before) < MaxObjects
           /\ scene' = Named(loaded, NextId(before), mine)
           /\ Tells("import", NoOne, TRUE, {mine})

-----------------------------------------------------------------------------
(* An export under other names. *)

\* _apply_renames, entry by entry: the scene, the undo pairs and whether a name was missing.
Applied(rename) ==
  LET apply[i \in 0 .. Len(rename)] ==
        IF i = 0 THEN [scene |-> scene, restore |-> <<>>, unmatched |-> FALSE]
        ELSE LET was  == apply[i - 1]
                 hits == {o \in DOMAIN scene : was.scene[o].name = rename[i][1]}
                 o    == CHOOSE o \in hits : TRUE
             IN IF hits = {} THEN [was EXCEPT !.unmatched = TRUE]
                ELSE [was EXCEPT !.scene = Named(was.scene, o, rename[i][2]),
                                 !.restore = Append(was.restore, <<o, rename[i][1]>>)]
  IN apply[Len(rename)]

\* The undo pairs, in the order in which they were made.
Restored(s, restore) ==
  LET back[i \in 0 .. Len(restore)] ==
        IF i = 0 THEN s ELSE Named(back[i - 1], restore[i][1], restore[i][2])
  IN back[Len(restore)]

\* A mutant: a wrong name is an error, and what was renamed before it stays.
StaysRenamed(applied) ==
  IF applied.unmatched THEN applied.scene ELSE Restored(applied.scene, applied.restore)

\* Put back when a name is wrong, and when the file is written or could not be.
PutBack(applied) == Restored(applied.scene, applied.restore)

Export(rename) ==
  /\ Elsewhere
  /\ IF scene = NoObjects THEN UNCHANGED scene /\ Tells("export", NoOne, FALSE, {})
     ELSE /\ scene' = PutBack(Applied(rename))
          /\ \/ Tells("export", NoOne, FALSE, {})
             \/ ~Applied(rename).unmatched /\ Tells("export", NoOne, TRUE, Taken(scene'))

\* The daemon ends or dies: its memory is gone, the files stay.
Restart ==
  /\ restarts < MaxRestarts /\ restarts' = restarts + 1
  /\ scene' = NoObjects
  /\ snapshots' = [l \in Labels |-> NoScene]
  /\ said' = [op |-> "ready", on |-> NoOne, ok |-> TRUE, names |-> {}]
  /\ UNCHANGED <<files, asset, ops>>

Pairs == {<<o, p>> : o \in DOMAIN scene, p \in DOMAIN scene}

OnObject(o) ==
  \/ \E wanted \in Wanted \cup {Append(scene[o].name, x) : x \in {"_copy", "_lod1"}} : Duplicate(o, wanted)
  \/ \E suffix \in {"-col", "-convcol"} : Collision(o, suffix)
  \/ \E to \in Wanted : Rename(o, to)
  \/ \E par \in DOMAIN scene : Parent(o, par)

OnSession ==
  \/ ResetScene \/ Save \/ Open
  \/ \E l \in Labels : Snapshot(l) \/ Restore(l)
  \/ \E name \in Foreign, prefix \in Prefixes, resetFirst \in BOOLEAN : Import(name, prefix, resetFirst)

Operation ==
  /\ ops < MaxOps
  /\ \/ \E stem \in Stems, mesh \in BOOLEAN : BuildObject(stem, mesh)
     \/ \E o \in DOMAIN scene : OnObject(o)
     \/ \E pair \in Pairs : Delete(pair) \/ \E into \in Wanted \cup {<<>>} : Join(pair, into)
     \/ \E rename \in Renames : Export(rename)
     \/ OnSession

SceneNext == Operation \/ Restart

SceneSpec == SceneInit /\ [][SceneNext]_sceneVars

-----------------------------------------------------------------------------
SceneTypeOK ==
  /\ DOMAIN scene \subseteq Objects
  /\ \A o \in DOMAIN scene : scene[o].parent \in DOMAIN scene \cup {NoOne} /\ scene[o].mesh \in BOOLEAN

\* The parents make a forest, though every object may be hung anywhere: an exporter walks
\* it down and would not come back from a ring (ops/session.py object_parent).
Forest == \A o \in DOMAIN scene : scene[o].parent = NoOne \/ o \notin HangingLine(scene[o].parent)

\* Every name means one object, and the names an operation answers are there.
NamesHold ==
  /\ \A o, p \in DOMAIN scene : scene[o].name = scene[p].name => o = p
  /\ said.names \subseteq Taken(scene)

SceneSafe == SceneTypeOK /\ Forest /\ NamesHold

\* session.restore brings back the snapshot of that label, whatever labels share its file.
RestoreExact == said'.op = "restore" /\ said'.ok => scene' = snapshots[said'.on]

\* lib/scene.py:342 a recipe that asks a join for a name that only its sources bear, or
\* nobody, gets it, and the result is made of all of them.
JoinAsAsked ==
  said'.op = "join" /\ said'.ok =>
    LET sources == said'.on.sources  asked == Sanitize(said'.on.requested)
    IN \/ \E o \in DOMAIN scene \ sources : scene[o].name = asked
       \/ /\ said'.names = {asked}
          /\ \E o \in DOMAIN scene' : /\ scene'[o].name = asked
                                      /\ scene'[o].shapes = UNION {scene[p].shapes : p \in sources}

\* ops/export.py: whatever the maps rename and whether or not the file is written, the
\* master is as it was.
ExportLeavesMaster == said'.op = "export" => scene' = scene
=============================================================================
