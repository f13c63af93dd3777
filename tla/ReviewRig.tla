----------------------------- MODULE ReviewRig ------------------------------
(***************************************************************************)
(* The renders of bforge (bforge/runtime/ops/render.py) and what they      *)
(* leave behind.  To take a picture an operation hides objects, deletes    *)
(* the lamps, adds a rig of its own, swaps materials and changes the       *)
(* settings of the scene it pictures, and puts back what it puts back,     *)
(* also when the picture fails.                                            *)
(*                                                                         *)
(* A picture is its number and the set of the meshes in it.  An operation  *)
(* ends well, or fails on the way to its rendering (a directory of the     *)
(* output cannot be made: "path"), in it, or after it, when it is saved.   *)
(***************************************************************************)
EXTENDS Integers, Sequences

CONSTANTS
  Master,      \* the mesh objects of the scene, in its order
  DataOf,      \* object -> its mesh, which instances share
  Lamps,       \* the scene's own lamps
  Proxies,     \* the collision proxies among the objects
  Asked,       \* the lists of objects asked for, the empty one for the whole scene
  Panels,      \* the panels of a contact sheet
  MaxPictures  \* a bound

VARIABLES
  hidden,   \* the meshes with hide_render
  slots,    \* mesh -> its materials
  lamps,    \* the scene's own lamps that are left
  left,     \* what is left of rigs
  camera,   \* scene.camera: the scene's own, one of a rig, or none
  settings, \* for what the render and view settings are
  page,     \* the picture under one path, and the one the sidecar beside it describes
  heard,    \* the last answer
  pictures

rigVars == <<hidden, slots, lamps, left, camera, settings, page, heard, pictures>>

Among(objs) == {objs[i] : i \in DOMAIN objs}

ASSUME ListsAreLists ==
  /\ \A list \in Asked \cup {Master, Panels} : list \in Seq(Among(list))
  /\ Proxies \subseteq Among(Master)

\* A haze that is left is one more mesh.
Meshes == Among(Master) \cup (left \cap {"haze"})

RigInit ==
  /\ hidden \in SUBSET Proxies
  /\ slots = [d \in {DataOf[o] : o \in Among(Master)} |-> <<"own">>]
  /\ lamps = Lamps /\ left = {} /\ camera = "own" /\ settings = "own"
  /\ page = [picture |-> 0, sidecar |-> 0]
  /\ heard = [op |-> "ready", how |-> "well", of |-> <<>>, seen |-> {}]
  /\ pictures = 0

-----------------------------------------------------------------------------
(* What the renders share. *)

\* _targets.
Targets(objs) == IF objs = <<>> THEN Meshes ELSE Among(objs)

\* A mutant: what is hidden already is hidden once more, and shown afterwards.
HidesAll(objs) == Meshes \ Targets(objs)

\* _hide_others: only what is shown, which is shown again afterwards.
HideOthers(objs) == (Meshes \ Targets(objs)) \ hidden

\* The objects hidden for the picture are shown again, or stay as they are.
ShownAgain(mine) == hidden' = hidden \ mine
KeptHidden(mine) == hidden' = hidden \cup mine

\* _setup_lights deletes every light there is.  _cleanup_rig removes the rig, and the
\* scene is without a camera; an operation that did not come to its try leaves it.
Rigged(rig, how) ==
  /\ lamps' = {}
  /\ left' = (left \ {"light"}) \cup (IF how = "path" THEN rig ELSE {})
  /\ camera' = IF how = "path" THEN "rig" ELSE "none"

LightAndCamera == {"light", "camera"}

\* What each object in turn finds on its mesh is what it gets back.
Backup(objs, review, before) ==
  [i \in DOMAIN objs |->
     IF \E j \in 1 .. i - 1 : DataOf[objs[j]] = DataOf[objs[i]]
     THEN <<review>> ELSE before[DataOf[objs[i]]]]

OfData(objs, d) == {i \in DOMAIN objs : DataOf[objs[i]] = d}

\* _swap_materials.
Swapped(objs, review, before) ==
  [d \in DOMAIN before |-> IF OfData(objs, d) = {} THEN before[d] ELSE <<review>>]

\* _swap_materials, and _restore_materials later.
SwappedBack(objs, review, before) ==
  [d \in DOMAIN before |->
     IF OfData(objs, d) = {} THEN before[d]
     ELSE LET last == CHOOSE i \in OfData(objs, d) : \A j \in OfData(objs, d) : j <= i
          IN Backup(objs, review, before)[last]]

\* The answer, and the picture where there is one.
Answers(op, how, objs, mine) ==
  /\ pictures' = pictures + 1
  /\ heard' = [op |-> op, how |-> how, of |-> objs, seen |-> (Meshes \ hidden) \ mine]

Prints(how) ==
  page' = IF how = "well" THEN [page EXCEPT !.picture = pictures + 1] ELSE page

-----------------------------------------------------------------------------
(* The operations. *)

\* render.view, and render.turntable, whose frames have a directory of their own.
Framed(op, objs, how) ==
  LET mine == HideOthers(objs)
  IN /\ Rigged(LightAndCamera, how) /\ settings' = "review"
     /\ IF how = "path" THEN KeptHidden(mine) ELSE ShownAgain(mine)
     /\ Answers(op, how, objs, mine)
     /\ IF op = "view" THEN Prints(how) ELSE UNCHANGED page
     /\ UNCHANGED slots

\* render.camera and render.cinematic hide nothing.
Placed(op, how) ==
  /\ Rigged(LightAndCamera, how) /\ settings' = IF op = "camera" THEN "review" ELSE "film"
  /\ Answers(op, how, <<>>, {}) /\ Prints(how)
  /\ UNCHANGED <<hidden, slots>>

\* render.cinematic in a haze.  A bound: one haze is left at most.
Hazy(how) ==
  /\ how = "path" => "haze" \notin left
  /\ Rigged(LightAndCamera \cup {"haze"}, how) /\ settings' = "film"
  /\ Answers("cinematic", how, <<>>, {}) /\ Prints(how)
  /\ UNCHANGED <<hidden, slots>>

ReviewOf == [panel \in {"wireframe", "checker"} |-> IF panel = "checker" THEN "_bforge_checker" ELSE "_bforge_wire"]

\* The materials after n panels that came to their end.
SlotsAfter(objs, n) ==
  LET after[i \in 0 .. n] ==
        IF i = 0 THEN slots
        ELSE IF Panels[i] \in DOMAIN ReviewOf
             THEN SwappedBack(objs, ReviewOf[Panels[i]], after[i - 1])
             ELSE after[i - 1]
  IN after[n]

\* A panel's materials are swapped before its try.
SlotsAt(objs, n) ==
  IF Panels[n] \in DOMAIN ReviewOf
  THEN Swapped(objs, ReviewOf[Panels[n]], SlotsAfter(objs, n - 1))
  ELSE SlotsAfter(objs, n - 1)

\* A mutant: the materials are put back once a panel is there.
KeepsReview(objs, n, how) == IF how = "well" THEN SlotsAfter(objs, n) ELSE SlotsAt(objs, n)

SheetSlots(objs, n, how) == IF how = "path" THEN SlotsAt(objs, n) ELSE SlotsAfter(objs, n)

\* render.contact_sheet, of which panel n is the last: the others are shown again after
\* the last panel only, in no `finally`.
ContactSheet(objs, n, how) ==
  LET mine == HideOthers(objs)
  IN /\ how \in {"well", "saving"} => n = Len(Panels)
     /\ Rigged(LightAndCamera, how) /\ settings' = "review"
     /\ IF how \in {"well", "saving"} THEN ShownAgain(mine) ELSE KeptHidden(mine)
     /\ slots' = SheetSlots(IF objs = <<>> THEN Master ELSE objs, n, how)
     /\ Answers("sheet", how, objs, mine) /\ Prints(how)

\* render.impostor: its normals swap inside the try, after the first sheet is saved; the
\* sidecar comes last.
Impostor(objs, normals, how) ==
  LET mine == HideOthers(objs)
  IN /\ Rigged(LightAndCamera, how) /\ settings' = "clear"
     /\ IF how = "path" THEN KeptHidden(mine) ELSE ShownAgain(mine)
     /\ slots' = IF normals /\ how # "path"
                 THEN SwappedBack(objs, "_bforge_impostor_normal", slots) ELSE slots
     /\ Answers("impostor", how, objs, mine)
     /\ \/ how \in {"path", "rendering"} /\ UNCHANGED page
        \/ /\ how = "saving" \/ (how = "rendering" /\ normals)
           /\ page' = [page EXCEPT !.picture = pictures + 1]
        \/ how = "well" /\ page' = [picture |-> pictures + 1, sidecar |-> pictures + 1]

\* A mutant: the picture of one view leaves the sidecar of another.
KeepsSidecar(views) == IF views > 1 THEN pictures + 1 ELSE page.sidecar

\* Replaced, or removed beside a picture of one view.
Sidecar(views) == IF views > 1 THEN pictures + 1 ELSE 0

\* render.sprite: everything but the list of the hidden is made inside its try, and the
\* settings are what they were.
Sprite(objs, views, how) ==
  LET mine == HideOthers(objs)
  IN /\ IF how = "path" THEN KeptHidden(mine) /\ UNCHANGED <<lamps, left, camera>>
        ELSE ShownAgain(mine) /\ Rigged({}, how)
     /\ Answers("sprite", how, objs, mine)
     /\ page' = CASE how \in {"path", "rendering"} -> page
                  [] how = "saving" -> [page EXCEPT !.picture = pictures + 1]
                  [] how = "well"    -> [picture |-> pictures + 1, sidecar |-> Sidecar(views)]
     /\ UNCHANGED <<slots, settings>>

ToARendering == {"path", "rendering", "well"}

\* A root and its children.
Families == {objs \in Asked : objs # <<>> /\ \A i, j \in DOMAIN objs : objs[i] = objs[j] => i = j}

RigNext ==
  /\ pictures < MaxPictures
  /\ \/ \E objs \in Asked, how \in ToARendering :
          \E op \in {"view", "turntable"} : Framed(op, objs, how)
     \/ \E objs \in Asked, how \in ToARendering \cup {"saving"}, n \in DOMAIN Panels :
          ContactSheet(objs, n, how)
     \/ \E how \in ToARendering : Hazy(how) \/ \E op \in {"camera", "cinematic"} : Placed(op, how)
     \/ \E how \in ToARendering \cup {"saving"} :
          \/ \E objs \in Families, normals \in BOOLEAN : Impostor(objs, normals, how)
          \/ \E objs \in Families \cup {<<>>}, views \in 1 .. 2 : Sprite(objs, views, how)

RigSpec == RigInit /\ [][RigNext]_rigVars

-----------------------------------------------------------------------------
RigTypeOK ==
  /\ hidden \subseteq Meshes /\ left \subseteq LightAndCamera \cup {"haze"}
  /\ camera \in {"own", "rig", "none"} /\ lamps \subseteq Lamps

\* ops/render.py _hide_others: a picture of named objects shows nothing else, and every
\* one of them that is not hidden.
OnlyWhatIsAsked ==
  heard.op # "ready" /\ heard.of # <<>> => heard.seen \subseteq Among(heard.of)

\* Their meshes are their own: nothing else asked for has the same.
Apart(objs, d) == \A i, j \in OfData(objs, d) : i = j

\* The `finally` of every render: an operation that came to its rendering leaves no rig of
\* its own, and whoever was shown or hidden is, but for a contact sheet that failed; what
\* bears a mesh of its own bears its materials again, and a sprite leaves the settings.
LeavesTheMaster ==
  heard'.how # "path" /\ pictures' # pictures =>
    LET objs == IF heard'.of = <<>> THEN Master ELSE heard'.of
    IN /\ left' \subseteq left
       /\ heard'.op # "sheet" \/ heard'.how # "rendering" => hidden' = hidden
       /\ \A d \in DOMAIN slots : Apart(objs, d) => slots'[d] = slots[d]
       /\ heard'.op = "sprite" => settings' = settings

\* README.md:306-307 of bforge "a successful single-view rerender removes stale JSON": the
\* sidecar beside a sprite or an impostor is that picture's, or none.
SidecarsDescribe ==
  heard'.op \in {"sprite", "impostor"} /\ heard'.how = "well" /\ pictures' # pictures =>
    page'.sidecar \in {0, page'.picture}
=============================================================================
