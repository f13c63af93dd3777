---------------------------- MODULE MaterialDesk ----------------------------
(***************************************************************************)
(* The materials of a bforge scene (bforge/runtime/lib/mat.py and          *)
(* ops/material.py): made anew or found by name, put into the slots of     *)
(* meshes, baked from node graphs into maps, and merged where they look    *)
(* alike.  Materials and the settings of a bake are shared by everything   *)
(* in the scene and outlive the operation that touched them.               *)
(*                                                                         *)
(* An appearance is a whole number, and two are alike within Tolerance.    *)
(* A name is a sequence: <<"m_stone", "_", 2>> is m_stone_2.               *)
(***************************************************************************)
EXTENDS Integers, Sequences, FiniteSets

CONSTANTS
  Things,     \* the mesh objects, each with a mesh of its own, in their order
  Called,     \* the names materials are given
  TileName,     \* stem -> the name of its tiling material; SwatchName[stem] that of its swatch
  SwatchName,
  Imports,    \* the appearances of imported materials, which the first object wears
  Colours,    \* the appearances asked for
  Grey,       \* that of a new material's shader
  Tolerance,  \* of a merge
  Rank,       \* name -> its place, by length and then by letters
  NoMap,      \* in place of the object a map was baked from
  MaxChanges  \* a bound

\* What Blender calls the materials of an import, and what a name becomes when it is taken.
Imported(n) == IF n = 1 THEN <<"shade">> ELSE <<"shade", ".", n - 1>>
Marked(name) ==
  {name \o <<"_", k>> : k \in 2 .. MaxChanges + 1} \cup {name \o <<".", k>> : k \in 1 .. MaxChanges}

ImportedNames == UNION {{Imported(n) : n \in DOMAIN looks} : looks \in Imports}
GivenNames == Called \cup {TileName[s] : s \in DOMAIN TileName} \cup {SwatchName[s] : s \in DOMAIN TileName}
AllNames == ImportedNames \cup GivenNames \cup UNION {Marked(n) : n \in GivenNames}

\* An import's names are Blender's own, and none that is given or made of one.
ASSUME NamesAreApart ==
  /\ MaxChanges \in Nat
  /\ \A name \in GivenNames :
       /\ name \in Seq({name[i] : i \in DOMAIN name})
       /\ ({name} \cup Marked(name)) \cap ImportedNames = {}
  /\ \A name \in AllNames : Rank[name] \in Nat

ASSUME LooksAreNumbers ==
  /\ Tolerance \in Nat /\ Grey \in Int /\ Colours \subseteq Int
  /\ \A looks \in Imports : looks \in Seq(Int)
  /\ Things \in Seq({Things[i] : i \in DOMAIN Things})

VARIABLES
  materials, \* name -> [colour, diffuse, graph, map, stray]
  worn,      \* object -> the names in its slots
  bake,      \* [selected, lit]: use_selected_to_active, and light in what a bake takes
  done,      \* the last operation
  changes

deskVars == <<materials, worn, bake, done, changes>>

Bodies == {Things[i] : i \in DOMAIN Things}

\* A plain Principled shader.
Plain(colour) == [colour |-> colour, diffuse |-> Grey, graph |-> FALSE, map |-> NoMap, stray |-> FALSE]

\* An imported object wears all that came with it, and the others the last.
MaterialsInit ==
  /\ \E looks \in Imports :
       /\ materials = [name \in {Imported(n) : n \in DOMAIN looks} |->
                         Plain(looks[CHOOSE n \in DOMAIN looks : Imported(n) = name])]
       /\ worn = [o \in Bodies |->
                           IF o = Things[1] THEN [n \in DOMAIN looks |-> Imported(n)]
                           ELSE [n \in 1 .. (IF looks = <<>> THEN 0 ELSE 1) |-> Imported(Len(looks))]]
  /\ bake = [selected |-> FALSE, lit |-> TRUE]
  /\ done = [op |-> "ready", on |-> NoMap, name |-> <<>>, asked |-> Grey]
  /\ changes = 0

-----------------------------------------------------------------------------
(* Names, and what they stand for. *)

\* _describes: a base colour that is linked is read from the viewport's.
Describes(m) == IF m.graph \/ m.map # NoMap THEN m.diffuse ELSE m.colour

\* bpy.data.materials.new.
FreeName(name) ==
  IF name \notin DOMAIN materials THEN name
  ELSE LET marked(k) == name \o <<".", k>>
           i == CHOOSE i \in 1 .. MaxChanges :
                  marked(i) \notin DOMAIN materials /\ \A j \in 1 .. i - 1 : marked(j) \in DOMAIN materials
       IN marked(i)

\* name, name_2, name_3 as far as they go.
Variants(name) == [k \in 1 .. MaxChanges + 1 |-> IF k = 1 THEN name ELSE name \o <<"_", k>>]

\* A mutant: the name decides.
FoundByName(name, colour) == name

\* principled: the first of the variants that looks as wanted, or the first that is free.
Principled(name, colour) ==
  LET variants == Variants(name)
      i == CHOOSE i \in DOMAIN variants :
             LET fits(k) == \/ variants[k] \notin DOMAIN materials
                            \/ Describes(materials[variants[k]]) = colour
             IN fits(i) /\ \A j \in 1 .. i - 1 : ~fits(j)
  IN variants[i]

WithMaterial(name, m) ==
  [n \in DOMAIN materials \cup {name} |-> IF n = name THEN m ELSE materials[n]]

Kept(name, colour) == IF name \in DOMAIN materials THEN materials[name] ELSE Plain(colour)

\* The first slot.
Assigned(o, name) == [worn EXCEPT ![o] = <<name>> \o (IF @ = <<>> THEN <<>> ELSE Tail(@))]
Only(o, name)     == [worn EXCEPT ![o] = <<name>>]

Does(op, o, name, colour) ==
  /\ changes' = changes + 1
  /\ done' = [op |-> op, on |-> o, name |-> name, asked |-> colour]

-----------------------------------------------------------------------------
(* Making and assigning. *)

\* material.set.
SetMaterial(o, wanted, colour) ==
  LET name == Principled(wanted, colour)
  IN /\ materials' = WithMaterial(name, Kept(name, colour))
     /\ worn' = Assigned(o, name) /\ UNCHANGED bake
     /\ Does("set", o, name, colour)

\* material.face_assign: in a slot of its own.
FaceAssign(o, wanted, colour) ==
  LET name == Principled(wanted, colour)
  IN /\ materials' = WithMaterial(name, Kept(name, colour))
     /\ worn' = [worn EXCEPT ![o] = IF \E i \in DOMAIN @ : @[i] = name THEN @ ELSE Append(@, name)]
     /\ UNCHANGED bake /\ Does("set", o, name, colour)

\* material.procedural, and material.pbr, which empties the slots and says what its
\* colour is.
Graph(o, wanted, colour, pbr) ==
  LET name == FreeName(wanted)
  IN /\ materials' = WithMaterial(name, [Plain(Grey) EXCEPT !.graph = TRUE, !.diffuse = IF pbr THEN colour ELSE @])
     /\ worn' = IF pbr THEN Only(o, name) ELSE Assigned(o, name)
     /\ UNCHANGED bake /\ Does("graph", o, name, colour)

\* material.tileable: a material of that name is taken for one already baked.
ReuseTile(o, stem) ==
  /\ TileName[stem] \in DOMAIN materials
  /\ worn' = Only(o, TileName[stem])
  /\ UNCHANGED <<materials, bake>> /\ Does("reuse", o, TileName[stem], Grey)

\* The swatch's material goes when its maps are there, and stays when a bake fails.
BakeTile(o, stem, reuse, ok) ==
  /\ ~(reuse /\ TileName[stem] \in DOMAIN materials)
  /\ bake' = [bake EXCEPT !.lit = FALSE]
  /\ LET name == FreeName(TileName[stem])  source == FreeName(SwatchName[stem])
     IN IF ok
        THEN /\ materials' = WithMaterial(name, [Plain(Grey) EXCEPT !.map = o])
             /\ worn' = Only(o, name) /\ Does("tile", o, name, Grey)
        ELSE /\ materials' = WithMaterial(source, [Plain(Grey) EXCEPT !.graph = TRUE, !.stray = TRUE])
             /\ UNCHANGED worn /\ Does("failed", o, source, Grey)

-----------------------------------------------------------------------------
(* Baking. *)

WornBy(o) == {worn[o][i] : i \in DOMAIN worn[o]}

\* The materials the object wears are remade, and the others stay.
Remade(o, made) == [n \in DOMAIN materials |-> IF n \in WornBy(o) THEN made[n] ELSE materials[n]]

\* An image node for the bake in each of them, which a bake that fails leaves.
Stray(o) == Remade(o, [n \in WornBy(o) |-> [materials[n] EXCEPT !.stray = TRUE]])

\* wire_pbr_set makes every node anew; rewire_baked removes the graph whatever was baked,
\* and only some maps have a socket; attach_baked_map adds to what is there.
Wired(o) ==
  Remade(o, [n \in WornBy(o) |-> [materials[n] EXCEPT !.graph = FALSE, !.map = o, !.colour = Grey, !.stray = FALSE]])
Stripped(o) ==
  Remade(o, [n \in WornBy(o) |-> [materials[n] EXCEPT !.graph = FALSE, !.stray = TRUE]])
Rewired(o) ==
  Remade(o, [n \in WornBy(o) |-> [materials[n] EXCEPT !.graph = FALSE, !.map = o, !.stray = TRUE]])

\* material.bake_pbr.
BakePbr(o, ok) ==
  /\ worn[o] # <<>>
  /\ bake' = [bake EXCEPT !.lit = FALSE]
  /\ materials' = IF ok THEN Wired(o) ELSE Stray(o)
  /\ UNCHANGED worn /\ Does("bake", o, <<>>, Grey)

\* material.bake of the base colour takes the light out of this bake and all later ones.
BakeOne(o, pass, rewire, ok) ==
  /\ worn[o] # <<>>
  /\ bake' = IF pass = "base_color" THEN [bake EXCEPT !.lit = FALSE] ELSE bake
  /\ materials' = IF ~ok \/ ~rewire       THEN Stray(o)
                  ELSE IF pass = "base_color" THEN Rewired(o)
                  ELSE Stripped(o)
  /\ UNCHANGED worn /\ Does("bake", o, <<>>, Grey)

\* A mutant: the mode is put back once the map is there.
PutBackWhenWell(ok) == IF ok THEN bake ELSE [bake EXCEPT !.selected = TRUE]

\* The `finally` of bake_detail.
BakePutBack(ok) == bake

\* material.bake_detail.
BakeDetail(o, ok) ==
  /\ worn[o] # <<>> /\ Cardinality(Bodies) > 1
  /\ bake' = BakePutBack(ok)
  /\ materials' = Stray(o)
  /\ UNCHANGED worn /\ Does("bake", o, <<>>, Grey)

-----------------------------------------------------------------------------
(* Merging. *)

\* _appearance: textures and graphs are not compared.
Comparable(name) == LET m == materials[name] IN ~m.graph /\ m.map = NoMap /\ ~m.stray

\* The materials worn, in the order of the objects and their slots.
Used(objs) ==
  LET all[i \in 0 .. Len(Things)] ==
        IF i = 0 THEN <<>>
        ELSE all[i - 1] \o (IF Things[i] \in objs THEN worn[Things[i]] ELSE <<>>)
  IN all[Len(Things)]

Alike(n, k) ==
  LET a == materials[n].colour  b == materials[k].colour
  IN a - b <= Tolerance /\ b - a <= Tolerance

\* A mutant: alike to any member is enough.
AnyMember(group, name) == \E i \in DOMAIN group : Alike(group[i], name)

\* _close, to the group's first member.
Joins(group, name) == Alike(group[1], name)

\* The groups that have the name among their members.
Having(groups, name) == {g \in DOMAIN groups : \E i \in DOMAIN groups[g] : groups[g][i] = name}

\* Each name once, into the first group it fits, or one of its own.
Groups(objs) ==
  LET names == Used(objs)
      upto[i \in 0 .. Len(names)] ==
        IF i = 0 THEN <<>>
        ELSE LET groups == upto[i - 1]
                 fit    == {g \in DOMAIN groups : Joins(groups[g], names[i])}
                 first  == CHOOSE g \in fit : \A h \in fit : g <= h
             IN IF ~Comparable(names[i]) \/ Having(groups, names[i]) # {} THEN groups
                ELSE IF fit = {} THEN Append(groups, <<names[i]>>)
                ELSE [groups EXCEPT ![first] = Append(@, names[i])]
  IN upto[Len(names)]

\* The shortest name of its group.
Keeper(groups, name) ==
  LET members == UNION {{groups[g][i] : i \in DOMAIN groups[g]} : g \in Having(groups, name)}
  IN IF members = {} THEN name ELSE CHOOSE n \in members : \A k \in members : Rank[n] <= Rank[k]

\* A mutant: what was merged is dropped, whoever else wears it.
DropMerged(merged, then) == merged

\* Dropped without users only.
Dropped(merged, then) == {n \in merged : \A o \in Bodies : \A i \in DOMAIN then[o] : then[o][i] # n}

\* material.consolidate.
Consolidate(objs, dry) ==
  LET groups == Groups(objs)
      keeper == [n \in UNION {WornBy(o) : o \in objs} |-> Keeper(groups, n)]
      then == [o \in Bodies |-> IF o \in objs THEN [i \in DOMAIN worn[o] |-> keeper[worn[o][i]]] ELSE worn[o]]
      gone == Dropped({n \in DOMAIN keeper : keeper[n] # n}, then)
  IN /\ IF dry THEN UNCHANGED <<materials, worn>>
        ELSE worn' = then /\ materials' = [n \in DOMAIN materials \ gone |-> materials[n]]
     /\ UNCHANGED bake /\ Does("consolidate", NoMap, <<>>, Grey)

-----------------------------------------------------------------------------
Make(o) ==
  \/ \E name \in Called, colour \in Colours :
       \/ SetMaterial(o, name, colour) \/ FaceAssign(o, name, colour)
       \/ \E pbr \in BOOLEAN : Graph(o, name, colour, pbr)
  \/ \E stem \in DOMAIN TileName :
       ReuseTile(o, stem) \/ \E reuse, ok \in BOOLEAN : BakeTile(o, stem, reuse, ok)

Bake(o) ==
  \E ok \in BOOLEAN :
    \/ BakePbr(o, ok) \/ BakeDetail(o, ok)
    \/ \E pass \in {"base_color", "combined"}, rewire \in BOOLEAN : BakeOne(o, pass, rewire, ok)

MaterialsNext ==
  /\ changes < MaxChanges
  /\ \/ \E o \in Bodies : Make(o) \/ Bake(o)
     \/ \E objs \in SUBSET Bodies \ {{}}, dry \in BOOLEAN : Consolidate(objs, dry)

MaterialsSpec == MaterialsInit /\ [][MaterialsNext]_deskVars

-----------------------------------------------------------------------------
\* ops/material.py material_consolidate: whatever is merged and dropped, what is worn is
\* there.  lib/mat.py:1203 "Leaving use_selected_to_active on would silently corrupt every
\* later bake_material call": it never stays on.
SlotsHold ==
  /\ \A o \in Bodies : WornBy(o) \subseteq DOMAIN materials
  /\ ~bake.selected

\* lib/mat.py:117 "Returning the cached one silently hands back the WRONG colour": what is
\* assigned describes itself as asked, and whatever is made or baked for one object, no
\* other looks different, unless it wears a material that is baked.
OthersStay ==
  LET o == done'.on
  IN changes' # changes /\ done'.op # "consolidate" =>
       /\ done'.op = "set" => Describes(materials'[done'.name]) = done'.asked
       /\ \A p \in Bodies \ {o} :
            /\ worn'[p] = worn[p]
            /\ done'.op # "bake" \/ WornBy(p) \cap WornBy(o) = {} =>
                 \A n \in WornBy(p) : materials'[n] = materials[n]

\* ops/material.py material_consolidate "without changing how anything looks": what is
\* merged is within the tolerance of one that both are compared with, and a texture or a
\* graph is never merged.
MergesAlike ==
  done'.op = "consolidate" /\ changes' # changes =>
    \A o \in Bodies : \A i \in DOMAIN worn[o] :
      LET was == worn[o][i]  is == worn'[o][i]
      IN was # is =>
           /\ Comparable(was) /\ Comparable(is)
           /\ materials[was].colour - materials[is].colour \in -2 * Tolerance .. 2 * Tolerance
=============================================================================
