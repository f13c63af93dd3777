--------------------------- MODULE MCRecipeStore ---------------------------
(***************************************************************************)
(* Three processes and two addresses; the recipe of the second writes      *)
(* down a requirement that demands nothing.                                *)
(***************************************************************************)
EXTENDS RecipeStore, TLC

CONSTANTS a, b, c, k, j

ThreeCooks == {a, b, c}
\* Two of the builds are byte-identical, the third is not.
SomeBytes == [x \in ThreeCooks |-> IF x = c THEN "other" ELSE "same"]

Asked(key, noCache, allowUnpinned, blender) ==
  [key |-> key, noCache |-> noCache, allowUnpinned |-> allowUnpinned, blender |-> blender]

Plain  == Asked(k, FALSE, FALSE, "pinned")
Forced == Asked(k, TRUE, FALSE, "pinned")      \* --no-cache
Stray  == Asked(k, FALSE, FALSE, "other")      \* another Blender, refused
Loose  == Asked(k, FALSE, TRUE, "other")       \* another Blender, --allow-unpinned
Other  == Asked(j, FALSE, FALSE, "pinned")     \* another recipe

\* Three cooks of one address, and the others among them.
SomeJobs ==
  {a :> Plain @@ b :> Plain @@ c :> Plain, a :> Plain @@ b :> Forced @@ c :> Plain,
   a :> Plain @@ b :> Other @@ c :> Loose, a :> Plain @@ b :> Loose @@ c :> Stray}

Demands == [key \in {k, j} |-> IF key = k THEN "on" ELSE "off"]

\* recipe.py:399: "unverifiable or tampered entries fall through to a rebuild": no
\* cook fails because of what it found under its address.
TamperedEntriesRebuilt == \A x \in Cooks : cause[x] # "unreadable"
=============================================================================
