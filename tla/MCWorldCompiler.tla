-------------------------- MODULE MCWorldCompiler ---------------------------
(***************************************************************************)
(* Two processes; two entity documents share an asset, and a third breaks  *)
(* its contract.                                                           *)
(***************************************************************************)
EXTENDS WorldCompiler, TLC

CONSTANTS smith, mason, arch, wall, hut, iron, clay, siege, truce, riot, maze

SomeRecipes == arch :> iron @@ wall :> iron @@ hut :> clay
SomeVerdicts == siege :> "passes" @@ truce :> "mismatch" @@ riot :> "breaks" @@ maze :> "unprovable"

Compile(docs, world, noCache) == [docs |-> docs, world |-> world, noCache |-> noCache]

One == Compile(<<arch>>, NoScenario, FALSE)

\* The same world twice; a document of the other's world; one document twice, beside a
\* forced compile; worlds that fail, and an entity that does.
SomeJobs ==
  {smith :> Compile(<<arch>>, siege, FALSE) @@ mason :> Compile(<<arch>>, siege, FALSE),
   smith :> Compile(<<wall, arch>>, siege, FALSE) @@ mason :> One,
   smith :> Compile(<<arch, arch>>, siege, TRUE) @@ mason :> One,
   smith :> Compile(<<arch>>, riot, FALSE) @@ mason :> Compile(<<arch>>, truce, FALSE),
   smith :> Compile(<<wall>>, maze, FALSE) @@ mason :> Compile(<<hut>>, NoScenario, TRUE)}

\* One process compiles a document twice.
Recompile == {smith :> Compile(<<arch, arch>>, NoScenario, FALSE)}

\* docs/specs/world-ir-v0.1.md:120: "a cache hit re-validates the full proof identity
\* [...] an edited check verdict invalidates the entry": no compile returns an entry
\* whose recorded checks are not the ones that were computed.
EditedVerdictsInvalidate ==
  \A c \in Calls : answer[c] # Empty => answer[c].proof.kind # "restated"
=============================================================================
