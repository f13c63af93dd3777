------------------------------ MODULE MCTools -------------------------------
(***************************************************************************)
(* The instance for TLC of the tools around the game: the session of an    *)
(* agent with Blender, the scene that session builds, the engine's sources *)
(* and templates, and Godot's host of the kernel.  They share no state, so *)
(* each behaviour is one of one part, and the others stay where they are.  *)
(***************************************************************************)
EXTENDS ForgeDaemon, SceneOps, ReviewRig, MaterialDesk, EngineSource, KernelHost

VARIABLE part

toolsVars == <<part, vars, sceneVars, rigVars, deskVars, engineVars, hostVars>>
Parts == {"forge", "scene", "rig", "desk", "engine", "host"}

Batch(operations, keepGoing) == [kind |-> "batch", ops |-> operations, keepGoing |-> keepGoing]
Built == Batch(<<"build">>, FALSE)

\* An asset built in one round trip and inspected, whether or not an error stops it; a
\* session with a restart, and one with a stop.
SomeScripts ==
  {<<Batch(<<ResetOp, "build", "build">>, FALSE), Built>>, <<Batch(<<ResetOp, "build">>, TRUE), Built>>}
    \cup {<<Built, [kind |-> kind], Built>> : kind \in {"restart", "stop"}}

\* A good name and one that is not; a label that shares another's file; a map that is
\* well and one with a name that is not there.
SomeWanted   == {<<"rock">>, <<"Big">>}
SomeForeign  == {<<"Cart">>}
SomePrefixes == {<<>>, <<"set_">>}
SomeFiles    == [A |-> "a", a |-> "a"]
SomeRenames  ==
  LET good == << <<"rock">>, <<"Rock">> >>  typo == << <<"rokc">>, <<"Rock">> >>
  IN {<<good>>, <<good, typo>>}
SomeNumbers == <<"_1", "_2", "_3">>
SomeDots    == <<".001", ".002", ".003">>
Slugs ==
  [token \in {"-col", "-convcol", ".001", ".002", ".003", "Big", "Cart"} |->
     CASE token = "-col" -> "_col"   [] token = "-convcol" -> "_convcol"
       [] token = ".001" -> "_001"   [] token = ".002" -> "_002" [] token = ".003" -> "_003"
       [] token = "Big"  -> "big"    [] token = "Cart" -> "cart"]

\* Two instances of one mesh, and the hull of their collision, whose proxy may be hidden.
SomeMaster == <<"gate", "gate2", "hull">>
SomeData   == [o \in {"gate", "gate2", "hull"} |-> IF o = "hull" THEN "hull" ELSE "gate"]
SomeAsked  == {<<>>, <<"gate">>, <<"hull">>, <<"gate", "hull">>, <<"gate", "gate2">>, <<"hull", "hull">>}
SomePanels == <<"hero", "wireframe", "checker">>

\* A tiling material has the name of one that is set; an import whose neighbours in a row
\* look alike and whose ends do not.
SomeThings  == <<"gate", "tower">>
SomeCalled  == {<<"m_a">>, <<"m_stone">>}
SomeImports == {<<>>, <<0, 1, 2, 3>>}
SomeTile    == [stone |-> <<"m_stone">>]
SomeSource  == [stone |-> <<"m_tileable_stone">>]
SomeRank ==
  LET length == [m_a |-> 3, shade |-> 5, m_stone |-> 7, m_tileable_stone |-> 16]
      letters == [m_a |-> 1, m_stone |-> 2, m_tileable_stone |-> 3, shade |-> 4]
      marks == {<<>>} \cup ({"_", "."} \X (1 .. 4))
  IN [n \in {<<b>> \o m : b \in DOMAIN length, m \in marks} |->
        100 * (length[n[1]] + (IF Len(n) = 1 THEN 0 ELSE IF n[2] = "_" THEN 2 ELSE 4))
          + 10 * letters[n[1]] + (IF Len(n) = 1 THEN 0 ELSE n[3])]

\* Two shells over one checkout: who builds the engine, and who records or exports while
\* the first is at it.
SomeCommands ==
  [dev |-> {"fetch", "build", "rebase"}, other |-> {"fetch", "record", "export"}]
SomeBases  == <<"b1", "b1">>
SomeSeries == << <<"p", "q">>, <<"p", "r">> >>
SomePorts  == <<"e1", "e2">>

ToolsInit ==
  /\ part \in Parts
  /\ Init /\ SceneInit /\ RigInit /\ MaterialsInit /\ EngineInit /\ HostInit
  /\ part # "rig" => hidden = {}
  /\ part # "desk" => materials = [name \in {} |-> Plain(Grey)]
  /\ part # "forge" => script = <<Built, [kind |-> "stop"], Built>>

\* A step of one part.
OfForge(A)  == part = "forge"  /\ A /\ UNCHANGED <<part, sceneVars, rigVars, deskVars, engineVars, hostVars>>
OfScene(A)  == part = "scene"  /\ A /\ UNCHANGED <<part, vars, rigVars, deskVars, engineVars, hostVars>>
OfRig(A)    == part = "rig"    /\ A /\ UNCHANGED <<part, vars, sceneVars, deskVars, engineVars, hostVars>>
OfDesk(A)   == part = "desk"   /\ A /\ UNCHANGED <<part, vars, sceneVars, rigVars, engineVars, hostVars>>
OfEngine(A) == part = "engine" /\ A /\ UNCHANGED <<part, vars, sceneVars, rigVars, deskVars, hostVars>>
OfHost(A)   == part = "host"   /\ A /\ UNCHANGED <<part, vars, sceneVars, rigVars, deskVars, engineVars>>

ToolsNext ==
  \/ OfForge(Next) \/ OfScene(SceneNext) \/ OfRig(RigNext) \/ OfDesk(MaterialsNext)
  \/ OfEngine(EngineNext) \/ OfHost(HostNext)

\* The fairness of each part, owed only to the part that runs.
ToolsFairness ==
  /\ WF_vars(part = "forge" /\ ClientStep)
  /\ WF_vars(part = "forge" /\ \E i \in DOMAIN processes : DaemonStep(i))
  /\ \A k \in Kernels : WF_hostVars(part = "host" /\ Frame(k))

ToolsSpec == ToolsInit /\ [][ToolsNext]_toolsVars /\ ToolsFairness

\* What the session's wedge needs, the host's promise, the scene's and its pictures'.
ToolsSafe == WedgeNeedsTimeouts /\ HostSafe /\ SceneSafe /\ RigTypeOK /\ OnlyWhatIsAsked /\ SlotsHold

\* What operations on the scene keep, and the ones that picture it or dress it.
StudioKeeps ==
  [][/\ RestoreExact /\ JoinAsAsked /\ ExportLeavesMaster
     /\ LeavesTheMaster /\ SidecarsDescribe
     /\ OthersStay /\ MergesAlike]_<<sceneVars, rigVars, deskVars>>

\* Every command of an agent ends, and every wait for a kernel.
ToolsEnd == (part = "forge" => CommandsEnd) /\ WaitsForKernelEnd
=============================================================================
