------------------------------ MODULE MCWorldc ------------------------------
(***************************************************************************)
(* worldc for TLC: the compilers over the stores, the prover on worlds of  *)
(* the kernel, and the two kernels' loaders of the replays worldc writes.  *)
(* A scenario's verdict is all that a compiler takes from the prover, so   *)
(* each behaviour is one of one part, and the others stay in one of their  *)
(* initial states.                                                         *)
(***************************************************************************)
EXTENDS MCWorldCompiler, WorldProver, SampleContracts, ReplayText

-----------------------------------------------------------------------------
(* The prover's small worlds, in the kernel's own tick: a door alone, with *)
(* and without the variables its verbs require, and a lever, a gate and a  *)
(* lamp coupled by wires.                                                  *)

Bounds == {<<9, 200>>, <<2, 200>>, <<9, 7>>}

NoHealth == [openness |-> "int", destroyed |-> "bool"]

DoorProject(id) ==
  [contracts |-> [gate |-> Door(id.schema)], initial |-> <<>>, wires |-> <<>>,
   amounts |-> id.amounts, horizon |-> id.bound[1], budget |-> id.bound[2]]

DoorProjects ==
  [id \in [schema : {FullDoor, NoHealth}, amounts : {{}, {1}}, bound : Bounds] |-> DoorProject(id)]

WiredProject(id) ==
  [contracts |-> [lever |-> Lever, gate |-> Door(FullDoor), lamp |-> Lamp],
   initial |-> [gate |-> Fresh], wires |-> id.wires,
   amounts |-> {}, horizon |-> id.bound[1], budget |-> id.bound[2]]

WiredProjects ==
  [id \in [wires : {<<>>, ChainWires}, bound : {<<3, 40>>, <<9, 12>>}] |-> WiredProject(id)]

WorldProjects == DoorProjects @@ WiredProjects

\* Prover's constants, from the projects.
ProjectProblems == [id \in DOMAIN WorldProjects |-> ProblemOf(WorldProjects[id])]

RECURSIVE WorldsFrom(_, _, _)
WorldsFrom(project, met, latest) ==
  LET moves == MovesOf(project)
      fresh == {Step(project, w, moves[m]) : w \in latest, m \in DOMAIN moves} \ (met \cup {NoWorld})
  IN IF fresh = {} THEN met ELSE WorldsFrom(project, met \cup fresh, fresh)

WorldsOf(project) == WorldsFrom(project, {RootWorld(project)}, {RootWorld(project)})

ProjectWorlds(id)     == WorldsOf(Projects[id])
ProjectStep(id, w, m) == Step(Projects[id], w, MovesOf(Projects[id])[m])

AllWorlds == UNION {WorldsOf(WorldProjects[id]) : id \in DOMAIN WorldProjects}

GateIs(name, test, value) == When("gate", "var", name, test, value)

WorldClaims ==
  LET all == AllWorlds
      claimed(kind, when) == [kind |-> kind, goal |-> GoalOf(when, all)]
  IN {claimed("reachable", GateIs("openness", "equals", IntV(Quantum))),
      claimed("never", GateIs("destroyed", "equals", BoolV(TRUE))),
      claimed("live", GateIs("openness", "equals", IntV(0))),
      claimed("live", GateIs("destroyed", "equals", BoolV(FALSE))),
      claimed("reachable", When("lamp", "var", "lit", "equals", BoolV(TRUE))
                             \o GateIs("openness", "equals", IntV(0)))}

-----------------------------------------------------------------------------
(* The three parts together. *)

VARIABLE part

worldcVars == <<part, compilerVars, vars, loaderVars>>

\* A file with nothing wrong, with one thing wrong, and with two in one entity or in two,
\* of which the second is one of each code.
GoodFile == [order |-> <<1>>, text |-> "good", faults |-> [at \in {} |-> "absent"]]
SomeFiles ==
  LET rows == PyRows(<<1>>)
      all  == {row.at : row \in ToSet(rows \o RustRows(<<1>>))}
      one  == Telling(rows)
      Code(f) == FirstRefusal(rows, f[1] :> f[2])
      few  == {CHOOSE f \in one : Code(f) = c : c \in {Code(f) : f \in one}}
      texts == {"good", "says NaN", "deep", "1e400", "NaN", "not UTF-8", "broken", "broken, then NaN"}
  IN {[GoodFile EXCEPT !.text = t] : t \in texts}
     \cup {[GoodFile EXCEPT !.faults = f[1] :> f[2]] :
             f \in {g \in all \X (JsonKinds \cup {"other hash", "letters"}) : Possible(g[1][2], g[2])}}
     \cup {[GoodFile EXCEPT !.faults = f[1][1] :> f[1][2] @@ f[2][1] :> f[2][2]] :
             f \in {g \in one \X few : g[1][1] # g[2][1]}}
     \cup {[GoodFile EXCEPT !.order = <<2, 1>>,
                            !.faults = f[1][1] :> f[1][2] @@ <<2, f[2][1][2]>> :> f[2][2]] :
             f \in {g \in one \X few : g[1][1][1] = 1 /\ g[2][1][1] = 1}}

\* The gaps are gaps: each of them, alone in a file, parts the kernels.
ASSUME GapsAreGaps == \A f \in SomeFiles : GapsPart(f)

WorldcInit ==
  /\ part \in {"compilers", "prover", "loaders"}
  /\ IF part = "compilers" THEN job \in Jobs ELSE job = (CHOOSE jobs \in Jobs : TRUE)
  /\ IF part = "prover" THEN problem \in DOMAIN Problems ELSE problem = (CHOOSE id \in DOMAIN Problems : TRUE)
  /\ CompilerInit /\ Init
  /\ IF part = "loaders" THEN document \in Files ELSE document = GoodFile
  /\ verdict = [kernel \in {"python", "rust"} |-> Unread]

WorldcNext ==
  \/ part = "compilers" /\ CompilerNext /\ UNCHANGED <<part, vars, loaderVars>>
  \/ part = "prover" /\ Next /\ UNCHANGED <<part, compilerVars, loaderVars>>
  \/ part = "loaders" /\ LoaderNext /\ UNCHANGED <<part, compilerVars, vars>>

\* The compilers' fairness, owed only where they run.
WorldcSpec ==
  /\ WorldcInit
  /\ [][WorldcNext]_worldcVars
  /\ \A compiler \in Compilers :
       WF_compilerVars(part = "compilers" /\ CompilerStep(compiler))

\* CompilersEnd, where they run.
EveryCompileEnds == part = "compilers" => CompilersEnd
=============================================================================
