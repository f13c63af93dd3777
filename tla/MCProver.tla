------------------------------ MODULE MCProver ------------------------------
(***************************************************************************)
(* The prover on every graph of three worlds with a wait and one verb the  *)
(* kernel may refuse, under small horizons and budgets, and every claim;   *)
(* and on graphs of five worlds where one world is met along two paths.    *)
(***************************************************************************)
EXTENDS Prover

CONSTANTS a, b, c, d, e

Three == {a, b, c}
Five  == {a, b, c, d, e}

Graphs == [Three -> {<<w, v>> : w \in Three, v \in Three \cup {NoWorld}}]

\* Horizon and budget: one that never cuts, horizons that do, budgets that do.
Bounds == {<<4, 5>>, <<1, 5>>, <<2, 5>>, <<4, 1>>, <<4, 2>>}

GraphIds == [graph : Graphs, bound : Bounds]

-----------------------------------------------------------------------------
(* The root leads to b and c; every other world waits in place and has one *)
(* verb that leads anywhere.                                               *)

Forks ==
  {[w \in Five |-> IF w = a THEN <<b, c>> ELSE <<w, verb[w]>>] :
     verb \in [Five \ {a} -> Five \cup {NoWorld}]}

ForkIds == [graph : Forks, bound : {<<5, 9>>, <<2, 9>>, <<5, 4>>}]

-----------------------------------------------------------------------------
(* Prover's constants. *)

GraphProblem(id) ==
  [root |-> a, moves |-> 2, horizon |-> id.bound[1], budget |-> id.bound[2]]

GraphProblems       == [id \in GraphIds |-> GraphProblem(id)]
SearchProblems      == [id \in GraphIds \cup ForkIds |-> GraphProblem(id)]
GraphWorlds(id)     == DOMAIN id.graph
GraphStep(id, w, m) == id.graph[w][m]

AllClaims == [kind : Kinds, goal : SUBSET Three \cup {{d}, {e}, {a, e}}]

-----------------------------------------------------------------------------
\* ADR 0022:109: "a soft-lock is reported only for a state whose entire
\* explored future is goal-free and contains no open node": whatever cut the
\* search short, the goal is out of reach for ever from a lock `live` names.
LocksAreReal ==
  phase = "done" => \A claim \in Claims :
    claim.kind = "live" /\ results[claim].witness # 0
      => ~CanReach(keys[results[claim].witness], claim.goal)
=============================================================================
