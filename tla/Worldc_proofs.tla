---------------------------- MODULE Worldc_proofs ----------------------------
(***************************************************************************)
(* Proofs about the world tools: the prover, the kernel it runs its worlds *)
(* in, and the compilers that keep its verdicts.                           *)
(*                                                                         *)
(* The prover, for every set of worlds, every problem over them and every  *)
(* claim: the explored graph is a tree of kernel steps, the search is      *)
(* breadth first, an exhaustive one has found exactly the reachable        *)
(* worlds, every witness replays, and the verdicts `reachable`, `never`    *)
(* and `live` are true.                                                    *)
(*                                                                         *)
(* The prover in the kernel, for every project: every world it meets is    *)
(* one the kernel keeps typed (Steady, a closed set of worlds), so no wire *)
(* of it fails; the file a witness is written out as is one the kernel     *)
(* loads and runs to that witness's world; and what the kernel refuses in  *)
(* the root it refuses in every world.                                     *)
(*                                                                         *)
(* The compilers over their stores, for any number of processes, documents *)
(* and worlds, kills and edits: the locks, the answers of compile_entity,  *)
(* and the chain from a world's proof down to the files that were checked. *)
(***************************************************************************)
EXTENDS WorldCompiler, WorldProver, KernelLemmas, FiniteSetTheorems

-----------------------------------------------------------------------------
(* What a problem gives.                                                   *)

LEMMA ProblemFacts ==
  ASSUME problem \in DOMAIN Problems
  PROVE  /\ Problem.root \in Worlds
         /\ Problem.moves \in Nat \ {0}
         /\ \A w \in Worlds : \A m \in Moves : StepOf(w, m) \in Worlds \cup {NoWorld}
         /\ NoWorld \notin Worlds
         /\ Problem.horizon \in Nat \ {0}
         /\ Problem.budget \in Nat \ {0}
  BY ProblemsAreGraphs DEF IsProblem, Problem, Moves, Worlds, StepOf

\* The problem does not change while it is searched.
LEMMA SameProblem ==
  ASSUME [Next]_vars
  PROVE  /\ problem' = problem /\ Problem' = Problem
         /\ Worlds' = Worlds /\ Moves' = Moves
         /\ \A w, m : StepOf(w, m)' = StepOf(w, m)
<1>1. problem' = problem
  BY DEF Next, TakeNode, RefusedMove, KnownWorld, NewWorld, BudgetSpent, Exhausted, Judge, vars
<1> QED BY <1>1 DEF Problem, Worlds, Moves, StepOf

\* A move the kernel takes leads to a world of the problem.
LEMMA StepFacts ==
  ASSUME TypeOK, node # 0
  PROVE  /\ node \in Nodes /\ next \in Moves
         /\ keys[node] \in Worlds
         /\ StepOf(keys[node], next) \in Worlds \cup {NoWorld}
<1>1. node \in Nodes /\ next \in Moves /\ keys[node] \in Worlds
  BY DEF TypeOK, Nodes
<1> QED BY <1>1, ProblemFacts DEF TypeOK

\* Appending keeps a sequence one, and keeps what it held.
LEMMA Appended ==
  ASSUME NEW S, NEW s \in Seq(S), NEW x \in S
  PROVE  /\ Append(s, x) \in Seq(S)
         /\ Len(Append(s, x)) = Len(s) + 1
         /\ \A i \in 1 .. Len(s) : Append(s, x)[i] = s[i]
         /\ Append(s, x)[Len(s) + 1] = x
  OBVIOUS

LEMMA Singleton ==
  ASSUME NEW S, NEW x \in S
  PROVE  <<x>> \in Seq(S) /\ Len(<<x>>) = 1 /\ <<x>>[1] = x
  OBVIOUS

LEMMA AfterMoveFacts ==
  ASSUME TypeOK, AfterMove, problem' = problem
  PROVE  next' \in Moves /\ node' \in {node, 0}
<1>1. Problem.moves \in Nat \ {0}
  BY ProblemFacts DEF TypeOK
<1> QED BY <1>1 DEF AfterMove, TypeOK, Moves, Wait

-----------------------------------------------------------------------------
(* The type invariant.                                                     *)

LEMMA InitTyped == Init => TypeOK
<1> SUFFICES ASSUME Init PROVE TypeOK
  OBVIOUS
<1>1. Problem.root \in Worlds /\ 1 \in Moves
  BY ProblemFacts DEF Init, Moves
<1>2. /\ keys \in Seq(Worlds) /\ Len(keys) = 1
      /\ parent \in Seq(Nat) /\ Len(parent) = 1
      /\ move \in Seq(Nat) /\ Len(move) = 1
      /\ depth \in Seq(Nat) /\ Len(depth) = 1
  BY <1>1, Singleton DEF Init
<1>3. successors \in Seq(SUBSET Nat) /\ Len(successors) = 1 /\ successors[1] = {}
  <2>1. {} \in SUBSET Nat
    OBVIOUS
  <2> QED BY <2>1, Singleton DEF Init
<1>4. Nodes = {1}
  BY <1>2 DEF Nodes
<1>5. queue \in Seq(Nodes)
  BY <1>4, Singleton DEF Init
<1>6. \A n \in Nodes : successors[n] \subseteq Nodes
  BY <1>3, <1>4
<1>7. open \subseteq Nodes /\ node \in Nodes \cup {0} /\ next \in Moves
  BY <1>1 DEF Init, Wait
<1>8. problem \in DOMAIN Problems /\ phase = "explore" /\ budgetHit = FALSE
  BY DEF Init
<1>9. /\ Len(keys) >= 1 /\ Len(parent) = Len(keys) /\ Len(move) = Len(keys)
      /\ Len(depth) = Len(keys) /\ Len(successors) = Len(keys)
  BY <1>2, <1>3
<1>10. phase \in {"explore", "judge", "done"} /\ budgetHit \in BOOLEAN
  BY <1>8
<1>11. keys \in Seq(Worlds) /\ parent \in Seq(Nat) /\ move \in Seq(Nat) /\ depth \in Seq(Nat)
  BY <1>2
<1>12. successors \in Seq(SUBSET Nat)
  BY <1>3
<1> QED BY <1>5, <1>6, <1>7, <1>8, <1>9, <1>10, <1>11, <1>12, Zenon DEF TypeOK

LEMMA NextTyped == TypeOK /\ [Next]_vars => TypeOK'
<1> SUFFICES ASSUME TypeOK, [Next]_vars PROVE TypeOK'
  OBVIOUS
<1>0. 1 \in Moves
  BY ProblemFacts DEF TypeOK, Moves
<1>9. problem' = problem /\ Worlds' = Worlds /\ Moves' = Moves
  BY SameProblem
<1>1. CASE TakeNode
  <2>1. queue \in Seq(Nodes) /\ Head(queue) \in Nodes /\ Tail(queue) \in Seq(Nodes)
    BY <1>1 DEF TakeNode, TypeOK
  <2> QED BY <1>0, <1>9, <1>1, <2>1 DEF TakeNode, TypeOK, Nodes, Wait
<1>2. CASE RefusedMove
  <2>1. next' \in Moves /\ node' \in {node, 0}
    BY <1>2, AfterMoveFacts DEF RefusedMove
  <2> QED BY <1>9, <1>2, <2>1 DEF RefusedMove, TypeOK, Nodes
<1>3. CASE KnownWorld
  <2>1. next' \in Moves /\ node' \in {node, 0}
    BY <1>3, AfterMoveFacts DEF KnownWorld
  <2>2. PICK child \in Nodes : successors' = [successors EXCEPT ![node] = @ \cup {child}]
    BY <1>3 DEF KnownWorld
  <2>3. node \in 1 .. Len(successors) /\ child \in Nat
    BY <1>3 DEF KnownWorld, TypeOK, Nodes
  <2>4. successors[node] \in SUBSET Nat
    BY <2>3, SMTT(30), ZenonT(30) DEF TypeOK
  <2>5. successors' \in Seq(SUBSET Nat) /\ Len(successors') = Len(successors)
    BY <2>2, <2>3, <2>4 DEF TypeOK
  <2>6. \A n \in Nodes : successors'[n] \subseteq Nodes
    <3> SUFFICES ASSUME NEW n \in Nodes PROVE successors'[n] \subseteq Nodes
      OBVIOUS
    <3>1. successors[n] \subseteq Nodes /\ DOMAIN successors = Nodes
      BY SMTT(30), ZenonT(30) DEF TypeOK, Nodes
    <3>2. successors'[n] = IF n = node THEN successors[n] \cup {child} ELSE successors[n]
      BY <2>2, <3>1
    <3> QED BY <3>1, <3>2
  <2> QED BY <1>9, <1>3, <2>1, <2>5, <2>6 DEF KnownWorld, TypeOK, Nodes
<1>4. CASE NewWorld
  <2> DEFINE world == StepOf(keys[node], next)
             child == Len(keys) + 1
             edged == [successors EXCEPT ![node] = @ \cup {child}]
  <2>1. next' \in Moves /\ node' \in {node, 0}
    BY <1>4, AfterMoveFacts DEF NewWorld
  <2>2. world \in Worlds /\ node \in Nodes /\ child \in Nat /\ depth[node] + 1 \in Nat
    <3>1. node # 0 /\ world # NoWorld
      BY <1>4 DEF NewWorld, Unknown
    <3>2. world \in Worlds /\ node \in Nodes
      BY <3>1, StepFacts
    <3>3. child \in Nat /\ depth[node] \in Nat
      BY <3>2 DEF TypeOK, Nodes
    <3> QED BY <3>2, <3>3
  <2>3. edged \in Seq(SUBSET Nat) /\ Len(edged) = Len(keys)
    BY <2>2, SMTT(30), ZenonT(30) DEF TypeOK, Nodes
  <2>4. \A n \in Nodes : edged[n] \subseteq Nodes \cup {child}
    <3> SUFFICES ASSUME NEW n \in Nodes PROVE edged[n] \subseteq Nodes \cup {child}
      OBVIOUS
    <3>1. successors[n] \subseteq Nodes /\ DOMAIN successors = Nodes
      BY DEF TypeOK, Nodes
    <3>2. edged[n] = IF n = node THEN successors[n] \cup {child} ELSE successors[n]
      BY <3>1
    <3> HIDE DEF edged, child
    <3> QED BY <3>1, <3>2
  <2>5. /\ keys' = Append(keys, world) /\ parent' = Append(parent, node)
        /\ move' = Append(move, next) /\ depth' = Append(depth, depth[node] + 1)
        /\ successors' = Append(edged, {}) /\ queue' = Append(queue, child)
        /\ UNCHANGED <<problem, phase, open, budgetHit, results>>
    BY <1>4 DEF NewWorld
  <2>6. node \in Nat /\ next \in Nat /\ {} \in SUBSET Nat
    BY <2>2 DEF TypeOK, Moves, Nodes
  <2> HIDE DEF world, child, edged
  <2>7. keys' \in Seq(Worlds) /\ Len(keys') = Len(keys) + 1
    BY <2>2, <2>5, Appended DEF TypeOK
  <2>8a. parent' \in Seq(Nat) /\ Len(parent') = Len(keys) + 1
    <3>1. parent \in Seq(Nat) /\ Len(parent) = Len(keys)
      BY DEF TypeOK
    <3> QED BY <2>5, <2>6, <3>1, Appended
  <2>8b. move' \in Seq(Nat) /\ Len(move') = Len(keys) + 1
    <3>1. move \in Seq(Nat) /\ Len(move) = Len(keys)
      BY DEF TypeOK
    <3> QED BY <2>5, <2>6, <3>1, Appended
  <2>8c. depth' \in Seq(Nat) /\ Len(depth') = Len(keys) + 1
    <3>1. depth \in Seq(Nat) /\ Len(depth) = Len(keys)
      BY DEF TypeOK
    <3> QED BY <2>2, <2>5, <3>1, Appended
  <2>9. /\ successors' \in Seq(SUBSET Nat) /\ Len(successors') = Len(keys) + 1
        /\ \A n \in Nodes : successors'[n] = edged[n]
        /\ successors'[Len(keys) + 1] = {}
    BY <2>3, <2>5, <2>6, Appended DEF Nodes
  <2>10. Nodes' = Nodes \cup {child} /\ child = Len(keys) + 1
    BY <2>7 DEF Nodes, child, TypeOK
  <2>11. \A n \in Nodes' : successors'[n] \subseteq Nodes'
    BY <2>4, <2>9, <2>10
  <2>12. queue' \in Seq(Nodes')
    <3>1. queue \in Seq(Nodes \cup {child})
      BY DEF TypeOK
    <3> QED BY <2>5, <2>10, <3>1, Appended
  <2>13. Moves' = Moves /\ Worlds' = Worlds
    BY <1>9
  <2>14. open' \subseteq Nodes' /\ node' \in Nodes' \cup {0} /\ next' \in Moves'
    BY <2>1, <2>2, <2>5, <2>10, <2>13 DEF TypeOK
  <2>15. phase' \in {"explore", "judge", "done"} /\ problem' \in DOMAIN Problems
         /\ budgetHit' \in BOOLEAN
    BY <2>5 DEF TypeOK
  <2>16. Len(keys') >= 1 /\ Len(keys) \in Nat
    BY <2>7 DEF TypeOK
  <2> QED
    BY <2>7, <2>8a, <2>8b, <2>8c, <2>9, <2>11, <2>12, <2>13, <2>14, <2>15, <2>16 DEF TypeOK
<1>5. CASE BudgetSpent
  BY <1>0, <1>9, <1>5 DEF BudgetSpent, TypeOK, Nodes, Wait
<1>6. CASE Exhausted
  BY <1>9, <1>6 DEF Exhausted, TypeOK, Nodes
<1>7. CASE Judge
  BY <1>9, <1>7 DEF Judge, TypeOK, Nodes
<1>8. CASE UNCHANGED vars
  BY <1>9, <1>8 DEF vars, TypeOK, Nodes
<1> QED BY <1>1, <1>2, <1>3, <1>4, <1>5, <1>6, <1>7, <1>8 DEF Next

\* The type invariant, for every set of problems.
THEOREM TypeCorrect == Spec => []TypeOK
<1> QED BY InitTyped, NextTyped, PTL DEF Spec

-----------------------------------------------------------------------------
(* The graph is a tree of the kernel's steps.                              *)

\* What NewWorld does to the explored graph.
LEMMA NewWorldFacts ==
  ASSUME TypeOK, NewWorld
  PROVE  /\ node \in Nodes /\ next \in Moves
         /\ StepOf(keys[node], next) \in Worlds
         /\ Len(keys') = Len(keys) + 1 /\ Nodes' = Nodes \cup {Len(keys) + 1}
         /\ \A n \in Nodes : /\ keys'[n] = keys[n] /\ parent'[n] = parent[n]
                            /\ move'[n] = move[n] /\ depth'[n] = depth[n]
         /\ keys'[Len(keys) + 1] = StepOf(keys[node], next)
         /\ parent'[Len(keys) + 1] = node
         /\ move'[Len(keys) + 1] = next
         /\ depth'[Len(keys) + 1] = depth[node] + 1
         /\ Explored' = Explored \cup {StepOf(keys[node], next)}
<1> DEFINE world == StepOf(keys[node], next)
<1>1. node \in Nodes /\ next \in Moves /\ world \in Worlds
  BY StepFacts DEF NewWorld, Unknown
<1>2. /\ keys' = Append(keys, world) /\ parent' = Append(parent, node)
      /\ move' = Append(move, next) /\ depth' = Append(depth, depth[node] + 1)
  BY DEF NewWorld
<1>3. node \in Nat /\ next \in Nat /\ depth[node] + 1 \in Nat /\ Len(keys) \in Nat
  BY <1>1, SMTT(30), ZenonT(30) DEF Nodes, Moves, TypeOK
<1>4. /\ keys \in Seq(Worlds)
      /\ parent \in Seq(Nat) /\ Len(parent) = Len(keys)
      /\ move \in Seq(Nat) /\ Len(move) = Len(keys)
      /\ depth \in Seq(Nat) /\ Len(depth) = Len(keys)
  BY DEF TypeOK
<1> HIDE DEF world
<1>5. /\ Len(keys') = Len(keys) + 1
      /\ \A n \in Nodes : keys'[n] = keys[n]
      /\ keys'[Len(keys) + 1] = world
  BY <1>1, <1>2, <1>4, Appended DEF Nodes
<1>6. /\ \A n \in Nodes : parent'[n] = parent[n]
      /\ parent'[Len(keys) + 1] = node
  BY <1>2, <1>3, <1>4, Appended, SMTT(30), ZenonT(30) DEF Nodes
<1>7. /\ \A n \in Nodes : move'[n] = move[n]
      /\ move'[Len(keys) + 1] = next
  BY <1>2, <1>3, <1>4, Appended, SMTT(30), ZenonT(30) DEF Nodes
<1>8. /\ \A n \in Nodes : depth'[n] = depth[n]
      /\ depth'[Len(keys) + 1] = depth[node] + 1
  BY <1>2, <1>3, <1>4, Appended, SMTT(30), ZenonT(30) DEF Nodes
<1>9. Nodes' = Nodes \cup {Len(keys) + 1}
  BY <1>3, <1>5 DEF Nodes
<1>10. Explored' = Explored \cup {world}
  BY <1>5, <1>9 DEF Explored
<1> QED BY <1>1, <1>5, <1>6, <1>7, <1>8, <1>9, <1>10 DEF world

\* And to its edges.
LEMMA NewWorldEdges ==
  ASSUME TypeOK, NewWorld
  PROVE  /\ \A n \in Nodes : successors'[n] = IF n = node THEN successors[n] \cup {Len(keys) + 1}
                                              ELSE successors[n]
         /\ successors'[Len(keys) + 1] = {}
<1> DEFINE child == Len(keys) + 1
           edged == [successors EXCEPT ![node] = @ \cup {child}]
<1>1. successors' = Append(edged, {})
  BY DEF NewWorld
<1>2. node \in Nodes /\ Len(keys) \in Nat /\ successors \in Seq(SUBSET Nat)
      /\ Len(successors) = Len(keys)
  BY NewWorldFacts DEF TypeOK
<1>3. edged \in Seq(SUBSET Nat) /\ Len(edged) = Len(keys)
  BY <1>2 DEF Nodes
<1>4. \A n \in Nodes : edged[n] = IF n = node THEN successors[n] \cup {child} ELSE successors[n]
  <2>1. DOMAIN successors = Nodes
    BY <1>2 DEF Nodes
  <2> HIDE DEF child
  <2> QED BY <2>1
<1>5. {} \in SUBSET Nat
  OBVIOUS
<1> HIDE DEF edged
<1>6. /\ \A n \in Nodes : successors'[n] = edged[n]
      /\ successors'[Len(keys) + 1] = {}
  BY <1>1, <1>3, <1>5, Appended DEF Nodes
<1> QED BY <1>4, <1>6

\* No other step touches the lists that make up the tree.
LEMMA TreeUntouched ==
  ASSUME TypeOK, [Next]_vars, ~NewWorld
  PROVE  UNCHANGED <<problem, keys, parent, move, depth>>
  BY DEF Next, TakeNode, RefusedMove, KnownWorld, BudgetSpent, Exhausted, Judge, vars

LEMMA InitTree == Init => TreeOfSteps
<1> SUFFICES ASSUME Init PROVE TreeOfSteps
  OBVIOUS
<1>1. keys[1] = Problem.root /\ depth[1] = 0
  BY DEF Init
<1>2. Nodes \ {1} = {}
  BY DEF Init, Nodes
<1> QED BY <1>1, <1>2 DEF TreeOfSteps

LEMMA NextTree == TypeOK /\ TreeOfSteps /\ [Next]_vars => TreeOfSteps'
<1> SUFFICES ASSUME TypeOK, TreeOfSteps, [Next]_vars PROVE TreeOfSteps'
  OBVIOUS
<1>1. CASE NewWorld
  <2>1. Problem' = Problem /\ Moves' = Moves /\ problem' = problem
    BY SameProblem
  <2>2. \A w, m : StepOf(w, m)' = StepOf(w, m)
    BY SameProblem
  <2>3. 1 \in Nodes /\ Len(keys) \in Nat
    BY DEF TypeOK, Nodes
  <2>4. keys'[1] = Problem'.root /\ depth'[1] = 0
    BY <1>1, <2>1, <2>3, NewWorldFacts DEF TreeOfSteps
  <2> SUFFICES ASSUME NEW n \in Nodes' \ {1}
               PROVE  /\ parent'[n] \in 1 .. (n - 1)
                      /\ move'[n] \in Moves
                      /\ keys'[n] = StepOf(keys'[parent'[n]], move'[n])
                      /\ depth'[n] = depth'[parent'[n]] + 1
    BY <2>1, <2>2, <2>4 DEF TreeOfSteps, StepOf
  <2>5. CASE n \in Nodes
    <3>1. /\ parent[n] \in 1 .. (n - 1) /\ move[n] \in Moves
          /\ keys[n] = StepOf(keys[parent[n]], move[n])
          /\ depth[n] = depth[parent[n]] + 1
      BY <2>5 DEF TreeOfSteps
    <3>2. parent[n] \in Nodes
      BY <2>3, <2>5, <3>1 DEF Nodes
    <3> QED BY <1>1, <2>5, <3>1, <3>2, NewWorldFacts
  <2>6. CASE n = Len(keys) + 1
    <3>1. node \in 1 .. (n - 1) /\ node \in Nodes
      BY <1>1, <2>3, <2>6, NewWorldFacts DEF Nodes
    <3> QED BY <1>1, <2>6, <3>1, NewWorldFacts
  <2> QED BY <1>1, <2>5, <2>6, NewWorldFacts
<1>2. CASE ~NewWorld
  BY <1>2, TreeUntouched DEF TreeOfSteps, Nodes, Moves, Problem, StepOf
<1> QED BY <1>1, <1>2

\* Every node but the root is one move of the kernel from its parent, found
\* before it: what the prover explores is what the game will run.
THEOREM ExploredIsATree == Spec => []TreeOfSteps
<1>1. Init => TypeOK /\ TreeOfSteps
  BY InitTyped, InitTree
<1>2. (TypeOK /\ TreeOfSteps) /\ [Next]_vars => (TypeOK /\ TreeOfSteps)'
  BY NextTyped, NextTree
<1> QED BY <1>1, <1>2, PTL DEF Spec

-----------------------------------------------------------------------------
(* An exhaustive search has found exactly the reachable worlds.            *)

Queued == {queue[i] : i \in 1 .. Len(queue)}

\* A move of a node has been tried: it is refused, or an edge stands for it.
Followed(n, m) ==
  \/ StepOf(keys[n], m) = NoWorld
  \/ \E child \in successors[n] : keys[child] = StepOf(keys[n], m)

Expanded(n) == \A m \in Moves : Followed(n, m)

\* While the budget lasts, every node is expanded, open, waiting in the queue,
\* or the one being expanded, and that one's moves are known up to `next`.
Frontier ==
  ~budgetHit =>
    /\ \A n \in Nodes : n \in open \/ n \in Queued \/ n = node \/ Expanded(n)
    /\ node # 0 => \A m \in 1 .. (next - 1) : Followed(node, m)

\* A search that ended left nothing waiting.
NothingWaits == phase # "explore" => node = 0 /\ queue = <<>>

\* Nothing unreachable is explored.
OnlyReachable ==
  \A S \in SUBSET Worlds : Problem.root \in S /\ Closed(S) => Explored \subseteq S

SearchInv == TypeOK /\ TreeOfSteps /\ Frontier /\ NothingWaits /\ OnlyReachable

LEMMA InitSearch == Init => SearchInv
<1> SUFFICES ASSUME Init PROVE SearchInv
  OBVIOUS
<1>1. TypeOK /\ TreeOfSteps
  BY InitTyped, InitTree
<1>2. Nodes = {1} /\ keys[1] = Problem.root /\ queue[1] = 1 /\ Len(queue) = 1
  BY DEF Init, Nodes
<1>3. 1 \in Queued
  BY <1>2 DEF Queued
<1>4. Frontier
  BY <1>2, <1>3 DEF Frontier, Init
<1>5. NothingWaits
  BY DEF NothingWaits, Init
<1>6. Explored = {Problem.root}
  BY <1>2 DEF Explored
<1>7. OnlyReachable
  BY <1>6 DEF OnlyReachable
<1> QED BY <1>1, <1>4, <1>5, <1>7 DEF SearchInv

\* The steps that leave the explored worlds alone leave what is expanded alone.
LEMMA SameWorlds ==
  ASSUME TypeOK, [Next]_vars, ~NewWorld
  PROVE  /\ Problem' = Problem /\ Moves' = Moves /\ Nodes' = Nodes /\ Explored' = Explored
         /\ \A n : keys'[n] = keys[n]
         /\ \A w, m : StepOf(w, m)' = StepOf(w, m)
         /\ ~KnownWorld => successors' = successors /\ \A n : Expanded(n)' = Expanded(n)
<1>1. UNCHANGED <<problem, keys>>
  BY TreeUntouched
<1>2. ~KnownWorld => successors' = successors
  BY DEF Next, TakeNode, RefusedMove, BudgetSpent, Exhausted, Judge, vars
<1>3. ~KnownWorld => \A n : Expanded(n)' = Expanded(n)
  BY <1>1, <1>2 DEF Problem, Moves, Nodes, StepOf, Expanded, Followed
<1> QED BY <1>1, <1>2, <1>3 DEF Problem, Moves, Nodes, Explored, StepOf

\* What has been followed stays so while edges and worlds only come to.
LEMMA FollowedStands ==
  ASSUME problem' = problem, NEW n, NEW m, Followed(n, m), keys'[n] = keys[n],
         \A child \in successors[n] : child \in successors'[n] /\ keys'[child] = keys[child]
  PROVE  Followed(n, m)'
<1>1. CASE StepOf(keys[n], m) = NoWorld
  BY <1>1 DEF Followed, StepOf
<1>2. CASE \E child \in successors[n] : keys[child] = StepOf(keys[n], m)
  BY <1>2 DEF Followed, StepOf
<1> QED BY <1>1, <1>2 DEF Followed

\* After a move whose world is known or refused, the frontier stands.
LEMMA FrontierAfterMove ==
  ASSUME TypeOK, Frontier, node # 0, AfterMove,
         problem' = problem, budgetHit' = budgetHit, open' = open,
         Nodes \subseteq Nodes',
         \A n \in Nodes : keys'[n] = keys[n] /\ successors[n] \subseteq successors'[n],
         Queued \subseteq Queued',
         \A n \in Nodes' : n \in Nodes \/ n \in Queued',
         \/ StepOf(keys[node], next) = NoWorld
         \/ \E child \in successors'[node] : keys'[child] = StepOf(keys[node], next)
  PROVE  Frontier'
<1> SUFFICES ASSUME ~budgetHit PROVE Frontier'
  BY DEF Frontier
<1>1. Problem' = Problem /\ Moves' = Moves /\ Problem.moves \in Nat \ {0}
  BY ProblemFacts DEF Problem, Moves, TypeOK
<1>2. node \in Nodes /\ next \in Moves
  BY DEF TypeOK
<1>3. ASSUME NEW n \in Nodes, NEW m, Followed(n, m) PROVE Followed(n, m)'
  <2>1. \A child \in successors[n] : child \in Nodes /\ child \in successors'[n]
    BY DEF TypeOK
  <2> QED BY <1>3, <2>1, FollowedStands
<1>4. \A n \in Nodes : Expanded(n) => Expanded(n)'
  BY <1>1, <1>3 DEF Expanded
<1>7. ASSUME NEW n \in Nodes, n = node, NEW m \in 1 .. next PROVE Followed(n, m)'
  <2>1. CASE m = next
    <3>1. keys'[n] = keys[n]
      OBVIOUS
    <3> QED BY <1>7, <2>1, <3>1 DEF Followed, StepOf
  <2>2. CASE m \in 1 .. (next - 1)
    BY <1>3, <1>7, <2>2 DEF Frontier
  <2> QED BY <1>2, <2>1, <2>2 DEF Moves
<1>5. CASE next < Problem.moves
  <2>1. next' = next + 1 /\ node' = node
    BY <1>5 DEF AfterMove
  <2>2. \A m \in 1 .. (next' - 1) : Followed(node, m)'
    <3>1. \A m \in 1 .. (next' - 1) : m \in 1 .. next
      BY <1>2, <2>1 DEF Moves
    <3>2. \A n \in Nodes : n = node' => \A m \in 1 .. (next' - 1) : Followed(n, m)'
      BY <1>7, <2>1, <3>1
    <3> QED BY <1>2, <2>1, <3>2
  <2>3. \A n \in Nodes' : n \in open' \/ n \in Queued' \/ n = node' \/ Expanded(n)'
    BY <1>4, <2>1 DEF Frontier
  <2> QED BY <2>2, <2>3 DEF Frontier
<1>6. CASE ~(next < Problem.moves)
  <2>1. node' = 0 /\ next = Problem.moves
    BY <1>1, <1>2, <1>6 DEF AfterMove, Moves
  <2>2. \A n \in Nodes : n = node => Expanded(n)'
    <3>1. \A n \in Nodes : n = node => \A m \in Moves' : Followed(n, m)'
      BY <1>1, <1>7, <2>1 DEF Moves
    <3> QED BY <3>1 DEF Expanded
  <2>3. \A n \in Nodes' : n \in open' \/ n \in Queued' \/ n = node' \/ Expanded(n)'
    BY <1>4, <2>2 DEF Frontier
  <2> QED BY <2>1, <2>3 DEF Frontier
<1> QED BY <1>5, <1>6

LEMMA NextFrontier == SearchInv /\ [Next]_vars => Frontier'
<1> SUFFICES ASSUME SearchInv, [Next]_vars PROVE Frontier'
  OBVIOUS
<1> USE DEF SearchInv
<1>1. CASE TakeNode
  <2>1. ~NewWorld
    BY <1>1 DEF TakeNode, NewWorld
  <2>2. queue \in Seq(Nodes) /\ queue # <<>> /\ node = 0 /\ queue' = Tail(queue)
    BY <1>1 DEF TakeNode, TypeOK
  <2>3. \A x \in Queued : x = Head(queue) \/ x \in Queued'
    <3>1. ASSUME NEW i \in 1 .. Len(queue), i # 1 PROVE queue[i] \in Queued'
      <4>1. i - 1 \in 1 .. Len(queue') /\ queue'[i - 1] = queue[i]
        BY <2>2, <3>1
      <4> QED BY <4>1 DEF Queued
    <3>2. queue[1] = Head(queue)
      BY <2>2
    <3>3. \A i \in 1 .. Len(queue) : queue[i] = Head(queue) \/ queue[i] \in Queued'
      BY <3>1, <3>2
    <3> QED BY <3>3 DEF Queued
  <2>4. /\ open \subseteq open' /\ budgetHit' = budgetHit
        /\ Head(queue) \in open' \/ node' = Head(queue)
        /\ node' = 0 \/ next' = 1
    BY <1>1, <2>2 DEF TakeNode, Wait
  <2>5. \A n \in Nodes : n \in open \/ n \in Queued \/ n = node \/ Expanded(n)
           => n \in open' \/ n \in Queued' \/ n = node' \/ Expanded(n)'
    <3> SUFFICES ASSUME NEW n \in Nodes
                 PROVE  n \in open \/ n \in Queued \/ n = node \/ Expanded(n)
                          => n \in open' \/ n \in Queued' \/ n = node' \/ Expanded(n)'
      OBVIOUS
    <3>1. n # node /\ ~KnownWorld
      BY <1>1, <2>2 DEF Nodes, TypeOK, KnownWorld
    <3>2. Expanded(n)' = Expanded(n)
      BY <2>1, <3>1, SameWorlds DEF SearchInv
    <3> QED BY <2>3, <2>4, <3>1, <3>2
  <2>6. node' # 0 => 1 .. (next' - 1) = {}
    BY <2>4
  <2> QED BY <2>1, <2>4, <2>5, <2>6, SameWorlds DEF Frontier
<1>2. CASE RefusedMove
  <2>1. ~NewWorld /\ Queued' = Queued
    BY <1>2 DEF RefusedMove, NewWorld, Unknown, Queued, TypeOK, vars
  <2>2. UNCHANGED <<problem, keys, successors, open, budgetHit>> /\ Nodes' = Nodes
    BY <1>2 DEF RefusedMove, Nodes
  <2> QED BY <1>2, <2>1, <2>2, FrontierAfterMove DEF RefusedMove
<1>3. CASE KnownWorld
  <2>1. StepOf(keys[node], next) \in Explored
    BY <1>3 DEF KnownWorld, Explored
  <2>2. ~NewWorld /\ Queued' = Queued
    BY <1>3, <2>1 DEF KnownWorld, NewWorld, Unknown, Queued
  <2>3. PICK child \in Nodes : /\ keys[child] = StepOf(keys[node], next)
                              /\ successors' = [successors EXCEPT ![node] = @ \cup {child}]
    BY <1>3 DEF KnownWorld
  <2>4. /\ node # 0 /\ AfterMove /\ UNCHANGED <<problem, keys, open, budgetHit>>
        /\ Nodes' = Nodes
    BY <1>3 DEF KnownWorld, Nodes
  <2>5. node \in Nodes /\ DOMAIN successors = Nodes
    BY <2>4 DEF TypeOK, Nodes
  <2>6. \A n \in Nodes :
          successors'[n] = IF n = node THEN successors[n] \cup {child} ELSE successors[n]
    BY <2>3, <2>5
  <2>7. /\ \A n \in Nodes : successors[n] \subseteq successors'[n]
        /\ child \in successors'[node] /\ keys'[child] = StepOf(keys[node], next)
    BY <2>3, <2>4, <2>5, <2>6
  <2> QED BY <2>2, <2>4, <2>7, FrontierAfterMove
<1>4. CASE NewWorld
  <2>1. queue \in Seq(Nat) /\ Len(keys) + 1 \in Nat
    BY DEF TypeOK, Nodes
  <2>2. queue' = Append(queue, Len(keys) + 1)
    BY <1>4 DEF NewWorld
  <2>3. Queued' = Queued \cup {Len(keys) + 1}
    BY <2>1, <2>2, Appended DEF Queued
  <2>4. node # 0 /\ AfterMove /\ UNCHANGED <<problem, budgetHit, open>>
    BY <1>4 DEF NewWorld
  <2>5. /\ Nodes' = Nodes \cup {Len(keys) + 1}
        /\ \A n \in Nodes : keys'[n] = keys[n]
        /\ Explored' = Explored \cup {StepOf(keys[node], next)}
    BY <1>4, NewWorldFacts
  <2>6. /\ \A n \in Nodes : successors[n] \subseteq successors'[n]
        /\ Len(keys) + 1 \in successors'[node]
        /\ keys'[Len(keys) + 1] = StepOf(keys[node], next)
    BY <1>4, NewWorldFacts, NewWorldEdges
  <2> QED BY <2>3, <2>4, <2>5, <2>6, FrontierAfterMove
<1>5. CASE BudgetSpent
  BY <1>5 DEF BudgetSpent, Frontier
<1>6. CASE Exhausted
  BY <1>6 DEF Exhausted, Frontier, Followed, Queued, Nodes, Expanded, StepOf, Problem, Moves
<1>7. CASE Judge
  BY <1>7 DEF Judge, Frontier, Followed, Queued, Nodes, Expanded, StepOf, Problem, Moves
<1>8. CASE UNCHANGED vars
  BY <1>8 DEF vars, Frontier, Followed, Queued, Nodes, Expanded, StepOf, Problem, Moves
<1> QED BY <1>1, <1>2, <1>3, <1>4, <1>5, <1>6, <1>7, <1>8 DEF Next

LEMMA NextNothingWaits == NothingWaits /\ [Next]_vars => NothingWaits'
  BY DEF NothingWaits, Next, TakeNode, RefusedMove, KnownWorld, NewWorld, BudgetSpent,
         Exhausted, Judge, vars

LEMMA NextOnlyReachable == TypeOK /\ OnlyReachable /\ [Next]_vars => OnlyReachable'
<1> SUFFICES ASSUME TypeOK, OnlyReachable, [Next]_vars PROVE OnlyReachable'
  OBVIOUS
<1>1. Problem' = Problem /\ Worlds' = Worlds /\ Moves' = Moves /\ problem' = problem
  BY SameProblem
<1>2. CASE NewWorld
  <2>1. keys[node] \in Explored /\ next \in Moves /\ StepOf(keys[node], next) # NoWorld
    BY <1>2, NewWorldFacts, ProblemFacts DEF Explored, TypeOK
  <2>2. Explored' = Explored \cup {StepOf(keys[node], next)}
    BY <1>2, NewWorldFacts
  <2> SUFFICES ASSUME NEW S \in SUBSET Worlds, Problem.root \in S, Closed(S)
               PROVE  Explored' \subseteq S
    BY <1>1 DEF OnlyReachable, Closed, StepOf
  <2>3. Explored \subseteq S
    BY DEF OnlyReachable
  <2>4. StepOf(keys[node], next) \in S
    BY <2>1, <2>3 DEF Closed
  <2> QED BY <2>2, <2>3, <2>4
<1>3. CASE ~NewWorld
  BY <1>1, <1>3, SameWorlds DEF OnlyReachable, Closed, StepOf
<1> QED BY <1>2, <1>3

LEMMA SearchInvariant == Spec => []SearchInv
<1>1. SearchInv /\ [Next]_vars => SearchInv'
  BY NextTyped, NextTree, NextFrontier, NextNothingWaits, NextOnlyReachable DEF SearchInv
<1> QED BY InitSearch, <1>1, PTL DEF Spec

LEMMA FrontierEmptied ==
  ASSUME SearchInv, Ended, Bound = "exhaustive"
  PROVE  Closed(Explored)
<1>1. ~budgetHit /\ open = {}
  BY DEF Bound
<1>2. node = 0 /\ Queued = {}
  BY DEF SearchInv, NothingWaits, Ended, Queued
<1>3. \A n \in Nodes : Expanded(n)
  <2> SUFFICES ASSUME NEW n \in Nodes PROVE Expanded(n)
    OBVIOUS
  <2>1. n # 0
    BY DEF Nodes
  <2> QED BY <1>1, <1>2, <2>1 DEF SearchInv, Frontier
<1>4. \A n \in Nodes : successors[n] \subseteq Nodes
  BY DEF SearchInv, TypeOK
<1> QED BY <1>3, <1>4 DEF Closed, Explored, Expanded, Followed

LEMMA ExactFromSearch == SearchInv => ExhaustiveIsExact
  BY FrontierEmptied DEF SearchInv, OnlyReachable, ExhaustiveIsExact

\* A search that was not cut short has found the least set of worlds that
\* holds the root and is closed under the kernel's moves.
THEOREM ExhaustiveSearchIsExact == Spec => []ExhaustiveIsExact
<1> QED BY SearchInvariant, ExactFromSearch, PTL

-----------------------------------------------------------------------------
(* The verdicts `reachable` and `never` are true.                          *)

\* A judged claim stays judged as the graph it was judged on says.
ResultsStand == phase = "done" => results = [claim \in Claims |-> Judged(claim)]

\* The verdicts read nothing but the graph and the problem.
Graph == <<problem, keys, parent, move, depth, successors, open, budgetHit>>

LEMMA SameVerdicts ==
  ASSUME UNCHANGED Graph
  PROVE  \A claim : Judged(claim)' = Judged(claim)
<1>1. Problem' = Problem /\ Nodes' = Nodes /\ Bound' = Bound /\ \A w, m : StepOf(w, m)' = StepOf(w, m)
  BY DEF Graph, Problem, Nodes, Bound, StepOf
<1>2. \A goal : Hits(goal)' = Hits(goal)
  BY <1>1 DEF Graph, Hits
<1>3. \A ns : WithPredecessors(ns)' = WithPredecessors(ns)
  BY <1>1 DEF Graph, WithPredecessors
<1>4. \A seeds : BackwardClosure(seeds)' = BackwardClosure(seeds)
  BY <1>3 DEF Graph, BackwardClosure
<1>5. \A goal : Locks(goal)' = Locks(goal)
  BY <1>1, <1>2, <1>4 DEF Graph, Locks
<1>6. \A ns : Shallowest(ns)' = Shallowest(ns)
  BY DEF Graph, Shallowest, First
<1>7. \A claim : Check(claim)' = Check(claim)
  <2>1. \A goal : ReachableVerdict(goal)' = ReachableVerdict(goal)
    BY <1>1, <1>2 DEF ReachableVerdict, Verdict, First
  <2>2. \A goal : NeverVerdict(goal)' = NeverVerdict(goal)
    BY <1>1, <1>2 DEF NeverVerdict, Verdict, First
  <2>3. \A goal : LiveVerdict(goal)' = LiveVerdict(goal)
    BY <1>1, <1>2, <1>5, <1>6 DEF LiveVerdict, Verdict
  <2> QED BY <2>1, <2>2, <2>3 DEF Check
<1>8. \A n : Path(n)' = Path(n)
  BY <1>1 DEF Graph, Path
<1>9. \A n : Events(n)' = Events(n) /\ WitnessTicks(n)' = WitnessTicks(n)
  BY <1>8 DEF Graph, Events, WitnessTicks
<1>10. \A events, ticks : Replayed(events, ticks)' = Replayed(events, ticks)
  BY <1>1 DEF Replayed, Ticked
<1>11. \A claim, n : Verified(claim, n)' = Verified(claim, n)
  BY <1>9, <1>10 DEF Graph, Verified
<1> QED BY <1>7, <1>11 DEF Graph, Judged

LEMMA NextResults == ResultsStand /\ [Next]_vars => ResultsStand'
<1> SUFFICES ASSUME ResultsStand, [Next]_vars PROVE ResultsStand'
  OBVIOUS
<1>1. CASE Judge
  <2>1. UNCHANGED Graph
    BY <1>1 DEF Judge, Graph
  <2>2. \A claim : Judged(claim)' = Judged(claim)
    BY <2>1, SameVerdicts
  <2> QED BY <1>1, <2>2 DEF Judge, ResultsStand
<1>2. CASE ~Judge
  <2>1. phase' = "done" => UNCHANGED vars
    BY <1>2 DEF Next, TakeNode, RefusedMove, KnownWorld, NewWorld, BudgetSpent, Exhausted, vars
  <2>2. CASE UNCHANGED vars
    <3>1. UNCHANGED Graph
      BY <2>2 DEF vars, Graph
    <3>2. \A claim : Judged(claim)' = Judged(claim)
      BY <3>1, SameVerdicts
    <3> QED BY <2>2, <3>2 DEF vars, ResultsStand
  <2> QED BY <2>1, <2>2 DEF ResultsStand
<1> QED BY <1>1, <1>2

LEMMA ResultsInvariant == Spec => []ResultsStand
<1>1. Init => ResultsStand
  BY DEF Init, ResultsStand
<1> QED BY <1>1, NextResults, PTL DEF Spec

\* A hit is reachable.
LEMMA HitReachable ==
  ASSUME SearchInv, NEW goal, Hits(goal) # {}
  PROVE  CanReach(Problem.root, goal)
<1>1. PICK n \in Nodes : keys[n] \in goal
  BY DEF Hits
<1>2. keys[n] \in Explored
  BY DEF Explored
<1> QED BY <1>1, <1>2 DEF CanReach, SearchInv, OnlyReachable

\* What an exhaustive search did not hit is not reachable.
LEMMA NoHitUnreachable ==
  ASSUME SearchInv, Ended, Bound = "exhaustive", NEW goal, Hits(goal) = {}
  PROVE  ~CanReach(Problem.root, goal)
<1>1. /\ keys \in Seq(Worlds) /\ 1 \in Nodes /\ keys[1] = Problem.root
      /\ \A n \in Nodes : keys[n] \in Worlds
  BY DEF SearchInv, TypeOK, TreeOfSteps, Nodes
<1>4. Explored \in SUBSET Worlds /\ Problem.root \in Explored
  BY <1>1 DEF Explored
<1>2. Closed(Explored)
  BY FrontierEmptied
<1>3. Explored \cap goal = {}
  BY DEF Hits, Explored
<1> QED BY <1>4, <1>2, <1>3 DEF CanReach

LEMMA VerdictsTrueNow == SearchInv /\ ResultsStand => ReachVerdictsTrue
<1> SUFFICES ASSUME SearchInv, ResultsStand, phase = "done",
                    NEW c \in Claims, c.kind \in {"reachable", "never"}
             PROVE  LET status == results[c].status
                        found  == status = (IF c.kind = "reachable" THEN "holds" ELSE "violated")
                    IN \/ status = "inconclusive" /\ (Bound = "budget" \/ ~results[c].verified)
                       \/ found /\ CanReach(Problem.root, c.goal)
                       \/ /\ status # "inconclusive" /\ ~found
                          /\ Bound # "budget"
                          /\ Bound = "exhaustive" => ~CanReach(Problem.root, c.goal)
  BY DEF ReachVerdictsTrue
<1> DEFINE verdict == Check(c)
           r == Judged(c)
<1>1. results[c] = r /\ Ended
  BY DEF ResultsStand, Ended
<1>2. /\ r.status = "inconclusive" \/ r.status = verdict.status
      /\ r.status # verdict.status => verdict.witness # 0 /\ ~r.verified
  BY DEF Judged
<1>3. CASE Hits(c.goal) # {}
  <2>1. verdict.status = IF c.kind = "reachable" THEN "holds" ELSE "violated"
    BY <1>3 DEF Check, ReachableVerdict, NeverVerdict, Verdict
  <2>2. CanReach(Problem.root, c.goal)
    BY <1>3, HitReachable
  <2> QED BY <1>1, <1>2, <2>1, <2>2
<1>4. CASE Hits(c.goal) = {}
  <2>1. verdict = Verdict(IF Bound = "budget" THEN "inconclusive"
                          ELSE IF c.kind = "reachable" THEN "violated" ELSE "holds", 0)
    BY <1>4 DEF Check, ReachableVerdict, NeverVerdict
  <2>2. r.status = verdict.status
    BY <1>2, <2>1 DEF Verdict
  <2>3. Bound = "exhaustive" => ~CanReach(Problem.root, c.goal)
    BY <1>1, <1>4, NoHitUnreachable
  <2> QED BY <1>1, <2>1, <2>2, <2>3 DEF Verdict
<1> QED BY <1>3, <1>4

\* What the prover says of `reachable` and `never` is so: a hit is reachable,
\* what an exhaustive search did not hit is not, and nothing a spent budget
\* left open is rounded to a pass.
THEOREM ReachVerdictsCorrect == Spec => []ReachVerdictsTrue
<1> QED BY ResultsInvariant, SearchInvariant, VerdictsTrueNow, PTL

-----------------------------------------------------------------------------
(* The search is breadth first: a node's depth is its distance, because    *)
(* nodes are taken in the order they were found and found no deeper than   *)
(* one tick below the last one taken.                                      *)

Spreading == [k \in Nat |-> [ws \in SUBSET Worlds |-> Spread(ws)]]

IsBall(f, t) == f = [k \in 0 .. t |-> IF k = 0 THEN {Problem.root} ELSE Spread(f[k - 1])]

\* The recursion of Within has a solution, and only one.
LEMMA BallExists ==
  ASSUME problem \in DOMAIN Problems, NEW t \in Nat
  PROVE  \E f \in [0 .. t -> SUBSET Worlds] :
           Recurs(f, {Problem.root}, Spreading, t) /\ Within(t) = f[t]
<1> DEFINE root == {Problem.root}
<1>1. root \in SUBSET Worlds
  BY ProblemFacts
<1>2. \A ws \in SUBSET Worlds : Spread(ws) \in SUBSET Worlds
  BY ProblemFacts DEF Spread
<1>3. \A k \in 1 .. t : \A ws \in SUBSET Worlds : Spreading[k][ws] = Spread(ws)
  BY DEF Spreading
<1>4. \A k \in 1 .. t : \A ws \in SUBSET Worlds : Spreading[k][ws] \in SUBSET Worlds
  BY <1>2, <1>3
<1>5. \A f \in [0 .. t -> SUBSET Worlds] : Recurs(f, root, Spreading, t) => IsBall(f, t)
  <2> SUFFICES ASSUME NEW f \in [0 .. t -> SUBSET Worlds], Recurs(f, root, Spreading, t)
               PROVE  IsBall(f, t)
    OBVIOUS
  <2>1. \A k \in 0 .. t : k # 0 => Spreading[k][f[k - 1]] = Spread(f[k - 1])
    BY <1>3
  <2> QED BY <2>1 DEF Recurs, IsBall
<1>6. PICK f0 \in [0 .. t -> SUBSET Worlds] : Recurs(f0, root, Spreading, t)
  <2> HIDE DEF root
  <2> QED BY <1>1, <1>4, Recursion
<1>7. IsBall(f0, t)
  BY <1>5, <1>6
<1> DEFINE ball == CHOOSE f : IsBall(f, t)
<1>8. IsBall(ball, t)
  BY <1>7
<1>9. Within(t) = ball[t]
  BY DEF Within, IsBall
<1> HIDE DEF ball
<1>10. \A k \in 0 .. t : ball[k] = f0[k]
  <2>1. ball[0] = f0[0]
    BY <1>7, <1>8 DEF IsBall
  <2>2. ASSUME NEW n \in Nat, n + 1 <= t, ball[n] = f0[n] PROVE ball[n + 1] = f0[n + 1]
    <3>1. n + 1 \in 0 .. t /\ n + 1 # 0 /\ (n + 1) - 1 = n
      BY <2>2
    <3>2. ball[n + 1] = Spread(ball[n])
      BY <1>8, <3>1 DEF IsBall
    <3>3. f0[n + 1] = Spread(f0[n])
      BY <1>7, <3>1 DEF IsBall
    <3> QED BY <2>2, <3>2, <3>3
  <2> QED BY <2>1, <2>2, Agreeing
<1> QED BY <1>6, <1>9, <1>10

\* Within is what its definition says, ball by ball.
LEMMA WithinFacts ==
  ASSUME problem \in DOMAIN Problems
  PROVE  /\ Within(0) = {Problem.root}
         /\ \A t \in Nat : Within(t) \in SUBSET Worlds
         /\ \A t \in Nat : Within(t + 1) = Spread(Within(t))
<1>1. ASSUME NEW t \in Nat PROVE Within(t + 1) = Spread(Within(t))
  <2>0. t + 1 \in Nat
    OBVIOUS
  <2>1. PICK f \in [0 .. t -> SUBSET Worlds] :
          Recurs(f, {Problem.root}, Spreading, t) /\ Within(t) = f[t]
    BY BallExists
  <2>2. PICK h \in [0 .. t + 1 -> SUBSET Worlds] :
          Recurs(h, {Problem.root}, Spreading, t + 1) /\ Within(t + 1) = h[t + 1]
    BY <2>0, BallExists
  <2>3. f[t] = h[t]
    <3>1. \A k \in 0 .. t : f[k] = h[k]
      BY <2>1, <2>2, SameRecursion
    <3> QED BY <3>1
  <2>4. h[t + 1] = Spreading[t + 1][h[t]]
    <3>1. t + 1 \in 0 .. t + 1 /\ t + 1 # 0 /\ (t + 1) - 1 = t
      OBVIOUS
    <3> QED BY <2>2, <3>1 DEF Recurs
  <2>5. Spreading[t + 1][h[t]] = Spread(h[t])
    BY DEF Spreading
  <2> QED BY <2>1, <2>2, <2>3, <2>4, <2>5
<1>2. \A t \in Nat : Within(t) \in SUBSET Worlds
  BY BallExists
<1>3. Within(0) = {Problem.root}
  <2>1. PICK f : Recurs(f, {Problem.root}, Spreading, 0) /\ Within(0) = f[0]
    BY BallExists
  <2> QED BY <2>1 DEF Recurs
<1> QED BY <1>1, <1>2, <1>3

LEMMA WithinGrows ==
  ASSUME problem \in DOMAIN Problems, NEW s \in Nat, NEW t \in Nat, s <= t
  PROVE  Within(s) \subseteq Within(t)
<1> DEFINE S == {k \in Nat : Within(s) \subseteq Within(s + k)}
<1>1. 0 \in S
  OBVIOUS
<1>2. ASSUME NEW k \in Nat, k \in S PROVE k + 1 \in S
  <2>1. s + k \in Nat /\ s + (k + 1) = (s + k) + 1
    OBVIOUS
  <2>2. Within(s + (k + 1)) = Spread(Within(s + k))
    BY <2>1, WithinFacts
  <2>3. Within(s + k) \subseteq Spread(Within(s + k))
    BY DEF Spread
  <2> QED BY <1>2, <2>2, <2>3
<1>3. t - s \in Nat /\ s + (t - s) = t
  OBVIOUS
<1>4. t - s \in S
  <2> HIDE DEF S
  <2> QED BY <1>1, <1>2, <1>3, SetInduction
<1> QED BY <1>3, <1>4

\* Nodes were found in the order of their depth, are taken in the order they
\* were found, and none is deeper than one tick below any not yet expanded;
\* none is beyond the horizon, and only those at it were left open.
InOrder ==
  /\ \A i, j \in Nodes : i <= j => depth[i] <= depth[j]
  /\ \A n \in Nodes : depth[n] <= Problem.horizon
  /\ node # 0 => depth[node] < Problem.horizon

Taken == Len(keys) - Len(queue)

InTurn ==
  IF budgetHit THEN node = 0 /\ queue = <<>>
  ELSE /\ Taken \in Nat
       /\ \A i \in 1 .. Len(queue) : queue[i] = Taken + i
       /\ node # 0 => node = Taken
       /\ \A n, j \in Nodes : Taken <= j => depth[n] <= depth[j] + 1
       /\ \A n \in open : depth[n] >= Problem.horizon

\* Every edge is a move of the kernel, and leads no deeper than one tick.
EdgesAreMoves ==
  \A n \in Nodes : \A child \in successors[n] :
    /\ depth[child] <= depth[n] + 1
    /\ \E m \in Moves : keys[child] = StepOf(keys[n], m)

DepthInv == InOrder /\ InTurn /\ EdgesAreMoves /\ DepthIsDistance

LEMMA InitDepth == Init => DepthInv
<1> SUFFICES ASSUME Init PROVE DepthInv
  OBVIOUS
<1>1. /\ Nodes = {1} /\ Len(keys) = 1 /\ Len(queue) = 1 /\ queue[1] = 1 /\ depth[1] = 0
      /\ keys[1] = Problem.root /\ successors[1] = {} /\ node = 0 /\ ~budgetHit /\ open = {}
  BY DEF Init, Nodes
<1>2. Problem.horizon \in Nat \ {0} /\ Within(0) = {Problem.root}
  BY ProblemFacts, WithinFacts DEF Init
<1>3. InOrder
  BY <1>1, <1>2 DEF InOrder
<1>4. InTurn
  BY <1>1 DEF InTurn, Taken
<1>5. EdgesAreMoves
  BY <1>1 DEF EdgesAreMoves
<1>6. DepthIsDistance
  BY <1>1, <1>2 DEF DepthIsDistance
<1> QED BY <1>3, <1>4, <1>5, <1>6 DEF DepthInv

LEMMA DepthFacts ==
  ASSUME TypeOK
  PROVE  /\ \A n \in Nodes : n \in Nat /\ n # 0 /\ n >= 1 /\ n <= Len(keys) /\ depth[n] \in Nat
         /\ Len(keys) \in Nat /\ Len(queue) \in Nat
         /\ \A n \in Nodes : successors[n] \subseteq Nodes
         /\ open \subseteq Nodes
         /\ Problem.horizon \in Nat
<1>1. \A n \in Nodes : depth[n] \in Nat
  BY SMTT(30), ZenonT(30) DEF TypeOK, Nodes
<1>2. Problem.horizon \in Nat
  BY ProblemFacts DEF TypeOK
<1> QED BY <1>1, <1>2 DEF TypeOK, Nodes

\* As far as every shallower node is expanded, the ball of worlds within that
\* distance is explored.
LEMMA NearIsExplored ==
  ASSUME SearchInv, DepthInv, NEW d \in Nat,
         \A n \in Nodes : depth[n] < d => Expanded(n)
  PROVE  \A t \in 0 .. d : \A w \in Within(t) : \E n \in Nodes : keys[n] = w /\ depth[n] <= t
<1> DEFINE Met(t) == \A w \in Within(t) : \E n \in Nodes : keys[n] = w /\ depth[n] <= t
           S == {t \in Nat : t <= d => Met(t)}
<1>0. TypeOK /\ problem \in DOMAIN Problems
  BY DEF SearchInv, TypeOK
<1>1. 0 \in S
  <2>1. 1 \in Nodes /\ keys[1] = Problem.root /\ depth[1] = 0
    BY <1>0 DEF SearchInv, TreeOfSteps, TypeOK, Nodes
  <2>2. Within(0) = {Problem.root}
    BY <1>0, WithinFacts
  <2>3. depth[1] <= 0
    BY <2>1
  <2> QED BY <2>1, <2>2, <2>3
<1>2. ASSUME NEW t \in Nat, t \in S PROVE t + 1 \in S
  <2> SUFFICES ASSUME t + 1 <= d, NEW w \in Within(t + 1)
               PROVE  \E n \in Nodes : keys[n] = w /\ depth[n] <= t + 1
    OBVIOUS
  <2>1. Met(t) /\ t < d
    BY <1>2
  <2>2. w \in Spread(Within(t))
    BY <1>0, WithinFacts
  <2>3. CASE w \in Within(t)
    <3>1. PICK n \in Nodes : keys[n] = w /\ depth[n] <= t
      BY <2>1, <2>3
    <3>2. depth[n] <= t + 1
      BY <1>0, <3>1, DepthFacts
    <3> QED BY <3>1, <3>2
  <2>4. CASE w \notin Within(t)
    <3>1. PICK v \in Within(t), m \in Moves : w = StepOf(v, m) /\ w # NoWorld
      BY <2>2, <2>4 DEF Spread
    <3>2. PICK n \in Nodes : keys[n] = v /\ depth[n] <= t
      BY <2>1
    <3>3. Expanded(n) /\ depth[n] \in Nat
      BY <1>0, <2>1, <3>2, DepthFacts
    <3>4. PICK child \in successors[n] : keys[child] = w
      BY <3>1, <3>2, <3>3 DEF Expanded, Followed
    <3>5. child \in Nodes /\ depth[child] \in Nat /\ depth[child] <= depth[n] + 1
      BY <1>0, DepthFacts DEF DepthInv, EdgesAreMoves
    <3>6. depth[child] <= t + 1
      BY <3>2, <3>3, <3>5
    <3> QED BY <3>4, <3>5, <3>6
  <2> QED BY <2>3, <2>4
<1>3. Nat \subseteq S
  <2> HIDE DEF S
  <2> QED BY <1>1, <1>2, SetInduction
<1> QED BY <1>3

LEMMA SameWithin ==
  ASSUME problem' = problem, NEW t
  PROVE  Within(t)' = Within(t)
  BY DEF Within, Spread, Problem, StepOf, Moves

\* The same property, with the depth named: a form that can be primed.
Distant ==
  \A n \in Nodes : \A d : d = depth[n] =>
    /\ keys[n] \in Within(d)
    /\ d > 0 => keys[n] \notin Within(d - 1)

LEMMA DistantForm == DepthIsDistance <=> Distant
  BY DEF DepthIsDistance, Distant

LEMMA SameDistances ==
  ASSUME problem' = problem, keys' = keys, depth' = depth, DepthIsDistance
  PROVE  DepthIsDistance'
<1>1. Nodes' = Nodes
  BY DEF Nodes
<1> SUFFICES ASSUME NEW n \in Nodes
             PROVE  /\ keys'[n] \in Within(depth[n])'
                    /\ depth'[n] > 0 => keys'[n] \notin Within(depth[n] - 1)'
  BY <1>1 DEF DepthIsDistance
<1>2. keys[n] \in Within(depth[n]) /\ (depth[n] > 0 => keys[n] \notin Within(depth[n] - 1))
  BY DEF DepthIsDistance
<1> QED BY <1>2 DEF Within, Spread, Problem, StepOf, Moves

\* The steps that only move on to the next move.
LEMMA DepthMovesOn ==
  ASSUME DepthInv, UNCHANGED <<problem, keys, depth, successors, open, queue, budgetHit>>,
         node' \in {node, 0}
  PROVE  DepthInv'
<1>1. Nodes' = Nodes /\ Problem' = Problem /\ Moves' = Moves /\ Taken' = Taken
  BY DEF Nodes, Problem, Moves, Taken
<1>2. InOrder'
  BY <1>1 DEF DepthInv, InOrder
<1>3. InTurn'
  BY <1>1 DEF DepthInv, InTurn
<1>4. EdgesAreMoves'
  BY <1>1 DEF DepthInv, EdgesAreMoves, StepOf
<1> QED BY <1>2, <1>3, <1>4, SameDistances DEF DepthInv

LEMMA DepthTakes == TypeOK /\ DepthInv /\ TakeNode => DepthInv'
<1> SUFFICES ASSUME TypeOK, DepthInv, TakeNode PROVE DepthInv'
  OBVIOUS
<1> DEFINE head == Head(queue)
<1>1. /\ queue # <<>> /\ queue' = Tail(queue) /\ node = 0
      /\ UNCHANGED <<problem, keys, depth, successors, budgetHit>>
      /\ IF depth[head] >= Problem.horizon THEN open' = open \cup {head} /\ node' = node
         ELSE node' = head /\ open' = open
  BY DEF TakeNode
<1>2. Nodes' = Nodes /\ Problem' = Problem /\ Moves' = Moves
  BY <1>1 DEF Nodes, Problem, Moves
<1>3. /\ ~budgetHit /\ Taken \in Nat
      /\ \A i \in 1 .. Len(queue) : queue[i] = Taken + i
      /\ \A n, j \in Nodes : Taken <= j => depth[n] <= depth[j] + 1
      /\ \A n \in open : depth[n] >= Problem.horizon
  BY <1>1 DEF DepthInv, InTurn
<1>4. /\ Len(queue) \in Nat /\ Len(queue) >= 1 /\ Len(queue') = Len(queue) - 1
      /\ \A i \in 1 .. Len(queue') : queue'[i] = queue[i + 1]
      /\ head = queue[1] /\ head \in Nodes
  BY <1>1 DEF TypeOK
<1>5. Taken' = Taken + 1 /\ head = Taken + 1
  BY <1>1, <1>3, <1>4, DepthFacts DEF Taken
<1>6. depth[head] \in Nat /\ Problem.horizon \in Nat
  BY <1>4, DepthFacts
<1> HIDE DEF head
<1>7. InOrder'
  BY <1>1, <1>2, <1>4, <1>6 DEF DepthInv, InOrder
<1>8. InTurn'
  <2>1. ~budgetHit' /\ Taken' \in Nat
    BY <1>1, <1>3, <1>5
  <2>2. \A i \in 1 .. Len(queue') : queue'[i] = Taken' + i
    <3> SUFFICES ASSUME NEW i \in 1 .. Len(queue') PROVE queue'[i] = Taken' + i
      OBVIOUS
    <3>1. i + 1 \in 1 .. Len(queue) /\ i \in Nat
      BY <1>4
    <3> QED BY <1>3, <1>4, <1>5, <3>1
  <2>3. node' # 0 => node' = Taken'
    BY <1>1, <1>5
  <2>4. \A n, j \in Nodes' : Taken' <= j => depth'[n] <= depth'[j] + 1
    <3> SUFFICES ASSUME NEW n \in Nodes, NEW j \in Nodes, Taken + 1 <= j
                 PROVE  depth[n] <= depth[j] + 1
      BY <1>1, <1>2, <1>5
    <3>1. Taken <= j
      BY <1>3, DepthFacts
    <3> QED BY <1>3, <3>1
  <2>5. \A n \in open' : depth'[n] >= Problem'.horizon
    BY <1>1, <1>2, <1>3
  <2> QED BY <2>1, <2>2, <2>3, <2>4, <2>5 DEF InTurn
<1>9. EdgesAreMoves'
  BY <1>1, <1>2 DEF DepthInv, EdgesAreMoves, StepOf
<1> QED BY <1>1, <1>7, <1>8, <1>9, SameDistances DEF DepthInv

LEMMA DepthKnows == TypeOK /\ DepthInv /\ KnownWorld => DepthInv'
<1> SUFFICES ASSUME TypeOK, DepthInv, KnownWorld PROVE DepthInv'
  OBVIOUS
<1>1. PICK child \in Nodes : /\ keys[child] = StepOf(keys[node], next)
                            /\ successors' = [successors EXCEPT ![node] = @ \cup {child}]
  BY DEF KnownWorld
<1>2. /\ node # 0 /\ AfterMove
      /\ UNCHANGED <<problem, keys, depth, open, queue, budgetHit>>
  BY DEF KnownWorld
<1>3. node \in Nodes /\ next \in Moves /\ DOMAIN successors = Nodes
  BY <1>2 DEF TypeOK, Nodes
<1>4. node' \in {node, 0}
  BY <1>2, AfterMoveFacts
<1>5. Nodes' = Nodes /\ Problem' = Problem /\ Moves' = Moves /\ Taken' = Taken
  BY <1>2 DEF Nodes, Problem, Moves, Taken
<1>6. InOrder'
  BY <1>2, <1>4, <1>5 DEF DepthInv, InOrder
<1>7. InTurn'
  BY <1>2, <1>4, <1>5 DEF DepthInv, InTurn
<1>8. EdgesAreMoves'
  <2> SUFFICES ASSUME NEW n \in Nodes, NEW c \in successors'[n]
               PROVE  /\ depth[c] <= depth[n] + 1
                      /\ \E m \in Moves : keys[c] = StepOf(keys[n], m)
    BY <1>2, <1>5 DEF EdgesAreMoves, StepOf
  <2>1. successors'[n] = IF n = node THEN successors[n] \cup {child} ELSE successors[n]
    BY <1>1, <1>3
  <2>2. CASE c \in successors[n]
    BY <2>2 DEF DepthInv, EdgesAreMoves
  <2>3. CASE n = node /\ c = child
    <3>1. ~budgetHit /\ node = Taken /\ Taken <= node
      BY <1>2, <1>3, DepthFacts DEF DepthInv, InTurn
    <3>2. depth[child] <= depth[node] + 1
      BY <1>3, <3>1 DEF DepthInv, InTurn
    <3> QED BY <1>1, <1>3, <2>3, <3>2
  <2> QED BY <2>1, <2>2, <2>3
<1> QED BY <1>2, <1>6, <1>7, <1>8, SameDistances DEF DepthInv

LEMMA DepthSpends == TypeOK /\ DepthInv /\ BudgetSpent => DepthInv'
<1> SUFFICES ASSUME TypeOK, DepthInv, BudgetSpent PROVE DepthInv'
  OBVIOUS
<1>1. /\ budgetHit' = TRUE /\ node' = 0 /\ queue' = <<>>
      /\ UNCHANGED <<problem, keys, depth, successors>>
  BY DEF BudgetSpent
<1>2. Nodes' = Nodes /\ Problem' = Problem /\ Moves' = Moves
  BY <1>1 DEF Nodes, Problem, Moves
<1>3. InOrder'
  BY <1>1, <1>2 DEF DepthInv, InOrder
<1>4. InTurn'
  BY <1>1 DEF InTurn
<1>5. EdgesAreMoves'
  BY <1>1, <1>2 DEF DepthInv, EdgesAreMoves, StepOf
<1> QED BY <1>1, <1>3, <1>4, <1>5, SameDistances DEF DepthInv

LEMMA DepthFinds == SearchInv /\ DepthInv /\ NewWorld => DepthInv'
<1> SUFFICES ASSUME SearchInv, DepthInv, NewWorld PROVE DepthInv'
  OBVIOUS
<1> DEFINE child == Len(keys) + 1
           world == StepOf(keys[node], next)
<1>0. TypeOK /\ problem \in DOMAIN Problems
  BY DEF SearchInv, TypeOK
<1>1. /\ node \in Nodes /\ next \in Moves /\ world \in Worlds
      /\ Len(keys') = Len(keys) + 1 /\ Nodes' = Nodes \cup {child}
      /\ \A n \in Nodes : keys'[n] = keys[n] /\ depth'[n] = depth[n]
      /\ keys'[child] = world /\ depth'[child] = depth[node] + 1
  BY <1>0, NewWorldFacts
<1>2. /\ \A n \in Nodes : successors'[n] = IF n = node THEN successors[n] \cup {child}
                                           ELSE successors[n]
      /\ successors'[child] = {}
  BY <1>0, NewWorldEdges
<1>3. /\ node # 0 /\ AfterMove /\ queue' = Append(queue, child)
      /\ UNCHANGED <<problem, open, budgetHit>> /\ Unknown(world)
  BY DEF NewWorld
<1>4. node' \in {node, 0} /\ Problem' = Problem /\ Moves' = Moves
  BY <1>0, <1>3, AfterMoveFacts DEF Problem, Moves
<1>5. /\ ~budgetHit /\ Taken \in Nat /\ node = Taken
      /\ \A i \in 1 .. Len(queue) : queue[i] = Taken + i
      /\ \A n, j \in Nodes : Taken <= j => depth[n] <= depth[j] + 1
      /\ \A n \in open : depth[n] >= Problem.horizon
  BY <1>3 DEF DepthInv, InTurn
<1>6. /\ \A i, j \in Nodes : i <= j => depth[i] <= depth[j]
      /\ \A n \in Nodes : depth[n] <= Problem.horizon
      /\ depth[node] < Problem.horizon
  BY <1>3 DEF DepthInv, InOrder
<1>7. /\ \A n \in Nodes : n \in Nat /\ n < child /\ depth[n] \in Nat
      /\ child \in Nat /\ child \notin Nodes /\ Len(queue) \in Nat /\ Problem.horizon \in Nat
      /\ \A n \in Nodes : successors[n] \subseteq Nodes
      /\ open \subseteq Nodes
  BY <1>0, DepthFacts
<1>8. \A n \in Nodes : depth[n] <= depth[node] + 1
  BY <1>1, <1>5, <1>7
<1>9. /\ Len(queue') = Len(queue) + 1 /\ queue'[Len(queue) + 1] = child
      /\ \A i \in 1 .. Len(queue) : queue'[i] = queue[i]
  <2>1. queue \in Seq(Nat)
    BY <1>0, <1>7 DEF TypeOK
  <2> QED BY <1>3, <1>7, <2>1, Appended
<1>10. Taken' = Taken /\ child = Taken + (Len(queue) + 1)
  BY <1>0, <1>1, <1>7, <1>9, DepthFacts DEF Taken
<1>11. \A n \in Nodes' : n \in Nodes \/ n = child
  BY <1>1
<1> HIDE DEF child, world
<1>12. InOrder'
  <2>1. \A i, j \in Nodes' : i <= j => depth'[i] <= depth'[j]
    <3> SUFFICES ASSUME NEW i \in Nodes', NEW j \in Nodes', i <= j
                 PROVE  depth'[i] <= depth'[j]
      OBVIOUS
    <3>1. CASE i \in Nodes /\ j \in Nodes
      BY <1>1, <1>6, <3>1
    <3>2. CASE i \in Nodes /\ j = child
      BY <1>1, <1>8, <3>2
    <3>3. CASE i = child
      <4>1. j = child
        BY <1>7, <1>11, <3>3
      <4> QED BY <1>1, <1>7, <3>3, <4>1
    <3> QED BY <1>11, <3>1, <3>2, <3>3
  <2>2. \A n \in Nodes' : depth'[n] <= Problem'.horizon
    <3>1. depth[node] + 1 <= Problem.horizon
      BY <1>1, <1>6, <1>7
    <3> QED BY <1>1, <1>4, <1>6, <1>11, <3>1
  <2>3. node' # 0 => depth'[node'] < Problem'.horizon
    BY <1>1, <1>4, <1>6
  <2> QED BY <2>1, <2>2, <2>3 DEF InOrder
<1>13. InTurn'
  <2>1. ~budgetHit' /\ Taken' \in Nat /\ (node' # 0 => node' = Taken')
    BY <1>3, <1>4, <1>5, <1>10
  <2>2. \A i \in 1 .. Len(queue') : queue'[i] = Taken' + i
    <3> SUFFICES ASSUME NEW i \in 1 .. Len(queue') PROVE queue'[i] = Taken' + i
      OBVIOUS
    <3>1. i \in 1 .. Len(queue) \/ i = Len(queue) + 1
      BY <1>7, <1>9
    <3> QED BY <1>5, <1>9, <1>10, <3>1
  <2>3. \A n, j \in Nodes' : Taken' <= j => depth'[n] <= depth'[j] + 1
    <3> SUFFICES ASSUME NEW n \in Nodes', NEW j \in Nodes', Taken <= j
                 PROVE  depth'[n] <= depth'[j] + 1
      BY <1>10
    <3>1. depth'[n] <= depth[node] + 1 /\ depth'[n] \in Nat
      BY <1>1, <1>7, <1>8, <1>11
    <3>3. depth[node] \in Nat
      BY <1>1, <1>7
    <3>2. depth[node] <= depth'[j] /\ depth'[j] \in Nat
      <4>1. CASE j \in Nodes
        BY <1>1, <1>5, <1>6, <1>7, <4>1
      <4>2. CASE j = child
        BY <1>1, <3>3, <4>2
      <4> QED BY <1>11, <4>1, <4>2
    <3> QED BY <3>1, <3>2, <3>3
  <2>4. \A n \in open' : depth'[n] >= Problem'.horizon
    BY <1>1, <1>3, <1>4, <1>5, <1>7
  <2> QED BY <2>1, <2>2, <2>3, <2>4 DEF InTurn
<1>14. EdgesAreMoves'
  <2> SUFFICES ASSUME NEW n \in Nodes', NEW c \in successors'[n]
               PROVE  /\ depth'[c] <= depth'[n] + 1
                      /\ \E m \in Moves : keys'[c] = StepOf(keys'[n], m)
    BY <1>3, <1>4 DEF EdgesAreMoves, StepOf
  <2>1. n \in Nodes
    BY <1>2, <1>11
  <2>2. CASE c \in successors[n]
    <3>1. /\ depth[c] <= depth[n] + 1
          /\ \E m \in Moves : keys[c] = StepOf(keys[n], m)
      BY <2>1, <2>2 DEF DepthInv, EdgesAreMoves
    <3>2. c \in Nodes
      BY <1>7, <2>1, <2>2
    <3> QED BY <1>1, <2>1, <3>1, <3>2
  <2>3. CASE n = node /\ c = child
    <3>1. depth[node] + 1 <= depth[node] + 1
      BY <1>1, <1>7
    <3> QED BY <1>1, <2>3, <3>1 DEF world
  <2> QED BY <1>2, <2>1, <2>2, <2>3
<1>15. DepthIsDistance'
  <2>1. \A n \in Nodes : depth[n] < depth[node] => Expanded(n)
    <3> SUFFICES ASSUME NEW n \in Nodes, depth[n] < depth[node] PROVE Expanded(n)
      OBVIOUS
    <3>1. n < node
      BY <1>1, <1>6, <1>7
    <3>2. n \notin open
      BY <1>1, <1>5, <1>6, <1>7
    <3>3. n \notin Queued
      <4> SUFFICES ASSUME NEW i \in 1 .. Len(queue) PROVE queue[i] # n
        BY DEF Queued
      <4> QED BY <1>1, <1>5, <1>7, <3>1
    <3>4. n # node
      BY <1>1, <1>7, <3>1
    <3> QED BY <1>5, <3>2, <3>3, <3>4 DEF SearchInv, Frontier
  <2>2. world \notin Within(depth[node])
    <3>1. depth[node] \in Nat /\ depth[node] \in 0 .. depth[node]
      BY <1>1, <1>7
    <3>2. \A w \in Within(depth[node]) : \E n \in Nodes : keys[n] = w
      BY <2>1, <3>1, NearIsExplored
    <3>3. world \notin Explored
      BY <1>3 DEF Unknown
    <3> QED BY <3>2, <3>3 DEF Explored
  <2>3. world \in Within(depth[node] + 1)
    <3>1. keys[node] \in Within(depth[node])
      BY <1>1 DEF DepthInv, DepthIsDistance
    <3>2. Within(depth[node] + 1) = Spread(Within(depth[node]))
      BY <1>0, <1>1, <1>7, WithinFacts
    <3>3. world # NoWorld
      BY <1>3 DEF Unknown
    <3> QED BY <1>1, <3>1, <3>2, <3>3 DEF Spread, world
  <2>6. DepthIsDistance' <=> Distant'
    BY DistantForm, PTL
  <2> SUFFICES ASSUME NEW n \in Nodes', NEW d, d = depth'[n]
               PROVE  /\ keys'[n] \in Within(d)
                      /\ d > 0 => keys'[n] \notin Within(d - 1)
    <3>1. \A d : Within(d)' = Within(d) /\ Within(d - 1)' = Within(d - 1)
      BY <1>3, SameWithin
    <3> QED BY <2>6, <3>1 DEF Distant
  <2>4. CASE n \in Nodes
    BY <1>1, <2>4 DEF DepthInv, DepthIsDistance
  <2>5. CASE n = child
    <3>1. (depth[node] + 1) - 1 = depth[node]
      BY <1>1, <1>7
    <3> QED BY <1>1, <2>2, <2>3, <2>5, <3>1
  <2> QED BY <1>11, <2>4, <2>5
<1> QED BY <1>12, <1>13, <1>14, <1>15 DEF DepthInv

LEMMA NextDepth == SearchInv /\ DepthInv /\ [Next]_vars => DepthInv'
<1> SUFFICES ASSUME SearchInv, DepthInv, [Next]_vars PROVE DepthInv'
  OBVIOUS
<1>0. TypeOK
  BY DEF SearchInv
<1>1. CASE RefusedMove
  <2>1. AfterMove /\ UNCHANGED <<problem, keys, depth, successors, open, queue, budgetHit>>
    BY <1>1 DEF RefusedMove
  <2>2. node' \in {node, 0}
    BY <1>0, <2>1, AfterMoveFacts
  <2> QED BY <2>1, <2>2, DepthMovesOn
<1>2. CASE Exhausted \/ Judge \/ UNCHANGED vars
  BY <1>2, DepthMovesOn DEF Exhausted, Judge, vars
<1> QED BY <1>0, <1>1, <1>2, DepthTakes, DepthKnows, DepthFinds, DepthSpends DEF Next

LEMMA DepthInvariant == Spec => [](SearchInv /\ DepthInv)
<1>1. DepthInv /\ SearchInv /\ [Next]_vars => DepthInv'
  BY NextDepth
<1> QED BY InitDepth, <1>1, SearchInvariant, PTL DEF Spec

LEMMA HorizonFromDepth == SearchInv /\ DepthInv => HorizonIsComplete
<1> SUFFICES ASSUME SearchInv, DepthInv, Ended, ~budgetHit
             PROVE  Explored = Within(Problem.horizon)
  BY DEF HorizonIsComplete
<1>0. TypeOK /\ problem \in DOMAIN Problems
  BY DEF SearchInv, TypeOK
<1>1. \A n \in Nodes : depth[n] < Problem.horizon => Expanded(n)
  <2>1. node = 0 /\ Queued = {}
    BY DEF SearchInv, NothingWaits, Ended, Queued
  <2>2. \A n \in open : depth[n] >= Problem.horizon
    BY DEF DepthInv, InTurn
  <2> SUFFICES ASSUME NEW n \in Nodes, depth[n] < Problem.horizon PROVE Expanded(n)
    OBVIOUS
  <2>3. n # 0 /\ n \notin open
    BY <1>0, <2>2, DepthFacts
  <2> QED BY <2>1, <2>3 DEF SearchInv, Frontier
<1>2. Problem.horizon \in Nat /\ Problem.horizon \in 0 .. Problem.horizon
  BY <1>0, DepthFacts
<1>3. \A w \in Within(Problem.horizon) : \E n \in Nodes : keys[n] = w
  BY <1>1, <1>2, NearIsExplored
<1>4. \A n \in Nodes : keys[n] \in Within(Problem.horizon)
  <2> SUFFICES ASSUME NEW n \in Nodes PROVE keys[n] \in Within(Problem.horizon)
    OBVIOUS
  <2>1. depth[n] \in Nat /\ depth[n] <= Problem.horizon
    BY <1>0, DepthFacts DEF DepthInv, InOrder
  <2>2. Within(depth[n]) \subseteq Within(Problem.horizon)
    BY <1>0, <1>2, <2>1, WithinGrows
  <2> QED BY <2>2 DEF DepthInv, DepthIsDistance
<1> QED BY <1>3, <1>4 DEF Explored

\* The search is breadth first, whatever the graph: a node's depth is its
\* distance from the root, even in a search the budget cut short, and a search
\* no budget cut short has met the worlds within its horizon, and no others.
THEOREM SearchIsBreadthFirst == Spec => []BreadthFirst
<1>1. SearchInv /\ DepthInv => BreadthFirst
  BY HorizonFromDepth DEF BreadthFirst, DepthInv
<1> QED BY <1>1, DepthInvariant, PTL

-----------------------------------------------------------------------------
(* A witness, run again as a replay, ends in the world it names.           *)

IsBack(f, last) ==
  f = [m \in 1 .. last |-> IF m = 1 THEN <<>> ELSE Append(f[parent[m]], move[m])]

\* What the tree says of a node that is not the root.
LEMMA TreeFacts ==
  ASSUME TypeOK, TreeOfSteps, NEW n \in Nodes
  PROVE  /\ n \in Nat /\ keys[n] \in Worlds /\ depth[n] \in Nat
         /\ n = 1 => keys[n] = Problem.root /\ depth[n] = 0
         /\ n # 1 => /\ parent[n] \in Nodes /\ parent[n] < n /\ move[n] \in Moves
                     /\ keys[n] = StepOf(keys[parent[n]], move[n])
                     /\ depth[n] = depth[parent[n]] + 1
<1>1. n \in Nat /\ n <= Len(keys) /\ keys[n] \in Worlds /\ depth[n] \in Nat
  BY SMTT(30), ZenonT(30) DEF TypeOK, Nodes
<1>2. CASE n # 1
  <2>1. /\ parent[n] \in 1 .. (n - 1) /\ move[n] \in Moves
        /\ keys[n] = StepOf(keys[parent[n]], move[n])
        /\ depth[n] = depth[parent[n]] + 1
    BY <1>2 DEF TreeOfSteps
  <2>2. Len(keys) \in Nat
    BY DEF TypeOK
  <2>3. parent[n] \in Nodes /\ parent[n] < n
    BY <1>1, <2>1, <2>2 DEF Nodes
  <2> QED BY <1>1, <1>2, <2>1, <2>3
<1>3. CASE n = 1
  BY <1>1, <1>3 DEF TreeOfSteps
<1> QED BY <1>1, <1>2, <1>3

\* The recursion of Path has a solution: a parent is found before its child.
LEMMA BackExists ==
  ASSUME TypeOK, TreeOfSteps
  PROVE  \E f \in [Nodes -> Seq(Moves)] : IsBack(f, Len(keys))
<1> DEFINE S == {n \in Nat : n + 1 <= Len(keys) =>
                   \E f \in [1 .. n + 1 -> Seq(Moves)] : IsBack(f, n + 1)}
<1>1. 0 \in S
  <2> DEFINE f == [m \in 1 .. 0 + 1 |-> <<>>]
  <2>1. f \in [1 .. 0 + 1 -> Seq(Moves)]
    OBVIOUS
  <2>2. IsBack(f, 0 + 1)
    BY DEF IsBack
  <2> HIDE DEF f
  <2> QED BY <2>1, <2>2
<1>2. ASSUME NEW n \in Nat, n \in S PROVE n + 1 \in S
  <2> SUFFICES ASSUME (n + 1) + 1 <= Len(keys)
               PROVE  \E h \in [1 .. (n + 1) + 1 -> Seq(Moves)] : IsBack(h, (n + 1) + 1)
    OBVIOUS
  <2> DEFINE last == n + 2
  <2>1. PICK f \in [1 .. n + 1 -> Seq(Moves)] : IsBack(f, n + 1)
    BY <1>2 DEF TypeOK
  <2>2. last \in Nodes /\ last # 1 /\ (n + 1) + 1 = last
    BY DEF Nodes, TypeOK
  <2>3. parent[last] \in 1 .. n + 1 /\ move[last] \in Moves
    BY <2>2, TreeFacts DEF Nodes
  <2>4. Append(f[parent[last]], move[last]) \in Seq(Moves)
    BY <2>1, <2>3
  <2> DEFINE h == [m \in 1 .. last |-> IF m = last THEN Append(f[parent[last]], move[last])
                                       ELSE f[m]]
  <2>5. h \in [1 .. last -> Seq(Moves)]
    BY <2>1, <2>4
  <2>6. \A m \in 1 .. last : h[m] = IF m = 1 THEN <<>> ELSE Append(h[parent[m]], move[m])
    <3> SUFFICES ASSUME NEW m \in 1 .. last
                 PROVE  h[m] = IF m = 1 THEN <<>> ELSE Append(h[parent[m]], move[m])
      OBVIOUS
    <3>1. m \in Nodes /\ (m # 1 => parent[m] \in 1 .. n + 1)
      <4>1. m \in Nodes
        BY <2>2 DEF Nodes
      <4>2. m # 1 => parent[m] \in Nodes /\ parent[m] < m
        BY <4>1, TreeFacts
      <4> QED BY <4>1, <4>2 DEF Nodes
    <3>2. \A k \in 1 .. n + 1 : h[k] = f[k]
      OBVIOUS
    <3>3. CASE m = last
      BY <2>2, <2>3, <3>2, <3>3
    <3>4. CASE m # last
      <4>1. m \in 1 .. n + 1
        BY <3>4
      <4>2. f[m] = IF m = 1 THEN <<>> ELSE Append(f[parent[m]], move[m])
        BY <2>1, <4>1 DEF IsBack
      <4> QED BY <3>1, <3>2, <4>1, <4>2
    <3> QED BY <3>3, <3>4
  <2>7. IsBack(h, last)
    BY <2>6 DEF IsBack
  <2> HIDE DEF h
  <2> QED BY <2>2, <2>5, <2>7
<1>3. Nat \subseteq S
  <2> HIDE DEF S
  <2> QED BY <1>1, <1>2, SetInduction
<1>4. Len(keys) - 1 \in Nat /\ (Len(keys) - 1) + 1 = Len(keys)
  BY DEF TypeOK
<1>5. Len(keys) - 1 \in S
  BY <1>3, <1>4
<1> QED BY <1>4, <1>5 DEF Nodes

\* A path is its parent's with one move more, and as long as its node is deep.
LEMMA PathFacts ==
  ASSUME TypeOK, TreeOfSteps
  PROVE  /\ Path(1) = <<>>
         /\ \A n \in Nodes : n # 1 => Path(n) = Append(Path(parent[n]), move[n])
         /\ \A n \in Nodes : Path(n) \in Seq(Moves) /\ Len(Path(n)) = depth[n]
<1> DEFINE back == CHOOSE f : IsBack(f, Len(keys))
<1>1. IsBack(back, Len(keys))
  BY BackExists
<1>2. \A n : Path(n) = back[n]
  BY DEF Path, IsBack, Nodes
<1> HIDE DEF back
<1>3. \A n \in Nodes : Path(n) = IF n = 1 THEN <<>> ELSE Append(Path(parent[n]), move[n])
  BY <1>1, <1>2 DEF IsBack, Nodes
<1> DEFINE S == {k \in Nat : \A n \in Nodes : n <= k =>
                               Path(n) \in Seq(Moves) /\ Len(Path(n)) = depth[n]}
<1>4. 0 \in S
  BY DEF Nodes
<1>5. ASSUME NEW k \in Nat, k \in S PROVE k + 1 \in S
  <2> SUFFICES ASSUME NEW n \in Nodes, n <= k + 1
               PROVE  Path(n) \in Seq(Moves) /\ Len(Path(n)) = depth[n]
    OBVIOUS
  <2>1. CASE n = 1
    <3>1. Path(n) = <<>> /\ depth[n] = 0
      BY <1>3, <2>1, TreeFacts
    <3> QED BY <3>1
  <2>2. CASE n # 1
    <3>1. /\ parent[n] \in Nodes /\ parent[n] < n /\ move[n] \in Moves
          /\ depth[n] = depth[parent[n]] + 1 /\ n \in Nat
      BY <2>2, TreeFacts
    <3>2. parent[n] <= k
      BY <3>1 DEF Nodes
    <3>3. Path(parent[n]) \in Seq(Moves) /\ Len(Path(parent[n])) = depth[parent[n]]
      BY <1>5, <3>1, <3>2
    <3>4. Path(n) = Append(Path(parent[n]), move[n])
      BY <1>3, <2>2
    <3> QED BY <3>1, <3>3, <3>4
  <2> QED BY <2>1, <2>2
<1>6. Nat \subseteq S
  <2> HIDE DEF S
  <2> QED BY <1>4, <1>5, SetInduction
<1>7. \A n \in Nodes : Path(n) \in Seq(Moves) /\ Len(Path(n)) = depth[n]
  BY <1>6 DEF Nodes
<1>8. 1 \in Nodes
  BY DEF TypeOK, Nodes
<1> QED BY <1>3, <1>7, <1>8

\* The replay of a witness plays its path: a wait is a tick without an event.
LEMMA ChosenOfPath ==
  ASSUME TypeOK, TreeOfSteps, NEW n \in Nodes, NEW t \in 1 .. depth[n]
  PROVE  Chosen(Events(n), t - 1) = Path(n)[t]
<1>1. Path(n) \in Seq(Moves) /\ DOMAIN Path(n) = 1 .. depth[n] /\ depth[n] \in Nat
  BY PathFacts, TreeFacts
<1> DEFINE es == Events(n)
           path == Path(n)
           played == {u \in DOMAIN path : path[u] # Wait}
<1>2. es = {[tick |-> u - 1, move |-> path[u]] : u \in played}
  BY DEF Events
<1>3. played \subseteq 1 .. depth[n] /\ (t \in played <=> path[t] # Wait)
  BY <1>1
<1> HIDE DEF es, path, played
<1>4. \A e \in Due(es, t - 1) : e = [tick |-> t - 1, move |-> path[t]]
  <2> SUFFICES ASSUME NEW e \in es, e.tick = t - 1
               PROVE  e = [tick |-> t - 1, move |-> path[t]]
    BY DEF Due
  <2>1. PICK u \in played : e = [tick |-> u - 1, move |-> path[u]]
    BY <1>2
  <2>2. u = t
    BY <1>3, <2>1
  <2> QED BY <2>1, <2>2
<1>5. CASE path[t] = Wait
  <2>1. Due(es, t - 1) = {}
    <3> SUFFICES ASSUME NEW e \in es, e.tick = t - 1 PROVE FALSE
      BY DEF Due
    <3>1. PICK u \in played : e = [tick |-> u - 1, move |-> path[u]]
      BY <1>2
    <3>2. u = t
      BY <1>3, <3>1
    <3> QED BY <1>3, <1>5, <3>2
  <2> QED BY <1>5, <2>1 DEF Chosen, es, path
<1>6. CASE path[t] # Wait
  <2>1. [tick |-> t - 1, move |-> path[t]] \in Due(es, t - 1)
    BY <1>2, <1>3, <1>6 DEF Due
  <2>2. Due(es, t - 1) # {} /\ (CHOOSE e \in Due(es, t - 1) : TRUE) \in Due(es, t - 1)
    BY <2>1
  <2>3. (CHOOSE e \in Due(es, t - 1) : TRUE).move = path[t]
    BY <1>4, <2>2
  <2> QED BY <2>2, <2>3 DEF Chosen, es, path
<1> QED BY <1>5, <1>6

\* A run along a node's path.
IsRun(f, n) ==
  f = [t \in 0 .. depth[n] |-> IF t = 0 THEN Problem.root ELSE Ticked(f[t - 1], Path(n)[t])]

\* It ends in the node's world, at every depth before in an ancestor's.
LEMMA RunEnds ==
  ASSUME TypeOK, TreeOfSteps
  PROVE  \A n \in Nodes : \A f : IsRun(f, n) => f[depth[n]] = keys[n]
<1> DEFINE S == {k \in Nat : \A n \in Nodes : n <= k =>
                               \A f : IsRun(f, n) => f[depth[n]] = keys[n]}
<1>1. 0 \in S
  BY DEF Nodes
<1>2. ASSUME NEW k \in Nat, k \in S PROVE k + 1 \in S
  <2> SUFFICES ASSUME NEW n \in Nodes, n <= k + 1, NEW f, IsRun(f, n)
               PROVE  f[depth[n]] = keys[n]
    OBVIOUS
  <2>1. CASE n = 1
    <3>1. depth[n] = 0 /\ keys[n] = Problem.root
      BY <2>1, TreeFacts
    <3> QED BY <3>1 DEF IsRun
  <2>2. CASE n # 1
    <3> DEFINE p == parent[n]
               d == depth[p]
    <3>1. /\ p \in Nodes /\ p < n /\ move[n] \in Moves /\ d \in Nat
          /\ keys[n] = StepOf(keys[p], move[n]) /\ depth[n] = d + 1
          /\ keys[p] \in Worlds
      BY <2>2, TreeFacts
    <3>2. p <= k
      BY <3>1 DEF Nodes
    <3>3. /\ Path(n) = Append(Path(p), move[n]) /\ Path(p) \in Seq(Moves)
          /\ Len(Path(p)) = d
      BY <2>2, <3>1, PathFacts
    <3> HIDE DEF p, d
    <3>4. Path(n)[d + 1] = move[n] /\ \A t \in 1 .. d : Path(n)[t] = Path(p)[t]
      BY <3>1, <3>3
    <3> DEFINE g == [t \in 0 .. d |-> f[t]]
    <3>5. IsRun(g, p)
      <4>1. \A t \in 0 .. d : f[t] = IF t = 0 THEN Problem.root
                                     ELSE Ticked(f[t - 1], Path(n)[t])
        BY <3>1 DEF IsRun
      <4>2. \A t \in 0 .. d : g[t] = IF t = 0 THEN Problem.root
                                     ELSE Ticked(g[t - 1], Path(p)[t])
        <5> SUFFICES ASSUME NEW t \in 0 .. d
                     PROVE  g[t] = IF t = 0 THEN Problem.root
                                   ELSE Ticked(g[t - 1], Path(p)[t])
          OBVIOUS
        <5>1. CASE t = 0
          BY <4>1, <5>1
        <5>2. CASE t # 0
          <6>1. t - 1 \in 0 .. d /\ t \in 1 .. d
            BY <3>1, <5>2
          <6>2. g[t - 1] = f[t - 1] /\ g[t] = f[t] /\ Path(n)[t] = Path(p)[t]
            BY <3>4, <6>1
          <6> QED BY <4>1, <5>2, <6>2
        <5> QED BY <5>1, <5>2
      <4> QED BY <4>2 DEF IsRun, d
    <3>6. g[d] = keys[p]
      BY <1>2, <3>1, <3>2, <3>5 DEF d
    <3>7. f[d] = keys[p]
      BY <3>1, <3>6
    <3>8. f[d + 1] = Ticked(f[d], Path(n)[d + 1])
      <4>1. d + 1 \in 0 .. depth[n] /\ d + 1 # 0 /\ (d + 1) - 1 = d
        BY <3>1
      <4> QED BY <4>1 DEF IsRun
    <3>9. keys[p] # NoWorld
      BY <3>1, ProblemFacts DEF TypeOK
    <3> QED BY <3>1, <3>4, <3>7, <3>8, <3>9 DEF Ticked
  <2> QED BY <2>1, <2>2
<1>3. Nat \subseteq S
  <2> HIDE DEF S
  <2> QED BY <1>1, <1>2, SetInduction
<1> QED BY <1>3 DEF Nodes

\* And it exists, because no move of a path is refused.
LEMMA RunExists ==
  ASSUME TypeOK, TreeOfSteps
  PROVE  \A n \in Nodes : \E f : IsRun(f, n)
<1> DEFINE S == {k \in Nat : \A n \in Nodes : n <= k => \E f : IsRun(f, n)}
<1>1. 0 \in S
  BY DEF Nodes
<1>2. ASSUME NEW k \in Nat, k \in S PROVE k + 1 \in S
  <2> SUFFICES ASSUME NEW n \in Nodes, n <= k + 1 PROVE \E h : IsRun(h, n)
    OBVIOUS
  <2>1. CASE n = 1
    <3> DEFINE h == [t \in 0 .. 0 |-> Problem.root]
    <3>1. depth[n] = 0
      BY <2>1, TreeFacts
    <3>2. IsRun(h, n)
      BY <3>1 DEF IsRun
    <3> HIDE DEF h
    <3> QED BY <3>2
  <2>2. CASE n # 1
    <3> DEFINE p == parent[n]
               d == depth[p]
    <3>1. p \in Nodes /\ p < n /\ d \in Nat /\ depth[n] = d + 1
      BY <2>2, TreeFacts
    <3>2. p <= k
      BY <3>1 DEF Nodes
    <3>3. Path(n) = Append(Path(p), move[n]) /\ Path(p) \in Seq(Moves) /\ Len(Path(p)) = d
      BY <2>2, <3>1, PathFacts
    <3>4. \A t \in 1 .. d : Path(n)[t] = Path(p)[t]
      BY <3>1, <3>3
    <3>5. PICK f : IsRun(f, p)
      BY <1>2, <3>1, <3>2
    <3> DEFINE h == [t \in 0 .. d + 1 |-> IF t = d + 1 THEN Ticked(f[d], Path(n)[d + 1])
                                          ELSE f[t]]
    <3>6. \A t \in 0 .. d : f[t] = IF t = 0 THEN Problem.root
                                   ELSE Ticked(f[t - 1], Path(p)[t])
      BY <3>1, <3>5 DEF IsRun
    <3> HIDE DEF p, d
    <3>7. \A t \in 0 .. d + 1 : h[t] = IF t = 0 THEN Problem.root
                                       ELSE Ticked(h[t - 1], Path(n)[t])
      <4> SUFFICES ASSUME NEW t \in 0 .. d + 1
                   PROVE  h[t] = IF t = 0 THEN Problem.root ELSE Ticked(h[t - 1], Path(n)[t])
        OBVIOUS
      <4>1. CASE t = 0
        BY <3>1, <3>6, <4>1
      <4>2. CASE t # 0 /\ t # d + 1
        <5>1. t - 1 \in 0 .. d /\ t \in 1 .. d /\ t - 1 # d + 1
          BY <3>1, <4>2
        <5>2. h[t - 1] = f[t - 1] /\ h[t] = f[t] /\ Path(n)[t] = Path(p)[t]
          BY <3>1, <3>4, <4>2, <5>1
        <5> QED BY <3>6, <4>2, <5>1, <5>2
      <4>3. CASE t = d + 1
        <5>1. t - 1 = d /\ d \in 0 .. d + 1 /\ d # d + 1 /\ t # 0
          BY <3>1, <4>3
        <5>2. h[t - 1] = f[d] /\ h[t] = Ticked(f[d], Path(n)[t])
          BY <4>3, <5>1
        <5> QED BY <5>1, <5>2
      <4> QED BY <4>1, <4>2, <4>3
    <3>8. IsRun(h, n)
      BY <3>1, <3>7 DEF IsRun
    <3> HIDE DEF h
    <3> QED BY <3>8
  <2> QED BY <2>1, <2>2
<1>3. Nat \subseteq S
  <2> HIDE DEF S
  <2> QED BY <1>1, <1>2, SetInduction
<1> QED BY <1>3 DEF Nodes

\* The recursion of Replayed.
IsReplay(f, es, ticks) ==
  f = [t \in 0 .. ticks + 1 |-> IF t = 0 THEN Problem.root
                                ELSE Ticked(f[t - 1], Chosen(es, t - 1))]

LEMMA WitnessEnds ==
  ASSUME TypeOK, TreeOfSteps, NEW n \in Nodes, depth[n] > 0
  PROVE  Replayed(Events(n), WitnessTicks(n)) = keys[n]
<1> DEFINE es == Events(n)
           ticks == WitnessTicks(n)
           after == CHOOSE f : IsReplay(f, es, ticks)
<1>1. depth[n] \in Nat /\ ticks + 1 = depth[n]
  BY TreeFacts DEF WitnessTicks
<1>2. \A t \in 0 .. depth[n] : t # 0 => Chosen(es, t - 1) = Path(n)[t]
  <2> SUFFICES ASSUME NEW t \in 0 .. depth[n], t # 0 PROVE Chosen(es, t - 1) = Path(n)[t]
    OBVIOUS
  <2>1. t \in 1 .. depth[n]
    BY <1>1
  <2> QED BY <2>1, ChosenOfPath
<1>3. Replayed(es, ticks) = after[ticks + 1]
  BY DEF Replayed, IsReplay
<1> HIDE DEF es, ticks
<1>4. \A f : IsReplay(f, es, ticks) <=> IsRun(f, n)
  BY <1>1, <1>2 DEF IsReplay, IsRun
<1>5. \E f : IsReplay(f, es, ticks)
  BY <1>4, RunExists
<1>6. IsReplay(after, es, ticks)
  BY <1>5
<1> HIDE DEF after
<1>7. after[depth[n]] = keys[n]
  BY <1>4, <1>6, RunEnds
<1> QED BY <1>1, <1>3, <1>7 DEF es, ticks

-----------------------------------------------------------------------------
(* The backward closure: what can still come to a seed along the edges.    *)

LEMMA FirstFacts ==
  ASSUME NEW ns, ns \subseteq Nat, ns # {}
  PROVE  First(ns) \in ns
<1>1. \E n \in ns : \A m \in ns : n <= m
  BY LeastOf
<1> QED BY <1>1 DEF First

LEMMA ShallowestFacts ==
  ASSUME TypeOK, NEW ns, ns \subseteq Nodes, ns # {}
  PROVE  Shallowest(ns) \in ns
<1> DEFINE depths == {depth[n] : n \in ns}
           least == {n \in ns : \A m \in ns : depth[n] <= depth[m]}
<1>1. depths \subseteq Nat /\ depths # {}
  BY DepthFacts
<1>2. PICK d \in depths : \A e \in depths : d <= e
  <2> HIDE DEF depths
  <2> QED BY <1>1, LeastOf
<1>3. least # {} /\ least \subseteq Nat
  <2>1. PICK n \in ns : depth[n] = d
    OBVIOUS
  <2>2. \A m \in ns : depth[n] <= depth[m]
    BY <1>2, <2>1
  <2>3. n \in least
    BY <2>2
  <2>4. ns \subseteq Nat
    BY DEF Nodes
  <2> QED BY <2>3, <2>4
<1>4. First(least) \in least
  <2> HIDE DEF least
  <2> QED BY <1>3, FirstFacts
<1> QED BY <1>4 DEF Shallowest

IsSeen(f, seeds) ==
  f = [k \in 0 .. Len(keys) |-> IF k = 0 THEN seeds ELSE WithPredecessors(f[k - 1])]

Preceding == [k \in 1 .. Len(keys) |-> [ns \in SUBSET Nodes |-> WithPredecessors(ns)]]

LEMMA SeenExists ==
  ASSUME TypeOK, NEW seeds, seeds \subseteq Nodes
  PROVE  \E f \in [0 .. Len(keys) -> SUBSET Nodes] :
           IsSeen(f, seeds) /\ BackwardClosure(seeds) = f[Len(keys)]
<1> DEFINE N == Len(keys)
           T == SUBSET Nodes
<1>1. N \in Nat /\ seeds \in T
  BY DEF TypeOK
<1>2. \A ns \in T : WithPredecessors(ns) \in T
  BY DEF WithPredecessors
<1>3. \A k \in 1 .. N : \A ns \in T : Preceding[k][ns] = WithPredecessors(ns)
  BY DEF Preceding
<1>4. \A k \in 1 .. N : \A ns \in T : Preceding[k][ns] \in T
  BY <1>2, <1>3
<1>5. PICK f0 \in [0 .. N -> T] : Recurs(f0, seeds, Preceding, N)
  <2> HIDE DEF T, N
  <2> QED BY <1>1, <1>4, Recursion
<1>6. IsSeen(f0, seeds)
  <2>1. \A k \in 0 .. N : k # 0 => Preceding[k][f0[k - 1]] = WithPredecessors(f0[k - 1])
    BY <1>1, <1>3
  <2> QED BY <1>5, <2>1 DEF Recurs, IsSeen
<1> DEFINE visited == CHOOSE f : IsSeen(f, seeds)
<1>7. IsSeen(visited, seeds)
  BY <1>6
<1>8. BackwardClosure(seeds) = visited[N]
  BY DEF BackwardClosure, IsSeen
<1> HIDE DEF visited, T, N
<1>9. \A k \in 0 .. N : visited[k] = f0[k]
  <2>1. visited[0] = f0[0]
    BY <1>1, <1>6, <1>7 DEF IsSeen, N
  <2>2. ASSUME NEW n \in Nat, n + 1 <= N, visited[n] = f0[n] PROVE visited[n + 1] = f0[n + 1]
    <3>1. n + 1 \in 0 .. N /\ n + 1 # 0 /\ (n + 1) - 1 = n
      BY <1>1, <2>2
    <3>2. visited[n + 1] = WithPredecessors(visited[n])
      BY <1>7, <3>1 DEF IsSeen, N
    <3>3. f0[n + 1] = WithPredecessors(f0[n])
      BY <1>6, <3>1 DEF IsSeen, N
    <3> QED BY <2>2, <3>2, <3>3
  <2> QED BY <1>1, <2>1, <2>2, Agreeing
<1>10. N \in 0 .. N
  BY <1>1
<1> QED BY <1>5, <1>6, <1>8, <1>9, <1>10 DEF N, T

\* As many rounds as there are nodes are enough: a round that adds nothing
\* ends it, and every other adds a node.
LEMMA ClosureIsClosed ==
  ASSUME TypeOK, NEW f \in [0 .. Len(keys) -> SUBSET Nodes], NEW seeds, IsSeen(f, seeds)
  PROVE  WithPredecessors(f[Len(keys)]) = f[Len(keys)]
<1> DEFINE N == Len(keys)
           Still(ns) == WithPredecessors(ns) = ns
           S == {k \in Nat : k <= N => Still(f[k]) \/ Cardinality(f[k]) >= k}
<1>1. N \in Nat /\ IsFiniteSet(Nodes) /\ Cardinality(Nodes) = N
  <2>1. N \in Nat /\ N >= 1 /\ N \in Int /\ 1 \in Int /\ ~(1 > N) /\ N - 1 + 1 = N
    BY DEF TypeOK
  <2>2. Nodes = 1 .. N
    BY DEF Nodes
  <2> HIDE DEF N
  <2> QED BY <2>1, <2>2, FS_Interval
<1>2. \A k \in 0 .. N : /\ f[k] \subseteq Nodes /\ IsFiniteSet(f[k])
                        /\ Cardinality(f[k]) \in Nat
  <2> SUFFICES ASSUME NEW k \in 0 .. N
               PROVE  f[k] \subseteq Nodes /\ IsFiniteSet(f[k]) /\ Cardinality(f[k]) \in Nat
    OBVIOUS
  <2>1. f[k] \subseteq Nodes
    OBVIOUS
  <2>2. IsFiniteSet(f[k])
    BY <1>1, <2>1, FS_Subset
  <2> QED BY <2>1, <2>2, FS_CardinalityType
<1>3. 0 \in S
  BY <1>1, <1>2
<1>4. ASSUME NEW k \in Nat, k \in S PROVE k + 1 \in S
  <2> SUFFICES ASSUME k + 1 <= N PROVE Still(f[k + 1]) \/ Cardinality(f[k + 1]) >= k + 1
    OBVIOUS
  <2>1. k \in 0 .. N /\ k + 1 \in 0 .. N /\ k + 1 # 0 /\ (k + 1) - 1 = k
    BY <1>1
  <2>2. f[k + 1] = WithPredecessors(f[k])
    BY <2>1 DEF IsSeen
  <2>3. CASE Still(f[k])
    BY <2>2, <2>3
  <2>4. CASE ~Still(f[k])
    <3>1. Cardinality(f[k]) >= k
      BY <1>1, <1>4, <2>1, <2>4
    <3>2. f[k] \subseteq f[k + 1] /\ f[k] # f[k + 1]
      BY <2>2, <2>4 DEF WithPredecessors
    <3>3. Cardinality(f[k]) < Cardinality(f[k + 1])
      <4>1. Cardinality(f[k]) <= Cardinality(f[k + 1])
        BY <1>2, <2>1, <3>2, FS_Subset
      <4>2. Cardinality(f[k]) # Cardinality(f[k + 1])
        BY <1>2, <2>1, <3>2, FS_Subset
      <4> QED BY <1>2, <2>1, <4>1, <4>2
    <3> QED BY <1>2, <2>1, <3>1, <3>3
  <2> QED BY <2>3, <2>4
<1>5. N \in S
  <2> HIDE DEF S, N
  <2> QED BY <1>1, <1>3, <1>4, SetInduction
<1>6. CASE Still(f[N])
  BY <1>6
<1>7. CASE Cardinality(f[N]) >= N
  <2>1. f[N] \subseteq Nodes /\ Cardinality(f[N]) \in Nat
    BY <1>1, <1>2
  <2>2. Cardinality(f[N]) <= Cardinality(Nodes)
    BY <1>1, <2>1, FS_Subset
  <2>3. f[N] = Nodes
    BY <1>1, <1>7, <2>1, <2>2, FS_Subset
  <2>4. WithPredecessors(Nodes) = Nodes
    BY DEF WithPredecessors
  <2> QED BY <2>3, <2>4
<1> QED BY <1>1, <1>5, <1>6, <1>7

\* The least set of nodes that holds the seeds and every node with an edge
\* into it.
LEMMA ClosureFacts ==
  ASSUME TypeOK, NEW seeds, seeds \subseteq Nodes
  PROVE  /\ BackwardClosure(seeds) \subseteq Nodes
         /\ seeds \subseteq BackwardClosure(seeds)
         /\ \A n \in Nodes : \A c \in successors[n] :
              c \in BackwardClosure(seeds) => n \in BackwardClosure(seeds)
         /\ \A B \in SUBSET Nodes :
              /\ seeds \subseteq B
              /\ \A n \in Nodes : \A c \in successors[n] : c \in B => n \in B
              => BackwardClosure(seeds) \subseteq B
<1> DEFINE N == Len(keys)
           closure == BackwardClosure(seeds)
<1>1. PICK f \in [0 .. N -> SUBSET Nodes] : IsSeen(f, seeds) /\ closure = f[N]
  BY SeenExists
<1> HIDE DEF closure
<1>2. N \in Nat
  BY DEF TypeOK
<1>3. \A k \in Nat : k + 1 <= N => f[k + 1] = WithPredecessors(f[k])
  <2> SUFFICES ASSUME NEW k \in Nat, k + 1 <= N PROVE f[k + 1] = WithPredecessors(f[k])
    OBVIOUS
  <2>1. k + 1 \in 0 .. N /\ k + 1 # 0 /\ (k + 1) - 1 = k
    BY <1>2
  <2> QED BY <1>1, <2>1 DEF IsSeen
<1>4. f[0] = seeds
  BY <1>1, <1>2 DEF IsSeen
<1>5. closure \subseteq Nodes
  BY <1>1, <1>2
<1>6. seeds \subseteq closure
  <2> DEFINE S == {k \in Nat : k <= N => seeds \subseteq f[k]}
  <2>1. 0 \in S
    BY <1>4
  <2>2. ASSUME NEW k \in Nat, k \in S PROVE k + 1 \in S
    BY <1>2, <1>3, <2>2 DEF WithPredecessors
  <2>3. N \in S
    <3> HIDE DEF S, N
    <3> QED BY <1>2, <2>1, <2>2, SetInduction
  <2> QED BY <1>1, <1>2, <2>3
<1>7. \A n \in Nodes : \A c \in successors[n] : c \in closure => n \in closure
  <2>1. WithPredecessors(closure) = closure
    BY <1>1, ClosureIsClosed
  <2> QED BY <2>1 DEF WithPredecessors
<1>8. ASSUME NEW B \in SUBSET Nodes, seeds \subseteq B,
             \A n \in Nodes : \A c \in successors[n] : c \in B => n \in B
      PROVE  closure \subseteq B
  <2> DEFINE S == {k \in Nat : k <= N => f[k] \subseteq B}
  <2>1. 0 \in S
    BY <1>4, <1>8
  <2>2. ASSUME NEW k \in Nat, k \in S PROVE k + 1 \in S
    <3> SUFFICES ASSUME k + 1 <= N PROVE f[k + 1] \subseteq B
      OBVIOUS
    <3>1. f[k] \subseteq B /\ f[k + 1] = WithPredecessors(f[k])
      BY <1>2, <1>3, <2>2
    <3> QED BY <1>8, <3>1 DEF WithPredecessors
  <2>3. N \in S
    <3> HIDE DEF S, N
    <3> QED BY <1>2, <2>1, <2>2, SetInduction
  <2> QED BY <1>1, <1>2, <2>3
<1> QED BY <1>5, <1>6, <1>7, <1>8 DEF closure

\* What a verdict names as its witness.
LEMMA WitnessFacts ==
  ASSUME TypeOK, NEW c \in Claims, Check(c).witness # 0
  PROVE  /\ Check(c).witness \in Nodes
         /\ c.kind # "live" => keys[Check(c).witness] \in c.goal
         /\ c.kind = "live" => /\ Check(c).witness \in Locks(c.goal)
                               /\ keys[Check(c).witness] \notin c.goal
<1> DEFINE hits == Hits(c.goal)
           stuck == Locks(c.goal)
<1>1. c.kind \in Kinds
  BY ProblemsAreGraphs
<1>2. hits \subseteq Nodes /\ Nodes \subseteq Nat /\ stuck \subseteq Nodes
  BY DEF Hits, Nodes, Locks
<1>3. stuck \cap hits = {}
  <2>1. hits \cup open \subseteq Nodes
    BY <1>2 DEF TypeOK
  <2>2. hits \cup open \subseteq BackwardClosure(hits \cup open)
    <3> HIDE DEF hits
    <3> QED BY <2>1, ClosureFacts
  <2> QED BY <2>2 DEF Locks
<1>4. CASE c.kind # "live"
  <2>1. hits # {} /\ Check(c).witness = First(hits)
    BY <1>1, <1>4 DEF Check, ReachableVerdict, NeverVerdict, Verdict, Kinds
  <2>2. First(hits) \in hits
    <3> HIDE DEF hits
    <3> QED BY <1>2, <2>1, FirstFacts
  <2> QED BY <1>2, <1>4, <2>1, <2>2 DEF Hits
<1>5. CASE c.kind = "live"
  <2>1. stuck # {} /\ Check(c).witness = Shallowest(stuck)
    BY <1>5 DEF Check, LiveVerdict, Verdict
  <2>2. Shallowest(stuck) \in stuck
    <3> HIDE DEF stuck
    <3> QED BY <1>2, <2>1, ShallowestFacts
  <2>3. Shallowest(stuck) \notin hits /\ Shallowest(stuck) \in Nodes
    BY <1>2, <1>3, <2>2
  <2> QED BY <1>5, <2>1, <2>2, <2>3 DEF Hits
<1> QED BY <1>4, <1>5

\* No verdict is lost to a witness the kernel did not reproduce.
LEMMA JudgedAsChecked ==
  ASSUME TypeOK, TreeOfSteps, NEW c \in Claims
  PROVE  /\ Judged(c).verified = TRUE
         /\ Judged(c).status = Check(c).status
         /\ Judged(c).witness = Check(c).witness
<1> DEFINE w == Check(c).witness
<1>1. w # 0 => Verified(c, w)
  <2> SUFFICES ASSUME w # 0 PROVE Verified(c, w)
    OBVIOUS
  <2>1. /\ w \in Nodes
        /\ c.kind # "live" => keys[w] \in c.goal
        /\ c.kind = "live" => keys[w] \notin c.goal
    BY WitnessFacts
  <2> HIDE DEF w
  <2>2. CASE depth[w] = 0
    <3>1. w = 1
      <4> SUFFICES ASSUME w # 1 PROVE FALSE
        OBVIOUS
      <4>1. parent[w] \in Nodes /\ depth[w] = depth[parent[w]] + 1
        BY <2>1, TreeFacts
      <4>2. depth[parent[w]] \in Nat
        BY <4>1, TreeFacts
      <4> QED BY <2>2, <4>1, <4>2
    <3> QED BY <2>1, <2>2, <3>1 DEF Verified
  <2>3. CASE depth[w] # 0
    <3>1. depth[w] > 0
      BY <2>1, <2>3, TreeFacts
    <3> QED BY <2>1, <2>3, <3>1, WitnessEnds DEF Verified
  <2> QED BY <2>2, <2>3
<1>2. (w = 0 \/ Verified(c, w)) = TRUE
  BY <1>1
<1> QED BY <1>2 DEF Judged

\* Every witness, run again as a replay of its events, one tick short of its
\* depth, ends in the world it names, for every problem and every claim.
THEOREM WitnessesAreReplayed == Spec => []WitnessesReplay
<1>1. SearchInv /\ ResultsStand => WitnessesReplay
  BY JudgedAsChecked DEF SearchInv, ResultsStand, WitnessesReplay
<1> QED BY <1>1, SearchInvariant, ResultsInvariant, PTL

-----------------------------------------------------------------------------
(* The verdict `live` is true, within a search no budget cut short.        *)

\* Nothing leads out of a set of locks, and the goal is not among them.
LEMMA LocksAreReal ==
  ASSUME SearchInv, Ended, Bound # "budget", NEW goal, NEW lock \in Locks(goal)
  PROVE  ~CanReach(keys[lock], goal)
<1> DEFINE seeds == Hits(goal) \cup open
           closure == BackwardClosure(seeds)
           S == {keys[n] : n \in Locks(goal)}
<1>0. TypeOK /\ problem \in DOMAIN Problems
  BY DEF SearchInv, TypeOK
<1>1. seeds \subseteq Nodes
  BY <1>0 DEF Hits, TypeOK
<1>2. /\ seeds \subseteq closure
      /\ \A n \in Nodes : \A c \in successors[n] : c \in closure => n \in closure
  <2> HIDE DEF seeds
  <2> QED BY <1>0, <1>1, ClosureFacts
<1>3. Locks(goal) = Nodes \ closure
  BY DEF Locks
<1> HIDE DEF seeds, closure
<1>4. S \in SUBSET Worlds /\ keys[lock] \in S
  <2>1. \A n \in Nodes : keys[n] \in Worlds
    BY <1>0 DEF TypeOK, Nodes
  <2> QED BY <1>3, <2>1
<1>5. S \cap goal = {}
  BY <1>2, <1>3 DEF Hits, seeds
<1>6. Closed(S)
  <2> SUFFICES ASSUME NEW n \in Locks(goal), NEW m \in Moves
               PROVE  StepOf(keys[n], m) \in S \cup {NoWorld}
    BY DEF Closed
  <2>1. n \in Nodes /\ n \notin closure /\ n \notin open /\ n # 0
    BY <1>2, <1>3 DEF seeds, Nodes
  <2>2. ~budgetHit /\ node = 0 /\ Queued = {}
    BY DEF Bound, SearchInv, NothingWaits, Ended, Queued
  <2>3. Followed(n, m)
    BY <2>1, <2>2 DEF SearchInv, Frontier, Expanded
  <2>4. ASSUME NEW c \in successors[n], keys[c] = StepOf(keys[n], m)
        PROVE  StepOf(keys[n], m) \in S
    <3>1. c \in Nodes /\ c \notin closure
      BY <1>0, <1>2, <2>1 DEF TypeOK
    <3> QED BY <1>3, <2>4, <3>1
  <2> QED BY <2>3, <2>4 DEF Followed
<1> QED BY <1>4, <1>5, <1>6 DEF CanReach

\* What the closure holds can come to the goal, if nothing was left open.
LEMMA ClosureCanReach ==
  ASSUME SearchInv, DepthInv, NEW goal, open = {}
  PROVE  \A n \in BackwardClosure(Hits(goal)) : CanReach(keys[n], goal)
<1> DEFINE B == {n \in Nodes : CanReach(keys[n], goal)}
<1>0. TypeOK
  BY DEF SearchInv
<1>1. Hits(goal) \subseteq B
  BY DEF Hits, CanReach
<1>2. ASSUME NEW n \in Nodes, NEW c \in successors[n], c \in B
      PROVE  n \in B
  <2>1. PICK m \in Moves : keys[c] = StepOf(keys[n], m)
    BY DEF DepthInv, EdgesAreMoves
  <2>2. keys[c] # NoWorld
    <3>1. c \in Nodes
      BY <1>2
    <3>2. keys[c] \in Worlds
      BY <1>0, <3>1 DEF TypeOK, Nodes
    <3> QED BY <1>0, <3>2, ProblemFacts DEF TypeOK
  <2> SUFFICES ASSUME NEW S \in SUBSET Worlds, keys[n] \in S, Closed(S)
               PROVE  S \cap goal # {}
    BY DEF CanReach
  <2>3. keys[c] \in S
    BY <2>1, <2>2 DEF Closed
  <2> QED BY <1>2, <2>3 DEF CanReach
<1>3. Hits(goal) \subseteq Nodes /\ B \in SUBSET Nodes
  BY DEF Hits
<1>4. BackwardClosure(Hits(goal)) \subseteq B
  <2> HIDE DEF B
  <2> QED BY <1>0, <1>1, <1>2, <1>3, ClosureFacts
<1> QED BY <1>4

LEMMA LiveTrueNow == SearchInv /\ DepthInv /\ ResultsStand => LiveVerdictsTrue
<1> SUFFICES ASSUME SearchInv, DepthInv, ResultsStand, phase = "done", Bound # "budget",
                    NEW c \in Claims, c.kind = "live"
             PROVE  LET r == results[c]
                    IN /\ r.status # "inconclusive"
                       /\ r.witness # 0 => r.status = "violated" /\ ~CanReach(keys[r.witness], c.goal)
                       /\ r.status = "violated" /\ r.witness = 0 =>
                            Within(Problem.horizon) \cap c.goal = {}
                       /\ r.status = "holds" /\ Bound = "exhaustive" =>
                            \A w \in Worlds : CanReach(Problem.root, {w}) => CanReach(w, c.goal)
  BY DEF LiveVerdictsTrue
<1> DEFINE v == LiveVerdict(c.goal)
<1>0. TypeOK /\ TreeOfSteps /\ Ended
  BY DEF SearchInv, Ended
<1>1. results[c].status = v.status /\ results[c].witness = v.witness
  BY <1>0, JudgedAsChecked DEF ResultsStand, Check
<1>2. CASE Locks(c.goal) # {}
  <2>1. v = Verdict("violated", Shallowest(Locks(c.goal)))
    BY <1>2 DEF LiveVerdict
  <2>2. Shallowest(Locks(c.goal)) \in Locks(c.goal)
    BY <1>0, <1>2, ShallowestFacts DEF Locks
  <2>3. v.witness = Shallowest(Locks(c.goal)) /\ v.status = "violated"
    BY <2>1 DEF Verdict
  <2>4. ~CanReach(keys[Shallowest(Locks(c.goal))], c.goal)
    BY <1>0, <2>2, LocksAreReal
  <2>5. Shallowest(Locks(c.goal)) # 0
    BY <2>2 DEF Locks, Nodes
  <2> HIDE DEF v
  <2> QED BY <1>1, <2>3, <2>4, <2>5
<1>3. CASE Locks(c.goal) = {} /\ Hits(c.goal) = {}
  <2>1. v = Verdict("violated", 0)
    BY <1>3 DEF LiveVerdict
  <2>2. Explored = Within(Problem.horizon)
    BY <1>0, HorizonFromDepth DEF HorizonIsComplete, Bound
  <2>3. Within(Problem.horizon) \cap c.goal = {}
    BY <1>3, <2>2 DEF Explored, Hits
  <2> HIDE DEF v
  <2> QED BY <1>1, <2>1, <2>3 DEF Verdict
<1>4. CASE Locks(c.goal) = {} /\ Hits(c.goal) # {}
  <2>1. v = Verdict("holds", 0)
    BY <1>4 DEF LiveVerdict
  <2>2. ASSUME Bound = "exhaustive", NEW w \in Worlds, CanReach(Problem.root, {w})
        PROVE  CanReach(w, c.goal)
    <3>1. open = {} /\ Closed(Explored)
      BY <1>0, <2>2, FrontierEmptied DEF Bound
    <3>2. Explored \in SUBSET Worlds /\ Problem.root \in Explored
      <4>1. \A n \in Nodes : keys[n] \in Worlds
        BY <1>0 DEF TypeOK, Nodes
      <4>2. 1 \in Nodes /\ keys[1] = Problem.root
        BY <1>0 DEF TypeOK, Nodes, TreeOfSteps
      <4> QED BY <4>1, <4>2 DEF Explored
    <3>3. w \in Explored
      BY <2>2, <3>1, <3>2 DEF CanReach
    <3>4. PICK n \in Nodes : keys[n] = w
      BY <3>3 DEF Explored
    <3>5. n \in BackwardClosure(Hits(c.goal))
      <4>1. Hits(c.goal) \cup open = Hits(c.goal)
        BY <3>1
      <4> QED BY <1>4, <4>1 DEF Locks
    <3> QED BY <3>1, <3>4, <3>5, ClosureCanReach
  <2> HIDE DEF v
  <2> QED BY <1>1, <2>1, <2>2 DEF Verdict
<1> QED BY <1>2, <1>3, <1>4

\* What the prover says of `live` is so, in a search no budget cut short: from
\* a lock it names the goal is out of reach for ever, and an exhaustive search
\* that names none leaves none.
THEOREM LiveVerdictsCorrect == Spec => []LiveVerdictsTrue
<1> QED BY DepthInvariant, ResultsInvariant, LiveTrueNow, PTL

-----------------------------------------------------------------------------
(* The moves of a project. *)

\* The recursion of Listed.
IsListing(f, events, n) ==
  f = [k \in 0 .. n |-> IF k = 0 THEN <<>>
                        ELSE Append(f[k - 1], CHOOSE e \in events : e \notin Range(f[k - 1]))]

\* A set that is not all listed has a member to come.
LEMMA ListedNext ==
  ASSUME NEW events, IsFiniteSet(events), NEW s \in Seq(events), Len(s) < Cardinality(events)
  PROVE  \E e \in events : e \notin Range(s)
<1> SUFFICES ASSUME events \subseteq Range(s) PROVE FALSE
  OBVIOUS
<1> DEFINE N == Len(s)
<1>1. N \in Nat /\ Range(s) = {s[i] : i \in 1 .. N}
  BY DEF Range
<1>2. IsFiniteSet(1 .. N) /\ Cardinality(1 .. N) = N
  <2>1. 1 \in Int /\ N \in Int /\ (IF 1 > N THEN 0 ELSE N - 1 + 1) = N
    BY <1>1
  <2> HIDE DEF N
  <2> QED BY <2>1, FS_Interval
<1>3. IsFiniteSet(Range(s)) /\ Cardinality(Range(s)) <= N
  <2> DEFINE at == [i \in 1 .. N |-> s[i]]
             image == {at[i] : i \in 1 .. N}
  <2>1. image = Range(s)
    BY <1>1
  <2>2. at \in Surjection(1 .. N, image)
    BY DEF Surjection
  <2> HIDE DEF at, image
  <2>3. IsFiniteSet(image) /\ Cardinality(image) <= Cardinality(1 .. N)
    BY <1>2, <2>2, FS_Surjection
  <2> QED BY <1>2, <2>1, <2>3
<1>4. Cardinality(events) <= Cardinality(Range(s))
  BY <1>3, FS_Subset
<1>5. Cardinality(events) \in Nat /\ Cardinality(Range(s)) \in Nat
  BY <1>3, FS_CardinalityType
<1> QED BY <1>1, <1>3, <1>4, <1>5

\* The list of a set is a list of its members.
LEMMA ListedFacts ==
  ASSUME NEW events, IsFiniteSet(events)
  PROVE  Listed(events) \in Seq(events)
<1> DEFINE N == Cardinality(events)
           S == {n \in Nat : n <= N =>
                   \E f : IsListing(f, events, n) /\ \A k \in 0 .. n : f[k] \in Seq(events) /\ Len(f[k]) = k}
<1>1. N \in Nat
  BY FS_CardinalityType
<1>2. 0 \in S
  <2> DEFINE f == [k \in 0 .. 0 |-> <<>>]
  <2>1. IsListing(f, events, 0) /\ \A k \in 0 .. 0 : f[k] \in Seq(events) /\ Len(f[k]) = k
    BY DEF IsListing
  <2> HIDE DEF f
  <2> QED BY <2>1
<1>3. ASSUME NEW n \in Nat, n \in S PROVE n + 1 \in S
  <2> SUFFICES ASSUME n + 1 <= N
               PROVE  \E h : /\ IsListing(h, events, n + 1)
                             /\ \A k \in 0 .. n + 1 : h[k] \in Seq(events) /\ Len(h[k]) = k
    OBVIOUS
  <2>1. PICK f : IsListing(f, events, n) /\ \A k \in 0 .. n : f[k] \in Seq(events) /\ Len(f[k]) = k
    BY <1>1, <1>3
  <2> DEFINE e == CHOOSE x \in events : x \notin Range(f[n])
             h == [k \in 0 .. n + 1 |-> IF k = n + 1 THEN Append(f[n], e) ELSE f[k]]
  <2>2. f[n] \in Seq(events) /\ Len(f[n]) = n /\ Len(f[n]) < N
    BY <1>1, <2>1
  <2>3. e \in events
    <3> HIDE DEF N
    <3>1. \E x \in events : x \notin Range(f[n])
      BY <2>2, ListedNext DEF N
    <3> QED BY <3>1
  <2>4. \A k \in 0 .. n : f[k] = IF k = 0 THEN <<>>
                                 ELSE Append(f[k - 1], CHOOSE x \in events : x \notin Range(f[k - 1]))
    BY <2>1 DEF IsListing
  <2>5. \A k \in 0 .. n + 1 : h[k] = IF k = 0 THEN <<>>
                                     ELSE Append(h[k - 1], CHOOSE x \in events : x \notin Range(h[k - 1]))
    <3> SUFFICES ASSUME NEW k \in 0 .. n + 1
                 PROVE  h[k] = IF k = 0 THEN <<>>
                               ELSE Append(h[k - 1], CHOOSE x \in events : x \notin Range(h[k - 1]))
      OBVIOUS
    <3>1. CASE k = n + 1
      <4>1. k # 0 /\ k - 1 = n /\ h[n] = f[n]
        BY <3>1
      <4> QED BY <3>1, <4>1, SMTT(30), ZenonT(30)
    <3>2. CASE k # n + 1
      <4>1. k \in 0 .. n /\ h[k] = f[k] /\ (k # 0 => h[k - 1] = f[k - 1])
        BY <3>2
      <4> HIDE DEF h
      <4> QED BY <4>1, <2>4
    <3> QED BY <3>1, <3>2
  <2>6. \A k \in 0 .. n + 1 : h[k] \in Seq(events) /\ Len(h[k]) = k
    <3> HIDE DEF e
    <3> QED BY <2>1, <2>2, <2>3
  <2>7. IsListing(h, events, n + 1)
    BY <2>5 DEF IsListing
  <2> HIDE DEF h
  <2> QED BY <2>6, <2>7
<1>4. N \in S
  <2> HIDE DEF S, N
  <2> QED BY <1>1, <1>2, <1>3, SetInduction
<1>5. PICK f : IsListing(f, events, N) /\ f[N] \in Seq(events)
  BY <1>1, <1>4
<1> DEFINE first == CHOOSE h : IsListing(h, events, N)
<1>6. IsListing(first, events, N)
  BY <1>5
<1>7. Listed(events) = first[N]
  BY DEF Listed, IsListing
<1> HIDE DEF first, N
<1>8. \A k \in 0 .. N : first[k] = f[k]
  <2>1. first[0] = f[0]
    BY <1>1, <1>5, <1>6 DEF IsListing
  <2>2. ASSUME NEW n \in Nat, n + 1 <= N, first[n] = f[n] PROVE first[n + 1] = f[n + 1]
    <3>1. n + 1 \in 0 .. N /\ n + 1 # 0 /\ (n + 1) - 1 = n
      BY <1>1, <2>2
    <3>2. /\ first[n + 1] = Append(first[n], CHOOSE x \in events : x \notin Range(first[n]))
          /\ f[n + 1] = Append(f[n], CHOOSE x \in events : x \notin Range(f[n]))
      BY <1>5, <1>6, <3>1 DEF IsListing
    <3> QED BY <2>2, <3>2
  <2> QED BY <1>1, <2>1, <2>2, Agreeing
<1> QED BY <1>1, <1>5, <1>7, <1>8

\* The argument of a move is one its verb takes.
Fits(event, contract) ==
  /\ event.verb \in contract.affordances /\ event.verb \in DeclaredVerbs(contract)
  /\ ArgumentError(SpecOf(contract, event.verb).arg, event.arg) = "none"

\* A move is the wait, or an event that no contract of the project refuses for
\* its verb or its argument.
LEMMA EventFacts ==
  ASSUME NEW project, IsProject(project), NEW event \in EventsOf(project),
         \A entity \in DOMAIN project.contracts : Sound(project.contracts[entity])
  PROVE  event.entity \in DOMAIN project.contracts /\ Fits(event, project.contracts[event.entity])
<1>1. PICK entity \in DOMAIN project.contracts :
        event \in UNION {[entity : {entity}, verb : {verb},
                          arg : ArgumentsOf(project.contracts[entity], verb, project.amounts)] :
                           verb \in project.contracts[entity].affordances
                                      \cap DeclaredVerbs(project.contracts[entity])}
  BY DEF EventsOf
<1> DEFINE contract == project.contracts[entity]
<1>2. PICK verb \in contract.affordances \cap DeclaredVerbs(contract) :
        event \in [entity : {entity}, verb : {verb}, arg : ArgumentsOf(contract, verb, project.amounts)]
  BY <1>1
<1>3. event.entity = entity /\ event.verb = verb
      /\ event.arg \in ArgumentsOf(contract, verb, project.amounts)
  BY <1>2
<1>4. SpecOf(contract, verb).arg \in {"none", "count"}
  BY <1>2 DEF Sound, SpecSound
<1>5. ArgumentError(SpecOf(contract, verb).arg, event.arg) = "none"
  <2>1. CASE SpecOf(contract, verb).arg = "count"
    <3>1. PICK n \in CandidateAmounts(contract, SpecOf(contract, verb), project.amounts) :
            event.arg = IntV(n)
      BY <1>3, <2>1 DEF ArgumentsOf
    <3>2. n \in 1 .. MaxEventArg /\ MaxEventArg \in Int
      BY <3>1, KernelConstants DEF CandidateAmounts
    <3>3. TypeOf(event.arg) = "int" /\ Raw(event.arg) \in 0 .. MaxEventArg
      BY <3>1, <3>2 DEF IntV, TypeOf, Raw
    <3> QED BY <2>1, <3>3 DEF ArgumentError
  <2>2. CASE SpecOf(contract, verb).arg = "none"
    <3>1. event.arg = NoValue
      BY <1>3, <2>2 DEF ArgumentsOf
    <3> QED BY <2>2, <3>1 DEF ArgumentError
  <2> QED BY <1>4, <2>1, <2>2
<1> QED BY <1>2, <1>3, <1>5 DEF Fits

LEMMA MovesFacts ==
  ASSUME NEW project, IsProject(project)
  PROVE  /\ Len(MovesOf(project)) \in Nat \ {0}
         /\ MovesOf(project)[1] = NoEvent
         /\ \A m \in 1 .. Len(MovesOf(project)) : MovesOf(project)[m] \in {NoEvent} \cup EventsOf(project)
<1> DEFINE events == EventsOf(project)
           list == Listed(events)
           all == {NoEvent} \cup events
<1>1. list \in Seq(all)
  <2>1. list \in Seq(events)
    BY ListedFacts DEF IsProject
  <2> HIDE DEF list, events
  <2> QED BY <2>1
<1>2. MovesOf(project) = <<NoEvent>> \o list
  BY DEF MovesOf
<1>3. <<NoEvent>> \in Seq(all)
  OBVIOUS
<1> HIDE DEF list, events, all
<1>4. <<NoEvent>> \o list \in Seq(all) /\ Len(<<NoEvent>> \o list) = 1 + Len(list)
  BY <1>1, <1>3
<1>5. (<<NoEvent>> \o list)[1] = NoEvent
  BY <1>1
<1>6. Len(list) \in Nat
  BY <1>1
<1> QED BY <1>2, <1>4, <1>5, <1>6 DEF all, events

-----------------------------------------------------------------------------
(* A move, in a steady world. *)

\* A project the kernel has loaded.
Ready(project) ==
  /\ IsProject(project)
  /\ AllLoaded(project.contracts)

IsSteady(project, world) == Steady(project.contracts, Outcome(world, "none"))

LEMMA SteadyWorld ==
  ASSUME NEW contracts, NEW outcome, Steady(contracts, outcome)
  PROVE  /\ DOMAIN outcome.world = DOMAIN contracts
         /\ outcome = Outcome(outcome.world, "none")
         /\ \A e \in DOMAIN contracts : EntryTyped(contracts[e], outcome.world[e])
<1>1. outcome.world = [e \in DOMAIN contracts |-> outcome.world[e]]
  BY DEF Steady, Kept
<1>2. DOMAIN outcome.world = DOMAIN contracts
  BY <1>1
<1> QED BY <1>2 DEF Steady, Kept, Whole

\* The event of a move is refused where it is delivered, or the world after it is steady.
LEMMA EventSteady ==
  ASSUME NEW project, Ready(project), NEW world, IsSteady(project, world),
         NEW event \in {NoEvent} \cup EventsOf(project)
  PROVE  LET begun == AfterEvent(project, world, event)
         IN \/ Steady(project.contracts, begun)
            \/ /\ begun.error # "none" /\ event # NoEvent
               /\ event.entity \in DOMAIN project.contracts
               /\ Fits(event, project.contracts[event.entity])
               /\ DeliveryError(project.contracts[event.entity], world[event.entity].state,
                                event.verb, event.arg) # "none"
<1>1. CASE event = NoEvent
  BY <1>1 DEF AfterEvent, IsSteady
<1>2. CASE event # NoEvent
  <2> DEFINE before == Outcome(world, "none")
  <2>1. AfterEvent(project, world, event)
          = DeliverTo(project.contracts, before, event.entity, event.verb, event.arg)
    BY <1>2 DEF AfterEvent
  <2>2. event.entity \in DOMAIN project.contracts /\ Fits(event, project.contracts[event.entity])
    BY <1>2, EventFacts DEF Ready, AllLoaded
  <2>3. before.world = world /\ Steady(project.contracts, before) /\ AllLoaded(project.contracts)
    BY DEF Outcome, IsSteady, Ready
  <2> HIDE DEF before
  <2> QED BY <1>2, <2>1, <2>2, <2>3, DeliverySteady
<1> QED BY <1>1, <1>2

\* What is left of a tick once its event is delivered leads to a steady world.
LEMMA SettledSteady ==
  ASSUME NEW project, Ready(project), NEW begun, Steady(project.contracts, begun)
  PROVE  LET wired == Wired(project, begun)
         IN /\ Steady(project.contracts, wired)
            /\ Settled(project, begun)
                 = [e \in DOMAIN project.contracts |-> StepEntity(project.contracts[e], wired.world[e])]
            /\ IsSteady(project, Settled(project, begun))
<1> DEFINE wired == Wired(project, begun)
           moved == [e \in DOMAIN project.contracts |-> StepEntity(project.contracts[e], wired.world[e])]
<1>1. Steady(project.contracts, wired)
  BY CoupledSteady DEF Wired, Ready, IsProject
<1>2. begun.error = "none"
  BY DEF Steady
<1>3. DOMAIN wired.world = DOMAIN project.contracts
  BY <1>1, SteadyWorld
<1>4. Settled(project, begun) = moved
  BY <1>2, <1>3 DEF Settled, Moved
<1> HIDE DEF wired
<1>5. Steady(project.contracts, Outcome(moved, "none"))
  BY <1>1, MovedSteady DEF Ready
<1> QED BY <1>1, <1>4, <1>5 DEF IsSteady, wired

\* So a step is refused with its event, or is one of the kernel's ticks.
LEMMA StepSteady ==
  ASSUME NEW project, Ready(project), NEW world, IsSteady(project, world),
         NEW event \in {NoEvent} \cup EventsOf(project)
  PROVE  IF AfterEvent(project, world, event).error = "none"
         THEN IsSteady(project, Step(project, world, event))
         ELSE Step(project, world, event) = NoWorld
<1> DEFINE begun == AfterEvent(project, world, event)
<1>1. CASE begun.error = "none"
  <2>1. Steady(project.contracts, begun)
    BY <1>1, EventSteady
  <2> HIDE DEF begun
  <2>2. IsSteady(project, Settled(project, begun))
    BY <2>1, SettledSteady
  <2> QED BY <1>1, <2>2 DEF Step, begun
<1>2. CASE begun.error # "none"
  BY <1>2 DEF Step, Settled
<1> QED BY <1>1, <1>2

\* A tick of the kernel whose due events are the event of a move is the step of that move.
LEMMA TickIsStep ==
  ASSUME NEW project, Ready(project), NEW world, IsSteady(project, world),
         NEW event \in {NoEvent} \cup EventsOf(project),
         AfterEvent(project, world, event).error = "none",
         NEW events, NEW tick,
         Told(project.contracts, events, tick, Outcome(world, "none"), Len(events))
           = AfterEvent(project, world, event)
  PROVE  TickOf(project.contracts, project.wires, world, events, tick)
           = Outcome(Step(project, world, event), "none")
<1> DEFINE begun == AfterEvent(project, world, event)
           wired == Wired(project, begun)
           contracts == project.contracts
<1>1. Steady(contracts, begun)
  BY EventSteady
<1>2. /\ Steady(contracts, wired)
      /\ Settled(project, begun) = [e \in DOMAIN contracts |-> StepEntity(contracts[e], wired.world[e])]
  <2> HIDE DEF begun
  <2> QED BY <1>1, SettledSteady
<1>3. DOMAIN world = DOMAIN contracts
  <2>1. Outcome(world, "none").world = world
    BY DEF Outcome
  <2> QED BY <2>1, SteadyWorld DEF IsSteady
<1>4. ApplyWires(contracts, project.wires, begun) = wired
  BY DEF Wired
<1>5. wired.error = "none"
  BY <1>2 DEF Steady
<1>6. \A e \in DOMAIN contracts : ~StepRaises(contracts[e], wired.world[e])
  <2> SUFFICES ASSUME NEW e \in DOMAIN contracts PROVE ~StepRaises(contracts[e], wired.world[e])
    OBVIOUS
  <2>1. Sound(contracts[e]) /\ Whole(contracts[e], wired.world[e])
    BY <1>2 DEF Ready, AllLoaded, Steady, Kept
  <2> HIDE DEF wired, contracts
  <2> QED BY <2>1, SameStep
<1>7. Step(project, world, event) = [e \in DOMAIN contracts |-> StepEntity(contracts[e], wired.world[e])]
  BY <1>2 DEF Step
<1>8. Told(contracts, events, tick, Outcome(world, "none"), Len(events)) = begun
  OBVIOUS
<1> HIDE DEF begun, wired, contracts
<1>9. TickOf(contracts, project.wires, world, events, tick)
        = Outcome([e \in DOMAIN world |-> StepEntity(contracts[e], wired.world[e])], "none")
  BY <1>3, <1>4, <1>5, <1>6, <1>8 DEF TickOf
<1> QED BY <1>3, <1>7, <1>9 DEF contracts

\* The first world is steady.
LEMMA RootSteady ==
  ASSUME NEW project, Ready(project)
  PROVE  /\ IsSteady(project, RootWorld(project))
         /\ \A e \in DOMAIN project.contracts :
              DOMAIN RootWorld(project)[e].state = DOMAIN project.contracts[e].state
<1> DEFINE contracts == project.contracts
           root == RootWorld(project)
           given(e) == IF e \in DOMAIN project.initial THEN project.initial[e] ELSE <<>>
<1>1. root = [e \in DOMAIN contracts |-> [state |-> InitialState(contracts[e], given(e)), control |-> <<>>]]
  BY DEF RootWorld, InitialWorld
<1>2. ASSUME NEW e \in DOMAIN contracts
      PROVE  Whole(contracts[e], root[e]) /\ DOMAIN root[e].state = DOMAIN contracts[e].state
  <2>1. ContractOK(contracts[e]) /\ Sound(contracts[e])
    BY DEF Ready, AllLoaded
  <2>2. \A var \in DOMAIN given(e) \cap DOMAIN contracts[e].state :
          HasType(given(e)[var], contracts[e].state[var])
    BY DEF Ready, IsProject, InitialOK, HasType
  <2>3. root[e] = [state |-> InitialState(contracts[e], given(e)), control |-> <<>>]
    BY <1>1
  <2> HIDE DEF given, root, contracts
  <2>4. EntryTyped(contracts[e], [state |-> InitialState(contracts[e], given(e)), control |-> <<>>])
    BY <2>1, <2>2, InitialTyped
  <2>5. InitialState(contracts[e], given(e))
          = [var \in DOMAIN contracts[e].state |-> InitialState(contracts[e], given(e))[var]]
        /\ DOMAIN InitialState(contracts[e], given(e)) = DOMAIN contracts[e].state
    BY DEF InitialState
  <2>6. <<>> = [name \in DOMAIN <<>> |-> <<>>[name]]
    OBVIOUS
  <2>7. Whole(contracts[e], root[e])
    BY <2>3, <2>4, <2>5, <2>6, WholeRecord
  <2> QED BY <2>3, <2>5, <2>7
<1>3. Kept(contracts, Outcome(root, "none"))
  <2>1. root = [e \in DOMAIN contracts |-> root[e]]
    BY <1>1
  <2> HIDE DEF root, contracts
  <2> QED BY <1>2, <2>1 DEF Kept, Outcome
<1> HIDE DEF root
<1>4. Outcome(root, "none").error = "none" /\ Outcome(root, "none").world = root
  BY DEF Outcome
<1>5. Steady(contracts, Outcome(root, "none"))
  BY <1>2, <1>3, <1>4 DEF Steady, Healthless
<1> QED BY <1>2, <1>5 DEF IsSteady, root

-----------------------------------------------------------------------------
(* The events of a path, and what a tick is told of them. *)

\* The events a path may come to hold.
EventsAlong(path, moves) ==
  {EventAt(t - 1, moves[path[t]]) : t \in {u \in 1 .. Len(path) : moves[path[u]] # NoEvent}}

\* The list one move further along the path.
Further(list, path, moves, t) ==
  IF moves[path[t]] = NoEvent THEN list ELSE Append(list, EventAt(t - 1, moves[path[t]]))

\* The recursion of EventsOn.
LEMMA TakenExists ==
  ASSUME NEW path, NEW moves, Len(path) \in Nat
  PROVE  \E f \in [0 .. Len(path) -> Seq(EventsAlong(path, moves))] :
           /\ f[0] = <<>>
           /\ \A t \in 1 .. Len(path) : f[t] = Further(f[t - 1], path, moves, t)
           /\ EventsOn(path, moves) = f[Len(path)]
<1> DEFINE N == Len(path)
           X == EventsAlong(path, moves)
           T == Seq(X)
           g == [t \in 1 .. N |-> [list \in T |-> Further(list, path, moves, t)]]
           Gathers(f) == f = [t \in 0 .. N |-> IF t = 0 THEN <<>> ELSE Further(f[t - 1], path, moves, t)]
           taken == CHOOSE f : Gathers(f)
<1>1. \A t \in 1 .. N : \A list \in T : Further(list, path, moves, t) \in T
  <2> SUFFICES ASSUME NEW t \in 1 .. N, NEW list \in T PROVE Further(list, path, moves, t) \in T
    OBVIOUS
  <2>1. CASE moves[path[t]] = NoEvent
    BY <2>1 DEF Further
  <2>2. CASE moves[path[t]] # NoEvent
    <3>1. EventAt(t - 1, moves[path[t]]) \in X
      BY <2>2 DEF EventsAlong
    <3>2. Append(list, EventAt(t - 1, moves[path[t]])) \in T
      <4> HIDE DEF X
      <4> QED BY <3>1
    <3> QED BY <2>2, <3>2 DEF Further
  <2> QED BY <2>1, <2>2
<1>2. <<>> \in T
  OBVIOUS
<1> HIDE DEF T
<1>3. \A k \in 1 .. N : \A x \in T : g[k][x] \in T
  BY <1>1
<1>4. PICK f \in [0 .. N -> T] : Recurs(f, <<>>, g, N)
  <2> HIDE DEF g, N
  <2> QED BY <1>2, <1>3, Recursion DEF N
<1>5. f = [t \in 0 .. N |-> IF t = 0 THEN <<>> ELSE g[t][f[t - 1]]]
  BY <1>4 DEF Recurs
<1>6. \A t \in 0 .. N : t # 0 => g[t][f[t - 1]] = Further(f[t - 1], path, moves, t)
  <2> SUFFICES ASSUME NEW t \in 1 .. N PROVE g[t][f[t - 1]] = Further(f[t - 1], path, moves, t)
    OBVIOUS
  <2>1. t - 1 \in 0 .. N /\ f[t - 1] \in T
    BY <1>4
  <2> QED BY <2>1
<1>7. Gathers(f)
  <2> HIDE DEF g
  <2>1. \A t \in 0 .. N : f[t] = IF t = 0 THEN <<>> ELSE Further(f[t - 1], path, moves, t)
    BY <1>5, <1>6
  <2>2. f = [t \in 0 .. N |-> f[t]]
    BY <1>4
  <2> QED BY <2>1, <2>2
<1>8. Gathers(taken)
  <2> HIDE DEF Gathers
  <2> QED BY <1>7
<1>9. EventsOn(path, moves) = taken[N]
  BY DEF EventsOn, Further
<1> HIDE DEF taken
<1>10. \A k \in 0 .. N : taken[k] = f[k]
  <2>1. taken[0] = f[0]
    BY <1>7, <1>8
  <2>2. ASSUME NEW n \in Nat, n + 1 <= N, taken[n] = f[n] PROVE taken[n + 1] = f[n + 1]
    <3>1. n + 1 \in 0 .. N /\ n + 1 # 0 /\ (n + 1) - 1 = n
      BY <2>2
    <3>2. taken[n + 1] = Further(taken[n], path, moves, n + 1) /\ f[n + 1] = Further(f[n], path, moves, n + 1)
      BY <1>7, <1>8, <3>1
    <3> QED BY <2>2, <3>2
  <2> HIDE DEF N
  <2> QED BY <2>1, <2>2, Agreeing DEF N
<1>11. f[0] = <<>> /\ \A t \in 1 .. N : f[t] = Further(f[t - 1], path, moves, t)
  BY <1>7
<1>12. EventsOn(path, moves) = f[N]
  BY <1>9, <1>10
<1> QED BY <1>4, <1>11, <1>12 DEF T

\* The ticks of its events, and the entities they are for.
LEMMA EventsOnFacts ==
  ASSUME NEW path, NEW moves, Len(path) \in Nat
  PROVE  /\ EventsOn(path, moves) \in Seq(EventsAlong(path, moves))
         /\ Len(EventsOn(path, moves)) \in Nat
<1> DEFINE X == EventsAlong(path, moves)
<1>1. EventsOn(path, moves) \in Seq(X)
  <2> HIDE DEF X
  <2>1. PICK f \in [0 .. Len(path) -> Seq(X)] : EventsOn(path, moves) = f[Len(path)]
    BY TakenExists DEF X
  <2> QED BY <2>1
<1> HIDE DEF X
<1>2. Len(EventsOn(path, moves)) \in Nat
  BY <1>1
<1> QED BY <1>1, <1>2 DEF X

\* One event more at the end of the file is one more to tell.
LEMMA ToldAppend ==
  ASSUME NEW contracts, NEW X, NEW events \in Seq(X), NEW e \in X, NEW tick, NEW outcome
  PROVE  Told(contracts, Append(events, e), tick, outcome, Len(Append(events, e)))
           = AfterEventOf(contracts, tick, Told(contracts, events, tick, outcome, Len(events)), e)
<1> DEFINE more == Append(events, e)
           N == Len(events)
           f == [n \in 0 .. N |-> Told(contracts, events, tick, outcome, n)]
           h == [n \in 0 .. N |-> Told(contracts, more, tick, outcome, n)]
<1>1. /\ Len(more) = N + 1 /\ N \in Nat /\ more[N + 1] = e
      /\ \A n \in 1 .. N : more[n] = events[n]
  OBVIOUS
<1> HIDE DEF more
<1>2. /\ Told(contracts, events, tick, outcome, 0) = outcome
      /\ \A n \in 1 .. N : Told(contracts, events, tick, outcome, n)
                             = AfterEventOf(contracts, tick, Told(contracts, events, tick, outcome, n - 1), events[n])
  <2>1. Len(events) \in Nat
    BY <1>1
  <2> QED BY <2>1, ToldPasses
<1>3. /\ Told(contracts, more, tick, outcome, 0) = outcome
      /\ \A n \in 1 .. N + 1 : Told(contracts, more, tick, outcome, n)
                                 = AfterEventOf(contracts, tick, Told(contracts, more, tick, outcome, n - 1), more[n])
  BY <1>1, ToldPasses
<1> HIDE DEF N
<1>4. \A k \in 0 .. N : h[k] = f[k]
  <2>1. h[0] = f[0]
    BY <1>1, <1>2, <1>3
  <2>2. ASSUME NEW n \in Nat, n + 1 <= N, h[n] = f[n] PROVE h[n + 1] = f[n + 1]
    <3>1. n \in 0 .. N /\ n + 1 \in 0 .. N /\ n + 1 \in 1 .. N /\ n + 1 \in 1 .. N + 1 /\ (n + 1) - 1 = n
      BY <1>1, <2>2
    <3>2. h[n] = Told(contracts, more, tick, outcome, n) /\ f[n] = Told(contracts, events, tick, outcome, n)
      BY <3>1
    <3>3. Told(contracts, more, tick, outcome, n + 1)
            = AfterEventOf(contracts, tick, Told(contracts, more, tick, outcome, n), events[n + 1])
      BY <1>1, <1>3, <3>1
    <3>4. Told(contracts, events, tick, outcome, n + 1)
            = AfterEventOf(contracts, tick, Told(contracts, events, tick, outcome, n), events[n + 1])
      BY <1>2, <3>1
    <3> QED BY <2>2, <3>1, <3>2, <3>3, <3>4
  <2> HIDE DEF h, f
  <2> QED BY <1>1, <2>1, <2>2, Agreeing
<1>5. Told(contracts, more, tick, outcome, N) = Told(contracts, events, tick, outcome, N)
  <2>1. N \in 0 .. N
    BY <1>1
  <2>2. h[N] = f[N]
    BY <1>4, <2>1
  <2> QED BY <2>1, <2>2
<1>6. Told(contracts, more, tick, outcome, N + 1)
        = AfterEventOf(contracts, tick, Told(contracts, more, tick, outcome, N), e)
  <2>1. N + 1 \in 1 .. N + 1 /\ (N + 1) - 1 = N
    BY <1>1
  <2> QED BY <1>1, <1>3, <2>1
<1> QED BY <1>1, <1>5, <1>6 DEF more, N

\* There is nothing to tell of an empty file.
LEMMA ToldNone ==
  ASSUME NEW contracts, NEW tick, NEW outcome
  PROVE  Told(contracts, <<>>, tick, outcome, Len(<<>>)) = outcome
<1> DEFINE none == <<>>
<1>1. Len(none) = 0
  OBVIOUS
<1> HIDE DEF none
<1>2. Len(none) \in Nat
  BY <1>1
<1>3. Told(contracts, none, tick, outcome, 0) = outcome
  BY <1>2, ToldPasses
<1> QED BY <1>1, <1>3 DEF none

\* A tick of the path's replay is told the event of the path's move, if it is one.
LEMMA PathTold ==
  ASSUME NEW project, NEW path, NEW moves, Len(path) \in Nat, NEW t \in 1 .. Len(path), NEW world
  PROVE  LET events == EventsOn(path, moves)
         IN Told(project.contracts, events, t - 1, Outcome(world, "none"), Len(events))
              = AfterEvent(project, world, moves[path[t]])
<1> DEFINE N == Len(path)
           X == EventsAlong(path, moves)
           contracts == project.contracts
           start == Outcome(world, "none")
           event == moves[path[t]]
<1>1. PICK f \in [0 .. N -> Seq(X)] :
        /\ f[0] = <<>>
        /\ \A k \in 1 .. N : f[k] = Further(f[k - 1], path, moves, k)
        /\ EventsOn(path, moves) = f[N]
  BY TakenExists
<1> DEFINE D == [k \in 0 .. N |-> Told(contracts, f[k], t - 1, start, Len(f[k]))]
<1>2. t \in Nat /\ N \in Nat /\ 1 <= t /\ t <= N
  OBVIOUS
<1>3. D[0] = start
  <2>1. f[0] = <<>> /\ 0 \in 0 .. N
    BY <1>1, <1>2
  <2>2. Told(contracts, <<>>, t - 1, start, Len(<<>>)) = start
    BY ToldNone
  <2> QED BY <2>1, <2>2
<1>4. ASSUME NEW k \in 1 .. N
      PROVE  D[k] = IF k # t \/ moves[path[k]] = NoEvent THEN D[k - 1]
                    ELSE DeliverTo(contracts, D[k - 1], event.entity, event.verb, event.arg)
  <2> DEFINE before == f[k - 1]
             e == EventAt(k - 1, moves[path[k]])
  <2>1. k \in 0 .. N /\ k - 1 \in 0 .. N /\ before \in Seq(X) /\ f[k] = Further(before, path, moves, k)
    BY <1>1, <1>2
  <2>2. /\ D[k] = Told(contracts, f[k], t - 1, start, Len(f[k]))
        /\ D[k - 1] = Told(contracts, before, t - 1, start, Len(before))
    BY <2>1
  <2>3. CASE moves[path[k]] = NoEvent
    <3>1. f[k] = before
      BY <2>1, <2>3 DEF Further
    <3> QED BY <2>2, <2>3, <3>1
  <2>4. CASE moves[path[k]] # NoEvent
    <3>1. e \in X
      BY <2>4 DEF EventsAlong
    <3>2. f[k] = Append(before, e)
      BY <2>1, <2>4 DEF Further
    <3>3. /\ e.tick = k - 1 /\ e.entity = moves[path[k]].entity
          /\ e.verb = moves[path[k]].verb /\ e.arg = moves[path[k]].arg
      BY DEF EventAt
    <3> HIDE DEF e, before, X, D
    <3>4. D[k] = AfterEventOf(contracts, t - 1, D[k - 1], e)
      BY <2>1, <2>2, <3>1, <3>2, ToldAppend
    <3>5. e.tick = t - 1 <=> k = t
      BY <1>2, <3>3
    <3>6. CASE k = t
      BY <2>4, <3>3, <3>4, <3>5, <3>6 DEF AfterEventOf
    <3>7. CASE k # t
      BY <3>4, <3>5, <3>7 DEF AfterEventOf
    <3> QED BY <3>6, <3>7
  <2> QED BY <2>3, <2>4
<1> HIDE DEF D, start
<1>5. D[t - 1] = start
  <2>1. \A n \in 0 .. (t - 1) - 1 : D[n] = D[0] => D[n + 1] = D[n]
    <3> SUFFICES ASSUME NEW n \in 0 .. (t - 1) - 1 PROVE D[n + 1] = D[n]
      OBVIOUS
    <3>1. n + 1 \in 1 .. N /\ n + 1 # t /\ (n + 1) - 1 = n
      BY <1>2
    <3> QED BY <1>4, <3>1
  <2>2. 0 \in Nat /\ t - 1 \in Nat /\ 0 <= t - 1 /\ t - 1 \in 0 .. t - 1
    BY <1>2
  <2>3. \A k \in 0 .. t - 1 : D[k] = D[0]
    BY <2>1, <2>2, Stays
  <2> QED BY <1>3, <2>2, <2>3
<1>6. D[t] = AfterEvent(project, world, event)
  <2>1. D[t] = IF event = NoEvent THEN D[t - 1]
               ELSE DeliverTo(contracts, D[t - 1], event.entity, event.verb, event.arg)
    BY <1>2, <1>4
  <2> QED BY <1>5, <2>1 DEF AfterEvent, start
<1>7. D[N] = D[t]
  <2>1. \A n \in t .. N - 1 : D[n] = D[t] => D[n + 1] = D[n]
    <3> SUFFICES ASSUME NEW n \in t .. N - 1 PROVE D[n + 1] = D[n]
      OBVIOUS
    <3>1. n + 1 \in 1 .. N /\ n + 1 # t /\ (n + 1) - 1 = n
      BY <1>2
    <3> QED BY <1>4, <3>1
  <2>2. N \in t .. N
    BY <1>2
  <2>3. \A k \in t .. N : D[k] = D[t]
    <3> HIDE DEF N
    <3> QED BY <1>2, <2>1, Stays
  <2> QED BY <2>2, <2>3
<1>8. D[N] = Told(contracts, f[N], t - 1, start, Len(f[N]))
  BY <1>2 DEF D
<1> QED BY <1>1, <1>6, <1>7, <1>8 DEF start

-----------------------------------------------------------------------------
(* The search of a project. *)

\* What validation leaves to the author of a contract, for every project.
CoveredProjects ==
  \A id \in DOMAIN Problems : \A entity \in DOMAIN Projects[id].contracts :
    Covered(Projects[id].contracts[entity])

LEMMA ProjectFacts ==
  ASSUME CoveredProjects, TypeOK
  PROVE  LET project == Projects[problem]
             moves   == MovesOf(project)
         IN /\ Ready(project)
            /\ Problem.root = RootWorld(project) /\ Moves = 1 .. Len(moves)
            /\ \A m \in Moves : moves[m] \in {NoEvent} \cup EventsOf(project)
            /\ \A w \in Worlds : \A m \in Moves :
                 /\ StepOf(w, m) = Step(project, w, moves[m])
                 /\ StepOf(w, m) = NoWorld => AfterEvent(project, w, moves[m]).error # "none"
<1> DEFINE project == Projects[problem]
           moves == MovesOf(project)
<1>1. problem \in DOMAIN Problems
  BY DEF TypeOK
<1>2. IsProject(project) /\ IsSearchOf(problem, project)
  BY <1>1, ProblemsAreProjects
<1>3. \A e \in DOMAIN project.contracts : Covered(project.contracts[e])
  BY <1>1 DEF CoveredProjects
<1> HIDE DEF project
<1>4. AllLoaded(project.contracts)
  BY <1>2, <1>3, LoadsSound DEF AllLoaded, IsProject
<1>5. Problem.root = RootWorld(project) /\ Problem.moves = Len(moves)
  BY <1>2 DEF IsSearchOf, ProblemOf, Problem
<1>6. \A m \in 1 .. Len(moves) : moves[m] \in {NoEvent} \cup EventsOf(project)
  BY <1>2, MovesFacts
<1>7. \A w \in Worlds : \A m \in 1 .. Len(moves) :
        /\ StepOf(w, m) = Step(project, w, moves[m])
        /\ StepOf(w, m) = NoWorld => AfterEvent(project, w, moves[m]).error # "none"
  BY <1>2 DEF IsSearchOf, Worlds, StepOf
<1> QED BY <1>2, <1>4, <1>5, <1>6, <1>7 DEF Ready, Moves, project

\* A step that is not refused leaves a steady world steady.
LEMMA StepOfSteady ==
  ASSUME CoveredProjects, TypeOK, NEW w \in Worlds, IsSteady(Projects[problem], w), NEW m \in Moves
  PROVE  StepOf(w, m) # NoWorld => IsSteady(Projects[problem], StepOf(w, m))
<1> DEFINE project == Projects[problem]
           event == MovesOf(project)[m]
<1>1. /\ Ready(project) /\ event \in {NoEvent} \cup EventsOf(project)
      /\ StepOf(w, m) = Step(project, w, event)
  BY ProjectFacts
<1> HIDE DEF project, event
<1>2. IsSteady(project, w)
  BY DEF project
<1>3. \/ IsSteady(project, Step(project, w, event))
      \/ Step(project, w, event) = NoWorld
  BY <1>1, <1>2, StepSteady
<1> QED BY <1>1, <1>3 DEF project

\* Every world the search meets is steady: the steady ones are a closed set.
LEMMA NodesSteady ==
  ASSUME CoveredProjects, SearchInv
  PROVE  \A n \in Nodes : keys[n] \in Worlds /\ IsSteady(Projects[problem], keys[n])
<1> DEFINE project == Projects[problem]
           S == {w \in Worlds : IsSteady(project, w)}
<1>0. TypeOK /\ OnlyReachable
  BY DEF SearchInv
<1>1. Problem.root \in S
  <2>1. Ready(project) /\ Problem.root = RootWorld(project)
    BY <1>0, ProjectFacts
  <2>2. Problem.root \in Worlds
    BY <1>0, ProblemFacts DEF TypeOK
  <2> HIDE DEF project
  <2> QED BY <2>1, <2>2, RootSteady
<1>2. Closed(S)
  <2> SUFFICES ASSUME NEW w \in S, NEW m \in Moves, StepOf(w, m) # NoWorld
               PROVE  StepOf(w, m) \in S
    BY DEF Closed
  <2>1. StepOf(w, m) \in Worlds
    BY <1>0, ProblemFacts DEF TypeOK
  <2>2. IsSteady(project, StepOf(w, m))
    BY <1>0, StepOfSteady
  <2> QED BY <2>1, <2>2
<1> HIDE DEF S
<1>3. S \in SUBSET Worlds
  BY DEF S
<1>4. Explored \subseteq S
  BY <1>0, <1>1, <1>2, <1>3 DEF OnlyReachable
<1> QED BY <1>4 DEF Explored, S

-----------------------------------------------------------------------------
(* What the kernel refuses. *)

\* The door's verbs ask for health or for nothing.
LEMMA DoorRequires ==
  \A verb \in DOMAIN DoorAffordances : DoorAffordances[verb].requires \subseteq {"health"}
  BY DEF DoorAffordances, Verb

\* An event whose verb and argument fit is refused for a variable its verb requires.
LEMMA RefusedForState ==
  ASSUME NEW contract, Sound(contract), NEW entry, EntryTyped(contract, entry),
         NEW event, Fits(event, contract)
  PROVE  DeliveryError(contract, entry.state, event.verb, event.arg) # "none"
           <=> ~(SpecOf(contract, event.verb).requires \subseteq DOMAIN entry.state)
<1> DEFINE spec == SpecOf(contract, event.verb)
<1>1. GuardsSound(spec.guards, contract, spec.arg)
  BY DEF Fits, Sound, SpecSound
<1>2. ~GuardsRaise(spec.guards, entry.state, contract.params)
  <2> HIDE DEF spec
  <2> QED BY <1>1, GuardsNeverRaise, SMTT(30)
<1> QED BY <1>2 DEF Fits, DeliveryError

\* A move refused in one world the search met is refused in all of them, for a
\* variable the contract does not declare.
LEMMA RefusalStands ==
  ASSUME CoveredProjects, SearchInv, NEW m \in Moves,
         NEW k \in Nodes, StepOf(keys[k], m) = NoWorld
  PROVE  LET event    == MovesOf(Projects[problem])[m]
             contract == Projects[problem].contracts[event.entity]
         IN /\ \A n \in Nodes : StepOf(keys[n], m) = NoWorld
            /\ ~(SpecOf(contract, event.verb).requires \subseteq DOMAIN contract.state)
<1> DEFINE project == Projects[problem]
           event == MovesOf(project)[m]
           contract == project.contracts[event.entity]
           spec == SpecOf(contract, event.verb)
           here == keys[k]
<1>0. TypeOK
  BY DEF SearchInv
<1>1. /\ Ready(project) /\ event \in {NoEvent} \cup EventsOf(project)
      /\ \A w \in Worlds : /\ StepOf(w, m) = Step(project, w, event)
                           /\ StepOf(w, m) = NoWorld => AfterEvent(project, w, event).error # "none"
  BY <1>0, ProjectFacts
<1>2. here \in Worlds /\ IsSteady(project, here)
  BY NodesSteady DEF project
<1> HIDE DEF project, event
<1>3. AfterEvent(project, here, event).error # "none"
  BY <1>1, <1>2
<1> HIDE DEF here
<1>5. /\ event # NoEvent /\ event.entity \in DOMAIN project.contracts /\ Fits(event, contract)
      /\ DeliveryError(contract, here[event.entity].state, event.verb, event.arg) # "none"
  <2>1. ~Steady(project.contracts, AfterEvent(project, here, event))
    BY <1>3 DEF Steady
  <2> QED BY <1>1, <1>2, <2>1, EventSteady
<1>6. Sound(contract) /\ ContractOK(contract)
  BY <1>1, <1>5 DEF Ready, AllLoaded
<1>7. \A w : IsSteady(project, w) => EntryTyped(contract, w[event.entity])
  <2> SUFFICES ASSUME NEW w, IsSteady(project, w) PROVE EntryTyped(contract, w[event.entity])
    OBVIOUS
  <2>1. Outcome(w, "none").world = w
    BY DEF Outcome
  <2>2. Steady(project.contracts, Outcome(w, "none"))
    BY DEF IsSteady
  <2> QED BY <1>5, <2>1, <2>2, SteadyWorld
<1>8. ~(spec.requires \subseteq DOMAIN contract.state)
  <2>1. EntryTyped(contract, here[event.entity])
    BY <1>2, <1>7
  <2>2. ~(spec.requires \subseteq DOMAIN here[event.entity].state)
    <3> HIDE DEF contract, spec
    <3> QED BY <1>5, <1>6, <2>1, RefusedForState DEF spec
  <2>3. DOMAIN contract.state \subseteq DOMAIN here[event.entity].state
    BY <2>1 DEF EntryTyped
  <2> HIDE DEF contract, spec
  <2> QED BY <2>2, <2>3
<1>9. Healthless(contract) /\ "health" \in spec.requires
  <2>1. contract.version # "0.2"
    <3>1. contract.version = "0.2" => AffordanceOK(spec, contract)
      BY <1>5, <1>6 DEF Fits, ContractOK, SemanticsOK, SpecOf, Semantics
    <3>2. AffordanceOK(spec, contract) => spec.requires \subseteq DOMAIN contract.state
      BY DEF AffordanceOK
    <3> HIDE DEF contract, spec
    <3> QED BY <1>8, <3>1, <3>2, Zenon
  <2>2. contract.version = "0.1"
    BY <1>6, <2>1 DEF ContractOK
  <2>3. event.verb \in DOMAIN DoorAffordances /\ spec = DoorAffordances[event.verb]
    BY <1>5, <2>2 DEF Fits, DeclaredVerbs, SpecOf, Semantics
  <2>4. spec.requires \subseteq {"health"}
    BY <2>3, DoorRequires
  <2> QED BY <1>8, <2>2, <2>4 DEF Healthless
<1>10. ASSUME NEW n \in Nodes PROVE StepOf(keys[n], m) = NoWorld
  <2> DEFINE w == keys[n]
  <2>1. w \in Worlds /\ IsSteady(project, w)
    BY NodesSteady DEF project
  <2> HIDE DEF w
  <2>2. "health" \notin DOMAIN w[event.entity].state
    <3>1. Outcome(w, "none").world = w
      BY DEF Outcome
    <3> QED BY <1>5, <1>9, <2>1, <3>1 DEF IsSteady, Steady
  <2>3. ~(spec.requires \subseteq DOMAIN w[event.entity].state)
    BY <1>9, <2>2
  <2>4. DeliveryError(contract, w[event.entity].state, event.verb, event.arg) # "none"
    <3>1. EntryTyped(contract, w[event.entity])
      BY <1>7, <2>1
    <3> HIDE DEF contract, spec
    <3> QED BY <1>5, <1>6, <2>3, <3>1, RefusedForState DEF spec
  <2>5. AfterEvent(project, w, event).error # "none"
    <3> DEFINE before == Outcome(w, "none")
    <3>1. before.world = w /\ Steady(project.contracts, before) /\ AllLoaded(project.contracts)
      BY <1>1, <2>1 DEF Outcome, IsSteady, Ready
    <3>2. AfterEvent(project, w, event)
            = DeliverTo(project.contracts, before, event.entity, event.verb, event.arg)
      BY <1>5 DEF AfterEvent
    <3> HIDE DEF before
    <3> QED BY <1>5, <2>4, <3>1, <3>2, DeliverySteady
  <2>6. Step(project, w, event) = NoWorld
    BY <2>5 DEF Step, Settled
  <2> QED BY <1>1, <2>1, <2>6 DEF w
<1> QED BY <1>8, <1>10 DEF project, event

-----------------------------------------------------------------------------
(* The kernel's run of a witness. *)

\* A run along a path passes through worlds only, and they are steady.
LEMMA RunSteady ==
  ASSUME CoveredProjects, TypeOK, TreeOfSteps, NEW n \in Nodes, NEW f, IsRun(f, n)
  PROVE  \A t \in 0 .. depth[n] : f[t] \in Worlds /\ IsSteady(Projects[problem], f[t])
<1> DEFINE project == Projects[problem]
           N == depth[n]
           S == {t \in Nat : t <= N => f[t] \in Worlds /\ IsSteady(project, f[t])}
<1>1. N \in Nat /\ Path(n) \in Seq(Moves) /\ Len(Path(n)) = N /\ keys[n] \in Worlds
  BY PathFacts, TreeFacts
<1>2. f[0] = Problem.root /\ \A t \in 1 .. N : f[t] = Ticked(f[t - 1], Path(n)[t])
  BY <1>1 DEF IsRun
<1>3. NoWorld \notin Worlds /\ Problem.root \in Worlds
      /\ \A w \in Worlds : \A m \in Moves : StepOf(w, m) \in Worlds \cup {NoWorld}
  BY ProblemFacts DEF TypeOK
<1>4. \A t \in 0 .. N : f[t] # NoWorld
  <2> SUFFICES ASSUME NEW t \in 0 .. N, f[t] = NoWorld PROVE FALSE
    OBVIOUS
  <2>1. \A k \in t .. N - 1 : f[k] = f[t] => f[k + 1] = f[k]
    <3> SUFFICES ASSUME NEW k \in t .. N - 1, f[k] = f[t] PROVE f[k + 1] = f[k]
      OBVIOUS
    <3>1. k + 1 \in 1 .. N /\ (k + 1) - 1 = k
      BY <1>1
    <3> QED BY <1>2, <3>1 DEF Ticked
  <2>2. t \in Nat /\ t <= N /\ N \in t .. N
    BY <1>1
  <2>3. \A k \in t .. N : f[k] = f[t]
    <3> HIDE DEF N
    <3> QED BY <1>1, <2>1, <2>2, Stays
  <2>4. f[N] = keys[n]
    BY RunEnds
  <2> QED BY <1>1, <1>3, <2>2, <2>3, <2>4
<1>5. 0 \in S
  <2>1. Ready(project) /\ Problem.root = RootWorld(project)
    BY ProjectFacts
  <2>2. IsSteady(project, RootWorld(project))
    <3> HIDE DEF project
    <3> QED BY <2>1, RootSteady
  <2> QED BY <1>2, <1>3, <2>1, <2>2
<1>6. ASSUME NEW t \in Nat, t \in S PROVE t + 1 \in S
  <2> SUFFICES ASSUME t + 1 <= N PROVE f[t + 1] \in Worlds /\ IsSteady(project, f[t + 1])
    OBVIOUS
  <2>1. t + 1 \in 1 .. N /\ (t + 1) - 1 = t /\ t \in 0 .. N /\ t + 1 \in 0 .. N
    BY <1>1
  <2>2. f[t] \in Worlds /\ IsSteady(project, f[t]) /\ f[t] # NoWorld /\ f[t + 1] # NoWorld
    BY <1>4, <1>6, <2>1
  <2>3. Path(n)[t + 1] \in Moves
    BY <1>1, <2>1
  <2>4. f[t + 1] = StepOf(f[t], Path(n)[t + 1])
    BY <1>2, <2>1, <2>2 DEF Ticked
  <2>5. IsSteady(project, f[t + 1])
    BY <2>2, <2>3, <2>4, StepOfSteady
  <2> QED BY <1>3, <2>2, <2>3, <2>4, <2>5
<1>7. Nat \subseteq S
  <2> HIDE DEF S
  <2> QED BY <1>5, <1>6, SetInduction
<1> QED BY <1>1, <1>7

\* The recursion of RunReplay.
IsReplayed(f, replay) ==
  f = [t \in 0 .. replay.ticks + 1 |->
         IF t = 0 THEN Outcome(InitialWorld(replay), "none")
         ELSE IF f[t - 1].error # "none" THEN f[t - 1]
              ELSE TickOf(replay.contracts, replay.wires, f[t - 1].world, replay.events, t - 1)]

LEMMA ReplayFacts ==
  ASSUME NEW n
  PROVE  LET replay  == WitnessReplay(n)
             project == Projects[problem]
         IN /\ replay.contracts = project.contracts /\ replay.wires = project.wires
            /\ replay.initial = project.initial /\ replay.pinned = TRUE
            /\ replay.ticks = depth[n] - 1
            /\ replay.events = EventsOn(Path(n), MovesOf(project))
            /\ InitialWorld(replay) = RootWorld(project)
  BY DEF WitnessReplay, WitnessTicks, InitialWorld, RootWorld

\* The kernel's run of a witness ends, without an error, in the world of its node.
LEMMA WitnessRuns ==
  ASSUME CoveredProjects, TypeOK, TreeOfSteps, NEW n \in Nodes, depth[n] > 0
  PROVE  RunReplay(WitnessReplay(n)) = Outcome(keys[n], "none")
<1> DEFINE project == Projects[problem]
           moves == MovesOf(project)
           path == Path(n)
           N == depth[n]
           replay == WitnessReplay(n)
           events == EventsOn(path, moves)
           after == CHOOSE f : IsReplayed(f, replay)
<1>1. N \in Nat /\ path \in Seq(Moves) /\ Len(path) = N /\ replay.ticks + 1 = N
  <2>1. N \in Nat /\ path \in Seq(Moves) /\ Len(path) = N
    BY PathFacts, TreeFacts
  <2>2. replay.ticks = N - 1
    BY ReplayFacts
  <2> HIDE DEF replay, N, path
  <2> QED BY <2>1, <2>2
<1>2. PICK run : IsRun(run, n)
  BY RunExists
<1>3. \A t \in 0 .. N : run[t] \in Worlds /\ IsSteady(project, run[t])
  BY <1>2, RunSteady
<1>4. run[0] = Problem.root /\ (\A t \in 1 .. N : run[t] = Ticked(run[t - 1], path[t])) /\ run[N] = keys[n]
  <2>1. run[N] = keys[n]
    BY <1>2, RunEnds
  <2> QED BY <1>1, <1>2, <2>1 DEF IsRun
<1>5. NoWorld \notin Worlds
  BY ProblemFacts DEF TypeOK
<1>6. ASSUME NEW t \in 1 .. N
      PROVE  TickOf(project.contracts, project.wires, run[t - 1], events, t - 1) = Outcome(run[t], "none")
  <2> DEFINE event == moves[path[t]]
             before == run[t - 1]
  <2>1. t - 1 \in 0 .. N /\ t \in 0 .. N /\ path[t] \in Moves
    BY <1>1
  <2>2. before \in Worlds /\ IsSteady(project, before) /\ before # NoWorld /\ run[t] # NoWorld
    BY <1>3, <1>5, <2>1
  <2>3. run[t] = StepOf(before, path[t])
    BY <1>4, <2>2 DEF Ticked
  <2>4. /\ Ready(project) /\ event \in {NoEvent} \cup EventsOf(project)
        /\ StepOf(before, path[t]) = Step(project, before, event)
    BY <2>1, <2>2, ProjectFacts
  <2>5. Told(project.contracts, events, t - 1, Outcome(before, "none"), Len(events))
          = AfterEvent(project, before, event)
    <3>1. Len(path) \in Nat /\ t \in 1 .. Len(path)
      BY <1>1
    <3> HIDE DEF before, moves, path, project
    <3> QED BY <3>1, PathTold
  <2> HIDE DEF before, event, events, project
  <2>6. AfterEvent(project, before, event).error = "none"
    <3>1. Step(project, before, event) # NoWorld
      BY <2>2, <2>3, <2>4
    <3> QED BY <2>2, <2>4, <3>1, StepSteady
  <2>7. TickOf(project.contracts, project.wires, before, events, t - 1)
          = Outcome(Step(project, before, event), "none")
    <3> DEFINE tick == t - 1
    <3> HIDE DEF tick
    <3>1. Told(project.contracts, events, tick, Outcome(before, "none"), Len(events))
            = AfterEvent(project, before, event)
      BY <2>5 DEF tick
    <3>2. TickOf(project.contracts, project.wires, before, events, tick)
            = Outcome(Step(project, before, event), "none")
      BY <2>2, <2>4, <2>6, <3>1, TickIsStep
    <3> QED BY <3>2 DEF tick
  <2> QED BY <2>3, <2>4, <2>7 DEF before
<1>7. Problem.root = RootWorld(project)
  BY ProjectFacts
<1>8. \A w : Outcome(w, "none").error = "none" /\ Outcome(w, "none").world = w
  BY DEF Outcome
<1> DEFINE h == [t \in 0 .. N |-> Outcome(run[t], "none")]
           Goes(f) == f = [t \in 0 .. N |->
                             IF t = 0 THEN Outcome(RootWorld(project), "none")
                             ELSE IF f[t - 1].error # "none" THEN f[t - 1]
                                  ELSE TickOf(project.contracts, project.wires, f[t - 1].world, events, t - 1)]
<1>9. \A f : IsReplayed(f, replay) <=> Goes(f)
  <2>1. /\ replay.contracts = project.contracts /\ replay.wires = project.wires
        /\ replay.events = events /\ InitialWorld(replay) = RootWorld(project)
    BY ReplayFacts
  <2> HIDE DEF replay, events, project, N
  <2> QED BY <1>1, <2>1 DEF IsReplayed
<1> HIDE DEF project, moves, path, replay, events
<1>10. Goes(h)
  <2>1. \A t \in 0 .. N : h[t] = IF t = 0 THEN Outcome(RootWorld(project), "none")
                                 ELSE IF h[t - 1].error # "none" THEN h[t - 1]
                                      ELSE TickOf(project.contracts, project.wires, h[t - 1].world, events, t - 1)
    <3> SUFFICES ASSUME NEW t \in 0 .. N
                 PROVE  h[t] = IF t = 0 THEN Outcome(RootWorld(project), "none")
                               ELSE IF h[t - 1].error # "none" THEN h[t - 1]
                                    ELSE TickOf(project.contracts, project.wires, h[t - 1].world, events, t - 1)
      OBVIOUS
    <3>1. CASE t = 0
      BY <1>4, <1>7, <3>1
    <3>2. CASE t # 0
      <4>1. t \in 1 .. N /\ t - 1 \in 0 .. N
        BY <1>1, <3>2
      <4>2. h[t - 1] = Outcome(run[t - 1], "none") /\ h[t] = Outcome(run[t], "none")
        BY <4>1
      <4>3. h[t - 1].error = "none" /\ h[t - 1].world = run[t - 1]
        BY <1>8, <4>2
      <4> HIDE DEF h
      <4>4. TickOf(project.contracts, project.wires, run[t - 1], events, t - 1) = Outcome(run[t], "none")
        BY <1>6, <4>1
      <4> QED BY <3>2, <4>2, <4>3, <4>4
    <3> QED BY <3>1, <3>2
  <2>2. h = [t \in 0 .. N |-> h[t]]
    OBVIOUS
  <2> HIDE DEF h
  <2> QED BY <2>1, <2>2
<1>11. Goes(after)
  <2>1. \E f : IsReplayed(f, replay)
    <3> HIDE DEF Goes, h
    <3> QED BY <1>9, <1>10
  <2>2. IsReplayed(after, replay)
    BY <2>1
  <2> HIDE DEF Goes, after
  <2> QED BY <1>9, <2>2
<1>12. RunReplay(replay) = after[N]
  <2>1. RunReplay(replay) = after[replay.ticks + 1]
    BY DEF RunReplay, IsReplayed
  <2> HIDE DEF after
  <2> QED BY <1>1, <2>1
<1> HIDE DEF after
<1>13. \A t \in 0 .. N : after[t] = h[t]
  <2> HIDE DEF h, N
  <2>1. after[0] = h[0]
    BY <1>1, <1>10, <1>11
  <2>2. ASSUME NEW k \in Nat, k + 1 <= N, after[k] = h[k] PROVE after[k + 1] = h[k + 1]
    <3>1. k + 1 \in 0 .. N /\ k + 1 # 0 /\ (k + 1) - 1 = k
      BY <1>1, <2>2
    <3>2. /\ after[k + 1] = IF after[k].error # "none" THEN after[k]
                            ELSE TickOf(project.contracts, project.wires, after[k].world, events, k)
          /\ h[k + 1] = IF h[k].error # "none" THEN h[k]
                        ELSE TickOf(project.contracts, project.wires, h[k].world, events, k)
      BY <1>10, <1>11, <3>1
    <3> QED BY <2>2, <3>2
  <2> QED BY <1>1, <2>1, <2>2, Agreeing
<1>14. N \in 0 .. N /\ h[N] = Outcome(run[N], "none")
  BY <1>1
<1> HIDE DEF h, Goes
<1> QED BY <1>4, <1>12, <1>13, <1>14 DEF replay

\* It is a replay the kernel loads.
LEMMA WitnessLoads ==
  ASSUME CoveredProjects, TypeOK, TreeOfSteps, NEW n \in Nodes, depth[n] > 0
  PROVE  ReplayOK(WitnessReplay(n))
<1> DEFINE project == Projects[problem]
           moves == MovesOf(project)
           path == Path(n)
           events == EventsOn(path, moves)
           replay == WitnessReplay(n)
<1>1. /\ path \in Seq(Moves) /\ Len(path) = depth[n] /\ depth[n] \in Nat
  BY PathFacts, TreeFacts
<1>2. Ready(project) /\ \A m \in Moves : moves[m] \in {NoEvent} \cup EventsOf(project)
  BY ProjectFacts
<1>3. EventsOK(events, project.contracts, depth[n] - 1)
  <2> SUFFICES ASSUME NEW i \in 1 .. Len(events)
               PROVE  events[i].tick \in 0 .. depth[n] - 1 /\ events[i].entity \in DOMAIN project.contracts
    BY DEF EventsOK
  <2>1. events[i] \in EventsAlong(path, moves)
    <3>1. Len(path) \in Nat
      BY <1>1
    <3> DEFINE X == EventsAlong(path, moves)
    <3>2. events \in Seq(X)
      <4> HIDE DEF moves, path
      <4> QED BY <3>1, EventsOnFacts
    <3> HIDE DEF X, events
    <3> QED BY <3>2 DEF X
  <2> HIDE DEF events
  <2>2. PICK t \in 1 .. Len(path) : moves[path[t]] # NoEvent /\ events[i] = EventAt(t - 1, moves[path[t]])
    BY <2>1 DEF EventsAlong
  <2>3. path[t] \in Moves /\ t - 1 \in 0 .. depth[n] - 1
    BY <1>1
  <2>4. moves[path[t]] \in EventsOf(project)
    BY <1>2, <2>2, <2>3
  <2> HIDE DEF moves, path, project
  <2>5. moves[path[t]].entity \in DOMAIN project.contracts
    BY <1>2, <2>4, EventFacts DEF Ready, AllLoaded
  <2> QED BY <2>2, <2>3, <2>5 DEF EventAt
<1>4. /\ DOMAIN project.contracts # {} /\ \A e \in DOMAIN project.contracts : ContractOK(project.contracts[e])
      /\ WiresOK(project.wires, project.contracts) /\ InitialOK(project.initial, project.contracts)
  BY <1>2 DEF Ready, IsProject
<1>5. /\ replay.contracts = project.contracts /\ replay.wires = project.wires
      /\ replay.initial = project.initial /\ replay.pinned = TRUE
      /\ replay.ticks = depth[n] - 1 /\ replay.events = events
  BY ReplayFacts
<1> HIDE DEF project, events, replay
<1> QED BY <1>3, <1>4, <1>5 DEF ReplayOK, replay

\* The search explores what the kernel does: each witness is a file the kernel
\* loads and runs to the world the verdict names, and a move refused in any one
\* world the search met, early or late, is refused in all of them.
THEOREM SearchRunsTheKernel ==
  ASSUME CoveredProjects PROVE Spec => []ExploresTheKernel
<1>1. SearchInv /\ ResultsStand => WitnessesRunInTheKernel
  <2> SUFFICES ASSUME SearchInv, ResultsStand, phase = "done", NEW c \in Claims,
                      results[c].witness # 0, depth[results[c].witness] > 0
               PROVE  \A replay \in {WitnessReplay(results[c].witness)} :
                        ReplayOK(replay) /\ RunReplay(replay) = Outcome(keys[results[c].witness], "none")
    BY DEF WitnessesRunInTheKernel
  <2> DEFINE n == results[c].witness
  <2>1. TypeOK /\ TreeOfSteps
    BY DEF SearchInv
  <2>2. n = Check(c).witness
    BY <2>1, JudgedAsChecked DEF ResultsStand
  <2>3. n \in Nodes
    BY <2>1, <2>2, WitnessFacts
  <2> HIDE DEF n
  <2>4. depth[n] > 0
    BY DEF n
  <2>5. ReplayOK(WitnessReplay(n)) /\ RunReplay(WitnessReplay(n)) = Outcome(keys[n], "none")
    BY <2>1, <2>3, <2>4, WitnessLoads, WitnessRuns
  <2> QED BY <2>5 DEF n
<1>2. SearchInv => RefusalsAreForEver
  <2> SUFFICES ASSUME SearchInv, NEW m \in Moves, NEW k \in Nodes, StepOf(keys[k], m) = NoWorld
               PROVE  LET event    == MovesOf(Projects[problem])[m]
                          contract == Projects[problem].contracts[event.entity]
                      IN /\ \A n \in Nodes : StepOf(keys[n], m) = NoWorld
                         /\ ~(SpecOf(contract, event.verb).requires \subseteq DOMAIN contract.state)
    BY DEF RefusalsAreForEver
  <2> QED BY RefusalStands
<1>3. SearchInv /\ ResultsStand => ExploresTheKernel
  BY <1>1, <1>2 DEF ExploresTheKernel
<1> QED BY <1>3, SearchInvariant, ResultsInvariant, PTL

-----------------------------------------------------------------------------
(* The compilers.  The invariant follows one through one document.  Once   *)
(* it has had the asset cooked, the recipe cache holds what it was told    *)
(* (Cooked), its address names that (Hashed), and the proof it stages was  *)
(* computed on it (Staged), each as long as nobody tampers with the asset; *)
(* a proof it has read or published stands until somebody tampers with the *)
(* entry (Held); and what a world binds is what was returned for its       *)
(* documents (Chained).                                                   *)

AssetOf(p) == RecipeOf[DocAt(p)]
DocCount(p) == Len(job[p].docs)

\* What the calls ask of the recipe cache.
Asked == \A p \in Compilers : \A i \in 1 .. DocCount(p) :
  ask[<<p, i>>] = [key |-> RecipeOf[job[p].docs[i]], stored |-> ~job[p].noCache, makes |-> <<p, i>>]

Typed ==
  /\ job \in Jobs
  /\ Asked
  /\ assets \in [Recipes -> Assets!Cell \cup {Empty}]
  /\ told \in [Calls -> Calls \cup {Empty}]
  /\ pc \in [Compilers -> Steps]
  /\ place \in [Compilers -> Nat \ {0}]
  /\ sha \in [Compilers -> Shas \cup {Empty}]
  /\ DOMAIN seen = Compilers /\ DOMAIN staging = Compilers /\ DOMAIN published = Compilers
  /\ DOMAIN cause = Compilers /\ DOMAIN answer = Calls
  /\ entries \in [Addresses -> Proof \cup {Empty}]
  /\ entryTouches \in [Addresses -> Nat] /\ assetTouches \in [Recipes -> Nat]

\* A compiler is at the steps of a document or at those of its world.
Place(p) ==
  /\ place[p] <= DocCount(p) + 1
  /\ pc[p] \in {"cook", "hash", "lookup", "recheck", "verify", "publishing"} => ~InWorld(p)
  /\ pc[p] \in {"scenario", "bind", "judge"} => InWorld(p)

\* In the recipe cache only what was tampered with has lost its proof.
CellsVouch ==
  \A r \in Recipes : assets[r] # Empty =>
    /\ assets[r].vouched => assets[r].files \in Calls
    /\ assetTouches[r] = 0 => assets[r].vouched

BeforeLookup == {"lookup", "recheck", "verify", "failing", "locking", "locked", "publishing", "unlocking"}

Cooked(p) ==
  ~InWorld(p) /\ pc[p] \in {"hash"} \cup BeforeLookup =>
    /\ told[Call(p)] \in Calls
    /\ job[p].noCache => told[Call(p)] = Call(p)
    /\ ~job[p].noCache /\ assetTouches[AssetOf(p)] = 0 =>
         assets[AssetOf(p)] = [files |-> told[Call(p)], vouched |-> TRUE]

Hashed(p) ==
  ~InWorld(p) /\ pc[p] \in BeforeLookup =>
    /\ sha[p] \in Shas
    /\ assetTouches[AssetOf(p)] = 0 => sha[p] = told[Call(p)]

Staged(p) ==
  ~InWorld(p) /\ pc[p] \in {"locking", "locked", "publishing"} =>
    /\ staging[p] \in Proof /\ staging[p].kind = "genuine"
    /\ assetTouches[AssetOf(p)] = 0 =>
         /\ DocAt(p) \in Honoured
         /\ staging[p].asset = told[Call(p)] /\ staging[p].checked = told[Call(p)]

AtDoc(p) == Place(p) /\ Cooked(p) /\ Hashed(p) /\ Staged(p)

AssetInv == Typed /\ CellsVouch /\ \A p \in Compilers : AtDoc(p)

\* Under a lock a compiler holds it, a target has one lock, and whoever has one is under
\* it or was killed there.
LockInv ==
  /\ \A p \in Compilers : pc[p] \in Critical => [on |-> Target(p), by |-> p] \in locks
  /\ \A lock, other \in locks : lock.on = other.on => lock = other
  /\ \A lock \in locks :
       /\ lock.by \in Compilers /\ pc[lock.by] \in Critical \cup {"crashed"}
       /\ lock = [on |-> lock.on, by |-> lock.by]
       /\ pc[lock.by] \in Critical => lock.on = Target(lock.by)
  /\ \A p \in Compilers : pc[p] = "publishing" => entries[Address(p)] = Empty

\* An entity proof somebody has read or published, and not tampered with since.
Stands(s) ==
  /\ s \in Seen /\ s.proof.kind \in Accepted
  /\ s.touches <= entryTouches[s.at]
  /\ s.touches = entryTouches[s.at] => entries[s.at] = s.proof

Held(p) ==
  pc[p] = "recheck" \/ (pc[p] = "unlocking" /\ ~InWorld(p) /\ cause[p] = "none") =>
    Stands(seen[p]) /\ seen[p].at = Address(p)

\* What was returned for a document stands, and is about that document.
Returned(p) ==
  \A i \in 1 .. place[p] - 1 : answer[<<p, i>>] # Empty /\ answer[<<p, i>>].at.doc = job[p].docs[i]

AnswerInv ==
  /\ \A c \in Calls : answer[c] # Empty => Stands(answer[c])
  /\ \A p \in Compilers : Held(p) /\ Returned(p)

\* What a world binds is what was returned for its documents, unless tampered with.
Binds(p, refs) ==
  \A i \in 1 .. DocCount(p) :
    /\ refs[i].at = answer[<<p, i>>].at
    /\ entryTouches[refs[i].at] = 0 => refs[i].proof = answer[<<p, i>>].proof

Chained(p) ==
  /\ InWorld(p) /\ pc[p] \in {"judge", "failing", "locking", "locked", "unlocking"} => Binds(p, seen[p])
  /\ published[p] # Empty => InWorld(p) /\ Binds(p, published[p].refs)

CompilerInv == AssetInv /\ LockInv /\ AnswerInv /\ ChainClosed /\ \A p \in Compilers : Chained(p)

-----------------------------------------------------------------------------
(* What a compiler is asked, and where it is.                              *)

LEMMA JobTyped ==
  ASSUME Typed, NEW p \in Compilers
  PROVE  /\ job[p].docs \in Seq(Docs) /\ DocCount(p) \in 1 .. MaxDocs /\ DocCount(p) \in Nat
         /\ DOMAIN job[p].docs = 1 .. DocCount(p)
         /\ \A i \in 1 .. DocCount(p) : job[p].docs[i] \in Docs /\ <<p, i>> \in Calls
         /\ job[p].noCache \in BOOLEAN /\ job[p].world \in WorldDocs \cup {NoScenario}
<1>1. job[p] \in Job /\ Len(job[p].docs) \in 1 .. MaxDocs
  BY CompilerAssumption DEF Typed
<1>2. job[p].docs \in Seq(Docs)
  BY <1>1 DEF Job
<1>3. MaxDocs \in Nat
  BY CompilerAssumption
<1> QED BY <1>1, <1>2, <1>3 DEF Job, DocCount, Calls

\* A compiler at a document is asked for the asset of that document.
LEMMA Here ==
  ASSUME Typed, NEW p \in Compilers, ~InWorld(p)
  PROVE  /\ place[p] \in 1 .. DocCount(p)
         /\ Call(p) \in Calls /\ DocAt(p) \in Docs /\ AssetOf(p) \in Recipes
         /\ ask[Call(p)] = [key |-> AssetOf(p), stored |-> ~job[p].noCache, makes |-> Call(p)]
         /\ sha[p] \in Shas => Address(p) \in Addresses
<1>1. place[p] \in 1 .. DocCount(p)
  BY JobTyped DEF Typed, InWorld, DocCount
<1>2. Call(p) \in Calls /\ DocAt(p) \in Docs
  BY <1>1, JobTyped DEF Call, DocAt
<1>3. AssetOf(p) \in Recipes
  BY <1>2, CompilerAssumption DEF AssetOf
<1>4. ask[Call(p)] = [key |-> AssetOf(p), stored |-> ~job[p].noCache, makes |-> Call(p)]
  BY <1>1 DEF Typed, Asked, Call, AssetOf, DocAt
<1>5. sha[p] \in Shas => Address(p) \in Addresses
  BY <1>2 DEF Address, Addresses
<1> QED BY <1>1, <1>2, <1>3, <1>4, <1>5

\* The calls of two compilers are different ones.
LEMMA OwnCall ==
  ASSUME NEW p, NEW q, p # q PROVE Call(p) # Call(q) /\ \A i : <<q, i>> # Call(p)
BY DEF Call

-----------------------------------------------------------------------------
(* What a step of a compiler may touch.                                    *)

\* Its own locals, and what is filed under its own call.
Own(p) ==
  /\ job' = job /\ ask' = ask
  /\ \A q \in Compilers \ {p} :
       /\ pc'[q] = pc[q] /\ place'[q] = place[q] /\ sha'[q] = sha[q] /\ seen'[q] = seen[q]
       /\ staging'[q] = staging[q] /\ cause'[q] = cause[q] /\ published'[q] = published[q]
  /\ \A c \in Calls \ {Call(p)} : told'[c] = told[c] /\ answer'[c] = answer[c]
  /\ DOMAIN seen' = Compilers /\ DOMAIN staging' = Compilers /\ DOMAIN published' = Compilers
  /\ DOMAIN cause' = Compilers /\ DOMAIN answer' = Calls /\ DOMAIN pc' = Compilers
  /\ DOMAIN place' = Compilers /\ DOMAIN sha' = Compilers /\ DOMAIN told' = Calls
  /\ entryTouches' = entryTouches /\ assetTouches' = assetTouches

LEMMA OwnStep ==
  ASSUME Typed, NEW p \in Compilers, CompilerStep(p) \/ KillCompiler(p) PROVE Own(p)
<1> USE DEF Typed, Own, At, Fails, See, Return
<1> USE DEF recipeCache, stores, replies, outside
<1>1. CASE Cook(p)
  <2>1. /\ ask' = ask /\ DOMAIN told' = Calls
        /\ \A c \in Calls \ {Call(p)} : told'[c] = told[c]
    BY <1>1 DEF Cook, CookAsset, CookRaises, Assets!Keep, Assets!Get, Assets!Put, Assets!Give
  <2> QED BY <1>1, <2>1 DEF Cook, CookAsset, CookRaises
<1>2. CASE Hash(p)
  BY <1>2 DEF Hash, HashProof, ProofGone
<1>3. CASE LookUp(p)
  BY <1>3 DEF LookUp, Miss, ReadEntry, ReadMalformed
<1>4. CASE Recheck(p)
  BY <1>4 DEF Recheck, Hit, FallThrough
<1>5. CASE Verify(p)
  BY <1>5 DEF Verify, NoArtifact, ContractBroken, ContractHonoured, Stage
<1>6. CASE KeepFailure(p)
  BY <1>6 DEF KeepFailure
<1>7. CASE Lock(p)
  BY <1>7 DEF Lock, TakeLock, LockTimeout
<1>8. CASE LookAgain(p)
  BY <1>8 DEF LookAgain, Vacant, Reuse, UnreadableEntry, Quarantine
<1>9. CASE Publish(p)
  BY <1>9 DEF Publish
<1>10. CASE Unlock(p)
  BY <1>10 DEF Unlock, UnlockEntity, UnlockWorld
<1>11. CASE Scenario(p)
  BY <1>11 DEF Scenario
<1>12. CASE Bind(p)
  BY <1>12 DEF Bind
<1>13. CASE JudgeScenario(p)
  BY <1>13 DEF JudgeScenario, Unprovable, WorldBroken, WorldHolds
<1>14. CASE PublishWorld(p)
  BY <1>14 DEF PublishWorld
<1>15. CASE KillCompiler(p)
  BY <1>15 DEF KillCompiler
<1> QED BY <1>1, <1>2, <1>3, <1>4, <1>5, <1>6, <1>7, <1>8, <1>9, <1>10, <1>11, <1>12, <1>13,
            <1>14, <1>15 DEF CompilerStep

-----------------------------------------------------------------------------
(* The asset: what was cooked, hashed, checked and staged.                 *)

\* To the recipe cache, a compiler adds at most its own package, where there is none.
AssetMove(p) ==
  \/ assets' = assets
  \/ /\ pc[p] = "cook" /\ ~job[p].noCache
     /\ assets[AssetOf(p)] = Empty
     /\ assets' = [assets EXCEPT ![AssetOf(p)] = [files |-> Call(p), vouched |-> TRUE]]

LEMMA AssetMoves ==
  ASSUME Typed, NEW p \in Compilers, Place(p), CompilerStep(p) \/ KillCompiler(p)
  PROVE  AssetMove(p)
<1>1. CASE Cook(p)
  <2>1. pc[p] = "cook"
    BY <1>1 DEF Cook, CookAsset, CookRaises, At, Fails
  <2>2. ask[Call(p)] = [key |-> AssetOf(p), stored |-> ~job[p].noCache, makes |-> Call(p)]
    BY <2>1, Here DEF Place
  <2>3. CASE CookAsset(p) /\ Assets!Put(Call(p))
    <3>1. /\ ask[Call(p)].key = AssetOf(p) /\ ask[Call(p)].stored = ~job[p].noCache
          /\ ask[Call(p)].makes = Call(p)
      BY <2>2
    <3>2. /\ ~job[p].noCache /\ assets[AssetOf(p)] = Empty
          /\ assets' = [assets EXCEPT ![AssetOf(p)] = [files |-> Call(p), vouched |-> TRUE]]
      BY <2>3, <3>1 DEF Assets!Put
    <3> QED BY <2>1, <3>2 DEF AssetMove
  <2>4. CASE CookRaises(p)
    BY <2>4 DEF CookRaises, recipeCache, AssetMove
  <2>5. CASE CookAsset(p) /\ ~Assets!Put(Call(p))
    BY <2>5 DEF CookAsset, Assets!Keep, Assets!Get, AssetMove
  <2> QED BY <1>1, <2>3, <2>4, <2>5 DEF Cook
<1>2. CASE ~Cook(p)
  BY <1>2 DEF CompilerStep, Hash, LookUp, Recheck, Verify, KeepFailure, Lock, LookAgain, Publish,
              Unlock, Scenario, Bind, JudgeScenario, PublishWorld, KillCompiler, recipeCache, AssetMove
<1> QED BY <1>1, <1>2

\* So the other compilers are where they were, and find what they found.
LEMMA OthersKeep ==
  ASSUME Typed, NEW p \in Compilers, NEW q \in Compilers \ {p}, Own(p), AssetMove(p), AtDoc(q),
         AssetOf(p) \in Recipes \/ assets' = assets
  PROVE  AtDoc(q)'
<1>1. /\ InWorld(q)' = InWorld(q) /\ DocCount(q)' = DocCount(q) /\ Call(q)' = Call(q)
      /\ DocAt(q)' = DocAt(q) /\ AssetOf(q)' = AssetOf(q)
  BY DEF Own, InWorld, DocCount, Call, DocAt, AssetOf
<1>2. /\ pc'[q] = pc[q] /\ place'[q] = place[q] /\ sha'[q] = sha[q] /\ staging'[q] = staging[q]
      /\ job' = job /\ assetTouches' = assetTouches
  BY DEF Own
<1>3. ~InWorld(q) => told'[Call(q)] = told[Call(q)]
  <2>1. ~InWorld(q) => Call(q) \in Calls
    BY Here
  <2>2. Call(q) # Call(p)
    BY OwnCall
  <2>3. \A c \in Calls \ {Call(p)} : told'[c] = told[c]
    BY DEF Own
  <2> QED BY <2>1, <2>2, <2>3
<1>4. ASSUME ~InWorld(q), NEW files \in Calls, assets[AssetOf(q)] = [files |-> files, vouched |-> TRUE]
      PROVE  assets'[AssetOf(q)] = assets[AssetOf(q)]
  <2>1. [files |-> files, vouched |-> TRUE] \in [files : Calls \cup {Spoiled}, vouched : BOOLEAN]
    OBVIOUS
  <2>2. assets[AssetOf(q)] # Empty
    BY <1>4, <2>1, MarkerAssumption
  <2>3. AssetOf(q) \in Recipes
    BY <1>4, Here
  <2>4. CASE AssetOf(q) = AssetOf(p)
    BY <2>2, <2>4 DEF AssetMove
  <2>5. CASE AssetOf(q) # AssetOf(p)
    BY <2>3, <2>5 DEF AssetMove, Typed
  <2> QED BY <2>4, <2>5
<1>5. Place(q)' /\ Hashed(q)' /\ Staged(q)'
  BY <1>1, <1>2, <1>3 DEF AtDoc, Place, Hashed, Staged, BeforeLookup
<1>6. Cooked(q)'
  BY <1>1, <1>2, <1>3, <1>4 DEF AtDoc, Cooked
<1> QED BY <1>5, <1>6 DEF AtDoc

LEMMA CellsKeep ==
  ASSUME AssetInv, NEW p \in Compilers, AssetMove(p), AssetOf(p) \in Recipes \/ assets' = assets,
         Call(p) \in Calls \/ assets' = assets, assetTouches' = assetTouches
  PROVE  CellsVouch' /\ assets' \in [Recipes -> Assets!Cell \cup {Empty}]
<1> USE DEF AssetInv, Typed
<1>1. CASE assets' = assets
  BY <1>1 DEF CellsVouch
<1>2. CASE assets' # assets
  <2>1. /\ AssetOf(p) \in Recipes /\ Call(p) \in Calls
        /\ assets' = [assets EXCEPT ![AssetOf(p)] = [files |-> Call(p), vouched |-> TRUE]]
    BY <1>2 DEF AssetMove
  <2>2. [files |-> Call(p), vouched |-> TRUE] \in Assets!Cell
    BY <2>1 DEF Assets!Cell
  <2>3. assets' \in [Recipes -> Assets!Cell \cup {Empty}]
    BY <2>1, <2>2
  <2>4. ASSUME NEW r \in Recipes, assets'[r] # Empty
        PROVE  /\ assets'[r].vouched => assets'[r].files \in Calls
               /\ assetTouches'[r] = 0 => assets'[r].vouched
    <3>1. CASE r = AssetOf(p)
      BY <2>1, <3>1
    <3>2. CASE r # AssetOf(p)
      <4>1. assets'[r] = assets[r]
        BY <2>1, <3>2
      <4> QED BY <2>4, <4>1 DEF CellsVouch
    <3> QED BY <3>1, <3>2
  <2> QED BY <2>3, <2>4 DEF CellsVouch
<1> QED BY <1>1, <1>2

\* A step that stays at its document.
LEMMA SameDoc ==
  ASSUME NEW p \in Compilers, Own(p), place' = place
  PROVE  /\ InWorld(p)' = InWorld(p) /\ DocCount(p)' = DocCount(p) /\ Call(p)' = Call(p)
         /\ DocAt(p)' = DocAt(p) /\ AssetOf(p)' = AssetOf(p)
         /\ sha' = sha => Address(p)' = Address(p)
BY DEF Own, InWorld, DocCount, Call, DocAt, AssetOf, Address

\* What the calls ask of the recipe cache never changes.
LEMMA StillAsked ==
  ASSUME Asked, ask' = ask, job' = job PROVE Asked'
BY DEF Asked, DocCount

LEMMA CookKeeps ==
  ASSUME AssetInv, NEW p \in Compilers, Cook(p), Own(p) PROVE Typed' /\ AtDoc(p)'
<1> USE DEF AssetInv, AtDoc
<1>1. pc[p] = "cook" /\ ~InWorld(p) /\ place' = place
  BY DEF Cook, CookAsset, CookRaises, At, Fails, Place
<1>2. /\ Call(p) \in Calls /\ AssetOf(p) \in Recipes
      /\ ask[Call(p)] = [key |-> AssetOf(p), stored |-> ~job[p].noCache, makes |-> Call(p)]
      /\ job[p].noCache \in BOOLEAN
  BY <1>1, Here, JobTyped
<1>3. AssetMove(p)
  BY AssetMoves DEF CompilerStep
<1>4. assets' \in [Recipes -> Assets!Cell \cup {Empty}]
  BY <1>2, <1>3, CellsKeep DEF Own
<1>5. UNCHANGED <<job, place, sha, seen, staging, entries, answer, published, entryTouches, assetTouches>>
  BY DEF Cook, stores, outside
<1>6. CASE CookAsset(p)
  <2>1. pc' = [pc EXCEPT ![p] = "hash"] /\ UNCHANGED cause
    BY <1>6 DEF CookAsset, At
  <2>2. PICK content \in Calls :
          /\ told' = [told EXCEPT ![Call(p)] = content]
          /\ job[p].noCache => content = Call(p)
          /\ ~job[p].noCache /\ assetTouches[AssetOf(p)] = 0 =>
               assets'[AssetOf(p)] = [files |-> content, vouched |-> TRUE]
    <3>1. CASE job[p].noCache
      BY <1>2, <1>6, <3>1 DEF CookAsset, Assets!Keep, Assets!Give
    <3>2. CASE ~job[p].noCache /\ Assets!Get(Call(p))
      <4>1. /\ assets[AssetOf(p)] # Empty /\ assets[AssetOf(p)].files # Spoiled
            /\ told' = [told EXCEPT ![Call(p)] = assets[AssetOf(p)].files] /\ assets' = assets
        BY <1>2, <3>2 DEF Assets!Get, Assets!Give
      <4>2. assets[AssetOf(p)] \in Assets!Cell
        BY <1>2, <4>1 DEF Typed
      <4>3. assets[AssetOf(p)].files \in Calls
        BY <4>1, <4>2 DEF Assets!Cell
      <4>4. assetTouches[AssetOf(p)] = 0 => assets[AssetOf(p)].vouched = TRUE
        BY <1>2, <4>1, <4>2 DEF CellsVouch, Assets!Cell
      <4>5. assetTouches[AssetOf(p)] = 0 =>
              assets[AssetOf(p)] = [files |-> assets[AssetOf(p)].files, vouched |-> TRUE]
        BY <4>2, <4>4 DEF Assets!Cell
      <4> QED BY <3>2, <4>1, <4>3, <4>5
    <3>3. CASE ~job[p].noCache /\ Assets!Put(Call(p))
      <4>1. /\ assets' = [assets EXCEPT ![AssetOf(p)] = [files |-> Call(p), vouched |-> TRUE]]
            /\ told' = [told EXCEPT ![Call(p)] = Call(p)]
        BY <1>2, <3>3 DEF Assets!Put, Assets!Give
      <4>2. assets'[AssetOf(p)] = [files |-> Call(p), vouched |-> TRUE]
        BY <1>2, <4>1 DEF Typed
      <4> QED BY <1>2, <3>3, <4>1, <4>2
    <3> QED BY <1>6, <3>1, <3>2, <3>3 DEF CookAsset
  <2>3. told' \in [Calls -> Calls \cup {Empty}] /\ pc' \in [Compilers -> Steps]
    BY <2>1, <2>2 DEF Typed, Steps
  <2>7. Typed'
    BY <1>4, <1>5, <2>3, StillAsked DEF Typed, Own
  <2>4. pc'[p] = "hash" /\ told'[Call(p)] = content
    BY <1>2, <2>1, <2>2 DEF Typed
  <2>5. Cooked(p)'
    BY <1>5, <2>2, <2>4, SameDoc DEF Cooked
  <2>6. Place(p)' /\ Hashed(p)' /\ Staged(p)'
    BY <1>1, <1>5, <2>4, SameDoc DEF Place, Hashed, Staged, BeforeLookup
  <2> QED BY <2>7, <2>5, <2>6
<1>7. CASE CookRaises(p)
  <2>1. pc' = [pc EXCEPT ![p] = "raised"] /\ told' = told
    BY <1>7 DEF CookRaises, Fails, At, recipeCache
  <2>2. Typed'
    <3>1. pc' \in [Compilers -> Steps]
      BY <2>1 DEF Typed, Steps, Stopped
    <3> QED BY <1>4, <1>5, <2>1, <3>1, StillAsked DEF Typed, Own
  <2>3. pc'[p] = "raised"
    BY <2>1 DEF Typed
  <2>4. AtDoc(p)'
    BY <1>1, <1>5, <2>3, SameDoc DEF Place, Cooked, Hashed, Staged, BeforeLookup
  <2> QED BY <2>2, <2>4
<1> QED BY <1>6, <1>7 DEF Cook

-----------------------------------------------------------------------------
(* The other steps of a compiler at its document.                          *)

LEMMA StillTyped ==
  ASSUME Typed, NEW p, Own(p), assets' = assets, told' = told, pc' \in [Compilers -> Steps],
         place' \in [Compilers -> Nat \ {0}], sha' \in [Compilers -> Shas \cup {Empty}],
         entries' \in [Addresses -> Proof \cup {Empty}]
  PROVE  Typed'
BY StillAsked DEF Typed, Own

LEMMA Stops ==
  ASSUME NEW p \in Compilers, Own(p), Place(p), place' = place, pc'[p] \in Stopped
  PROVE  AtDoc(p)'
BY SameDoc DEF AtDoc, Place, Cooked, Hashed, Staged, BeforeLookup, Stopped

\* Whatever a compiler goes on to under a document's address or in the world, its asset and
\* what it knows of it stay; what is staged stays from the lock on.
LEMMA GoesOn ==
  ASSUME NEW p \in Compilers, AtDoc(p), Own(p), UNCHANGED <<place, sha, assets, told>>,
         InWorld(p) \/ pc[p] \in BeforeLookup,
         pc'[p] \in BeforeLookup \cup {"bind", "judge"},
         pc'[p] \in {"lookup", "recheck", "verify", "publishing"} => ~InWorld(p),
         pc'[p] \in {"bind", "judge"} => InWorld(p),
         ~InWorld(p) /\ pc'[p] \in {"locking", "locked", "publishing"} =>
           pc[p] \in {"locking", "locked", "publishing"} /\ staging'[p] = staging[p]
  PROVE  AtDoc(p)'
<1>1. /\ InWorld(p)' = InWorld(p) /\ DocCount(p)' = DocCount(p) /\ Call(p)' = Call(p)
      /\ DocAt(p)' = DocAt(p) /\ AssetOf(p)' = AssetOf(p) /\ job' = job /\ assetTouches' = assetTouches
  BY SameDoc DEF Own
<1>2. Place(p)'
  BY <1>1 DEF AtDoc, Place, BeforeLookup
<1>3. Cooked(p)'
  BY <1>1 DEF AtDoc, Cooked
<1>4. Hashed(p)'
  BY <1>1 DEF AtDoc, Hashed, BeforeLookup
<1>5. Staged(p)'
  BY <1>1 DEF AtDoc, Staged
<1> QED BY <1>2, <1>3, <1>4, <1>5 DEF AtDoc

\* The hash of the asset's proof: what cook() answered with, unless the asset was
\* tampered with.
LEMMA HashKeeps ==
  ASSUME AssetInv, NEW p \in Compilers, Hash(p), Own(p) PROVE Typed' /\ AtDoc(p)'
<1> USE DEF AssetInv
<1>1. /\ UNCHANGED <<place, assets, told, entries>> /\ pc[p] = "hash" /\ pc \in [Compilers -> Steps]
      /\ place \in [Compilers -> Nat \ {0}] /\ sha \in [Compilers -> Shas \cup {Empty}]
      /\ entries \in [Addresses -> Proof \cup {Empty}] /\ Place(p) /\ job' = job
      /\ assetTouches' = assetTouches
  BY DEF Hash, HashProof, ProofGone, At, Fails, recipeCache, stores, Typed, AtDoc, outside
<1>2. ~InWorld(p) /\ Cooked(p)
  BY <1>1 DEF Place, AtDoc
<1>3. /\ told[Call(p)] \in Calls
      /\ job[p].noCache => told[Call(p)] = Call(p)
      /\ ~job[p].noCache /\ assetTouches[AssetOf(p)] = 0 =>
           assets[AssetOf(p)] = [files |-> told[Call(p)], vouched |-> TRUE]
  BY <1>1, <1>2 DEF Cooked
<1>4. AssetOf(p) \in Recipes /\ Cell(p) = assets[AssetOf(p)] /\ Call(p) \in Calls
  BY <1>2, Here DEF Cell, AssetOf
<1>5. CASE HashProof(p)
  <2>1. PICK read \in ShasOnDisk(p) : sha' = [sha EXCEPT ![p] = read]
    BY <1>5 DEF HashProof
  <2>2. read \in Shas /\ (assetTouches[AssetOf(p)] = 0 => read = told[Call(p)])
    <3>1. CASE job[p].noCache
      BY <1>3, <2>1, <3>1 DEF ShasOnDisk, Shas
    <3>2. CASE ~job[p].noCache
      <4>1. Cell(p) # Empty
        BY <2>1, <3>2 DEF ShasOnDisk
      <4>2. Cell(p) \in Assets!Cell /\ (Cell(p).vouched => Cell(p).files \in Calls)
            /\ (assetTouches[AssetOf(p)] = 0 => Cell(p).vouched)
        BY <1>4, <4>1 DEF CellsVouch, Typed
      <4>3. assetTouches[AssetOf(p)] = 0 => Cell(p).files = told[Call(p)]
        BY <1>3, <1>4, <3>2
      <4>4. CASE Intact(p)
        BY <2>1, <3>2, <4>1, <4>2, <4>3, <4>4 DEF ShasOnDisk, Intact, Shas
      <4>5. CASE ~Intact(p)
        <5>1. assetTouches[AssetOf(p)] # 0
          BY <4>1, <4>2, <4>5 DEF Intact
        <5>2. Cell(p).files \in Calls \cup {Spoiled}
          BY <4>2 DEF Assets!Cell
        <5> QED BY <1>3, <2>1, <3>2, <4>1, <4>5, <5>1, <5>2 DEF ShasOnDisk, Shas
      <4> QED BY <4>4, <4>5
    <3> QED BY <3>1, <3>2
  <2>3. pc' = [pc EXCEPT ![p] = "lookup"]
    BY <1>5 DEF HashProof, At
  <2>4. pc'[p] = "lookup" /\ sha'[p] = read /\ pc' \in [Compilers -> Steps]
        /\ sha' \in [Compilers -> Shas \cup {Empty}]
    BY <1>1, <2>1, <2>2, <2>3 DEF Steps
  <2>5. Typed'
    BY <1>1, <2>4, StillTyped
  <2>6. /\ InWorld(p)' = InWorld(p) /\ DocCount(p)' = DocCount(p) /\ Call(p)' = Call(p)
        /\ AssetOf(p)' = AssetOf(p)
    BY <1>1, SameDoc
  <2>7. Place(p)'
    BY <1>1, <1>2, <2>4, <2>6 DEF Place
  <2>8. Cooked(p)'
    BY <1>1, <1>3, <2>6 DEF Cooked
  <2>9. Hashed(p)'
    BY <1>1, <2>2, <2>4, <2>6 DEF Hashed
  <2>10. Staged(p)'
    BY <2>4 DEF Staged
  <2> QED BY <2>5, <2>7, <2>8, <2>9, <2>10 DEF AtDoc
<1>6. CASE ProofGone(p)
  <2>1. pc' = [pc EXCEPT ![p] = "raised"] /\ sha' = sha
    BY <1>6 DEF ProofGone, Fails, At
  <2>2. pc'[p] = "raised" /\ pc' \in [Compilers -> Steps]
    BY <1>1, <2>1 DEF Steps, Stopped
  <2> QED BY <1>1, <2>1, <2>2, StillTyped, Stops DEF Stopped
<1> QED BY <1>5, <1>6 DEF Hash

\* What is verified, and staged when it honours the contract, is what cook() answered with.
LEMMA VerifyKeeps ==
  ASSUME AssetInv, NEW p \in Compilers, Verify(p), Own(p) PROVE Typed' /\ AtDoc(p)'
<1> USE DEF AssetInv
<1>1. /\ UNCHANGED <<place, sha, assets, told, entries>> /\ pc[p] = "verify" /\ pc \in [Compilers -> Steps]
      /\ place \in [Compilers -> Nat \ {0}] /\ sha \in [Compilers -> Shas \cup {Empty}]
      /\ entries \in [Addresses -> Proof \cup {Empty}] /\ AtDoc(p) /\ Place(p) /\ job' = job
      /\ assetTouches' = assetTouches
  BY DEF Verify, NoArtifact, ContractBroken, ContractHonoured, At, Fails, recipeCache, stores, Typed,
         AtDoc, outside
<1>2. ~InWorld(p) /\ Cooked(p)
  BY <1>1 DEF Place, AtDoc
<1>3. CASE NoArtifact(p)
  <2>1. pc'[p] = "raised" /\ pc' \in [Compilers -> Steps]
    BY <1>1, <1>3 DEF NoArtifact, Fails, At, Steps, Stopped
  <2> QED BY <1>1, <2>1, StillTyped, Stops DEF Stopped
<1>4. CASE ContractBroken(p)
  <2>1. pc'[p] = "failing" /\ pc' \in [Compilers -> Steps]
    BY <1>1, <1>4 DEF ContractBroken, Fails, At, Steps
  <2> QED BY <1>1, <1>2, <2>1, StillTyped, GoesOn DEF BeforeLookup
<1>5. CASE ContractHonoured(p)
  <2>1. pc'[p] = "locking" /\ pc' \in [Compilers -> Steps]
    BY <1>1, <1>5 DEF ContractHonoured, At, Steps
  <2>2. Typed'
    BY <1>1, <2>1, StillTyped
  <2>3. /\ told[Call(p)] \in Calls
        /\ job[p].noCache => told[Call(p)] = Call(p)
        /\ ~job[p].noCache /\ assetTouches[AssetOf(p)] = 0 =>
             assets[AssetOf(p)] = [files |-> told[Call(p)], vouched |-> TRUE]
    BY <1>1, <1>2 DEF Cooked, BeforeLookup
  <2>4. AssetOf(p) \in Recipes /\ Cell(p) = assets[AssetOf(p)] /\ Call(p) \in Calls
    BY <1>2, Here DEF Cell, AssetOf
  <2>5. FilesOnDisk(p) \in Calls \cup {Spoiled}
    <3>1. CASE job[p].noCache
      BY <2>4, <3>1 DEF FilesOnDisk
    <3>2. CASE ~job[p].noCache /\ Cell(p) # Empty
      BY <2>4, <3>2 DEF FilesOnDisk, Typed, Assets!Cell
    <3>3. CASE ~job[p].noCache /\ Cell(p) = Empty
      BY <1>5, <3>3 DEF FilesOnDisk, ContractHonoured, Findings
    <3> QED BY <3>1, <3>2, <3>3
  <2>6. assetTouches[AssetOf(p)] = 0 => FilesOnDisk(p) = told[Call(p)]
    <3>1. CASE job[p].noCache
      BY <2>3, <3>1 DEF FilesOnDisk
    <3>2. CASE ~job[p].noCache /\ Cell(p) # Empty
      BY <2>3, <2>4, <3>2 DEF FilesOnDisk
    <3>3. CASE ~job[p].noCache /\ Cell(p) = Empty
      BY <1>5, <3>3 DEF FilesOnDisk, ContractHonoured, Findings
    <3> QED BY <3>1, <3>2, <3>3
  <2>7. assetTouches[AssetOf(p)] = 0 => DocAt(p) \in Honoured
    <3> SUFFICES ASSUME assetTouches[AssetOf(p)] = 0 PROVE DocAt(p) \in Honoured
      OBVIOUS
    <3>1. FilesOnDisk(p) \in Calls
      BY <2>3, <2>6
    <3>2. FilesOnDisk(p) # Empty /\ FilesOnDisk(p) # Spoiled
      BY <3>1, MarkerAssumption DEF Shas
    <3> QED BY <1>5, <3>2 DEF ContractHonoured, Findings
  <2>8. staging'[p] = [kind |-> "genuine", asset |-> told[Call(p)], checked |-> FilesOnDisk(p)]
    BY <1>5 DEF ContractHonoured, Stage, Typed
  <2>9. staging'[p] \in Proof
    BY <2>3, <2>5, <2>8 DEF Proof, ProofStates, Accepted
  <2>10. /\ InWorld(p)' = InWorld(p) /\ DocCount(p)' = DocCount(p) /\ Call(p)' = Call(p)
         /\ DocAt(p)' = DocAt(p) /\ AssetOf(p)' = AssetOf(p)
    BY <1>1, SameDoc
  <2>11. Place(p)'
    BY <1>1, <2>1, <2>10 DEF Place
  <2>12. Cooked(p)' /\ Hashed(p)'
    BY <1>1, <2>3, <2>10 DEF AtDoc, Cooked, Hashed, BeforeLookup
  <2>13. Staged(p)'
    BY <1>1, <2>6, <2>7, <2>8, <2>9, <2>10 DEF Staged
  <2> QED BY <2>2, <2>11, <2>12, <2>13 DEF AtDoc
<1> QED BY <1>3, <1>4, <1>5 DEF Verify

\* compile_entity returns: the next document, the world, or the end.
LEMMA ReturnKeeps ==
  ASSUME AssetInv, NEW p \in Compilers, NEW here, Return(p, here), Own(p), ~InWorld(p),
         UNCHANGED <<assets, told, entries>>
  PROVE  Typed' /\ AtDoc(p)'
<1> USE DEF AssetInv
<1>1. /\ pc \in [Compilers -> Steps] /\ place \in [Compilers -> Nat \ {0}]
      /\ sha \in [Compilers -> Shas \cup {Empty}] /\ entries \in [Addresses -> Proof \cup {Empty}]
      /\ job' = job
  BY DEF Typed, Own
<1>2. place[p] \in 1 .. DocCount(p) /\ DocCount(p) \in Nat
  BY Here, JobTyped
<1>3. /\ pc'[p] = IF place[p] < DocCount(p) THEN "cook"
                  ELSE IF job[p].world = NoScenario THEN "done" ELSE "scenario"
      /\ place'[p] = place[p] + 1 /\ sha' = [sha EXCEPT ![p] = Empty]
      /\ pc' = [pc EXCEPT ![p] = pc'[p]] /\ place' = [place EXCEPT ![p] = @ + 1]
  BY <1>1 DEF Return, At, DocCount
<1>4. pc'[p] \in {"cook", "done", "scenario"}
  BY <1>3
<1>5. pc' \in [Compilers -> Steps] /\ place' \in [Compilers -> Nat \ {0}]
      /\ sha' \in [Compilers -> Shas \cup {Empty}]
  BY <1>1, <1>3, <1>4 DEF Steps, Stopped
<1>6. Typed'
  BY <1>1, <1>5, StillTyped
<1>7. DocCount(p)' = DocCount(p) /\ (InWorld(p)' <=> place'[p] > DocCount(p))
  BY <1>1 DEF DocCount, InWorld
<1>8. Place(p)'
  BY <1>2, <1>3, <1>4, <1>7 DEF Place
<1>9. Cooked(p)' /\ Hashed(p)' /\ Staged(p)'
  BY <1>4 DEF Cooked, Hashed, Staged, BeforeLookup
<1> QED BY <1>6, <1>8, <1>9 DEF AtDoc

LEMMA LookUpKeeps ==
  ASSUME AssetInv, NEW p \in Compilers, LookUp(p), Own(p) PROVE Typed' /\ AtDoc(p)'
<1> USE DEF AssetInv
<1>1. /\ UNCHANGED <<place, sha, assets, told, entries>> /\ pc[p] = "lookup" /\ Typed /\ AtDoc(p) /\ Place(p)
      /\ ~InWorld(p)
  BY DEF LookUp, Miss, ReadEntry, ReadMalformed, At, Fails, recipeCache, stores, AtDoc, Place
<1>2. pc'[p] \in {"verify", "recheck", "raised"} /\ pc' \in [Compilers -> Steps]
  <2>1. \E there \in {"verify", "recheck", "raised"} : pc' = [pc EXCEPT ![p] = there]
    BY DEF LookUp, Miss, ReadEntry, ReadMalformed, At, Fails
  <2>2. pc \in [Compilers -> Steps] /\ {"verify", "recheck", "raised"} \subseteq Steps
    BY <1>1 DEF Typed, Steps, Stopped
  <2> QED BY <2>1, <2>2
<1>3. Typed'
  BY <1>1, <1>2, StillTyped DEF Typed
<1> QED BY <1>1, <1>2, <1>3, Stops, GoesOn DEF Stopped, BeforeLookup

LEMMA RecheckKeeps ==
  ASSUME AssetInv, NEW p \in Compilers, Recheck(p), Own(p) PROVE Typed' /\ AtDoc(p)'
<1> USE DEF AssetInv
<1>1. UNCHANGED <<assets, told, entries>> /\ pc[p] = "recheck" /\ Typed /\ AtDoc(p) /\ Place(p) /\ ~InWorld(p)
  BY DEF Recheck, Hit, FallThrough, Return, At, recipeCache, stores, AtDoc, Place
<1>2. CASE Hit(p)
  BY <1>1, <1>2, ReturnKeeps DEF Hit
<1>3. CASE FallThrough(p)
  <2>1. pc'[p] = "verify" /\ pc' \in [Compilers -> Steps] /\ UNCHANGED <<place, sha>>
    BY <1>1, <1>3 DEF FallThrough, At, Typed, Steps
  <2>2. Typed'
    BY <1>1, <2>1, StillTyped DEF Typed
  <2> QED BY <1>1, <2>1, <2>2, GoesOn DEF BeforeLookup
<1> QED BY <1>2, <1>3 DEF Recheck

LEMMA KeepFailureKeeps ==
  ASSUME AssetInv, NEW p \in Compilers, KeepFailure(p), Own(p) PROVE Typed' /\ AtDoc(p)'
<1> USE DEF AssetInv
<1>1. UNCHANGED <<place, sha, assets, told, entries>> /\ Typed /\ Place(p)
  BY DEF KeepFailure, recipeCache, AtDoc
<1>2. pc'[p] = "raised" /\ pc' \in [Compilers -> Steps]
  BY <1>1 DEF KeepFailure, At, Typed, Steps, Stopped
<1>3. Typed'
  BY <1>1, <1>2, StillTyped DEF Typed
<1> QED BY <1>1, <1>2, <1>3, Stops DEF Stopped

LEMMA LockKeeps ==
  ASSUME AssetInv, NEW p \in Compilers, Lock(p), Own(p) PROVE Typed' /\ AtDoc(p)'
<1> USE DEF AssetInv
<1>1. UNCHANGED <<place, sha, assets, told, entries, staging>> /\ pc[p] = "locking" /\ Typed /\ AtDoc(p) /\ Place(p)
  BY DEF Lock, TakeLock, LockTimeout, At, Fails, recipeCache, AtDoc
<1>2. pc'[p] \in {"locked", "raised"} /\ pc' \in [Compilers -> Steps]
  BY <1>1 DEF Lock, TakeLock, LockTimeout, At, Fails, Typed, Steps, Stopped, Critical
<1>3. Typed'
  BY <1>1, <1>2, StillTyped DEF Typed
<1> QED BY <1>1, <1>2, <1>3, Stops, GoesOn DEF Stopped, BeforeLookup

LEMMA LookAgainKeeps ==
  ASSUME AssetInv, NEW p \in Compilers, LookAgain(p), Own(p) PROVE Typed' /\ AtDoc(p)'
<1> USE DEF AssetInv
<1>1. UNCHANGED <<place, sha, assets, told>> /\ pc[p] = "locked" /\ Typed /\ AtDoc(p) /\ Place(p) /\ ~InWorld(p)
  BY DEF LookAgain, Vacant, Reuse, UnreadableEntry, Quarantine, At, Fails, recipeCache, AtDoc
<1>2. /\ pc' \in [Compilers -> Steps] /\ pc'[p] \in {"publishing", "unlocking"}
      /\ pc'[p] = "publishing" => staging' = staging
  BY <1>1 DEF LookAgain, Vacant, Reuse, UnreadableEntry, Quarantine, At, Fails, Typed, Steps, Critical
<1>3. entries' \in [Addresses -> Proof \cup {Empty}]
  BY <1>1 DEF LookAgain, Vacant, Reuse, UnreadableEntry, Quarantine, Typed
<1>4. Typed'
  BY <1>1, <1>2, <1>3, StillTyped DEF Typed
<1> QED BY <1>1, <1>2, <1>4, GoesOn DEF BeforeLookup

LEMMA PublishKeeps ==
  ASSUME AssetInv, NEW p \in Compilers, Publish(p), Own(p) PROVE Typed' /\ AtDoc(p)'
<1> USE DEF AssetInv
<1>1. UNCHANGED <<place, sha, assets, told>> /\ pc[p] = "publishing" /\ Typed /\ AtDoc(p) /\ Place(p)
      /\ ~InWorld(p) /\ Staged(p)
  BY DEF Publish, At, recipeCache, AtDoc, Place
<1>2. pc' \in [Compilers -> Steps] /\ pc'[p] = "unlocking"
  BY <1>1 DEF Publish, At, Typed, Steps, Critical
<1>3. entries' \in [Addresses -> Proof \cup {Empty}]
  BY <1>1 DEF Publish, Staged, Typed
<1>4. Typed'
  BY <1>1, <1>2, <1>3, StillTyped DEF Typed
<1> QED BY <1>1, <1>2, <1>4, GoesOn DEF BeforeLookup

LEMMA UnlockKeeps ==
  ASSUME AssetInv, NEW p \in Compilers, Unlock(p), Own(p) PROVE Typed' /\ AtDoc(p)'
<1> USE DEF AssetInv
<1>1. UNCHANGED <<assets, told, entries>> /\ Typed /\ Place(p)
  BY DEF Unlock, recipeCache, AtDoc
<1>2. CASE ~InWorld(p) /\ Return(p, "unlocking")
  BY <1>1, <1>2, ReturnKeeps
<1>3. CASE /\ pc' \in {[pc EXCEPT ![p] = "raised"], [pc EXCEPT ![p] = "done"]}
           /\ UNCHANGED <<place, sha>>
  <2>1. pc'[p] \in {"raised", "done"} /\ pc' \in [Compilers -> Steps]
    BY <1>1, <1>3 DEF Typed, Steps, Stopped
  <2>2. Typed'
    BY <1>1, <1>3, <2>1, StillTyped DEF Typed
  <2> QED BY <1>1, <1>3, <2>1, <2>2, Stops DEF Stopped
<1> QED BY <1>2, <1>3 DEF Unlock, UnlockEntity, UnlockWorld, At

LEMMA WorldStepKeeps ==
  ASSUME AssetInv, NEW p \in Compilers, Own(p),
         Scenario(p) \/ Bind(p) \/ JudgeScenario(p) \/ PublishWorld(p) \/ KillCompiler(p)
  PROVE  Typed' /\ AtDoc(p)'
<1> USE DEF AssetInv
<1>1. UNCHANGED <<place, sha, assets, told, entries>> /\ Typed /\ AtDoc(p) /\ Place(p)
  BY DEF Scenario, Bind, JudgeScenario, PublishWorld, KillCompiler, recipeCache, stores, AtDoc
<1>2. pc' \in [Compilers -> Steps]
      /\ \/ pc'[p] \in {"raised", "crashed"}
         \/ InWorld(p) /\ pc'[p] \in {"bind", "judge", "failing", "locking", "unlocking"}
  BY <1>1 DEF Scenario, Bind, JudgeScenario, Unprovable, WorldBroken, WorldHolds, PublishWorld, KillCompiler,
              At, Fails, Typed, Place, Steps, Critical, Stopped
<1>3. Typed'
  BY <1>1, <1>2, StillTyped DEF Typed
<1> QED BY <1>1, <1>2, <1>3, Stops, GoesOn DEF Stopped, BeforeLookup

LEMMA DocKeeps ==
  ASSUME AssetInv, NEW p \in Compilers, CompilerStep(p) \/ KillCompiler(p) PROVE Typed' /\ AtDoc(p)'
<1>1. Own(p)
  BY OwnStep DEF AssetInv
<1> QED BY <1>1, CookKeeps, HashKeeps, LookUpKeeps, RecheckKeeps, VerifyKeeps, KeepFailureKeeps, LockKeeps,
           LookAgainKeeps, PublishKeeps, UnlockKeeps, WorldStepKeeps DEF CompilerStep

-----------------------------------------------------------------------------
(* From outside: only what was tampered with, or evicted after that, moves. *)

Compiling == <<job, ask, told, pc, place, sha, seen, staging, cause, answer, published>>

\* A package that an outsider damages, or that a cook evicts, has been tampered with.
LEMMA AssetOutside ==
  ASSUME AssetInv, NEW r \in Recipes, EvictAsset(r) \/ TamperAsset(r)
  PROVE  /\ UNCHANGED <<Compiling, entries, entryTouches, locks>>
         /\ assets' \in [Recipes -> Assets!Cell \cup {Empty}] /\ assetTouches' \in [Recipes -> Nat]
         /\ \A other \in Recipes : assetTouches'[other] = 0 =>
              assetTouches[other] = 0 /\ assets'[other] = assets[other]
         /\ CellsVouch'
<1> USE DEF AssetInv
<1>1. Typed /\ CellsVouch
  OBVIOUS
<1>2. CASE EvictAsset(r)
  <2>1. /\ assets[r] # Empty /\ ~assets[r].vouched /\ assets' = [assets EXCEPT ![r] = Empty]
        /\ UNCHANGED <<Compiling, entries, entryTouches, locks>> /\ assetTouches' = assetTouches
    BY <1>2 DEF EvictAsset, Assets!Evict, Compiling, stores, replies, outside
  <2>2. assetTouches[r] # 0
    BY <1>1, <2>1 DEF CellsVouch
  <2>3. assets' \in [Recipes -> Assets!Cell \cup {Empty}] /\ assets'[r] = Empty
        /\ \A other \in Recipes \ {r} : assets'[other] = assets[other]
    BY <1>1, <2>1 DEF Typed
  <2>4. CellsVouch'
    BY <1>1, <2>1, <2>3 DEF CellsVouch
  <2> QED BY <1>1, <2>1, <2>2, <2>3, <2>4 DEF Typed
<1>3. CASE TamperAsset(r)
  <2>1. PICK left \in {Empty} \cup {held \in Assets!Cell : ~held.vouched} :
          assets' = [assets EXCEPT ![r] = left]
    BY <1>3 DEF TamperAsset, Assets!Damage
  <2>2. /\ UNCHANGED <<Compiling, entries, entryTouches, locks>>
        /\ assetTouches' = [assetTouches EXCEPT ![r] = @ + 1]
    BY <1>3 DEF TamperAsset, Assets!Damage, Compiling, stores, replies, outside
  <2>3. assets' \in [Recipes -> Assets!Cell \cup {Empty}] /\ assets'[r] = left
        /\ \A other \in Recipes \ {r} : assets'[other] = assets[other]
    BY <1>1, <2>1 DEF Typed
  <2>4. assetTouches' \in [Recipes -> Nat] /\ assetTouches'[r] # 0
        /\ \A other \in Recipes \ {r} : assetTouches'[other] = assetTouches[other]
    BY <1>1, <2>2 DEF Typed
  <2>5. CellsVouch'
    BY <1>1, <2>3, <2>4 DEF CellsVouch
  <2> QED BY <2>2, <2>3, <2>4, <2>5
<1> QED BY <1>2, <1>3

LEMMA EntryOutside ==
  ASSUME AssetInv, NEW a \in Addresses, TamperEntry(a)
  PROVE  /\ UNCHANGED <<Compiling, assets, assetTouches, locks>>
         /\ entries' \in [Addresses -> Proof \cup {Empty}] /\ entryTouches' \in [Addresses -> Nat]
         /\ entries[a] # Empty /\ entryTouches'[a] = entryTouches[a] + 1
         /\ entries'[a] # Empty => entries'[a].asset = entries[a].asset /\ entries'[a].checked = entries[a].checked
         /\ \A other \in Addresses \ {a} :
              entries'[other] = entries[other] /\ entryTouches'[other] = entryTouches[other]
<1> USE DEF AssetInv
<1>1. PICK left \in {Empty} \cup {[entries[a] EXCEPT !.kind = kind] : kind \in ProofStates \ {"genuine"}} :
        entries' = [entries EXCEPT ![a] = left]
  BY DEF TamperEntry
<1>2. UNCHANGED <<Compiling, assets, assetTouches, locks>> /\ entries[a] # Empty
      /\ entryTouches' = [entryTouches EXCEPT ![a] = @ + 1]
  BY DEF TamperEntry, Compiling, recipeCache, replies
<1>3. entries[a] \in Proof
  BY <1>2 DEF Typed
<1>4. left # Empty => left \in Proof /\ left.asset = entries[a].asset /\ left.checked = entries[a].checked
  BY <1>1, <1>3 DEF Proof
<1> QED BY <1>1, <1>2, <1>4 DEF Typed

LEMMA WorldOutside ==
  ASSUME NEW w, TamperWorld(w)
  PROVE  UNCHANGED <<Compiling, assets, assetTouches, entries, entryTouches, locks>>
BY DEF TamperWorld, Compiling, recipeCache, replies

\* A compiler at its document does not notice.
LEMMA NobodyMoves ==
  ASSUME Typed, NEW p \in Compilers, AtDoc(p), UNCHANGED Compiling,
         \A r \in Recipes : assetTouches'[r] = 0 => assetTouches[r] = 0 /\ assets'[r] = assets[r]
  PROVE  AtDoc(p)'
<1>1. /\ InWorld(p)' = InWorld(p) /\ DocCount(p)' = DocCount(p) /\ Call(p)' = Call(p)
      /\ DocAt(p)' = DocAt(p) /\ AssetOf(p)' = AssetOf(p) /\ job' = job
      /\ UNCHANGED <<pc, place, sha, staging, told>>
  BY DEF Compiling, InWorld, DocCount, Call, DocAt, AssetOf
<1>2. ~InWorld(p) => AssetOf(p) \in Recipes
  BY Here
<1>3. ~InWorld(p) /\ assetTouches'[AssetOf(p)] = 0 =>
        assetTouches[AssetOf(p)] = 0 /\ assets'[AssetOf(p)] = assets[AssetOf(p)]
  BY <1>2
<1>4. Place(p)'
  BY <1>1 DEF AtDoc, Place
<1>5. Cooked(p)'
  BY <1>1, <1>3 DEF AtDoc, Cooked
<1>6. Hashed(p)'
  BY <1>1, <1>3 DEF AtDoc, Hashed
<1>7. Staged(p)'
  BY <1>1, <1>3 DEF AtDoc, Staged
<1> QED BY <1>4, <1>5, <1>6, <1>7 DEF AtDoc

LEMMA AssetInvInit == CompilerInit => AssetInv
<1> SUFFICES ASSUME CompilerInit PROVE AssetInv
  OBVIOUS
<1> USE DEF CompilerInit
<1>1. job \in Jobs /\ \A p \in Compilers : job[p] \in Job /\ DocCount(p) \in 1 .. MaxDocs
  BY CompilerAssumption DEF DocCount
<1>2. Asked
  <2> SUFFICES ASSUME NEW p \in Compilers, NEW i \in 1 .. DocCount(p)
               PROVE  ask[<<p, i>>] = [key |-> RecipeOf[job[p].docs[i]], stored |-> ~job[p].noCache, makes |-> <<p, i>>]
    BY DEF Asked
  <2>1. job[p].docs \in Seq(Docs) /\ DOMAIN job[p].docs = 1 .. DocCount(p)
    BY <1>1 DEF Job, DocCount
  <2>2. i \in DOMAIN job[p].docs /\ i \in 1 .. MaxDocs
    BY <1>1, <2>1, CompilerAssumption
  <2>3. <<p, i>> \in Calls
    BY <2>2 DEF Calls
  <2>4. \A c \in Calls : c[2] \in DOMAIN job[c[1]].docs =>
          ask[c] = [key |-> RecipeOf[job[c[1]].docs[c[2]]], stored |-> ~job[c[1]].noCache, makes |-> c]
    OBVIOUS
  <2> HIDE DEF CompilerInit
  <2> QED BY <2>2, <2>3, <2>4
<1>3. assets \in [Recipes -> Assets!Cell \cup {Empty}] /\ told \in [Calls -> Calls \cup {Empty}]
  BY DEF Assets!Init
<1>4. Typed
  BY <1>1, <1>2, <1>3 DEF Typed, Steps
<1>5. CellsVouch
  BY DEF CellsVouch, Assets!Init
<1>6. \A p \in Compilers : AtDoc(p)
  BY <1>1, CompilerAssumption DEF AtDoc, Place, Cooked, Hashed, Staged, InWorld, DocCount, BeforeLookup
<1> QED BY <1>4, <1>5, <1>6 DEF AssetInv

LEMMA AssetInvStep == AssetInv /\ [CompilerNext]_compilerVars => AssetInv'
<1> SUFFICES ASSUME AssetInv, [CompilerNext]_compilerVars PROVE AssetInv'
  OBVIOUS
<1>0. Typed /\ CellsVouch /\ \A p \in Compilers : AtDoc(p)
  BY DEF AssetInv
<1>1. ASSUME NEW p \in Compilers, CompilerStep(p) \/ KillCompiler(p) PROVE AssetInv'
  <2>1. Own(p) /\ AssetMove(p) /\ Typed' /\ AtDoc(p)'
    BY <1>0, <1>1, OwnStep, AssetMoves, DocKeeps DEF AtDoc
  <2>2. assets' = assets \/ (AssetOf(p) \in Recipes /\ Call(p) \in Calls)
    BY <1>0, <2>1, Here DEF AssetMove, AtDoc, Place
  <2>3. CellsVouch'
    BY <2>1, <2>2, CellsKeep DEF Own
  <2>4. \A q \in Compilers \ {p} : AtDoc(q)'
    BY <1>0, <2>1, <2>2, OthersKeep
  <2> QED BY <2>1, <2>3, <2>4 DEF AssetInv
<1>2. ASSUME NEW r \in Recipes, EvictAsset(r) \/ TamperAsset(r) PROVE AssetInv'
  <2>1. Typed' /\ CellsVouch'
    BY <1>0, <1>2, AssetOutside, StillAsked DEF Typed, Compiling
  <2>2. \A p \in Compilers : AtDoc(p)'
    BY <1>0, <1>2, AssetOutside, NobodyMoves
  <2> QED BY <2>1, <2>2 DEF AssetInv
<1>3. ASSUME NEW a \in Addresses, TamperEntry(a) PROVE AssetInv'
  <2>1. Typed' /\ CellsVouch'
    BY <1>0, <1>3, EntryOutside, StillAsked DEF Typed, Compiling, CellsVouch
  <2>2. \A p \in Compilers : AtDoc(p)'
    BY <1>0, <1>3, EntryOutside, NobodyMoves
  <2> QED BY <2>1, <2>2 DEF AssetInv
<1>4. ASSUME UNCHANGED <<Compiling, assets, assetTouches, entries, entryTouches, locks>> PROVE AssetInv'
  <2>1. Typed' /\ CellsVouch'
    BY <1>0, <1>4, StillAsked DEF Typed, Compiling, CellsVouch
  <2>2. \A p \in Compilers : AtDoc(p)'
    BY <1>0, <1>4, NobodyMoves
  <2> QED BY <2>1, <2>2 DEF AssetInv
<1>5. ASSUME UNCHANGED compilerVars PROVE AssetInv'
  BY <1>4, <1>5 DEF compilerVars, Compiling, recipeCache, stores, replies, outside
<1> QED BY <1>1, <1>2, <1>3, <1>4, <1>5, WorldOutside DEF CompilerNext

-----------------------------------------------------------------------------
(* The locks.                                                              *)

Away(p) == pc[p] \notin Critical \cup {"crashed"} /\ pc'[p] \notin Critical /\ locks' = locks

Takes(p) ==
  /\ pc[p] = "locking" /\ pc'[p] = "locked" /\ Target(p)' = Target(p)
  /\ Holder(Target(p)) = {}
  /\ locks' = locks \cup {[on |-> Target(p), by |-> p]}

Holds(p) ==
  /\ pc[p] \in Critical /\ pc'[p] \in Critical /\ Target(p)' = Target(p)
  /\ locks' = locks

Dies(p) == pc'[p] = "crashed" /\ pc[p] \notin Stopped /\ locks' = locks

Releases(p) ==
  /\ pc[p] \in Critical /\ pc'[p] \notin Critical \cup {"crashed"}
  /\ locks' = locks \ {[on |-> Target(p), by |-> p]}

\* A compiler's address never changes under a lock.
LEMMA SameTarget ==
  ASSUME NEW p \in Compilers, Own(p), UNCHANGED <<place, sha>>, seen' = seen \/ ~InWorld(p)
  PROVE  Target(p)' = Target(p)
BY SameDoc DEF Target, WorldAt, Own

LEMMA LockMoves ==
  ASSUME AssetInv, NEW p \in Compilers, CompilerStep(p) \/ KillCompiler(p)
  PROVE  Away(p) \/ Takes(p) \/ Holds(p) \/ Dies(p) \/ Releases(p)
<1>1. Own(p) /\ Typed /\ Place(p) /\ Typed' /\ pc \in [Compilers -> Steps]
  BY OwnStep, DocKeeps DEF AssetInv, AtDoc, Typed
<1> USE <1>1 DEF At, Fails, Critical, Stopped
<1>2. CASE Cook(p) \/ Hash(p) \/ LookUp(p) \/ Recheck(p) \/ Verify(p)
  <2>1. locks' = locks /\ pc[p] \in {"cook", "hash", "lookup", "recheck", "verify"}
    BY <1>2 DEF Cook, CookAsset, CookRaises, Hash, HashProof, ProofGone, LookUp, Miss, ReadEntry, ReadMalformed,
                Recheck, Hit, FallThrough, Return, Verify, NoArtifact, ContractBroken, ContractHonoured, stores
  <2>2. pc'[p] \in {"hash", "lookup", "verify", "recheck", "raised", "cook", "done", "scenario", "failing", "locking"}
    BY <1>2 DEF Cook, CookAsset, CookRaises, Hash, HashProof, ProofGone, LookUp, Miss, ReadEntry, ReadMalformed,
                Recheck, Hit, FallThrough, Return, Verify, NoArtifact, ContractBroken, ContractHonoured
  <2> QED BY <2>1, <2>2 DEF Away
<1>3. CASE KeepFailure(p) \/ Scenario(p) \/ Bind(p) \/ JudgeScenario(p)
  <2>1. locks' = locks /\ pc[p] \in {"failing", "scenario", "bind", "judge"}
    BY <1>3 DEF KeepFailure, Scenario, Bind, JudgeScenario, Unprovable, WorldBroken, WorldHolds, stores
  <2>2. pc'[p] \in {"raised", "bind", "judge", "failing", "locking"}
    BY <1>3 DEF KeepFailure, Scenario, Bind, JudgeScenario, Unprovable, WorldBroken, WorldHolds
  <2> QED BY <2>1, <2>2 DEF Away
<1>4. CASE Lock(p)
  <2>1. Target(p)' = Target(p)
    BY <1>4, SameTarget DEF Lock
  <2>2. CASE TakeLock(p)
    BY <2>1, <2>2 DEF TakeLock, Takes
  <2>3. CASE LockTimeout(p)
    BY <2>3 DEF LockTimeout, Away
  <2> QED BY <1>4, <2>2, <2>3 DEF Lock
<1>5. CASE LookAgain(p)
  <2>1. Target(p)' = Target(p) /\ locks' = locks
    BY <1>5, SameTarget DEF LookAgain
  <2>2. pc[p] = "locked" /\ pc'[p] \in {"publishing", "unlocking"}
    BY <1>5 DEF LookAgain, Vacant, Reuse, UnreadableEntry, Quarantine
  <2> QED BY <2>1, <2>2 DEF Holds
<1>6. CASE Publish(p) \/ PublishWorld(p)
  <2>1. Target(p)' = Target(p) /\ locks' = locks
    BY <1>6, SameTarget DEF Publish, PublishWorld, Place
  <2>2. pc[p] \in {"publishing", "locked"} /\ pc'[p] = "unlocking"
    BY <1>6 DEF Publish, PublishWorld
  <2> QED BY <2>1, <2>2 DEF Holds
<1>7. CASE Unlock(p)
  <2>1. pc[p] = "unlocking" /\ pc'[p] \in {"raised", "cook", "done", "scenario"}
    BY <1>7 DEF Unlock, UnlockEntity, UnlockWorld, Return
  <2> QED BY <1>7, <2>1 DEF Unlock, Releases
<1>8. CASE KillCompiler(p)
  BY <1>8 DEF KillCompiler, stores, Dies
<1> QED BY <1>2, <1>3, <1>4, <1>5, <1>6, <1>7, <1>8 DEF CompilerStep

\* Entities are published where there is none, and only an edited one makes room.
EntryMove(p) ==
  \/ entries' = entries
  \/ /\ pc[p] = "locked" /\ ~InWorld(p) /\ Address(p) \in Addresses
     /\ entries[Address(p)] # Empty /\ entries[Address(p)].kind = "edited"
     /\ entries' = [entries EXCEPT ![Address(p)] = Empty]
  \/ /\ pc[p] = "publishing" /\ ~InWorld(p) /\ Address(p) \in Addresses
     /\ staging[p] \in Proof /\ staging[p].kind = "genuine"
     /\ entries' = [entries EXCEPT ![Address(p)] = staging[p]]

LEMMA EntryMoves ==
  ASSUME AssetInv, NEW p \in Compilers, CompilerStep(p) \/ KillCompiler(p)
  PROVE  EntryMove(p) /\ (pc'[p] = "publishing" => entries'[Address(p)] = Empty)
<1>1. Typed /\ AtDoc(p) /\ Place(p) /\ pc \in [Compilers -> Steps] /\ entries \in [Addresses -> Proof \cup {Empty}]
  BY DEF AssetInv, AtDoc, Typed
<1> USE <1>1 DEF At, Fails
<1>2. ~InWorld(p) /\ pc[p] \in BeforeLookup => Address(p) \in Addresses
  BY Here DEF AtDoc, Hashed
<1>3. CASE LookAgain(p)
  <2>1. pc[p] = "locked" /\ ~InWorld(p) /\ Address(p) \in Addresses
    BY <1>2, <1>3 DEF LookAgain, Vacant, Reuse, UnreadableEntry, Quarantine, BeforeLookup
  <2>2. CASE Quarantine(p)
    <3>1. KindAt(Address(p)) = "edited" /\ entries' = [entries EXCEPT ![Address(p)] = Empty]
      BY <2>2 DEF Quarantine
    <3>2. entries[Address(p)] # Empty /\ entries[Address(p)].kind = "edited"
      BY <3>1 DEF KindAt
    <3> QED BY <2>1, <3>1, <3>2 DEF EntryMove
  <2>3. CASE ~Quarantine(p)
    BY <1>3, <2>3 DEF LookAgain, Vacant, Reuse, UnreadableEntry, EntryMove
  <2> QED BY <2>2, <2>3
<1>4. CASE Publish(p)
  <2>1. pc[p] = "publishing" /\ pc'[p] = "unlocking" /\ entries' = [entries EXCEPT ![Address(p)] = staging[p]]
    BY <1>4 DEF Publish
  <2>2. ~InWorld(p) /\ Staged(p)
    BY <2>1 DEF Place, AtDoc
  <2> QED BY <1>2, <2>1, <2>2 DEF Staged, BeforeLookup, EntryMove
<1>5. CASE ~LookAgain(p) /\ ~Publish(p)
  <2>1. entries' = entries
    BY <1>5 DEF CompilerStep, Cook, Hash, LookUp, Recheck, Verify, KeepFailure, Lock, Unlock, Scenario, Bind,
                JudgeScenario, PublishWorld, KillCompiler, stores
  <2>2. pc'[p] # "publishing"
    BY <1>5 DEF CompilerStep, Cook, CookAsset, CookRaises, Hash, HashProof, ProofGone, LookUp, Miss, ReadEntry,
                ReadMalformed, Recheck, Hit, FallThrough, Return, Verify, NoArtifact, ContractBroken,
                ContractHonoured, KeepFailure, Lock, TakeLock, LockTimeout, Unlock, UnlockEntity, UnlockWorld,
                Scenario, Bind, JudgeScenario, Unprovable, WorldBroken, WorldHolds, PublishWorld, KillCompiler
  <2> QED BY <2>1, <2>2 DEF EntryMove
<1> QED BY <1>3, <1>4, <1>5

LEMMA PublishingFrom ==
  ASSUME Typed, NEW p \in Compilers, CompilerStep(p) \/ KillCompiler(p), pc'[p] = "publishing"
  PROVE  place' = place /\ sha' = sha
<1> USE DEF At, Fails, Typed
<1>1. CASE LookAgain(p)
  BY <1>1 DEF LookAgain
<1>2. CASE ~LookAgain(p)
  BY <1>2 DEF CompilerStep, Cook, CookAsset, CookRaises, Hash, HashProof, ProofGone, LookUp, Miss, ReadEntry,
              ReadMalformed, Recheck, Hit, FallThrough, Return, Verify, NoArtifact, ContractBroken,
              ContractHonoured, KeepFailure, Lock, TakeLock, LockTimeout, Unlock, UnlockEntity, UnlockWorld,
              Publish, Scenario, Bind, JudgeScenario, Unprovable, WorldBroken, WorldHolds, PublishWorld, KillCompiler
<1> QED BY <1>1, <1>2

LEMMA TargetKeeps ==
  ASSUME NEW p \in Compilers, NEW q \in Compilers \ {p}, Own(p)
  PROVE  Target(q)' = Target(q) /\ Address(q)' = Address(q) /\ InWorld(q)' = InWorld(q) /\ pc'[q] = pc[q]
BY DEF Own, Target, Address, WorldAt, InWorld, DocAt

\* Two compilers are never under one target's lock.
LEMMA OneUnder ==
  ASSUME LockInv, NEW p \in Compilers, NEW q \in Compilers, pc[p] \in Critical, pc[q] \in Critical,
         Target(p) = Target(q)
  PROVE  p = q
BY DEF LockInv

LEMMA LockInvStep ==
  ASSUME AssetInv, LockInv, NEW p \in Compilers, CompilerStep(p) \/ KillCompiler(p) PROVE LockInv'
<1>1. /\ Own(p) /\ EntryMove(p) /\ (pc'[p] = "publishing" => entries'[Address(p)] = Empty)
      /\ Away(p) \/ Takes(p) \/ Holds(p) \/ Dies(p) \/ Releases(p)
  BY OwnStep, LockMoves, EntryMoves DEF AssetInv
<1>2. \A q \in Compilers \ {p} : /\ Target(q)' = Target(q) /\ Address(q)' = Address(q) /\ pc'[q] = pc[q]
                                 /\ InWorld(q)' = InWorld(q)
  BY <1>1, TargetKeeps
<1>3. Typed /\ AtDoc(p) /\ \A q \in Compilers : Place(q)
  BY DEF AssetInv, AtDoc
<1>4. \A q \in Compilers : pc'[q] \in Critical => [on |-> Target(q)', by |-> q] \in locks'
  <2> SUFFICES ASSUME NEW q \in Compilers, pc'[q] \in Critical PROVE [on |-> Target(q)', by |-> q] \in locks'
    OBVIOUS
  <2>1. CASE q = p
    BY <1>1, <2>1 DEF LockInv, Away, Takes, Holds, Dies, Releases, Critical
  <2>2. CASE q # p
    <3>1. [on |-> Target(q), by |-> q] \in locks /\ Target(q)' = Target(q)
      BY <1>2, <2>2 DEF LockInv
    <3>2. [on |-> Target(q), by |-> q] # [on |-> Target(p), by |-> p]
      BY <2>2
    <3> QED BY <1>1, <3>1, <3>2 DEF Away, Takes, Holds, Dies, Releases
  <2> QED BY <2>1, <2>2
<1>5. \A lock, other \in locks' : lock.on = other.on => lock = other
  <2>1. CASE Takes(p)
    <3>1. \A held \in locks : held.on # Target(p)
      BY <2>1 DEF Takes, Holder
    <3> QED BY <2>1, <3>1 DEF Takes, LockInv
  <2>2. CASE ~Takes(p)
    BY <1>1, <2>2 DEF Away, Holds, Dies, Releases, LockInv
  <2> QED BY <2>1, <2>2
<1>6. ASSUME NEW lock \in locks'
      PROVE  /\ lock.by \in Compilers /\ pc'[lock.by] \in Critical \cup {"crashed"}
             /\ lock = [on |-> lock.on, by |-> lock.by]
             /\ pc'[lock.by] \in Critical => lock.on = Target(lock.by)'
  <2>1. CASE lock \in locks
    <3>1. /\ lock.by \in Compilers /\ pc[lock.by] \in Critical \cup {"crashed"}
          /\ lock = [on |-> lock.on, by |-> lock.by]
          /\ pc[lock.by] \in Critical => lock.on = Target(lock.by)
      BY <2>1 DEF LockInv
    <3>2. CASE lock.by # p
      BY <1>2, <3>1, <3>2
    <3>3. CASE lock.by = p
      <4>1. ~Away(p)
        BY <3>1, <3>3 DEF Away
      <4>2. CASE Takes(p)
        BY <3>1, <3>3, <4>2 DEF Takes, Critical
      <4>3. CASE Holds(p)
        BY <3>1, <3>3, <4>3 DEF Holds, Critical
      <4>4. CASE Dies(p)
        BY <3>1, <3>3, <4>4 DEF Dies, Critical
      <4>5. CASE Releases(p)
        BY <1>6, <3>1, <3>3, <4>5 DEF Releases, Critical
      <4> QED BY <1>1, <4>1, <4>2, <4>3, <4>4, <4>5
    <3> QED BY <3>2, <3>3
  <2>2. CASE lock \notin locks
    BY <1>1, <1>6, <2>2 DEF Away, Takes, Holds, Dies, Releases, Critical
  <2> QED BY <2>1, <2>2
<1>7. ASSUME NEW q \in Compilers, pc'[q] = "publishing" PROVE entries'[Address(q)'] = Empty
  <2>1. CASE q = p
    <3>1. pc[p] \in Critical /\ ~InWorld(p) /\ Address(p)' = Address(p)
      <4>1. Holds(p)
        BY <1>1, <1>7, <2>1 DEF Away, Takes, Dies, Releases, Critical
      <4>2. ~InWorld(p)'
        BY <1>7, <2>1, DocKeeps DEF AtDoc, Place
      <4>3. place' = place /\ sha' = sha
        BY <1>3, <1>7, <2>1, PublishingFrom
      <4> QED BY <1>1, <4>1, <4>2, <4>3, SameDoc DEF Holds
    <3> QED BY <1>1, <1>7, <2>1, <3>1
  <2>2. CASE q # p
    <3>1. pc[q] = "publishing" /\ entries[Address(q)] = Empty /\ Address(q)' = Address(q) /\ ~InWorld(q)
      BY <1>2, <1>3, <1>7, <2>2 DEF LockInv, Place
    <3>2. CASE pc[p] \in {"locked", "publishing"} /\ ~InWorld(p)
      <4>1. Address(q) # Address(p)
        BY <2>2, <3>1, <3>2, OneUnder DEF Critical, Target
      <4>2. Address(q) \in Addresses
        BY <1>3, <3>1, Here DEF AssetInv, AtDoc, Hashed, BeforeLookup
      <4> QED BY <1>1, <1>3, <3>1, <4>1, <4>2 DEF EntryMove, Typed
    <3>3. CASE ~(pc[p] \in {"locked", "publishing"} /\ ~InWorld(p))
      BY <1>1, <3>1, <3>3 DEF EntryMove
    <3> QED BY <3>2, <3>3
  <2> QED BY <2>1, <2>2
<1> QED BY <1>4, <1>5, <1>6, <1>7 DEF LockInv

LEMMA LockInvNext == AssetInv /\ LockInv /\ [CompilerNext]_compilerVars => LockInv'
<1> SUFFICES ASSUME AssetInv, LockInv, [CompilerNext]_compilerVars PROVE LockInv'
  OBVIOUS
<1>1. ASSUME UNCHANGED <<Compiling, locks>>,
             \A a \in Addresses : entries[a] = Empty => entries'[a] = Empty
      PROVE  LockInv'
  <2>1. \A p \in Compilers : Target(p)' = Target(p) /\ Address(p)' = Address(p) /\ pc'[p] = pc[p]
    BY <1>1 DEF Compiling, Target, Address, WorldAt, InWorld, DocAt
  <2>2. \A p \in Compilers : pc[p] = "publishing" => Address(p) \in Addresses
    BY Here DEF AssetInv, AtDoc, Place, Hashed, BeforeLookup
  <2>3. \A p \in Compilers : pc'[p] = "publishing" => entries'[Address(p)'] = Empty
    BY <1>1, <2>1, <2>2 DEF LockInv
  <2>4. \A p \in Compilers : pc'[p] \in Critical => [on |-> Target(p)', by |-> p] \in locks'
    BY <1>1, <2>1 DEF LockInv
  <2>5. \A lock \in locks' :
          /\ lock.by \in Compilers /\ pc'[lock.by] \in Critical \cup {"crashed"}
          /\ lock = [on |-> lock.on, by |-> lock.by]
          /\ pc'[lock.by] \in Critical => lock.on = Target(lock.by)'
    BY <1>1, <2>1 DEF LockInv
  <2> QED BY <1>1, <2>3, <2>4, <2>5 DEF LockInv
<1>2. ASSUME NEW r \in Recipes, EvictAsset(r) \/ TamperAsset(r) PROVE LockInv'
  BY <1>1, <1>2, AssetOutside
<1>3. ASSUME NEW a \in Addresses, TamperEntry(a) PROVE LockInv'
  <2>1. UNCHANGED <<Compiling, locks>> /\ \A at \in Addresses : entries[at] = Empty => entries'[at] = Empty
    BY <1>3, EntryOutside
  <2> QED BY <1>1, <2>1
<1>4. ASSUME NEW w \in worlds, TamperWorld(w) PROVE LockInv'
  BY <1>1, <1>4, WorldOutside
<1>5. CASE UNCHANGED compilerVars
  BY <1>1, <1>5 DEF compilerVars, Compiling, recipeCache, stores, replies
<1> QED BY <1>2, <1>3, <1>4, <1>5, LockInvStep DEF CompilerNext

LEMMA LockInvInit == CompilerInit => LockInv
BY DEF CompilerInit, LockInv, Critical

LEMMA LocksDisciplined == LockInv => LockDiscipline
<1> SUFFICES ASSUME LockInv PROVE LockDiscipline
  OBVIOUS
<1>1. ASSUME NEW p \in Compilers, pc[p] \in Critical PROVE Holder(Target(p)) = {p}
  <2>1. [on |-> Target(p), by |-> p] \in locks
    BY <1>1 DEF LockInv
  <2>2. \A lock \in locks : lock.on = Target(p) => lock.by = p
    BY <2>1 DEF LockInv
  <2>3. p \in Holder(Target(p))
    BY <2>1 DEF Holder
  <2>4. \A by \in Holder(Target(p)) : by = p
    BY <2>2 DEF Holder
  <2> QED BY <2>3, <2>4
<1> QED BY <1>1 DEF LockInv, LockDiscipline

-----------------------------------------------------------------------------
(* What compile_entity returned.                                           *)

LEMMA EntryInLog ==
  ASSUME NEW at \in Addresses, NEW proof \in Proof, NEW touches \in Nat
  PROVE  [at |-> at, proof |-> proof, touches |-> touches] \in Seen
BY DEF Seen

\* A proof that stands is not moved by a compiler, and an edit is counted.
LEMMA StandsKeep ==
  ASSUME AssetInv, LockInv, NEW p \in Compilers, EntryMove(p), Own(p), NEW s, Stands(s)
  PROVE  /\ s \in Seen /\ s.proof.kind \in Accepted
         /\ s.touches <= entryTouches'[s.at]
         /\ s.touches = entryTouches'[s.at] => entries'[s.at] = s.proof
<1>1. s.at \in Addresses /\ s.proof \in Proof /\ entryTouches' = entryTouches
  BY DEF Stands, Seen, Own
<1>2. entries[s.at] = s.proof => entries'[s.at] = s.proof
  <2> SUFFICES ASSUME entries[s.at] = s.proof PROVE entries'[s.at] = s.proof
    OBVIOUS
  <2>1. entries[s.at] # Empty /\ entries[s.at].kind # "edited"
    BY <1>1, MarkerAssumption DEF Stands, Accepted
  <2>2. pc[p] = "publishing" => entries[Address(p)] = Empty
    BY DEF LockInv
  <2>3. entries'[s.at] = entries[s.at]
    BY <1>1, <2>1, <2>2 DEF EntryMove, AssetInv, Typed
  <2> QED BY <2>3
<1> QED BY <1>1, <1>2 DEF Stands

LEMMA StandsOutside ==
  ASSUME AssetInv, NEW a \in Addresses, TamperEntry(a), NEW s, Stands(s)
  PROVE  /\ s \in Seen /\ s.proof.kind \in Accepted
         /\ s.touches <= entryTouches'[s.at]
         /\ s.touches = entryTouches'[s.at] => entries'[s.at] = s.proof
<1>1. s.at \in Addresses /\ s.touches \in Nat
  BY DEF Stands, Seen
<1>2. entryTouches \in [Addresses -> Nat] /\ entryTouches'[a] = entryTouches[a] + 1
      /\ \A other \in Addresses \ {a} :
           entries'[other] = entries[other] /\ entryTouches'[other] = entryTouches[other]
  BY EntryOutside DEF AssetInv, Typed
<1>3. CASE s.at = a
  BY <1>1, <1>2, <1>3 DEF Stands
<1>4. CASE s.at # a
  BY <1>1, <1>2, <1>4 DEF Stands
<1> QED BY <1>3, <1>4

AnswerMove(p) ==
  \/ answer' = answer /\ place' = place
  \/ /\ ~InWorld(p)
     /\ pc[p] = "recheck" \/ (pc[p] = "unlocking" /\ cause[p] = "none")
     /\ answer' = [answer EXCEPT ![Call(p)] = seen[p]]
     /\ place' = [place EXCEPT ![p] = @ + 1]
     /\ pc'[p] \notin {"recheck", "unlocking"}

LEMMA AnswerMoves ==
  ASSUME AssetInv, NEW p \in Compilers, CompilerStep(p) \/ KillCompiler(p) PROVE AnswerMove(p)
<1>1. Typed /\ Place(p) /\ pc \in [Compilers -> Steps]
  BY DEF AssetInv, AtDoc, Typed
<1>2. CASE Recheck(p)
  <2>1. CASE Hit(p)
    BY <1>1, <2>1 DEF Hit, Return, At, Place, AnswerMove
  <2>2. CASE FallThrough(p)
    BY <2>2 DEF FallThrough, AnswerMove
  <2> QED BY <1>2, <2>1, <2>2 DEF Recheck
<1>3. CASE Unlock(p)
  <2>1. CASE ~InWorld(p) /\ Return(p, "unlocking") /\ cause[p] = "none"
    BY <1>1, <2>1 DEF Return, At, AnswerMove
  <2>2. CASE UNCHANGED <<answer, place>>
    BY <2>2 DEF AnswerMove
  <2> QED BY <1>3, <2>1, <2>2 DEF Unlock, UnlockEntity, UnlockWorld
<1>4. CASE ~Recheck(p) /\ ~Unlock(p)
  BY <1>4 DEF CompilerStep, Cook, Hash, LookUp, Verify, KeepFailure, Lock, LookAgain, Publish, Scenario, Bind,
              JudgeScenario, PublishWorld, KillCompiler, replies, AnswerMove
<1> QED BY <1>2, <1>3, <1>4

LEMMA HeldKeeps ==
  ASSUME AssetInv, LockInv, NEW p \in Compilers, Held(p), CompilerStep(p) \/ KillCompiler(p)
  PROVE  Held(p)'
<1>1. /\ Typed /\ AtDoc(p) /\ Place(p) /\ pc \in [Compilers -> Steps] /\ Own(p) /\ DOMAIN seen = Compilers
      /\ DOMAIN cause = Compilers /\ entries \in [Addresses -> Proof \cup {Empty}]
      /\ entryTouches \in [Addresses -> Nat] /\ EntryMove(p) /\ entryTouches' = entryTouches
  BY OwnStep, EntryMoves DEF AssetInv, AtDoc, Typed, Own
<1>2. ~InWorld(p) /\ pc[p] \in BeforeLookup => Address(p) \in Addresses
  BY <1>1, Here DEF AtDoc, Hashed
<1> SUFFICES ASSUME pc'[p] = "recheck" \/ (pc'[p] = "unlocking" /\ ~InWorld(p)' /\ cause'[p] = "none")
             PROVE  Stands(seen[p])' /\ seen'[p].at = Address(p)'
  BY DEF Held
<1> USE DEF At, Fails
<1>3. CASE ReadEntry(p) /\ LookUp(p)
  <2>1. /\ pc[p] = "lookup" /\ UNCHANGED <<place, sha, entries>> /\ KindAt(Address(p)) \in Accepted
        /\ See(p, entries[Address(p)])
    BY <1>3 DEF ReadEntry, LookUp, stores
  <2>2. ~InWorld(p) /\ Address(p) \in Addresses
    BY <1>1, <1>2, <2>1 DEF Place, BeforeLookup
  <2>3. seen'[p] = [at |-> Address(p), proof |-> entries[Address(p)], touches |-> entryTouches[Address(p)]]
    BY <1>1, <2>1 DEF See
  <2>4. entries[Address(p)] \in Proof /\ entries[Address(p)].kind \in Accepted
    BY <1>1, <2>1, <2>2 DEF KindAt, Accepted
  <2>5. seen'[p] \in Seen
    BY <1>1, <2>2, <2>3, <2>4, EntryInLog
  <2>6. Address(p)' = Address(p)
    BY <1>1, <2>1, SameDoc
  <2> QED BY <1>1, <2>1, <2>2, <2>3, <2>4, <2>5, <2>6 DEF Stands
<1>4. CASE Reuse(p) /\ LookAgain(p)
  <2>1. /\ pc[p] = "locked" /\ UNCHANGED <<place, sha, entries>> /\ KindAt(Address(p)) \in Accepted
        /\ See(p, entries[Address(p)]) /\ ~InWorld(p)
    BY <1>4 DEF Reuse, LookAgain
  <2>2. Address(p) \in Addresses
    BY <1>2, <2>1 DEF BeforeLookup
  <2>3. seen'[p] = [at |-> Address(p), proof |-> entries[Address(p)], touches |-> entryTouches[Address(p)]]
    BY <1>1, <2>1 DEF See
  <2>4. entries[Address(p)] \in Proof /\ entries[Address(p)].kind \in Accepted
    BY <1>1, <2>1, <2>2 DEF KindAt, Accepted
  <2>5. seen'[p] \in Seen
    BY <1>1, <2>2, <2>3, <2>4, EntryInLog
  <2>6. Address(p)' = Address(p)
    BY <1>1, <2>1, SameDoc
  <2> QED BY <1>1, <2>1, <2>2, <2>3, <2>4, <2>5, <2>6 DEF Stands
<1>5. CASE Publish(p)
  <2>1. /\ pc[p] = "publishing" /\ UNCHANGED <<place, sha>> /\ See(p, staging[p])
        /\ entries' = [entries EXCEPT ![Address(p)] = staging[p]]
    BY <1>5 DEF Publish
  <2>2. ~InWorld(p) /\ Address(p) \in Addresses /\ staging[p] \in Proof /\ staging[p].kind = "genuine"
    BY <1>1, <1>2, <2>1 DEF Place, BeforeLookup, AtDoc, Staged
  <2>3. seen'[p] = [at |-> Address(p), proof |-> staging[p], touches |-> entryTouches[Address(p)]]
    BY <1>1, <2>1 DEF See
  <2>4. entries'[Address(p)] = staging[p]
    BY <1>1, <2>1, <2>2
  <2>5. seen'[p] \in Seen
    BY <1>1, <2>2, <2>3, EntryInLog
  <2>6. Address(p)' = Address(p)
    BY <1>1, <2>1, SameDoc
  <2> QED BY <1>1, <2>2, <2>3, <2>4, <2>5, <2>6 DEF Stands, Accepted
<1>6. CASE UnreadableEntry(p) /\ LookAgain(p)
  BY <1>1, <1>6 DEF UnreadableEntry, LookAgain
<1>7. CASE PublishWorld(p)
  BY <1>1, <1>7, SameDoc DEF PublishWorld
<1>8. CASE Recheck(p) \/ Unlock(p)
  BY <1>1, <1>8 DEF Recheck, Hit, FallThrough, Return, Unlock, UnlockEntity, UnlockWorld
<1> QED BY <1>1, <1>3, <1>4, <1>5, <1>6, <1>7, <1>8
        DEF CompilerStep, Cook, CookAsset, CookRaises, Hash, HashProof, ProofGone, LookUp, Miss,
            ReadMalformed, Verify, NoArtifact, ContractBroken, ContractHonoured,
            KeepFailure, Lock, TakeLock, LockTimeout, LookAgain, Vacant, Quarantine,
            Scenario, Bind, JudgeScenario, Unprovable, WorldBroken, WorldHolds, KillCompiler

LEMMA AnswerInvStep ==
  ASSUME AssetInv, LockInv, AnswerInv, NEW p \in Compilers, CompilerStep(p) \/ KillCompiler(p)
  PROVE  AnswerInv'
<1>1. Typed /\ Own(p) /\ EntryMove(p) /\ AnswerMove(p) /\ Place(p) /\ Held(p)'
  BY OwnStep, EntryMoves, AnswerMoves, HeldKeeps DEF AssetInv, AtDoc, AnswerInv
<1>2. \A c \in Calls : answer'[c] # Empty => answer'[c] = answer[c] \/ (answer'[c] = seen[p] /\ Stands(seen[p]))
  BY <1>1 DEF AnswerMove, AnswerInv, Held, Typed
<1>3. ASSUME NEW c \in Calls, answer'[c] # Empty PROVE Stands(answer[c])'
  <2>1. PICK s : s = answer'[c] /\ Stands(s)
    BY <1>2, <1>3 DEF AnswerInv
  <2> QED BY <1>1, <2>1, StandsKeep DEF Stands, Seen
<1>4. ASSUME NEW q \in Compilers \ {p} PROVE Held(q)' /\ Returned(q)'
  <2>1. /\ pc'[q] = pc[q] /\ InWorld(q)' = InWorld(q) /\ cause'[q] = cause[q] /\ seen'[q] = seen[q]
        /\ Address(q)' = Address(q) /\ place'[q] = place[q] /\ job' = job
    BY <1>1, TargetKeeps DEF Own
  <2>2. Held(q)'
    <3> SUFFICES ASSUME Stands(seen[q]) /\ seen[q].at = Address(q) PROVE Stands(seen[q])' /\ seen'[q].at = Address(q)'
      BY <2>1 DEF Held, AnswerInv
    <3>1. PICK s : s = seen[q] /\ Stands(s)
      OBVIOUS
    <3> QED BY <1>1, <2>1, <3>1, StandsKeep DEF Stands, Seen
  <2>3. \A i \in 1 .. place[q] - 1 : answer'[<<q, i>>] = answer[<<q, i>>]
    <3> SUFFICES ASSUME NEW i \in 1 .. place[q] - 1 PROVE answer'[<<q, i>>] = answer[<<q, i>>]
      OBVIOUS
    <3>1. <<q, i>> \in Calls
      <4>1. Place(q) /\ DocCount(q) \in 1 .. MaxDocs /\ MaxDocs \in Nat /\ place[q] \in Nat
        BY JobTyped, CompilerAssumption DEF AssetInv, AtDoc, Typed
      <4>2. i \in 1 .. MaxDocs
        BY <4>1 DEF Place
      <4> QED BY <4>2 DEF Calls
    <3>2. <<q, i>> # Call(p)
      BY DEF Call
    <3> QED BY <1>1, <3>1, <3>2 DEF Own
  <2>4. Returned(q)'
    BY <2>1, <2>3 DEF Returned, AnswerInv
  <2> QED BY <2>2, <2>4
<1>5. Returned(p)'
  <2>1. CASE answer' = answer /\ place' = place
    BY <1>1, <2>1 DEF Returned, AnswerInv, Own
  <2>2. CASE /\ ~InWorld(p)
             /\ pc[p] = "recheck" \/ (pc[p] = "unlocking" /\ cause[p] = "none")
             /\ answer' = [answer EXCEPT ![Call(p)] = seen[p]]
             /\ place' = [place EXCEPT ![p] = @ + 1]
    <3>1. /\ Call(p) \in Calls /\ place[p] \in 1 .. DocCount(p) /\ DocCount(p) \in 1 .. MaxDocs /\ MaxDocs \in Nat
      BY <1>1, <2>2, Here, JobTyped, CompilerAssumption
    <3>2. seen[p] \in Seen /\ seen[p].at = Address(p) /\ seen[p] # Empty
      BY <2>2, MarkerAssumption DEF AnswerInv, Held, Stands
    <3>3. place'[p] = place[p] + 1 /\ answer'[Call(p)] = seen[p] /\ job' = job /\ place[p] \in Nat
      BY <1>1, <2>2, <3>1 DEF Typed, Own
    <3>4. seen[p].at.doc = job[p].docs[place[p]]
      BY <3>2 DEF Address, DocAt
    <3>5. \A i \in 1 .. place[p] - 1 : <<p, i>> \in Calls /\ answer'[<<p, i>>] = answer[<<p, i>>]
      BY <1>1, <2>2, <3>1 DEF Calls, Call, Typed
    <3>6. ASSUME NEW i \in 1 .. place'[p] - 1
          PROVE  answer'[<<p, i>>] # Empty /\ answer'[<<p, i>>].at.doc = job'[p].docs[i]
      <4>1. CASE i = place[p]
        BY <3>2, <3>3, <3>4, <4>1 DEF Call
      <4>2. CASE i \in 1 .. place[p] - 1
        BY <3>3, <3>5, <4>2 DEF AnswerInv, Returned
      <4> QED BY <3>3, <4>1, <4>2
    <3> QED BY <3>6 DEF Returned
  <2> QED BY <1>1, <2>1, <2>2 DEF AnswerMove
<1> QED BY <1>1, <1>3, <1>4, <1>5 DEF AnswerInv

LEMMA AnswerInvNext == AssetInv /\ LockInv /\ AnswerInv /\ [CompilerNext]_compilerVars => AnswerInv'
<1> SUFFICES ASSUME AssetInv, LockInv, AnswerInv, [CompilerNext]_compilerVars PROVE AnswerInv'
  OBVIOUS
<1>1. ASSUME UNCHANGED <<Compiling, entries, entryTouches>> PROVE AnswerInv'
  BY <1>1 DEF AnswerInv, Held, Returned, Stands, Seen, Compiling, InWorld, Address, DocAt
<1>2. ASSUME NEW r \in Recipes, EvictAsset(r) \/ TamperAsset(r) PROVE AnswerInv'
  BY <1>1, <1>2, AssetOutside
<1>3. ASSUME NEW a \in Addresses, TamperEntry(a) PROVE AnswerInv'
  <2>1. UNCHANGED Compiling
    BY <1>3, EntryOutside
  <2>2. ASSUME NEW c \in Calls, answer'[c] # Empty PROVE Stands(answer[c])'
    <3>1. PICK s : s = answer[c] /\ s = answer'[c] /\ Stands(s)
      BY <2>1, <2>2 DEF Compiling, AnswerInv
    <3> QED BY <1>3, <3>1, StandsOutside DEF Stands, Seen
  <2>3. ASSUME NEW p \in Compilers PROVE Held(p)' /\ Returned(p)'
    <3>1. /\ pc' = pc /\ InWorld(p)' = InWorld(p) /\ cause' = cause /\ seen' = seen
          /\ Address(p)' = Address(p) /\ place' = place /\ job' = job /\ answer' = answer
      BY <2>1 DEF Compiling, InWorld, Address, DocAt
    <3>2. Held(p)'
      <4> SUFFICES ASSUME Stands(seen[p]) /\ seen[p].at = Address(p) PROVE Stands(seen[p])' /\ seen'[p].at = Address(p)'
        BY <3>1 DEF Held, AnswerInv
      <4>1. PICK s : s = seen[p] /\ Stands(s)
        OBVIOUS
      <4> QED BY <1>3, <3>1, <4>1, StandsOutside DEF Stands, Seen
    <3> QED BY <3>1, <3>2 DEF Returned, AnswerInv
  <2> QED BY <2>2, <2>3 DEF AnswerInv
<1>4. ASSUME NEW w \in worlds, TamperWorld(w) PROVE AnswerInv'
  BY <1>1, <1>4, WorldOutside
<1>5. CASE UNCHANGED compilerVars
  BY <1>1, <1>5 DEF compilerVars, Compiling, recipeCache, stores, replies, outside
<1> QED BY <1>2, <1>3, <1>4, <1>5, AnswerInvStep DEF CompilerNext

LEMMA AnswerInvInit == CompilerInit => AnswerInv
BY DEF CompilerInit, AnswerInv, Held, Returned

-----------------------------------------------------------------------------
(* The chain, from a world's proof down to the files that were checked.    *)

LEMMA ChainStep ==
  ASSUME AssetInv, ChainClosed, NEW p \in Compilers, CompilerStep(p) \/ KillCompiler(p)
  PROVE  ChainClosed'
<1>1. Typed /\ Own(p) /\ EntryMove(p) /\ AssetMove(p) /\ AtDoc(p) /\ Place(p)
  BY OwnStep, EntryMoves, AssetMoves DEF AssetInv, AtDoc
<1>2. job' = job /\ assetTouches' = assetTouches
  BY <1>1 DEF Own
<1>3. ASSUME NEW r \in Recipes, NEW files \in Calls, assets[r] = [files |-> files, vouched |-> TRUE]
      PROVE  assets'[r] = assets[r]
  <2>1. [files |-> files, vouched |-> TRUE] \in [files : Calls \cup {Spoiled}, vouched : BOOLEAN]
    OBVIOUS
  <2>2. assets[r] # Empty
    BY <1>3, <2>1, MarkerAssumption
  <2>3. CASE r = AssetOf(p)
    BY <1>1, <2>2, <2>3 DEF AssetMove
  <2>4. CASE r # AssetOf(p)
    BY <1>1, <2>4 DEF AssetMove, Typed
  <2> QED BY <2>3, <2>4
<1>4. ASSUME NEW a \in Addresses, entries'[a] # Empty, assetTouches'[RecipeOf[a.doc]] = 0
      PROVE  /\ a.doc \in Honoured
             /\ entries'[a].asset = a.sha /\ entries'[a].checked = a.sha
             /\ \/ assets'[RecipeOf[a.doc]] = [files |-> a.sha, vouched |-> TRUE]
                \/ job'[a.sha[1]].noCache
  <2>1. a.doc \in Docs /\ RecipeOf[a.doc] \in Recipes
    BY CompilerAssumption DEF Addresses
  <2>2. CASE entries'[a] = entries[a]
    <3>1. /\ a.doc \in Honoured
          /\ entries[a].asset = a.sha /\ entries[a].checked = a.sha
          /\ \/ assets[RecipeOf[a.doc]] = [files |-> a.sha, vouched |-> TRUE]
             \/ job[a.sha[1]].noCache
      BY <1>2, <1>4, <2>2 DEF ChainClosed
    <3>2. a.sha \in Calls
      BY <1>1, <1>4, <2>2, <3>1 DEF Typed, Proof
    <3> QED BY <1>2, <1>3, <2>1, <2>2, <3>1, <3>2
  <2>3. CASE entries'[a] # entries[a]
    <3>1. /\ pc[p] = "publishing" /\ ~InWorld(p) /\ a = Address(p) /\ entries'[a] = staging[p]
      BY <1>1, <1>4, <2>3 DEF EntryMove, Typed
    <3>2. a.doc = DocAt(p) /\ a.sha = sha[p] /\ RecipeOf[a.doc] = AssetOf(p) /\ assetTouches[AssetOf(p)] = 0
      BY <1>2, <1>4, <3>1 DEF Address, AssetOf
    <3>3. /\ DocAt(p) \in Honoured
          /\ staging[p].asset = told[Call(p)] /\ staging[p].checked = told[Call(p)]
      BY <1>1, <3>1, <3>2 DEF AtDoc, Staged
    <3>4. sha[p] = told[Call(p)] /\ told[Call(p)] \in Calls
          /\ (job[p].noCache => told[Call(p)] = Call(p))
          /\ (~job[p].noCache => assets[AssetOf(p)] = [files |-> told[Call(p)], vouched |-> TRUE])
      BY <1>1, <3>1, <3>2 DEF AtDoc, Hashed, Cooked, BeforeLookup
    <3>5. Call(p)[1] = p
      BY DEF Call
    <3> QED BY <1>2, <1>3, <2>1, <3>1, <3>2, <3>3, <3>4, <3>5
  <2> QED BY <2>2, <2>3
<1> QED BY <1>4 DEF ChainClosed

LEMMA ChainOutside ==
  ASSUME ChainClosed, UNCHANGED job,
         \A r \in Recipes : assetTouches'[r] = 0 => assetTouches[r] = 0 /\ assets'[r] = assets[r],
         \A a \in Addresses : entries'[a] # Empty =>
           entries[a] # Empty /\ entries'[a].asset = entries[a].asset /\ entries'[a].checked = entries[a].checked
  PROVE  ChainClosed'
<1> SUFFICES ASSUME NEW a \in Addresses, entries'[a] # Empty, assetTouches'[RecipeOf[a.doc]] = 0
             PROVE  /\ a.doc \in Honoured
                    /\ entries'[a].asset = a.sha /\ entries'[a].checked = a.sha
                    /\ \/ assets'[RecipeOf[a.doc]] = [files |-> a.sha, vouched |-> TRUE]
                       \/ job'[a.sha[1]].noCache
  BY DEF ChainClosed
<1>1. RecipeOf[a.doc] \in Recipes
  BY CompilerAssumption DEF Addresses
<1> QED BY <1>1 DEF ChainClosed

LEMMA ChainNext == AssetInv /\ ChainClosed /\ [CompilerNext]_compilerVars => ChainClosed'
<1> SUFFICES ASSUME AssetInv, ChainClosed, [CompilerNext]_compilerVars PROVE ChainClosed'
  OBVIOUS
<1>1. ASSUME NEW r \in Recipes, EvictAsset(r) \/ TamperAsset(r) PROVE ChainClosed'
  BY <1>1, AssetOutside, ChainOutside DEF Compiling
<1>2. ASSUME NEW a \in Addresses, TamperEntry(a) PROVE ChainClosed'
  <2>1. UNCHANGED <<job, assets, assetTouches>>
        /\ \A at \in Addresses : entries'[at] # Empty =>
             entries[at] # Empty /\ entries'[at].asset = entries[at].asset /\ entries'[at].checked = entries[at].checked
    BY <1>2, EntryOutside DEF Compiling
  <2> QED BY <2>1, ChainOutside
<1>3. ASSUME NEW w \in worlds, TamperWorld(w) PROVE ChainClosed'
  BY <1>3, WorldOutside, ChainOutside DEF Compiling
<1>4. CASE UNCHANGED compilerVars
  BY <1>4, ChainOutside DEF compilerVars, recipeCache, stores, outside
<1> QED BY <1>1, <1>2, <1>3, <1>4, ChainStep DEF CompilerNext

LEMMA ChainInit == CompilerInit => ChainClosed
BY DEF CompilerInit, ChainClosed

\* At its world, a compiler has an answer for each of its documents.
LEMMA AllReturned ==
  ASSUME AssetInv, AnswerInv, NEW p \in Compilers, InWorld(p), NEW i \in 1 .. DocCount(p)
  PROVE  /\ <<p, i>> \in Calls /\ answer[<<p, i>>] \in Seen /\ Stands(answer[<<p, i>>])
         /\ answer[<<p, i>>].at.doc = job[p].docs[i]
<1>0. <<p, i>> \in Calls /\ DocCount(p) \in Nat /\ place[p] <= DocCount(p) + 1 /\ place[p] > DocCount(p)
  BY JobTyped DEF AssetInv, AtDoc, Place, InWorld, DocCount
<1>1. place[p] \in Nat
  BY DEF AssetInv, Typed
<1>2. place[p] = DocCount(p) + 1 /\ i \in 1 .. place[p] - 1
  BY <1>0, <1>1
<1>3. answer[<<p, i>>] # Empty /\ answer[<<p, i>>].at.doc = job[p].docs[i]
  BY <1>2 DEF AnswerInv, Returned
<1> QED BY <1>0, <1>3 DEF AnswerInv, Stands

\* What the world's proof will name is what compile_entity returned, and finds there.
LEMMA OnDiskBinds ==
  ASSUME AssetInv, AnswerInv, NEW p \in Compilers, InWorld(p) PROVE Binds(p, OnDisk(p))
<1> SUFFICES ASSUME NEW i \in 1 .. DocCount(p)
             PROVE  /\ OnDisk(p)[i].at = answer[<<p, i>>].at
                    /\ entryTouches[OnDisk(p)[i].at] = 0 => OnDisk(p)[i].proof = answer[<<p, i>>].proof
  BY DEF Binds
<1>1. i \in DOMAIN job[p].docs
  BY JobTyped DEF AssetInv
<1>2. OnDisk(p)[i] = [at |-> answer[<<p, i>>].at, proof |-> entries[answer[<<p, i>>].at]]
  BY <1>1 DEF OnDisk
<1>3. Stands(answer[<<p, i>>]) /\ answer[<<p, i>>].touches \in Nat
  BY AllReturned DEF Seen
<1> QED BY <1>2, <1>3 DEF Stands

BindMove(p) ==
  \/ InWorld(p) /\ pc'[p] = "judge" /\ seen'[p] = OnDisk(p) /\ published' = published
  \/ /\ pc'[p] \in {"judge", "failing", "locking", "locked", "unlocking"} /\ InWorld(p) =>
          /\ pc[p] \in {"judge", "failing", "locking", "locked", "unlocking"} /\ seen' = seen
     /\ published' = published
  \/ /\ InWorld(p) /\ pc[p] = "unlocking" /\ pc'[p] = "done"
     /\ published' = [published EXCEPT ![p] = WorldAt(p)]

LEMMA BindMoves ==
  ASSUME AssetInv, NEW p \in Compilers, CompilerStep(p) \/ KillCompiler(p) PROVE BindMove(p)
<1>1. Typed /\ Place(p) /\ pc \in [Compilers -> Steps] /\ DOMAIN seen = Compilers
  BY DEF AssetInv, AtDoc, Typed
<1> USE <1>1 DEF At, Fails
<1>2. CASE Bind(p)
  BY <1>2 DEF Bind, BindMove, Place
<1>3. CASE Unlock(p)
  BY <1>3 DEF Unlock, UnlockEntity, UnlockWorld, Return, BindMove
<1>4. CASE JudgeScenario(p) \/ KeepFailure(p) \/ Lock(p) \/ PublishWorld(p) \/ KillCompiler(p) \/ Scenario(p)
  BY <1>4 DEF JudgeScenario, Unprovable, WorldBroken, WorldHolds, KeepFailure, Lock, TakeLock, LockTimeout,
              PublishWorld, KillCompiler, Scenario, replies, BindMove
<1>5. CASE LookAgain(p)
  BY <1>5 DEF LookAgain, BindMove
<1>6. CASE Cook(p) \/ Hash(p) \/ LookUp(p) \/ Recheck(p) \/ Verify(p) \/ Publish(p)
  <2>1. ~InWorld(p)
    BY <1>6 DEF Cook, CookAsset, CookRaises, Hash, HashProof, ProofGone, LookUp, Miss, ReadEntry, ReadMalformed,
                Recheck, Hit, FallThrough, Return, Verify, NoArtifact, ContractBroken, ContractHonoured, Publish, Place
  <2>2. published' = published
    BY <1>6 DEF Cook, Hash, LookUp, Recheck, Verify, Publish, replies
  <2> QED BY <2>1, <2>2 DEF BindMove
<1> QED BY <1>2, <1>3, <1>4, <1>5, <1>6 DEF CompilerStep

\* A compiler that comes to its world starts there, or has none.
LEMMA Turning ==
  ASSUME Typed, NEW p \in Compilers, CompilerStep(p) \/ KillCompiler(p), place' # place
  PROVE  pc'[p] \in {"cook", "done", "scenario"}
<1> USE DEF Typed, Return, At
<1>1. CASE Recheck(p)
  BY <1>1 DEF Recheck, Hit, FallThrough
<1>2. CASE Unlock(p)
  BY <1>2 DEF Unlock, UnlockEntity, UnlockWorld
<1>3. CASE ~Recheck(p) /\ ~Unlock(p)
  BY <1>3 DEF CompilerStep, Cook, Hash, LookUp, Verify, KeepFailure, Lock, LookAgain, Publish, Scenario, Bind,
              JudgeScenario, PublishWorld, KillCompiler
<1> QED BY <1>1, <1>2, <1>3

LEMMA BoundStep ==
  ASSUME AssetInv, LockInv, AnswerInv, NEW p \in Compilers, CompilerStep(p) \/ KillCompiler(p),
         NEW q \in Compilers, Chained(q)
  PROVE  Chained(q)'
<1>1. Typed /\ Own(p) /\ AnswerMove(p) /\ BindMove(p) /\ DOMAIN published = Compilers
      /\ job' = job /\ entryTouches' = entryTouches /\ DocCount(q)' = DocCount(q)
  BY OwnStep, AnswerMoves, BindMoves DEF AssetInv, Typed, Own, DocCount
<1>2. CASE q = p
  <2>1. InWorld(p) => answer' = answer /\ place' = place /\ InWorld(p)'
    BY <1>1 DEF AnswerMove, InWorld
  <2>2. ASSUME InWorld(p), NEW refs, Binds(p, refs) PROVE Binds(p, refs)'
    BY <1>1, <2>1, <2>2 DEF Binds, DocCount
  <2>3. InWorld(p)' /\ ~InWorld(p) => pc'[p] \notin {"judge", "failing", "locking", "locked", "unlocking"}
    BY <1>1, Turning DEF InWorld
  <2>4. pc'[p] \in {"judge", "failing", "locking", "locked", "unlocking"} /\ InWorld(p)' => Binds(p, seen[p])'
    <3> SUFFICES ASSUME pc'[p] \in {"judge", "failing", "locking", "locked", "unlocking"}, InWorld(p)
                 PROVE  Binds(p, seen[p])'
      BY <2>3
    <3>1. CASE seen'[p] = OnDisk(p)
      <4>1. PICK refs : refs = OnDisk(p) /\ Binds(p, refs)
        BY OnDiskBinds DEF AssetInv
      <4>2. Binds(p, refs)'
        BY <2>2, <4>1
      <4> QED BY <3>1, <4>1, <4>2 DEF Binds
    <3>2. CASE seen'[p] = seen[p] /\ pc[p] \in {"judge", "failing", "locking", "locked", "unlocking"}
      <4>1. PICK refs : refs = seen[p] /\ Binds(p, refs)
        BY <1>2, <3>2 DEF Chained
      <4>2. Binds(p, refs)'
        BY <2>2, <4>1
      <4> QED BY <3>2, <4>1, <4>2 DEF Binds
    <3> QED BY <1>1, <3>1, <3>2 DEF BindMove
  <2>5. published'[p] # Empty => InWorld(p)' /\ Binds(p, published[p].refs)'
    <3> SUFFICES ASSUME published'[p] # Empty PROVE InWorld(p)' /\ Binds(p, published[p].refs)'
      OBVIOUS
    <3>1. CASE published' = published
      <4>1. PICK refs : refs = published[p].refs /\ InWorld(p) /\ Binds(p, refs)
        BY <1>2, <3>1 DEF Chained
      <4>2. Binds(p, refs)'
        BY <2>2, <4>1
      <4> QED BY <2>1, <3>1, <4>1, <4>2 DEF Binds
    <3>2. CASE /\ InWorld(p) /\ pc[p] = "unlocking"
               /\ published' = [published EXCEPT ![p] = WorldAt(p)]
      <4>1. PICK refs : refs = seen[p] /\ Binds(p, refs)
        BY <1>2, <3>2 DEF Chained
      <4>2. published'[p].refs = refs
        BY <1>1, <3>2, <4>1 DEF WorldAt
      <4>3. Binds(p, refs)'
        BY <2>2, <3>2, <4>1
      <4> QED BY <2>1, <3>2, <4>2, <4>3 DEF Binds
    <3> QED BY <1>1, <3>1, <3>2 DEF BindMove
  <2> QED BY <1>2, <2>4, <2>5 DEF Chained
<1>3. CASE q # p
  <2>1. /\ InWorld(q)' = InWorld(q) /\ pc'[q] = pc[q] /\ seen'[q] = seen[q] /\ published'[q] = published[q]
    BY <1>1, <1>3, TargetKeeps DEF Own
  <2>2. InWorld(q) => \A i \in 1 .. DocCount(q) : answer'[<<q, i>>] = answer[<<q, i>>]
    <3>1. \A i : <<q, i>> # Call(p)
      BY <1>3 DEF Call
    <3>2. InWorld(q) => \A i \in 1 .. DocCount(q) : <<q, i>> \in Calls
      BY AllReturned
    <3> QED BY <1>1, <3>1, <3>2 DEF Own
  <2>3. ASSUME InWorld(q), NEW refs, Binds(q, refs)
        PROVE  \A i \in 1 .. DocCount(q)' :
                 /\ refs[i].at = answer'[<<q, i>>].at
                 /\ entryTouches'[refs[i].at] = 0 => refs[i].proof = answer'[<<q, i>>].proof
    BY <1>1, <2>2, <2>3 DEF Binds
  <2> QED BY <2>1, <2>3 DEF Chained, Binds
<1> QED BY <1>2, <1>3

LEMMA BoundOutside ==
  ASSUME NEW q \in Compilers, AssetInv, AnswerInv, Chained(q), UNCHANGED Compiling,
         \A a \in Addresses : entryTouches'[a] = 0 => entryTouches[a] = 0
  PROVE  Chained(q)'
<1>1. /\ InWorld(q)' = InWorld(q) /\ DocCount(q)' = DocCount(q) /\ UNCHANGED <<pc, seen, published, answer>>
  BY DEF Compiling, InWorld, DocCount
<1>2. ASSUME InWorld(q), NEW refs, Binds(q, refs) PROVE Binds(q, refs)'
  <2>1. ASSUME NEW i \in 1 .. DocCount(q) PROVE refs[i].at = answer[<<q, i>>].at /\ refs[i].at \in Addresses
    BY <1>2, <2>1, AllReturned DEF Binds, Seen
  <2> QED BY <1>1, <1>2, <2>1 DEF Binds
<1>3. InWorld(q)' /\ pc'[q] \in {"judge", "failing", "locking", "locked", "unlocking"} => Binds(q, seen[q])'
  <2> SUFFICES ASSUME InWorld(q), pc[q] \in {"judge", "failing", "locking", "locked", "unlocking"}
               PROVE  Binds(q, seen[q])'
    BY <1>1
  <2>1. PICK refs : refs = seen[q] /\ Binds(q, refs)
    BY DEF Chained
  <2>2. Binds(q, refs)'
    BY <1>2, <2>1
  <2> QED BY <1>1, <2>1, <2>2 DEF Binds
<1>4. published'[q] # Empty => InWorld(q)' /\ Binds(q, published[q].refs)'
  <2> SUFFICES ASSUME published[q] # Empty PROVE InWorld(q)' /\ Binds(q, published[q].refs)'
    BY <1>1
  <2>1. PICK refs : refs = published[q].refs /\ InWorld(q) /\ Binds(q, refs)
    BY DEF Chained
  <2>2. Binds(q, refs)'
    BY <1>2, <2>1
  <2> QED BY <1>1, <2>1, <2>2 DEF Binds
<1> QED BY <1>3, <1>4 DEF Chained

LEMMA BoundNext ==
  AssetInv /\ LockInv /\ AnswerInv /\ (\A q \in Compilers : Chained(q)) /\ [CompilerNext]_compilerVars =>
    \A q \in Compilers : Chained(q)'
<1> SUFFICES ASSUME AssetInv, LockInv, AnswerInv, [CompilerNext]_compilerVars, NEW q \in Compilers, Chained(q)
             PROVE  Chained(q)'
  OBVIOUS
<1>1. ASSUME NEW r \in Recipes, EvictAsset(r) \/ TamperAsset(r) PROVE Chained(q)'
  BY <1>1, AssetOutside, BoundOutside
<1>2. ASSUME NEW a \in Addresses, TamperEntry(a) PROVE Chained(q)'
  <2>1. UNCHANGED Compiling /\ \A at \in Addresses : entryTouches'[at] = 0 => entryTouches[at] = 0
    <3>1. entryTouches \in [Addresses -> Nat]
      BY DEF AssetInv, Typed
    <3>2. entryTouches'[a] # 0
      BY <1>2, <3>1, EntryOutside
    <3> QED BY <1>2, <3>2, EntryOutside
  <2> QED BY <2>1, BoundOutside
<1>3. ASSUME NEW w \in worlds, TamperWorld(w) PROVE Chained(q)'
  BY <1>3, WorldOutside, BoundOutside
<1>4. CASE UNCHANGED compilerVars
  BY <1>4, BoundOutside DEF compilerVars, Compiling, recipeCache, stores, replies, outside
<1> QED BY <1>1, <1>2, <1>3, <1>4, BoundStep DEF CompilerNext

LEMMA BoundInit == CompilerInit => \A q \in Compilers : Chained(q)
BY DEF CompilerInit, Chained

LEMMA WorldsBound == AssetInv /\ AnswerInv /\ (\A q \in Compilers : Chained(q)) => WorldsBind
<1> SUFFICES ASSUME AssetInv, AnswerInv, NEW p \in Compilers, Chained(p), published[p] # Empty,
                    NEW i \in DOMAIN job[p].docs
             PROVE  LET ref == published[p].refs[i] IN
                      /\ ref.at.doc = job[p].docs[i]
                      /\ entryTouches[ref.at] = 0 =>
                           ref.proof = answer[<<p, i>>].proof /\ entries[ref.at] = ref.proof
  BY DEF WorldsBind
<1>1. i \in 1 .. DocCount(p) /\ InWorld(p)
  BY JobTyped DEF AssetInv, Chained
<1>2. /\ published[p].refs[i].at = answer[<<p, i>>].at
      /\ entryTouches[published[p].refs[i].at] = 0 => published[p].refs[i].proof = answer[<<p, i>>].proof
  BY <1>1 DEF Chained, Binds
<1>3. /\ answer[<<p, i>>].at.doc = job[p].docs[i] /\ answer[<<p, i>>].touches \in Nat
      /\ answer[<<p, i>>].touches <= entryTouches[answer[<<p, i>>].at]
      /\ answer[<<p, i>>].touches = entryTouches[answer[<<p, i>>].at] =>
           entries[answer[<<p, i>>].at] = answer[<<p, i>>].proof
  BY <1>1, AllReturned DEF Stands, Seen
<1> QED BY <1>2, <1>3

LEMMA AnswersStanding == AnswerInv => AnswersStand
BY DEF AnswerInv, Stands, AnswersStand

-----------------------------------------------------------------------------
(* The theorems.                                                           *)

\* The inductive invariant, for any number of compilers, documents, kills and edits.
THEOREM CompilerInvariant == CompilerSpec => []CompilerInv
<1>1. CompilerInit => CompilerInv
  BY AssetInvInit, LockInvInit, AnswerInvInit, ChainInit, BoundInit DEF CompilerInv
<1>2. CompilerInv /\ [CompilerNext]_compilerVars => CompilerInv'
  BY AssetInvStep, LockInvNext, AnswerInvNext, ChainNext, BoundNext DEF CompilerInv
<1> QED BY <1>1, <1>2, PTL DEF CompilerSpec

\* Both stores' locks, for any number of compilers and kills: whoever is under a lock holds
\* it alone, one nobody is under was left by a killed process, and the address about to be
\* renamed into is vacant.
THEOREM LocksHold == CompilerSpec => []LockDiscipline
<1>1. CompilerInv => LockDiscipline
  BY LocksDisciplined DEF CompilerInv
<1> QED BY <1>1, CompilerInvariant, PTL

\* What compile_entity returned is under its address as it was returned until somebody
\* tampers with that entry, whatever the other compilers publish, reuse or quarantine.
THEOREM AnswersLast == CompilerSpec => []AnswersStand
<1>1. CompilerInv => AnswersStand
  BY AnswersStanding DEF CompilerInv
<1> QED BY <1>1, CompilerInvariant, PTL

\* From a world's proof down to the files that were checked: a world names the entity
\* proofs that were returned for its documents, in order, and an entity proof the asset
\* it was computed on, as long as nobody tampers with either.
THEOREM ChainHolds == CompilerSpec => []ChainBinds
<1>1. CompilerInv => ChainBinds
  BY WorldsBound DEF CompilerInv, ChainBinds
<1> QED BY <1>1, CompilerInvariant, PTL
=============================================================================
