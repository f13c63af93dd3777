------------------------------- MODULE Prover -------------------------------
(***************************************************************************)
(* The world prover (tools/worldc/prover.py, ADR 0022): a breadth-first    *)
(* search over the worlds a schedule of one event per tick can reach, cut  *)
(* by a tick horizon and a state budget, and the verdicts `reachable`,     *)
(* `never` and `live` read off the explored graph.                         *)
(*                                                                         *)
(* The worlds and the kernel's tick are given by a problem: a root, and    *)
(* the world after each move of a world, or NoWorld when the kernel        *)
(* refuses the event.  MCProver gives arbitrary graphs; WorldProver builds *)
(* problems from contracts, with the kernel's own tick.                    *)
(* The search is sequential and unrolled: one action per node taken from   *)
(* the queue and one per move tried.                                       *)
(***************************************************************************)
EXTENDS Integers, Sequences, FiniteSets

CONSTANTS
  Problems,         \* id -> [root, moves, horizon, budget]
  WorldsIn(_),      \* a problem's worlds, canonically serialised: equal iff identical
  StepIn(_, _, _),  \* StepIn(id, w, m): the world after move m of world w
  NoWorld,          \* what _step returns for an event the kernel refuses
  Claims            \* the properties to judge: [kind, goal]

Wait  == 1    \* move 1 is the bare wait, always possible
Kinds == {"reachable", "never", "live"}

IsProblem(id) ==
  LET p      == Problems[id]
      worlds == WorldsIn(id)
  IN /\ p.root \in worlds /\ NoWorld \notin worlds
     /\ p.moves \in Nat \ {0}
     /\ \A w \in worlds : \A m \in 1 .. p.moves : StepIn(id, w, m) \in worlds \cup {NoWorld}
     /\ \A w \in worlds : StepIn(id, w, Wait) # NoWorld
     /\ p.horizon \in Nat \ {0} /\ p.budget \in Nat \ {0}

ASSUME ProblemsAreGraphs ==
  /\ \A id \in DOMAIN Problems : IsProblem(id)
  /\ \A c \in Claims : c.kind \in Kinds

VARIABLES
  problem,
  phase,
  keys,       \* node -> the world it stands for; nodes are numbered in order
  parent,     \* node -> the node it was discovered from, 0 for the root
  move,       \* node -> the move that discovered it, 0 for the root
  depth,      \* node -> ticks from the root along parents
  successors, \* node -> the nodes one move away, as far as explored
  open,       \* nodes with unexplored successors
  queue,
  node,       \* the node being expanded, 0 for none
  next,       \* the next move to try on it
  budgetHit,
  results     \* claim -> its verdict, once judged

vars == <<problem, phase, keys, parent, move, depth, successors, open, queue, node, next,
          budgetHit, results>>

Problem        == Problems[problem]
Worlds         == WorldsIn(problem)
StepOf(w, m)   == StepIn(problem, w, m)
Moves          == 1 .. Problem.moves
Nodes          == 1 .. Len(keys)
Explored       == {keys[n] : n \in Nodes}

-----------------------------------------------------------------------------
(* explore *)

Init ==
  /\ problem \in DOMAIN Problems
  /\ phase = "explore"
  /\ keys = <<Problem.root>>
  /\ parent = <<0>>
  /\ move = <<0>>
  /\ depth = <<0>>
  /\ successors = <<{}>>
  /\ open = {}
  /\ queue = <<1>>
  /\ node = 0
  /\ next = Wait
  /\ budgetHit = FALSE
  /\ results = <<>>

\* A mutant: a node at the horizon is dropped without being marked open.
TakeNodeUnmarked ==
  /\ phase = "explore" /\ node = 0 /\ queue # <<>>
  /\ queue' = Tail(queue)
  /\ IF depth[Head(queue)] >= Problem.horizon
     THEN UNCHANGED <<node, next>>
     ELSE node' = Head(queue) /\ next' = Wait
  /\ UNCHANGED <<problem, phase, keys, parent, move, depth, successors, open, budgetHit, results>>

\* A mutant: the horizon is one tick short.
TakeNodeEarly ==
  /\ phase = "explore" /\ node = 0 /\ queue # <<>>
  /\ queue' = Tail(queue)
  /\ IF depth[Head(queue)] >= Problem.horizon - 1
     THEN open' = open \cup {Head(queue)} /\ UNCHANGED <<node, next>>
     ELSE node' = Head(queue) /\ next' = Wait /\ UNCHANGED open
  /\ UNCHANGED <<problem, phase, keys, parent, move, depth, successors, budgetHit, results>>

\* A node at the horizon is marked open and not expanded.
TakeNode ==
  /\ phase = "explore" /\ node = 0 /\ queue # <<>>
  /\ queue' = Tail(queue)
  /\ IF depth[Head(queue)] >= Problem.horizon
     THEN open' = open \cup {Head(queue)} /\ UNCHANGED <<node, next>>
     ELSE node' = Head(queue) /\ next' = Wait /\ UNCHANGED open
  /\ UNCHANGED <<problem, phase, keys, parent, move, depth, successors, budgetHit, results>>

AfterMove ==
  IF next < Problem.moves
  THEN next' = next + 1 /\ UNCHANGED node
  ELSE node' = 0 /\ next' = Wait

\* The kernel refuses the event: no edge.
RefusedMove ==
  /\ phase = "explore" /\ node # 0
  /\ StepOf(keys[node], next) = NoWorld
  /\ AfterMove
  /\ UNCHANGED <<problem, phase, keys, parent, move, depth, successors, open, queue,
                 budgetHit, results>>

\* A mutant: a world met again is given to its latest finder.
KnownWorldMoved ==
  /\ phase = "explore" /\ node # 0
  /\ \E child \in Nodes :
       /\ keys[child] = StepOf(keys[node], next)
       /\ successors' = [successors EXCEPT ![node] = @ \cup {child}]
       /\ parent' = [parent EXCEPT ![child] = node]
  /\ AfterMove
  /\ UNCHANGED <<problem, phase, keys, move, depth, open, queue, budgetHit, results>>

\* The world is known: an edge to its node.
KnownWorld ==
  /\ phase = "explore" /\ node # 0
  /\ \E child \in Nodes :
       /\ keys[child] = StepOf(keys[node], next)
       /\ successors' = [successors EXCEPT ![node] = @ \cup {child}]
  /\ AfterMove
  /\ UNCHANGED <<problem, phase, keys, parent, move, depth, open, queue, budgetHit, results>>

Unknown(w) == w \notin Explored \cup {NoWorld}

\* Mutants: a new node goes to the front of the queue; a new node gets no list
\* of successors.
NewWorldUnlisted ==
  /\ phase = "explore" /\ node # 0
  /\ LET world == StepOf(keys[node], next)
         child == Len(keys) + 1
     IN /\ Unknown(world)
        /\ Len(keys) < Problem.budget
        /\ keys' = Append(keys, world)
        /\ parent' = Append(parent, node)
        /\ move' = Append(move, next)
        /\ depth' = Append(depth, depth[node] + 1)
        /\ successors' = [successors EXCEPT ![node] = @ \cup {child}]
        /\ queue' = Append(queue, child)
  /\ AfterMove
  /\ UNCHANGED <<problem, phase, open, budgetHit, results>>

NewWorldFirst ==
  /\ phase = "explore" /\ node # 0
  /\ LET world == StepOf(keys[node], next)
         child == Len(keys) + 1
     IN /\ Unknown(world)
        /\ Len(keys) < Problem.budget
        /\ keys' = Append(keys, world)
        /\ parent' = Append(parent, node)
        /\ move' = Append(move, next)
        /\ depth' = Append(depth, depth[node] + 1)
        /\ successors' = Append([successors EXCEPT ![node] = @ \cup {child}], {})
        /\ queue' = <<child>> \o queue
  /\ AfterMove
  /\ UNCHANGED <<problem, phase, open, budgetHit, results>>

NewWorld ==
  /\ phase = "explore" /\ node # 0
  /\ LET world == StepOf(keys[node], next)
         child == Len(keys) + 1
     IN /\ Unknown(world)
        /\ Len(keys) < Problem.budget
        /\ keys' = Append(keys, world)
        /\ parent' = Append(parent, node)
        /\ move' = Append(move, next)
        /\ depth' = Append(depth, depth[node] + 1)
        /\ successors' = Append([successors EXCEPT ![node] = @ \cup {child}], {})
        /\ queue' = Append(queue, child)
  /\ AfterMove
  /\ UNCHANGED <<problem, phase, open, budgetHit, results>>

\* A mutant: the search goes on past a spent budget, one world at a time.
BudgetIgnored ==
  /\ phase = "explore" /\ node # 0
  /\ Unknown(StepOf(keys[node], next))
  /\ Len(keys) >= Problem.budget
  /\ queue' = Append(queue, node)
  /\ node' = 0 /\ next' = Wait
  /\ UNCHANGED <<problem, phase, keys, parent, move, depth, successors, open, budgetHit, results>>

\* The budget is spent: the node is open, the queue is dropped.
BudgetSpent ==
  /\ phase = "explore" /\ node # 0
  /\ Unknown(StepOf(keys[node], next))
  /\ Len(keys) >= Problem.budget
  /\ budgetHit' = TRUE
  /\ open' = open \cup {node}
  /\ queue' = <<>>
  /\ node' = 0 /\ next' = Wait
  /\ UNCHANGED <<problem, phase, keys, parent, move, depth, successors, results>>

Exhausted ==
  /\ phase = "explore" /\ node = 0 /\ queue = <<>>
  /\ phase' = "judge"
  /\ UNCHANGED <<problem, keys, parent, move, depth, successors, open, queue, node, next,
                 budgetHit, results>>

-----------------------------------------------------------------------------
(* check: one verdict against the explored graph. *)

Bound == IF budgetHit THEN "budget" ELSE IF open = {} THEN "exhaustive" ELSE "horizon"

Hits(goal) == {n \in Nodes : keys[n] \in goal}

\* hits[0], and the shallowest lock, the first of several.
First(ns)     == CHOOSE n \in ns : \A m \in ns : n <= m
Shallowest(ns) == First({n \in ns : \A m \in ns : depth[n] <= depth[m]})

WithPredecessors(ns) == ns \cup {n \in Nodes : successors[n] \cap ns # {}}

BackwardClosure(seeds) ==
  LET seen[k \in 0 .. Len(keys)] == IF k = 0 THEN seeds ELSE WithPredecessors(seen[k - 1])
  IN seen[Len(keys)]

Verdict(status, witness) == [status |-> status, witness |-> witness]

ReachableVerdict(goal) ==
  IF Hits(goal) # {} THEN Verdict("holds", First(Hits(goal)))
  ELSE Verdict(IF Bound = "budget" THEN "inconclusive" ELSE "violated", 0)

\* A mutant: an empty search always proves the claim.
NeverVerdictRounded(goal) ==
  IF Hits(goal) # {} THEN Verdict("violated", First(Hits(goal))) ELSE Verdict("holds", 0)

NeverVerdict(goal) ==
  IF Hits(goal) # {} THEN Verdict("violated", First(Hits(goal)))
  ELSE Verdict(IF Bound = "budget" THEN "inconclusive" ELSE "holds", 0)

\* A mutant: a lock is any node the goal was not reached from, explored or not.
LocksIgnoringOpen(goal) == Nodes \ BackwardClosure(Hits(goal))

Locks(goal) == Nodes \ BackwardClosure(Hits(goal) \cup open)

LiveVerdict(goal) ==
  IF Locks(goal) # {} THEN Verdict("violated", Shallowest(Locks(goal)))
  ELSE IF Bound = "budget" THEN Verdict("inconclusive", 0)
  ELSE IF Hits(goal) = {} THEN Verdict("violated", 0)
  ELSE Verdict("holds", 0)

Check(claim) ==
  IF claim.kind = "reachable" THEN ReachableVerdict(claim.goal)
  ELSE IF claim.kind = "never" THEN NeverVerdict(claim.goal)
  ELSE LiveVerdict(claim.goal)

-----------------------------------------------------------------------------
(* prove: a witness is a replay, run again before it is reported. *)

\* Graph.path: the moves from the root.
Path(n) ==
  LET back[m \in Nodes] ==
        IF m = 1 THEN <<>> ELSE Append(back[parent[m]], move[m])
  IN back[n]

\* Every move at its tick; a wait is no event.
Events(n) ==
  {[tick |-> t - 1, move |-> Path(n)[t]] : t \in {u \in DOMAIN Path(n) : Path(n)[u] # Wait}}

\* A mutant: one tick per move, as if a replay of N ticks ran N of them.
WitnessTicksAll(n) == depth[n]

\* A replay of N ticks runs ticks 0..N: a node `depth` ticks in needs one less.
WitnessTicks(n) == depth[n] - 1

\* The event of a tick, or the wait; a failed replay stays failed.
Due(events, t) == {e \in events : e.tick = t}

Chosen(events, t) ==
  IF Due(events, t) = {} THEN Wait ELSE (CHOOSE e \in Due(events, t) : TRUE).move

Ticked(w, m) == IF w = NoWorld THEN NoWorld ELSE StepOf(w, m)

\* The world after a replay, NoWorld when an event fails it.
Replayed(events, ticks) ==
  LET after[t \in 0 .. ticks + 1] ==
        IF t = 0 THEN Problem.root ELSE Ticked(after[t - 1], Chosen(events, t - 1))
  IN after[ticks + 1]

\* A witness in the root is checked against the claim: there is no replay.
Verified(claim, n) ==
  IF depth[n] = 0 THEN (keys[1] \in claim.goal) = (claim.kind # "live")
  ELSE Replayed(Events(n), WitnessTicks(n)) = keys[n]

Judged(claim) ==
  LET verdict  == Check(claim)
      verified == verdict.witness = 0 \/ Verified(claim, verdict.witness)
  IN [status   |-> IF verdict.witness # 0 /\ depth[verdict.witness] > 0 /\ ~verified
                   THEN "inconclusive" ELSE verdict.status,
      witness  |-> verdict.witness,
      verified |-> verified]

Judge ==
  /\ phase = "judge"
  /\ results' = [claim \in Claims |-> Judged(claim)]
  /\ phase' = "done"
  /\ UNCHANGED <<problem, keys, parent, move, depth, successors, open, queue, node, next,
                 budgetHit>>

Next ==
  \/ TakeNode
  \/ RefusedMove
  \/ KnownWorld
  \/ NewWorld
  \/ BudgetSpent
  \/ Exhausted
  \/ Judge

\* A sequential program that keeps running.
Spec == Init /\ [][Next]_vars /\ WF_vars(Next)

-----------------------------------------------------------------------------
(* Properties.  What is reachable is said with closed sets, not with the   *)
(* search: a set of worlds is closed when no move leaves it.               *)

Closed(S) == \A w \in S : \A m \in Moves : StepOf(w, m) \in S \cup {NoWorld}

CanReach(w, goal) ==
  \A S \in SUBSET Worlds : w \in S /\ Closed(S) => S \cap goal # {}

\* The worlds at most so many moves from the root.
Spread(ws) == ws \cup ({StepOf(w, m) : w \in ws, m \in Moves} \ {NoWorld})

Within(ticks) ==
  LET ball[t \in 0 .. ticks] == IF t = 0 THEN {Problem.root} ELSE Spread(ball[t - 1])
  IN ball[ticks]

Ended == phase \in {"judge", "done"}

\* The type invariant: the five lists of Graph.add grow together, and every
\* node they, the queue and `open` mention exists.
TypeOK ==
  /\ problem \in DOMAIN Problems
  /\ phase \in {"explore", "judge", "done"}
  /\ keys \in Seq(Worlds) /\ Len(keys) >= 1
  /\ parent \in Seq(Nat) /\ Len(parent) = Len(keys)
  /\ move \in Seq(Nat) /\ Len(move) = Len(keys)
  /\ depth \in Seq(Nat) /\ Len(depth) = Len(keys)
  /\ successors \in Seq(SUBSET Nat) /\ Len(successors) = Len(keys)
  /\ \A n \in Nodes : successors[n] \subseteq Nodes
  /\ open \subseteq Nodes
  /\ queue \in Seq(Nodes)
  /\ node \in Nodes \cup {0}
  /\ next \in Moves
  /\ budgetHit \in BOOLEAN

\* The graph is a tree of the kernel's own steps: every node but the root is
\* one move from its parent, which was discovered before it (Graph.add; "what
\* it explores is exactly what the game will run").
TreeOfSteps ==
  /\ keys[1] = Problem.root /\ depth[1] = 0
  /\ \A n \in Nodes \ {1} :
       /\ parent[n] \in 1 .. (n - 1)
       /\ move[n] \in Moves
       /\ keys[n] = StepOf(keys[parent[n]], move[n])
       /\ depth[n] = depth[parent[n]] + 1

\* An exhaustive search has found the reachable worlds, no fewer and no more:
\* the least closed set that holds the root (ADR 0022: "the frontier emptied:
\* the reachable graph is complete for these amounts").
ExhaustiveIsExact ==
  Ended /\ Bound = "exhaustive" =>
    /\ Closed(Explored)
    /\ \A S \in SUBSET Worlds : Problem.root \in S /\ Closed(S) => Explored \subseteq S

\* Breadth first: a node's depth is its distance, so the first hit is a
\* shortest witness, even in a search the budget cut short.
DepthIsDistance ==
  \A n \in Nodes :
    /\ keys[n] \in Within(depth[n])
    /\ depth[n] > 0 => keys[n] \notin Within(depth[n] - 1)

\* A search no budget cut short has met exactly the worlds within its horizon,
\* so `no schedule reaches it (horizon)` means none that short.
HorizonIsComplete == Ended /\ ~budgetHit => Explored = Within(Problem.horizon)

\* So the search is breadth first, up to its horizon and no further.
BreadthFirst == DepthIsDistance /\ HorizonIsComplete

\* `reachable` and `never` are never wrong: a claimed or refuted hit is really
\* reachable; an exhaustive search that found none has none at all; and a claim
\* is left open only by a spent budget ("never rounded to a pass") or by a
\* witness that did not replay, which WitnessesReplay says there is not.
ReachVerdictsTrue ==
  phase = "done" => \A c \in Claims :
    LET status == results[c].status
        found  == status = (IF c.kind = "reachable" THEN "holds" ELSE "violated")
    IN c.kind \in {"reachable", "never"} =>
         \/ status = "inconclusive" /\ (Bound = "budget" \/ ~results[c].verified)
         \/ found /\ CanReach(Problem.root, c.goal)
         \/ /\ status # "inconclusive" /\ ~found
            /\ Bound # "budget"
            /\ Bound = "exhaustive" => ~CanReach(Problem.root, c.goal)

\* `live`, within a search no budget cut short: a lock it names is a reachable
\* world from which the goal is out of reach for ever; and an exhaustive
\* search that names none has none ("a definite lock", prover.py:356).
LiveVerdictsTrue ==
  phase = "done" /\ Bound # "budget" => \A c \in Claims : c.kind = "live" =>
    LET r == results[c]
    IN /\ r.status # "inconclusive"
       /\ r.witness # 0 => r.status = "violated" /\ ~CanReach(keys[r.witness], c.goal)
       /\ r.status = "violated" /\ r.witness = 0 => Within(Problem.horizon) \cap c.goal = {}
       /\ r.status = "holds" /\ Bound = "exhaustive" =>
            \A w \in Worlds : CanReach(Problem.root, {w}) => CanReach(w, c.goal)

\* Every witness, run again as a replay, ends in the world it names, so no
\* verdict is lost to "the kernel did not reproduce the witness".
WitnessesReplay ==
  phase = "done" => \A c \in Claims : results[c].verified

\* The search ends, whatever the graph: worlds are finite and deduplicated.
Terminates == <>(phase = "done")
=============================================================================
