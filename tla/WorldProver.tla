---------------------------- MODULE WorldProver ----------------------------
(***************************************************************************)
(* What the prover explores: the moves a world's contracts allow, one tick *)
(* of the kernel per move, and the replay a witness is written out as      *)
(* (_moves, _step, initial_world and witness_replay of                     *)
(* tools/worldc/prover.py).  It turns a world's contracts into a problem   *)
(* for Prover's search, and runs the witnesses in the kernel.              *)
(***************************************************************************)
EXTENDS Prover, KernelTypes, Functions

CONSTANT Projects   \* id -> [contracts, wires, initial, amounts, horizon, budget]

-----------------------------------------------------------------------------
(* The amounts tried for a verb that takes a count. *)

IntsOf(v) == IF TypeOf(v) = "int" THEN {Raw(v)} ELSE {}

\* The integer a source names: a literal or a parameter, never a variable.
SourceInts(source, params) ==
  IF source.kind = "const" THEN IntsOf(source.value)
  ELSE IF source.kind # "param" THEN {}
  ELSE IF source.name \in DOMAIN params \ {"navigation"} THEN IntsOf(params[source.name])
  ELSE IntsOf(source.default)

GuardInts(guards, params) ==
  UNION {SourceInts(guards[i].against, params) :
           i \in {j \in 1 .. Len(guards) : guards[j].test \in {"equals", "gt", "lt"}}}

AmountInts(spec, params) ==
  GuardInts(spec.guards, params)
    \cup UNION {GuardInts(spec.effects[i].when, params)
                  \cup SourceInts(spec.effects[i].min, params)
                  \cup SourceInts(spec.effects[i].max, params) : i \in 1 .. Len(spec.effects)}

\* A mutant: the amounts are not kept in the kernel's range.
CandidateAmountsAny(contract, spec, extra) ==
  AmountInts(spec, contract.params) \cup extra \cup {MaxEventArg + 1}

CandidateAmounts(contract, spec, extra) ==
  {n \in AmountInts(spec, contract.params) \cup extra \cup {MaxEventArg} : n \in 1 .. MaxEventArg}

-----------------------------------------------------------------------------
(* Moves and steps. *)

NoEvent == [entity |-> "none", verb |-> "none", arg |-> NoValue]

ArgumentsOf(contract, verb, extra) ==
  LET spec == SpecOf(contract, verb)
  IN IF spec.arg = "count" THEN {IntV(n) : n \in CandidateAmounts(contract, spec, extra)}
     ELSE {NoValue}

EventsOf(project) ==
  UNION {LET contract == project.contracts[entity]
         IN UNION {[entity : {entity}, verb : {verb},
                    arg : ArgumentsOf(contract, verb, project.amounts)] :
                     verb \in contract.affordances \cap DeclaredVerbs(contract)} :
           entity \in DOMAIN project.contracts}

\* The members of a set, one after the other.
Listed(events) ==
  LET first[n \in 0 .. Cardinality(events)] ==
        IF n = 0 THEN <<>>
        ELSE LET before == first[n - 1]
             IN Append(before, CHOOSE e \in events : e \notin Range(before))
  IN first[Cardinality(events)]

\* The wait comes first.  The order of the others (sorted names, the file's
\* order of verbs) only chooses among equally short witnesses.
MovesOf(project) == <<NoEvent>> \o Listed(EventsOf(project))

\* A mutant: a verb its guards hold back is taken for one the kernel refuses.
AfterEventHeld(project, world, event) ==
  IF event = NoEvent THEN Outcome(world, "none")
  ELSE LET contract == project.contracts[event.entity]
           after    == DeliverTo(project.contracts, Outcome(world, "none"),
                                 event.entity, event.verb, event.arg)
       IN IF after.error = "none" /\ ~GuardsHold(SpecOf(contract, event.verb).guards,
                                                world[event.entity].state, contract.params)
          THEN Outcome(world, "E_NO_SEMANTICS") ELSE after

\* The world after the event, if any.
AfterEvent(project, world, event) ==
  IF event = NoEvent THEN Outcome(world, "none")
  ELSE DeliverTo(project.contracts, Outcome(world, "none"), event.entity, event.verb, event.arg)

Wired(project, outcome) == ApplyWires(project.contracts, project.wires, outcome)

Moved(project, world) == [e \in DOMAIN world |-> StepEntity(project.contracts[e], world[e])]

\* A mutant: the entities integrate before the wires are tested.
SettledWiresLast(project, begun) ==
  IF begun.error # "none" THEN NoWorld
  ELSE Wired(project, Outcome(Moved(project, begun.world), "none")).world

Settled(project, begun) ==
  IF begun.error # "none" THEN NoWorld ELSE Moved(project, Wired(project, begun).world)

\* One tick: at most one event, the wires, then every entity integrates.
Step(project, world, event) == Settled(project, AfterEvent(project, world, event))

RootWorld(project) ==
  InitialWorld([contracts |-> project.contracts, initial |-> project.initial])

ProblemOf(project) ==
  [root |-> RootWorld(project), moves |-> Len(MovesOf(project)),
   horizon |-> project.horizon, budget |-> project.budget]

\* What a project is when explore meets it: its contracts and wires have passed
\* the kernel's validators, and its initial values have been coerced.
IsProject(project) ==
  /\ DOMAIN project.contracts # {}
  /\ \A entity \in DOMAIN project.contracts :
       ContractOK(project.contracts[entity]) /\ ContractLists(project.contracts[entity])
  /\ Len(project.wires) \in Nat
  /\ \A i \in 1 .. Len(project.wires) : Len(project.wires[i].then) \in Nat
  /\ WiresOK(project.wires, project.contracts)
  /\ InitialOK(project.initial, project.contracts)
  /\ IsFiniteSet(EventsOf(project))

\* The search is of a project: its moves and their steps, where NoWorld is no
\* world but what a refused event leaves.
IsSearchOf(id, project) ==
  /\ Problems[id] = ProblemOf(project)
  /\ LET moves == MovesOf(project)
     IN \A w \in WorldsIn(id) : \A m \in 1 .. Len(moves) :
          /\ StepIn(id, w, m) = Step(project, w, moves[m])
          /\ StepIn(id, w, m) = NoWorld => AfterEvent(project, w, moves[m]).error # "none"

ASSUME ProblemsAreProjects ==
  \A id \in DOMAIN Problems : IsProject(Projects[id]) /\ IsSearchOf(id, Projects[id])

\* A claim's `when` is a conjunction of clauses (_holds).
GoalOf(when, worlds) ==
  {w \in worlds :
     \A i \in 1 .. Len(when) : when[i].entity \in DOMAIN w /\ ClauseHolds(when[i], w)}

-----------------------------------------------------------------------------
(* The witness as a replay, and the kernel's run of it. *)

EventAt(tick, event) ==
  [tick |-> tick, entity |-> event.entity, verb |-> event.verb, arg |-> event.arg]

\* The events of a path: the move from node to node at its tick, unless it is the wait.
EventsOn(path, moves) ==
  LET taken[t \in 0 .. Len(path)] ==
        IF t = 0 THEN <<>>
        ELSE LET before == taken[t - 1]
                 event  == moves[path[t]]
             IN IF event = NoEvent THEN before ELSE Append(before, EventAt(t - 1, event))
  IN taken[Len(path)]

WitnessReplay(n) ==
  LET project == Projects[problem]
  IN [contracts |-> project.contracts, pinned |-> TRUE, initial |-> project.initial,
      wires |-> project.wires, ticks |-> WitnessTicks(n),
      events |-> EventsOn(Path(n), MovesOf(project))]

\* run_replay: the world after ticks 0 .. ticks, or why it failed.
RunReplay(replay) ==
  LET after[t \in 0 .. replay.ticks + 1] ==
        IF t = 0 THEN Outcome(InitialWorld(replay), "none")
        ELSE LET before == after[t - 1]
             IN IF before.error # "none" THEN before
                ELSE TickOf(replay.contracts, replay.wires, before.world, replay.events, t - 1)
  IN after[replay.ticks + 1]

-----------------------------------------------------------------------------
(* Properties. *)

\* Proof by execution: the replay a witness is written out as passes the
\* kernel's load checks, runs without an error, and ends in the world the
\* verdict names ("exactly the kernel's own order, so a path here is a replay
\* there", _step).
WitnessesRunInTheKernel ==
  phase = "done" => \A claim \in Claims :
    LET n == results[claim].witness
    IN n # 0 /\ depth[n] > 0 =>
         \A replay \in {WitnessReplay(n)} :
           ReplayOK(replay) /\ RunReplay(replay) = Outcome(keys[n], "none")

\* A move the kernel refuses in some world the search met, the root or a later
\* one, it refuses in all of them, and for a variable the contract does not
\* declare (_step: "a verb this contract cannot take"): no edge is lost to the
\* world a move is tried in, nor to the amounts the search tries.
RefusalsAreForEver ==
  phase = "done" => \A m \in Moves :
    LET event    == MovesOf(Projects[problem])[m]
        contract == Projects[problem].contracts[event.entity]
        refusing == {n \in Nodes : StepOf(keys[n], m) = NoWorld}
    IN refusing # {} =>
         /\ refusing = Nodes
         /\ ~(SpecOf(contract, event.verb).requires \subseteq DOMAIN contract.state)

\* So the search explores what the kernel does: its paths are the kernel's
\* runs, and what it takes for no edge the kernel never takes.
ExploresTheKernel == WitnessesRunInTheKernel /\ RefusalsAreForEver
=============================================================================
