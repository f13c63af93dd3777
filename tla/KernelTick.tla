----------------------------- MODULE KernelTick -----------------------------
(***************************************************************************)
(* One tick of the kernel as a function of the world before it: the events *)
(* due, then the wires, then every integrator (the body of the loop in     *)
(* run_replay, tools/sim/kernel.py).  SimTick makes it a specification;    *)
(* the prover explores with the same function.                             *)
(*                                                                         *)
(* An outcome is [world, error], and nothing happens after an error.       *)
(***************************************************************************)
EXTENDS KernelLoad

Outcome(world, why) == [world |-> world, error |-> why]

\* What a loop over a list has made of `start` after its first n passes.
Looped(pass(_, _), start, list, n) ==
  LET after[i \in 0 .. Len(list)] == IF i = 0 THEN start ELSE pass(after[i - 1], list[i])
  IN after[n]

-----------------------------------------------------------------------------
(* apply_event. *)

AfterEffect(outcome, effect, entity, arg, params) ==
  IF outcome.error # "none" THEN outcome
  ELSE IF EffectRaises(effect, arg, outcome.world[entity].state, params)
       THEN [outcome EXCEPT !.error = Crash]
       ELSE [outcome EXCEPT !.world[entity] = ApplyEffect(effect, arg, @, params)]

\* After the first n effects of a delivery.
Affected(outcome, effects, entity, arg, params, n) ==
  Looped(LAMBDA o, effect : AfterEffect(o, effect, entity, arg, params), outcome, effects, n)

\* All of them, if the guards hold.
AfterEffects(outcome, spec, entity, arg, params) ==
  IF ~GuardsHold(spec.guards, outcome.world[entity].state, params) THEN outcome
  ELSE Affected(outcome, spec.effects, entity, arg, params, Len(spec.effects))

\* Refused for `why`, or applied.
Delivered(contract, outcome, entity, verb, arg, why) ==
  IF why # "none" THEN [outcome EXCEPT !.error = why]
  ELSE AfterEffects(outcome, SpecOf(contract, verb), entity, arg, contract.params)

DeliverTo(contracts, outcome, entity, verb, arg) ==
  IF outcome.error # "none" THEN outcome
  ELSE Delivered(contracts[entity], outcome, entity, verb, arg,
                 DeliveryError(contracts[entity], outcome.world[entity].state, verb, arg))

-----------------------------------------------------------------------------
(* The events of a tick, the verbs of a wire, the wires. *)

AfterEventOf(contracts, tick, outcome, e) ==
  IF e.tick = tick THEN DeliverTo(contracts, outcome, e.entity, e.verb, e.arg) ELSE outcome

\* After the tick's events among the first n of the file.
Told(contracts, events, tick, outcome, n) ==
  Looped(LAMBDA o, e : AfterEventOf(contracts, tick, o, e), outcome, events, n)

\* After the first n verbs of a wire.
Acted(contracts, acts, outcome, n) ==
  Looped(LAMBDA o, act : DeliverTo(contracts, o, act.entity, act.verb, act.arg), outcome, acts, n)

\* A wire is tested once, in the world the previous ones left.
AfterWire(contracts, outcome, wire) ==
  IF /\ outcome.error = "none"
     /\ \A i \in 1 .. Len(wire.when) : ClauseHolds(wire.when[i], outcome.world)
  THEN Acted(contracts, wire.then, outcome, Len(wire.then)) ELSE outcome

\* After the first n wires.
Coupled(contracts, wires, outcome, n) ==
  Looped(LAMBDA o, wire : AfterWire(contracts, o, wire), outcome, wires, n)

ApplyWires(contracts, wires, outcome) == Coupled(contracts, wires, outcome, Len(wires))

-----------------------------------------------------------------------------
(* step_entity. *)

\* An entity after its first n integrators.
Stepped(contract, entry, n) ==
  Looped(LAMBDA e, integrator : Integrate(integrator, e, contract.params),
         entry, Semantics(contract).integrators, n)

StepEntity(contract, entry) == Stepped(contract, entry, Len(Semantics(contract).integrators))

StepRaises(contract, entry) ==
  \E i \in 1 .. Len(Semantics(contract).integrators) :
    IntegrateRaises(Semantics(contract).integrators[i], Stepped(contract, entry, i - 1),
                    contract.params)

-----------------------------------------------------------------------------
\* Events in file order, wires in declared order, integration.
TickOf(contracts, wires, world, events, tick) ==
  LET told  == Told(contracts, events, tick, Outcome(world, "none"), Len(events))
      wired == ApplyWires(contracts, wires, told)
  IN IF wired.error # "none" THEN wired
     ELSE IF \E e \in DOMAIN world : StepRaises(contracts[e], wired.world[e])
     THEN [wired EXCEPT !.error = Crash]
     ELSE Outcome([e \in DOMAIN world |-> StepEntity(contracts[e], wired.world[e])], "none")
=============================================================================
