----------------------------- MODULE RustKernel -----------------------------
(***************************************************************************)
(* The Rust kernel's interpreter (services/sim-kernel/src/lib.rs) over the *)
(* same contracts, worlds and replays as the Python kernel's.  It reads a  *)
(* value by its JSON type and falls back to a default where the type is    *)
(* another one, so nothing it evaluates can raise: where Python converts   *)
(* or crashes, Rust goes on with a zero.  Its load checks are a mirror of  *)
(* KernelLoad's, and a replay meets the interpreter only after them.       *)
(***************************************************************************)
EXTENDS KernelTick

-----------------------------------------------------------------------------
(* serde_json's typed reads: as_i64().unwrap_or(...), as_bool().           *)

AsI64(v, otherwise) == IF TypeOf(v) = "int" THEN Raw(v) ELSE otherwise
AsBool(v)           == v = BoolV(TRUE)

\* get_i64: an absent or mistyped variable reads as 0.
GetI64(f, name) == IF name \in DOMAIN f THEN AsI64(f[name], 0) ELSE 0

\* resolve: a parameter that is not an integer counts as not set.
RustResolve(source, arg, state, params) ==
  IF source.kind = "const" THEN source.value
  ELSE IF source.kind = "arg" THEN IntV(AsI64(arg, 0))
  ELSE IF source.kind = "param"
  THEN IntV(IF source.name \in DOMAIN params
            THEN AsI64(params[source.name], AsI64(source.default, 0)) ELSE AsI64(source.default, 0))
  ELSE IF source.name \in DOMAIN state THEN state[source.name] ELSE IntV(0)

RustInt(source, arg, state, params) == AsI64(RustResolve(source, arg, state, params), 0)

-----------------------------------------------------------------------------
(* Guards. *)

RustGuardHolds(guard, state, params) ==
  LET wanted == RustResolve(guard.against, NoValue, state, params)
      actual == IF guard.var \in DOMAIN state THEN state[guard.var] ELSE TypedZero(wanted)
  IN \/ guard.test = "exists" /\ (guard.var \in DOMAIN state) = Raw(guard.against.value)
     \/ guard.test = "equals" /\ actual = wanted
     \/ /\ guard.test \in {"gt", "lt"}
        /\ "bool" \notin {TypeOf(actual), TypeOf(wanted)}
        /\ IF guard.test = "gt" THEN AsI64(actual, 0) > AsI64(wanted, 0)
                                ELSE AsI64(actual, 0) < AsI64(wanted, 0)

RustGuardsHold(guards, state, params) ==
  \A i \in 1 .. Len(guards) : RustGuardHolds(guards[i], state, params)

-----------------------------------------------------------------------------
(* Effects.  saturating_mul and saturating_add, then the clamps.           *)
(* (RustAddedWrapping is a mutant: wrapping_add.)                          *)

Wrapped(n) == IF n < I64Min THEN n + (I64Max - I64Min + 1)
              ELSE IF n > I64Max THEN n - (I64Max - I64Min + 1) ELSE n

Clamped(effect, sum, arg, state, params) ==
  LET floored == IF effect.min = NoSource THEN sum
                 ELSE Larger(sum, RustInt(effect.min, arg, state, params))
  IN IF effect.max = NoSource THEN floored
     ELSE Smaller(floored, RustInt(effect.max, arg, state, params))

RustAddedWrapping(effect, arg, state, params) ==
  Clamped(effect, Wrapped(GetI64(state, effect.target)
                          + Sat(RustInt(effect.value, arg, state, params) * effect.sign)),
          arg, state, params)

RustAdded(effect, arg, state, params) ==
  Clamped(effect, Sat(GetI64(state, effect.target)
                      + Sat(RustInt(effect.value, arg, state, params) * effect.sign)),
          arg, state, params)

RustToggled(effect, state) ==
  BoolV(~(effect.target \in DOMAIN state /\ AsBool(state[effect.target])))

RustEffect(effect, arg, entry, params) ==
  LET state  == entry.state
      value  == RustResolve(effect.value, arg, state, params)
      set(v) == [entry EXCEPT !.state = Put(state, effect.target, v)]
  IN IF ~RustGuardsHold(effect.when, state, params) THEN entry
     ELSE IF effect.op = "set" THEN set(value)
     ELSE IF effect.op = "set_control"
     THEN [entry EXCEPT !.control = Put(entry.control, effect.target, value)]
     ELSE IF effect.op = "toggle" THEN set(RustToggled(effect, state))
     ELSE set(IntV(RustAdded(effect, arg, state, params)))

-----------------------------------------------------------------------------
(* apply_event, over outcomes. *)

RustRefusal(contract, state, verb, arg) ==
  IF verb \notin contract.affordances THEN "E_UNDECLARED_AFFORDANCE"
  ELSE IF verb \notin DeclaredVerbs(contract) THEN "E_NO_SEMANTICS"
  ELSE LET spec == SpecOf(contract, verb)
       IN IF spec.arg = "none" /\ arg # NoValue THEN "E_ARGUMENT_DOMAIN"
          ELSE IF spec.arg = "count" /\ TypeOf(arg) # "int" THEN "E_ARGUMENT_TYPE"
          ELSE IF spec.arg = "count" /\ Raw(arg) \notin 0 .. MaxEventArg THEN "E_ARGUMENT_RANGE"
          ELSE IF ~(spec.requires \subseteq DOMAIN state) THEN "E_NO_SEMANTICS"
          ELSE "none"

\* After the first n effects.
RustAffected(entry, effects, arg, params, n) ==
  Looped(LAMBDA e, effect : RustEffect(effect, arg, e, params), entry, effects, n)

RustEffects(contract, entry, verb, arg) ==
  LET spec == SpecOf(contract, verb)
  IN IF ~RustGuardsHold(spec.guards, entry.state, contract.params) THEN entry
     ELSE RustAffected(entry, spec.effects, arg, contract.params, Len(spec.effects))

RustDeliver(contracts, outcome, act) ==
  LET contract == contracts[act.entity]
      why      == RustRefusal(contract, outcome.world[act.entity].state, act.verb, act.arg)
  IN IF outcome.error # "none" THEN outcome
     ELSE IF why # "none" THEN [outcome EXCEPT !.error = why]
     ELSE [outcome EXCEPT !.world[act.entity] = RustEffects(contract, @, act.verb, act.arg)]

-----------------------------------------------------------------------------
(* Wires, integration, navigation, and the tick. *)

RustClauseHolds(clause, world) ==
  LET guard == [var |-> clause.name, test |-> clause.test, against |-> Const(clause.literal)]
      entry == world[clause.entity]
  IN RustGuardHolds(guard, IF clause.on = "control" THEN entry.control ELSE entry.state, <<>>)

RustActed(contracts, acts, outcome, n) ==
  Looped(LAMBDA o, act : RustDeliver(contracts, o, act), outcome, acts, n)

RustWire(contracts, outcome, wire) ==
  IF /\ outcome.error = "none"
     /\ \A i \in 1 .. Len(wire.when) : RustClauseHolds(wire.when[i], outcome.world)
  THEN RustActed(contracts, wire.then, outcome, Len(wire.then)) ELSE outcome

RustCoupled(contracts, wires, outcome, n) ==
  Looped(LAMBDA o, wire : RustWire(contracts, o, wire), outcome, wires, n)

\* One integrator of step_entity; it writes the variable even when it rests.
RustIntegrate(integrator, entry, params) ==
  LET current == GetI64(entry.state, integrator.var)
      target  == IF integrator.toward \in DOMAIN entry.control
                 THEN AsI64(entry.control[integrator.toward], current) ELSE current
      rate    == RustInt(integrator.rate, NoValue, entry.state, params)
      next    == IF current < target THEN Smaller(Sat(current + rate), target)
                 ELSE IF current > target THEN Larger(Sat(current - rate), target)
                 ELSE current
  IN IF integrator.var \notin DOMAIN entry.state THEN entry
     ELSE [entry EXCEPT !.state = Put(@, integrator.var, IntV(next))]

RustStepped(contract, entry, n) ==
  Looped(LAMBDA e, integrator : RustIntegrate(integrator, e, contract.params),
         entry, Semantics(contract).integrators, n)

RustStep(contract, entry) == RustStepped(contract, entry, Len(Semantics(contract).integrators))

\* (ReadsZero is a mutant: a variable the entity lacks reads as closed.)
ReadsZero(rule, state) == GetI64(state, rule.var)

Reads(rule, state) == IF rule.var \in DOMAIN state THEN AsI64(state[rule.var], Quantum) ELSE Quantum

RustBlocks(contract, state) ==
  LET rules == contract.navigation.blocksBelow
  IN /\ ~(/\ contract.navigation.neverBlocksWhenDestroyed
          /\ "destroyed" \in DOMAIN state /\ AsBool(state["destroyed"]))
     /\ \E i \in 1 .. Len(rules) : Reads(rules[i], state) < rules[i].threshold

\* by_tick: the events of a tick, in file order.
RustTold(contracts, events, tick, outcome, n) ==
  Looped(LAMBDA o, e : IF e.tick = tick THEN RustDeliver(contracts, o, e) ELSE o,
         outcome, events, n)

\* One pass of run_replay_value's loop over the ticks.
RustTick(contracts, wires, world, events, tick) ==
  LET told  == RustTold(contracts, events, tick, Outcome(world, "none"), Len(events))
      wired == RustCoupled(contracts, wires, told, Len(wires))
  IN IF wired.error # "none" THEN wired
     ELSE [wired EXCEPT !.world = [e \in DOMAIN world |-> RustStep(contracts[e], wired.world[e])]]
=============================================================================
