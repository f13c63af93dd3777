----------------------------- MODULE KernelLoad -----------------------------
(***************************************************************************)
(* What the kernel refuses before the first tick: _validate_contract,      *)
(* _validate_semantics, validate_clause, validate_wires, load_replay and   *)
(* the checks run_replay makes before it ticks.                            *)
(*                                                                         *)
(* Contracts and replays are records that already have the JSON shape (an  *)
(* object where an object is due, no unknown keys); what is modelled is    *)
(* the typing of the block against the state schema and every cross        *)
(* reference.  A state variable is declared by its TYPE: the two integer   *)
(* storages (milli_i64, i64) behave alike in the kernel.                   *)
(***************************************************************************)
EXTENDS KernelSemantics

Types == {"int", "bool", "string"}

IsInt(v) == TypeOf(v) = "int" /\ Raw(v) \in I64

\* A literal the kernel holds: an integer in i64 range, a bool or a string.
IsLiteral(v) ==
  /\ v = <<TypeOf(v), Raw(v)>>
  /\ \/ IsInt(v)
     \/ TypeOf(v) = "bool" /\ Raw(v) \in BOOLEAN
     \/ TypeOf(v) = "string"

IntParams(contract) == DOMAIN contract.params \ {"navigation"}

\* A mutant: a `var` source may name a variable of any declared type.
ValueOKAnyVar(source, expected, contract, argKind) ==
  \/ source.kind = "const" /\ IsLiteral(source.value) /\ TypeOf(source.value) = expected
  \/ source.kind = "arg" /\ argKind = "count" /\ expected = "int"
  \/ source.kind = "param" /\ expected = "int" /\ source.name \in IntParams(contract)
  \/ source.kind = "var" /\ source.name \in DOMAIN contract.state

\* check_value: a source of the expected type.
ValueOK(source, expected, contract, argKind) ==
  \/ /\ source.kind = "const"
     /\ IsLiteral(source.value) /\ TypeOf(source.value) = expected
  \/ source.kind = "arg" /\ argKind = "count" /\ expected = "int"
  \/ /\ source.kind = "param" /\ expected = "int"
     /\ source.default = NoValue \/ (IsLiteral(source.default) /\ TypeOf(source.default) = "int")
     /\ source.name \in IntParams(contract) \/ source.default # NoValue
  \/ /\ source.kind = "var"
     /\ source.name \in DOMAIN contract.state /\ contract.state[source.name] = expected

GuardOK(guard, contract, argKind) ==
  /\ guard.var \in DOMAIN contract.state
  /\ \/ /\ guard.test = "exists"
        /\ guard.against.kind = "const" /\ TypeOf(guard.against.value) = "bool"
     \/ /\ guard.test = "equals"
        /\ ValueOK(guard.against, contract.state[guard.var], contract, argKind)
     \/ /\ guard.test \in {"gt", "lt"} /\ contract.state[guard.var] = "int"
        /\ ValueOK(guard.against, "int", contract, argKind)

GuardsOK(guards, contract, argKind) ==
  \A i \in 1 .. Len(guards) : GuardOK(guards[i], contract, argKind)

EffectOK(effect, contract, argKind) ==
  /\ GuardsOK(effect.when, contract, argKind)
  /\ effect.op # "set_control" => effect.target \in DOMAIN contract.state
  /\ LET type == contract.state[effect.target]
         typed(source, t) == ValueOK(source, t, contract, argKind)
     IN \/ effect.op = "set_control" /\ typed(effect.value, "int")
        \/ effect.op = "toggle" /\ type = "bool"
        \/ effect.op = "set" /\ typed(effect.value, type)
        \/ /\ effect.op = "add" /\ type = "int"
           /\ effect.sign \in {1, -1}
           /\ typed(effect.value, "int")
           /\ \A bound \in {effect.min, effect.max} \ {NoSource} : typed(bound, "int")

AffordanceOK(spec, contract) ==
  /\ spec.arg \in {"none", "count"}
  /\ spec.requires \subseteq DOMAIN contract.state
  /\ GuardsOK(spec.guards, contract, spec.arg)
  /\ \A i \in 1 .. Len(spec.effects) : EffectOK(spec.effects[i], contract, spec.arg)

\* A mutant: the rate is not typed.
IntegratorOKAnyRate(integrator, contract) ==
  integrator.var \in DOMAIN contract.state /\ contract.state[integrator.var] = "int"

IntegratorOK(integrator, contract) ==
  /\ integrator.var \in DOMAIN contract.state
  /\ contract.state[integrator.var] = "int"
  /\ ValueOK(integrator.rate, "int", contract, "none")

SemanticsOK(contract) ==
  LET declared == contract.declared
  IN /\ DOMAIN declared.affordances = contract.affordances
     /\ \A verb \in contract.affordances : AffordanceOK(declared.affordances[verb], contract)
     /\ \A i \in 1 .. Len(declared.integrators) : IntegratorOK(declared.integrators[i], contract)

\* The semantics block is checked only where there is one: a 0.1 contract's
\* state schema is not typed against the door it desugars to.
ContractOK(contract) ==
  /\ contract.version \in {"0.1", "0.2"}
  /\ \A var \in DOMAIN contract.state : contract.state[var] \in Types
  /\ \A name \in IntParams(contract) : IsInt(contract.params[name])
  /\ contract.version = "0.2" => SemanticsOK(contract)

-----------------------------------------------------------------------------
(* Clauses and wires. *)

ClauseOK(clause, contracts) ==
  /\ clause.entity \in DOMAIN contracts
  /\ LET schema  == contracts[clause.entity].state
         varType == IF clause.on = "control" THEN "int" ELSE schema[clause.name]
     IN /\ clause.on = "var" => clause.name \in DOMAIN schema
        /\ IsLiteral(clause.literal)
        /\ \/ clause.test = "exists" /\ TypeOf(clause.literal) = "bool"
           \/ clause.test = "equals" /\ TypeOf(clause.literal) = varType
           \/ /\ clause.test \in {"gt", "lt"}
              /\ TypeOf(clause.literal) = "int" /\ varType = "int"

\* A mutant: `toggle` taken for level-safe.
LevelSafeToggle == {"set", "set_control", "toggle"}
LevelSafeOps    == {"set", "set_control"}

\* A mutant: the argument of a wire's verb is not checked at load.
ActOKAnyArgument(act, contracts) ==
  /\ act.entity \in DOMAIN contracts
  /\ act.verb \in contracts[act.entity].affordances
  /\ act.verb \in DOMAIN Semantics(contracts[act.entity]).affordances
  /\ LET spec == Semantics(contracts[act.entity]).affordances[act.verb]
     IN \A i \in 1 .. Len(spec.effects) : spec.effects[i].op \in LevelSafeOps

ActOK(act, contracts) ==
  /\ act.entity \in DOMAIN contracts
  /\ act.verb \in contracts[act.entity].affordances
  /\ act.verb \in DOMAIN Semantics(contracts[act.entity]).affordances
  /\ LET spec == Semantics(contracts[act.entity]).affordances[act.verb]
     IN /\ \A i \in 1 .. Len(spec.effects) : spec.effects[i].op \in LevelSafeOps
        /\ spec.arg = "none" => act.arg = NoValue
        /\ spec.arg = "count" => TypeOf(act.arg) = "int" /\ Raw(act.arg) \in 0 .. MaxEventArg

WireOK(wire, contracts) ==
  /\ Len(wire.when) > 0 /\ Len(wire.then) > 0
  /\ \A i \in 1 .. Len(wire.when) : ClauseOK(wire.when[i], contracts)
  /\ \A i \in 1 .. Len(wire.then) : ActOK(wire.then[i], contracts)

WiresOK(wires, contracts) == \A i \in 1 .. Len(wires) : WireOK(wires[i], contracts)

-----------------------------------------------------------------------------
(* A replay: contracts pinned by hash, initial values, events, wires.      *)

\* _coerce_initial: declared variables only, and values of the declared type.
InitialOK(initial, contracts) ==
  \A entity \in DOMAIN initial :
    /\ entity \in DOMAIN contracts
    /\ \A var \in DOMAIN initial[entity] :
         /\ var \in DOMAIN contracts[entity].state
         /\ IsLiteral(initial[entity][var])
         /\ TypeOf(initial[entity][var]) = contracts[entity].state[var]

\* The verb and the argument of an event are left to apply_event.
EventsOK(events, contracts, ticks) ==
  \A i \in 1 .. Len(events) :
    events[i].tick \in 0 .. ticks /\ events[i].entity \in DOMAIN contracts

ReplayOK(replay) ==
  /\ DOMAIN replay.contracts # {}
  /\ \A entity \in DOMAIN replay.contracts : ContractOK(replay.contracts[entity])
  /\ replay.pinned
  /\ WiresOK(replay.wires, replay.contracts)
  /\ InitialOK(replay.initial, replay.contracts)
  /\ EventsOK(replay.events, replay.contracts, replay.ticks)

InitialState(contract, given) ==
  [var \in DOMAIN contract.state |->
     IF var \in DOMAIN given THEN given[var] ELSE Zero(contract.state[var])]

InitialWorld(replay) ==
  [entity \in DOMAIN replay.contracts |->
     [state   |-> InitialState(replay.contracts[entity],
                               IF entity \in DOMAIN replay.initial
                               THEN replay.initial[entity] ELSE <<>>),
      control |-> <<>>]]
=============================================================================
