-------------------------- MODULE KernelSemantics --------------------------
(***************************************************************************)
(* The closed vocabulary of the deterministic simulation kernel            *)
(* (tools/sim/kernel.py, ADR 0021): values, value sources, guards,         *)
(* effects, integrators and clauses, as the interpreter evaluates them.    *)
(*                                                                         *)
(* A value is a pair <<type, payload>>, because the kernel's equality is   *)
(* type-strict (True is never 1).  One entity's part of the world is a     *)
(* record [state, control] of two functions from names to values.          *)
(*                                                                         *)
(* Where Python would leave the vocabulary with an exception that carries  *)
(* no E_ code (int("") of a string, an ordering of a string and a number)  *)
(* the operators named ...Raises say so.                                   *)
(***************************************************************************)
EXTENDS Integers, Sequences

CONSTANTS
  I64Min, I64Max,     \* the kernel's integers: -(2^63) and 2^63 - 1
  MaxEventArg,        \* 65535
  Quantum,            \* 1.0 in milli-units: 1000
  DefaultRate,        \* the door's open_rate_milli when no parameter sets it
  DefaultMaxHealth    \* the door's max_health when no parameter sets it

I64 == I64Min .. I64Max

ASSUME KernelConstants ==
  /\ I64Min \in Int /\ I64Max \in Int
  /\ I64Min < 0 /\ 0 < I64Max
  /\ MaxEventArg \in 1 .. I64Max
  /\ Quantum \in 1 .. I64Max
  /\ DefaultRate \in 1 .. I64Max
  /\ DefaultMaxHealth \in 1 .. I64Max

-----------------------------------------------------------------------------
(* Values. *)

IntV(n)  == <<"int", n>>
BoolV(b) == <<"bool", b>>
StrV(s)  == <<"string", s>>
NoValue  == <<"none", 0>>      \* an absent argument or default

TypeOf(v) == v[1]
Raw(v)    == v[2]

\* initial_state: what a declared variable holds before `initial` sets it.
Zero(type) ==
  IF type = "int" THEN IntV(0) ELSE IF type = "bool" THEN BoolV(FALSE) ELSE StrV("")

TypedZero(like) == Zero(TypeOf(like))

Sat(n) == IF n < I64Min THEN I64Min ELSE IF n > I64Max THEN I64Max ELSE n

\* Python's int(): a bool counts as 0 or 1, a string or an object raises.
Converts(v) == TypeOf(v) \in {"int", "bool"}
ToInt(v)    == IF TypeOf(v) = "bool" THEN (IF Raw(v) THEN 1 ELSE 0) ELSE Raw(v)

Larger(a, b)  == IF a >= b THEN a ELSE b
Smaller(a, b) == IF a <= b THEN a ELSE b

\* A dictionary assignment: the key may be new.
Put(f, k, v) == [x \in DOMAIN f \cup {k} |-> IF x = k THEN v ELSE f[x]]

-----------------------------------------------------------------------------
(* Value sources: a literal (bare or const), the event's argument, a       *)
(* parameter with an optional default, or another variable of the entity.  *)

Const(v)           == [kind |-> "const", value |-> v]
ArgSource          == [kind |-> "arg"]
ParamSource(p, d)  == [kind |-> "param", name |-> p, default |-> d]
VarSource(v)       == [kind |-> "var", name |-> v]
NoSource           == [kind |-> "none"]     \* an absent clamp bound, or a toggle's value

Resolve(source, arg, state, params) ==
  IF source.kind = "const" THEN source.value
  ELSE IF source.kind = "arg" THEN (IF arg = NoValue THEN IntV(0) ELSE IntV(ToInt(arg)))
  ELSE IF source.kind = "param"
  THEN IF source.name \in DOMAIN params THEN IntV(ToInt(params[source.name]))
       ELSE IF source.default # NoValue THEN source.default ELSE IntV(0)
  ELSE IF source.name \in DOMAIN state THEN state[source.name] ELSE IntV(0)

\* `parameters` also holds the navigation object, which int() refuses.
ResolveRaises(source, params) ==
  /\ source.kind = "param"
  /\ source.name \in DOMAIN params
  /\ ~Converts(params[source.name])

-----------------------------------------------------------------------------
(* Guards: one variable, one test.  The argument is not in scope: the      *)
(* interpreter resolves a guard's source with no argument at all.          *)

Wanted(guard, state, params) == Resolve(guard.against, NoValue, state, params)

Actual(guard, state, params) ==
  IF guard.var \in DOMAIN state THEN state[guard.var]
  ELSE TypedZero(Wanted(guard, state, params))

GuardHolds(guard, state, params) ==
  LET wanted == Wanted(guard, state, params)
      actual == Actual(guard, state, params)
  IN \/ guard.test = "exists" /\ (guard.var \in DOMAIN state) = Raw(guard.against.value)
     \/ guard.test = "equals" /\ actual = wanted
     \/ /\ guard.test \in {"gt", "lt"}
        /\ "bool" \notin {TypeOf(actual), TypeOf(wanted)}
        /\ IF guard.test = "gt" THEN Raw(actual) > Raw(wanted) ELSE Raw(actual) < Raw(wanted)

GuardRaises(guard, state, params) ==
  /\ guard.test # "exists"
  /\ \/ ResolveRaises(guard.against, params)
     \/ /\ guard.test \in {"gt", "lt"}
        /\ LET types == {TypeOf(Wanted(guard, state, params)),
                         TypeOf(Actual(guard, state, params))}
           IN types = {"int", "string"}

\* all(...) stops at the first guard that does not hold.
GuardsRaise(guards, state, params) ==
  \E i \in 1 .. Len(guards) :
    /\ GuardRaises(guards[i], state, params)
    /\ \A j \in 1 .. (i - 1) : GuardHolds(guards[j], state, params)

GuardsHold(guards, state, params) ==
  \A i \in 1 .. Len(guards) : GuardHolds(guards[i], state, params)

-----------------------------------------------------------------------------
(* Effects.  Each reads the state the previous one left.                   *)

Added(effect, arg, state, params) ==
  LET old     == IF effect.target \in DOMAIN state THEN ToInt(state[effect.target]) ELSE 0
      delta   == Sat(ToInt(Resolve(effect.value, arg, state, params)) * effect.sign)
      sum     == Sat(old + delta)
      floored == IF effect.min = NoSource THEN sum
                 ELSE Larger(ToInt(Resolve(effect.min, arg, state, params)), sum)
  IN IF effect.max = NoSource THEN floored
     ELSE Smaller(ToInt(Resolve(effect.max, arg, state, params)), floored)

Toggled(effect, state) ==
  BoolV(~(IF effect.target \in DOMAIN state THEN Raw(state[effect.target]) ELSE FALSE))

\* The entity's [state, control] after one effect whose `when` is tested first.
ApplyEffect(effect, arg, entry, params) ==
  LET state  == entry.state
      value  == Resolve(effect.value, arg, state, params)
      set(v) == [state |-> Put(state, effect.target, v), control |-> entry.control]
  IN IF ~GuardsHold(effect.when, state, params) THEN entry
     ELSE IF effect.op = "set_control"
     THEN [state |-> state, control |-> Put(entry.control, effect.target, value)]
     ELSE IF effect.op = "set" THEN set(value)
     ELSE IF effect.op = "toggle" THEN set(Toggled(effect, state))
     ELSE set(IntV(Added(effect, arg, state, params)))

\* The value sources an effect evaluates, and those it converts with int().
Sources(effect) ==
  (IF effect.op = "toggle" THEN {} ELSE {effect.value})
    \cup (IF effect.op = "add" THEN {effect.min, effect.max} \ {NoSource} ELSE {})

EffectRaises(effect, arg, state, params) ==
  \/ GuardsRaise(effect.when, state, params)
  \/ /\ GuardsHold(effect.when, state, params)
     /\ \/ \E source \in Sources(effect) :
             \/ ResolveRaises(source, params)
             \/ effect.op = "add" /\ ~Converts(Resolve(source, arg, state, params))
        \/ /\ effect.op = "add"
           /\ effect.target \in DOMAIN state
           /\ ~Converts(state[effect.target])

-----------------------------------------------------------------------------
(* Integrators: one variable moves toward one control at one rate.         *)
(* (Overshooting... is a mutant: the clamp at the target left out.)        *)

OvershootingIntegrated(current, target, rate) ==
  IF current < target THEN Sat(current + rate) ELSE Sat(current - rate)

Integrated(current, target, rate) ==
  IF current < target THEN Smaller(target, Sat(current + rate))
                      ELSE Larger(target, Sat(current - rate))

Integrate(integrator, entry, params) ==
  LET state   == entry.state
      current == ToInt(state[integrator.var])
      target  == IF integrator.toward \in DOMAIN entry.control
                 THEN ToInt(entry.control[integrator.toward]) ELSE current
      rate    == ToInt(Resolve(integrator.rate, NoValue, state, params))
  IN IF integrator.var \notin DOMAIN state \/ current = target THEN entry
     ELSE [state   |-> Put(state, integrator.var, IntV(Integrated(current, target, rate))),
           control |-> entry.control]

IntegrateRaises(integrator, entry, params) ==
  /\ integrator.var \in DOMAIN entry.state
  /\ \/ ~Converts(entry.state[integrator.var])
     \/ /\ integrator.toward \in DOMAIN entry.control
        /\ ~Converts(entry.control[integrator.toward])
     \/ ResolveRaises(integrator.rate, params)
     \/ ~Converts(Resolve(integrator.rate, NoValue, entry.state, params))

-----------------------------------------------------------------------------
(* Clauses: a guard over the world, on a state variable or a control.      *)

ClauseHolds(clause, world) ==
  LET guard == [var |-> clause.name, test |-> clause.test, against |-> Const(clause.literal)]
      entry == world[clause.entity]
  IN GuardHolds(guard, IF clause.on = "control" THEN entry.control ELSE entry.state, <<>>)

\* The navigation contract, derived from state and never stored.
Truthy(v) == Raw(v) # Raw(TypedZero(v))

Exempt(contract, state) ==
  /\ contract.navigation.neverBlocksWhenDestroyed
  /\ "destroyed" \in DOMAIN state /\ Truthy(state["destroyed"])

RuleBlocks(rule, state) ==
  rule.threshold > (IF rule.var \in DOMAIN state THEN ToInt(state[rule.var]) ELSE Quantum)

RuleRaises(rule, state) == rule.var \in DOMAIN state /\ ~Converts(state[rule.var])

BlocksNavigation(contract, state) ==
  LET rules == contract.navigation.blocksBelow
  IN ~Exempt(contract, state) /\ \E i \in 1 .. Len(rules) : RuleBlocks(rules[i], state)

\* The rules are compared in order, up to the first that blocks.
NavigationRaises(contract, state) ==
  LET rules == contract.navigation.blocksBelow
  IN /\ ~Exempt(contract, state)
     /\ \E i \in 1 .. Len(rules) :
          /\ RuleRaises(rules[i], state)
          /\ \A j \in 1 .. (i - 1) : ~RuleBlocks(rules[j], state)

-----------------------------------------------------------------------------
(* The built-in door a 0.1 contract desugars to, restricted to the verbs   *)
(* that contract lists.                                                    *)

Guard(var, test, against) == [var |-> var, test |-> test, against |-> against]
IsFalse(var) == Guard(var, "equals", Const(BoolV(FALSE)))
Exists(var)  == Guard(var, "exists", Const(BoolV(TRUE)))

Effect(op, target, value, when) ==
  [op |-> op, target |-> target, value |-> value, when |-> when,
   sign |-> 1, min |-> NoSource, max |-> NoSource]

Verb(arg, requires, guards, effects) ==
  [arg |-> arg, requires |-> requires, guards |-> guards, effects |-> effects]

Broken  == <<Guard("health", "equals", Const(IntV(0))), Exists("destroyed")>>
Revived == <<Guard("health", "gt", Const(IntV(0))), Exists("destroyed")>>

Aim(value, when)         == Effect("set_control", "openness_target", Const(IntV(value)), when)
SetBool(var, b, when)    == Effect("set", var, Const(BoolV(b)), when)
Damage == [Effect("add", "health", ArgSource, <<>>) EXCEPT !.sign = -1, !.min = Const(IntV(0))]
Mend   == [Effect("add", "health", ArgSource, <<>>) EXCEPT
             !.max = ParamSource("max_health", IntV(DefaultMaxHealth))]

\* A broken gate takes no `close`; the mutant below drops that guard.
UnguardedClose == <<>>
CloseGuards    == <<IsFalse("destroyed")>>

DoorAffordances ==
  [open   |-> Verb("none", {}, <<IsFalse("destroyed"), IsFalse("locked")>>, <<Aim(Quantum, <<>>)>>),
   close  |-> Verb("none", {}, CloseGuards, <<Aim(0, <<>>)>>),
   lock   |-> Verb("none", {}, <<>>, <<SetBool("locked", TRUE, <<>>)>>),
   unlock |-> Verb("none", {}, <<>>, <<SetBool("locked", FALSE, <<>>)>>),
   attack |-> Verb("count", {"health"}, <<>>,
                   <<Damage, SetBool("destroyed", TRUE, Broken), Aim(Quantum, Broken)>>),
   repair |-> Verb("count", {"health"}, <<>>,
                   <<Mend, SetBool("destroyed", FALSE, Revived)>>)]

DoorIntegrators ==
  <<[var |-> "openness", toward |-> "openness_target",
     rate |-> ParamSource("open_rate_milli", IntV(DefaultRate))]>>

\* semantics(contract): the declared block, or the door the contract listed.
Semantics(contract) ==
  IF contract.version = "0.2" THEN contract.declared
  ELSE [affordances |-> [v \in DOMAIN DoorAffordances \cap contract.affordances |->
                           DoorAffordances[v]],
        integrators |-> DoorIntegrators]

-----------------------------------------------------------------------------
(* apply_event, up to its loop over the effects: the checks that refuse an *)
(* event, in their order.                                                  *)

\* An exception with no E_ code: main() does not catch it.
Crash == "crash"
Codes == {"E_UNDECLARED_AFFORDANCE", "E_NO_SEMANTICS", "E_ARGUMENT_DOMAIN",
          "E_ARGUMENT_TYPE", "E_ARGUMENT_RANGE"}

DeclaredVerbs(contract) == DOMAIN Semantics(contract).affordances
SpecOf(contract, verb)   == Semantics(contract).affordances[verb]

ArgumentError(kind, arg) ==
  IF kind = "none" /\ arg # NoValue THEN "E_ARGUMENT_DOMAIN"
  ELSE IF kind = "count" /\ TypeOf(arg) # "int" THEN "E_ARGUMENT_TYPE"
  ELSE IF kind = "count" /\ Raw(arg) \notin 0 .. MaxEventArg THEN "E_ARGUMENT_RANGE"
  ELSE "none"

DeliveryError(contract, state, verb, arg) ==
  IF verb \notin contract.affordances THEN "E_UNDECLARED_AFFORDANCE"
  ELSE IF verb \notin DeclaredVerbs(contract) THEN "E_NO_SEMANTICS"
  ELSE LET spec == SpecOf(contract, verb)
       IN IF ArgumentError(spec.arg, arg) # "none" THEN ArgumentError(spec.arg, arg)
          ELSE IF ~(spec.requires \subseteq DOMAIN state) THEN "E_NO_SEMANTICS"
          ELSE IF GuardsRaise(spec.guards, state, contract.params) THEN Crash
          ELSE "none"
=============================================================================
