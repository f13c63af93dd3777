---------------------------- MODULE KernelLemmas ----------------------------
(***************************************************************************)
(* What is true of the kernel's operators, whatever runs them: of the      *)
(* vocabulary on typed entries, of the loops of a tick, and of the Rust    *)
(* interpreter beside the Python one.  SimKernel_proofs makes invariants   *)
(* of a running replay from these lemmas, Worldc_proofs uses them on the   *)
(* worlds a prover explores.                                               *)
(*                                                                         *)
(* Sound(contract) says that each guard, effect and integrator the         *)
(* interpreter will run is typed against the schema; the validator         *)
(* establishes it (LoadsSound).  Sources then resolve to values of their   *)
(* type (ResolveTyped), guards never raise (GuardsNeverRaise), effects and *)
(* integrators keep an entry typed and never raise (EffectKeepsTypes,      *)
(* IntegrateKeepsTypes).  Kept carries this through the loops of a tick,   *)
(* where both interpreters agree (SameTick), and Steady says what is left  *)
(* of a world once nothing in it can fail.                                 *)
(***************************************************************************)
EXTENDS RustKernel, KernelTypes, IntervalInduction

-----------------------------------------------------------------------------
(* What the validator establishes. *)

SourceSound(source, type, contract, kind) ==
  ValueOK(source, type, contract, kind) /\ NotNavigation(source)

GuardSound(guard, contract, kind) ==
  LET schema == Schema(contract)
  IN /\ guard.var \in DOMAIN schema
     /\ CASE guard.test = "exists" -> TRUE
          [] guard.test = "equals" ->
               SourceSound(guard.against, schema[guard.var], contract, kind)
          [] OTHER -> /\ schema[guard.var] = "int"
                      /\ SourceSound(guard.against, "int", contract, kind)

GuardsSound(guards, contract, kind) ==
  \A i \in 1 .. Len(guards) : GuardSound(guards[i], contract, kind)

EffectSound(effect, contract, kind) ==
  LET schema == Schema(contract)
  IN /\ GuardsSound(effect.when, contract, kind)
     /\ effect.op \in {"set", "set_control", "toggle", "add"}
     /\ effect.op # "set_control" => effect.target \in DOMAIN schema
     /\ effect.op = "toggle" => schema[effect.target] = "bool"
     /\ effect.op = "set" => SourceSound(effect.value, schema[effect.target], contract, kind)
     /\ effect.op = "set_control" => SourceSound(effect.value, "int", contract, kind)
     /\ effect.op = "add" =>
          /\ schema[effect.target] = "int"
          /\ effect.sign \in {1, -1}
          /\ \A source \in {effect.value, effect.min, effect.max} \ {NoSource} :
               SourceSound(source, "int", contract, kind)
          /\ effect.value # NoSource

SpecSound(spec, contract) ==
  /\ spec.arg \in {"none", "count"}
  /\ Len(spec.effects) \in Nat
  /\ GuardsSound(spec.guards, contract, spec.arg)
  /\ \A i \in 1 .. Len(spec.effects) : EffectSound(spec.effects[i], contract, spec.arg)

IntegratorSound(integrator, contract) ==
  /\ integrator.var \in DOMAIN Schema(contract)
  /\ Schema(contract)[integrator.var] = "int"
  /\ SourceSound(integrator.rate, "int", contract, "none")

Sound(contract) ==
  /\ DOMAIN contract.state \subseteq DOMAIN Schema(contract)
  /\ \A var \in DOMAIN contract.state : Schema(contract)[var] = contract.state[var]
  /\ \A name \in IntParams(contract) : IsInt(contract.params[name])
  /\ \A verb \in DeclaredVerbs(contract) : SpecSound(SpecOf(contract, verb), contract)
  /\ Len(Semantics(contract).integrators) \in Nat
  /\ \A i \in 1 .. Len(Semantics(contract).integrators) :
       IntegratorSound(Semantics(contract).integrators[i], contract)
  /\ \A i \in 1 .. Len(contract.navigation.blocksBelow) :
       LET var == contract.navigation.blocksBelow[i].var
       IN var \in DOMAIN Schema(contract) => Schema(contract)[var] \in {"int", "bool"}


-----------------------------------------------------------------------------
(* Values and sources. *)

\* A source typed at load resolves to a value of that type in every typed
\* entry (_resolve against check_value).
LEMMA ResolveTyped ==
  ASSUME NEW contract, Sound(contract),
         NEW entry, EntryTyped(contract, entry),
         NEW source, NEW type, NEW kind, SourceSound(source, type, contract, kind),
         NEW arg, (kind = "count" /\ arg # NoValue) => IsInt(arg)
  PROVE  /\ HasType(Resolve(source, arg, entry.state, contract.params), type)
         /\ ~ResolveRaises(source, contract.params)
<1>1. CASE source.kind = "const"
  BY <1>1 DEF SourceSound, ValueOK, HasType, Resolve, ResolveRaises
<1>2. CASE source.kind = "arg"
  <2>1. type = "int" /\ kind = "count"
    BY <1>2 DEF SourceSound, ValueOK
  <2>2. HasType(IntV(0), "int")
    BY KernelConstants DEF HasType, IsLiteral, IsInt, IntV, TypeOf, Raw, I64
  <2>3. CASE arg = NoValue
    BY <1>2, <2>1, <2>2, <2>3 DEF Resolve, ResolveRaises
  <2>4. CASE arg # NoValue
    BY <1>2, <2>1, <2>4 DEF Resolve, ResolveRaises, HasType, IsLiteral, IsInt, IntV, ToInt, TypeOf, Raw
  <2> QED BY <2>3, <2>4
<1>3. CASE source.kind = "param"
  <2>1. type = "int" /\ source.name # "navigation"
    BY <1>3 DEF SourceSound, ValueOK, NotNavigation
  <2>2. HasType(IntV(0), "int")
    BY KernelConstants DEF HasType, IsLiteral, IsInt, IntV, TypeOf, Raw, I64
  <2>3. CASE source.name \in DOMAIN contract.params
    <3>1. IsInt(contract.params[source.name])
      BY <2>1, <2>3 DEF Sound, IntParams
    <3> QED
      BY <1>3, <2>1, <2>3, <3>1
      DEF Resolve, ResolveRaises, Converts, HasType, IsLiteral, IsInt, IntV, ToInt, TypeOf, Raw
  <2>4. CASE source.name \notin DOMAIN contract.params
    BY <1>3, <2>1, <2>2, <2>4
    DEF Resolve, ResolveRaises, SourceSound, ValueOK, HasType, IntV
  <2> QED BY <2>3, <2>4
<1>4. CASE source.kind = "var"
  <2>1. source.name \in DOMAIN contract.state /\ contract.state[source.name] = type
    BY <1>4 DEF SourceSound, ValueOK
  <2>2. source.name \in DOMAIN entry.state /\ HasType(entry.state[source.name], type)
    BY <2>1 DEF EntryTyped, Sound
  <2> QED
    BY <1>4, <2>2 DEF Resolve, ResolveRaises
<1> QED BY <1>1, <1>2, <1>3, <1>4 DEF SourceSound, ValueOK

LEMMA SatInRange ==
  ASSUME NEW n \in Int
  PROVE  Sat(n) \in I64
  BY KernelConstants DEF Sat, I64

\* A value of type int is an integer in range, and int() takes it.
LEMMA IntTyped ==
  ASSUME NEW v, HasType(v, "int")
  PROVE  /\ Raw(v) \in I64 /\ ToInt(v) = Raw(v) /\ ToInt(v) \in Int
         /\ Converts(v) /\ TypeOf(v) = "int"
  BY KernelConstants DEF HasType, IsLiteral, IsInt, ToInt, Converts, TypeOf, Raw, I64

LEMMA BoolTyped ==
  ASSUME NEW b \in BOOLEAN
  PROVE  HasType(BoolV(b), "bool")
  BY DEF HasType, IsLiteral, IsInt, BoolV, TypeOf, Raw

-----------------------------------------------------------------------------
(* Guards. *)

\* A guard typed at load orders two integers or compares like with like: it
\* never raises in a typed entry (_guard_holds).
LEMMA GuardNeverRaises ==
  ASSUME NEW contract, Sound(contract),
         NEW entry, EntryTyped(contract, entry),
         NEW guard, NEW kind, GuardSound(guard, contract, kind)
  PROVE  ~GuardRaises(guard, entry.state, contract.params)
<1> DEFINE wanted == Wanted(guard, entry.state, contract.params)
           actual == Actual(guard, entry.state, contract.params)
<1>1. CASE guard.test = "exists"
  BY <1>1 DEF GuardRaises
<1>2. CASE guard.test # "exists"
  <2>1. PICK type : SourceSound(guard.against, type, contract, kind)
    BY <1>2 DEF GuardSound
  <2>2. ~ResolveRaises(guard.against, contract.params)
    BY <2>1, ResolveTyped
  <2>3. guard.test \in {"gt", "lt"} => TypeOf(wanted) = "int" /\ TypeOf(actual) = "int"
    <3> SUFFICES ASSUME guard.test \in {"gt", "lt"}
                 PROVE  TypeOf(wanted) = "int" /\ TypeOf(actual) = "int"
      OBVIOUS
    <3>1. SourceSound(guard.against, "int", contract, kind) /\ Schema(contract)[guard.var] = "int"
      BY DEF GuardSound
    <3>2. HasType(wanted, "int")
      BY <3>1, ResolveTyped DEF Wanted
    <3>3. CASE guard.var \in DOMAIN entry.state
      BY <3>1, <3>2, <3>3 DEF Actual, EntryTyped, HasType
    <3>4. CASE guard.var \notin DOMAIN entry.state
      BY <3>2, <3>4 DEF Actual, TypedZero, Zero, IntV, TypeOf, HasType
    <3> QED BY <3>3, <3>4
  <2> QED BY <2>2, <2>3 DEF GuardRaises
<1> QED BY <1>1, <1>2

LEMMA GuardsNeverRaise ==
  ASSUME NEW contract, Sound(contract),
         NEW entry, EntryTyped(contract, entry),
         NEW guards, NEW kind, GuardsSound(guards, contract, kind)
  PROVE  ~GuardsRaise(guards, entry.state, contract.params)
  BY GuardNeverRaises DEF GuardsRaise, GuardsSound

-----------------------------------------------------------------------------
(* Effects. *)

\* Writing a value of the declared type keeps an entry typed.
LEMMA PutKeepsTypes ==
  ASSUME NEW contract, NEW entry, EntryTyped(contract, entry),
         NEW var \in DOMAIN Schema(contract),
         NEW v, HasType(v, Schema(contract)[var])
  PROVE  EntryTyped(contract, [state |-> Put(entry.state, var, v), control |-> entry.control])
  BY DEF EntryTyped, Put

LEMMA PutControlKeepsTypes ==
  ASSUME NEW contract, NEW entry, EntryTyped(contract, entry),
         NEW name, NEW v, HasType(v, "int")
  PROVE  EntryTyped(contract, [state |-> entry.state, control |-> Put(entry.control, name, v)])
  BY DEF EntryTyped, Put

\* Every bound and every operand of an add is an integer in range, so the
\* clamped, saturated sum is one too (_apply_effect, op add).
LEMMA AddedInRange ==
  ASSUME NEW contract, Sound(contract),
         NEW entry, EntryTyped(contract, entry),
         NEW effect, NEW kind, EffectSound(effect, contract, kind), effect.op = "add",
         NEW arg, kind = "count" => IsInt(arg)
  PROVE  HasType(IntV(Added(effect, arg, entry.state, contract.params)), "int")
<1> DEFINE state == entry.state
           params == contract.params
           num(source) == ToInt(Resolve(source, arg, state, params))
           old == IF effect.target \in DOMAIN state THEN ToInt(state[effect.target]) ELSE 0
           delta == Sat(num(effect.value) * effect.sign)
           sum == Sat(old + delta)
           floored == IF effect.min = NoSource THEN sum ELSE Larger(num(effect.min), sum)
           capped == IF effect.max = NoSource THEN floored ELSE Smaller(num(effect.max), floored)
<1>1. \A source \in {effect.value, effect.min, effect.max} \ {NoSource} : num(source) \in I64
  <2> TAKE source \in {effect.value, effect.min, effect.max} \ {NoSource}
  <2>1. SourceSound(source, "int", contract, kind)
    BY DEF EffectSound
  <2>2. HasType(Resolve(source, arg, state, params), "int")
    BY <2>1, ResolveTyped
  <2> QED BY <2>2, IntTyped
<1>2. old \in Int
  <2>1. CASE effect.target \in DOMAIN state
    <3>1. HasType(state[effect.target], "int")
      BY <2>1 DEF EffectSound, EntryTyped
    <3> QED BY <2>1, <3>1, IntTyped
  <2> QED BY <2>1
<1>3. I64 \subseteq Int
  BY KernelConstants DEF I64
<1>4. num(effect.value) \in Int /\ effect.value # NoSource
  BY <1>1, <1>3 DEF EffectSound
<1>5. num(effect.value) * effect.sign \in Int
  <2> HIDE DEF num
  <2>1. effect.sign = 1 \/ effect.sign = -1
    BY DEF EffectSound
  <2> QED BY <1>4, <2>1
<1>6. delta \in Int
  BY <1>3, <1>5, SatInRange
<1>7. sum \in I64
  <2> HIDE DEF old, delta
  <2>1. old + delta \in Int
    BY <1>2, <1>6
  <2> QED BY <2>1, SatInRange
<1>8. floored \in I64
  <2> HIDE DEF sum, num
  <2> QED BY <1>1, <1>7 DEF Larger
<1>9. capped \in I64
  <2> HIDE DEF floored, num
  <2> QED BY <1>1, <1>8 DEF Smaller
<1>10. capped = Added(effect, arg, state, params)
  BY DEF Added
<1> QED
  <2> HIDE DEF capped, floored, sum, delta, old, num
  <2> QED BY <1>9, <1>10 DEF HasType, IsLiteral, IsInt, IntV, TypeOf, Raw

\* An effect leaves its entity typed (_apply_effect).
LEMMA EffectKeepsTypes ==
  ASSUME NEW contract, Sound(contract),
         NEW entry, EntryTyped(contract, entry),
         NEW effect, NEW kind, EffectSound(effect, contract, kind),
         NEW arg, kind = "count" => IsInt(arg)
  PROVE  EntryTyped(contract, ApplyEffect(effect, arg, entry, contract.params))
<1> DEFINE state == entry.state
           params == contract.params
           value == Resolve(effect.value, arg, state, params)
<1>1. CASE ~GuardsHold(effect.when, state, params)
  BY <1>1 DEF ApplyEffect
<1>2. CASE GuardsHold(effect.when, state, params)
  <2>1. CASE effect.op = "set_control"
    <3>1. HasType(value, "int")
      BY <2>1, ResolveTyped DEF EffectSound
    <3> QED
      BY <1>2, <2>1, <3>1, PutControlKeepsTypes DEF ApplyEffect
  <2>2. CASE effect.op = "set"
    <3>1. effect.target \in DOMAIN Schema(contract)
      BY <2>2 DEF EffectSound
    <3>2. HasType(value, Schema(contract)[effect.target])
      BY <2>2, ResolveTyped DEF EffectSound
    <3> QED
      BY <1>2, <2>2, <3>1, <3>2, PutKeepsTypes DEF ApplyEffect
  <2>3. CASE effect.op = "toggle"
    <3>1. effect.target \in DOMAIN Schema(contract) /\ Schema(contract)[effect.target] = "bool"
      BY <2>3 DEF EffectSound
    <3>2. HasType(Toggled(effect, state), "bool")
      <4>1. effect.target \in DOMAIN state => Raw(state[effect.target]) \in BOOLEAN
        BY <3>1 DEF EntryTyped, HasType, IsLiteral, IsInt
      <4> QED BY <4>1, BoolTyped DEF Toggled
    <3> QED
      BY <1>2, <2>3, <3>1, <3>2, PutKeepsTypes DEF ApplyEffect
  <2>4. CASE effect.op = "add"
    <3>1. effect.target \in DOMAIN Schema(contract) /\ Schema(contract)[effect.target] = "int"
      BY <2>4 DEF EffectSound
    <3>2. HasType(IntV(Added(effect, arg, state, params)), "int")
      BY <2>4, AddedInRange
    <3> QED
      BY <1>2, <2>4, <3>1, <3>2, PutKeepsTypes DEF ApplyEffect
  <2> QED
    BY <2>1, <2>2, <2>3, <2>4 DEF EffectSound
<1> QED BY <1>1, <1>2

\* ... and meets nothing it cannot convert or order.
LEMMA EffectNeverRaises ==
  ASSUME NEW contract, Sound(contract),
         NEW entry, EntryTyped(contract, entry),
         NEW effect, NEW kind, EffectSound(effect, contract, kind),
         NEW arg, kind = "count" => IsInt(arg)
  PROVE  ~EffectRaises(effect, arg, entry.state, contract.params)
<1>1. ~GuardsRaise(effect.when, entry.state, contract.params)
  BY GuardsNeverRaise DEF EffectSound
<1>2. \A source \in Sources(effect) :
        /\ ~ResolveRaises(source, contract.params)
        /\ effect.op = "add" => Converts(Resolve(source, arg, entry.state, contract.params))
  <2> TAKE source \in Sources(effect)
  <2>1. CASE effect.op = "add"
    <3>1. SourceSound(source, "int", contract, kind)
      BY <2>1 DEF EffectSound, Sources
    <3>2. /\ HasType(Resolve(source, arg, entry.state, contract.params), "int")
          /\ ~ResolveRaises(source, contract.params)
      BY <3>1, ResolveTyped
    <3> QED BY <3>2, IntTyped
  <2>2. CASE effect.op # "add"
    <3>1. effect.op \in {"set", "set_control"} /\ source = effect.value
      BY <2>2 DEF EffectSound, Sources
    <3>2. PICK type : SourceSound(source, type, contract, kind)
      BY <3>1 DEF EffectSound
    <3> QED BY <2>2, <3>2, ResolveTyped
  <2> QED BY <2>1, <2>2
<1>3. effect.op = "add" /\ effect.target \in DOMAIN entry.state
        => Converts(entry.state[effect.target])
  <2> SUFFICES ASSUME effect.op = "add", effect.target \in DOMAIN entry.state
               PROVE  Converts(entry.state[effect.target])
    OBVIOUS
  <2>1. HasType(entry.state[effect.target], "int")
    BY DEF EffectSound, EntryTyped
  <2> QED BY <2>1, IntTyped
<1> QED BY <1>1, <1>2, <1>3 DEF EffectRaises

-----------------------------------------------------------------------------
(* Integrators. *)

\* step_entity: whatever the rate, the new value is an i64, and it raises
\* nothing.
LEMMA IntegrateKeepsTypes ==
  ASSUME NEW contract, Sound(contract),
         NEW entry, EntryTyped(contract, entry),
         NEW integrator, IntegratorSound(integrator, contract)
  PROVE  /\ EntryTyped(contract, Integrate(integrator, entry, contract.params))
         /\ ~IntegrateRaises(integrator, entry, contract.params)
<1> DEFINE state   == entry.state
           rateV   == Resolve(integrator.rate, NoValue, state, contract.params)
           current == ToInt(state[integrator.var])
           target  == IF integrator.toward \in DOMAIN entry.control
                      THEN ToInt(entry.control[integrator.toward]) ELSE current
           rate    == ToInt(rateV)
<1>1. HasType(rateV, "int") /\ ~ResolveRaises(integrator.rate, contract.params)
  BY ResolveTyped DEF IntegratorSound
<1>2. Converts(rateV) /\ rate \in Int
  BY <1>1, IntTyped
<1>3. CASE integrator.var \notin DOMAIN state
  BY <1>3 DEF Integrate, IntegrateRaises
<1>4. CASE integrator.var \in DOMAIN state
  <2>1. HasType(state[integrator.var], "int")
    BY <1>4 DEF IntegratorSound, EntryTyped
  <2>2. Converts(state[integrator.var]) /\ current \in I64
    BY <2>1, IntTyped
  <2>3. target \in I64
    <3>1. CASE integrator.toward \in DOMAIN entry.control
      <4>1. HasType(entry.control[integrator.toward], "int")
        BY <3>1 DEF EntryTyped
      <4> QED BY <3>1, <4>1, IntTyped
    <3>2. CASE integrator.toward \notin DOMAIN entry.control
      BY <2>2, <3>2
    <3> QED BY <3>1, <3>2
  <2>4. HasType(IntV(Integrated(current, target, rate)), "int")
    <3> HIDE DEF current, target, rate
    <3>1. current + rate \in Int /\ current - rate \in Int
      BY <1>2, <2>2, KernelConstants DEF I64
    <3>2. Sat(current + rate) \in I64 /\ Sat(current - rate) \in I64
      BY <3>1, SatInRange
    <3>3. Integrated(current, target, rate) \in I64
      BY <2>3, <3>2 DEF Integrated, Larger, Smaller
    <3> QED BY <3>3 DEF HasType, IsLiteral, IsInt, IntV, TypeOf, Raw
  <2>5. \/ Integrate(integrator, entry, contract.params) = entry
        \/ Integrate(integrator, entry, contract.params) =
             [state   |-> Put(state, integrator.var, IntV(Integrated(current, target, rate))),
              control |-> entry.control]
    BY DEF Integrate
  <2>6. EntryTyped(contract, Integrate(integrator, entry, contract.params))
    <3> HIDE DEF current, target, rate
    <3> QED
      BY <2>4, <2>5, PutKeepsTypes DEF IntegratorSound
  <2>7. ~IntegrateRaises(integrator, entry, contract.params)
    <3>1. integrator.toward \in DOMAIN entry.control
            => Converts(entry.control[integrator.toward])
      BY IntTyped DEF EntryTyped
    <3> QED BY <3>1, <1>1, <1>2, <2>2 DEF IntegrateRaises
  <2> QED BY <2>6, <2>7
<1> QED BY <1>3, <1>4

-----------------------------------------------------------------------------
(* What loads is sound. *)

LEMMA GuardLoads ==
  ASSUME NEW contract, contract.version = "0.2",
         NEW guard, NEW kind, GuardOK(guard, contract, kind), NotNavigation(guard.against)
  PROVE  GuardSound(guard, contract, kind)
  BY DEF GuardOK, GuardSound, SourceSound, Schema

LEMMA EffectLoads ==
  ASSUME NEW contract, contract.version = "0.2",
         NEW effect, NEW kind, EffectOK(effect, contract, kind), EffectAvoidsNavigation(effect)
  PROVE  EffectSound(effect, contract, kind)
<1>1. GuardsSound(effect.when, contract, kind)
  BY GuardLoads DEF EffectOK, GuardsOK, EffectAvoidsNavigation, GuardsAvoidNavigation, GuardsSound
<1>2. CASE effect.op = "add"
  <2>1. effect.value # NoSource
    BY <1>2 DEF EffectOK, ValueOK, NoSource
  <2>2. \A source \in {effect.value, effect.min, effect.max} \ {NoSource} :
          SourceSound(source, "int", contract, kind)
    BY <1>2 DEF EffectOK, EffectAvoidsNavigation, Sources, SourceSound
  <2> QED BY <1>1, <1>2, <2>1, <2>2 DEF EffectOK, EffectSound, Schema
<1>3. CASE effect.op # "add"
  BY <1>1, <1>3 DEF EffectOK, EffectSound, EffectAvoidsNavigation, Sources, SourceSound, Schema
<1> QED BY <1>2, <1>3

\* A 0.1 contract whose schema agrees with the door's variables.
IsDoor(contract) ==
  /\ contract.version = "0.1"
  /\ \A var \in DOMAIN contract.state \cap DOMAIN DoorTypes : contract.state[var] = DoorTypes[var]

LEMMA DoorSchema ==
  ASSUME NEW contract, IsDoor(contract)
  PROVE  /\ \A var \in {"openness", "locked", "health", "destroyed"} : var \in DOMAIN Schema(contract)
         /\ Schema(contract)["openness"] = "int" /\ Schema(contract)["health"] = "int"
         /\ Schema(contract)["locked"] = "bool" /\ Schema(contract)["destroyed"] = "bool"
         /\ DOMAIN contract.state \subseteq DOMAIN Schema(contract)
         /\ \A var \in DOMAIN contract.state : Schema(contract)[var] = contract.state[var]
<1>1. DOMAIN DoorTypes = {"openness", "locked", "health", "destroyed"}
  BY DEF DoorTypes
<1>2. /\ DoorTypes["openness"] = "int" /\ DoorTypes["health"] = "int"
      /\ DoorTypes["locked"] = "bool" /\ DoorTypes["destroyed"] = "bool"
  BY DEF DoorTypes
<1>3. Schema(contract) = [var \in DOMAIN contract.state \cup DOMAIN DoorTypes |->
                            IF var \in DOMAIN DoorTypes THEN DoorTypes[var] ELSE contract.state[var]]
  BY DEF IsDoor, Schema
<1> QED BY <1>1, <1>2, <1>3 DEF IsDoor

\* Literals the door uses.
LEMMA DoorLiterals ==
  /\ \A n \in {0, Quantum, DefaultRate, DefaultMaxHealth} : HasType(IntV(n), "int")
  /\ HasType(BoolV(TRUE), "bool") /\ HasType(BoolV(FALSE), "bool")
<1>1. \A n \in {0, Quantum, DefaultRate, DefaultMaxHealth} : n \in I64
  BY KernelConstants DEF I64
<1> QED BY <1>1, BoolTyped DEF HasType, IsLiteral, IsInt, IntV, TypeOf, Raw

LEMMA ConstSound ==
  ASSUME NEW contract, NEW kind, NEW type, NEW v, HasType(v, type)
  PROVE  SourceSound(Const(v), type, contract, kind)
  BY DEF SourceSound, ValueOK, NotNavigation, Const, HasType

LEMMA DefaultSound ==
  ASSUME NEW contract, NEW kind, NEW name, name # "navigation", NEW v, HasType(v, "int")
  PROVE  SourceSound(ParamSource(name, v), "int", contract, kind)
<1>1. v # NoValue
  BY DEF NoValue, HasType, TypeOf
<1> QED BY <1>1 DEF SourceSound, ValueOK, NotNavigation, ParamSource, HasType

\* The guards and effects DOOR_PROFILE is made of.
LEMMA DoorGuards ==
  ASSUME NEW contract, IsDoor(contract), NEW kind
  PROVE  /\ GuardSound(IsFalse("destroyed"), contract, kind)
         /\ GuardSound(IsFalse("locked"), contract, kind)
         /\ GuardsSound(Broken, contract, kind) /\ GuardsSound(Revived, contract, kind)
         /\ GuardsSound(<<>>, contract, kind)
<1>1. /\ GuardSound(Guard("health", "equals", Const(IntV(0))), contract, kind)
      /\ GuardSound(Guard("health", "gt", Const(IntV(0))), contract, kind)
  BY DoorSchema, DoorLiterals, ConstSound DEF GuardSound, Guard
<1>2. GuardSound(Exists("destroyed"), contract, kind)
  BY DoorSchema DEF GuardSound, Exists, Guard
<1>3. GuardSound(IsFalse("destroyed"), contract, kind) /\ GuardSound(IsFalse("locked"), contract, kind)
  BY DoorSchema, DoorLiterals, ConstSound DEF GuardSound, IsFalse, Guard
<1>4. GuardsSound(Broken, contract, kind) /\ GuardsSound(Revived, contract, kind)
  BY <1>1, <1>2 DEF GuardsSound, Broken, Revived
<1>5. GuardsSound(<<>>, contract, kind)
  BY DEF GuardsSound
<1> QED BY <1>3, <1>4, <1>5

LEMMA DoorEffects ==
  ASSUME NEW contract, IsDoor(contract), NEW kind,
         NEW when, GuardsSound(when, contract, kind)
  PROVE  /\ EffectSound(Aim(Quantum, when), contract, kind)
         /\ EffectSound(Aim(0, when), contract, kind)
         /\ \A b \in BOOLEAN : /\ EffectSound(SetBool("locked", b, when), contract, kind)
                              /\ EffectSound(SetBool("destroyed", b, when), contract, kind)
<1>1. SourceSound(Const(IntV(Quantum)), "int", contract, kind)
  BY DoorLiterals, ConstSound
<1>2. SourceSound(Const(IntV(0)), "int", contract, kind)
  BY DoorLiterals, ConstSound
<1>3. EffectSound(Aim(Quantum, when), contract, kind) /\ EffectSound(Aim(0, when), contract, kind)
  BY <1>1, <1>2 DEF EffectSound, Aim, Effect
<1>4. ASSUME NEW b \in BOOLEAN
      PROVE  /\ EffectSound(SetBool("locked", b, when), contract, kind)
             /\ EffectSound(SetBool("destroyed", b, when), contract, kind)
  <2>1. SourceSound(Const(BoolV(b)), "bool", contract, kind)
    BY BoolTyped, ConstSound
  <2> QED BY <2>1, DoorSchema DEF EffectSound, SetBool, Effect
<1> QED BY <1>3, <1>4

LEMMA DoorAdds ==
  ASSUME NEW contract, IsDoor(contract)
  PROVE  EffectSound(Damage, contract, "count") /\ EffectSound(Mend, contract, "count")
<1>1. GuardsSound(<<>>, contract, "count")
  BY DoorGuards
<1>2. SourceSound(ArgSource, "int", contract, "count") /\ ArgSource # NoSource
  BY DEF SourceSound, ValueOK, NotNavigation, ArgSource, NoSource
<1>3. SourceSound(Const(IntV(0)), "int", contract, "count")
  BY DoorLiterals, ConstSound
<1>4. SourceSound(ParamSource("max_health", IntV(DefaultMaxHealth)), "int", contract, "count")
  BY DoorLiterals, DefaultSound
<1>5. /\ Damage.op = "add" /\ Damage.target = "health" /\ Damage.when = <<>> /\ Damage.sign = -1
      /\ Damage.value = ArgSource /\ Damage.min = Const(IntV(0)) /\ Damage.max = NoSource
  BY DEF Damage, Effect
<1>6. /\ Mend.op = "add" /\ Mend.target = "health" /\ Mend.when = <<>> /\ Mend.sign = 1
      /\ Mend.value = ArgSource /\ Mend.min = NoSource
      /\ Mend.max = ParamSource("max_health", IntV(DefaultMaxHealth))
  BY DEF Mend, Effect
<1>7. EffectSound(Damage, contract, "count")
  BY <1>1, <1>2, <1>3, <1>5, DoorSchema DEF EffectSound
<1>8. EffectSound(Mend, contract, "count")
  BY <1>1, <1>2, <1>4, <1>6, DoorSchema DEF EffectSound
<1> QED BY <1>7, <1>8

\* A verb is sound when its guards and its one, two or three effects are.
LEMMA VerbSound ==
  ASSUME NEW contract, NEW kind \in {"none", "count"}, NEW requires,
         NEW guards, GuardsSound(guards, contract, kind),
         NEW e1, EffectSound(e1, contract, kind),
         NEW e2, EffectSound(e2, contract, kind),
         NEW e3, EffectSound(e3, contract, kind)
  PROVE  /\ SpecSound(Verb(kind, requires, guards, <<e1>>), contract)
         /\ SpecSound(Verb(kind, requires, guards, <<e1, e2>>), contract)
         /\ SpecSound(Verb(kind, requires, guards, <<e1, e2, e3>>), contract)
<1>1. ASSUME NEW effects, Len(effects) \in Nat,
             \A i \in 1 .. Len(effects) : EffectSound(effects[i], contract, kind)
      PROVE  SpecSound(Verb(kind, requires, guards, effects), contract)
  BY <1>1 DEF SpecSound, Verb
<1>2. SpecSound(Verb(kind, requires, guards, <<e1>>), contract)
  <2>1. Len(<<e1>>) = 1 /\ <<e1>>[1] = e1
    OBVIOUS
  <2>2. \A i \in 1 .. Len(<<e1>>) : EffectSound(<<e1>>[i], contract, kind)
    BY <2>1
  <2>3. Len(<<e1>>) \in Nat
    BY <2>1
  <2> QED BY <1>1, <2>2, <2>3, Zenon
<1>3. SpecSound(Verb(kind, requires, guards, <<e1, e2>>), contract)
  <2>1. Len(<<e1, e2>>) = 2 /\ <<e1, e2>>[1] = e1 /\ <<e1, e2>>[2] = e2
    OBVIOUS
  <2>2. \A i \in 1 .. Len(<<e1, e2>>) : EffectSound(<<e1, e2>>[i], contract, kind)
    BY <2>1
  <2>3. Len(<<e1, e2>>) \in Nat
    BY <2>1
  <2> QED BY <1>1, <2>2, <2>3, Zenon
<1>4. SpecSound(Verb(kind, requires, guards, <<e1, e2, e3>>), contract)
  <2>1. /\ Len(<<e1, e2, e3>>) = 3
        /\ <<e1, e2, e3>>[1] = e1 /\ <<e1, e2, e3>>[2] = e2 /\ <<e1, e2, e3>>[3] = e3
    OBVIOUS
  <2>2. \A i \in 1 .. Len(<<e1, e2, e3>>) : EffectSound(<<e1, e2, e3>>[i], contract, kind)
    BY <2>1
  <2>3. Len(<<e1, e2, e3>>) \in Nat
    BY <2>1
  <2> QED BY <1>1, <2>2, <2>3, Zenon
<1> QED BY <1>2, <1>3, <1>4

LEMMA DoorVerbs ==
  ASSUME NEW contract, IsDoor(contract)
  PROVE  \A verb \in DOMAIN DoorAffordances : SpecSound(DoorAffordances[verb], contract)
<1>1. SpecSound(Verb("none", {}, <<IsFalse("destroyed"), IsFalse("locked")>>,
                     <<Aim(Quantum, <<>>)>>), contract)
  <2>1. GuardsSound(<<IsFalse("destroyed"), IsFalse("locked")>>, contract, "none")
    BY DoorGuards DEF GuardsSound
  <2>2. EffectSound(Aim(Quantum, <<>>), contract, "none")
    BY DoorGuards, DoorEffects
  <2> QED BY <2>1, <2>2, VerbSound, Zenon
<1>2. SpecSound(Verb("none", {}, <<IsFalse("destroyed")>>, <<Aim(0, <<>>)>>), contract)
  <2>1. GuardsSound(<<IsFalse("destroyed")>>, contract, "none")
    BY DoorGuards DEF GuardsSound
  <2>2. EffectSound(Aim(0, <<>>), contract, "none")
    BY DoorGuards, DoorEffects
  <2> QED BY <2>1, <2>2, VerbSound, Zenon
<1>3. /\ SpecSound(Verb("none", {}, <<>>, <<SetBool("locked", TRUE, <<>>)>>), contract)
      /\ SpecSound(Verb("none", {}, <<>>, <<SetBool("locked", FALSE, <<>>)>>), contract)
  <2>1. GuardsSound(<<>>, contract, "none")
    BY DoorGuards
  <2>2. /\ EffectSound(SetBool("locked", TRUE, <<>>), contract, "none")
        /\ EffectSound(SetBool("locked", FALSE, <<>>), contract, "none")
    BY <2>1, DoorEffects
  <2> QED BY <2>1, <2>2, VerbSound, Zenon
<1>4. SpecSound(Verb("count", {"health"}, <<>>,
                     <<Damage, SetBool("destroyed", TRUE, Broken), Aim(Quantum, Broken)>>), contract)
  <2>1. GuardsSound(<<>>, contract, "count") /\ EffectSound(Damage, contract, "count")
    BY DoorGuards, DoorAdds
  <2>2. /\ EffectSound(SetBool("destroyed", TRUE, Broken), contract, "count")
        /\ EffectSound(Aim(Quantum, Broken), contract, "count")
    BY DoorGuards, DoorEffects
  <2> QED BY <2>1, <2>2, VerbSound, Zenon
<1>5. SpecSound(Verb("count", {"health"}, <<>>,
                     <<Mend, SetBool("destroyed", FALSE, Revived)>>), contract)
  <2>1. GuardsSound(<<>>, contract, "count") /\ EffectSound(Mend, contract, "count")
    BY DoorGuards, DoorAdds
  <2>2. EffectSound(SetBool("destroyed", FALSE, Revived), contract, "count")
    BY DoorGuards, DoorEffects
  <2> QED BY <2>1, <2>2, VerbSound, Zenon
<1> QED BY <1>1, <1>2, <1>3, <1>4, <1>5 DEF DoorAffordances, CloseGuards

\* The validator's typing, and Covered, make a contract sound.
LEMMA LoadsSound ==
  ASSUME NEW contract, ContractOK(contract), Covered(contract), ContractLists(contract)
  PROVE  Sound(contract)
<1>1. \A name \in IntParams(contract) : IsInt(contract.params[name])
  BY DEF ContractOK, HasType, IsLiteral, IsInt
<1>2. CASE contract.version = "0.2"
  <2>1. Schema(contract) = contract.state /\ Semantics(contract) = contract.declared
    BY <1>2 DEF Schema, Semantics
  <2>2. SemanticsOK(contract)
    BY <1>2 DEF ContractOK
  <2>3. ASSUME NEW verb \in DeclaredVerbs(contract)
        PROVE  SpecSound(SpecOf(contract, verb), contract)
    <3> DEFINE spec == SpecOf(contract, verb)
    <3>1. verb \in DOMAIN contract.declared.affordances
          /\ spec = contract.declared.affordances[verb]
      BY <2>1, <2>3 DEF DeclaredVerbs, SpecOf
    <3>2. AffordanceOK(spec, contract)
      BY <2>2, <3>1 DEF SemanticsOK
    <3>3. HasLists(spec)
      BY <1>2, <3>1 DEF ContractLists
    <3>4. /\ GuardsAvoidNavigation(spec.guards)
          /\ \A i \in 1 .. Len(spec.effects) : EffectAvoidsNavigation(spec.effects[i])
      BY <2>3 DEF Covered
    <3> HIDE DEF spec
    <3>5. GuardsSound(spec.guards, contract, spec.arg)
      BY <1>2, <3>2, <3>4, GuardLoads
      DEF AffordanceOK, GuardsOK, GuardsAvoidNavigation, GuardsSound
    <3>6. \A i \in 1 .. Len(spec.effects) : EffectSound(spec.effects[i], contract, spec.arg)
      BY <1>2, <3>2, <3>4, EffectLoads DEF AffordanceOK
    <3>7. SpecSound(spec, contract)
      BY <3>2, <3>3, <3>5, <3>6 DEF AffordanceOK, HasLists, SpecSound
    <3> QED BY <3>7 DEF spec
  <2>4. Len(Semantics(contract).integrators) \in Nat
    BY <1>2, <2>1 DEF ContractLists
  <2>5. \A i \in 1 .. Len(Semantics(contract).integrators) :
          IntegratorSound(Semantics(contract).integrators[i], contract)
    BY <2>1, <2>2 DEF SemanticsOK, IntegratorOK, IntegratorSound, SourceSound, Covered
  <2>6. \A var \in DOMAIN Schema(contract) : Schema(contract)[var] \in Types
    BY <2>1 DEF ContractOK
  <2> QED BY <1>1, <2>1, <2>3, <2>4, <2>5, <2>6 DEF Sound, Covered, Types
<1>3. CASE contract.version = "0.1"
  <2>1. IsDoor(contract)
    BY <1>3 DEF IsDoor, Covered
  <2>2. /\ Semantics(contract).affordances =
             [v \in DOMAIN DoorAffordances \cap contract.affordances |-> DoorAffordances[v]]
        /\ Semantics(contract).integrators = DoorIntegrators
    BY <1>3 DEF Semantics
  <2>3. ASSUME NEW verb \in DeclaredVerbs(contract)
        PROVE  SpecSound(SpecOf(contract, verb), contract)
    <3>1. verb \in DOMAIN DoorAffordances /\ SpecOf(contract, verb) = DoorAffordances[verb]
      BY <2>2, <2>3 DEF DeclaredVerbs, SpecOf
    <3> QED BY <2>1, <3>1, DoorVerbs
  <2>4. SourceSound(ParamSource("open_rate_milli", IntV(DefaultRate)), "int", contract, "none")
    BY DoorLiterals, DefaultSound
  <2>5. /\ Len(DoorIntegrators) = 1 /\ DoorIntegrators[1].var = "openness"
        /\ DoorIntegrators[1].rate = ParamSource("open_rate_milli", IntV(DefaultRate))
    BY DEF DoorIntegrators
  <2>6. \A i \in 1 .. Len(DoorIntegrators) : IntegratorSound(DoorIntegrators[i], contract)
    BY <2>1, <2>4, <2>5, DoorSchema DEF IntegratorSound
  <2>7. Len(Semantics(contract).integrators) \in Nat
    BY <2>2, <2>5
  <2>8. /\ DOMAIN contract.state \subseteq DOMAIN Schema(contract)
        /\ \A var \in DOMAIN contract.state : Schema(contract)[var] = contract.state[var]
    BY <2>1, DoorSchema
  <2>9. \A var \in DOMAIN Schema(contract) : Schema(contract)[var] \in Types
    BY <1>3 DEF ContractOK, Schema, DoorTypes, Types
  <2> QED BY <1>1, <2>2, <2>3, <2>6, <2>7, <2>8, <2>9 DEF Sound, Covered, Types
<1> QED BY <1>2, <1>3 DEF ContractOK

\* The two verbs of the door that add do so first.
LEMMA DoorAddsFirst ==
  \A verb \in {"attack", "repair"} :
    LET effects == DoorAffordances[verb].effects
    IN 1 \in 1 .. Len(effects) /\ effects[1].op = "add"
<1>1. Damage.op = "add" /\ Mend.op = "add"
  BY DEF Damage, Mend, Effect
<1>2. DoorAffordances["attack"] =
        Verb("count", {"health"}, <<>>,
             <<Damage, SetBool("destroyed", TRUE, Broken), Aim(Quantum, Broken)>>)
  BY DEF DoorAffordances
<1>3. DoorAffordances["repair"] =
        Verb("count", {"health"}, <<>>, <<Mend, SetBool("destroyed", FALSE, Revived)>>)
  BY DEF DoorAffordances
<1>4. ASSUME NEW spec, NEW e1, NEW e2, NEW e3,
             \/ spec = Verb("count", {"health"}, <<>>, <<e1, e2>>)
             \/ spec = Verb("count", {"health"}, <<>>, <<e1, e2, e3>>)
      PROVE  1 \in 1 .. Len(spec.effects) /\ spec.effects[1] = e1
  <2>1. PICK effects : /\ effects = <<e1, e2>> \/ effects = <<e1, e2, e3>>
                       /\ spec = Verb("count", {"health"}, <<>>, effects)
    BY <1>4
  <2>2. Len(effects) \in Nat \ {0} /\ effects[1] = e1
    BY <2>1
  <2>3. spec.effects = effects
    BY <2>1 DEF Verb
  <2> QED BY <2>2, <2>3
<1>6. /\ 1 \in 1 .. Len(DoorAffordances["attack"].effects)
      /\ DoorAffordances["attack"].effects[1] = Damage
  BY <1>2, <1>4, ZenonT(30), SMT
<1>7. /\ 1 \in 1 .. Len(DoorAffordances["repair"].effects)
      /\ DoorAffordances["repair"].effects[1] = Mend
  BY <1>3, <1>4, Zenon
<1> QED BY <1>1, <1>6, <1>7

\* What validate_wires lets a wire deliver, apply_event never refuses: the
\* verb exists, its argument fits, what it requires is declared.
LEMMA WireVerbDelivers ==
  ASSUME NEW contracts, NEW a, ActOK(a, contracts),
         ContractOK(contracts[a.entity]), Sound(contracts[a.entity]),
         NEW entry, EntryTyped(contracts[a.entity], entry)
  PROVE  DeliveryError(contracts[a.entity], entry.state, a.verb, a.arg) = "none"
<1> DEFINE contract == contracts[a.entity]
           spec     == SpecOf(contract, a.verb)
<1>1. a.verb \in contract.affordances /\ a.verb \in DeclaredVerbs(contract)
  BY DEF ActOK, DeclaredVerbs
<1>2. /\ \A i \in 1 .. Len(spec.effects) : spec.effects[i].op \in LevelSafeOps
      /\ spec.arg = "none" => a.arg = NoValue
      /\ spec.arg = "count" => TypeOf(a.arg) = "int" /\ Raw(a.arg) \in 0 .. MaxEventArg
  BY DEF ActOK, SpecOf
<1>3. SpecSound(spec, contract)
  BY <1>1 DEF Sound
<1>4. ArgumentError(spec.arg, a.arg) = "none"
  BY <1>2, <1>3 DEF ArgumentError
<1>5. ~GuardsRaise(spec.guards, entry.state, contract.params)
  BY <1>3, GuardsNeverRaise DEF SpecSound
<1>6. spec.requires \subseteq DOMAIN entry.state
  <2>1. CASE contract.version = "0.2"
    <3>1. AffordanceOK(spec, contract)
      BY <1>1, <2>1 DEF ContractOK, SemanticsOK, SpecOf, DeclaredVerbs, Semantics
    <3> QED BY <3>1 DEF AffordanceOK, EntryTyped
  <2>2. CASE contract.version = "0.1"
    <3>1. a.verb \in DOMAIN DoorAffordances /\ spec = DoorAffordances[a.verb]
      BY <1>1, <2>2 DEF DeclaredVerbs, SpecOf, Semantics
    <3>2. 1 \in 1 .. Len(spec.effects) => spec.effects[1].op \in LevelSafeOps
      BY <1>2
    <3>3. a.verb # "attack"
      BY <3>1, <3>2, DoorAddsFirst DEF LevelSafeOps
    <3>4. a.verb # "repair"
      BY <3>1, <3>2, DoorAddsFirst DEF LevelSafeOps
    <3>5. spec.requires = {}
      BY <3>1, <3>3, <3>4 DEF DoorAffordances, Verb
    <3> QED BY <3>5
  <2> QED BY <2>1, <2>2 DEF ContractOK
<1> HIDE DEF contract
<1>7. SpecOf(contract, a.verb) = spec
  OBVIOUS
<1>8. DeliveryError(contract, entry.state, a.verb, a.arg) = "none"
  <2> HIDE DEF spec
  <2> QED BY <1>1, <1>4, <1>5, <1>6, <1>7 DEF DeliveryError
<1> QED BY <1>8 DEF contract

\* The initial world is typed (initial_state).
LEMMA InitialTyped ==
  ASSUME NEW contract, ContractOK(contract), Sound(contract),
         NEW given, \A var \in DOMAIN given \cap DOMAIN contract.state :
                      HasType(given[var], contract.state[var])
  PROVE  EntryTyped(contract, [state |-> InitialState(contract, given), control |-> <<>>])
<1>1. ASSUME NEW type \in Types PROVE HasType(Zero(type), type)
  <2>1. /\ HasType(IntV(0), "int") /\ HasType(BoolV(FALSE), "bool") /\ HasType(StrV(""), "string")
    BY DoorLiterals DEF HasType, IsLiteral, IsInt, StrV, TypeOf, Raw
  <2> QED BY <2>1 DEF Types, Zero
<1> QED BY <1>1 DEF ContractOK, EntryTyped, InitialState, Sound

-----------------------------------------------------------------------------
(* The loops of a tick are recursive functions over an interval, and so    *)
(* have the passes they are defined by.                                    *)

\* The effects of a delivery (apply_event).
LEMMA AffectedPasses ==
  ASSUME NEW outcome, NEW effects, Len(effects) \in Nat, NEW entity, NEW arg, NEW params
  PROVE  /\ Affected(outcome, effects, entity, arg, params, 0) = outcome
         /\ \A n \in 1 .. Len(effects) :
              Affected(outcome, effects, entity, arg, params, n)
                = AfterEffect(Affected(outcome, effects, entity, arg, params, n - 1),
                                    effects[n], entity, arg, params)
<1> DEFINE Pass(x, i) == AfterEffect(x, effects[i], entity, arg, params)
           Runs(f, n) == f = [i \in 0 .. n |-> IF i = 0 THEN outcome ELSE Pass(f[i - 1], i)]
           S == {n \in Nat : \E f : Runs(f, n)}
           after == CHOOSE f : Runs(f, Len(effects))
<1>1. \A n \in 0 .. Len(effects) : Affected(outcome, effects, entity, arg, params, n) = after[n]
  BY DEF Affected, Looped
<1> HIDE DEF Pass
<1>2. 0 \in S
  <2> DEFINE f == [i \in 0 .. 0 |-> outcome]
  <2>1. Runs(f, 0)
    OBVIOUS
  <2> QED BY <2>1
<1>3. ASSUME NEW n \in Nat, n \in S PROVE n + 1 \in S
  <2>1. PICK f : Runs(f, n)
    BY <1>3
  <2> DEFINE h == [i \in 0 .. n + 1 |-> IF i = n + 1 THEN Pass(f[n], i) ELSE f[i]]
  <2>2. \A i \in 0 .. n + 1 : h[i] = IF i = 0 THEN outcome ELSE Pass(h[i - 1], i)
    BY <2>1
  <2>3. Runs(h, n + 1)
    BY <2>2
  <2> HIDE DEF h
  <2> QED BY <2>3
<1>4. Runs(after, Len(effects))
  <2>1. Len(effects) \in S
    <3> HIDE DEF S
    <3> QED BY <1>2, <1>3, SetInduction
  <2> QED BY <2>1
<1> HIDE DEF after
<1> DEFINE N == Len(effects)
<1>5. N \in Nat
  OBVIOUS
<1>6. after = [i \in 0 .. N |-> IF i = 0 THEN outcome ELSE Pass(after[i - 1], i)]
  BY <1>4
<1> HIDE DEF N
<1>7. after[0] = outcome /\ \A n \in 1 .. N : after[n] = Pass(after[n - 1], n)
  BY <1>5, <1>6
<1>8. \A n \in 1 .. N : n \in 0 .. N /\ n - 1 \in 0 .. N
  BY <1>5
<1>9. 0 \in 0 .. N
  BY <1>5
<1> HIDE DEF Runs
<1> QED BY <1>1, <1>7, <1>8, <1>9 DEF Pass, N

\* The events of a tick (run_replay).
LEMMA ToldPasses ==
  ASSUME NEW contracts, NEW events, Len(events) \in Nat, NEW tick, NEW outcome
  PROVE  /\ Told(contracts, events, tick, outcome, 0) = outcome
         /\ \A n \in 1 .. Len(events) :
              Told(contracts, events, tick, outcome, n)
                = AfterEventOf(contracts, tick,
                                     Told(contracts, events, tick, outcome, n - 1), events[n])
<1> DEFINE Pass(x, i) == AfterEventOf(contracts, tick, x, events[i])
           Runs(f, n) == f = [i \in 0 .. n |-> IF i = 0 THEN outcome ELSE Pass(f[i - 1], i)]
           S == {n \in Nat : \E f : Runs(f, n)}
           after == CHOOSE f : Runs(f, Len(events))
<1>1. \A n \in 0 .. Len(events) : Told(contracts, events, tick, outcome, n) = after[n]
  BY DEF Told, Looped
<1> HIDE DEF Pass
<1>2. 0 \in S
  <2> DEFINE f == [i \in 0 .. 0 |-> outcome]
  <2>1. Runs(f, 0)
    OBVIOUS
  <2> QED BY <2>1
<1>3. ASSUME NEW n \in Nat, n \in S PROVE n + 1 \in S
  <2>1. PICK f : Runs(f, n)
    BY <1>3
  <2> DEFINE h == [i \in 0 .. n + 1 |-> IF i = n + 1 THEN Pass(f[n], i) ELSE f[i]]
  <2>2. \A i \in 0 .. n + 1 : h[i] = IF i = 0 THEN outcome ELSE Pass(h[i - 1], i)
    BY <2>1
  <2>3. Runs(h, n + 1)
    BY <2>2
  <2> HIDE DEF h
  <2> QED BY <2>3
<1>4. Runs(after, Len(events))
  <2>1. Len(events) \in S
    <3> HIDE DEF S
    <3> QED BY <1>2, <1>3, SetInduction
  <2> QED BY <2>1
<1> HIDE DEF after
<1> DEFINE N == Len(events)
<1>5. N \in Nat
  OBVIOUS
<1>6. after = [i \in 0 .. N |-> IF i = 0 THEN outcome ELSE Pass(after[i - 1], i)]
  BY <1>4
<1> HIDE DEF N
<1>7. after[0] = outcome /\ \A n \in 1 .. N : after[n] = Pass(after[n - 1], n)
  BY <1>5, <1>6
<1>8. \A n \in 1 .. N : n \in 0 .. N /\ n - 1 \in 0 .. N
  BY <1>5
<1>9. 0 \in 0 .. N
  BY <1>5
<1> HIDE DEF Runs
<1> QED BY <1>1, <1>7, <1>8, <1>9 DEF Pass, N

\* The verbs of a wire (apply_wires).
LEMMA ActedPasses ==
  ASSUME NEW contracts, NEW acts, Len(acts) \in Nat, NEW outcome
  PROVE  /\ Acted(contracts, acts, outcome, 0) = outcome
         /\ \A n \in 1 .. Len(acts) :
              Acted(contracts, acts, outcome, n)
                = DeliverTo(contracts, Acted(contracts, acts, outcome, n - 1),
                                  acts[n].entity, acts[n].verb, acts[n].arg)
<1> DEFINE Pass(x, i) == DeliverTo(contracts, x, acts[i].entity, acts[i].verb, acts[i].arg)
           Runs(f, n) == f = [i \in 0 .. n |-> IF i = 0 THEN outcome ELSE Pass(f[i - 1], i)]
           S == {n \in Nat : \E f : Runs(f, n)}
           after == CHOOSE f : Runs(f, Len(acts))
<1>1. \A n \in 0 .. Len(acts) : Acted(contracts, acts, outcome, n) = after[n]
  BY DEF Acted, Looped
<1> HIDE DEF Pass
<1>2. 0 \in S
  <2> DEFINE f == [i \in 0 .. 0 |-> outcome]
  <2>1. Runs(f, 0)
    OBVIOUS
  <2> QED BY <2>1
<1>3. ASSUME NEW n \in Nat, n \in S PROVE n + 1 \in S
  <2>1. PICK f : Runs(f, n)
    BY <1>3
  <2> DEFINE h == [i \in 0 .. n + 1 |-> IF i = n + 1 THEN Pass(f[n], i) ELSE f[i]]
  <2>2. \A i \in 0 .. n + 1 : h[i] = IF i = 0 THEN outcome ELSE Pass(h[i - 1], i)
    BY <2>1
  <2>3. Runs(h, n + 1)
    BY <2>2
  <2> HIDE DEF h
  <2> QED BY <2>3
<1>4. Runs(after, Len(acts))
  <2>1. Len(acts) \in S
    <3> HIDE DEF S
    <3> QED BY <1>2, <1>3, SetInduction
  <2> QED BY <2>1
<1> HIDE DEF after
<1> DEFINE N == Len(acts)
<1>5. N \in Nat
  OBVIOUS
<1>6. after = [i \in 0 .. N |-> IF i = 0 THEN outcome ELSE Pass(after[i - 1], i)]
  BY <1>4
<1> HIDE DEF N
<1>7. after[0] = outcome /\ \A n \in 1 .. N : after[n] = Pass(after[n - 1], n)
  BY <1>5, <1>6
<1>8. \A n \in 1 .. N : n \in 0 .. N /\ n - 1 \in 0 .. N
  BY <1>5
<1>9. 0 \in 0 .. N
  BY <1>5
<1> HIDE DEF Runs
<1> QED BY <1>1, <1>7, <1>8, <1>9 DEF Pass, N

\* The wires (apply_wires).
LEMMA CoupledPasses ==
  ASSUME NEW contracts, NEW wires, Len(wires) \in Nat, NEW outcome
  PROVE  /\ Coupled(contracts, wires, outcome, 0) = outcome
         /\ \A n \in 1 .. Len(wires) :
              Coupled(contracts, wires, outcome, n)
                = AfterWire(contracts, Coupled(contracts, wires, outcome, n - 1), wires[n])
<1> DEFINE Pass(x, i) == AfterWire(contracts, x, wires[i])
           Runs(f, n) == f = [i \in 0 .. n |-> IF i = 0 THEN outcome ELSE Pass(f[i - 1], i)]
           S == {n \in Nat : \E f : Runs(f, n)}
           after == CHOOSE f : Runs(f, Len(wires))
<1>1. \A n \in 0 .. Len(wires) : Coupled(contracts, wires, outcome, n) = after[n]
  BY DEF Coupled, Looped
<1> HIDE DEF Pass
<1>2. 0 \in S
  <2> DEFINE f == [i \in 0 .. 0 |-> outcome]
  <2>1. Runs(f, 0)
    OBVIOUS
  <2> QED BY <2>1
<1>3. ASSUME NEW n \in Nat, n \in S PROVE n + 1 \in S
  <2>1. PICK f : Runs(f, n)
    BY <1>3
  <2> DEFINE h == [i \in 0 .. n + 1 |-> IF i = n + 1 THEN Pass(f[n], i) ELSE f[i]]
  <2>2. \A i \in 0 .. n + 1 : h[i] = IF i = 0 THEN outcome ELSE Pass(h[i - 1], i)
    BY <2>1
  <2>3. Runs(h, n + 1)
    BY <2>2
  <2> HIDE DEF h
  <2> QED BY <2>3
<1>4. Runs(after, Len(wires))
  <2>1. Len(wires) \in S
    <3> HIDE DEF S
    <3> QED BY <1>2, <1>3, SetInduction
  <2> QED BY <2>1
<1> HIDE DEF after
<1> DEFINE N == Len(wires)
<1>5. N \in Nat
  OBVIOUS
<1>6. after = [i \in 0 .. N |-> IF i = 0 THEN outcome ELSE Pass(after[i - 1], i)]
  BY <1>4
<1> HIDE DEF N
<1>7. after[0] = outcome /\ \A n \in 1 .. N : after[n] = Pass(after[n - 1], n)
  BY <1>5, <1>6
<1>8. \A n \in 1 .. N : n \in 0 .. N /\ n - 1 \in 0 .. N
  BY <1>5
<1>9. 0 \in 0 .. N
  BY <1>5
<1> HIDE DEF Runs
<1> QED BY <1>1, <1>7, <1>8, <1>9 DEF Pass, N

\* The integrators of an entity (step_entity).
LEMMA SteppedPasses ==
  ASSUME NEW contract, Len(Semantics(contract).integrators) \in Nat, NEW entry
  PROVE  /\ Stepped(contract, entry, 0) = entry
         /\ \A n \in 1 .. Len(Semantics(contract).integrators) :
              Stepped(contract, entry, n)
                = Integrate(Semantics(contract).integrators[n],
                            Stepped(contract, entry, n - 1), contract.params)
<1> DEFINE Pass(x, i) == Integrate(Semantics(contract).integrators[i], x, contract.params)
           Runs(f, n) == f = [i \in 0 .. n |-> IF i = 0 THEN entry ELSE Pass(f[i - 1], i)]
           S == {n \in Nat : \E f : Runs(f, n)}
           after == CHOOSE f : Runs(f, Len(Semantics(contract).integrators))
<1>1. \A n \in 0 .. Len(Semantics(contract).integrators) : Stepped(contract, entry, n) = after[n]
  BY DEF Stepped, Looped
<1> HIDE DEF Pass
<1>2. 0 \in S
  <2> DEFINE f == [i \in 0 .. 0 |-> entry]
  <2>1. Runs(f, 0)
    OBVIOUS
  <2> QED BY <2>1
<1>3. ASSUME NEW n \in Nat, n \in S PROVE n + 1 \in S
  <2>1. PICK f : Runs(f, n)
    BY <1>3
  <2> DEFINE h == [i \in 0 .. n + 1 |-> IF i = n + 1 THEN Pass(f[n], i) ELSE f[i]]
  <2>2. \A i \in 0 .. n + 1 : h[i] = IF i = 0 THEN entry ELSE Pass(h[i - 1], i)
    BY <2>1
  <2>3. Runs(h, n + 1)
    BY <2>2
  <2> HIDE DEF h
  <2> QED BY <2>3
<1>4. Runs(after, Len(Semantics(contract).integrators))
  <2>1. Len(Semantics(contract).integrators) \in S
    <3> HIDE DEF S
    <3> QED BY <1>2, <1>3, SetInduction
  <2> QED BY <2>1
<1> HIDE DEF after
<1> DEFINE N == Len(Semantics(contract).integrators)
<1>5. N \in Nat
  OBVIOUS
<1>6. after = [i \in 0 .. N |-> IF i = 0 THEN entry ELSE Pass(after[i - 1], i)]
  BY <1>4
<1> HIDE DEF N
<1>7. after[0] = entry /\ \A n \in 1 .. N : after[n] = Pass(after[n - 1], n)
  BY <1>5, <1>6
<1>8. \A n \in 1 .. N : n \in 0 .. N /\ n - 1 \in 0 .. N
  BY <1>5
<1>9. 0 \in 0 .. N
  BY <1>5
<1> HIDE DEF Runs
<1> QED BY <1>1, <1>7, <1>8, <1>9 DEF Pass, N

-----------------------------------------------------------------------------
(* An error ends the work: the passes after it change nothing.             *)

\* Effects after one that raised.
LEMMA AffectedFails ==
  ASSUME NEW outcome, NEW effects, Len(effects) \in Nat, NEW entity, NEW arg, NEW params,
         NEW k \in 0 .. Len(effects), Affected(outcome, effects, entity, arg, params, k).error # "none"
  PROVE  Affected(outcome, effects, entity, arg, params, Len(effects))
           = Affected(outcome, effects, entity, arg, params, k)
<1> DEFINE N == Len(effects)
           f == [n \in 0 .. N |-> Affected(outcome, effects, entity, arg, params, n)]
<1>1. N \in Nat /\ k \in Nat /\ k <= N
  OBVIOUS
<1>2. \A n \in 1 .. N : f[n] = AfterEffect(f[n - 1], effects[n], entity, arg, params)
  BY AffectedPasses
<1>3. f[k].error # "none" /\ f[N] = Affected(outcome, effects, entity, arg, params, N)
      /\ f[k] = Affected(outcome, effects, entity, arg, params, k)
  OBVIOUS
<1> HIDE DEF f, N
<1>4. \A n \in k .. N - 1 : f[n] = f[k] => f[n + 1] = f[n]
  <2> TAKE n \in k .. N - 1
  <2>1. n + 1 \in 1 .. N /\ (n + 1) - 1 = n
    BY <1>1
  <2>2. f[n + 1] = AfterEffect(f[n], effects[n + 1], entity, arg, params)
    BY <1>2, <2>1
  <2> QED BY <1>3, <2>2 DEF AfterEffect
<1>5. \A n \in k .. N : f[n] = f[k]
  BY <1>1, <1>4, Stays
<1>6. f[N] = f[k]
  BY <1>1, <1>5
<1> QED BY <1>3, <1>6 DEF N

\* Events after one that failed.
LEMMA ToldFails ==
  ASSUME NEW contracts, NEW events, Len(events) \in Nat, NEW tick, NEW outcome,
         NEW k \in 0 .. Len(events), Told(contracts, events, tick, outcome, k).error # "none"
  PROVE  Told(contracts, events, tick, outcome, Len(events)) = Told(contracts, events, tick, outcome, k)
<1> DEFINE N == Len(events)
           f == [n \in 0 .. N |-> Told(contracts, events, tick, outcome, n)]
<1>1. N \in Nat /\ k \in Nat /\ k <= N
  OBVIOUS
<1>2. \A n \in 1 .. N : f[n] = AfterEventOf(contracts, tick, f[n - 1], events[n])
  BY ToldPasses
<1>3. f[k].error # "none" /\ f[N] = Told(contracts, events, tick, outcome, N)
      /\ f[k] = Told(contracts, events, tick, outcome, k)
  OBVIOUS
<1> HIDE DEF f, N
<1>4. \A n \in k .. N - 1 : f[n] = f[k] => f[n + 1] = f[n]
  <2> TAKE n \in k .. N - 1
  <2>1. n + 1 \in 1 .. N /\ (n + 1) - 1 = n
    BY <1>1
  <2>2. f[n + 1] = AfterEventOf(contracts, tick, f[n], events[n + 1])
    BY <1>2, <2>1
  <2> QED BY <1>3, <2>2 DEF AfterEventOf, DeliverTo
<1>5. \A n \in k .. N : f[n] = f[k]
  BY <1>1, <1>4, Stays
<1>6. f[N] = f[k]
  BY <1>1, <1>5
<1> QED BY <1>3, <1>6 DEF N

\* Verbs of a wire after one that failed.
LEMMA ActedFails ==
  ASSUME NEW contracts, NEW acts, Len(acts) \in Nat, NEW outcome,
         NEW k \in 0 .. Len(acts), Acted(contracts, acts, outcome, k).error # "none"
  PROVE  Acted(contracts, acts, outcome, Len(acts)) = Acted(contracts, acts, outcome, k)
<1> DEFINE N == Len(acts)
           f == [n \in 0 .. N |-> Acted(contracts, acts, outcome, n)]
<1>1. N \in Nat /\ k \in Nat /\ k <= N
  OBVIOUS
<1>2. \A n \in 1 .. N :
        f[n] = DeliverTo(contracts, f[n - 1], acts[n].entity, acts[n].verb, acts[n].arg)
  BY ActedPasses
<1>3. f[k].error # "none" /\ f[N] = Acted(contracts, acts, outcome, N)
      /\ f[k] = Acted(contracts, acts, outcome, k)
  OBVIOUS
<1> HIDE DEF f, N
<1>4. \A n \in k .. N - 1 : f[n] = f[k] => f[n + 1] = f[n]
  <2> TAKE n \in k .. N - 1
  <2>1. n + 1 \in 1 .. N /\ (n + 1) - 1 = n
    BY <1>1
  <2>2. f[n + 1] = DeliverTo(contracts, f[n], acts[n + 1].entity, acts[n + 1].verb, acts[n + 1].arg)
    BY <1>2, <2>1
  <2> QED BY <1>3, <2>2 DEF DeliverTo
<1>5. \A n \in k .. N : f[n] = f[k]
  BY <1>1, <1>4, Stays
<1>6. f[N] = f[k]
  BY <1>1, <1>5
<1> QED BY <1>3, <1>6 DEF N

\* Wires after one that failed.
LEMMA CoupledFails ==
  ASSUME NEW contracts, NEW wires, Len(wires) \in Nat, NEW outcome,
         NEW k \in 0 .. Len(wires), Coupled(contracts, wires, outcome, k).error # "none"
  PROVE  Coupled(contracts, wires, outcome, Len(wires)) = Coupled(contracts, wires, outcome, k)
<1> DEFINE N == Len(wires)
           f == [n \in 0 .. N |-> Coupled(contracts, wires, outcome, n)]
<1>1. N \in Nat /\ k \in Nat /\ k <= N
  OBVIOUS
<1>2. \A n \in 1 .. N : f[n] = AfterWire(contracts, f[n - 1], wires[n])
  BY CoupledPasses
<1>3. f[k].error # "none" /\ f[N] = Coupled(contracts, wires, outcome, N)
      /\ f[k] = Coupled(contracts, wires, outcome, k)
  OBVIOUS
<1> HIDE DEF f, N
<1>4. \A n \in k .. N - 1 : f[n] = f[k] => f[n + 1] = f[n]
  <2> TAKE n \in k .. N - 1
  <2>1. n + 1 \in 1 .. N /\ (n + 1) - 1 = n
    BY <1>1
  <2>2. f[n + 1] = AfterWire(contracts, f[n], wires[n + 1])
    BY <1>2, <2>1
  <2> QED BY <1>3, <2>2 DEF AfterWire
<1>5. \A n \in k .. N : f[n] = f[k]
  BY <1>1, <1>4, Stays
<1>6. f[N] = f[k]
  BY <1>1, <1>5
<1> QED BY <1>3, <1>6 DEF N

-----------------------------------------------------------------------------

\* So have the door's verbs their effects.
LEMMA DoorLengths ==
  \A verb \in DOMAIN DoorAffordances : Len(DoorAffordances[verb].effects) \in Nat
<1>1. ASSUME NEW a, NEW r, NEW g, NEW e1, NEW e2, NEW e3
      PROVE  /\ Len(Verb(a, r, g, <<e1>>).effects) \in Nat
             /\ Len(Verb(a, r, g, <<e1, e2>>).effects) \in Nat
             /\ Len(Verb(a, r, g, <<e1, e2, e3>>).effects) \in Nat
  <2>1. Len(<<e1>>) \in Nat /\ Len(<<e1, e2>>) \in Nat /\ Len(<<e1, e2, e3>>) \in Nat
    OBVIOUS
  <2>2. \A es : Verb(a, r, g, es).effects = es
    BY DEF Verb
  <2> QED BY <2>1, <2>2
<1>2. /\ Len(DoorAffordances["open"].effects) \in Nat
      /\ Len(DoorAffordances["close"].effects) \in Nat
      /\ Len(DoorAffordances["lock"].effects) \in Nat
      /\ Len(DoorAffordances["unlock"].effects) \in Nat
  <2>1. /\ DoorAffordances["open"] = Verb("none", {}, <<IsFalse("destroyed"), IsFalse("locked")>>, <<Aim(Quantum, <<>>)>>)
        /\ DoorAffordances["close"] = Verb("none", {}, CloseGuards, <<Aim(0, <<>>)>>)
        /\ DoorAffordances["lock"] = Verb("none", {}, <<>>, <<SetBool("locked", TRUE, <<>>)>>)
        /\ DoorAffordances["unlock"] = Verb("none", {}, <<>>, <<SetBool("locked", FALSE, <<>>)>>)
    BY DEF DoorAffordances
  <2> QED BY <1>1, <2>1, Zenon
<1>3. /\ Len(DoorAffordances["attack"].effects) \in Nat
      /\ Len(DoorAffordances["repair"].effects) \in Nat
  <2>1. /\ DoorAffordances["attack"] =
             Verb("count", {"health"}, <<>>,
                  <<Damage, SetBool("destroyed", TRUE, Broken), Aim(Quantum, Broken)>>)
        /\ DoorAffordances["repair"] =
             Verb("count", {"health"}, <<>>, <<Mend, SetBool("destroyed", FALSE, Revived)>>)
    BY DEF DoorAffordances
  <2> QED BY <1>1, <2>1, Zenon
<1>4. DOMAIN DoorAffordances = {"open", "close", "lock", "unlock", "attack", "repair"}
  BY DEF DoorAffordances
<1> QED BY <1>2, <1>3, <1>4


-----------------------------------------------------------------------------
(* The Rust interpreter, operator by operator, on an entry whose variables *)
(* hold values of their types.                                             *)

\* What a loop over outcomes keeps: entries are records, their variables functions.
Whole(contract, entry) ==
  /\ EntryTyped(contract, entry)
  /\ entry = [state |-> entry.state, control |-> entry.control]
  /\ entry.state = [var \in DOMAIN entry.state |-> entry.state[var]]
  /\ entry.control = [name \in DOMAIN entry.control |-> entry.control[name]]

LEMMA WholeRecord ==
  ASSUME NEW contract, NEW entry, NEW state, NEW control, EntryTyped(contract, entry),
         entry = [state |-> state, control |-> control],
         state = [var \in DOMAIN state |-> state[var]],
         control = [name \in DOMAIN control |-> control[name]]
  PROVE  Whole(contract, entry)
  BY DEF Whole

LEMMA PutIsFunction ==
  ASSUME NEW f, NEW k, NEW v
  PROVE  Put(f, k, v) = [x \in DOMAIN Put(f, k, v) |-> Put(f, k, v)[x]]
  BY DEF Put

\* An i64 is read as one by both kernels.
LEMMA SameInt ==
  ASSUME NEW v, NEW otherwise
  PROVE  /\ IsInt(v) => AsI64(v, otherwise) = ToInt(v) /\ AsI64(v, otherwise) = Raw(v)
         /\ HasType(v, "int") => IsInt(v) /\ IntV(AsI64(v, otherwise)) = v
  BY DEF HasType, IsLiteral, IsInt, AsI64, ToInt, TypeOf, Raw, IntV

\* resolve.
LEMMA SameResolve ==
  ASSUME NEW contract, Sound(contract),
         NEW entry, EntryTyped(contract, entry),
         NEW source, NEW type, NEW kind, SourceSound(source, type, contract, kind),
         NEW arg, (kind = "count" /\ arg # NoValue) => IsInt(arg)
  PROVE  RustResolve(source, arg, entry.state, contract.params)
           = Resolve(source, arg, entry.state, contract.params)
<1> DEFINE params == contract.params
<1>1. CASE source.kind = "const"
  BY <1>1 DEF RustResolve, Resolve
<1>2. CASE source.kind = "arg"
  <2>1. kind = "count"
    BY <1>2 DEF SourceSound, ValueOK
  <2>2. CASE arg = NoValue
    BY <1>2, <2>2 DEF RustResolve, Resolve, AsI64, NoValue, TypeOf
  <2>3. CASE arg # NoValue
    <3>1. AsI64(arg, 0) = ToInt(arg)
      BY <2>1, <2>3, SameInt
    <3> QED BY <1>2, <2>3, <3>1 DEF RustResolve, Resolve
  <2> QED BY <2>2, <2>3
<1>3. CASE source.kind = "param"
  <2>1. source.name # "navigation"
    BY <1>3 DEF SourceSound, NotNavigation
  <2>2. CASE source.name \in DOMAIN params
    <3>1. source.name \in IntParams(contract)
      BY <2>1, <2>2 DEF IntParams
    <3>2. IsInt(params[source.name])
      BY <3>1 DEF Sound
    <3>3. AsI64(params[source.name], AsI64(source.default, 0)) = ToInt(params[source.name])
      BY <3>2, SameInt
    <3> QED BY <1>3, <2>2, <3>3 DEF RustResolve, Resolve
  <2>3. CASE source.name \notin DOMAIN params
    <3>1. source.default # NoValue
      BY <1>3, <2>3 DEF SourceSound, ValueOK, IntParams
    <3>2. HasType(source.default, "int")
      BY <1>3, <3>1 DEF SourceSound, ValueOK, HasType
    <3>3. IntV(AsI64(source.default, 0)) = source.default
      BY <3>2, SameInt
    <3> QED BY <1>3, <2>3, <3>1, <3>3 DEF RustResolve, Resolve
  <2> QED BY <2>2, <2>3
<1>4. CASE source.kind = "var"
  BY <1>4 DEF RustResolve, Resolve
<1> QED BY <1>1, <1>2, <1>3, <1>4 DEF SourceSound, ValueOK

\* guard_holds.
LEMMA SameGuard ==
  ASSUME NEW contract, Sound(contract),
         NEW entry, EntryTyped(contract, entry),
         NEW guard, NEW kind, GuardSound(guard, contract, kind)
  PROVE  RustGuardHolds(guard, entry.state, contract.params)
           <=> GuardHolds(guard, entry.state, contract.params)
<1> DEFINE state == entry.state
           params == contract.params
           wanted == Wanted(guard, state, params)
           actual == Actual(guard, state, params)
<1>1. CASE guard.test = "exists"
  BY <1>1 DEF RustGuardHolds, GuardHolds
<1>2. CASE guard.test # "exists"
  <2>1. PICK type : SourceSound(guard.against, type, contract, kind)
    BY <1>2 DEF GuardSound
  <2>2. RustResolve(guard.against, NoValue, state, params) = wanted
    BY <2>1, SameResolve DEF Wanted
  <2>3. (IF guard.var \in DOMAIN state THEN state[guard.var] ELSE TypedZero(wanted)) = actual
    BY DEF Actual
  <2>4. guard.test \in {"gt", "lt"} => AsI64(actual, 0) = Raw(actual) /\ AsI64(wanted, 0) = Raw(wanted)
    <3> SUFFICES ASSUME guard.test \in {"gt", "lt"}
                 PROVE  AsI64(actual, 0) = Raw(actual) /\ AsI64(wanted, 0) = Raw(wanted)
      OBVIOUS
    <3>1. /\ Schema(contract)[guard.var] = "int" /\ guard.var \in DOMAIN Schema(contract)
          /\ SourceSound(guard.against, "int", contract, kind)
      BY <1>2 DEF GuardSound
    <3>2. HasType(wanted, "int")
      BY <3>1, ResolveTyped DEF Wanted
    <3>3. HasType(actual, "int")
      <4>1. CASE guard.var \in DOMAIN state
        BY <3>1, <4>1 DEF Actual, EntryTyped
      <4>2. CASE guard.var \notin DOMAIN state
        <5>1. actual = IntV(0)
          BY <3>2, <4>2 DEF Actual, TypedZero, Zero, HasType
        <5> QED BY <5>1, DoorLiterals
      <4> QED BY <4>1, <4>2
    <3> QED BY <3>2, <3>3, SameInt
  <2> HIDE DEF wanted, actual, params, state
  <2>5. RustGuardHolds(guard, state, params) <=>
          \/ guard.test = "equals" /\ actual = wanted
          \/ /\ guard.test \in {"gt", "lt"}
             /\ "bool" \notin {TypeOf(actual), TypeOf(wanted)}
             /\ IF guard.test = "gt" THEN AsI64(actual, 0) > AsI64(wanted, 0)
                                     ELSE AsI64(actual, 0) < AsI64(wanted, 0)
    BY <1>2, <2>2, <2>3 DEF RustGuardHolds
  <2>6. GuardHolds(guard, state, params) <=>
          \/ guard.test = "equals" /\ actual = wanted
          \/ /\ guard.test \in {"gt", "lt"}
             /\ "bool" \notin {TypeOf(actual), TypeOf(wanted)}
             /\ IF guard.test = "gt" THEN Raw(actual) > Raw(wanted)
                                     ELSE Raw(actual) < Raw(wanted)
    BY <1>2 DEF GuardHolds, wanted, actual
  <2> QED BY <2>4, <2>5, <2>6 DEF state, params
<1> QED BY <1>1, <1>2

LEMMA SameGuards ==
  ASSUME NEW contract, Sound(contract),
         NEW entry, EntryTyped(contract, entry),
         NEW guards, NEW kind, GuardsSound(guards, contract, kind)
  PROVE  RustGuardsHold(guards, entry.state, contract.params)
           <=> GuardsHold(guards, entry.state, contract.params)
  BY SameGuard DEF RustGuardsHold, GuardsHold, GuardsSound

\* What a converted source is, read as a Rust integer.
LEMMA SameNumber ==
  ASSUME NEW contract, Sound(contract),
         NEW entry, EntryTyped(contract, entry),
         NEW source, NEW kind, SourceSound(source, "int", contract, kind),
         NEW arg, (kind = "count" /\ arg # NoValue) => IsInt(arg)
  PROVE  /\ RustInt(source, arg, entry.state, contract.params)
              = ToInt(Resolve(source, arg, entry.state, contract.params))
         /\ ToInt(Resolve(source, arg, entry.state, contract.params)) \in Int
  BY SameResolve, ResolveTyped, SameInt, IntTyped DEF RustInt

-----------------------------------------------------------------------------
(* Effects. *)

\* saturating_mul, saturating_add and the clamps.
LEMMA SameAdded ==
  ASSUME NEW contract, Sound(contract),
         NEW entry, EntryTyped(contract, entry),
         NEW effect, NEW kind, EffectSound(effect, contract, kind), effect.op = "add",
         NEW arg, kind = "count" => IsInt(arg)
  PROVE  RustAdded(effect, arg, entry.state, contract.params)
           = Added(effect, arg, entry.state, contract.params)
<1> DEFINE state == entry.state
           params == contract.params
           Py(source) == ToInt(Resolve(source, arg, state, params))
           Rs(source) == RustInt(source, arg, state, params)
           old == IF effect.target \in DOMAIN state THEN ToInt(state[effect.target]) ELSE 0
<1>1. \A source \in {effect.value, effect.min, effect.max} \ {NoSource} :
        Rs(source) = Py(source) /\ Py(source) \in Int
  BY SameNumber DEF EffectSound
<1>2. effect.value # NoSource
  BY DEF EffectSound
<1>3. GetI64(state, effect.target) = old /\ old \in Int
  <2>1. CASE effect.target \in DOMAIN state
    <3>1. HasType(state[effect.target], "int")
      BY <2>1 DEF EffectSound, EntryTyped
    <3>2. AsI64(state[effect.target], 0) = ToInt(state[effect.target])
      BY <3>1, SameInt
    <3> QED BY <2>1, <3>1, <3>2, IntTyped DEF GetI64
  <2>2. CASE effect.target \notin DOMAIN state
    BY <2>2 DEF GetI64
  <2> QED BY <2>1, <2>2
<1> DEFINE sum == Sat(old + Sat(Py(effect.value) * effect.sign))
<1>4. Rs(effect.value) = Py(effect.value) /\ Py(effect.value) \in Int
  BY <1>1, <1>2
<1>5. effect.sign \in {1, -1}
  BY DEF EffectSound
<1>6. sum \in Int
  <2>1. Py(effect.value) * effect.sign \in Int
    BY <1>4, <1>5
  <2>2. Sat(Py(effect.value) * effect.sign) \in Int
    BY <2>1, SatInRange, KernelConstants DEF I64
  <2>3. old + Sat(Py(effect.value) * effect.sign) \in Int
    BY <1>3, <2>2
  <2> QED BY <2>3, SatInRange, KernelConstants DEF I64
<1>7. RustAdded(effect, arg, state, params) = Clamped(effect, sum, arg, state, params)
  BY <1>3, <1>4 DEF RustAdded
<1> DEFINE floored == IF effect.min = NoSource THEN sum ELSE Larger(Py(effect.min), sum)
<1>8. Added(effect, arg, state, params)
        = IF effect.max = NoSource THEN floored ELSE Smaller(Py(effect.max), floored)
  BY DEF Added
<1>9. Clamped(effect, sum, arg, state, params)
        = LET low == IF effect.min = NoSource THEN sum ELSE Larger(sum, Rs(effect.min))
          IN IF effect.max = NoSource THEN low ELSE Smaller(low, Rs(effect.max))
  BY DEF Clamped
<1>10. effect.min # NoSource => Rs(effect.min) = Py(effect.min) /\ Py(effect.min) \in Int
  BY <1>1
<1>11. effect.max # NoSource => Rs(effect.max) = Py(effect.max) /\ Py(effect.max) \in Int
  BY <1>1
<1> HIDE DEF Py, Rs, sum
<1>12. floored \in Int /\ floored = IF effect.min = NoSource THEN sum ELSE Larger(sum, Rs(effect.min))
  BY <1>6, <1>10 DEF Larger
<1> HIDE DEF floored
<1>13. effect.max # NoSource => Smaller(Py(effect.max), floored) = Smaller(floored, Rs(effect.max))
  BY <1>11, <1>12 DEF Smaller
<1> QED BY <1>7, <1>8, <1>9, <1>12, <1>13 DEF state, params

\* apply_effect, and the shape of what it leaves.
LEMMA SameEffect ==
  ASSUME NEW contract, Sound(contract),
         NEW entry, Whole(contract, entry),
         NEW effect, NEW kind, EffectSound(effect, contract, kind),
         NEW arg, kind = "count" => IsInt(arg)
  PROVE  /\ RustEffect(effect, arg, entry, contract.params)
              = ApplyEffect(effect, arg, entry, contract.params)
         /\ Whole(contract, ApplyEffect(effect, arg, entry, contract.params))
<1> DEFINE state == entry.state
           control == entry.control
           params == contract.params
           value == Resolve(effect.value, arg, state, params)
<1>1. EntryTyped(contract, entry) /\ entry = [state |-> state, control |-> control]
  BY DEF Whole
<1>2. RustGuardsHold(effect.when, state, params) <=> GuardsHold(effect.when, state, params)
  BY <1>1, SameGuards DEF EffectSound
<1>3. CASE ~GuardsHold(effect.when, state, params)
  BY <1>2, <1>3 DEF RustEffect, ApplyEffect
<1>4. CASE GuardsHold(effect.when, state, params)
  <2>1. /\ \A v : [entry EXCEPT !.state = Put(state, effect.target, v)]
                   = [state |-> Put(state, effect.target, v), control |-> control]
        /\ \A v : [entry EXCEPT !.control = Put(control, effect.target, v)]
                   = [state |-> state, control |-> Put(control, effect.target, v)]
    BY <1>1
  <2>2. effect.op \in {"set", "set_control"} => RustResolve(effect.value, arg, state, params) = value
    <3>1. effect.op \in {"set", "set_control"} =>
            \E type : SourceSound(effect.value, type, contract, kind)
      BY DEF EffectSound
    <3> QED BY <1>1, <3>1, SameResolve
  <2>3. effect.op = "toggle" => RustToggled(effect, state) = Toggled(effect, state)
    <3> SUFFICES ASSUME effect.op = "toggle", effect.target \in DOMAIN state
                 PROVE  AsBool(state[effect.target]) <=> Raw(state[effect.target])
      BY DEF RustToggled, Toggled
    <3>1. HasType(state[effect.target], "bool")
      BY <1>1 DEF EffectSound, EntryTyped
    <3>2. Raw(state[effect.target]) \in BOOLEAN /\ state[effect.target] = <<"bool", Raw(state[effect.target])>>
      BY <3>1 DEF HasType, IsLiteral, IsInt
    <3> DEFINE held == Raw(state[effect.target])
    <3>3. CASE held = TRUE
      BY <3>2, <3>3 DEF AsBool, BoolV
    <3>4. CASE held = FALSE
      <4>1. <<"bool", FALSE>> # <<"bool", TRUE>>
        OBVIOUS
      <4> QED BY <3>2, <3>4, <4>1, Zenon DEF AsBool, BoolV
    <3> QED BY <3>2, <3>3, <3>4
  <2>4. effect.op = "add" => RustAdded(effect, arg, state, params) = Added(effect, arg, state, params)
    BY <1>1, SameAdded
  <2>5. RustEffect(effect, arg, entry, params) = ApplyEffect(effect, arg, entry, params)
    <3>1. CASE effect.op = "set"
      BY <1>2, <1>4, <2>1, <2>2, <3>1 DEF RustEffect, ApplyEffect
    <3>2. CASE effect.op = "set_control"
      BY <1>2, <1>4, <2>1, <2>2, <3>2 DEF RustEffect, ApplyEffect
    <3>3. CASE effect.op = "toggle"
      BY <1>2, <1>4, <2>1, <2>3, <3>3 DEF RustEffect, ApplyEffect
    <3>4. CASE effect.op = "add"
      BY <1>2, <1>4, <2>1, <2>4, <3>4 DEF RustEffect, ApplyEffect
    <3> QED BY <3>1, <3>2, <3>3, <3>4 DEF EffectSound
  <2>6. EntryTyped(contract, ApplyEffect(effect, arg, entry, params))
    BY <1>1, EffectKeepsTypes
  <2>7. CASE effect.op = "set_control"
    <3>1. ApplyEffect(effect, arg, entry, params)
            = [state |-> state, control |-> Put(control, effect.target, value)]
      BY <1>4, <2>7 DEF ApplyEffect
    <3>2. state = [var \in DOMAIN state |-> state[var]]
      BY DEF Whole
    <3> HIDE DEF state, control, value, params
    <3>3. Whole(contract, ApplyEffect(effect, arg, entry, params))
      BY <2>6, <3>1, <3>2, WholeRecord, PutIsFunction
    <3> QED BY <2>5, <3>3 DEF params
  <2>8. CASE effect.op # "set_control"
    <3>1. \E v : ApplyEffect(effect, arg, entry, params)
                   = [state |-> Put(state, effect.target, v), control |-> control]
      BY <1>4, <2>8 DEF ApplyEffect
    <3>2. control = [name \in DOMAIN control |-> control[name]]
      BY DEF Whole
    <3> HIDE DEF state, control, value, params
    <3>3. Whole(contract, ApplyEffect(effect, arg, entry, params))
      BY <2>6, <3>1, <3>2, WholeRecord, PutIsFunction
    <3> QED BY <2>5, <3>3 DEF params
  <2> QED BY <2>7, <2>8
<1> QED BY <1>3, <1>4

-----------------------------------------------------------------------------
(* Integrators and clauses. *)

\* One integrator of step_entity; at rest the Rust kernel writes what is there.
LEMMA SameIntegrate ==
  ASSUME NEW contract, Sound(contract),
         NEW entry, Whole(contract, entry),
         NEW integrator, IntegratorSound(integrator, contract)
  PROVE  /\ RustIntegrate(integrator, entry, contract.params)
              = Integrate(integrator, entry, contract.params)
         /\ Whole(contract, Integrate(integrator, entry, contract.params))
         /\ ~IntegrateRaises(integrator, entry, contract.params)
<1> DEFINE state == entry.state
           params == contract.params
           current == ToInt(state[integrator.var])
           target == IF integrator.toward \in DOMAIN entry.control
                     THEN ToInt(entry.control[integrator.toward]) ELSE current
           rate == ToInt(Resolve(integrator.rate, NoValue, state, params))
<1>1. EntryTyped(contract, entry) /\ entry = [state |-> state, control |-> entry.control]
  BY DEF Whole
<1>2. /\ EntryTyped(contract, Integrate(integrator, entry, params))
      /\ ~IntegrateRaises(integrator, entry, params)
  BY <1>1, IntegrateKeepsTypes
<1>3. CASE integrator.var \notin DOMAIN state
  BY <1>2, <1>3 DEF RustIntegrate, Integrate
<1>4. CASE integrator.var \in DOMAIN state
  <2>1. HasType(state[integrator.var], "int")
    BY <1>1, <1>4 DEF EntryTyped, IntegratorSound
  <2>2. /\ GetI64(state, integrator.var) = current /\ current \in I64
        /\ state[integrator.var] = IntV(current)
    <3>1. AsI64(state[integrator.var], 0) = current /\ IntV(AsI64(state[integrator.var], 0)) = state[integrator.var]
      BY <2>1, SameInt
    <3>2. current \in I64
      BY <2>1, IntTyped
    <3> QED BY <1>4, <3>1, <3>2 DEF GetI64
  <2>3. /\ target = IF integrator.toward \in DOMAIN entry.control
                    THEN AsI64(entry.control[integrator.toward], current) ELSE current
        /\ target \in I64
    <3>1. CASE integrator.toward \in DOMAIN entry.control
      <4>1. HasType(entry.control[integrator.toward], "int")
        BY <1>1, <3>1 DEF EntryTyped
      <4>2. AsI64(entry.control[integrator.toward], current) = ToInt(entry.control[integrator.toward])
        BY <4>1, SameInt
      <4>3. ToInt(entry.control[integrator.toward]) \in I64
        BY <4>1, IntTyped
      <4> QED BY <3>1, <4>2, <4>3
    <3>2. CASE integrator.toward \notin DOMAIN entry.control
      BY <2>2, <3>2
    <3> QED BY <3>1, <3>2
  <2>4. RustInt(integrator.rate, NoValue, state, params) = rate /\ rate \in Int
    BY <1>1, SameNumber DEF IntegratorSound
  <2> DEFINE next == IF current < target THEN Smaller(Sat(current + rate), target)
                     ELSE IF current > target THEN Larger(Sat(current - rate), target)
                     ELSE current
  <2>5. RustIntegrate(integrator, entry, params)
          = [state |-> Put(state, integrator.var, IntV(next)), control |-> entry.control]
    <3>1. RustIntegrate(integrator, entry, params)
            = [entry EXCEPT !.state = Put(@, integrator.var, IntV(next))]
      BY <1>4, <2>2, <2>3, <2>4 DEF RustIntegrate
    <3> QED BY <1>1, <3>1
  <2>6. CASE current = target
    <3>1. next = current
      BY <2>2, <2>6 DEF I64
    <3>2. state = [var \in DOMAIN state |-> state[var]]
      BY DEF Whole
    <3> HIDE DEF current, state
    <3>3. Put(state, integrator.var, IntV(current)) = state
      BY <1>4, <2>2, <3>2 DEF Put, state
    <3>4. Integrate(integrator, entry, params) = entry
      BY <2>6 DEF Integrate, state, current
    <3>5. RustIntegrate(integrator, entry, params) = entry
      BY <1>1, <2>5, <3>1, <3>3
    <3> QED BY <1>2, <3>4, <3>5
  <2>7. CASE current # target
    <3>1. Integrate(integrator, entry, params)
            = [state |-> Put(state, integrator.var, IntV(Integrated(current, target, rate))),
               control |-> entry.control]
      BY <1>4, <2>7 DEF Integrate
    <3>2. Sat(current + rate) \in Int /\ Sat(current - rate) \in Int
      <4>1. current \in Int /\ current + rate \in Int /\ current - rate \in Int
        BY <2>2, <2>4, KernelConstants DEF I64
      <4> QED BY <4>1, SatInRange, KernelConstants DEF I64
    <3> HIDE DEF current, target, rate
    <3>3. current \in Int /\ target \in Int
      BY <2>2, <2>3 DEF I64
    <3>4. next = Integrated(current, target, rate)
      BY <2>7, <3>2, <3>3 DEF Integrated, Smaller, Larger
    <3>5. RustIntegrate(integrator, entry, params) = Integrate(integrator, entry, params)
      BY <2>5, <3>1, <3>4
    <3>6. \A v : Put(state, integrator.var, v)
                   = [x \in DOMAIN Put(state, integrator.var, v) |-> Put(state, integrator.var, v)[x]]
      BY DEF Put
    <3> HIDE DEF next, state
    <3>7. Whole(contract, Integrate(integrator, entry, params))
      BY <1>2, <3>1, <3>6 DEF Whole
    <3> QED BY <1>2, <3>5, <3>7
  <2> QED BY <2>6, <2>7
<1> QED BY <1>3, <1>4

-----------------------------------------------------------------------------
(* The passes of the Rust loops. *)

\* apply_event, over the effects.
LEMMA RustAffectedPasses ==
  ASSUME NEW entry, NEW effects, Len(effects) \in Nat, NEW arg, NEW params
  PROVE  /\ RustAffected(entry, effects, arg, params, 0) = entry
         /\ \A n \in 1 .. Len(effects) :
              RustAffected(entry, effects, arg, params, n)
                = RustEffect(effects[n], arg, RustAffected(entry, effects, arg, params, n - 1), params)
<1> DEFINE Pass(x, i) == RustEffect(effects[i], arg, x, params)
           Runs(f, n) == f = [i \in 0 .. n |-> IF i = 0 THEN entry ELSE Pass(f[i - 1], i)]
           S == {n \in Nat : \E f : Runs(f, n)}
           after == CHOOSE f : Runs(f, Len(effects))
<1>1. \A n \in 0 .. Len(effects) : RustAffected(entry, effects, arg, params, n) = after[n]
  BY DEF RustAffected, Looped
<1> HIDE DEF Pass
<1>2. 0 \in S
  <2> DEFINE f == [i \in 0 .. 0 |-> entry]
  <2>1. Runs(f, 0)
    OBVIOUS
  <2> QED BY <2>1
<1>3. ASSUME NEW n \in Nat, n \in S PROVE n + 1 \in S
  <2>1. PICK f : Runs(f, n)
    BY <1>3
  <2> DEFINE h == [i \in 0 .. n + 1 |-> IF i = n + 1 THEN Pass(f[n], i) ELSE f[i]]
  <2>2. \A i \in 0 .. n + 1 : h[i] = IF i = 0 THEN entry ELSE Pass(h[i - 1], i)
    BY <2>1
  <2>3. Runs(h, n + 1)
    BY <2>2
  <2> HIDE DEF h
  <2> QED BY <2>3
<1>4. Runs(after, Len(effects))
  <2>1. Len(effects) \in S
    <3> HIDE DEF S
    <3> QED BY <1>2, <1>3, SetInduction
  <2> QED BY <2>1
<1> HIDE DEF after
<1> DEFINE N == Len(effects)
<1>5. N \in Nat
  OBVIOUS
<1>6. after = [i \in 0 .. N |-> IF i = 0 THEN entry ELSE Pass(after[i - 1], i)]
  BY <1>4
<1> HIDE DEF N
<1>7. after[0] = entry /\ \A n \in 1 .. N : after[n] = Pass(after[n - 1], n)
  BY <1>5, <1>6
<1>8. \A n \in 1 .. N : n \in 0 .. N /\ n - 1 \in 0 .. N
  BY <1>5
<1>9. 0 \in 0 .. N
  BY <1>5
<1> HIDE DEF Runs
<1> QED BY <1>1, <1>7, <1>8, <1>9 DEF Pass, N

\* run_replay_value, over the events of a tick.
LEMMA RustToldPasses ==
  ASSUME NEW contracts, NEW events, Len(events) \in Nat, NEW tick, NEW outcome
  PROVE  /\ RustTold(contracts, events, tick, outcome, 0) = outcome
         /\ \A n \in 1 .. Len(events) :
              RustTold(contracts, events, tick, outcome, n)
                = (IF events[n].tick = tick THEN RustDeliver(contracts, RustTold(contracts, events, tick, outcome, n - 1), events[n]) ELSE RustTold(contracts, events, tick, outcome, n - 1))
<1> DEFINE Pass(x, i) == (IF events[i].tick = tick THEN RustDeliver(contracts, x, events[i]) ELSE x)
           Runs(f, n) == f = [i \in 0 .. n |-> IF i = 0 THEN outcome ELSE Pass(f[i - 1], i)]
           S == {n \in Nat : \E f : Runs(f, n)}
           after == CHOOSE f : Runs(f, Len(events))
<1>1. \A n \in 0 .. Len(events) : RustTold(contracts, events, tick, outcome, n) = after[n]
  BY DEF RustTold, Looped
<1> HIDE DEF Pass
<1>2. 0 \in S
  <2> DEFINE f == [i \in 0 .. 0 |-> outcome]
  <2>1. Runs(f, 0)
    OBVIOUS
  <2> QED BY <2>1
<1>3. ASSUME NEW n \in Nat, n \in S PROVE n + 1 \in S
  <2>1. PICK f : Runs(f, n)
    BY <1>3
  <2> DEFINE h == [i \in 0 .. n + 1 |-> IF i = n + 1 THEN Pass(f[n], i) ELSE f[i]]
  <2>2. \A i \in 0 .. n + 1 : h[i] = IF i = 0 THEN outcome ELSE Pass(h[i - 1], i)
    BY <2>1
  <2>3. Runs(h, n + 1)
    BY <2>2
  <2> HIDE DEF h
  <2> QED BY <2>3
<1>4. Runs(after, Len(events))
  <2>1. Len(events) \in S
    <3> HIDE DEF S
    <3> QED BY <1>2, <1>3, SetInduction
  <2> QED BY <2>1
<1> HIDE DEF after
<1> DEFINE N == Len(events)
<1>5. N \in Nat
  OBVIOUS
<1>6. after = [i \in 0 .. N |-> IF i = 0 THEN outcome ELSE Pass(after[i - 1], i)]
  BY <1>4
<1> HIDE DEF N
<1>7. after[0] = outcome /\ \A n \in 1 .. N : after[n] = Pass(after[n - 1], n)
  BY <1>5, <1>6
<1>8. \A n \in 1 .. N : n \in 0 .. N /\ n - 1 \in 0 .. N
  BY <1>5
<1>9. 0 \in 0 .. N
  BY <1>5
<1> HIDE DEF Runs
<1> QED BY <1>1, <1>7, <1>8, <1>9 DEF Pass, N

\* ... over the verbs of a wire.
LEMMA RustActedPasses ==
  ASSUME NEW contracts, NEW acts, Len(acts) \in Nat, NEW outcome
  PROVE  /\ RustActed(contracts, acts, outcome, 0) = outcome
         /\ \A n \in 1 .. Len(acts) :
              RustActed(contracts, acts, outcome, n)
                = RustDeliver(contracts, RustActed(contracts, acts, outcome, n - 1), acts[n])
<1> DEFINE Pass(x, i) == RustDeliver(contracts, x, acts[i])
           Runs(f, n) == f = [i \in 0 .. n |-> IF i = 0 THEN outcome ELSE Pass(f[i - 1], i)]
           S == {n \in Nat : \E f : Runs(f, n)}
           after == CHOOSE f : Runs(f, Len(acts))
<1>1. \A n \in 0 .. Len(acts) : RustActed(contracts, acts, outcome, n) = after[n]
  BY DEF RustActed, Looped
<1> HIDE DEF Pass
<1>2. 0 \in S
  <2> DEFINE f == [i \in 0 .. 0 |-> outcome]
  <2>1. Runs(f, 0)
    OBVIOUS
  <2> QED BY <2>1
<1>3. ASSUME NEW n \in Nat, n \in S PROVE n + 1 \in S
  <2>1. PICK f : Runs(f, n)
    BY <1>3
  <2> DEFINE h == [i \in 0 .. n + 1 |-> IF i = n + 1 THEN Pass(f[n], i) ELSE f[i]]
  <2>2. \A i \in 0 .. n + 1 : h[i] = IF i = 0 THEN outcome ELSE Pass(h[i - 1], i)
    BY <2>1
  <2>3. Runs(h, n + 1)
    BY <2>2
  <2> HIDE DEF h
  <2> QED BY <2>3
<1>4. Runs(after, Len(acts))
  <2>1. Len(acts) \in S
    <3> HIDE DEF S
    <3> QED BY <1>2, <1>3, SetInduction
  <2> QED BY <2>1
<1> HIDE DEF after
<1> DEFINE N == Len(acts)
<1>5. N \in Nat
  OBVIOUS
<1>6. after = [i \in 0 .. N |-> IF i = 0 THEN outcome ELSE Pass(after[i - 1], i)]
  BY <1>4
<1> HIDE DEF N
<1>7. after[0] = outcome /\ \A n \in 1 .. N : after[n] = Pass(after[n - 1], n)
  BY <1>5, <1>6
<1>8. \A n \in 1 .. N : n \in 0 .. N /\ n - 1 \in 0 .. N
  BY <1>5
<1>9. 0 \in 0 .. N
  BY <1>5
<1> HIDE DEF Runs
<1> QED BY <1>1, <1>7, <1>8, <1>9 DEF Pass, N

\* ... over the wires.
LEMMA RustCoupledPasses ==
  ASSUME NEW contracts, NEW wires, Len(wires) \in Nat, NEW outcome
  PROVE  /\ RustCoupled(contracts, wires, outcome, 0) = outcome
         /\ \A n \in 1 .. Len(wires) :
              RustCoupled(contracts, wires, outcome, n)
                = RustWire(contracts, RustCoupled(contracts, wires, outcome, n - 1), wires[n])
<1> DEFINE Pass(x, i) == RustWire(contracts, x, wires[i])
           Runs(f, n) == f = [i \in 0 .. n |-> IF i = 0 THEN outcome ELSE Pass(f[i - 1], i)]
           S == {n \in Nat : \E f : Runs(f, n)}
           after == CHOOSE f : Runs(f, Len(wires))
<1>1. \A n \in 0 .. Len(wires) : RustCoupled(contracts, wires, outcome, n) = after[n]
  BY DEF RustCoupled, Looped
<1> HIDE DEF Pass
<1>2. 0 \in S
  <2> DEFINE f == [i \in 0 .. 0 |-> outcome]
  <2>1. Runs(f, 0)
    OBVIOUS
  <2> QED BY <2>1
<1>3. ASSUME NEW n \in Nat, n \in S PROVE n + 1 \in S
  <2>1. PICK f : Runs(f, n)
    BY <1>3
  <2> DEFINE h == [i \in 0 .. n + 1 |-> IF i = n + 1 THEN Pass(f[n], i) ELSE f[i]]
  <2>2. \A i \in 0 .. n + 1 : h[i] = IF i = 0 THEN outcome ELSE Pass(h[i - 1], i)
    BY <2>1
  <2>3. Runs(h, n + 1)
    BY <2>2
  <2> HIDE DEF h
  <2> QED BY <2>3
<1>4. Runs(after, Len(wires))
  <2>1. Len(wires) \in S
    <3> HIDE DEF S
    <3> QED BY <1>2, <1>3, SetInduction
  <2> QED BY <2>1
<1> HIDE DEF after
<1> DEFINE N == Len(wires)
<1>5. N \in Nat
  OBVIOUS
<1>6. after = [i \in 0 .. N |-> IF i = 0 THEN outcome ELSE Pass(after[i - 1], i)]
  BY <1>4
<1> HIDE DEF N
<1>7. after[0] = outcome /\ \A n \in 1 .. N : after[n] = Pass(after[n - 1], n)
  BY <1>5, <1>6
<1>8. \A n \in 1 .. N : n \in 0 .. N /\ n - 1 \in 0 .. N
  BY <1>5
<1>9. 0 \in 0 .. N
  BY <1>5
<1> HIDE DEF Runs
<1> QED BY <1>1, <1>7, <1>8, <1>9 DEF Pass, N

\* step_entity, over the integrators.
LEMMA RustSteppedPasses ==
  ASSUME NEW contract, Len(Semantics(contract).integrators) \in Nat, NEW entry
  PROVE  /\ RustStepped(contract, entry, 0) = entry
         /\ \A n \in 1 .. Len(Semantics(contract).integrators) :
              RustStepped(contract, entry, n)
                = RustIntegrate(Semantics(contract).integrators[n], RustStepped(contract, entry, n - 1), contract.params)
<1> DEFINE Pass(x, i) == RustIntegrate(Semantics(contract).integrators[i], x, contract.params)
           Runs(f, n) == f = [i \in 0 .. n |-> IF i = 0 THEN entry ELSE Pass(f[i - 1], i)]
           S == {n \in Nat : \E f : Runs(f, n)}
           after == CHOOSE f : Runs(f, Len(Semantics(contract).integrators))
<1>1. \A n \in 0 .. Len(Semantics(contract).integrators) : RustStepped(contract, entry, n) = after[n]
  BY DEF RustStepped, Looped
<1> HIDE DEF Pass
<1>2. 0 \in S
  <2> DEFINE f == [i \in 0 .. 0 |-> entry]
  <2>1. Runs(f, 0)
    OBVIOUS
  <2> QED BY <2>1
<1>3. ASSUME NEW n \in Nat, n \in S PROVE n + 1 \in S
  <2>1. PICK f : Runs(f, n)
    BY <1>3
  <2> DEFINE h == [i \in 0 .. n + 1 |-> IF i = n + 1 THEN Pass(f[n], i) ELSE f[i]]
  <2>2. \A i \in 0 .. n + 1 : h[i] = IF i = 0 THEN entry ELSE Pass(h[i - 1], i)
    BY <2>1
  <2>3. Runs(h, n + 1)
    BY <2>2
  <2> HIDE DEF h
  <2> QED BY <2>3
<1>4. Runs(after, Len(Semantics(contract).integrators))
  <2>1. Len(Semantics(contract).integrators) \in S
    <3> HIDE DEF S
    <3> QED BY <1>2, <1>3, SetInduction
  <2> QED BY <2>1
<1> HIDE DEF after
<1> DEFINE N == Len(Semantics(contract).integrators)
<1>5. N \in Nat
  OBVIOUS
<1>6. after = [i \in 0 .. N |-> IF i = 0 THEN entry ELSE Pass(after[i - 1], i)]
  BY <1>4
<1> HIDE DEF N
<1>7. after[0] = entry /\ \A n \in 1 .. N : after[n] = Pass(after[n - 1], n)
  BY <1>5, <1>6
<1>8. \A n \in 1 .. N : n \in 0 .. N /\ n - 1 \in 0 .. N
  BY <1>5
<1>9. 0 \in 0 .. N
  BY <1>5
<1> HIDE DEF Runs
<1> QED BY <1>1, <1>7, <1>8, <1>9 DEF Pass, N

-----------------------------------------------------------------------------
(* Delivery. *)

\* The refusals of apply_event, in their order.
LEMMA SameRefusal ==
  ASSUME NEW contract, Sound(contract), NEW entry, EntryTyped(contract, entry), NEW verb, NEW arg
  PROVE  RustRefusal(contract, entry.state, verb, arg) = DeliveryError(contract, entry.state, verb, arg)
<1> DEFINE spec == SpecOf(contract, verb)
<1>1. CASE verb \in DeclaredVerbs(contract)
  <2>1. ~GuardsRaise(spec.guards, entry.state, contract.params)
    BY <1>1, GuardsNeverRaise DEF Sound, SpecSound
  <2>2. ArgumentError(spec.arg, arg)
          = IF spec.arg = "none" /\ arg # NoValue THEN "E_ARGUMENT_DOMAIN"
            ELSE IF spec.arg = "count" /\ TypeOf(arg) # "int" THEN "E_ARGUMENT_TYPE"
            ELSE IF spec.arg = "count" /\ Raw(arg) \notin 0 .. MaxEventArg THEN "E_ARGUMENT_RANGE"
            ELSE "none"
    BY DEF ArgumentError
  <2> HIDE DEF spec
  <2>3. RustRefusal(contract, entry.state, verb, arg)
          = IF verb \notin contract.affordances THEN "E_UNDECLARED_AFFORDANCE"
            ELSE IF ArgumentError(spec.arg, arg) # "none" THEN ArgumentError(spec.arg, arg)
            ELSE IF ~(spec.requires \subseteq DOMAIN entry.state) THEN "E_NO_SEMANTICS" ELSE "none"
    BY <1>1, <2>2, Zenon DEF RustRefusal, spec
  <2>4. DeliveryError(contract, entry.state, verb, arg)
          = IF verb \notin contract.affordances THEN "E_UNDECLARED_AFFORDANCE"
            ELSE IF ArgumentError(spec.arg, arg) # "none" THEN ArgumentError(spec.arg, arg)
            ELSE IF ~(spec.requires \subseteq DOMAIN entry.state) THEN "E_NO_SEMANTICS" ELSE "none"
    BY <1>1, <2>1, Zenon DEF DeliveryError, spec
  <2> QED BY <2>3, <2>4
<1>2. CASE verb \notin DeclaredVerbs(contract)
  BY <1>2 DEF RustRefusal, DeliveryError
<1> QED BY <1>1, <1>2

\* An outcome a tick may reach: the worlds of both loops look like this.
Kept(contracts, outcome) ==
  /\ outcome = Outcome(outcome.world, outcome.error)
  /\ outcome.world = [entity \in DOMAIN contracts |-> outcome.world[entity]]
  /\ \A entity \in DOMAIN contracts : Whole(contracts[entity], outcome.world[entity])

AllSound(contracts) == \A entity \in DOMAIN contracts : Sound(contracts[entity])

Replaced(outcome, entity, entry) == [outcome EXCEPT !.world[entity] = entry]

LEMMA ReplacedKept ==
  ASSUME NEW contracts, NEW outcome, Kept(contracts, outcome),
         NEW entity \in DOMAIN contracts, NEW entry
  PROVE  /\ Replaced(outcome, entity, entry).error = outcome.error
         /\ Replaced(outcome, entity, entry).world[entity] = entry
         /\ Replaced(outcome, entity, outcome.world[entity]) = outcome
         /\ \A next : Replaced(Replaced(outcome, entity, entry), entity, next)
                        = Replaced(outcome, entity, next)
         /\ Whole(contracts[entity], entry) => Kept(contracts, Replaced(outcome, entity, entry))
<1> DEFINE w == outcome.world
           put(x) == [e \in DOMAIN contracts |-> IF e = entity THEN x ELSE w[e]]
<1>1. outcome = Outcome(w, outcome.error) /\ w = [e \in DOMAIN contracts |-> w[e]]
  BY DEF Kept
<1>2. \A x : Replaced(outcome, entity, x) = Outcome(put(x), outcome.error)
  <2> SUFFICES ASSUME NEW x PROVE Replaced(outcome, entity, x) = Outcome(put(x), outcome.error)
    OBVIOUS
  <2>1. [w EXCEPT ![entity] = x] = put(x)
    <3> HIDE DEF w
    <3> QED BY <1>1
  <2>2. Replaced(outcome, entity, x) = [outcome EXCEPT !.world = [w EXCEPT ![entity] = x]]
    BY DEF Replaced
  <2> HIDE DEF w, put
  <2>3. [outcome EXCEPT !.world = put(x)] = Outcome(put(x), outcome.error)
    BY <1>1 DEF Outcome
  <2> QED BY <2>1, <2>2, <2>3
<1>3. put(w[entity]) = w
  <2> HIDE DEF w
  <2> QED BY <1>1
<1>4. \A x, next : Replaced(Outcome(put(x), outcome.error), entity, next)
                     = Outcome(put(next), outcome.error)
  <2> SUFFICES ASSUME NEW x, NEW next
               PROVE  Replaced(Outcome(put(x), outcome.error), entity, next)
                        = Outcome(put(next), outcome.error)
    OBVIOUS
  <2>1. [put(x) EXCEPT ![entity] = next] = put(next)
    <3> HIDE DEF w
    <3> QED OBVIOUS
  <2> HIDE DEF put
  <2> QED BY <2>1 DEF Replaced, Outcome
<1>5. put(entry)[entity] = entry
  OBVIOUS
<1>6. Whole(contracts[entity], entry) => Kept(contracts, Outcome(put(entry), outcome.error))
  <2> SUFFICES ASSUME Whole(contracts[entity], entry)
               PROVE  Kept(contracts, Outcome(put(entry), outcome.error))
    OBVIOUS
  <2>1. \A e \in DOMAIN contracts : Whole(contracts[e], put(entry)[e])
    BY DEF Kept
  <2>2. put(entry) = [e \in DOMAIN contracts |-> put(entry)[e]]
    OBVIOUS
  <2> HIDE DEF put
  <2> QED BY <2>1, <2>2 DEF Kept, Outcome
<1> HIDE DEF put, w
<1>7. \A x : Outcome(x, outcome.error).error = outcome.error /\ Outcome(x, outcome.error).world = x
  BY DEF Outcome
<1> QED BY <1>1, <1>2, <1>3, <1>4, <1>5, <1>6, <1>7 DEF w

\* The loop over the effects: one entry in Rust, a whole world in Python.
LEMMA SameEffects ==
  ASSUME NEW contracts, AllSound(contracts),
         NEW outcome, Kept(contracts, outcome), outcome.error = "none",
         NEW entity \in DOMAIN contracts,
         NEW verb \in DeclaredVerbs(contracts[entity]), NEW arg,
         SpecOf(contracts[entity], verb).arg = "count" => IsInt(arg)
  PROVE  LET contract == contracts[entity]
             effects  == SpecOf(contract, verb).effects
             after(n) == RustAffected(outcome.world[entity], effects, arg, contract.params, n)
         IN \A n \in 0 .. Len(effects) :
              /\ Affected(outcome, effects, entity, arg, contract.params, n)
                   = Replaced(outcome, entity, after(n))
              /\ Whole(contract, after(n))
<1> DEFINE contract == contracts[entity]
           params == contract.params
           kind == SpecOf(contract, verb).arg
           effects == SpecOf(contract, verb).effects
           N == Len(effects)
           Rs(n) == RustAffected(outcome.world[entity], effects, arg, params, n)
           Py(n) == Affected(outcome, effects, entity, arg, params, n)
           S == {n \in Nat : n <= N => /\ Py(n) = Replaced(outcome, entity, Rs(n))
                                       /\ Whole(contract, Rs(n))}
<1>1. Sound(contract) /\ SpecSound(SpecOf(contract, verb), contract)
  BY DEF AllSound, Sound
<1>2. N \in Nat /\ \A i \in 1 .. N : EffectSound(effects[i], contract, kind)
  BY <1>1 DEF SpecSound
<1>3. /\ Rs(0) = outcome.world[entity]
      /\ \A n \in 1 .. N : Rs(n) = RustEffect(effects[n], arg, Rs(n - 1), params)
  <2> HIDE DEF effects, params
  <2> QED BY <1>2, RustAffectedPasses
<1>4. /\ Py(0) = outcome
      /\ \A n \in 1 .. N : Py(n) = AfterEffect(Py(n - 1), effects[n], entity, arg, params)
  <2> HIDE DEF effects, params
  <2> QED BY <1>2, AffectedPasses
<1> HIDE DEF Rs, Py, N, effects
<1>5. 0 \in S
  <2>1. Replaced(outcome, entity, outcome.world[entity]) = outcome
    BY ReplacedKept
  <2>2. Whole(contract, outcome.world[entity])
    BY DEF Kept
  <2> QED BY <1>3, <1>4, <2>1, <2>2
<1>6. ASSUME NEW n \in Nat, n \in S PROVE n + 1 \in S
  <2> SUFFICES ASSUME n + 1 <= N
               PROVE  /\ Py(n + 1) = Replaced(outcome, entity, Rs(n + 1))
                      /\ Whole(contract, Rs(n + 1))
    OBVIOUS
  <2>1. /\ n + 1 \in 1 .. N /\ (n + 1) - 1 = n
        /\ Py(n) = Replaced(outcome, entity, Rs(n)) /\ Whole(contract, Rs(n))
    BY <1>2, <1>6
  <2> DEFINE effect == effects[n + 1]
             x == Rs(n)
             y == ApplyEffect(effect, arg, x, params)
  <2>2. EffectSound(effect, contract, kind) /\ EntryTyped(contract, x)
    BY <1>2, <2>1 DEF Whole
  <2>3. Rs(n + 1) = y /\ Whole(contract, y)
    <3>1. Rs(n + 1) = RustEffect(effect, arg, x, params)
      BY <1>3, <2>1
    <3>2. kind = "count" => IsInt(arg)
      OBVIOUS
    <3> QED BY <1>1, <2>1, <2>2, <3>1, <3>2, SameEffect
  <2>4. ~EffectRaises(effect, arg, x.state, params)
    BY <1>1, <2>2, EffectNeverRaises
  <2>5. Py(n + 1) = AfterEffect(Replaced(outcome, entity, x), effect, entity, arg, params)
    BY <1>4, <2>1
  <2>6. /\ Replaced(outcome, entity, x).error = "none"
        /\ Replaced(outcome, entity, x).world[entity] = x
        /\ Replaced(Replaced(outcome, entity, x), entity, y) = Replaced(outcome, entity, y)
    BY ReplacedKept
  <2> HIDE DEF y
  <2>7. Py(n + 1) = Replaced(Replaced(outcome, entity, x), entity, y)
    <3>1. [Replaced(outcome, entity, x) EXCEPT !.world[entity] = ApplyEffect(effect, arg, @, params)]
            = [Replaced(outcome, entity, x) EXCEPT !.world[entity] = y]
      BY <2>6 DEF y
    <3> HIDE DEF x, effect
    <3> QED BY <2>4, <2>5, <2>6, <3>1 DEF AfterEffect, Replaced
  <2> QED BY <2>3, <2>6, <2>7
<1>7. Nat \subseteq S
  <2> HIDE DEF S
  <2> QED BY <1>5, <1>6, SetInduction
<1>8. \A n \in 0 .. N : Py(n) = Replaced(outcome, entity, Rs(n)) /\ Whole(contract, Rs(n))
  BY <1>2, <1>7
<1> QED BY <1>2, <1>8 DEF Rs, Py, N, effects

\* apply_event.
LEMMA SameDelivery ==
  ASSUME NEW contracts, AllSound(contracts),
         NEW outcome, Kept(contracts, outcome), NEW a, a.entity \in DOMAIN contracts
  PROVE  /\ RustDeliver(contracts, outcome, a) = DeliverTo(contracts, outcome, a.entity, a.verb, a.arg)
         /\ Kept(contracts, DeliverTo(contracts, outcome, a.entity, a.verb, a.arg))
<1> DEFINE entity == a.entity
           contract == contracts[entity]
           entry == outcome.world[entity]
           why == DeliveryError(contract, entry.state, a.verb, a.arg)
           spec == SpecOf(contract, a.verb)
           rust == RustEffects(contract, entry, a.verb, a.arg)
<1>1. Sound(contract) /\ EntryTyped(contract, entry) /\ Whole(contract, entry)
  BY DEF AllSound, Kept, Whole
<1>2. RustRefusal(contract, entry.state, a.verb, a.arg) = why
  BY <1>1, SameRefusal
<1>3. CASE outcome.error # "none"
  BY <1>3 DEF RustDeliver, DeliverTo
<1>4. CASE outcome.error = "none" /\ why # "none"
  <2>1. RustDeliver(contracts, outcome, a) = [outcome EXCEPT !.error = why]
    BY <1>2, <1>4 DEF RustDeliver
  <2>2. DeliverTo(contracts, outcome, entity, a.verb, a.arg) = [outcome EXCEPT !.error = why]
    BY <1>4 DEF DeliverTo, Delivered
  <2> HIDE DEF why
  <2>3. Kept(contracts, [outcome EXCEPT !.error = why])
    <3>1. [outcome EXCEPT !.error = why] = Outcome(outcome.world, why)
      BY DEF Kept, Outcome
    <3>2. Outcome(outcome.world, why).world = outcome.world /\ Outcome(outcome.world, why).error = why
      BY DEF Outcome
    <3> QED BY <3>1, <3>2 DEF Kept
  <2> QED BY <2>1, <2>2, <2>3
<1>5. CASE outcome.error = "none" /\ why = "none"
  <2>1. RustDeliver(contracts, outcome, a) = Replaced(outcome, entity, rust)
    BY <1>2, <1>5 DEF RustDeliver, Replaced
  <2>2. DeliverTo(contracts, outcome, entity, a.verb, a.arg)
          = AfterEffects(outcome, spec, entity, a.arg, contract.params)
    BY <1>5 DEF DeliverTo, Delivered
  <2>3. a.verb \in DeclaredVerbs(contract) /\ ArgumentError(spec.arg, a.arg) = "none"
    BY <1>5 DEF DeliveryError
  <2>4. spec.arg = "count" => IsInt(a.arg)
    BY <2>3, KernelConstants DEF ArgumentError, IsInt, I64
  <2>5. GuardsSound(spec.guards, contract, spec.arg)
    BY <1>1, <2>3 DEF Sound, SpecSound
  <2>6. RustGuardsHold(spec.guards, entry.state, contract.params)
          <=> GuardsHold(spec.guards, entry.state, contract.params)
    BY <1>1, <2>5, SameGuards
  <2>7. CASE ~GuardsHold(spec.guards, entry.state, contract.params)
    <3>1. rust = entry
      BY <2>6, <2>7 DEF RustEffects
    <3>2. AfterEffects(outcome, spec, entity, a.arg, contract.params) = outcome
      BY <2>7 DEF AfterEffects
    <3>3. Replaced(outcome, entity, entry) = outcome
      BY ReplacedKept
    <3> QED BY <2>1, <2>2, <3>1, <3>2, <3>3
  <2>8. CASE GuardsHold(spec.guards, entry.state, contract.params)
    <3>1. rust = RustAffected(entry, spec.effects, a.arg, contract.params, Len(spec.effects))
      BY <2>6, <2>8 DEF RustEffects
    <3>2. AfterEffects(outcome, spec, entity, a.arg, contract.params)
            = Affected(outcome, spec.effects, entity, a.arg, contract.params, Len(spec.effects))
      BY <2>8 DEF AfterEffects
    <3>3. /\ Affected(outcome, spec.effects, entity, a.arg, contract.params, Len(spec.effects))
               = Replaced(outcome, entity, rust)
          /\ Whole(contract, rust)
      <4>1. LET after == RustAffected(entry, spec.effects, a.arg, contract.params, Len(spec.effects))
            IN /\ Affected(outcome, spec.effects, entity, a.arg, contract.params, Len(spec.effects))
                    = Replaced(outcome, entity, after)
               /\ Whole(contract, after)
        <5>1. Len(spec.effects) \in 0 .. Len(spec.effects)
          BY <1>1, <2>3 DEF Sound, SpecSound
        <5> QED BY <1>5, <2>3, <2>4, <5>1, SameEffects
      <4> QED BY <3>1, <4>1
    <3>4. Kept(contracts, Replaced(outcome, entity, rust))
      BY <3>3, ReplacedKept
    <3> QED BY <2>1, <2>2, <3>2, <3>3, <3>4
  <2> QED BY <2>7, <2>8
<1> QED BY <1>3, <1>4, <1>5

-----------------------------------------------------------------------------
(* The loops of a tick. *)

LEMMA SameTold ==
  ASSUME NEW contracts, AllSound(contracts), NEW events, Len(events) \in Nat,
         \A i \in 1 .. Len(events) : events[i].entity \in DOMAIN contracts,
         NEW tick, NEW outcome, Kept(contracts, outcome)
  PROVE  /\ RustTold(contracts, events, tick, outcome, Len(events))
              = Told(contracts, events, tick, outcome, Len(events))
         /\ Kept(contracts, Told(contracts, events, tick, outcome, Len(events)))
<1> DEFINE N == Len(events)
           Rs(n) == RustTold(contracts, events, tick, outcome, n)
           Py(n) == Told(contracts, events, tick, outcome, n)
           S == {n \in Nat : n <= N => Rs(n) = Py(n) /\ Kept(contracts, Py(n))}
<1>1. /\ Rs(0) = outcome
      /\ \A n \in 1 .. N : Rs(n) = IF events[n].tick = tick THEN RustDeliver(contracts, Rs(n - 1), events[n])
                                                            ELSE Rs(n - 1)
  BY RustToldPasses
<1>2. /\ Py(0) = outcome
      /\ \A n \in 1 .. N : Py(n) = AfterEventOf(contracts, tick, Py(n - 1), events[n])
  BY ToldPasses
<1>3. N \in Nat /\ \A i \in 1 .. N : events[i].entity \in DOMAIN contracts
  OBVIOUS
<1> HIDE DEF Rs, Py, N
<1>4. 0 \in S
  BY <1>1, <1>2
<1>5. ASSUME NEW n \in Nat, n \in S PROVE n + 1 \in S
  <2> SUFFICES ASSUME n + 1 <= N PROVE Rs(n + 1) = Py(n + 1) /\ Kept(contracts, Py(n + 1))
    OBVIOUS
  <2>1. n + 1 \in 1 .. N /\ (n + 1) - 1 = n /\ Rs(n) = Py(n) /\ Kept(contracts, Py(n))
    BY <1>3, <1>5
  <2>2. events[n + 1].entity \in DOMAIN contracts
    BY <1>3, <2>1
  <2>3. LET e == events[n + 1]
        IN /\ RustDeliver(contracts, Py(n), e) = DeliverTo(contracts, Py(n), e.entity, e.verb, e.arg)
           /\ Kept(contracts, DeliverTo(contracts, Py(n), e.entity, e.verb, e.arg))
    BY <2>1, <2>2, SameDelivery
  <2>4. Rs(n + 1) = IF events[n + 1].tick = tick THEN RustDeliver(contracts, Py(n), events[n + 1]) ELSE Py(n)
    BY <1>1, <2>1
  <2>5. Py(n + 1) = AfterEventOf(contracts, tick, Py(n), events[n + 1])
    BY <1>2, <2>1
  <2> QED BY <2>1, <2>3, <2>4, <2>5 DEF AfterEventOf
<1>6. N \in S
  <2> HIDE DEF S
  <2>1. Nat \subseteq S
    BY <1>4, <1>5, SetInduction
  <2> QED BY <1>3, <2>1
<1> QED BY <1>3, <1>6 DEF Rs, Py, N

LEMMA SameActed ==
  ASSUME NEW contracts, AllSound(contracts), NEW acts, Len(acts) \in Nat,
         \A i \in 1 .. Len(acts) : acts[i].entity \in DOMAIN contracts,
         NEW outcome, Kept(contracts, outcome)
  PROVE  \A n \in 0 .. Len(acts) :
           /\ RustActed(contracts, acts, outcome, n) = Acted(contracts, acts, outcome, n)
           /\ Kept(contracts, Acted(contracts, acts, outcome, n))
<1> DEFINE N == Len(acts)
           Rs(n) == RustActed(contracts, acts, outcome, n)
           Py(n) == Acted(contracts, acts, outcome, n)
           S == {n \in Nat : n <= N => Rs(n) = Py(n) /\ Kept(contracts, Py(n))}
<1>1. Rs(0) = outcome /\ \A n \in 1 .. N : Rs(n) = RustDeliver(contracts, Rs(n - 1), acts[n])
  BY RustActedPasses
<1>2. /\ Py(0) = outcome
      /\ \A n \in 1 .. N :
           Py(n) = DeliverTo(contracts, Py(n - 1), acts[n].entity, acts[n].verb, acts[n].arg)
  BY ActedPasses
<1>3. N \in Nat /\ \A i \in 1 .. N : acts[i].entity \in DOMAIN contracts
  OBVIOUS
<1> HIDE DEF Rs, Py, N
<1>4. 0 \in S
  BY <1>1, <1>2
<1>5. ASSUME NEW n \in Nat, n \in S PROVE n + 1 \in S
  <2> SUFFICES ASSUME n + 1 <= N PROVE Rs(n + 1) = Py(n + 1) /\ Kept(contracts, Py(n + 1))
    OBVIOUS
  <2>1. n + 1 \in 1 .. N /\ (n + 1) - 1 = n /\ Rs(n) = Py(n) /\ Kept(contracts, Py(n))
    BY <1>3, <1>5
  <2>2. acts[n + 1].entity \in DOMAIN contracts
    BY <1>3, <2>1
  <2>3. LET a == acts[n + 1]
        IN /\ RustDeliver(contracts, Py(n), a) = DeliverTo(contracts, Py(n), a.entity, a.verb, a.arg)
           /\ Kept(contracts, DeliverTo(contracts, Py(n), a.entity, a.verb, a.arg))
    BY <2>1, <2>2, SameDelivery
  <2> QED BY <1>1, <1>2, <2>1, <2>3
<1>6. \A n \in 0 .. N : n \in S
  <2> HIDE DEF S
  <2>1. Nat \subseteq S
    BY <1>4, <1>5, SetInduction
  <2> QED BY <1>3, <2>1
<1> QED BY <1>3, <1>6 DEF Rs, Py, N

\* A variable of the schema that the contract does not declare is the door's.
LEMMA SchemaDoor ==
  ASSUME NEW contract, NEW name \in DOMAIN Schema(contract), name \notin DOMAIN contract.state
  PROVE  Schema(contract)[name] \in {"int", "bool"}
<1>1. contract.version # "0.2"
  BY DEF Schema
<1>2. name \in DOMAIN DoorTypes /\ Schema(contract)[name] = DoorTypes[name]
  BY <1>1 DEF Schema
<1>3. \A door \in DOMAIN DoorTypes : DoorTypes[door] \in {"int", "bool"}
  BY DEF DoorTypes
<1> QED BY <1>2, <1>3

\* clause_holds: validate_clause compares numbers with integers only.
LEMMA SameClause ==
  ASSUME NEW contracts, AllSound(contracts),
         NEW outcome, Kept(contracts, outcome),
         NEW clause, ClauseOK(clause, contracts)
  PROVE  RustClauseHolds(clause, outcome.world) <=> ClauseHolds(clause, outcome.world)
<1> DEFINE contract == contracts[clause.entity]
           entry == outcome.world[clause.entity]
           values == IF clause.on = "control" THEN entry.control ELSE entry.state
           guard == [var |-> clause.name, test |-> clause.test, against |-> Const(clause.literal)]
           wanted == clause.literal
           actual == IF clause.name \in DOMAIN values THEN values[clause.name] ELSE TypedZero(wanted)
           varType == IF clause.on = "control" THEN "int" ELSE contract.state[clause.name]
<1>1. clause.entity \in DOMAIN contracts /\ IsLiteral(wanted)
  BY DEF ClauseOK
<1>2. Sound(contract) /\ EntryTyped(contract, entry)
  BY <1>1 DEF AllSound, Kept, Whole
<1>3. clause.test \in {"gt", "lt"} => TypeOf(wanted) = "int" /\ varType = "int"
  BY DEF ClauseOK
<1>4. clause.test \in {"gt", "lt"} /\ TypeOf(actual) # "bool" => TypeOf(actual) = "int"
  <2> SUFFICES ASSUME clause.test \in {"gt", "lt"}, TypeOf(actual) # "bool"
               PROVE  TypeOf(actual) = "int"
    OBVIOUS
  <2>1. CASE clause.name \notin DOMAIN values
    BY <1>3, <2>1 DEF TypedZero, Zero, IntV, TypeOf
  <2>2. CASE clause.name \in DOMAIN values /\ clause.on = "control"
    BY <1>2, <2>2 DEF EntryTyped, HasType
  <2>3. CASE clause.name \in DOMAIN values /\ clause.on # "control"
    <3>1. /\ clause.name \in DOMAIN Schema(contract)
          /\ HasType(actual, Schema(contract)[clause.name])
      BY <1>2, <2>3 DEF EntryTyped
    <3>2. CASE clause.name \in DOMAIN contract.state
      <4>1. Schema(contract)[clause.name] = "int"
        BY <1>2, <1>3, <2>3, <3>2 DEF Sound
      <4> QED BY <3>1, <4>1 DEF HasType
    <3>3. CASE clause.name \notin DOMAIN contract.state
      <4>1. Schema(contract)[clause.name] \in {"int", "bool"}
        BY <3>1, <3>3, SchemaDoor
      <4> HIDE DEF actual, contract, values
      <4> QED BY <3>1, <4>1 DEF HasType
    <3> QED BY <3>2, <3>3
  <2> QED BY <2>1, <2>2, <2>3
<1>5. /\ RustResolve(guard.against, NoValue, values, <<>>) = wanted
      /\ Resolve(guard.against, NoValue, values, <<>>) = wanted
  BY DEF RustResolve, Resolve, Const
<1> HIDE DEF wanted, values, entry
<1>6. /\ RustGuardHolds(guard, values, <<>>) <=>
           \/ clause.test = "exists" /\ (clause.name \in DOMAIN values) = Raw(wanted)
           \/ clause.test = "equals" /\ actual = wanted
           \/ /\ clause.test \in {"gt", "lt"}
              /\ "bool" \notin {TypeOf(actual), TypeOf(wanted)}
              /\ IF clause.test = "gt" THEN AsI64(actual, 0) > AsI64(wanted, 0)
                                       ELSE AsI64(actual, 0) < AsI64(wanted, 0)
  BY <1>5, Zenon DEF RustGuardHolds, Const, wanted
<1>7. /\ GuardHolds(guard, values, <<>>) <=>
           \/ clause.test = "exists" /\ (clause.name \in DOMAIN values) = Raw(wanted)
           \/ clause.test = "equals" /\ actual = wanted
           \/ /\ clause.test \in {"gt", "lt"}
              /\ "bool" \notin {TypeOf(actual), TypeOf(wanted)}
              /\ IF clause.test = "gt" THEN Raw(actual) > Raw(wanted) ELSE Raw(actual) < Raw(wanted)
  BY <1>5, Zenon DEF GuardHolds, Actual, Wanted, Const, wanted
<1>8. clause.test \in {"gt", "lt"} /\ TypeOf(actual) # "bool"
        => AsI64(actual, 0) = Raw(actual) /\ AsI64(wanted, 0) = Raw(wanted)
  BY <1>3, <1>4 DEF AsI64
<1>9. RustGuardHolds(guard, values, <<>>) <=> GuardHolds(guard, values, <<>>)
  <2> HIDE DEF actual, guard
  <2> QED BY <1>6, <1>7, <1>8
<1>10. /\ RustClauseHolds(clause, outcome.world) <=> RustGuardHolds(guard, values, <<>>)
       /\ ClauseHolds(clause, outcome.world) <=> GuardHolds(guard, values, <<>>)
  BY DEF RustClauseHolds, ClauseHolds, values, entry
<1> QED BY <1>9, <1>10

LEMMA SameWire ==
  ASSUME NEW contracts, AllSound(contracts),
         NEW outcome, Kept(contracts, outcome),
         NEW one, WireOK(one, contracts), Len(one.then) \in Nat
  PROVE  /\ RustWire(contracts, outcome, one) = AfterWire(contracts, outcome, one)
         /\ Kept(contracts, AfterWire(contracts, outcome, one))
<1>1. \A i \in 1 .. Len(one.when) :
        RustClauseHolds(one.when[i], outcome.world) <=> ClauseHolds(one.when[i], outcome.world)
  BY SameClause DEF WireOK
<1>2. \A i \in 1 .. Len(one.then) : one.then[i].entity \in DOMAIN contracts
  BY DEF WireOK, ActOK
<1>3. /\ RustActed(contracts, one.then, outcome, Len(one.then))
           = Acted(contracts, one.then, outcome, Len(one.then))
      /\ Kept(contracts, Acted(contracts, one.then, outcome, Len(one.then)))
  <2>1. Len(one.then) \in 0 .. Len(one.then)
    OBVIOUS
  <2> QED BY <1>2, <2>1, SameActed
<1> QED BY <1>1, <1>3 DEF RustWire, AfterWire

LEMMA SameCoupled ==
  ASSUME NEW contracts, AllSound(contracts), NEW wires, Len(wires) \in Nat,
         WiresOK(wires, contracts), \A i \in 1 .. Len(wires) : Len(wires[i].then) \in Nat,
         NEW outcome, Kept(contracts, outcome)
  PROVE  \A n \in 0 .. Len(wires) :
           /\ RustCoupled(contracts, wires, outcome, n) = Coupled(contracts, wires, outcome, n)
           /\ Kept(contracts, Coupled(contracts, wires, outcome, n))
<1> DEFINE N == Len(wires)
           Rs(n) == RustCoupled(contracts, wires, outcome, n)
           Py(n) == Coupled(contracts, wires, outcome, n)
           S == {n \in Nat : n <= N => Rs(n) = Py(n) /\ Kept(contracts, Py(n))}
<1>1. Rs(0) = outcome /\ \A n \in 1 .. N : Rs(n) = RustWire(contracts, Rs(n - 1), wires[n])
  BY RustCoupledPasses
<1>2. Py(0) = outcome /\ \A n \in 1 .. N : Py(n) = AfterWire(contracts, Py(n - 1), wires[n])
  BY CoupledPasses
<1>3. N \in Nat /\ \A i \in 1 .. N : WireOK(wires[i], contracts) /\ Len(wires[i].then) \in Nat
  BY DEF WiresOK
<1> HIDE DEF Rs, Py, N
<1>4. 0 \in S
  BY <1>1, <1>2
<1>5. ASSUME NEW n \in Nat, n \in S PROVE n + 1 \in S
  <2> SUFFICES ASSUME n + 1 <= N PROVE Rs(n + 1) = Py(n + 1) /\ Kept(contracts, Py(n + 1))
    OBVIOUS
  <2>1. n + 1 \in 1 .. N /\ (n + 1) - 1 = n /\ Rs(n) = Py(n) /\ Kept(contracts, Py(n))
    BY <1>3, <1>5
  <2>2. WireOK(wires[n + 1], contracts) /\ Len(wires[n + 1].then) \in Nat
    BY <1>3, <2>1
  <2>3. /\ RustWire(contracts, Py(n), wires[n + 1]) = AfterWire(contracts, Py(n), wires[n + 1])
        /\ Kept(contracts, AfterWire(contracts, Py(n), wires[n + 1]))
    BY <2>1, <2>2, SameWire
  <2> QED BY <1>1, <1>2, <2>1, <2>3
<1>6. \A n \in 0 .. N : n \in S
  <2> HIDE DEF S
  <2>1. Nat \subseteq S
    BY <1>4, <1>5, SetInduction
  <2> QED BY <1>3, <2>1
<1> QED BY <1>3, <1>6 DEF Rs, Py, N

\* step_entity.
LEMMA SameStep ==
  ASSUME NEW contract, Sound(contract), NEW entry, Whole(contract, entry)
  PROVE  /\ RustStep(contract, entry) = StepEntity(contract, entry)
         /\ Whole(contract, StepEntity(contract, entry))
         /\ ~StepRaises(contract, entry)
<1> DEFINE list == Semantics(contract).integrators
           N == Len(list)
           Rs(n) == RustStepped(contract, entry, n)
           Py(n) == Stepped(contract, entry, n)
           S == {n \in Nat : n <= N => Rs(n) = Py(n) /\ Whole(contract, Py(n))}
<1>1. N \in Nat /\ \A i \in 1 .. N : IntegratorSound(list[i], contract)
  BY DEF Sound
<1>2. Rs(0) = entry /\ \A n \in 1 .. N : Rs(n) = RustIntegrate(list[n], Rs(n - 1), contract.params)
  BY <1>1, RustSteppedPasses
<1>3. Py(0) = entry /\ \A n \in 1 .. N : Py(n) = Integrate(list[n], Py(n - 1), contract.params)
  BY <1>1, SteppedPasses
<1> HIDE DEF Rs, Py, N, list
<1>4. 0 \in S
  BY <1>2, <1>3
<1>5. ASSUME NEW n \in Nat, n \in S PROVE n + 1 \in S
  <2> SUFFICES ASSUME n + 1 <= N PROVE Rs(n + 1) = Py(n + 1) /\ Whole(contract, Py(n + 1))
    OBVIOUS
  <2>1. n + 1 \in 1 .. N /\ (n + 1) - 1 = n /\ Rs(n) = Py(n) /\ Whole(contract, Py(n))
    BY <1>1, <1>5
  <2>2. /\ RustIntegrate(list[n + 1], Py(n), contract.params)
             = Integrate(list[n + 1], Py(n), contract.params)
        /\ Whole(contract, Integrate(list[n + 1], Py(n), contract.params))
    BY <1>1, <2>1, SameIntegrate
  <2> QED BY <1>2, <1>3, <2>1, <2>2
<1>6. Nat \subseteq S
  <2> HIDE DEF S
  <2> QED BY <1>4, <1>5, SetInduction
<1>7. N \in S
  <2> HIDE DEF S
  <2> QED BY <1>1, <1>6
<1>8. \A i \in 1 .. N : ~IntegrateRaises(list[i], Py(i - 1), contract.params)
  <2> SUFFICES ASSUME NEW i \in 1 .. N
               PROVE  ~IntegrateRaises(list[i], Py(i - 1), contract.params)
    OBVIOUS
  <2>1. i - 1 \in Nat /\ i - 1 <= N
    BY <1>1
  <2>2. Whole(contract, Py(i - 1))
    BY <1>6, <2>1
  <2> QED BY <1>1, <2>2, SameIntegrate
<1> QED BY <1>1, <1>7, <1>8 DEF Rs, Py, N, list, RustStep, StepEntity, StepRaises

\* One pass of the two loops over the ticks.
LEMMA SameTick ==
  ASSUME NEW contracts, AllSound(contracts),
         NEW wires, Len(wires) \in Nat, WiresOK(wires, contracts),
         \A i \in 1 .. Len(wires) : Len(wires[i].then) \in Nat,
         NEW events, Len(events) \in Nat,
         \A i \in 1 .. Len(events) : events[i].entity \in DOMAIN contracts,
         NEW before, Kept(contracts, Outcome(before, "none")), NEW tick
  PROVE  /\ RustTick(contracts, wires, before, events, tick)
              = TickOf(contracts, wires, before, events, tick)
         /\ Kept(contracts, TickOf(contracts, wires, before, events, tick))
<1> DEFINE told == Told(contracts, events, tick, Outcome(before, "none"), Len(events))
           wired == Coupled(contracts, wires, told, Len(wires))
           moved == [e \in DOMAIN contracts |-> StepEntity(contracts[e], wired.world[e])]
<1>1. /\ RustTold(contracts, events, tick, Outcome(before, "none"), Len(events)) = told
      /\ Kept(contracts, told)
  BY SameTold
<1> HIDE DEF told
<1>2. RustCoupled(contracts, wires, told, Len(wires)) = wired /\ Kept(contracts, wired)
  <2>1. Len(wires) \in 0 .. Len(wires)
    OBVIOUS
  <2> QED BY <1>1, <2>1, SameCoupled
<1>3. DOMAIN before = DOMAIN contracts
  <2>1. Outcome(before, "none").world = before
    BY DEF Outcome
  <2> QED BY <2>1 DEF Kept
<1> HIDE DEF wired
<1>4. \A e \in DOMAIN contracts :
        /\ RustStep(contracts[e], wired.world[e]) = StepEntity(contracts[e], wired.world[e])
        /\ Whole(contracts[e], StepEntity(contracts[e], wired.world[e]))
        /\ ~StepRaises(contracts[e], wired.world[e])
  BY <1>2, SameStep DEF Kept, AllSound
<1>5. TickOf(contracts, wires, before, events, tick)
        = IF wired.error # "none" THEN wired ELSE Outcome(moved, "none")
  BY <1>3, <1>4 DEF TickOf, ApplyWires, told, wired
<1>6. RustTick(contracts, wires, before, events, tick)
        = IF wired.error # "none" THEN wired
          ELSE [wired EXCEPT !.world = [e \in DOMAIN before |-> RustStep(contracts[e], wired.world[e])]]
  BY <1>1, <1>2 DEF RustTick
<1>7. [e \in DOMAIN before |-> RustStep(contracts[e], wired.world[e])] = moved
  BY <1>3, <1>4
<1>8. \A e \in DOMAIN contracts : Whole(contracts[e], moved[e])
  BY <1>4
<1>9. moved = [e \in DOMAIN contracts |-> moved[e]]
  OBVIOUS
<1> HIDE DEF moved
<1>10. wired.error = "none" => [wired EXCEPT !.world = moved] = Outcome(moved, "none")
  BY <1>2 DEF Kept, Outcome
<1>11. Kept(contracts, Outcome(moved, "none"))
  BY <1>8, <1>9 DEF Kept, Outcome
<1> QED BY <1>2, <1>5, <1>6, <1>7, <1>10, <1>11

-----------------------------------------------------------------------------
(* Navigation. *)

\* Rules read integers, and `destroyed` is a bool where it exempts: what neither
\* validator asks of a 0.2 contract (kernel.py:540).
NavigationTyped(contract) ==
  LET schema == Schema(contract)
      rules  == contract.navigation.blocksBelow
  IN /\ \A i \in 1 .. Len(rules) : rules[i].var \in DOMAIN schema => schema[rules[i].var] = "int"
     /\ contract.navigation.neverBlocksWhenDestroyed /\ "destroyed" \in DOMAIN schema
          => schema["destroyed"] = "bool"

\* blocks_navigation.
LEMMA SameNavigation ==
  ASSUME NEW contract, NavigationTyped(contract), NEW entry, EntryTyped(contract, entry)
  PROVE  RustBlocks(contract, entry.state) <=> BlocksNavigation(contract, entry.state)
<1> DEFINE state == entry.state
           rules == contract.navigation.blocksBelow
           never == contract.navigation.neverBlocksWhenDestroyed
<1>1. never /\ "destroyed" \in DOMAIN state
        => (AsBool(state["destroyed"]) <=> Truthy(state["destroyed"]))
  <2> SUFFICES ASSUME never, "destroyed" \in DOMAIN state
               PROVE  AsBool(state["destroyed"]) <=> Truthy(state["destroyed"])
    OBVIOUS
  <2>1. HasType(state["destroyed"], "bool")
    BY DEF NavigationTyped, EntryTyped
  <2> DEFINE held == Raw(state["destroyed"])
  <2>2. held \in BOOLEAN /\ TypeOf(state["destroyed"]) = "bool" /\ state["destroyed"] = <<"bool", held>>
    BY <2>1 DEF HasType, IsLiteral, IsInt
  <2>3. Truthy(state["destroyed"]) <=> held # FALSE
    BY <2>2 DEF Truthy, TypedZero, Zero, BoolV, Raw
  <2>4. AsBool(state["destroyed"]) <=> <<"bool", held>> = <<"bool", TRUE>>
    BY <2>2 DEF AsBool, BoolV
  <2>5. CASE held = TRUE
    BY <2>3, <2>4, <2>5
  <2>6. CASE held = FALSE
    <3>1. <<"bool", FALSE>> # <<"bool", TRUE>>
      OBVIOUS
    <3> QED BY <2>3, <2>4, <2>6, <3>1, Zenon
  <2> QED BY <2>2, <2>5, <2>6
<1>2. \A i \in 1 .. Len(rules) :
        Reads(rules[i], state)
          = IF rules[i].var \in DOMAIN state THEN ToInt(state[rules[i].var]) ELSE Quantum
  <2> SUFFICES ASSUME NEW i \in 1 .. Len(rules), rules[i].var \in DOMAIN state
               PROVE  AsI64(state[rules[i].var], Quantum) = ToInt(state[rules[i].var])
    BY DEF Reads
  <2>1. HasType(state[rules[i].var], "int")
    BY DEF NavigationTyped, EntryTyped
  <2> QED BY <2>1, SameInt
<1>3. \A i \in 1 .. Len(rules) : Reads(rules[i], state) < rules[i].threshold <=> RuleBlocks(rules[i], state)
  <2> SUFFICES ASSUME NEW i \in 1 .. Len(rules)
               PROVE  Reads(rules[i], state) < rules[i].threshold <=> RuleBlocks(rules[i], state)
    OBVIOUS
  <2> DEFINE value == IF rules[i].var \in DOMAIN state THEN ToInt(state[rules[i].var]) ELSE Quantum
  <2>1. Reads(rules[i], state) = value
    BY <1>2
  <2>2. RuleBlocks(rules[i], state) <=> rules[i].threshold > value
    BY DEF RuleBlocks
  <2> HIDE DEF value
  <2>3. Reads(rules[i], state) < rules[i].threshold <=> value < rules[i].threshold
    BY <2>1
  <2> QED BY <2>2, <2>3
<1> HIDE DEF state, rules, never
<1>4. RustBlocks(contract, state) <=>
        /\ ~(never /\ "destroyed" \in DOMAIN state /\ AsBool(state["destroyed"]))
        /\ \E i \in 1 .. Len(rules) : Reads(rules[i], state) < rules[i].threshold
  BY DEF RustBlocks, rules, never
<1>5. BlocksNavigation(contract, state) <=>
        /\ ~(never /\ "destroyed" \in DOMAIN state /\ Truthy(state["destroyed"]))
        /\ \E i \in 1 .. Len(rules) : RuleBlocks(rules[i], state)
  BY DEF BlocksNavigation, Exempt, rules, never
<1> QED BY <1>1, <1>3, <1>4, <1>5 DEF state

-----------------------------------------------------------------------------
(* What the door's effects do to an entry.                                 *)

LEMMA NoGuards ==
  ASSUME NEW state, NEW params
  PROVE  GuardsHold(<<>>, state, params)
  BY DEF GuardsHold

\* What the door's effects do to an entry.
LEMMA AimDoes ==
  ASSUME NEW entry, NEW n, NEW when, NEW arg, NEW params
  PROVE  ApplyEffect(Aim(n, when), arg, entry, params)
           = IF GuardsHold(when, entry.state, params)
             THEN [state |-> entry.state, control |-> Put(entry.control, "openness_target", IntV(n))]
             ELSE entry
  BY DEF ApplyEffect, Aim, Effect, Resolve, Const

LEMMA SetBoolDoes ==
  ASSUME NEW entry, NEW var, NEW b, NEW when, NEW arg, NEW params
  PROVE  ApplyEffect(SetBool(var, b, when), arg, entry, params)
           = IF GuardsHold(when, entry.state, params)
             THEN [state |-> Put(entry.state, var, BoolV(b)), control |-> entry.control]
             ELSE entry
  BY DEF ApplyEffect, SetBool, Effect, Resolve, Const

LEMMA AddDoes ==
  ASSUME NEW entry, NEW effect \in {Damage, Mend}, NEW arg, NEW params
  PROVE  \E v : ApplyEffect(effect, arg, entry, params)
                  = [state |-> Put(entry.state, "health", v), control |-> entry.control]
<1>1. effect.op = "add" /\ effect.when = <<>> /\ effect.target = "health"
  BY DEF Damage, Mend, Effect
<1> QED BY <1>1, NoGuards DEF ApplyEffect

LEMMA PutElsewhere ==
  ASSUME NEW f, NEW k, NEW v, NEW x, x # k
  PROVE  (x \in DOMAIN Put(f, k, v) <=> x \in DOMAIN f) /\ (x \in DOMAIN f => Put(f, k, v)[x] = f[x])
  BY DEF Put

LEMMA PutThere ==
  ASSUME NEW f, NEW k, NEW v
  PROVE  k \in DOMAIN Put(f, k, v) /\ Put(f, k, v)[k] = v
  BY DEF Put

-----------------------------------------------------------------------------
(* The worlds between the ticks of a project whose files have loaded.      *)

AllLoaded(contracts) ==
  \A entity \in DOMAIN contracts : ContractOK(contracts[entity]) /\ Sound(contracts[entity])

\* A door whose `attack` and `repair` the kernel refuses.
Healthless(contract) == contract.version = "0.1" /\ "health" \notin DOMAIN contract.state

\* Nothing has failed, every entry is typed, and a door without health has not come by any.
Steady(contracts, outcome) ==
  /\ Kept(contracts, outcome) /\ outcome.error = "none"
  /\ \A entity \in DOMAIN contracts :
       Healthless(contracts[entity]) => "health" \notin DOMAIN outcome.world[entity].state

\* The door's verbs that need no health have one effect, which gives none.
LEMMA PlainVerbs ==
  ASSUME NEW verb \in DOMAIN DoorAffordances, ~({"health"} \subseteq DoorAffordances[verb].requires)
  PROVE  LET effects == DoorAffordances[verb].effects
         IN /\ Len(effects) = 1
            /\ \A arg, entry, params :
                 "health" \notin DOMAIN entry.state
                   => "health" \notin DOMAIN ApplyEffect(effects[1], arg, entry, params).state
<1> DEFINE spec == DoorAffordances[verb]
<1>1. verb \in {"open", "close", "lock", "unlock"}
  BY DEF DoorAffordances, Verb
<1>2. ASSUME NEW effect, spec.effects = <<effect>>,
             (\E n : effect = Aim(n, <<>>)) \/ (\E b : effect = SetBool("locked", b, <<>>))
      PROVE  /\ Len(spec.effects) = 1
             /\ \A arg, entry, params :
                  "health" \notin DOMAIN entry.state
                    => "health" \notin DOMAIN ApplyEffect(spec.effects[1], arg, entry, params).state
  <2>1. Len(spec.effects) = 1 /\ spec.effects[1] = effect
    BY <1>2
  <2> SUFFICES ASSUME NEW arg, NEW entry, NEW params, "health" \notin DOMAIN entry.state
               PROVE  "health" \notin DOMAIN ApplyEffect(effect, arg, entry, params).state
    BY <2>1
  <2>2. GuardsHold(<<>>, entry.state, params)
    BY NoGuards
  <2>3. CASE \E n : effect = Aim(n, <<>>)
    BY <2>2, <2>3, AimDoes
  <2>4. CASE \E b : effect = SetBool("locked", b, <<>>)
    <3>1. PICK b : effect = SetBool("locked", b, <<>>)
      BY <2>4
    <3>2. ApplyEffect(effect, arg, entry, params).state = Put(entry.state, "locked", BoolV(b))
      BY <2>2, <3>1, SetBoolDoes
    <3> QED BY <3>2, PutElsewhere
  <2> QED BY <1>2, <2>3, <2>4
<1>3. CASE verb = "open"
  <2>1. spec.effects = <<Aim(Quantum, <<>>)>>
    BY <1>3 DEF DoorAffordances, Verb
  <2> QED BY <1>2, <2>1
<1>4. CASE verb = "close"
  <2>1. spec.effects = <<Aim(0, <<>>)>>
    BY <1>4 DEF DoorAffordances, Verb
  <2> QED BY <1>2, <2>1
<1>5. CASE verb = "lock"
  <2>1. spec.effects = <<SetBool("locked", TRUE, <<>>)>>
    BY <1>5 DEF DoorAffordances, Verb
  <2> QED BY <1>2, <2>1
<1>6. CASE verb = "unlock"
  <2>1. spec.effects = <<SetBool("locked", FALSE, <<>>)>>
    BY <1>6 DEF DoorAffordances, Verb
  <2> QED BY <1>2, <2>1
<1> QED BY <1>1, <1>3, <1>4, <1>5, <1>6

\* apply_event, in such a world: it is refused, or leaves one.
LEMMA DeliverySteady ==
  ASSUME NEW contracts, AllLoaded(contracts), NEW outcome, Steady(contracts, outcome),
         NEW entity \in DOMAIN contracts, NEW verb, NEW arg
  PROVE  LET next == DeliverTo(contracts, outcome, entity, verb, arg)
         IN IF DeliveryError(contracts[entity], outcome.world[entity].state, verb, arg) = "none"
            THEN Steady(contracts, next) ELSE next.error # "none"
<1> DEFINE contract == contracts[entity]
           entry == outcome.world[entity]
           why == DeliveryError(contract, entry.state, verb, arg)
           spec == SpecOf(contract, verb)
           next == DeliverTo(contracts, outcome, entity, verb, arg)
<1>0. AllSound(contracts) /\ Kept(contracts, outcome) /\ outcome.error = "none"
  BY DEF AllLoaded, AllSound, Steady
<1>1. Kept(contracts, next)
  <2> DEFINE a == [entity |-> entity, verb |-> verb, arg |-> arg]
  <2>1. a.entity = entity /\ a.verb = verb /\ a.arg = arg
    OBVIOUS
  <2> HIDE DEF a
  <2>2. Kept(contracts, DeliverTo(contracts, outcome, a.entity, a.verb, a.arg))
    BY <1>0, <2>1, SameDelivery
  <2> QED BY <2>1, <2>2
<1>2. CASE why # "none"
  <2>1. next = [outcome EXCEPT !.error = why]
    BY <1>0, <1>2 DEF DeliverTo, Delivered
  <2> HIDE DEF why, next
  <2>2. next.error = why
    BY <1>0, <2>1 DEF Kept, Outcome
  <2> QED BY <1>2, <2>2 DEF why, next
<1>3. CASE why = "none"
  <2>1. next = AfterEffects(outcome, spec, entity, arg, contract.params)
    BY <1>0, <1>3 DEF DeliverTo, Delivered
  <2>2. /\ verb \in DeclaredVerbs(contract) /\ ArgumentError(spec.arg, arg) = "none"
        /\ spec.requires \subseteq DOMAIN entry.state
    BY <1>3 DEF DeliveryError
  <2>3. spec.arg = "count" => IsInt(arg)
    BY <2>2, KernelConstants DEF ArgumentError, IsInt, I64
  <2> HIDE DEF next, why
  <2>4. CASE ~GuardsHold(spec.guards, entry.state, contract.params)
    <3>1. next = outcome
      BY <2>1, <2>4 DEF AfterEffects
    <3> QED BY <1>3, <3>1 DEF next, why
  <2>5. CASE GuardsHold(spec.guards, entry.state, contract.params)
    <3> DEFINE effects == spec.effects
               N == Len(effects)
    <3>1. next = Affected(outcome, effects, entity, arg, contract.params, N)
      BY <2>1, <2>5 DEF AfterEffects
    <3>2. N \in Nat
      BY <1>0, <2>2 DEF AllSound, Sound, SpecSound
    <3>3. PICK x : next = Replaced(outcome, entity, x)
      <4>1. N \in 0 .. N
        BY <3>2
      <4>2. LET after == RustAffected(outcome.world[entity], effects, arg, contract.params, N)
            IN Affected(outcome, effects, entity, arg, contract.params, N)
                 = Replaced(outcome, entity, after)
        BY <1>0, <2>2, <2>3, <4>1, SameEffects
      <4> QED BY <3>1, <4>2
    <3>4. next.error = "none" /\ next.world[entity] = x
      BY <1>0, <3>3, ReplacedKept
    <3>5. \A e \in DOMAIN contracts : e # entity => next.world[e] = outcome.world[e]
      BY <1>0, <3>3 DEF Replaced, Kept, Outcome
    <3>6. ASSUME Healthless(contract) PROVE "health" \notin DOMAIN x.state
      <4>1. "health" \notin DOMAIN entry.state
        BY <3>6 DEF Steady
      <4>2. verb \in DOMAIN DoorAffordances /\ spec = DoorAffordances[verb]
        BY <2>2, <3>6 DEF Healthless, DeclaredVerbs, SpecOf, Semantics
      <4>3. ~({"health"} \subseteq spec.requires)
        BY <2>2, <4>1
      <4>4. /\ N = 1
            /\ "health" \notin DOMAIN ApplyEffect(effects[1], arg, entry, contract.params).state
        BY <4>1, <4>2, <4>3, PlainVerbs
      <4>5. next = AfterEffect(outcome, effects[1], entity, arg, contract.params)
        <5> HIDE DEF effects
        <5>1. /\ Affected(outcome, effects, entity, arg, contract.params, 0) = outcome
              /\ \A n \in 1 .. N :
                   Affected(outcome, effects, entity, arg, contract.params, n)
                     = AfterEffect(Affected(outcome, effects, entity, arg, contract.params, n - 1),
                                   effects[n], entity, arg, contract.params)
          BY <3>2, AffectedPasses
        <5> QED BY <3>1, <4>4, <5>1
      <4> HIDE DEF effects
      <4>6. next.world[entity] = ApplyEffect(effects[1], arg, entry, contract.params)
        <5>1. next \in {[outcome EXCEPT !.error = Crash],
                        [outcome EXCEPT !.world[entity] = ApplyEffect(effects[1], arg, @, contract.params)]}
          BY <1>0, <4>5 DEF AfterEffect
        <5>2. [outcome EXCEPT !.error = Crash].error # "none"
          BY <1>0 DEF Kept, Outcome, Crash
        <5>3. [outcome EXCEPT !.world[entity] = ApplyEffect(effects[1], arg, @, contract.params)].world[entity]
                = ApplyEffect(effects[1], arg, entry, contract.params)
          BY <1>0 DEF Kept, Outcome
        <5> QED BY <3>4, <5>1, <5>2, <5>3
      <4> QED BY <3>4, <4>4, <4>6 DEF effects
    <3>7. Steady(contracts, next)
      BY <1>1, <3>4, <3>5, <3>6 DEF Steady, next
    <3> QED BY <1>3, <3>7 DEF next, why
  <2> QED BY <2>4, <2>5
<1> QED BY <1>2, <1>3

\* The verbs of a wire are never refused.
LEMMA ActedSteady ==
  ASSUME NEW contracts, AllLoaded(contracts), NEW acts, Len(acts) \in Nat,
         \A i \in 1 .. Len(acts) : ActOK(acts[i], contracts),
         NEW outcome, Steady(contracts, outcome)
  PROVE  Steady(contracts, Acted(contracts, acts, outcome, Len(acts)))
<1> DEFINE Py(n) == Acted(contracts, acts, outcome, n)
           N == Len(acts)
           S == {n \in Nat : n <= N => Steady(contracts, Py(n))}
<1>1. /\ Py(0) = outcome
      /\ \A n \in 1 .. N :
           Py(n) = DeliverTo(contracts, Py(n - 1), acts[n].entity, acts[n].verb, acts[n].arg)
  BY ActedPasses
<1> HIDE DEF Py
<1>2. 0 \in S
  BY <1>1
<1>3. ASSUME NEW n \in Nat, n \in S PROVE n + 1 \in S
  <2> SUFFICES ASSUME n + 1 <= N PROVE Steady(contracts, Py(n + 1))
    OBVIOUS
  <2> DEFINE a == acts[n + 1]
             o == Py(n)
  <2>1. /\ Steady(contracts, o) /\ ActOK(a, contracts)
        /\ Py(n + 1) = DeliverTo(contracts, o, a.entity, a.verb, a.arg)
    <3>1. n + 1 \in 1 .. N /\ (n + 1) - 1 = n /\ n <= N
      OBVIOUS
    <3> QED BY <1>1, <1>3, <3>1
  <2> HIDE DEF a, o
  <2>2. a.entity \in DOMAIN contracts
    BY <2>1 DEF ActOK
  <2>3. EntryTyped(contracts[a.entity], o.world[a.entity])
    BY <2>1, <2>2 DEF Steady, Kept, Whole
  <2>4. ContractOK(contracts[a.entity]) /\ Sound(contracts[a.entity])
    BY <2>2 DEF AllLoaded
  <2>5. DeliveryError(contracts[a.entity], o.world[a.entity].state, a.verb, a.arg) = "none"
    BY <2>1, <2>3, <2>4, WireVerbDelivers
  <2>6. Steady(contracts, DeliverTo(contracts, o, a.entity, a.verb, a.arg))
    BY <2>1, <2>2, <2>5, DeliverySteady
  <2> QED BY <2>1, <2>6
<1>4. Nat \subseteq S
  <2> HIDE DEF S
  <2> QED BY <1>2, <1>3, SetInduction
<1> QED BY <1>4 DEF Py

\* Nor is any wire of a file that loads.
LEMMA CoupledSteady ==
  ASSUME NEW contracts, AllLoaded(contracts), NEW wires, Len(wires) \in Nat,
         WiresOK(wires, contracts), \A i \in 1 .. Len(wires) : Len(wires[i].then) \in Nat,
         NEW outcome, Steady(contracts, outcome)
  PROVE  Steady(contracts, ApplyWires(contracts, wires, outcome))
<1> DEFINE Py(n) == Coupled(contracts, wires, outcome, n)
           N == Len(wires)
           S == {n \in Nat : n <= N => Steady(contracts, Py(n))}
<1>1. Py(0) = outcome /\ \A n \in 1 .. N : Py(n) = AfterWire(contracts, Py(n - 1), wires[n])
  BY CoupledPasses
<1> HIDE DEF Py
<1>2. 0 \in S
  BY <1>1
<1>3. ASSUME NEW n \in Nat, n \in S PROVE n + 1 \in S
  <2> SUFFICES ASSUME n + 1 <= N PROVE Steady(contracts, Py(n + 1))
    OBVIOUS
  <2> DEFINE w == wires[n + 1]
             o == Py(n)
  <2>1. /\ Steady(contracts, o) /\ Py(n + 1) = AfterWire(contracts, o, w)
        /\ Len(w.then) \in Nat /\ \A i \in 1 .. Len(w.then) : ActOK(w.then[i], contracts)
    BY <1>1, <1>3 DEF WiresOK, WireOK
  <2> HIDE DEF w, o
  <2>2. Steady(contracts, Acted(contracts, w.then, o, Len(w.then)))
    BY <2>1, ActedSteady
  <2> QED BY <2>1, <2>2 DEF AfterWire
<1>4. Nat \subseteq S
  <2> HIDE DEF S
  <2> QED BY <1>2, <1>3, SetInduction
<1> QED BY <1>4 DEF Py, ApplyWires

\* And the integrators go on from there.
LEMMA MovedSteady ==
  ASSUME NEW contracts, AllLoaded(contracts), NEW outcome, Steady(contracts, outcome)
  PROVE  LET moved == [e \in DOMAIN contracts |-> StepEntity(contracts[e], outcome.world[e])]
         IN Steady(contracts, Outcome(moved, "none"))
<1> DEFINE moved == [e \in DOMAIN contracts |-> StepEntity(contracts[e], outcome.world[e])]
<1>1. \A e \in DOMAIN contracts : Whole(contracts[e], moved[e])
  BY SameStep DEF Steady, Kept, AllLoaded
<1>2. moved = [e \in DOMAIN contracts |-> moved[e]]
  OBVIOUS
<1>3. ASSUME NEW e \in DOMAIN contracts, Healthless(contracts[e])
      PROVE  "health" \notin DOMAIN moved[e].state
  <2> DEFINE contract == contracts[e]
             entry == outcome.world[e]
  <2>1. "health" \notin DOMAIN entry.state
    BY <1>3 DEF Steady
  <2>2. Semantics(contract).integrators = DoorIntegrators
    BY <1>3 DEF Healthless, Semantics
  <2>3. Len(DoorIntegrators) = 1 /\ DoorIntegrators[1].var = "openness"
    BY DEF DoorIntegrators
  <2>4. moved[e] = Stepped(contract, entry, 1)
    BY <2>2, <2>3 DEF StepEntity
  <2>5. Stepped(contract, entry, 1) = Integrate(DoorIntegrators[1], entry, contract.params)
    <3>1. Len(Semantics(contract).integrators) \in Nat /\ 1 \in 1 .. Len(Semantics(contract).integrators)
      BY <2>2, <2>3
    <3>2. Stepped(contract, entry, 0) = entry /\ 1 - 1 = 0
      BY <3>1, SteppedPasses
    <3>3. Stepped(contract, entry, 1)
            = Integrate(Semantics(contract).integrators[1], Stepped(contract, entry, 1 - 1), contract.params)
      BY <3>1, SteppedPasses
    <3> QED BY <2>2, <3>2, <3>3
  <2>6. "health" \notin DOMAIN Integrate(DoorIntegrators[1], entry, contract.params).state
    <3> DEFINE integrator == DoorIntegrators[1]
               z == Integrate(integrator, entry, contract.params)
    <3>1. integrator.var = "openness"
      BY <2>3
    <3> HIDE DEF integrator
    <3>2. z = entry \/ \E v : z = [state |-> Put(entry.state, "openness", v), control |-> entry.control]
      BY <3>1 DEF Integrate
    <3>3. \A v : "health" \notin DOMAIN Put(entry.state, "openness", v)
      BY <2>1, PutElsewhere
    <3> HIDE DEF z
    <3>4. "health" \notin DOMAIN z.state
      BY <2>1, <3>2, <3>3
    <3> QED BY <3>4 DEF z, integrator
  <2> QED BY <2>4, <2>5, <2>6
<1> HIDE DEF moved
<1>4. Kept(contracts, Outcome(moved, "none"))
  BY <1>1, <1>2 DEF Kept, Outcome
<1>5. Outcome(moved, "none").error = "none" /\ Outcome(moved, "none").world = moved
  BY DEF Outcome
<1>6. Steady(contracts, Outcome(moved, "none"))
  BY <1>3, <1>4, <1>5 DEF Steady
<1> QED BY <1>6 DEF moved
=============================================================================
