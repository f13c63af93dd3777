----------------------------- MODULE KernelTypes -----------------------------
(***************************************************************************)
(* What the values of a running kernel are by type: the shape a contract   *)
(* has in a file, the types its variables may come to hold, and what the   *)
(* validator of tools/sim/kernel.py leaves to the author of a contract.    *)
(* SimKernel states its type invariant with these, and WorldProver what    *)
(* its projects are.                                                       *)
(***************************************************************************)
EXTENDS KernelTick

\* What JSON gives: the lists of a file are sequences.
HasLists(spec) ==
  /\ Len(spec.guards) \in Nat /\ Len(spec.effects) \in Nat
  /\ \A i \in 1 .. Len(spec.effects) : Len(spec.effects[i].when) \in Nat

ContractLists(contract) ==
  contract.version = "0.2" =>
    /\ Len(contract.declared.integrators) \in Nat
    /\ \A verb \in DOMAIN contract.declared.affordances :
         HasLists(contract.declared.affordances[verb])

-----------------------------------------------------------------------------
(* Types. *)

\* The types of the variables an entity may come to hold: its own schema,
\* and for a 0.1 contract also the variables the door's effects write.
DoorTypes == [openness |-> "int", locked |-> "bool", health |-> "int", destroyed |-> "bool"]

Schema(contract) ==
  IF contract.version = "0.2" THEN contract.state
  ELSE [var \in DOMAIN contract.state \cup DOMAIN DoorTypes |->
          IF var \in DOMAIN DoorTypes THEN DoorTypes[var] ELSE contract.state[var]]

HasType(v, type) == IsLiteral(v) /\ TypeOf(v) = type

\* What validation leaves unchecked (see AcceptedNeverCrashes): a 0.1 schema
\* that types a door variable otherwise, a parameter source that names the
\* navigation object, and a navigation rule over a string.
NotNavigation(source) == source.kind = "param" => source.name # "navigation"

GuardsAvoidNavigation(guards) ==
  \A i \in 1 .. Len(guards) : NotNavigation(guards[i].against)

EffectAvoidsNavigation(effect) ==
  /\ GuardsAvoidNavigation(effect.when)
  /\ \A source \in Sources(effect) : NotNavigation(source)

Covered(contract) ==
  /\ contract.version = "0.1" =>
       \A var \in DOMAIN contract.state \cap DOMAIN DoorTypes :
         contract.state[var] = DoorTypes[var]
  /\ \A verb \in DeclaredVerbs(contract) :
       LET spec == SpecOf(contract, verb)
       IN /\ GuardsAvoidNavigation(spec.guards)
          /\ \A i \in 1 .. Len(spec.effects) : EffectAvoidsNavigation(spec.effects[i])
  /\ \A i \in 1 .. Len(Semantics(contract).integrators) :
       NotNavigation(Semantics(contract).integrators[i].rate)
  /\ \A i \in 1 .. Len(contract.navigation.blocksBelow) :
       LET var == contract.navigation.blocksBelow[i].var
       IN var \in DOMAIN Schema(contract) => Schema(contract)[var] # "string"

EntryTyped(contract, entry) ==
  /\ DOMAIN contract.state \subseteq DOMAIN entry.state
  /\ \A var \in DOMAIN entry.state :
       var \in DOMAIN Schema(contract) /\ HasType(entry.state[var], Schema(contract)[var])
  /\ \A name \in DOMAIN entry.control : HasType(entry.control[name], "int")
=============================================================================
