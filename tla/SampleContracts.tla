-------------------------- MODULE SampleContracts --------------------------
(***************************************************************************)
(* Contracts and wires the model checking instances share: the gate of the *)
(* 0.1 door profile, a lever and a lamp with declared semantics, and the   *)
(* wires that couple them.                                                 *)
(***************************************************************************)
EXTENDS KernelLoad

-----------------------------------------------------------------------------
(* Building blocks. *)

MinI64 == -8

NoNav == [neverBlocksWhenDestroyed |-> FALSE, blocksBelow |-> <<>>]

\* The gate's: it blocks while it is not open enough, unless it is destroyed.
GateNav ==
  [neverBlocksWhenDestroyed |-> TRUE,
   blocksBelow |-> <<[var |-> "openness", threshold |-> 3], [var |-> "ajar", threshold |-> 1]>>]

Contract(version, state, affordances, params, declared) ==
  [version |-> version, state |-> state, affordances |-> affordances,
   params |-> params, declared |-> declared, navigation |-> NoNav]

Declared(affordances, integrators) ==
  [affordances |-> affordances, integrators |-> integrators]

Clause(entity, on, name, test, literal) ==
  [entity |-> entity, on |-> on, name |-> name, test |-> test, literal |-> literal]
Act(entity, verb, arg) == [entity |-> entity, verb |-> verb, arg |-> arg]
Wire(when, then)       == [when |-> when, then |-> then]

File(contracts, initial, wires, events, ticks) ==
  [contracts |-> contracts, pinned |-> TRUE, initial |-> initial,
   wires |-> wires, events |-> events, ticks |-> ticks]

-----------------------------------------------------------------------------
(* A 0.1 door. *)

DoorVerbs == {"open", "close", "lock", "unlock", "attack", "repair"}
FullDoor  == [openness |-> "int", locked |-> "bool", health |-> "int", destroyed |-> "bool"]
PlainDoor == [openness |-> "int", health |-> "int"]
Door(state) ==
  [Contract("0.1", state, DoorVerbs \cup {"kick"}, [max_health |-> IntV(2)], <<>>)
     EXCEPT !.navigation = GateNav]

Fresh  == [health |-> IntV(2), openness |-> IntV(0)]
Shaken == [health |-> IntV(0), openness |-> IntV(1)]

-----------------------------------------------------------------------------
(* A lever, a lamp, and a chain of wires: the lever drives the gate, and   *)
(* the gate's drive lights the lamp and locks the gate.                    *)

Lever ==
  Contract("0.2", [on |-> "bool", jammed |-> "bool"], {"pull", "jam"}, <<>>,
    Declared([pull |-> Verb("none", {}, <<IsFalse("jammed")>>,
                            <<Effect("toggle", "on", NoSource, <<>>)>>),
              jam  |-> Verb("none", {}, <<>>, <<SetBool("jammed", TRUE, <<>>)>>)], <<>>))

Lamp ==
  Contract("0.2", [lit |-> "bool"], {"light", "dim", "flip"}, <<>>,
    Declared([light |-> Verb("none", {}, <<>>, <<SetBool("lit", TRUE, <<>>)>>),
              dim   |-> Verb("none", {}, <<>>, <<SetBool("lit", FALSE, <<>>)>>),
              flip  |-> Verb("none", {}, <<>>, <<Effect("toggle", "lit", NoSource, <<>>)>>)],
             <<>>))

When(entity, on, name, test, literal) == <<Clause(entity, on, name, test, literal)>>

ChainWires ==
  <<Wire(When("lever", "var", "on", "equals", BoolV(TRUE)), <<Act("gate", "open", NoValue)>>),
    Wire(When("lever", "var", "on", "equals", BoolV(FALSE)), <<Act("gate", "close", NoValue)>>),
    Wire(When("gate", "control", "openness_target", "gt", IntV(0)),
         <<Act("lamp", "light", NoValue), Act("gate", "lock", NoValue)>>),
    Wire(When("gate", "var", "openness", "equals", IntV(0)),
         <<Act("lamp", "dim", NoValue), Act("gate", "unlock", NoValue)>>)>>
=============================================================================
