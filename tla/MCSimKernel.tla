---------------------------- MODULE MCSimKernel ----------------------------
(***************************************************************************)
(* Replays for TLC: a 0.1 door, a counter with saturating adds, a lever    *)
(* and a gate coupled by wires, and contracts that must not load.          *)
(***************************************************************************)
EXTENDS TwinKernels, SampleContracts, TLC

-----------------------------------------------------------------------------
(* Replays. *)

Event(tick, a) == [tick |-> tick, entity |-> a.entity, verb |-> a.verb, arg |-> a.arg]

\* A file is named by what varies in it: its acts, and how many of them are
\* due at tick 0 (the others are due at tick 1).
Schedule(acts, split) ==
  [i \in DOMAIN acts |-> Event(IF i <= split THEN 0 ELSE 1, acts[i])]

-----------------------------------------------------------------------------
(* The door, with and without `destroyed` and `locked` in its schema.       *)

DoorActs ==
  {Act("gate", verb, NoValue) : verb \in {"open", "close", "lock", "kick"}}
    \cup {Act("gate", verb, IntV(n)) : verb \in {"attack", "repair"}, n \in {1, 2}}

DoorReplays ==
  [f \in [door : {<<FullDoor, Fresh>>, <<FullDoor, Shaken>>, <<PlainDoor, Fresh>>},
          acts : [1 .. 3 -> DoorActs], split : 1 .. 3] |->
     File([gate |-> Door(f.door[1])], [gate |-> f.door[2]], <<>>, Schedule(f.acts, f.split), 2)]

-----------------------------------------------------------------------------
(* 0.2 contracts, well typed or not: one verb that takes a count, with one *)
(* guard, one effect and one integrator, drawn from every combination of   *)
(* operation, target and value source, with a clamp whose ends may cross.  *)

AnySource ==
  {Const(IntV(3)), Const(BoolV(TRUE)), Const(StrV("idle")), ArgSource,
   ParamSource("p", NoValue), ParamSource("q", NoValue), ParamSource("q", IntV(MinI64)),
   VarSource("n"), VarSource("b"), VarSource("s"), VarSource("undeclared")}

AnyGuard ==
  {<<>>, <<Guard("n", "gt", VarSource("n"))>>, <<Guard("n", "equals", ArgSource)>>,
   <<Guard("b", "lt", Const(IntV(1)))>>, <<Guard("s", "equals", Const(IntV(0)))>>}

DrawnContract(f) ==
  LET \* The argument is above 2 in the first command and below it in the second.
      crosses == f.op = "add" /\ f.rate = ParamSource("p", NoValue)
      effect == [Effect(f.op, f.target, f.value, f.when) EXCEPT
                   !.sign = IF f.op = "add" THEN -1 ELSE 1,
                   !.min = IF crosses THEN ArgSource ELSE NoSource,
                   !.max = IF crosses THEN Const(IntV(2))
                           ELSE IF f.op = "add" THEN Const(IntV(6)) ELSE NoSource]
      drive  == Effect("set_control", "aim", Const(IntV(5)), <<>>)
  IN Contract("0.2", [n |-> "int", b |-> "bool", s |-> "string"], {"push"}, [p |-> IntV(2)],
              Declared([push |-> Verb("count", {"n"}, <<>>, <<effect, drive>>)],
                       <<[var |-> f.moved, toward |-> "aim", rate |-> f.rate]>>))

DrawnReplays ==
  [f \in [op : {"set", "set_control", "toggle", "add"}, target : {"n", "b", "s", "aim"},
          value : AnySource, when : AnyGuard, moved : {"n", "b"},
          rate : {Const(IntV(2)), Const(IntV(-2)), VarSource("n"), VarSource("s"), ArgSource,
                  ParamSource("p", NoValue)}] |->
     File([box |-> DrawnContract(f)], [box |-> [n |-> IntV(MinI64)]], <<>>,
          <<Event(0, Act("box", "push", IntV(3))), Event(0, Act("box", "push", IntV(1)))>>, 1)]

-----------------------------------------------------------------------------
(* A lever, a gate it drives, and a lamp the gate's drive lights: a chain  *)
(* of wires, direct commands they overrule, and wires that must not load.  *)

\* Wires that would pulse, count or misread.
Pulsing  == <<Wire(When("lever", "var", "on", "exists", BoolV(TRUE)), <<Act("lamp", "flip", NoValue)>>)>>
Counting == <<Wire(When("lever", "var", "on", "exists", BoolV(TRUE)), <<Act("gate", "attack", IntV(1))>>)>>
Misread  == <<Wire(When("lever", "var", "on", "gt", IntV(0)), <<Act("gate", "open", NoValue)>>)>>
NeedsArg == <<Wire(When("lever", "var", "on", "exists", BoolV(TRUE)), <<Act("gate", "open", IntV(1))>>)>>
Unlisted == <<Wire(When("lever", "var", "on", "exists", BoolV(TRUE)), <<Act("gate", "kick", NoValue)>>)>>

WiredActs ==
  {Act("lever", "pull", NoValue), Act("lever", "jam", NoValue), Act("gate", "close", NoValue),
   Act("gate", "unlock", NoValue), Act("gate", "attack", IntV(3)), Act("gate", "attack", NoValue)}

WiredReplays ==
  [f \in [acts : [1 .. 3 -> WiredActs], split : {1, 2},
          wires : {ChainWires, Pulsing, Counting, Misread, NeedsArg, Unlisted}] |->
     File([lever |-> Lever, gate |-> Door(FullDoor), lamp |-> Lamp],
          [gate |-> Fresh], f.wires, Schedule(f.acts, f.split), 2)]

-----------------------------------------------------------------------------
\* Every replay of the three families.
AllReplays ==
  [f \in DOMAIN DoorReplays \cup DOMAIN DrawnReplays \cup DOMAIN WiredReplays |->
     IF f \in DOMAIN DoorReplays THEN DoorReplays[f]
     ELSE IF f \in DOMAIN DrawnReplays THEN DrawnReplays[f] ELSE WiredReplays[f]]
=============================================================================
