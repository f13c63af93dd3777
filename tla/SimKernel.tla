----------------------------- MODULE SimKernel -----------------------------
(***************************************************************************)
(* The simulation kernel running one replay (run_replay of                 *)
(* tools/sim/kernel.py): load, then for each tick the events due in file   *)
(* order, every wire in declared order, every integrator of every entity,  *)
(* and a snapshot of the world; last, the navigation report.               *)
(*                                                                         *)
(* The program is sequential and its loops are unrolled into steps, one    *)
(* per effect, wire and integrator: an effect reads what the previous one  *)
(* wrote, and a later wire reads what an earlier one did.  No step is      *)
(* optional; SimTick states the same tick as one atomic function.          *)
(***************************************************************************)
EXTENDS KernelTypes

CONSTANT Replays     \* a function from file names to replays

\* What JSON gives: the lists of a file are sequences.
ASSUME ReplaysAreFiles ==
  \A id \in DOMAIN Replays :
    LET replay == Replays[id]
    IN /\ Len(replay.events) \in Nat /\ Len(replay.wires) \in Nat
       /\ \A i \in 1 .. Len(replay.wires) : Len(replay.wires[i].then) \in Nat
       /\ \A entity \in DOMAIN replay.contracts : ContractLists(replay.contracts[entity])

VARIABLES
  file,       \* the replay being run
  phase,      \* where run_replay is
  world,      \* entity -> [state, control]
  snapshots,  \* the worlds recorded so far, one per finished tick
  event,      \* index of the last event delivered this tick, 0 for none
  wire,       \* index of the wire being looked at
  act,        \* index of the verb that wire delivers next, 0 before its test
  call,       \* the apply_event in progress: its next effect, or NoCall
  turn,       \* entity -> index of its next integrator
  blocked,    \* the result: the entities that block navigation
  error       \* why the run stopped

vars == <<file, phase, world, snapshots, event, wire, act, call, turn, blocked, error>>

Phases == {"load", "rejected", "events", "wires", "integrate", "report", "done", "failed"}
Stopped == {"rejected", "done", "failed"}

NoCall == [entity |-> "none", verb |-> "none", arg |-> NoValue, effect |-> 0]

Replay    == Replays[file]
Contracts == Replay.contracts
Tick      == Len(snapshots)

-----------------------------------------------------------------------------
(* apply_event, up to its loop over the effects. *)

Fail(why) ==
  /\ phase' = "failed"
  /\ error' = why
  /\ UNCHANGED <<world, call>>

\* Ends with a pending call, with nothing to do, or with a failed run.
Deliver(entity, verb, arg) ==
  LET contract == Contracts[entity]
      state    == world[entity].state
      why      == DeliveryError(contract, state, verb, arg)
      spec     == SpecOf(contract, verb)
  IN \/ why # "none" /\ Fail(why)
     \/ /\ why = "none"
        /\ call' = IF /\ GuardsHold(spec.guards, state, contract.params)
                      /\ Len(spec.effects) > 0
                   THEN [entity |-> entity, verb |-> verb, arg |-> arg, effect |-> 1]
                   ELSE NoCall
        /\ UNCHANGED <<phase, world, error>>

-----------------------------------------------------------------------------
Init ==
  /\ file \in DOMAIN Replays
  /\ phase = "load"
  /\ world = <<>>
  /\ snapshots = <<>>
  /\ event = 0
  /\ wire = 1
  /\ act = 0
  /\ call = NoCall
  /\ turn = <<>>
  /\ blocked = {}
  /\ error = "none"

\* load_replay, the contract pins, and the initial world.
Load ==
  /\ phase = "load"
  /\ IF ReplayOK(Replay)
     THEN /\ phase' = "events"
          /\ world' = InitialWorld(Replay)
          /\ turn' = [entity \in DOMAIN Contracts |-> 1]
     ELSE phase' = "rejected" /\ UNCHANGED <<world, turn>>
  /\ UNCHANGED <<file, snapshots, event, wire, act, call, blocked, error>>

\* A mutant: an overdue event is delivered, again and again, in later ticks.
DueEver(i) == i \in (event + 1) .. Len(Replay.events) /\ Replay.events[i].tick <= Tick

Due(i) == i \in (event + 1) .. Len(Replay.events) /\ Replay.events[i].tick = Tick

\* The next event of this tick, in file order.
DeliverEvent ==
  /\ phase = "events" /\ call = NoCall
  /\ \E i \in 1 .. Len(Replay.events) :
       /\ Due(i)
       /\ \A j \in 1 .. (i - 1) : ~Due(j)
       /\ Deliver(Replay.events[i].entity, Replay.events[i].verb, Replay.events[i].arg)
       /\ event' = i
  /\ UNCHANGED <<file, snapshots, wire, act, turn, blocked>>

\* One pass of the loop `for effect in effects`, of an event or of a wire.
ApplyNextEffect ==
  /\ phase \in {"events", "wires"} /\ call # NoCall
  /\ LET contract == Contracts[call.entity]
         effects  == SpecOf(contract, call.verb).effects
         effect   == effects[call.effect]
         entry    == world[call.entity]
     IN IF EffectRaises(effect, call.arg, entry.state, contract.params)
        THEN Fail(Crash)
        ELSE /\ world' = [world EXCEPT
                  ![call.entity] = ApplyEffect(effect, call.arg, entry, contract.params)]
             /\ call' = IF call.effect < Len(effects)
                        THEN [call EXCEPT !.effect = @ + 1] ELSE NoCall
             /\ UNCHANGED <<phase, error>>
  /\ UNCHANGED <<file, snapshots, event, wire, act, turn, blocked>>

EventsDone ==
  /\ phase = "events" /\ call = NoCall
  /\ \A i \in 1 .. Len(Replay.events) : ~Due(i)
  /\ phase' = "wires" /\ wire' = 1 /\ act' = 0
  /\ UNCHANGED <<file, world, snapshots, event, call, turn, blocked, error>>

WireHolds(w) == \A i \in 1 .. Len(w.when) : ClauseHolds(w.when[i], world)

\* A wire's condition is read once, before its first verb.
TestWire ==
  /\ phase = "wires" /\ call = NoCall
  /\ wire <= Len(Replay.wires) /\ act = 0
  /\ IF WireHolds(Replay.wires[wire])
     THEN act' = 1 /\ UNCHANGED wire
     ELSE act' = 0 /\ wire' = wire + 1
  /\ UNCHANGED <<file, phase, world, snapshots, event, call, turn, blocked, error>>

\* A mutant: a wire that delivers only its first verb.
DeliverFirstAct ==
  /\ phase = "wires" /\ call = NoCall
  /\ wire <= Len(Replay.wires) /\ act > 0
  /\ LET then == Replay.wires[wire].then
     IN Deliver(then[act].entity, then[act].verb, then[act].arg)
  /\ act' = 0 /\ wire' = wire + 1
  /\ UNCHANGED <<file, snapshots, event, turn, blocked>>

DeliverAct ==
  /\ phase = "wires" /\ call = NoCall
  /\ wire <= Len(Replay.wires) /\ act > 0
  /\ LET then == Replay.wires[wire].then
     IN /\ Deliver(then[act].entity, then[act].verb, then[act].arg)
        /\ IF act < Len(then)
           THEN act' = act + 1 /\ UNCHANGED wire
           ELSE act' = 0 /\ wire' = wire + 1
  /\ UNCHANGED <<file, snapshots, event, turn, blocked>>

WiresDone ==
  /\ phase = "wires" /\ call = NoCall
  /\ wire > Len(Replay.wires)
  /\ phase' = "integrate"
  /\ turn' = [entity \in DOMAIN Contracts |-> 1]
  /\ UNCHANGED <<file, world, snapshots, event, wire, act, call, blocked, error>>

Integrators(entity) == Semantics(Contracts[entity]).integrators

\* step_entity: an entity's integrators in order.  The order of the entities
\* is the file's own, any order here: no integrator reads another entity.
StepIntegrator(entity) ==
  /\ phase = "integrate"
  /\ turn[entity] <= Len(Integrators(entity))
  /\ LET integrator == Integrators(entity)[turn[entity]]
         params     == Contracts[entity].params
     IN IF IntegrateRaises(integrator, world[entity], params)
        THEN Fail(Crash) /\ UNCHANGED turn
        ELSE /\ world' = [world EXCEPT ![entity] = Integrate(integrator, @, params)]
             /\ turn' = [turn EXCEPT ![entity] = @ + 1]
             /\ UNCHANGED <<phase, call, error>>
  /\ UNCHANGED <<file, snapshots, event, wire, act, blocked>>

\* A mutant: a tick that moves nothing is not recorded, and never ends.
EndTickIfMoved ==
  /\ phase = "integrate"
  /\ \A entity \in DOMAIN Contracts : turn[entity] > Len(Integrators(entity))
  /\ snapshots' = IF Tick > 0 /\ snapshots[Tick] = world THEN snapshots
                  ELSE Append(snapshots, world)
  /\ phase' = IF Tick < Replay.ticks THEN "events" ELSE "report"
  /\ event' = 0
  /\ UNCHANGED <<file, world, wire, act, call, turn, blocked, error>>

\* The tick's snapshot; then the next tick, or the report.
EndTick ==
  /\ phase = "integrate"
  /\ \A entity \in DOMAIN Contracts : turn[entity] > Len(Integrators(entity))
  /\ snapshots' = Append(snapshots, world)
  /\ phase' = IF Tick < Replay.ticks THEN "events" ELSE "report"
  /\ event' = 0
  /\ UNCHANGED <<file, world, wire, act, call, turn, blocked, error>>

\* What run_replay returns: navigation, derived from the final world.
Report ==
  /\ phase = "report"
  /\ IF \E entity \in DOMAIN Contracts :
          NavigationRaises(Contracts[entity], world[entity].state)
     THEN Fail(Crash) /\ UNCHANGED blocked
     ELSE /\ phase' = "done"
          /\ blocked' = {entity \in DOMAIN Contracts :
                           BlocksNavigation(Contracts[entity], world[entity].state)}
          /\ UNCHANGED <<world, call, error>>
  /\ UNCHANGED <<file, snapshots, event, wire, act, turn>>

Next ==
  \/ Load
  \/ DeliverEvent
  \/ ApplyNextEffect
  \/ EventsDone
  \/ TestWire
  \/ DeliverAct
  \/ WiresDone
  \/ \E entity \in DOMAIN world : StepIntegrator(entity)
  \/ EndTick
  \/ Report

\* The kernel is one sequential program: it keeps taking steps.
Spec == Init /\ [][Next]_vars /\ WF_vars(Next)

-----------------------------------------------------------------------------
(* Properties. *)

\* The apply_event in progress is one the contract declares, at an effect
\* it has, with the argument its kind asks for.
CallTyped(c) ==
  /\ c.entity \in DOMAIN Contracts
  /\ c.verb \in DeclaredVerbs(Contracts[c.entity])
  /\ LET spec == SpecOf(Contracts[c.entity], c.verb)
     IN /\ c.effect \in 1 .. Len(spec.effects)
        /\ spec.arg = "count" => IsInt(c.arg)

\* The type invariant: every variable of every entity holds a value of the
\* type its contract declares, every control an i64, from load to the end of
\* the replay (kernel.py: "the block is TYPED against the state schema").
TypeOK ==
  /\ file \in DOMAIN Replays
  /\ phase \in Phases
  /\ error \in Codes \cup {Crash, "none"}
  /\ blocked \subseteq DOMAIN Contracts
  /\ event \in Nat /\ wire \in Nat \ {0} /\ act \in Nat
  /\ phase \notin {"load", "rejected"} =>
       /\ DOMAIN world = DOMAIN Contracts
       /\ \A entity \in DOMAIN Contracts : EntryTyped(Contracts[entity], world[entity])
       /\ DOMAIN turn = DOMAIN Contracts
       /\ \A entity \in DOMAIN Contracts : turn[entity] \in Nat \ {0}
       /\ call # NoCall => CallTyped(call)

\* A replay that loads never leaves the vocabulary: whatever it does, the
\* interpreter meets no value it cannot convert or compare ("Validation is
\* fail-closed with stable error codes", kernel.py:17).
AcceptedNeverCrashes == error # Crash

\* Only an event of the file can stop a replay: the checks validate_wires
\* makes at load leave a wire nothing to fail on, in whatever world it is
\* delivered.
WiresNeverFail == [][phase = "wires" => phase' # "failed"]_vars

\* An integrator whose rate is not negative moves its variable toward the
\* control and never past it, saturation and rates read from other variables
\* included (ADR 0021: "one variable moving toward one control target").
Between(a, x, b) == (a <= x /\ x <= b) \/ (b <= x /\ x <= a)

Toward(old, new, integrator) ==
  /\ integrator.toward \in DOMAIN old.control
  /\ Between(Raw(old.state[integrator.var]), Raw(new.state[integrator.var]),
             Raw(old.control[integrator.toward]))

RateOf(entity, integrator) ==
  Raw(Resolve(integrator.rate, NoValue, world[entity].state, Contracts[entity].params))

IntegratorsMoveToward ==
  [][phase = "integrate" /\ phase' = "integrate" =>
       \A entity \in DOMAIN world :
         LET integrator == Integrators(entity)[turn[entity]]
         IN world'[entity] # world[entity] /\ RateOf(entity, integrator) >= 0
            => Toward(world[entity], world'[entity], integrator)]_vars

\* A broken gate hangs open and is never told to shut: once `destroyed`, the
\* control the attack set stays at fully open until a repair revives the gate
\* (DOOR_PROFILE: "A destroyed gate hangs open"), for every list of commands and
\* of wires.
HangsOpen(entry) ==
  /\ "destroyed" \in DOMAIN entry.state /\ entry.state["destroyed"] = BoolV(TRUE)
  /\ "openness_target" \in DOMAIN entry.control
  => entry.control["openness_target"] = IntV(Quantum)

BrokenGateHangsOpen ==
  call = NoCall =>
    \A gate \in DOMAIN world : Contracts[gate].version = "0.1" => HangsOpen(world[gate])

\* A wire holds, it does not pulse: delivering its verb again at once would
\* change nothing, so what the wire does to the world does not depend on how
\* many ticks it has been held (LEVEL_SAFE_OPS: "a wire holds rather than
\* pulses").  A verb with an effect that is conditional on the state, or
\* copies a variable, is left out here: see MCSimKernelFindings.
DeliveryRepeats(c) ==
  DeliverTo(Contracts, Outcome(world', "none"), c.entity, c.verb, c.arg).world = world'

ReadsState(effect) ==
  effect.op \in {"set", "set_control"} /\ (effect.when # <<>> \/ effect.value.kind = "var")

Conditional(spec) == \E i \in 1 .. Len(spec.effects) : ReadsState(spec.effects[i])

WireDelivered == phase = "wires" /\ phase' = "wires" /\ call # NoCall /\ call' = NoCall

HeldVerbsRepeat ==
  [][WireDelivered /\ ~Conditional(SpecOf(Contracts[call.entity], call.verb))
       => DeliveryRepeats(call)]_vars

Ticks == INSTANCE SimTick WITH
  status <- IF phase \in {"load", "rejected", "report", "done", "failed"} THEN phase ELSE "running"

\* The micro-steps of a tick add up to SimTick's atomic tick: wires see the
\* events' effects, later wires and effects see earlier ones, integration
\* comes last, whatever the order of the entities; a failed tick leaves no
\* snapshot.
TickRefinement == Ticks!TickSpec

\* Every run ends (ADR 0021: no loops; "everything expressible in it terminates").
ReplaysEnd == <>(phase \in Stopped)
=============================================================================
