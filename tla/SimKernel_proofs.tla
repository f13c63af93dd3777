-------------------------- MODULE SimKernel_proofs --------------------------
(***************************************************************************)
(* Type soundness of the kernel, for every replay and every integer width: *)
(* a file whose contracts load, and that use neither of the two holes the  *)
(* validator leaves (Covered), runs with every variable holding a value of *)
(* its declared type, never leaves the vocabulary, and never fails on a    *)
(* wire.                                                                   *)
(*                                                                         *)
(* The argument is the usual one for a small language.  Sound(contract)    *)
(* says that each guard, effect and integrator the interpreter will run is *)
(* typed against the schema; the validator establishes it (LoadsSound).    *)
(* Sources then resolve to values of their type (ResolveTyped), guards     *)
(* never raise (GuardsNeverRaise), effects and integrators keep an entry   *)
(* typed and never raise (EffectKeepsTypes, IntegrateKeepsTypes), and the  *)
(* invariant follows step by step.                                         *)
(*                                                                         *)
(* The second part shows that the unrolled kernel implements SimTick, for  *)
(* any file: TickInv says of each place of a tick how much of the atomic   *)
(* tick is done there, and every step keeps it (KernelImplementsTicks).    *)
(*                                                                         *)
(* The third part uses both: the Rust interpreter agrees with this one,     *)
(* operator by operator on typed entries, then loop by loop, then tick by  *)
(* tick (KernelsAgree); a broken gate hangs open, effect by effect         *)
(* (GatesHangOpen); and a wire's verb delivered again changes nothing,     *)
(* because its effects assign values they do not read (HeldVerbsHold).     *)
(*                                                                         *)
(* Last, the loaders: both are lists of checks, cut at the same places;    *)
(* without a gap in the file the pieces are twins, so the lists refuse it  *)
(* with one code (LoadersTwin).                                            *)
(***************************************************************************)
EXTENDS TwinKernels, KernelLemmas, ReplayText

\* The files whose contracts the theorems are about.
CoveredFiles ==
  \A id \in DOMAIN Replays : \A entity \in DOMAIN Replays[id].contracts :
    Covered(Replays[id].contracts[entity])

-----------------------------------------------------------------------------
(* The inductive invariant.  TypeOK alone is not inductive: it does not    *)
(* know that the running file was validated, nor that the act a wire is at *)
(* is one of its list.                                                     *)

Validated == phase \notin {"load", "rejected"} => ReplayOK(Replay)

ActInList ==
  phase = "wires" /\ act > 0 =>
    /\ wire \in 1 .. Len(Replay.wires)
    /\ act \in 1 .. Len(Replay.wires[wire].then)

Idle == phase = "load" => call = NoCall

IInv == TypeOK /\ Validated /\ ActInList /\ Idle /\ AcceptedNeverCrashes

Running == phase \notin {"load", "rejected"}

LEMMA RunningSound ==
  ASSUME CoveredFiles, file \in DOMAIN Replays, ReplayOK(Replay)
  PROVE  \A entity \in DOMAIN Contracts : ContractOK(Contracts[entity]) /\ Sound(Contracts[entity])
<1> TAKE entity \in DOMAIN Contracts
<1>1. ContractOK(Contracts[entity]) /\ Covered(Contracts[entity])
  BY DEF ReplayOK, CoveredFiles, Contracts, Replay
<1>2. ContractLists(Contracts[entity])
  BY ReplaysAreFiles DEF Contracts, Replay
<1> QED BY <1>1, <1>2, LoadsSound

\* Delivering a verb leaves the world alone, and a call it starts is typed.
LEMMA DeliverTyped ==
  ASSUME CoveredFiles, IInv, Running,
         NEW entity \in DOMAIN Contracts, NEW verb, NEW arg, Deliver(entity, verb, arg)
  PROVE  /\ world' = world
         /\ phase' \in {phase, "failed"}
         /\ error' \in Codes \cup {"none"}
         /\ call' # NoCall => CallTyped(call')
<1> DEFINE contract == Contracts[entity]
           state    == world[entity].state
           why      == DeliveryError(contract, state, verb, arg)
           spec     == SpecOf(contract, verb)
<1>1. Sound(contract) /\ EntryTyped(contract, world[entity])
  BY RunningSound DEF IInv, Validated, TypeOK, Running
<1>2. why \in Codes \cup {"none"}
  <2>1. why \in Codes \cup {"none", Crash}
    BY DEF DeliveryError, ArgumentError, Codes
  <2>2. why # Crash
    <3> SUFFICES ASSUME why = Crash PROVE FALSE
      OBVIOUS
    <3>1. verb \in DeclaredVerbs(contract) /\ GuardsRaise(spec.guards, state, contract.params)
      BY DEF DeliveryError, ArgumentError, Crash
    <3>2. SpecSound(spec, contract)
      BY <1>1, <3>1 DEF Sound
    <3> HIDE DEF contract, spec
    <3> QED
      BY <1>1, <3>1, <3>2, GuardsNeverRaise DEF SpecSound
  <2> QED BY <2>1, <2>2
<1>3. CASE why # "none"
  <2>1. world' = world /\ phase' = "failed" /\ error' = why /\ call' = call
    BY <1>3 DEF Deliver, Fail
  <2> QED BY <1>2, <2>1 DEF IInv, TypeOK, Running
<1>4. CASE why = "none"
  <2>1. /\ UNCHANGED <<phase, world, error>>
        /\ \/ call' = NoCall
           \/ /\ Len(spec.effects) > 0
              /\ call' = [entity |-> entity, verb |-> verb, arg |-> arg, effect |-> 1]
    BY <1>4 DEF Deliver
  <2>2. /\ verb \in DeclaredVerbs(contract)
        /\ ArgumentError(spec.arg, arg) = "none"
    BY <1>4 DEF DeliveryError
  <2>3. SpecSound(spec, contract)
    BY <1>1, <2>2 DEF Sound
  <2>4. spec.arg = "count" => IsInt(arg)
    BY <2>2, KernelConstants DEF ArgumentError, HasType, IsLiteral, IsInt, I64
  <2>5. Len(spec.effects) > 0 => 1 \in 1 .. Len(spec.effects)
    BY <2>3 DEF SpecSound
  <2>6. error' \in Codes \cup {"none"}
    BY <2>1 DEF IInv, TypeOK, AcceptedNeverCrashes
  <2>7. call' # NoCall => CallTyped(call')
    BY <2>1, <2>2, <2>4, <2>5 DEF CallTyped
  <2> QED BY <2>1, <2>6, <2>7
<1> QED BY <1>3, <1>4

LEMMA InitInv == Init => IInv
  BY DEF Init, IInv, TypeOK, Validated, ActInList, Idle, AcceptedNeverCrashes, Phases, Crash, NoCall

\* What every step from a running state has to show: the world stays typed,
\* the bookkeeping in its ranges, and the pending call typed.
LEMMA StepFacts ==
  ASSUME CoveredFiles, IInv, Running, file' = file,
         phase' \in Phases \ {"load", "rejected"},
         error' \in Codes \cup {"none"}, blocked' \subseteq DOMAIN Contracts,
         event' \in Nat, wire' \in Nat \ {0}, act' \in Nat,
         DOMAIN world' = DOMAIN Contracts,
         \A entity \in DOMAIN Contracts : EntryTyped(Contracts[entity], world'[entity]),
         DOMAIN turn' = DOMAIN Contracts,
         \A entity \in DOMAIN Contracts : turn'[entity] \in Nat \ {0},
         call' # NoCall => CallTyped(call'),
         phase' = "wires" /\ act' > 0 =>
           /\ wire' \in 1 .. Len(Replay.wires)
           /\ act' \in 1 .. Len(Replay.wires[wire'].then)
  PROVE  IInv'
<1>1. Replay' = Replay /\ Contracts' = Contracts
  BY DEF Replay, Contracts
<1>2. TypeOK'
  <2>1. call' # NoCall => CallTyped(call)'
    BY <1>1 DEF CallTyped
  <2>2. file' \in DOMAIN Replays
    BY DEF IInv, TypeOK
  <2> QED BY <1>1, <2>1, <2>2 DEF TypeOK
<1>3. Validated' /\ ActInList' /\ Idle'
  BY <1>1 DEF IInv, Validated, Running, ActInList, Idle
<1>4. AcceptedNeverCrashes'
  BY DEF AcceptedNeverCrashes, Codes, Crash
<1> QED BY <1>2, <1>3, <1>4 DEF IInv

LEMMA LoadStep ==
  ASSUME CoveredFiles, IInv, Load
  PROVE  IInv'
<1>1. Replay' = Replay /\ Contracts' = Contracts
  BY DEF Load, Replay, Contracts
<1>2. call' = NoCall
  BY DEF Load, IInv, Idle
<1>3. CASE ReplayOK(Replay)
  <2>1. \A entity \in DOMAIN Contracts : EntryTyped(Contracts[entity], InitialWorld(Replay)[entity])
    <3> TAKE entity \in DOMAIN Contracts
    <3> DEFINE given == IF entity \in DOMAIN Replay.initial THEN Replay.initial[entity] ELSE <<>>
    <3>1. ContractOK(Contracts[entity]) /\ Sound(Contracts[entity])
      BY <1>3, RunningSound DEF IInv, TypeOK
    <3>2. ASSUME NEW var \in DOMAIN given \cap DOMAIN Contracts[entity].state
          PROVE  HasType(given[var], Contracts[entity].state[var])
      <4>1. entity \in DOMAIN Replay.initial
        BY <3>2
      <4> QED BY <1>3, <3>2, <4>1 DEF ReplayOK, InitialOK, HasType, Contracts
    <3>3. InitialWorld(Replay)[entity] =
            [state |-> InitialState(Contracts[entity], given), control |-> <<>>]
      BY DEF InitialWorld, Contracts
    <3> HIDE DEF given
    <3> QED BY <3>1, <3>2, <3>3, InitialTyped
  <2>2. /\ phase' = "events" /\ world' = InitialWorld(Replay)
        /\ turn' = [entity \in DOMAIN Contracts |-> 1]
        /\ UNCHANGED <<file, event, wire, act, blocked, error>>
    BY <1>3 DEF Load
  <2>3. DOMAIN InitialWorld(Replay) = DOMAIN Contracts
    BY DEF InitialWorld, Contracts
  <2>4. TypeOK'
    BY <1>1, <1>2, <2>1, <2>2, <2>3 DEF IInv, TypeOK, Phases
  <2> QED
    BY <1>1, <1>3, <2>2, <2>4
    DEF IInv, Validated, ActInList, Idle, AcceptedNeverCrashes
<1>4. CASE ~ReplayOK(Replay)
  <2>1. phase' = "rejected" /\ UNCHANGED <<file, event, wire, act, blocked, error>>
    BY <1>4 DEF Load
  <2> QED
    BY <1>1, <2>1 DEF IInv, TypeOK, Phases, Validated, ActInList, Idle, AcceptedNeverCrashes
<1> QED BY <1>3, <1>4

LEMMA EventStep ==
  ASSUME CoveredFiles, IInv, DeliverEvent
  PROVE  IInv'
<1>1. Running /\ phase = "events"
  BY DEF DeliverEvent, Running
<1>2. PICK i \in 1 .. Len(Replay.events) :
        /\ Deliver(Replay.events[i].entity, Replay.events[i].verb, Replay.events[i].arg)
        /\ event' = i
  BY DEF DeliverEvent
<1>3. Replay.events[i].entity \in DOMAIN Contracts
  BY <1>1, <1>2 DEF IInv, Validated, ReplayOK, EventsOK, Contracts, Running
<1>4. event' \in Nat
  BY <1>2, ReplaysAreFiles DEF IInv, TypeOK, Replay
<1>5. /\ world' = world /\ phase' \in {phase, "failed"} /\ error' \in Codes \cup {"none"}
      /\ call' # NoCall => CallTyped(call')
  BY <1>1, <1>2, <1>3, DeliverTyped
<1>6. UNCHANGED <<file, wire, act, turn, blocked>>
  BY DEF DeliverEvent
<1> QED
  BY <1>1, <1>4, <1>5, <1>6, StepFacts DEF IInv, TypeOK, Phases, Running

LEMMA EffectStep ==
  ASSUME CoveredFiles, IInv, ApplyNextEffect
  PROVE  IInv' /\ phase' = phase
<1> DEFINE contract == Contracts[call.entity]
           spec     == SpecOf(contract, call.verb)
           effect   == spec.effects[call.effect]
           entry    == world[call.entity]
<1>1. Running /\ phase \in {"events", "wires"} /\ CallTyped(call)
  BY DEF ApplyNextEffect, Running, IInv, TypeOK
<1>2. Sound(contract) /\ EntryTyped(contract, entry) /\ call.entity \in DOMAIN world
  BY <1>1, RunningSound DEF IInv, Validated, TypeOK, Running, CallTyped
<1>3. SpecSound(spec, contract)
  BY <1>1, <1>2 DEF Sound, CallTyped
<1>4. /\ EffectSound(effect, contract, spec.arg)
      /\ spec.arg = "count" => IsInt(call.arg)
  BY <1>1, <1>3 DEF SpecSound, CallTyped
<1>5. ~EffectRaises(effect, call.arg, entry.state, contract.params)
  <2> HIDE DEF contract, entry, effect, spec
  <2> QED BY <1>2, <1>4, EffectNeverRaises
<1>6. EntryTyped(contract, ApplyEffect(effect, call.arg, entry, contract.params))
  <2> HIDE DEF contract, entry, effect, spec
  <2> QED BY <1>2, <1>4, EffectKeepsTypes
<1>7. /\ world' = [world EXCEPT ![call.entity] =
                     ApplyEffect(effect, call.arg, entry, contract.params)]
      /\ call' = IF call.effect < Len(spec.effects)
                 THEN [call EXCEPT !.effect = @ + 1] ELSE NoCall
      /\ UNCHANGED <<phase, error>> /\ UNCHANGED <<file, event, wire, act, turn, blocked>>
  BY <1>5 DEF ApplyNextEffect
<1>8. \A entity \in DOMAIN Contracts : EntryTyped(Contracts[entity], world'[entity])
  <2> TAKE entity \in DOMAIN Contracts
  <2>1. CASE entity = call.entity
    BY <1>2, <1>6, <1>7, <2>1
  <2>2. CASE entity # call.entity
    <3>1. world'[entity] = world[entity]
      BY <1>1, <1>7, <2>2 DEF IInv, TypeOK, Running
    <3> QED BY <1>1, <3>1 DEF IInv, TypeOK, Running
  <2> QED BY <2>1, <2>2
<1>9. call' # NoCall => CallTyped(call')
  BY <1>1, <1>3, <1>7 DEF CallTyped, SpecSound
<1>10. DOMAIN world' = DOMAIN Contracts
  BY <1>1, <1>7 DEF IInv, TypeOK, Running
<1>11. error' \in Codes \cup {"none"}
  BY <1>7 DEF IInv, TypeOK, AcceptedNeverCrashes
<1>12. IInv'
  BY <1>1, <1>7, <1>8, <1>9, <1>10, <1>11, StepFacts DEF IInv, TypeOK, Running, ActInList
<1> QED BY <1>7, <1>12

LEMMA WireStep ==
  ASSUME CoveredFiles, IInv, DeliverAct
  PROVE  IInv' /\ phase' = phase
<1> DEFINE then == Replay.wires[wire].then
           a    == then[act]
<1>1. Running /\ phase = "wires"
  BY DEF DeliverAct, Running
<1>2. /\ wire \in 1 .. Len(Replay.wires) /\ act \in 1 .. Len(then)
      /\ Len(then) \in Nat /\ wire \in Nat /\ Len(Replay.wires) \in Nat
  <2>1. wire \in 1 .. Len(Replay.wires) /\ act \in 1 .. Len(then)
    BY DEF DeliverAct, IInv, ActInList
  <2> QED BY <2>1, ReplaysAreFiles DEF IInv, TypeOK, Replay
<1>3. ActOK(a, Contracts)
  <2>1. ReplayOK(Replay)
    BY <1>1 DEF IInv, Validated, Running
  <2>2. WireOK(Replay.wires[wire], Contracts)
    BY <1>2, <2>1 DEF ReplayOK, WiresOK, Contracts
  <2> QED BY <1>2, <2>2 DEF WireOK
<1>4. a.entity \in DOMAIN Contracts
  BY <1>3 DEF ActOK
<1>5. /\ ContractOK(Contracts[a.entity]) /\ Sound(Contracts[a.entity])
      /\ EntryTyped(Contracts[a.entity], world[a.entity])
  BY <1>1, <1>4, RunningSound DEF IInv, Validated, TypeOK, Running
<1>6. DeliveryError(Contracts[a.entity], world[a.entity].state, a.verb, a.arg) = "none"
  <2> HIDE DEF a
  <2> QED BY <1>3, <1>5, WireVerbDelivers
<1>7. Deliver(a.entity, a.verb, a.arg)
  BY DEF DeliverAct
<1>8. UNCHANGED <<phase, world, error>>
  <2> HIDE DEF a
  <2> QED BY <1>6, <1>7 DEF Deliver
<1>9. call' # NoCall => CallTyped(call')
  <2> HIDE DEF a
  <2> QED BY <1>1, <1>4, <1>7, DeliverTyped
<1>10. /\ UNCHANGED <<file, snapshots, event, turn, blocked>>
       /\ \/ act < Len(then) /\ act' = act + 1 /\ wire' = wire
          \/ act' = 0 /\ wire' = wire + 1
  BY DEF DeliverAct
<1>11. wire' \in Nat \ {0} /\ act' \in Nat
  <2> HIDE DEF then
  <2> QED BY <1>2, <1>10 DEF IInv, TypeOK
<1>12. phase' = "wires" /\ act' > 0 =>
         wire' \in 1 .. Len(Replay.wires) /\ act' \in 1 .. Len(Replay.wires[wire'].then)
  BY <1>2, <1>10
<1>13. error' \in Codes \cup {"none"}
  BY <1>8 DEF IInv, TypeOK, AcceptedNeverCrashes
<1>14. IInv'
  <2> HIDE DEF then, a
  <2> QED
    BY <1>1, <1>8, <1>9, <1>10, <1>11, <1>12, <1>13, StepFacts DEF IInv, TypeOK, Running
<1> QED BY <1>8, <1>14

LEMMA BookkeepingStep ==
  ASSUME CoveredFiles, IInv, EventsDone \/ TestWire \/ WiresDone \/ EndTick
  PROVE  IInv' /\ (phase = "wires" => phase' # "failed")
<1>1. Running
  BY DEF EventsDone, TestWire, WiresDone, EndTick, Running
<1>2. error \in Codes \cup {"none"}
  BY DEF IInv, TypeOK, AcceptedNeverCrashes
<1>3. CASE EventsDone
  BY <1>1, <1>2, <1>3, StepFacts DEF EventsDone, IInv, TypeOK, Running, Phases
<1>4. CASE TestWire
  <2>1. wire \in 1 .. Len(Replay.wires)
    BY <1>4, ReplaysAreFiles DEF TestWire, IInv, TypeOK, Replay
  <2>2. 1 \in 1 .. Len(Replay.wires[wire].then)
    <3>1. WireOK(Replay.wires[wire], Contracts)
      BY <1>1, <2>1 DEF IInv, Validated, Running, ReplayOK, WiresOK, Contracts
    <3>2. Len(Replay.wires[wire].then) \in Nat
      BY <2>1, ReplaysAreFiles DEF IInv, TypeOK, Replay
    <3> QED BY <3>1, <3>2 DEF WireOK
  <2>3. /\ UNCHANGED <<file, phase, world, event, call, turn, blocked, error>>
        /\ \/ act' = 1 /\ wire' = wire
           \/ act' = 0 /\ wire' = wire + 1
    BY <1>4 DEF TestWire
  <2>4. wire' \in Nat \ {0} /\ act' \in Nat
    BY <2>3 DEF IInv, TypeOK
  <2>5. phase' = "wires" /\ act' > 0 =>
          wire' \in 1 .. Len(Replay.wires) /\ act' \in 1 .. Len(Replay.wires[wire'].then)
    BY <2>1, <2>2, <2>3
  <2>6. IInv'
    BY <1>1, <1>2, <2>3, <2>4, <2>5, StepFacts DEF IInv, TypeOK, Running
  <2> QED BY <2>3, <2>6
<1>5. CASE WiresDone
  BY <1>1, <1>2, <1>5, StepFacts DEF WiresDone, IInv, TypeOK, Running, Phases
<1>6. CASE EndTick
  BY <1>1, <1>2, <1>6, StepFacts DEF EndTick, IInv, TypeOK, Running, Phases
<1> QED BY <1>3, <1>4, <1>5, <1>6

\* The navigation rules compare integers and booleans only.
LEMMA ReportStep ==
  ASSUME CoveredFiles, IInv, Report
  PROVE  IInv' /\ phase = "report"
<1>1. Running /\ phase = "report"
  BY DEF Report, Running
<1>2. ASSUME NEW entity \in DOMAIN Contracts
      PROVE  ~NavigationRaises(Contracts[entity], world[entity].state)
  <2> DEFINE contract == Contracts[entity]
             state    == world[entity].state
  <2>1. Sound(contract) /\ EntryTyped(contract, world[entity])
    BY <1>1, RunningSound DEF IInv, Validated, TypeOK, Running
  <2>2. \A i \in 1 .. Len(contract.navigation.blocksBelow) :
          ~RuleRaises(contract.navigation.blocksBelow[i], state)
    BY <2>1 DEF Sound, EntryTyped, RuleRaises, Converts, HasType
  <2> QED BY <2>2 DEF NavigationRaises
<1>3. /\ phase' = "done" /\ blocked' \subseteq DOMAIN Contracts
      /\ UNCHANGED <<world, call, error>> /\ UNCHANGED <<file, snapshots, event, wire, act, turn>>
  BY <1>2 DEF Report
<1>4. error' \in Codes \cup {"none"}
  BY <1>3 DEF IInv, TypeOK, AcceptedNeverCrashes
<1>5. IInv'
  BY <1>1, <1>3, <1>4, StepFacts DEF IInv, TypeOK, Running, Phases
<1> QED BY <1>1, <1>5

LEMMA IntegrateStep ==
  ASSUME CoveredFiles, IInv, NEW entity \in DOMAIN world, StepIntegrator(entity)
  PROVE  IInv' /\ phase' = phase
<1> DEFINE contract   == Contracts[entity]
           integrator == Integrators(entity)[turn[entity]]
           entry      == world[entity]
<1>1. Running /\ phase = "integrate"
  BY DEF StepIntegrator, Running
<1>2. entity \in DOMAIN Contracts /\ turn[entity] \in Nat \ {0}
  BY <1>1 DEF IInv, TypeOK, Running
<1>3. Sound(contract) /\ EntryTyped(contract, entry)
  BY <1>1, <1>2, RunningSound DEF IInv, Validated, TypeOK, Running
<1>4. turn[entity] \in 1 .. Len(Integrators(entity))
  BY <1>2, <1>3 DEF StepIntegrator, Sound, Integrators
<1>5. IntegratorSound(integrator, contract)
  BY <1>3, <1>4 DEF Sound, Integrators
<1>6. /\ EntryTyped(contract, Integrate(integrator, entry, contract.params))
      /\ ~IntegrateRaises(integrator, entry, contract.params)
  <2> HIDE DEF contract, integrator, entry
  <2> QED BY <1>3, <1>5, IntegrateKeepsTypes
<1>7. /\ world' = [world EXCEPT ![entity] = Integrate(integrator, entry, contract.params)]
      /\ turn' = [turn EXCEPT ![entity] = @ + 1]
      /\ UNCHANGED <<phase, call, error>> /\ UNCHANGED <<file, event, wire, act, blocked>>
  BY <1>6 DEF StepIntegrator
<1>8. \A e \in DOMAIN Contracts : EntryTyped(Contracts[e], world'[e])
  <2> TAKE e \in DOMAIN Contracts
  <2>1. CASE e = entity
    BY <1>6, <1>7, <2>1
  <2>2. CASE e # entity
    <3>1. world'[e] = world[e]
      BY <1>1, <1>7, <2>2 DEF IInv, TypeOK, Running
    <3> QED BY <1>1, <3>1 DEF IInv, TypeOK, Running
  <2> QED BY <2>1, <2>2
<1>9. /\ DOMAIN world' = DOMAIN Contracts /\ DOMAIN turn' = DOMAIN Contracts
      /\ \A e \in DOMAIN Contracts : turn'[e] \in Nat \ {0}
  <2>1. DOMAIN world' = DOMAIN world /\ DOMAIN turn' = DOMAIN turn
    BY <1>7
  <2>2. DOMAIN world = DOMAIN Contracts /\ DOMAIN turn = DOMAIN Contracts
    BY <1>1 DEF IInv, TypeOK, Running
  <2>3. \A e \in DOMAIN Contracts : turn[e] \in Nat \ {0}
    BY <1>1 DEF IInv, TypeOK, Running
  <2> QED BY <1>2, <1>7, <2>1, <2>2, <2>3
<1>10. error' \in Codes \cup {"none"} /\ (call' # NoCall => CallTyped(call'))
  BY <1>1, <1>7 DEF IInv, TypeOK, AcceptedNeverCrashes, Running
<1>11. IInv'
  <2> HIDE DEF contract, integrator, entry
  <2> QED
    BY <1>1, <1>7, <1>8, <1>9, <1>10, StepFacts DEF IInv, TypeOK, Running, Phases
<1> QED BY <1>7, <1>11

LEMMA NextInv ==
  ASSUME CoveredFiles, IInv, [Next]_vars
  PROVE  IInv' /\ (phase = "wires" => phase' # "failed")
<1>1. CASE Load
  BY <1>1, LoadStep DEF Load
<1>2. CASE DeliverEvent
  BY <1>2, EventStep DEF DeliverEvent
<1>3. CASE ApplyNextEffect
  BY <1>3, EffectStep
<1>4. CASE DeliverAct
  BY <1>4, WireStep
<1>5. CASE EventsDone \/ TestWire \/ WiresDone \/ EndTick
  BY <1>5, BookkeepingStep
<1>6. CASE \E entity \in DOMAIN world : StepIntegrator(entity)
  BY <1>6, IntegrateStep
<1>7. CASE Report
  BY <1>7, ReportStep
<1>8. CASE UNCHANGED vars
  <2>1. IInv'
    BY <1>8
    DEF vars, IInv, TypeOK, Validated, ActInList, Idle, AcceptedNeverCrashes,
        CallTyped, Contracts, Replay
  <2> QED BY <1>8, <2>1 DEF vars
<1> QED BY <1>1, <1>2, <1>3, <1>4, <1>5, <1>6, <1>7, <1>8 DEF Next

-----------------------------------------------------------------------------
\* The inductive invariant holds throughout every run of covered files.
THEOREM Invariance == ASSUME CoveredFiles PROVE Spec => []IInv
<1>1. Init => IInv
  BY InitInv
<1>2. IInv /\ [Next]_vars => IInv'
  BY NextInv
<1> QED BY <1>1, <1>2, PTL DEF Spec

\* Type soundness: in every reachable state of every covered file, every
\* variable of every entity holds a value of the type its contract declares
\* (kernel.py, _validate_semantics: "the block is TYPED against the schema").
THEOREM TypeCorrect == ASSUME CoveredFiles PROVE Spec => []TypeOK
<1>1. IInv => TypeOK
  BY DEF IInv
<1> QED BY <1>1, Invariance, PTL

\* Validation is complete for covered files: what it accepts never leaves
\* the vocabulary, whatever the events, the arguments and the values are.
THEOREM NeverCrashes == ASSUME CoveredFiles PROVE Spec => []AcceptedNeverCrashes
<1>1. IInv => AcceptedNeverCrashes
  BY DEF IInv
<1> QED BY <1>1, Invariance, PTL

\* Only an event can stop a covered replay, never a wire (validate_wires).
THEOREM WiresSafe == ASSUME CoveredFiles PROVE Spec => WiresNeverFail
<1>1. IInv /\ [Next]_vars => [phase = "wires" => phase' # "failed"]_vars
  BY NextInv
<1>2. Spec => [][phase = "wires" => phase' # "failed"]_vars
  BY <1>1, Invariance, PTL DEF Spec
<1> QED BY <1>2 DEF WiresNeverFail

-----------------------------------------------------------------------------
(* Integrators. *)

LEMMA IntegratedBetween ==
  ASSUME NEW current \in I64, NEW target \in I64, NEW rate \in Nat
  PROVE  Between(current, Integrated(current, target, rate), target)
<1>1. I64Min <= current /\ current <= I64Max /\ current \in Int /\ target \in Int
  BY KernelConstants DEF I64
<1>2. Sat(current + rate) >= current /\ Sat(current + rate) \in Int
  BY <1>1, KernelConstants DEF Sat
<1>3. Sat(current - rate) <= current /\ Sat(current - rate) \in Int
  BY <1>1, KernelConstants DEF Sat
<1> QED BY <1>1, <1>2, <1>3 DEF Between, Integrated, Smaller, Larger

LEMMA IntegrateToward ==
  ASSUME NEW contract, Sound(contract),
         NEW entry, EntryTyped(contract, entry),
         NEW integrator, IntegratorSound(integrator, contract),
         Integrate(integrator, entry, contract.params) # entry,
         Raw(Resolve(integrator.rate, NoValue, entry.state, contract.params)) >= 0
  PROVE  Toward(entry, Integrate(integrator, entry, contract.params), integrator)
<1> DEFINE state   == entry.state
           rateV   == Resolve(integrator.rate, NoValue, state, contract.params)
           current == ToInt(state[integrator.var])
           target  == IF integrator.toward \in DOMAIN entry.control
                      THEN ToInt(entry.control[integrator.toward]) ELSE current
           rate    == ToInt(rateV)
           moved   == IntV(Integrated(current, target, rate))
<1>1. HasType(rateV, "int")
  BY ResolveTyped DEF IntegratorSound
<1>2. rate \in Nat
  BY <1>1, IntTyped
<1>3. /\ integrator.var \in DOMAIN state /\ current # target
      /\ Integrate(integrator, entry, contract.params) =
           [state |-> Put(state, integrator.var, moved), control |-> entry.control]
  BY DEF Integrate
<1>4. HasType(state[integrator.var], "int")
  BY <1>3 DEF IntegratorSound, EntryTyped
<1>5. current \in I64 /\ current = Raw(state[integrator.var])
  BY <1>4, IntTyped
<1>6. integrator.toward \in DOMAIN entry.control
  BY <1>3
<1>7. HasType(entry.control[integrator.toward], "int")
  BY <1>6 DEF EntryTyped
<1>8. target \in I64 /\ target = Raw(entry.control[integrator.toward])
  BY <1>6, <1>7, IntTyped
<1>9. Between(current, Raw(moved), target)
  <2> HIDE DEF current, target, rate
  <2>1. Between(current, Integrated(current, target, rate), target)
    BY <1>2, <1>5, <1>8, IntegratedBetween
  <2> QED BY <2>1 DEF IntV, Raw
<1>10. Integrate(integrator, entry, contract.params).state[integrator.var] = moved
  <2> HIDE DEF moved
  <2> QED BY <1>3 DEF Put
<1> QED
  <2> HIDE DEF moved, current, target
  <2> QED BY <1>5, <1>6, <1>8, <1>9, <1>10 DEF Toward

\* step_entity, in every tick of every covered replay: a variable with a rate
\* that is not negative moves toward its control and stops at it, at the ends
\* of the i64 range too.
THEOREM MotionIsTowardTarget == ASSUME CoveredFiles PROVE Spec => IntegratorsMoveToward
<1> DEFINE Motion ==
      phase = "integrate" /\ phase' = "integrate" =>
        \A entity \in DOMAIN world :
          LET integrator == Integrators(entity)[turn[entity]]
          IN world'[entity] # world[entity] /\ RateOf(entity, integrator) >= 0
             => Toward(world[entity], world'[entity], integrator)
<1>1. ASSUME IInv, [Next]_vars PROVE [Motion]_vars
  <2>1. SUFFICES ASSUME phase = "integrate", phase' = "integrate",
                        NEW entity \in DOMAIN world, world'[entity] # world[entity],
                        RateOf(entity, Integrators(entity)[turn[entity]]) >= 0
                 PROVE  Toward(world[entity], world'[entity], Integrators(entity)[turn[entity]])
    OBVIOUS
  <2>2. StepIntegrator(entity)
    <3>1. PICK e \in DOMAIN world : StepIntegrator(e)
      BY <1>1, <2>1
      DEF Next, vars, Load, DeliverEvent, ApplyNextEffect, EventsDone, TestWire, DeliverAct,
          WiresDone, EndTick, Report
    <3>2. world' = [world EXCEPT ![e] = Integrate(Integrators(e)[turn[e]], @, Contracts[e].params)]
      BY <2>1, <3>1 DEF StepIntegrator, Fail
    <3> QED BY <2>1, <3>1, <3>2
  <2> DEFINE contract   == Contracts[entity]
             integrator == Integrators(entity)[turn[entity]]
  <2>3. world'[entity] = Integrate(integrator, world[entity], contract.params)
    BY <2>1, <2>2 DEF StepIntegrator, Fail
  <2>4. Running /\ entity \in DOMAIN Contracts /\ turn[entity] \in Nat \ {0}
    BY <1>1, <2>1 DEF IInv, TypeOK, Running
  <2>5. Sound(contract) /\ EntryTyped(contract, world[entity])
    BY <1>1, <2>4, RunningSound DEF IInv, Validated, TypeOK, Running
  <2>6. IntegratorSound(integrator, contract)
    BY <2>2, <2>4, <2>5 DEF StepIntegrator, Sound, Integrators
  <2>7. Raw(Resolve(integrator.rate, NoValue, world[entity].state, contract.params)) >= 0
    BY <2>1 DEF RateOf
  <2> HIDE DEF contract, integrator
  <2>8. Toward(world[entity], world'[entity], integrator)
    BY <2>1, <2>3, <2>5, <2>6, <2>7, IntegrateToward
  <2> QED BY <2>8 DEF integrator
<1>2. Spec => [][Motion]_vars
  BY <1>1, Invariance, PTL DEF Spec
<1> QED BY <1>2 DEF IntegratorsMoveToward
-----------------------------------------------------------------------------
(* How far a tick is.  The unrolled kernel is on the way from the world    *)
(* the tick began with (Base) to the outcome of the loops up to the        *)
(* delivery that was begun last (Target).                                  *)

Now == Outcome(world, "none")

Base == IF snapshots = <<>> THEN InitialWorld(Replay) ELSE snapshots[Len(snapshots)]

ToldTo(n)     == Told(Contracts, Replay.events, Tick, Outcome(Base, "none"), n)
Begun         == ToldTo(Len(Replay.events))
CoupledTo(n)  == Coupled(Contracts, Replay.wires, Begun, n)
ActedTo(w, n) == Acted(Contracts, Replay.wires[w].then, CoupledTo(w - 1), n)
Wired         == CoupledTo(Len(Replay.wires))

Target ==
  IF phase = "events" THEN ToldTo(event)
  ELSE IF act = 0 THEN CoupledTo(wire - 1) ELSE ActedTo(wire, act - 1)

\* The effects that are left of a call lead from here to there.
LeadsTo(contracts, c, here, there) ==
  LET effects == SpecOf(contracts[c.entity], c.verb).effects
      at(start, n) == Affected(start, effects, c.entity, c.arg, contracts[c.entity].params, n)
  IN /\ c = [entity |-> c.entity, verb |-> c.verb, arg |-> c.arg, effect |-> c.effect]
     /\ Len(effects) \in Nat /\ c.effect \in 1 .. Len(effects)
     /\ \E start : at(start, c.effect - 1) = here /\ at(start, Len(effects)) = there

OnTheWay ==
  phase \in {"events", "wires"} =>
    IF call = NoCall THEN Target = Now ELSE LeadsTo(Contracts, call, Now, Target)

AtEvent == phase = "events" => event \in 0 .. Len(Replay.events)

\* A wire whose verbs are being delivered was true when it was tested.
AtWire ==
  phase = "wires" =>
    /\ wire \in 1 .. Len(Replay.wires) + 1 /\ act \in Nat
    /\ act > 0 =>
         /\ wire <= Len(Replay.wires) /\ act <= Len(Replay.wires[wire].then)
         /\ AfterWire(Contracts, CoupledTo(wire - 1), Replay.wires[wire])
              = ActedTo(wire, Len(Replay.wires[wire].then))

AtIntegrator ==
  phase = "integrate" =>
    /\ call = NoCall /\ Wired = Outcome(Wired.world, "none")
    /\ turn = [entity \in DOMAIN Contracts |-> turn[entity]]
    /\ \A entity \in DOMAIN Contracts :
         /\ turn[entity] \in 1 .. Len(Integrators(entity)) + 1
         /\ world[entity] = Stepped(Contracts[entity], Wired.world[entity], turn[entity] - 1)
         /\ \A i \in 1 .. turn[entity] - 1 :
              ~IntegrateRaises(Integrators(entity)[i],
                               Stepped(Contracts[entity], Wired.world[entity], i - 1),
                               Contracts[entity].params)

Shaped ==
  /\ file \in DOMAIN Replays
  /\ \E S : snapshots \in Seq(S)
  /\ phase = "load" => snapshots = <<>> /\ event = 0 /\ call = NoCall
  /\ Running =>
       /\ ReplayOK(Replay)
       /\ world = [entity \in DOMAIN Contracts |-> world[entity]]
       /\ DOMAIN Base = DOMAIN Contracts
  /\ phase = "report" => world = Base

\* What SimTick says the tick that is running comes to.
TickNow == TickOf(Contracts, Replay.wires, Base, Replay.events, Tick)

TickInv == Shaped /\ OnTheWay /\ AtEvent /\ AtWire /\ AtIntegrator

\* The lists of a file that loads have their lengths.
LEMMA ListLengths ==
  ASSUME file \in DOMAIN Replays
  PROVE  /\ Len(Replay.events) \in Nat /\ Len(Replay.wires) \in Nat
         /\ \A w \in 1 .. Len(Replay.wires) : Len(Replay.wires[w].then) \in Nat
  BY ReplaysAreFiles DEF Replay

\* An entity has a list of integrators.
LEMMA IntegratorLengths ==
  ASSUME file \in DOMAIN Replays, NEW entity \in DOMAIN Contracts
  PROVE  Len(Integrators(entity)) \in Nat
<1>1. CASE Contracts[entity].version = "0.2"
  BY <1>1, ReplaysAreFiles DEF ContractLists, Contracts, Replay, Integrators, Semantics
<1>2. CASE Contracts[entity].version # "0.2"
  <2>1. Integrators(entity) = DoorIntegrators
    BY <1>2 DEF Integrators, Semantics
  <2>2. Len(DoorIntegrators) \in Nat
    BY DEF DoorIntegrators
  <2> QED BY <2>1, <2>2
<1> QED BY <1>1, <1>2

\* And every verb that is declared.
LEMMA EffectLengths ==
  ASSUME file \in DOMAIN Replays, NEW entity \in DOMAIN Contracts,
         NEW verb \in DeclaredVerbs(Contracts[entity])
  PROVE  Len(SpecOf(Contracts[entity], verb).effects) \in Nat
<1>1. CASE Contracts[entity].version = "0.2"
  BY <1>1, ReplaysAreFiles DEF ContractLists, Contracts, Replay, SpecOf, DeclaredVerbs, Semantics, HasLists
<1>2. CASE Contracts[entity].version # "0.2"
  <2>1. verb \in DOMAIN DoorAffordances /\ SpecOf(Contracts[entity], verb) = DoorAffordances[verb]
    BY <1>2 DEF SpecOf, DeclaredVerbs, Semantics
  <2> QED BY <2>1, DoorLengths
<1> QED BY <1>1, <1>2

\* While the file and the snapshots stay, so does all that a tick is made of.
LEMMA Unmoved ==
  ASSUME UNCHANGED <<file, snapshots>>
  PROVE  /\ Replay' = Replay /\ Contracts' = Contracts /\ Base' = Base /\ Tick' = Tick
         /\ \A n : ToldTo(n)' = ToldTo(n)
         /\ Begun' = Begun /\ Wired' = Wired
         /\ \A n : CoupledTo(n)' = CoupledTo(n)
         /\ \A w, n : ActedTo(w, n)' = ActedTo(w, n)
         /\ \A entity : Integrators(entity)' = Integrators(entity)
<1>1. Replay' = Replay /\ Contracts' = Contracts /\ Tick' = Tick
  BY DEF Replay, Contracts, Tick
<1>2. Base' = Base
  BY <1>1 DEF Base
<1>3. \A n : ToldTo(n)' = ToldTo(n)
  BY <1>1, <1>2 DEF ToldTo
<1>4. Begun' = Begun
  BY <1>1, <1>3 DEF Begun
<1>5. \A n : CoupledTo(n)' = CoupledTo(n)
  BY <1>1, <1>4 DEF CoupledTo
<1>6. Wired' = Wired
  BY <1>1, <1>5 DEF Wired
<1>7. \A w, n : ActedTo(w, n)' = ActedTo(w, n)
  BY <1>1, <1>5 DEF ActedTo
<1>8. \A entity : Integrators(entity)' = Integrators(entity)
  BY <1>1 DEF Integrators
<1> QED BY <1>1, <1>2, <1>3, <1>4, <1>5, <1>6, <1>7, <1>8

\* What a delivery begins leads to what DeliverTo says of it.
LEMMA DeliverLeads ==
  ASSUME file \in DOMAIN Replays, NEW entity \in DOMAIN Contracts, NEW verb, NEW arg,
         call = NoCall, Deliver(entity, verb, arg)
  PROVE  LET there == DeliverTo(Contracts, Now, entity, verb, arg)
         IN \/ /\ phase' = "failed" /\ UNCHANGED <<world, call>>
               /\ error' # "none" /\ there.error = error'
            \/ /\ UNCHANGED <<phase, world, error>>
               /\ call' = NoCall => there = Now
               /\ call' # NoCall => LeadsTo(Contracts, call', Now, there)
<1> DEFINE contract == Contracts[entity]
           why == DeliveryError(contract, world[entity].state, verb, arg)
           spec == SpecOf(contract, verb)
           there == DeliverTo(Contracts, Now, entity, verb, arg)
<1>1. Now.error = "none" /\ Now.world = world
  BY DEF Now, Outcome
<1>2. there = Delivered(contract, Now, entity, verb, arg, why)
  BY <1>1 DEF DeliverTo
<1>3. CASE why # "none"
  <2>1. there.error = why
    BY <1>2, <1>3, <1>1 DEF Delivered, Now, Outcome
  <2>2. phase' = "failed" /\ UNCHANGED <<world, call>> /\ error' = why
    BY <1>3 DEF Deliver, Fail
  <2> QED BY <1>3, <2>1, <2>2
<1>4. CASE why = "none"
  <2>1. there = AfterEffects(Now, spec, entity, arg, contract.params)
    BY <1>2, <1>4 DEF Delivered
  <2>2. verb \in DeclaredVerbs(contract)
    BY <1>4 DEF DeliveryError
  <2>3. Len(spec.effects) \in Nat
    BY <2>2, EffectLengths
  <2>4. Affected(Now, spec.effects, entity, arg, contract.params, 0) = Now
    BY <2>3, AffectedPasses
  <2> DEFINE goes == GuardsHold(spec.guards, world[entity].state, contract.params)
             called == [entity |-> entity, verb |-> verb, arg |-> arg, effect |-> 1]
  <2>5. /\ UNCHANGED <<phase, world, error>>
        /\ call' = IF goes /\ Len(spec.effects) > 0 THEN called ELSE NoCall
    BY <1>4 DEF Deliver
  <2>6. called # NoCall
    BY DEF NoCall
  <2>7. ~goes => there = Now
    BY <1>1, <2>1 DEF AfterEffects
  <2>8. goes => there = Affected(Now, spec.effects, entity, arg, contract.params, Len(spec.effects))
    BY <1>1, <2>1 DEF AfterEffects
  <2>9. ASSUME goes, Len(spec.effects) > 0 PROVE LeadsTo(Contracts, called, Now, there)
    <3>1. /\ called.entity = entity /\ called.verb = verb /\ called.arg = arg /\ called.effect = 1
          /\ called = [entity |-> called.entity, verb |-> called.verb, arg |-> called.arg,
                       effect |-> called.effect]
      OBVIOUS
    <3> HIDE DEF called, goes, there
    <3>2. there = Affected(Now, spec.effects, entity, arg, contract.params, Len(spec.effects))
      BY <2>8, <2>9
    <3>3. 1 \in 1 .. Len(spec.effects) /\ 1 - 1 = 0
      BY <2>3, <2>9
    <3> QED BY <2>3, <2>4, <3>1, <3>2, <3>3 DEF LeadsTo
  <2> HIDE DEF goes, called, there
  <2>10. call' = NoCall => there = Now
    BY <2>3, <2>4, <2>5, <2>6, <2>7, <2>8
  <2>11. call' # NoCall => LeadsTo(Contracts, call', Now, there)
    BY <2>5, <2>9
  <2> QED BY <2>5, <2>10, <2>11 DEF there
<1> QED BY <1>3, <1>4

\* Events that are not due are passed over.
LEMMA Skips ==
  ASSUME file \in DOMAIN Replays, NEW a \in 0 .. Len(Replay.events),
         NEW b \in a .. Len(Replay.events),
         \A j \in a + 1 .. b : Replay.events[j].tick # Tick
  PROVE  ToldTo(b) = ToldTo(a)
<1> DEFINE N == Len(Replay.events)
           f == [n \in 0 .. N |-> ToldTo(n)]
<1>1. N \in Nat
  BY ListLengths
<1>2. \A n \in 1 .. N : f[n] = AfterEventOf(Contracts, Tick, f[n - 1], Replay.events[n])
  <2>1. \A n \in 1 .. N : ToldTo(n) = AfterEventOf(Contracts, Tick, ToldTo(n - 1), Replay.events[n])
    BY <1>1, ToldPasses DEF ToldTo
  <2> QED BY <1>1, <2>1
<1>3. f[a] = ToldTo(a) /\ f[b] = ToldTo(b)
  BY <1>1
<1>4. a \in Nat /\ b \in Nat /\ a <= b /\ b <= N
  BY <1>1
<1> HIDE DEF f, N
<1>5. \A n \in a .. b - 1 : f[n] = f[a] => f[n + 1] = f[n]
  <2> TAKE n \in a .. b - 1
  <2>1. n + 1 \in 1 .. N /\ (n + 1) - 1 = n /\ n + 1 \in a + 1 .. b
    BY <1>1, <1>4
  <2>2. f[n + 1] = AfterEventOf(Contracts, Tick, f[n], Replay.events[n + 1])
    BY <1>2, <2>1
  <2> QED BY <2>1, <2>2 DEF AfterEventOf
<1>6. \A k \in a .. b : f[k] = f[a]
  BY <1>4, <1>5, Stays
<1> QED BY <1>3, <1>4, <1>6

\* A loop that fails fails the tick, for the same reason.
LEMMA CouplingFails ==
  ASSUME file \in DOMAIN Replays, NEW n \in 0 .. Len(Replay.wires), CoupledTo(n).error # "none"
  PROVE  TickNow.error = CoupledTo(n).error
<1>1. Wired = CoupledTo(n)
  BY CoupledFails, ListLengths DEF CoupledTo, Wired
<1>2. Wired = ApplyWires(Contracts, Replay.wires, Begun)
  BY DEF Wired, CoupledTo, ApplyWires
<1>3. Begun = Told(Contracts, Replay.events, Tick, Outcome(Base, "none"), Len(Replay.events))
  BY DEF Begun, ToldTo
<1> QED BY <1>1, <1>2, <1>3 DEF TickNow, TickOf

\* Events that fail.
LEMMA TellingFails ==
  ASSUME file \in DOMAIN Replays, NEW n \in 0 .. Len(Replay.events), ToldTo(n).error # "none"
  PROVE  TickNow.error = ToldTo(n).error
<1>1. Begun = ToldTo(n)
  BY ToldFails, ListLengths DEF ToldTo, Begun
<1>2. Len(Replay.wires) \in Nat
  BY ListLengths
<1>3. CoupledTo(0) = Begun
  BY <1>2, CoupledPasses DEF CoupledTo
<1>4. 0 \in 0 .. Len(Replay.wires)
  BY <1>2
<1> QED BY <1>1, <1>3, <1>4, CouplingFails

\* A verb of a wire that fails.
LEMMA ActingFails ==
  ASSUME file \in DOMAIN Replays, NEW w \in 1 .. Len(Replay.wires),
         NEW n \in 0 .. Len(Replay.wires[w].then), ActedTo(w, n).error # "none",
         AfterWire(Contracts, CoupledTo(w - 1), Replay.wires[w])
           = ActedTo(w, Len(Replay.wires[w].then))
  PROVE  TickNow.error = ActedTo(w, n).error
<1>1. Len(Replay.wires) \in Nat /\ Len(Replay.wires[w].then) \in Nat
  BY ListLengths
<1>2. ActedTo(w, Len(Replay.wires[w].then)) = ActedTo(w, n)
  BY <1>1, ActedFails DEF ActedTo
<1>3. CoupledTo(w) = ActedTo(w, n)
  BY <1>1, <1>2, CoupledPasses DEF CoupledTo
<1>4. w \in 0 .. Len(Replay.wires)
  BY <1>1
<1> QED BY <1>3, <1>4, CouplingFails

-----------------------------------------------------------------------------
(* What a step is to SimTick. *)

Ticking == {"events", "wires", "integrate"}

\* A step inside a tick is none.
LEMMA InsideTick ==
  ASSUME phase \in Ticking, phase' \in Ticking, UNCHANGED <<file, snapshots, blocked, error>>
  PROVE  UNCHANGED Ticks!tickVars
  BY DEF Ticking, Ticks!tickVars

\* A step that fails is the tick, failed.
LEMMA FailedTick ==
  ASSUME phase \in Ticking, phase' = "failed", UNCHANGED <<file, snapshots, blocked>>,
         TickNow.error = error', error' # "none"
  PROVE  Ticks!RunTick
<1>1. TickNow = TickOf(Replays[file].contracts, Replays[file].wires, Ticks!Settled,
                       Replays[file].events, Len(snapshots))
  BY DEF TickNow, Contracts, Replay, Base, Tick, Ticks!Settled
<1> QED BY <1>1 DEF Ticking, Ticks!RunTick

\* The last step of a tick is the tick.
LEMMA WholeTick ==
  ASSUME phase \in Ticking, TickNow = Outcome(world, "none"),
         snapshots' = Append(snapshots, world),
         phase' = IF Tick < Replay.ticks THEN "events" ELSE "report",
         UNCHANGED <<file, blocked, error>>
  PROVE  Ticks!RunTick
<1>1. TickNow = TickOf(Replays[file].contracts, Replays[file].wires, Ticks!Settled,
                       Replays[file].events, Len(snapshots))
  BY DEF TickNow, Contracts, Replay, Base, Tick, Ticks!Settled
<1>2. TickNow.error = "none" /\ TickNow.world = world
  BY DEF Outcome
<1> QED BY <1>1, <1>2 DEF Ticking, Ticks!RunTick, Tick, Replay

-----------------------------------------------------------------------------
(* Every step keeps TickInv and is a step of SimTick, or none.             *)

Implements == TickInv' /\ (Ticks!TickNext \/ UNCHANGED Ticks!tickVars)

\* Where the micro-steps keep their shape.
LEMMA ShapeStays ==
  ASSUME Shaped, phase \in Ticking, phase' \in Ticking \cup {"failed"},
         UNCHANGED <<file, snapshots>>,
         UNCHANGED world \/ \E entity, entry : world' = [world EXCEPT ![entity] = entry]
  PROVE  Shaped'
<1>1. ReplayOK(Replay) /\ DOMAIN Base = DOMAIN Contracts
      /\ world = [entity \in DOMAIN Contracts |-> world[entity]]
  BY DEF Shaped, Running, Ticking
<1>2. Replay' = Replay /\ Contracts' = Contracts /\ Base' = Base
  BY Unmoved
<1>3. world' = [entity \in DOMAIN Contracts |-> world'[entity]]
  <2>1. CASE UNCHANGED world
    BY <1>1, <2>1
  <2>2. ASSUME NEW entity, NEW entry, world' = [world EXCEPT ![entity] = entry]
        PROVE  world' = [other \in DOMAIN Contracts |-> world'[other]]
    BY <1>1, <2>2
  <2> QED BY <2>1, <2>2
<1>4. phase' \notin {"load", "report"}
  BY DEF Ticking
<1> QED BY <1>1, <1>2, <1>3, <1>4 DEF Shaped

\* A tick that failed is over.
LEMMA FailureImplements ==
  ASSUME Shaped, phase \in Ticking, phase' = "failed", UNCHANGED <<file, snapshots, blocked, world>>,
         TickNow.error = error', error' # "none"
  PROVE  Implements
<1>1. Shaped'
  BY ShapeStays
<1>2. (OnTheWay /\ AtEvent /\ AtWire /\ AtIntegrator)'
  BY DEF OnTheWay, AtEvent, AtWire, AtIntegrator
<1>3. Ticks!RunTick
  BY FailedTick
<1> QED BY <1>1, <1>2, <1>3 DEF Implements, TickInv, Ticks!TickNext

\* The replay is loaded, or refused.
LEMMA LoadImplements == ASSUME TickInv, Load PROVE Implements
<1>1. phase = "load" /\ snapshots = <<>> /\ event = 0 /\ call = NoCall /\ file \in DOMAIN Replays
      /\ UNCHANGED <<file, snapshots, event, wire, act, call, blocked, error>>
  BY DEF TickInv, Shaped, Load
<1>2. Ticks!LoadReplay
  BY <1>1 DEF Load, Replay, Ticks!LoadReplay
<1>3. \E S : snapshots \in Seq(S)
  BY DEF TickInv, Shaped
<1>4. CASE ReplayOK(Replay)
  <2>1. phase' = "events" /\ world' = InitialWorld(Replay)
    BY <1>4 DEF Load
  <2>2. Replay' = Replay /\ Contracts' = Contracts /\ Base' = Base
    BY <1>1, Unmoved
  <2>3. Base = InitialWorld(Replay)
    BY <1>1 DEF Base
  <2>4. InitialWorld(Replay) = [entity \in DOMAIN Contracts |-> InitialWorld(Replay)[entity]]
        /\ DOMAIN InitialWorld(Replay) = DOMAIN Contracts
    BY DEF InitialWorld, Contracts
  <2>5. Shaped'
    BY <1>1, <1>3, <1>4, <2>1, <2>2, <2>3, <2>4 DEF Shaped
  <2>6. Target' = Now'
    <3> Len(Replay.events) \in Nat
      BY <1>1, ListLengths
    <3>1. ToldTo(0) = Outcome(Base, "none")
      BY ToldPasses DEF ToldTo
    <3>2. Target' = ToldTo(0)'
      BY <1>1, <2>1 DEF Target, ToldTo
    <3>3. ToldTo(0)' = ToldTo(0)
      BY <1>1, Unmoved
    <3> QED BY <2>1, <2>3, <3>1, <3>2, <3>3 DEF Now
  <2>7. OnTheWay'
    BY <1>1, <2>6 DEF OnTheWay
  <2>8. AtEvent'
    BY <1>1, <2>2, ListLengths DEF AtEvent
  <2>9. AtWire' /\ AtIntegrator'
    BY <2>1 DEF AtWire, AtIntegrator
  <2> QED BY <1>2, <2>5, <2>7, <2>8, <2>9 DEF Implements, TickInv, Ticks!TickNext
<1>5. CASE ~ReplayOK(Replay)
  <2>1. phase' = "rejected"
    BY <1>5 DEF Load
  <2>2. Shaped'
    BY <1>1, <1>3, <2>1 DEF Shaped, Running
  <2>3. (OnTheWay /\ AtEvent /\ AtWire /\ AtIntegrator)'
    BY <2>1 DEF OnTheWay, AtEvent, AtWire, AtIntegrator
  <2> QED BY <1>2, <2>2, <2>3 DEF Implements, TickInv, Ticks!TickNext
<1> QED BY <1>4, <1>5

\* An event is delivered.
LEMMA EventImplements == ASSUME TickInv, DeliverEvent PROVE Implements
<1>1. phase = "events" /\ call = NoCall /\ Shaped /\ file \in DOMAIN Replays
      /\ UNCHANGED <<file, snapshots, wire, act, turn, blocked>>
  BY DEF TickInv, Shaped, DeliverEvent
<1>2. Target = Now /\ event \in 0 .. Len(Replay.events) /\ Target = ToldTo(event)
  BY <1>1 DEF TickInv, OnTheWay, AtEvent, Target
<1>3. PICK i \in 1 .. Len(Replay.events) :
        /\ Due(i)
        /\ \A j \in 1 .. (i - 1) : ~Due(j)
        /\ Deliver(Replay.events[i].entity, Replay.events[i].verb, Replay.events[i].arg)
        /\ event' = i
  BY DEF DeliverEvent
<1> DEFINE e == Replay.events[i]
           there == DeliverTo(Contracts, Now, e.entity, e.verb, e.arg)
<1>4. Len(Replay.events) \in Nat
  BY <1>1, ListLengths
<1>5. e.entity \in DOMAIN Contracts
  BY <1>1 DEF Shaped, Running, ReplayOK, EventsOK, Contracts
<1>6. ToldTo(i) = there
  <2>1. i \in event + 1 .. Len(Replay.events) /\ e.tick = Tick
    BY <1>3 DEF Due
  <2>2. i - 1 \in event .. Len(Replay.events) /\ event \in Nat /\ i \in Nat
    BY <1>2, <1>4, <2>1
  <2>3. \A j \in event + 1 .. i - 1 : Replay.events[j].tick # Tick
    <3> TAKE j \in event + 1 .. i - 1
    <3>1. j \in 1 .. (i - 1) /\ j \in event + 1 .. Len(Replay.events)
      BY <1>4, <2>2
    <3> QED BY <1>3, <3>1 DEF Due
  <2>4. ToldTo(i - 1) = ToldTo(event)
    BY <1>1, <1>2, <2>2, <2>3, Skips
  <2>5. ToldTo(i) = AfterEventOf(Contracts, Tick, ToldTo(i - 1), e)
    BY <1>4, ToldPasses DEF ToldTo
  <2> QED BY <1>2, <2>1, <2>4, <2>5 DEF AfterEventOf
<1>7. \/ /\ phase' = "failed" /\ UNCHANGED <<world, call>>
         /\ error' # "none" /\ there.error = error'
      \/ /\ UNCHANGED <<phase, world, error>>
         /\ call' = NoCall => there = Now
         /\ call' # NoCall => LeadsTo(Contracts, call', Now, there)
  <2> HIDE DEF e
  <2> QED BY <1>1, <1>3, <1>5, DeliverLeads DEF e
<1> HIDE DEF there
<1>8. CASE phase' = "failed"
  <2>1. error' # "none" /\ there.error = error' /\ UNCHANGED world
    BY <1>1, <1>7, <1>8
  <2>2. i \in 0 .. Len(Replay.events)
    BY <1>4
  <2>3. TickNow.error = error'
    BY <1>1, <1>6, <2>1, <2>2, TellingFails
  <2> QED BY <1>1, <1>8, <2>1, <2>3, FailureImplements DEF Ticking
<1>9. CASE phase' # "failed"
  <2>1. /\ UNCHANGED <<phase, world, error>>
        /\ call' = NoCall => there = Now
        /\ call' # NoCall => LeadsTo(Contracts, call', Now, there)
    BY <1>7, <1>9
  <2>2. Contracts' = Contracts /\ Replay' = Replay /\ ToldTo(i)' = ToldTo(i) /\ Now' = Now
    BY <1>1, <2>1, Unmoved DEF Now
  <2>3. Target' = ToldTo(i)'
    BY <1>1, <1>3, <2>1 DEF Target, ToldTo
  <2>4. OnTheWay'
    BY <1>6, <2>1, <2>2, <2>3 DEF OnTheWay
  <2>5. AtEvent'
    BY <1>3, <1>4, <2>2 DEF AtEvent
  <2>6. AtWire' /\ AtIntegrator'
    BY <1>1, <2>1 DEF AtWire, AtIntegrator
  <2>7. Shaped' /\ UNCHANGED Ticks!tickVars
    BY <1>1, <2>1, ShapeStays, InsideTick DEF Ticking
  <2> QED BY <2>4, <2>5, <2>6, <2>7 DEF Implements, TickInv
<1> QED BY <1>8, <1>9

\* The next effect of a call.
LEMMA EffectImplements == ASSUME TickInv, ApplyNextEffect PROVE Implements
<1> DEFINE contract == Contracts[call.entity]
           effects == SpecOf(contract, call.verb).effects
           effect == effects[call.effect]
           entry == world[call.entity]
           at(start, n) == Affected(start, effects, call.entity, call.arg, contract.params, n)
<1>1. phase \in {"events", "wires"} /\ call # NoCall /\ Shaped /\ file \in DOMAIN Replays
      /\ UNCHANGED <<file, snapshots, event, wire, act, turn, blocked>>
  BY DEF TickInv, Shaped, ApplyNextEffect
<1>2. LeadsTo(Contracts, call, Now, Target)
  BY <1>1 DEF TickInv, OnTheWay
<1>3. PICK start : at(start, call.effect - 1) = Now /\ at(start, Len(effects)) = Target
  BY <1>2 DEF LeadsTo
<1>4. Len(effects) \in Nat /\ call.effect \in 1 .. Len(effects)
  BY <1>2 DEF LeadsTo
<1>5. Now.error = "none" /\ Now.world = world
  BY DEF Now, Outcome
<1>6. at(start, call.effect) = AfterEffect(Now, effect, call.entity, call.arg, contract.params)
  BY <1>3, <1>4, AffectedPasses
<1>7. CASE EffectRaises(effect, call.arg, entry.state, contract.params)
  <2>1. phase' = "failed" /\ error' = Crash /\ UNCHANGED <<world, call>>
    BY <1>7 DEF ApplyNextEffect, Fail
  <2>2. at(start, call.effect).error = Crash
    BY <1>5, <1>6, <1>7 DEF AfterEffect, Now, Outcome
  <2>3. Crash # "none"
    BY DEF Crash
  <2>4. call.effect \in 0 .. Len(effects)
    BY <1>4
  <2>5. Target = at(start, call.effect)
    <3> HIDE DEF effects
    <3> QED BY <1>3, <1>4, <2>2, <2>3, <2>4, AffectedFails
  <2>6. Target.error = Crash
    BY <2>2, <2>5
  <2> HIDE DEF at, effects, effect, contract, entry
  <2>7. TickNow.error = Crash
    <3>1. CASE phase = "events"
      <4>1. Target = ToldTo(event) /\ event \in 0 .. Len(Replay.events)
        BY <3>1 DEF Target, TickInv, AtEvent
      <4> QED BY <1>1, <2>3, <2>6, <4>1, TellingFails
    <3>2. CASE phase = "wires" /\ act = 0
      <4>1. Target = CoupledTo(wire - 1) /\ wire \in 1 .. Len(Replay.wires) + 1
        BY <3>2 DEF Target, TickInv, AtWire
      <4>2. wire - 1 \in 0 .. Len(Replay.wires)
        BY <1>1, <4>1, ListLengths
      <4> QED BY <1>1, <2>3, <2>6, <4>1, <4>2, CouplingFails
    <3>3. CASE phase = "wires" /\ act # 0
      <4>1. Target = ActedTo(wire, act - 1)
        BY <3>3 DEF Target
      <4>2. /\ wire \in 1 .. Len(Replay.wires) + 1 /\ act \in Nat /\ act > 0
            /\ wire <= Len(Replay.wires) /\ act <= Len(Replay.wires[wire].then)
            /\ AfterWire(Contracts, CoupledTo(wire - 1), Replay.wires[wire])
                 = ActedTo(wire, Len(Replay.wires[wire].then))
        BY <3>3 DEF TickInv, AtWire
      <4>3. wire \in 1 .. Len(Replay.wires)
        BY <1>1, <4>2, ListLengths
      <4>4. act - 1 \in 0 .. Len(Replay.wires[wire].then)
        BY <1>1, <4>2, <4>3, ListLengths
      <4> QED BY <1>1, <2>3, <2>6, <4>1, <4>2, <4>3, <4>4, ActingFails
    <3> QED BY <1>1, <3>1, <3>2, <3>3
  <2> QED BY <1>1, <2>1, <2>3, <2>7, FailureImplements DEF Ticking
<1>8. CASE ~EffectRaises(effect, call.arg, entry.state, contract.params)
  <2>1. /\ world' = [world EXCEPT ![call.entity] =
                       ApplyEffect(effect, call.arg, entry, contract.params)]
        /\ call' = IF call.effect < Len(effects) THEN [call EXCEPT !.effect = @ + 1] ELSE NoCall
        /\ UNCHANGED <<phase, error>>
    BY <1>8 DEF ApplyNextEffect
  <2>2. Now' = at(start, call.effect)
    <3>1. AfterEffect(Now, effect, call.entity, call.arg, contract.params)
            = [Now EXCEPT !.world[call.entity] =
                 ApplyEffect(effect, call.arg, @, contract.params)]
      BY <1>5, <1>8 DEF AfterEffect
    <3>2. [Now EXCEPT !.world[call.entity] = ApplyEffect(effect, call.arg, @, contract.params)]
            = Outcome([world EXCEPT ![call.entity] =
                         ApplyEffect(effect, call.arg, entry, contract.params)], "none")
      BY DEF Now, Outcome
    <3> HIDE DEF at, effect, effects, contract, entry
    <3> QED BY <1>6, <2>1, <3>1, <3>2 DEF Now, Outcome
  <2>3. Contracts' = Contracts /\ Replay' = Replay
    BY <1>1, Unmoved
  <2>4. Target' = Target
    BY <1>1, <2>1, Unmoved DEF Target, ToldTo, CoupledTo, ActedTo
  <2>5. ASSUME call.effect < Len(effects) PROVE OnTheWay'
    <3>1. call' = [call EXCEPT !.effect = @ + 1]
      BY <2>1, <2>5
    <3>2. /\ call' = [entity |-> call'.entity, verb |-> call'.verb, arg |-> call'.arg,
                      effect |-> call'.effect]
          /\ call'.entity = call.entity /\ call'.verb = call.verb /\ call'.arg = call.arg
          /\ call'.effect = call.effect + 1
      BY <1>2, <3>1 DEF LeadsTo
    <3>3. call'.effect \in 1 .. Len(effects) /\ call'.effect - 1 = call.effect
      BY <1>4, <2>5, <3>2
    <3>4. LeadsTo(Contracts, call', Now', Target)
      <4> HIDE DEF at, effect, entry
      <4>1. at(start, call'.effect - 1) = Now' /\ at(start, Len(effects)) = Target
        BY <1>3, <2>2, <3>3
      <4> QED BY <1>4, <3>2, <3>3, <4>1 DEF LeadsTo, at
    <3>5. call' # NoCall
      BY <1>4, <3>2 DEF NoCall
    <3> HIDE DEF at, effects, effect, contract, entry
    <3> QED BY <2>3, <2>4, <3>4, <3>5 DEF OnTheWay
  <2>6. ASSUME ~(call.effect < Len(effects)) PROVE OnTheWay'
    <3>1. call' = NoCall
      BY <2>1, <2>6
    <3>2. call.effect = Len(effects)
      BY <1>4, <2>6
    <3> HIDE DEF at, effects, effect, contract, entry
    <3>3. Now' = Target
      BY <1>3, <2>2, <3>2
    <3> QED BY <2>4, <3>1, <3>3 DEF OnTheWay
  <2>7. OnTheWay'
    BY <2>5, <2>6
  <2>8. AtEvent' /\ AtWire' /\ AtIntegrator'
    <3>1. AtEvent'
      BY <1>1, <2>1, <2>3 DEF AtEvent, TickInv
    <3>2. AtWire'
      BY <1>1, <2>1, <2>3, Unmoved DEF AtWire, TickInv, CoupledTo, ActedTo
    <3>3. AtIntegrator'
      BY <1>1, <2>1 DEF AtIntegrator
    <3> QED BY <3>1, <3>2, <3>3
  <2>9. Shaped' /\ UNCHANGED Ticks!tickVars
    BY <1>1, <2>1, ShapeStays, InsideTick DEF Ticking
  <2> QED BY <2>7, <2>8, <2>9 DEF Implements, TickInv
<1> QED BY <1>7, <1>8

\* The events are told.
LEMMA EventsDoneImplements == ASSUME TickInv, EventsDone PROVE Implements
<1>1. phase = "events" /\ call = NoCall /\ Shaped /\ file \in DOMAIN Replays
      /\ phase' = "wires" /\ wire' = 1 /\ act' = 0
      /\ UNCHANGED <<file, world, snapshots, event, call, turn, blocked, error>>
  BY DEF TickInv, Shaped, EventsDone
<1>2. Len(Replay.events) \in Nat /\ Len(Replay.wires) \in Nat
  BY <1>1, ListLengths
<1>3. ToldTo(event) = Now /\ event \in 0 .. Len(Replay.events)
  BY <1>1 DEF TickInv, OnTheWay, AtEvent, Target
<1>4. Begun = Now
  <2>1. \A j \in event + 1 .. Len(Replay.events) : Replay.events[j].tick # Tick
    <3> TAKE j \in event + 1 .. Len(Replay.events)
    <3>1. j \in 1 .. Len(Replay.events)
      BY <1>2, <1>3
    <3> QED BY <3>1 DEF EventsDone, Due
  <2>2. Len(Replay.events) \in event .. Len(Replay.events)
    BY <1>2, <1>3
  <2>3. ToldTo(Len(Replay.events)) = ToldTo(event)
    BY <1>1, <1>3, <2>1, <2>2, Skips
  <2> QED BY <1>3, <2>3 DEF Begun
<1>5. CoupledTo(0) = Begun
  BY <1>2, CoupledPasses DEF CoupledTo
<1>6. OnTheWay'
  <2>1. Target' = CoupledTo(0)'
    BY <1>1 DEF Target, CoupledTo
  <2>2. CoupledTo(0)' = CoupledTo(0) /\ Now' = Now
    BY <1>1, Unmoved DEF Now
  <2> QED BY <1>1, <1>4, <1>5, <2>1, <2>2 DEF OnTheWay
<1>7. AtWire' /\ AtEvent' /\ AtIntegrator'
  <2>1. Replay' = Replay
    BY <1>1, Unmoved
  <2> QED BY <1>1, <1>2, <2>1 DEF AtWire, AtEvent, AtIntegrator
<1>8. Shaped' /\ UNCHANGED Ticks!tickVars
  BY <1>1, ShapeStays, InsideTick DEF Ticking
<1> QED BY <1>6, <1>7, <1>8 DEF Implements, TickInv

\* A wire is tested.
LEMMA TestImplements == ASSUME TickInv, TestWire PROVE Implements
<1> DEFINE this == Replay.wires[wire]
<1>1. phase = "wires" /\ call = NoCall /\ Shaped /\ file \in DOMAIN Replays
      /\ wire <= Len(Replay.wires) /\ act = 0
      /\ UNCHANGED <<file, phase, world, snapshots, event, call, turn, blocked, error>>
  BY DEF TickInv, Shaped, TestWire
<1>2. Len(Replay.wires) \in Nat /\ wire \in 1 .. Len(Replay.wires)
  BY <1>1, ListLengths DEF TickInv, AtWire
<1>3. CoupledTo(wire - 1) = Now
  BY <1>1 DEF TickInv, OnTheWay, Target
<1>4. Len(this.then) \in Nat /\ Len(this.then) > 0
  BY <1>1, <1>2, ListLengths DEF Shaped, Running, ReplayOK, WiresOK, WireOK
<1>5. /\ Replay' = Replay /\ Contracts' = Contracts /\ Now' = Now
      /\ \A n : CoupledTo(n)' = CoupledTo(n)
      /\ \A w, n : ActedTo(w, n)' = ActedTo(w, n)
  BY <1>1, Unmoved DEF Now
<1>6. Now.error = "none" /\ Now.world = world
  BY DEF Now, Outcome
<1> PICK w : w = wire
  OBVIOUS
<1>7. CASE WireHolds(this)
  <2>1. act' = 1 /\ wire' = wire
    BY <1>7 DEF TestWire
  <2>2. AfterWire(Contracts, CoupledTo(wire - 1), this) = ActedTo(wire, Len(this.then))
    BY <1>3, <1>6, <1>7 DEF AfterWire, WireHolds, ActedTo
  <2>3. ActedTo(w, 0) = Now
    BY <1>3, <1>4, ActedPasses DEF ActedTo
  <2>4. Target' = ActedTo(w, 0)'
    BY <1>1, <2>1 DEF Target, ActedTo, CoupledTo
  <2>5. OnTheWay'
    BY <1>1, <1>5, <2>3, <2>4 DEF OnTheWay
  <2>6. AtWire'
    BY <1>1, <1>2, <1>4, <1>5, <2>1, <2>2 DEF AtWire
  <2>7. Shaped' /\ UNCHANGED Ticks!tickVars
    BY <1>1, ShapeStays, InsideTick DEF Ticking
  <2>8. AtEvent' /\ AtIntegrator'
    BY <1>1 DEF AtEvent, AtIntegrator
  <2> QED BY <2>5, <2>6, <2>7, <2>8 DEF Implements, TickInv
<1>8. CASE ~WireHolds(this)
  <2>1. act' = 0 /\ wire' = wire + 1
    BY <1>8 DEF TestWire
  <2>2. AfterWire(Contracts, CoupledTo(wire - 1), this) = Now
    BY <1>3, <1>6, <1>8 DEF AfterWire, WireHolds
  <2>3. CoupledTo(w) = Now
    BY <1>2, <2>2, CoupledPasses DEF CoupledTo
  <2>4. OnTheWay'
    <3>1. wire' - 1 = w
      BY <1>2, <2>1
    <3>2. Target' = CoupledTo(w)'
      BY <1>1, <2>1, <3>1 DEF Target, CoupledTo
    <3> QED BY <1>1, <1>5, <2>3, <3>2 DEF OnTheWay
  <2>5. AtWire'
    BY <1>1, <1>2, <1>5, <2>1 DEF AtWire
  <2>7. Shaped' /\ UNCHANGED Ticks!tickVars
    BY <1>1, ShapeStays, InsideTick DEF Ticking
  <2>8. AtEvent' /\ AtIntegrator'
    BY <1>1 DEF AtEvent, AtIntegrator
  <2> QED BY <2>4, <2>5, <2>7, <2>8 DEF Implements, TickInv
<1> QED BY <1>7, <1>8

\* A verb of a wire is delivered.
LEMMA ActImplements == ASSUME TickInv, DeliverAct PROVE Implements
<1> DEFINE then == Replay.wires[wire].then
           there == DeliverTo(Contracts, Now, then[act].entity, then[act].verb, then[act].arg)
<1>1. phase = "wires" /\ call = NoCall /\ Shaped /\ file \in DOMAIN Replays
      /\ wire <= Len(Replay.wires) /\ act > 0
      /\ UNCHANGED <<file, snapshots, event, turn, blocked>>
  BY DEF TickInv, Shaped, DeliverAct
<1>2. /\ act \in Nat /\ act <= Len(then) /\ wire \in 1 .. Len(Replay.wires) + 1
      /\ AfterWire(Contracts, CoupledTo(wire - 1), Replay.wires[wire]) = ActedTo(wire, Len(then))
  BY <1>1 DEF TickInv, AtWire
<1>3. Len(Replay.wires) \in Nat /\ wire \in 1 .. Len(Replay.wires)
  BY <1>1, <1>2, ListLengths
<1>4. Len(then) \in Nat /\ act \in 1 .. Len(then) /\ act - 1 \in 0 .. Len(then)
  BY <1>1, <1>2, <1>3, ListLengths
<1>5. ActedTo(wire, act - 1) = Now
  BY <1>1 DEF TickInv, OnTheWay, Target
<1>6. then[act].entity \in DOMAIN Contracts
  <2>1. WireOK(Replay.wires[wire], Contracts)
    BY <1>1, <1>3 DEF Shaped, Running, ReplayOK, WiresOK, Contracts
  <2> QED BY <1>4, <2>1 DEF WireOK, ActOK
<1> PICK w, a : w = wire /\ a = act
  OBVIOUS
<1>7. ActedTo(w, a) = there
  <2> DEFINE before == CoupledTo(wire - 1)
  <2>1. Acted(Contracts, then, before, act - 1) = Now
    BY <1>5 DEF ActedTo
  <2>2. Acted(Contracts, then, before, act)
          = DeliverTo(Contracts, Acted(Contracts, then, before, act - 1),
                      then[act].entity, then[act].verb, then[act].arg)
    <3> HIDE DEF then, before
    <3> QED BY <1>4, ActedPasses
  <2>3. ActedTo(w, a) = Acted(Contracts, then, before, act)
    BY DEF ActedTo
  <2> HIDE DEF before, then
  <2> QED BY <2>1, <2>2, <2>3 DEF there
<1>8. \/ /\ phase' = "failed" /\ UNCHANGED <<world, call>>
         /\ error' # "none" /\ there.error = error'
      \/ /\ UNCHANGED <<phase, world, error>>
         /\ call' = NoCall => there = Now
         /\ call' # NoCall => LeadsTo(Contracts, call', Now, there)
  <2>1. Deliver(then[act].entity, then[act].verb, then[act].arg)
    BY DEF DeliverAct
  <2> HIDE DEF then
  <2> QED BY <1>1, <1>6, <2>1, DeliverLeads
<1> HIDE DEF there
<1>9. CASE phase' = "failed"
  <2>1. error' # "none" /\ there.error = error' /\ UNCHANGED world
    BY <1>1, <1>8, <1>9
  <2>2. w \in 1 .. Len(Replay.wires) /\ a \in 0 .. Len(Replay.wires[w].then)
    BY <1>3, <1>4
  <2>3. AfterWire(Contracts, CoupledTo(w - 1), Replay.wires[w])
          = ActedTo(w, Len(Replay.wires[w].then))
    BY <1>2
  <2>4. TickNow.error = error'
    BY <1>1, <1>7, <2>1, <2>2, <2>3, ActingFails
  <2> QED BY <1>1, <1>9, <2>1, <2>4, FailureImplements DEF Ticking
<1>10. CASE phase' # "failed"
  <2>1. /\ UNCHANGED <<phase, world, error>>
        /\ call' = NoCall => there = Now
        /\ call' # NoCall => LeadsTo(Contracts, call', Now, there)
    BY <1>8, <1>10
  <2>2. /\ Contracts' = Contracts /\ Replay' = Replay /\ Now' = Now
        /\ \A n : CoupledTo(n)' = CoupledTo(n)
        /\ \A v, n : ActedTo(v, n)' = ActedTo(v, n)
    BY <1>1, <2>1, Unmoved DEF Now
  <2>3. Target' = there /\ AtWire'
    <3>1. CASE act < Len(then)
      <4>1. act' = act + 1 /\ wire' = wire /\ act' - 1 = a
        BY <1>4, <3>1 DEF DeliverAct
      <4>2. Target' = ActedTo(w, a)'
        BY <1>1, <1>4, <2>1, <4>1 DEF Target, ActedTo, CoupledTo
      <4>3. Target' = there
        BY <1>7, <2>2, <4>2
      <4>4. AtWire'
        BY <1>1, <1>2, <1>3, <1>4, <2>1, <2>2, <3>1, <4>1 DEF AtWire
      <4> QED BY <4>3, <4>4
    <3>2. CASE ~(act < Len(then))
      <4>1. act' = 0 /\ wire' = wire + 1 /\ wire' - 1 = w /\ act = Len(then)
        BY <1>3, <1>4, <3>2 DEF DeliverAct
      <4>2. Target' = CoupledTo(w)'
        BY <1>1, <2>1, <4>1 DEF Target, CoupledTo
      <4>3. CoupledTo(w) = ActedTo(w, a)
        BY <1>2, <1>3, <4>1, CoupledPasses DEF CoupledTo
      <4>4. AtWire'
        BY <1>1, <1>3, <2>1, <2>2, <4>1 DEF AtWire
      <4> QED BY <1>7, <2>2, <4>2, <4>3, <4>4
    <3> QED BY <3>1, <3>2
  <2>4. OnTheWay'
    BY <2>1, <2>2, <2>3 DEF OnTheWay
  <2>5. AtEvent' /\ AtIntegrator'
    BY <1>1, <2>1 DEF AtEvent, AtIntegrator
  <2>6. Shaped' /\ UNCHANGED Ticks!tickVars
    BY <1>1, <2>1, ShapeStays, InsideTick DEF Ticking
  <2> QED BY <2>3, <2>4, <2>5, <2>6 DEF Implements, TickInv
<1> QED BY <1>9, <1>10

\* The wires are done.
LEMMA WiresDoneImplements == ASSUME TickInv, WiresDone PROVE Implements
<1>1. phase = "wires" /\ call = NoCall /\ Shaped /\ file \in DOMAIN Replays
      /\ wire > Len(Replay.wires) /\ phase' = "integrate"
      /\ turn' = [entity \in DOMAIN Contracts |-> 1]
      /\ UNCHANGED <<file, world, snapshots, event, wire, act, call, blocked, error>>
  BY DEF TickInv, Shaped, WiresDone
<1>2. wire \in 1 .. Len(Replay.wires) + 1 /\ act \in Nat /\ ~(act > 0)
  BY <1>1, ListLengths DEF TickInv, AtWire
<1>3. Wired = Now
  <2>1. wire - 1 = Len(Replay.wires) /\ act = 0
    BY <1>1, <1>2, ListLengths
  <2> QED BY <1>1, <2>1 DEF TickInv, OnTheWay, Target, Wired
<1>4. /\ Contracts' = Contracts /\ Wired' = Wired /\ Now' = Now
      /\ \A entity : Integrators(entity)' = Integrators(entity)
  BY <1>1, Unmoved DEF Now
<1>5. AtIntegrator'
  <2>1. Wired' = Outcome(Wired'.world, "none") /\ Wired'.world = world'
    BY <1>1, <1>3, <1>4 DEF Now, Outcome
  <2>2. ASSUME NEW entity \in DOMAIN Contracts
        PROVE  /\ Len(Integrators(entity)) \in Nat /\ turn'[entity] = 1
               /\ Stepped(Contracts[entity], world[entity], 0) = world[entity]
    <3>1. Len(Integrators(entity)) \in Nat
      BY <1>1, IntegratorLengths
    <3>2. Len(Semantics(Contracts[entity]).integrators) \in Nat
      BY <3>1 DEF Integrators
    <3> QED BY <1>1, <3>1, <3>2, SteppedPasses
  <2> QED BY <1>1, <1>4, <2>1, <2>2 DEF AtIntegrator
<1>6. OnTheWay' /\ AtEvent' /\ AtWire'
  BY <1>1 DEF OnTheWay, AtEvent, AtWire
<1>7. Shaped' /\ UNCHANGED Ticks!tickVars
  BY <1>1, ShapeStays, InsideTick DEF Ticking
<1> QED BY <1>5, <1>6, <1>7 DEF Implements, TickInv

\* What the tick comes to once the wires are done.
LEMMA Integration ==
  ASSUME Shaped, AtIntegrator, phase = "integrate"
  PROVE  /\ (\E e \in DOMAIN Contracts : StepRaises(Contracts[e], Wired.world[e]))
              => TickNow.error = Crash
         /\ (\A e \in DOMAIN Contracts : ~StepRaises(Contracts[e], Wired.world[e]))
              => TickNow = Outcome([e \in DOMAIN Contracts |->
                                      StepEntity(Contracts[e], Wired.world[e])], "none")
<1>1. ApplyWires(Contracts, Replay.wires,
                 Told(Contracts, Replay.events, Tick, Outcome(Base, "none"), Len(Replay.events)))
        = Wired
  BY DEF ApplyWires, Wired, CoupledTo, Begun, ToldTo
<1>2. Wired = Outcome(Wired.world, "none") /\ Wired.error = "none"
  BY DEF AtIntegrator, Outcome
<1>3. DOMAIN Base = DOMAIN Contracts
  BY DEF Shaped, Running
<1>4. TickNow = IF \E e \in DOMAIN Contracts : StepRaises(Contracts[e], Wired.world[e])
                THEN [Wired EXCEPT !.error = Crash]
                ELSE Outcome([e \in DOMAIN Contracts |->
                                StepEntity(Contracts[e], Wired.world[e])], "none")
  BY <1>1, <1>2, <1>3 DEF TickNow, TickOf
<1>5. [Wired EXCEPT !.error = Crash].error = Crash
  BY <1>2 DEF Outcome
<1> QED BY <1>4, <1>5

\* One integrator of one entity.
LEMMA IntegrateImplements ==
  ASSUME TickInv, NEW entity \in DOMAIN world, StepIntegrator(entity) PROVE Implements
<1> DEFINE k == turn[entity]
           integrator == Integrators(entity)[k]
           params == Contracts[entity].params
           begun == Wired.world[entity]
<1>1. phase = "integrate" /\ call = NoCall /\ Shaped /\ AtIntegrator /\ file \in DOMAIN Replays
      /\ k <= Len(Integrators(entity))
      /\ UNCHANGED <<file, snapshots, event, wire, act, blocked>>
  BY DEF TickInv, Shaped, AtIntegrator, StepIntegrator
<1>2. entity \in DOMAIN Contracts /\ world = [other \in DOMAIN Contracts |-> world[other]]
  BY <1>1 DEF Shaped, Running
<1>3. /\ k \in 1 .. Len(Integrators(entity)) + 1
      /\ world[entity] = Stepped(Contracts[entity], begun, k - 1)
      /\ \A i \in 1 .. k - 1 :
           ~IntegrateRaises(Integrators(entity)[i], Stepped(Contracts[entity], begun, i - 1), params)
  BY <1>1, <1>2 DEF AtIntegrator
<1>4. Len(Integrators(entity)) \in Nat
  BY <1>1, <1>2, IntegratorLengths
<1>5. k \in 1 .. Len(Integrators(entity))
  BY <1>1, <1>3, <1>4
<1>6. CASE IntegrateRaises(integrator, world[entity], params)
  <2>1. phase' = "failed" /\ error' = Crash /\ UNCHANGED <<world, call>>
    BY <1>6 DEF StepIntegrator, Fail
  <2>2. StepRaises(Contracts[entity], begun)
    BY <1>3, <1>5, <1>6 DEF StepRaises, Integrators
  <2>3. TickNow.error = Crash /\ Crash # "none"
    BY <1>1, <1>2, <2>2, Integration DEF Crash
  <2> QED BY <1>1, <2>1, <2>3, FailureImplements DEF Ticking
<1>7. CASE ~IntegrateRaises(integrator, world[entity], params)
  <2>1. /\ world' = [world EXCEPT ![entity] = Integrate(integrator, world[entity], params)]
        /\ turn' = [turn EXCEPT ![entity] = k + 1]
        /\ UNCHANGED <<phase, call, error>>
    BY <1>7 DEF StepIntegrator
  <2>2. /\ Contracts' = Contracts /\ Wired' = Wired
        /\ \A other : Integrators(other)' = Integrators(other)
    BY <1>1, Unmoved
  <2>3. turn = [other \in DOMAIN Contracts |-> turn[other]]
    BY <1>1 DEF AtIntegrator
  <2>4. Integrate(integrator, world[entity], params) = Stepped(Contracts[entity], begun, k)
    <3>1. Len(Semantics(Contracts[entity]).integrators) \in Nat
          /\ k \in 1 .. Len(Semantics(Contracts[entity]).integrators)
      BY <1>4, <1>5 DEF Integrators
    <3>2. Stepped(Contracts[entity], begun, k)
            = Integrate(Semantics(Contracts[entity]).integrators[k],
                        Stepped(Contracts[entity], begun, k - 1), Contracts[entity].params)
      <4> HIDE DEF k, begun
      <4> QED BY <3>1, SteppedPasses
    <3> QED BY <1>3, <3>2 DEF Integrators
  <2>5. ASSUME NEW other \in DOMAIN Contracts
        PROVE  /\ turn'[other] \in 1 .. Len(Integrators(other)) + 1
               /\ world'[other] = Stepped(Contracts[other], Wired.world[other], turn'[other] - 1)
               /\ \A i \in 1 .. turn'[other] - 1 :
                    ~IntegrateRaises(Integrators(other)[i],
                                     Stepped(Contracts[other], Wired.world[other], i - 1),
                                     Contracts[other].params)
    <3>1. CASE other = entity
      <4>1. turn'[other] = k + 1 /\ world'[other] = Stepped(Contracts[entity], begun, k)
        BY <1>2, <2>1, <2>3, <2>4, <3>1
      <4>2. turn'[other] - 1 = k /\ turn'[other] \in 1 .. Len(Integrators(other)) + 1
        BY <1>4, <1>5, <3>1, <4>1
      <4>3. ASSUME NEW i \in 1 .. k
            PROVE ~IntegrateRaises(Integrators(entity)[i],
                                   Stepped(Contracts[entity], begun, i - 1), params)
        <5>1. CASE i = k
          BY <1>3, <1>7, <5>1
        <5>2. CASE i # k
          <6>1. i \in 1 .. k - 1
            BY <1>5, <5>2
          <6> QED BY <1>3, <6>1
        <5> QED BY <5>1, <5>2
      <4> QED BY <3>1, <4>1, <4>2, <4>3
    <3>2. CASE other # entity
      <4>1. turn'[other] = turn[other] /\ world'[other] = world[other]
        BY <1>2, <2>1, <2>3, <3>2
      <4> QED BY <1>1, <4>1 DEF AtIntegrator
    <3> QED BY <3>1, <3>2
  <2>6. turn' = [other \in DOMAIN Contracts |-> turn'[other]]
    BY <2>1, <2>3
  <2>7. Wired = Outcome(Wired.world, "none")
    BY <1>1 DEF AtIntegrator
  <2>8. AtIntegrator'
    <3> HIDE DEF k, integrator, params, begun
    <3> QED BY <1>1, <2>1, <2>2, <2>5, <2>6, <2>7 DEF AtIntegrator
  <2>9. OnTheWay' /\ AtEvent' /\ AtWire'
    BY <1>1, <2>1 DEF OnTheWay, AtEvent, AtWire
  <2>10. Shaped' /\ UNCHANGED Ticks!tickVars
    BY <1>1, <2>1, ShapeStays, InsideTick DEF Ticking
  <2> QED BY <2>8, <2>9, <2>10 DEF Implements, TickInv
<1> QED BY <1>6, <1>7

\* The tick's snapshot.
LEMMA EndsWhole == ASSUME TickInv, EndTick PROVE TickNow = Outcome(world, "none")
<1>1. /\ phase = "integrate" /\ call = NoCall /\ Shaped /\ AtIntegrator /\ file \in DOMAIN Replays
      /\ snapshots' = Append(snapshots, world)
      /\ phase' = IF Tick < Replay.ticks THEN "events" ELSE "report"
      /\ event' = 0
      /\ UNCHANGED <<file, world, wire, act, call, turn, blocked, error>>
  BY DEF TickInv, Shaped, AtIntegrator, EndTick
<1>2. ReplayOK(Replay) /\ world = [e \in DOMAIN Contracts |-> world[e]]
  BY <1>1 DEF Shaped, Running
<1>3. ASSUME NEW e \in DOMAIN Contracts
      PROVE  /\ ~StepRaises(Contracts[e], Wired.world[e])
             /\ StepEntity(Contracts[e], Wired.world[e]) = world[e]
  <2>1. Len(Integrators(e)) \in Nat
    BY <1>1, IntegratorLengths
  <2>2. turn[e] > Len(Integrators(e)) /\ turn[e] \in 1 .. Len(Integrators(e)) + 1
    BY <1>1 DEF EndTick, AtIntegrator
  <2>3. turn[e] - 1 = Len(Integrators(e))
    BY <2>1, <2>2
  <2> QED BY <1>1, <2>3 DEF AtIntegrator, StepRaises, StepEntity, Integrators
<1>4. TickNow = Outcome([e \in DOMAIN Contracts |->
                           StepEntity(Contracts[e], Wired.world[e])], "none")
  BY <1>1, <1>3, Integration
<1>5. [e \in DOMAIN Contracts |-> StepEntity(Contracts[e], Wired.world[e])]
        = [e \in DOMAIN Contracts |-> world[e]]
  BY <1>3
<1> QED BY <1>2, <1>4, <1>5

LEMMA EndImplements == ASSUME TickInv, EndTick PROVE Implements
<1>1. /\ phase = "integrate" /\ call = NoCall /\ Shaped /\ AtIntegrator /\ file \in DOMAIN Replays
      /\ snapshots' = Append(snapshots, world)
      /\ phase' = IF Tick < Replay.ticks THEN "events" ELSE "report"
      /\ event' = 0
      /\ UNCHANGED <<file, world, wire, act, call, turn, blocked, error>>
  BY DEF TickInv, Shaped, AtIntegrator, EndTick
<1>2. ReplayOK(Replay) /\ world = [e \in DOMAIN Contracts |-> world[e]]
  BY <1>1 DEF Shaped, Running
<1>4. TickNow = Outcome(world, "none")
  BY EndsWhole
<1>5. Ticks!RunTick
  BY <1>1, <1>4, WholeTick DEF Ticking
<1>6. /\ \E S : snapshots' \in Seq(S)
      /\ snapshots' # <<>> /\ snapshots'[Len(snapshots')] = world
      /\ Len(snapshots') \in Nat
  <2>1. PICK S : snapshots \in Seq(S)
    BY <1>1 DEF Shaped
  <2>2. snapshots \in Seq(S \cup {world})
    BY <2>1
  <2> QED BY <1>1, <2>2
<1>7. Base' = world' /\ Replay' = Replay /\ Contracts' = Contracts
  <2>1. Replay' = Replay /\ Contracts' = Contracts
    BY <1>1 DEF Replay, Contracts
  <2> QED BY <1>1, <1>6, <2>1 DEF Base
<1>8. Shaped'
  <2>1. DOMAIN world' = DOMAIN Contracts
    BY <1>1, <1>2
  <2> QED BY <1>1, <1>2, <1>6, <1>7, <2>1 DEF Shaped
<1>9. Len(Replay.events) \in Nat
  BY <1>1, ListLengths
<1>10. OnTheWay'
  <2>1. CASE phase' = "events"
    <3>1. Target' = Told(Contracts', Replay'.events, Tick', Outcome(Base', "none"), 0)
      BY <1>1, <2>1 DEF Target, ToldTo
    <3>2. Target' = Outcome(Base', "none")
      BY <1>7, <1>9, <3>1, ToldPasses
    <3> QED BY <1>1, <1>7, <3>2 DEF OnTheWay, Now
  <2>2. CASE phase' # "events"
    BY <1>1, <2>2 DEF OnTheWay
  <2> QED BY <2>1, <2>2
<1>11. AtEvent' /\ AtWire' /\ AtIntegrator'
  BY <1>1, <1>7, <1>9 DEF AtEvent, AtWire, AtIntegrator
<1> QED BY <1>5, <1>8, <1>10, <1>11 DEF Implements, TickInv, Ticks!TickNext

\* The report is SimTick's: the world is the last snapshot.
LEMMA ReportImplements == ASSUME TickInv, Report PROVE Implements
<1>1. /\ phase = "report" /\ Shaped /\ world = Base
      /\ UNCHANGED <<file, snapshots, event, wire, act, turn, world, call>>
  BY DEF TickInv, Shaped, Report, Fail
<1>2. phase' \in {"failed", "done"}
  BY DEF Report, Fail
<1>3. Ticks!ReportNavigation
  <2>1. Ticks!Settled = world /\ Replays[file].contracts = Contracts
    BY <1>1 DEF Ticks!Settled, Base, Replay, Contracts
  <2>2. \A e \in DOMAIN Contracts :
          [other \in DOMAIN Contracts |-> world[other].state][e] = world[e].state
    OBVIOUS
  <2>3. CASE \E e \in DOMAIN Contracts : NavigationRaises(Contracts[e], world[e].state)
    <3>1. phase' = "failed" /\ error' = Crash /\ UNCHANGED blocked
      BY <2>3 DEF Report, Fail
    <3> QED BY <1>1, <2>1, <2>2, <2>3, <3>1 DEF Ticks!ReportNavigation
  <2>4. CASE ~\E e \in DOMAIN Contracts : NavigationRaises(Contracts[e], world[e].state)
    <3>1. /\ phase' = "done" /\ UNCHANGED error
          /\ blocked' = {e \in DOMAIN Contracts : BlocksNavigation(Contracts[e], world[e].state)}
      BY <2>4 DEF Report
    <3> QED BY <1>1, <2>1, <2>2, <2>4, <3>1 DEF Ticks!ReportNavigation
  <2> QED BY <2>3, <2>4
<1>4. Shaped'
  <2>1. Replay' = Replay /\ Contracts' = Contracts /\ Base' = Base
    BY <1>1, Unmoved
  <2> QED BY <1>1, <1>2, <2>1 DEF Shaped, Running
<1>5. OnTheWay' /\ AtEvent' /\ AtWire' /\ AtIntegrator'
  BY <1>2 DEF OnTheWay, AtEvent, AtWire, AtIntegrator
<1> QED BY <1>3, <1>4, <1>5 DEF Implements, TickInv, Ticks!TickNext

\* A replay begins where SimTick begins, on the way.
LEMMA InitImplements == ASSUME Init PROVE TickInv /\ Ticks!TickInit
<1>1. snapshots \in Seq({}) /\ phase = "load"
  BY DEF Init
<1>2. Shaped
  BY <1>1 DEF Init, Shaped, Running
<1>3. OnTheWay /\ AtEvent /\ AtWire /\ AtIntegrator
  BY <1>1 DEF OnTheWay, AtEvent, AtWire, AtIntegrator
<1>4. Ticks!TickInit
  BY DEF Init, Ticks!TickInit
<1> QED BY <1>2, <1>3, <1>4 DEF TickInv

\* A step that changes nothing is none.
LEMMA StutterImplements == ASSUME TickInv, UNCHANGED vars PROVE Implements
<1>1. UNCHANGED <<file, phase, world, snapshots, event, wire, act, call, turn, blocked, error>>
  BY DEF vars
<1>2. /\ Replay' = Replay /\ Contracts' = Contracts /\ Base' = Base /\ Now' = Now
      /\ Wired' = Wired /\ \A e : Integrators(e)' = Integrators(e)
  BY <1>1, Unmoved DEF Now
<1>3. Target' = Target
  BY <1>1, Unmoved DEF Target, ToldTo, CoupledTo, ActedTo
<1>4. Shaped'
  BY <1>1, <1>2 DEF TickInv, Shaped, Running
<1>5. OnTheWay' /\ AtEvent'
  BY <1>1, <1>2, <1>3 DEF TickInv, OnTheWay, AtEvent
<1>6. AtWire'
  BY <1>1, <1>2, Unmoved DEF TickInv, AtWire, CoupledTo, ActedTo
<1>7. AtIntegrator'
  BY <1>1, <1>2 DEF TickInv, AtIntegrator
<1>8. UNCHANGED Ticks!tickVars
  BY <1>1 DEF Ticks!tickVars
<1> QED BY <1>4, <1>5, <1>6, <1>7, <1>8 DEF Implements, TickInv

\* All the steps.
LEMMA NextImplements == ASSUME TickInv, [Next]_vars PROVE Implements
<1>1. CASE UNCHANGED vars
  BY <1>1, StutterImplements
<1>2. CASE Next
  BY <1>2, LoadImplements, EventImplements, EffectImplements, EventsDoneImplements,
     TestImplements, ActImplements, WiresDoneImplements, IntegrateImplements, EndImplements,
     ReportImplements DEF Next
<1> QED BY <1>1, <1>2

\* The loops of run_replay, one effect, wire and integrator at a time, add up
\* to one atomic function of the world before the tick (SimTick), for every
\* replay, every integer width and every number of events, wires, verbs,
\* effects and integrators; and a tick that fails leaves no snapshot.
THEOREM KernelImplementsTicks == Spec => TickRefinement
<1>1. Init => TickInv /\ Ticks!TickInit
  BY InitImplements
<1>2. TickInv /\ [Next]_vars => TickInv' /\ [Ticks!TickNext]_Ticks!tickVars
  BY NextImplements DEF Implements
<1> QED BY <1>1, <1>2, PTL DEF Spec, TickRefinement, Ticks!TickSpec
-----------------------------------------------------------------------------
(* The two kernels side by side. *)

TypedNavigation ==
  \A id \in DOMAIN Replays : \A entity \in DOMAIN Replays[id].contracts :
    NavigationTyped(Replays[id].contracts[entity])

\* Between two ticks the world is one both kernels may start from, and the
\* report is Python's.
TwinInv ==
  /\ IInv /\ TickInv
  /\ Running => Kept(Contracts, Outcome(Base, "none"))
  /\ phase = "done" =>
       blocked = {entity \in DOMAIN Contracts : BlocksNavigation(Contracts[entity], world[entity].state)}

LEMMA TwinTickIs ==
  ASSUME CoveredFiles, TwinInv, Running
  PROVE  TwinTick = TickNow /\ Kept(Contracts, TickNow)
<1>1. file \in DOMAIN Replays /\ ReplayOK(Replay) /\ Kept(Contracts, Outcome(Base, "none"))
  BY DEF TwinInv, TickInv, Shaped
<1>2. AllSound(Contracts)
  BY <1>1, RunningSound DEF AllSound
<1>3. /\ Len(Replay.events) \in Nat /\ Len(Replay.wires) \in Nat
      /\ \A w \in 1 .. Len(Replay.wires) : Len(Replay.wires[w].then) \in Nat
  BY <1>1, ListLengths
<1>4. /\ WiresOK(Replay.wires, Contracts)
      /\ \A i \in 1 .. Len(Replay.events) : Replay.events[i].entity \in DOMAIN Contracts
  BY <1>1 DEF ReplayOK, EventsOK, Contracts
<1>5. /\ RustTick(Contracts, Replay.wires, Base, Replay.events, Tick) = TickNow
      /\ Kept(Contracts, TickNow)
  BY <1>1, <1>2, <1>3, <1>4, SameTick DEF TickNow
<1>6. Base = IF Tick = 0 THEN InitialWorld(Replay) ELSE snapshots[Tick]
  <2>1. PICK S : snapshots \in Seq(S)
    BY DEF TwinInv, TickInv, Shaped
  <2>2. Tick = 0 <=> snapshots = <<>>
    BY <2>1 DEF Tick
  <2> QED BY <2>2 DEF Base, Tick
<1> QED BY <1>5, <1>6 DEF TwinTick

\* A loaded world is one to start from (initial_state).
LEMMA TwinLoad ==
  ASSUME CoveredFiles, TwinInv, Load
  PROVE  TwinInv' /\ UNCHANGED snapshots /\ phase' # "failed"
<1>1. IInv' /\ TickInv'
  BY LoadStep, LoadImplements DEF TwinInv, Implements
<1>2. /\ phase' \in {"events", "rejected"} /\ UNCHANGED <<file, snapshots>> /\ snapshots = <<>>
      /\ phase' = "events" => world' = InitialWorld(Replay)
  BY DEF Load, TwinInv, TickInv, Shaped
<1>3. Replay' = Replay /\ Contracts' = Contracts
  BY <1>2 DEF Replay, Contracts
<1>4. ASSUME phase' = "events" PROVE Kept(Contracts', Outcome(Base', "none"))
  <2>1. Base' = InitialWorld(Replay) /\ world' = InitialWorld(Replay)
    BY <1>2, <1>3, <1>4 DEF Base
  <2>2. \A entity \in DOMAIN Contracts : EntryTyped(Contracts[entity], InitialWorld(Replay)[entity])
    BY <1>1, <1>3, <1>4, <2>1 DEF IInv, TypeOK
  <2>3. InitialWorld(Replay) = [entity \in DOMAIN Contracts |-> InitialWorld(Replay)[entity]]
    BY DEF InitialWorld, Contracts
  <2>4. ASSUME NEW entity \in DOMAIN Contracts
        PROVE  Whole(Contracts[entity], InitialWorld(Replay)[entity])
    <3> DEFINE given == IF entity \in DOMAIN Replay.initial THEN Replay.initial[entity] ELSE <<>>
    <3>1. InitialWorld(Replay)[entity] = [state |-> InitialState(Contracts[entity], given), control |-> <<>>]
      BY DEF InitialWorld, Contracts
    <3> HIDE DEF given
    <3>2. InitialState(Contracts[entity], given)
            = [var \in DOMAIN InitialState(Contracts[entity], given) |->
                 InitialState(Contracts[entity], given)[var]]
      BY DEF InitialState
    <3>3. <<>> = [name \in DOMAIN <<>> |-> <<>>[name]]
      OBVIOUS
    <3> QED BY <2>2, <3>1, <3>2, <3>3, WholeRecord
  <2>5. /\ Outcome(Base', "none").world = InitialWorld(Replay)
        /\ Outcome(Base', "none") = Outcome(Outcome(Base', "none").world, Outcome(Base', "none").error)
    BY <2>1 DEF Outcome
  <2> QED BY <1>3, <2>3, <2>4, <2>5 DEF Kept
<1> QED BY <1>1, <1>2, <1>4 DEF TwinInv, Running

\* The end of a tick is the end of the other kernel's.
LEMMA TwinEnd ==
  ASSUME CoveredFiles, TwinInv, EndTick
  PROVE  TwinInv' /\ TwinTick = Outcome(world', "none") /\ phase' # "failed"
<1>1. IInv' /\ TickInv'
  BY BookkeepingStep, EndImplements DEF TwinInv, Implements
<1>2. /\ phase = "integrate" /\ phase' \in {"events", "report"}
      /\ snapshots' = Append(snapshots, world) /\ UNCHANGED <<file, world>>
  BY DEF EndTick
<1>3. TickNow = Outcome(world, "none")
  BY EndsWhole DEF TwinInv
<1>4. TwinTick = TickNow /\ Kept(Contracts, TickNow)
  BY <1>2, TwinTickIs DEF Running
<1>5. Base' = world /\ Contracts' = Contracts
  <2>1. PICK S : snapshots \in Seq(S)
    BY DEF TwinInv, TickInv, Shaped
  <2>2. snapshots \in Seq(S \cup {world})
    BY <2>1
  <2>3. snapshots' # <<>> /\ snapshots'[Len(snapshots')] = world
    BY <1>2, <2>2
  <2> QED BY <1>2, <2>3 DEF Base, Contracts, Replay
<1> QED BY <1>1, <1>2, <1>3, <1>4, <1>5 DEF TwinInv

\* Inside a tick nothing is recorded; a tick that fails fails alike.
LEMMA TwinWithin ==
  ASSUME CoveredFiles, TwinInv, Next, ~Load, ~EndTick
  PROVE  /\ TwinInv' /\ UNCHANGED snapshots
         /\ phase \in {"events", "wires", "integrate"} /\ phase' = "failed" => TwinTick.error = error'
<1>1. IInv' /\ Implements
  BY NextInv, NextImplements DEF TwinInv
<1>2. phase \in {"events", "wires", "integrate", "report"} /\ UNCHANGED <<file, snapshots>>
  BY DEF Next, DeliverEvent, ApplyNextEffect, EventsDone, TestWire, DeliverAct, WiresDone,
         StepIntegrator, Report
<1>3. Base' = Base /\ Contracts' = Contracts /\ Running
  BY <1>2 DEF Base, Contracts, Replay, Running
<1>4. phase' = "done" =>
        (blocked = {entity \in DOMAIN Contracts : BlocksNavigation(Contracts[entity], world[entity].state)})'
  <2> SUFFICES ASSUME phase' = "done"
               PROVE  (blocked = {entity \in DOMAIN Contracts :
                                    BlocksNavigation(Contracts[entity], world[entity].state)})'
    OBVIOUS
  <2>1. Report
    BY DEF Next, DeliverEvent, ApplyNextEffect, EventsDone, TestWire, DeliverAct, WiresDone,
           StepIntegrator, Report, Load, EndTick, Deliver, Fail
  <2>2. /\ blocked' = {entity \in DOMAIN Contracts : BlocksNavigation(Contracts[entity], world[entity].state)}
        /\ world' = world
    BY <2>1 DEF Report, Fail
  <2> QED BY <1>3, <2>2
<1>5. TwinInv'
  BY <1>1, <1>3, <1>4 DEF TwinInv, Implements
<1>6. ASSUME phase \in {"events", "wires", "integrate"}, phase' = "failed"
      PROVE  TwinTick.error = error'
  <2>1. Ticks!RunTick
    BY <1>1, <1>6 DEF Implements, Ticks!TickNext, Ticks!tickVars, Ticks!LoadReplay, Ticks!ReportNavigation
  <2>2. TickNow = TickOf(Replays[file].contracts, Replays[file].wires, Ticks!Settled,
                         Replays[file].events, Len(snapshots))
    BY DEF TickNow, Contracts, Replay, Base, Tick, Ticks!Settled
  <2>3. error' = TickNow.error
    BY <1>6, <2>1, <2>2 DEF Ticks!RunTick
  <2> QED BY <1>3, <2>3, TwinTickIs
<1> QED BY <1>2, <1>5, <1>6

LEMMA TwinNext ==
  ASSUME CoveredFiles, TwinInv, [Next]_vars
  PROVE  /\ TwinInv'
         /\ [/\ snapshots' # snapshots => TwinTick = Outcome(world', "none")
             /\ phase \in {"events", "wires", "integrate"} /\ phase' = "failed"
                  => TwinTick.error = error']_vars
<1>1. CASE Load
  BY <1>1, TwinLoad
<1>2. CASE EndTick
  BY <1>2, TwinEnd
<1>3. CASE Next /\ ~Load /\ ~EndTick
  BY <1>3, TwinWithin
<1>4. CASE UNCHANGED vars
  <2>1. IInv' /\ TickInv'
    BY <1>4, NextInv, StutterImplements DEF TwinInv, Implements
  <2>2. UNCHANGED <<file, phase, world, snapshots, blocked>>
    BY <1>4 DEF vars
  <2>3. Base' = Base /\ Contracts' = Contracts
    BY <2>2 DEF Base, Contracts, Replay
  <2> QED BY <1>4, <2>1, <2>2, <2>3 DEF TwinInv, Running
<1> QED BY <1>1, <1>2, <1>3, <1>4

LEMMA TwinReports ==
  ASSUME TypedNavigation, TwinInv
  PROVE  TwinNavigationAgrees
<1> SUFFICES ASSUME phase = "done"
             PROVE  blocked = {entity \in DOMAIN Contracts :
                                 RustBlocks(Contracts[entity], world[entity].state)}
  BY DEF TwinNavigationAgrees
<1>1. \A entity \in DOMAIN Contracts :
        EntryTyped(Contracts[entity], world[entity]) /\ NavigationTyped(Contracts[entity])
  BY DEF TwinInv, IInv, TypeOK, TypedNavigation, Contracts, Replay
<1>2. \A entity \in DOMAIN Contracts :
        RustBlocks(Contracts[entity], world[entity].state)
          <=> BlocksNavigation(Contracts[entity], world[entity].state)
  BY <1>1, SameNavigation
<1> QED BY <1>2 DEF TwinInv

\* For every replay, integer width and number of events, wires, verbs, effects
\* and integrators: a replay that loads leaves the Rust and the Python kernel in
\* the same world after every tick, what one refuses the other refuses with the
\* same code, and both derive the same navigation.
THEOREM KernelsAgree == ASSUME CoveredFiles, TypedNavigation PROVE Spec => TwinsAgree
<1>1. Init => TwinInv
  BY InitInv, InitImplements DEF TwinInv, Init, Running
<1>2. TwinInv /\ [Next]_vars =>
        /\ TwinInv'
        /\ [/\ snapshots' # snapshots => TwinTick = Outcome(world', "none")
            /\ phase \in {"events", "wires", "integrate"} /\ phase' = "failed"
                 => TwinTick.error = error']_vars
  BY TwinNext
<1>3. TwinInv => TwinNavigationAgrees
  BY TwinReports
<1> QED BY <1>1, <1>2, <1>3, PTL DEF Spec, TwinsAgree, TwinTicksAgree

-----------------------------------------------------------------------------
(* A broken gate.                                                          *)

IsBroken(entry) == "destroyed" \in DOMAIN entry.state /\ entry.state["destroyed"] = BoolV(TRUE)

\* Between two effects of a delivery, before its k-th: `close` was let in by a gate
\* that is whole, and `attack` opens the gate right after it has broken it.
Hanging(verb, k, entry, params) ==
  IF verb = "close" THEN ~IsBroken(entry)
  ELSE HangsOpen(entry) \/ (verb = "attack" /\ k = 3 /\ GuardsHold(Broken, entry.state, params))

LEMMA BrokenMeans ==
  ASSUME NEW state, NEW params
  PROVE  GuardsHold(Broken, state, params)
           <=> /\ "health" \in DOMAIN state => state["health"] = IntV(0)
               /\ "destroyed" \in DOMAIN state
<1>1. /\ Len(Broken) = 2 /\ Broken[1] = Guard("health", "equals", Const(IntV(0)))
      /\ Broken[2] = Guard("destroyed", "exists", Const(<<"bool", TRUE>>))
  BY DEF Broken, Exists, BoolV
<1> DEFINE health == Broken[1]
           breaks == Broken[2]
<1>2. /\ health.var = "health" /\ health.test = "equals"
      /\ health.against.kind = "const" /\ health.against.value = IntV(0)
  BY <1>1 DEF Guard, Const
<1>3. /\ breaks.var = "destroyed" /\ breaks.test = "exists"
      /\ breaks.against = Const(<<"bool", TRUE>>)
  BY <1>1 DEF Guard
<1>4. Raw(breaks.against.value) = TRUE
  BY <1>3 DEF Raw, Const
<1> HIDE DEF health, breaks
<1>5. GuardHolds(breaks, state, params) <=> "destroyed" \in DOMAIN state
  BY <1>3, <1>4 DEF GuardHolds
<1>6. Wanted(health, state, params) = IntV(0)
  BY <1>2 DEF Wanted, Resolve
<1>7. TypedZero(IntV(0)) = IntV(0)
  BY DEF TypedZero, Zero, IntV, TypeOf
<1>8. Actual(health, state, params) = IF "health" \in DOMAIN state THEN state["health"] ELSE IntV(0)
  BY <1>2, <1>6, <1>7 DEF Actual
<1>9. GuardHolds(health, state, params) <=> Actual(health, state, params) = IntV(0)
  BY <1>2, <1>6 DEF GuardHolds
<1>10. GuardsHold(Broken, state, params) <=> GuardHolds(health, state, params) /\ GuardHolds(breaks, state, params)
  BY <1>1 DEF GuardsHold, health, breaks
<1> QED BY <1>5, <1>8, <1>9, <1>10

LEMMA HangsElsewhere ==
  ASSUME NEW entry, HangsOpen(entry), NEW var, var # "destroyed", NEW v, NEW next,
         next = [state |-> Put(entry.state, var, v), control |-> entry.control]
  PROVE  HangsOpen(next)
<1>1. next.state = Put(entry.state, var, v) /\ next.control = entry.control
  OBVIOUS
<1>2. /\ "destroyed" \in DOMAIN next.state <=> "destroyed" \in DOMAIN entry.state
      /\ "destroyed" \in DOMAIN entry.state => next.state["destroyed"] = entry.state["destroyed"]
  BY <1>1, PutElsewhere
<1> QED BY <1>1, <1>2 DEF HangsOpen

\* One effect of a door's verb.
LEMMA EffectHangs ==
  ASSUME NEW verb \in DOMAIN DoorAffordances, NEW effects, effects = DoorAffordances[verb].effects,
         NEW k \in 1 .. Len(effects), NEW entry, NEW arg, NEW params, Hanging(verb, k, entry, params),
         NEW next, next = ApplyEffect(effects[k], arg, entry, params)
  PROVE  IF k < Len(effects) THEN Hanging(verb, k + 1, next, params) ELSE HangsOpen(next)
<1> DEFINE setState(var, v) == [state |-> Put(entry.state, var, v), control |-> entry.control]
           aimed(n) == [state |-> entry.state, control |-> Put(entry.control, "openness_target", IntV(n))]
<1> HIDE DEF setState
<1>0. \A var, v : var # "destroyed" /\ HangsOpen(entry) /\ next = setState(var, v) => HangsOpen(next)
  BY HangsElsewhere DEF setState
<1>1. CASE verb = "open"
  <2>1. effects = <<Aim(Quantum, <<>>)>>
    BY <1>1 DEF DoorAffordances, Verb
  <2>2. effects[1] = Aim(Quantum, <<>>) /\ k = 1 /\ Len(effects) = 1
    BY <2>1
  <2>3. next = aimed(Quantum)
    BY <2>2, AimDoes, NoGuards
  <2>4. next.control["openness_target"] = IntV(Quantum)
    BY <2>3, PutThere
  <2>5. HangsOpen(next)
    BY <2>4 DEF HangsOpen
  <2> QED BY <2>2, <2>5
<1>2. CASE verb = "close"
  <2>1. effects = <<Aim(0, <<>>)>>
    BY <1>2 DEF DoorAffordances, Verb
  <2>2. effects[1] = Aim(0, <<>>) /\ k = 1 /\ Len(effects) = 1
    BY <2>1
  <2>3. next = aimed(0)
    BY <2>2, AimDoes, NoGuards
  <2>4. next.state = entry.state /\ ~IsBroken(entry)
    BY <1>2, <2>3 DEF Hanging
  <2>5. HangsOpen(next)
    BY <2>4 DEF HangsOpen, IsBroken
  <2> QED BY <2>2, <2>5
<1>3. CASE verb \in {"lock", "unlock"}
  <2>1. \E b : effects = <<SetBool("locked", b, <<>>)>>
    <3>1. CASE verb = "lock"
      <4> SUFFICES effects = <<SetBool("locked", TRUE, <<>>)>>
        OBVIOUS
      <4> QED BY <3>1 DEF DoorAffordances, Verb
    <3>2. CASE verb = "unlock"
      <4> SUFFICES effects = <<SetBool("locked", FALSE, <<>>)>>
        OBVIOUS
      <4> QED BY <3>2 DEF DoorAffordances, Verb
    <3> QED BY <1>3, <3>1, <3>2
  <2>2. PICK b : effects = <<SetBool("locked", b, <<>>)>>
    BY <2>1
  <2>3. effects[1] = SetBool("locked", b, <<>>) /\ k = 1 /\ Len(effects) = 1
    BY <2>2
  <2>4. next = setState("locked", BoolV(b))
    BY <2>3, SetBoolDoes, NoGuards DEF setState
  <2>5. HangsOpen(entry)
    BY <1>3 DEF Hanging
  <2> QED BY <1>0, <2>3, <2>4, <2>5
<1>4. CASE verb = "attack"
  <2>1. \E b : b = TRUE /\ effects = <<Damage, SetBool("destroyed", b, Broken), Aim(Quantum, Broken)>>
    <3> WITNESS TRUE
    <3> QED BY <1>4 DEF DoorAffordances, Verb
  <2>2. PICK b : effects = <<Damage, SetBool("destroyed", b, Broken), Aim(Quantum, Broken)>>
    BY <2>1
  <2>3. /\ Len(effects) = 3 /\ effects[1] = Damage
        /\ effects[2] = SetBool("destroyed", b, Broken) /\ effects[3] = Aim(Quantum, Broken)
    BY <2>2
  <2>4. k = 1 \/ k = 2 \/ k = 3
    BY <2>3
  <2>5. CASE k = 1
    <3>1. \E v : next = setState("health", v)
      BY <2>3, <2>5, AddDoes DEF setState
    <3>2. HangsOpen(entry)
      BY <1>4, <2>5 DEF Hanging
    <3>3. HangsOpen(next)
      BY <1>0, <3>1, <3>2
    <3> QED BY <1>4, <2>3, <2>5, <3>3 DEF Hanging
  <2>6. CASE k = 2
    <3>1. next = IF GuardsHold(Broken, entry.state, params) THEN setState("destroyed", BoolV(b)) ELSE entry
      BY <2>3, <2>6, SetBoolDoes DEF setState
    <3>2. CASE GuardsHold(Broken, entry.state, params)
      <4>1. next.state = Put(entry.state, "destroyed", BoolV(b))
        BY <3>1, <3>2 DEF setState
      <4>2. "health" \in DOMAIN entry.state => entry.state["health"] = IntV(0)
        BY <3>2, BrokenMeans
      <4>3. "health" \in DOMAIN next.state => next.state["health"] = IntV(0)
        BY <4>1, <4>2, PutElsewhere
      <4>4. "destroyed" \in DOMAIN next.state
        BY <4>1, PutThere
      <4>5. GuardsHold(Broken, next.state, params)
        BY <4>3, <4>4, BrokenMeans
      <4> QED BY <1>4, <2>3, <2>6, <4>5 DEF Hanging
    <3>3. CASE ~GuardsHold(Broken, entry.state, params)
      <4>1. HangsOpen(next)
        BY <1>4, <2>6, <3>1, <3>3 DEF Hanging
      <4> QED BY <1>4, <2>3, <2>6, <4>1 DEF Hanging
    <3> QED BY <3>2, <3>3
  <2>7. CASE k = 3
    <3>1. next = IF GuardsHold(Broken, entry.state, params) THEN aimed(Quantum) ELSE entry
      BY <2>3, <2>7, AimDoes
    <3>2. CASE GuardsHold(Broken, entry.state, params)
      <4>1. next.control["openness_target"] = IntV(Quantum)
        BY <3>1, <3>2, PutThere
      <4>2. HangsOpen(next)
        BY <4>1 DEF HangsOpen
      <4> QED BY <2>3, <2>7, <4>2
    <3>3. CASE ~GuardsHold(Broken, entry.state, params)
      BY <1>4, <2>3, <2>7, <3>1, <3>3 DEF Hanging
    <3> QED BY <3>2, <3>3
  <2> QED BY <2>4, <2>5, <2>6, <2>7
<1>5. CASE verb = "repair"
  <2>1. \E b : b = FALSE /\ effects = <<Mend, SetBool("destroyed", b, Revived)>>
    <3> WITNESS FALSE
    <3> QED BY <1>5 DEF DoorAffordances, Verb
  <2>2. PICK b : b = FALSE /\ effects = <<Mend, SetBool("destroyed", b, Revived)>>
    BY <2>1
  <2>3. /\ Len(effects) = 2 /\ effects[1] = Mend
        /\ effects[2] = SetBool("destroyed", b, Revived)
    BY <2>2
  <2>4. HangsOpen(entry) /\ (k = 1 \/ k = 2)
    BY <1>5, <2>3 DEF Hanging
  <2>5. CASE k = 1
    <3>1. \E v : next = setState("health", v)
      BY <2>3, <2>5, AddDoes DEF setState
    <3>2. HangsOpen(next)
      BY <1>0, <2>4, <3>1
    <3> QED BY <1>5, <2>3, <2>5, <3>2 DEF Hanging
  <2>6. CASE k = 2
    <3>1. next = setState("destroyed", BoolV(b)) \/ next = entry
      BY <2>3, <2>6, SetBoolDoes DEF setState
    <3>2. BoolV(b) # BoolV(TRUE)
      BY <2>2 DEF BoolV
    <3>3. CASE next = setState("destroyed", BoolV(b))
      <4>1. next.state["destroyed"] = BoolV(b)
        BY <3>3, PutThere DEF setState
      <4>2. HangsOpen(next)
        BY <3>2, <4>1 DEF HangsOpen
      <4> QED BY <2>3, <2>6, <4>2
    <3> QED BY <2>3, <2>4, <2>6, <3>1, <3>3
  <2> QED BY <2>4, <2>5, <2>6
<1> QED BY <1>1, <1>2, <1>3, <1>4, <1>5 DEF DoorAffordances

\* A verb's guards let it in where its first effect keeps the gate open.
LEMMA GuardsLetIn ==
  ASSUME NEW verb \in DOMAIN DoorAffordances, NEW entry, NEW params, HangsOpen(entry),
         GuardsHold(DoorAffordances[verb].guards, entry.state, params)
  PROVE  Hanging(verb, 1, entry, params)
<1>1. CASE verb # "close"
  BY <1>1 DEF Hanging
<1>2. CASE verb = "close"
  <2>1. DoorAffordances[verb].guards = <<IsFalse("destroyed")>>
    BY <1>2 DEF DoorAffordances, Verb, CloseGuards
  <2>2. GuardHolds(IsFalse("destroyed"), entry.state, params)
    BY <2>1 DEF GuardsHold
  <2>3. "destroyed" \in DOMAIN entry.state => entry.state["destroyed"] = BoolV(FALSE)
    BY <2>2 DEF GuardHolds, Actual, Wanted, Resolve, IsFalse, Guard, Const
  <2>4. BoolV(FALSE) # BoolV(TRUE)
    BY DEF BoolV
  <2> QED BY <1>2, <2>3, <2>4 DEF Hanging, IsBroken
<1> QED BY <1>1, <1>2

\* The door's integrator moves `openness` alone.
LEMMA IntegratorHangs ==
  ASSUME NEW entry, HangsOpen(entry), NEW i \in 1 .. Len(DoorIntegrators), NEW params
  PROVE  HangsOpen(Integrate(DoorIntegrators[i], entry, params))
<1>1. i = 1 /\ DoorIntegrators[i].var = "openness"
  BY DEF DoorIntegrators
<1> DEFINE next == Integrate(DoorIntegrators[i], entry, params)
<1>2. \/ next = entry
      \/ \E v : next = [state |-> Put(entry.state, "openness", v), control |-> entry.control]
  BY <1>1 DEF Integrate
<1>3. CASE next = entry
  BY <1>3
<1>4. ASSUME NEW v, next = [state |-> Put(entry.state, "openness", v), control |-> entry.control]
      PROVE  HangsOpen(next)
  BY <1>4, HangsElsewhere
<1> HIDE DEF next
<1>5. HangsOpen(next)
  BY <1>2, <1>3, <1>4
<1> QED BY <1>5 DEF next

GatesHang ==
  \A gate \in DOMAIN world : Contracts[gate].version = "0.1" =>
    IF call # NoCall /\ call.entity = gate
    THEN Hanging(call.verb, call.effect, world[gate], Contracts[gate].params)
    ELSE HangsOpen(world[gate])

LEMMA DeliverHangs ==
  ASSUME IInv, Running, GatesHang, call = NoCall, UNCHANGED file,
         NEW entity \in DOMAIN Contracts, NEW verb, NEW arg, Deliver(entity, verb, arg)
  PROVE  GatesHang'
<1>1. Contracts' = Contracts
  BY DEF Contracts, Replay
<1>2. world' = world /\ DOMAIN world = DOMAIN Contracts
  BY DEF Deliver, Fail, IInv, TypeOK, Running
<1>3. CASE call' = NoCall
  BY <1>1, <1>2, <1>3 DEF GatesHang
<1>4. CASE call' # NoCall
  <2> DEFINE contract == Contracts[entity]
             spec == SpecOf(contract, verb)
  <2>1. /\ DeliveryError(contract, world[entity].state, verb, arg) = "none"
        /\ GuardsHold(spec.guards, world[entity].state, contract.params)
        /\ call' = [entity |-> entity, verb |-> verb, arg |-> arg, effect |-> 1]
    BY <1>4 DEF Deliver, Fail
  <2>2. verb \in DeclaredVerbs(contract)
    BY <2>1 DEF DeliveryError
  <2>3. ASSUME contract.version = "0.1"
        PROVE  Hanging(verb, 1, world[entity], contract.params)
    <3>1. verb \in DOMAIN DoorAffordances /\ spec = DoorAffordances[verb]
      BY <2>2, <2>3 DEF DeclaredVerbs, SpecOf, Semantics
    <3>2. HangsOpen(world[entity])
      BY <1>2, <2>3 DEF GatesHang
    <3> QED BY <2>1, <3>1, <3>2, GuardsLetIn
  <2> QED BY <1>1, <1>2, <2>1, <2>3 DEF GatesHang
<1> QED BY <1>3, <1>4

\* A call in progress is a record of its four fields.
LEMMA CallShape ==
  ASSUME TickInv, phase \in {"events", "wires"}, call # NoCall
  PROVE  call = [entity |-> call.entity, verb |-> call.verb, arg |-> call.arg, effect |-> call.effect]
  BY DEF TickInv, OnTheWay, LeadsTo

LEMMA AffectHangs ==
  ASSUME IInv, TickInv, Running, GatesHang, ApplyNextEffect
  PROVE  GatesHang'
<1>1. Contracts' = Contracts
  BY DEF ApplyNextEffect, Contracts, Replay
<1>2. DOMAIN world = DOMAIN Contracts /\ CallTyped(call)
  BY DEF IInv, TypeOK, Running, ApplyNextEffect
<1>3. CASE UNCHANGED <<world, call>>
  BY <1>1, <1>3 DEF GatesHang
<1>4. CASE ~UNCHANGED <<world, call>>
  <2> DEFINE contract == Contracts[call.entity]
             effects == SpecOf(contract, call.verb).effects
             next == ApplyEffect(effects[call.effect], call.arg, world[call.entity], contract.params)
  <2>1. /\ call # NoCall
        /\ world' = [world EXCEPT ![call.entity] = next]
        /\ call' = IF call.effect < Len(effects) THEN [call EXCEPT !.effect = @ + 1] ELSE NoCall
    BY <1>4 DEF ApplyNextEffect, Fail
  <2>2. /\ call.entity \in DOMAIN Contracts /\ call.verb \in DeclaredVerbs(contract)
        /\ call.effect \in 1 .. Len(effects)
    BY <1>2 DEF CallTyped
  <2>3. ASSUME contract.version = "0.1"
        PROVE  IF call.effect < Len(effects)
               THEN Hanging(call.verb, call.effect + 1, next, contract.params) ELSE HangsOpen(next)
    <3>1. call.verb \in DOMAIN DoorAffordances /\ effects = DoorAffordances[call.verb].effects
      BY <2>2, <2>3 DEF DeclaredVerbs, SpecOf, Semantics
    <3>2. Hanging(call.verb, call.effect, world[call.entity], contract.params)
      BY <1>2, <2>1, <2>2, <2>3 DEF GatesHang
    <3> QED BY <2>2, <3>1, <3>2, EffectHangs
  <2>4. ASSUME call.effect < Len(effects)
        PROVE  /\ call' # NoCall /\ call'.entity = call.entity /\ call'.verb = call.verb
               /\ call'.effect = call.effect + 1
    <3>1. call' = [call EXCEPT !.effect = @ + 1]
      BY <2>1, <2>4
    <3>2. call = [entity |-> call.entity, verb |-> call.verb, arg |-> call.arg, effect |-> call.effect]
      BY <2>1, CallShape DEF ApplyNextEffect
    <3>3. call' = [entity |-> call.entity, verb |-> call.verb, arg |-> call.arg, effect |-> call.effect + 1]
      BY <3>1, <3>2
    <3>4. call.effect + 1 # 0
      BY <2>2
    <3> QED BY <3>3, <3>4 DEF NoCall
  <2>5. /\ DOMAIN world' = DOMAIN world
        /\ \A gate \in DOMAIN world : world'[gate] = IF gate = call.entity THEN next ELSE world[gate]
    BY <2>1
  <2> HIDE DEF next
  <2> QED BY <1>1, <1>2, <2>1, <2>2, <2>3, <2>4, <2>5 DEF GatesHang
<1> QED BY <1>3, <1>4

GateInv == IInv /\ TickInv /\ (IF Running THEN GatesHang ELSE world = <<>>)

LEMMA LoadHangs ==
  ASSUME Load, call = NoCall, world = <<>>
  PROVE  (IF Running THEN GatesHang ELSE world = <<>>)'
<1> SUFFICES ASSUME phase' = "events"
             PROVE  GatesHang'
  BY DEF Load, Running
<1>1. world' = InitialWorld(Replay) /\ call' = NoCall /\ Contracts' = Contracts
  BY DEF Load, Contracts, Replay
<1>2. \A gate \in DOMAIN world' : world'[gate].control = <<>>
  BY <1>1 DEF InitialWorld
<1>3. "openness_target" \notin DOMAIN <<>>
  OBVIOUS
<1> QED BY <1>1, <1>2, <1>3 DEF GatesHang, HangsOpen

LEMMA IntegrateHangs ==
  ASSUME IInv, TickInv, GatesHang, NEW entity \in DOMAIN world, StepIntegrator(entity)
  PROVE  GatesHang'
<1>1. /\ phase = "integrate" /\ Contracts' = Contracts /\ Running
      /\ call = NoCall /\ call' = NoCall
  BY DEF StepIntegrator, Contracts, Replay, Running, TickInv, AtIntegrator, Fail
<1>2. CASE world' = world
  BY <1>1, <1>2 DEF GatesHang
<1>3. CASE world' # world
  <2> DEFINE i == turn[entity]
             next == Integrate(Integrators(entity)[i], world[entity], Contracts[entity].params)
  <2>1. world' = [world EXCEPT ![entity] = next] /\ turn[entity] <= Len(Integrators(entity))
    BY <1>3 DEF StepIntegrator, Fail
  <2>2. DOMAIN world = DOMAIN Contracts /\ turn[entity] \in Nat \ {0}
    BY <1>1 DEF IInv, TypeOK, Running
  <2>3. ASSUME Contracts[entity].version = "0.1"
        PROVE  HangsOpen(next)
    <3>1. Integrators(entity) = DoorIntegrators
      BY <2>3 DEF Integrators, Semantics
    <3>2. Len(DoorIntegrators) = 1
      BY DEF DoorIntegrators
    <3>3. i \in 1 .. Len(DoorIntegrators)
      BY <2>1, <2>2, <3>1, <3>2
    <3>4. HangsOpen(world[entity])
      BY <1>1, <2>3 DEF GatesHang
    <3> QED BY <3>1, <3>3, <3>4, IntegratorHangs
  <2> HIDE DEF next
  <2>4. \A gate \in DOMAIN world' :
          gate \in DOMAIN world /\ world'[gate] = IF gate = entity THEN next ELSE world[gate]
    BY <2>1
  <2> QED BY <1>1, <2>3, <2>4 DEF GatesHang
<1> QED BY <1>2, <1>3

LEMMA NextHangs ==
  ASSUME CoveredFiles, GateInv, [Next]_vars
  PROVE  GateInv'
<1>1. IInv' /\ TickInv'
  BY NextInv, NextImplements DEF GateInv, Implements
<1>2. CASE Load
  <2>1. call = NoCall /\ world = <<>>
    BY <1>2 DEF GateInv, TickInv, Shaped, Load, Running
  <2> QED BY <1>1, <1>2, <2>1, LoadHangs DEF GateInv
<1>3. CASE Running /\ Running' /\ UNCHANGED <<file, world, call>>
  <2>1. GatesHang
    BY <1>3 DEF GateInv
  <2>2. Contracts' = Contracts
    BY <1>3 DEF Contracts, Replay
  <2> QED BY <1>1, <1>3, <2>1, <2>2 DEF GateInv, GatesHang
<1>4. CASE DeliverEvent
  <2>1. Running /\ ReplayOK(Replay) /\ file' = file /\ call = NoCall
    BY <1>4 DEF DeliverEvent, GateInv, Running, TickInv, Shaped
  <2>2. PICK i \in 1 .. Len(Replay.events) :
          Deliver(Replay.events[i].entity, Replay.events[i].verb, Replay.events[i].arg)
    BY <1>4 DEF DeliverEvent
  <2>3. Replay.events[i].entity \in DOMAIN Contracts
    BY <2>1 DEF ReplayOK, EventsOK, Contracts
  <2>4. Running'
    BY <2>1, <2>2 DEF Deliver, Fail, Running
  <2> QED BY <1>1, <2>1, <2>2, <2>3, <2>4, DeliverHangs DEF GateInv
<1>5. CASE DeliverAct
  <2> DEFINE then == Replay.wires[wire].then
  <2>1. Running /\ ReplayOK(Replay) /\ file' = file /\ call = NoCall /\ file \in DOMAIN Replays
    BY <1>5 DEF DeliverAct, GateInv, Running, TickInv, Shaped
  <2>2. Deliver(then[act].entity, then[act].verb, then[act].arg)
    BY <1>5 DEF DeliverAct
  <2>3. wire \in 1 .. Len(Replay.wires) + 1 /\ wire <= Len(Replay.wires)
        /\ act \in Nat /\ act > 0 /\ act <= Len(then)
    BY <1>5 DEF DeliverAct, GateInv, TickInv, AtWire
  <2>4. wire \in 1 .. Len(Replay.wires) /\ act \in 1 .. Len(then)
    BY <2>1, <2>3, ListLengths
  <2>5. ActOK(then[act], Contracts)
    BY <2>1, <2>4 DEF ReplayOK, WiresOK, WireOK, Contracts
  <2>6. then[act].entity \in DOMAIN Contracts
    BY <2>5 DEF ActOK
  <2>7. Running'
    BY <2>1, <2>2 DEF Deliver, Fail, Running
  <2> QED BY <1>1, <2>1, <2>2, <2>6, <2>7, DeliverHangs DEF GateInv
<1>6. CASE ApplyNextEffect
  <2>1. Running /\ Running'
    BY <1>6 DEF ApplyNextEffect, Fail, Running
  <2> QED BY <1>1, <1>6, <2>1, AffectHangs DEF GateInv
<1>7. ASSUME NEW entity \in DOMAIN world, StepIntegrator(entity)
      PROVE  GateInv'
  <2>1. Running /\ Running'
    BY <1>7 DEF StepIntegrator, Fail, Running
  <2> QED BY <1>1, <1>7, <2>1, IntegrateHangs DEF GateInv
<1>8. CASE EventsDone \/ TestWire \/ WiresDone \/ EndTick \/ Report
  <2>1. Running /\ Running' /\ UNCHANGED <<file, world, call>>
    BY <1>8 DEF EventsDone, TestWire, WiresDone, EndTick, Report, Fail, Running
  <2> QED BY <1>3, <2>1
<1>9. CASE UNCHANGED vars
  <2>1. UNCHANGED <<file, world, call, phase>>
    BY <1>9 DEF vars
  <2>2. CASE Running
    BY <1>3, <2>1, <2>2 DEF Running
  <2>3. CASE ~Running
    BY <1>1, <2>1, <2>3 DEF GateInv, Running
  <2> QED BY <2>2, <2>3
<1> QED BY <1>2, <1>4, <1>5, <1>6, <1>7, <1>8, <1>9 DEF Next

\* For every replay of 0.1 gates, whatever its commands, wires and initial
\* values: a broken gate that has been told to open is still told to open.
THEOREM GatesHangOpen == ASSUME CoveredFiles PROVE Spec => []BrokenGateHangsOpen
<1>1. Init => GateInv
  BY InitInv, InitImplements DEF GateInv, Init, Running
<1>2. GateInv /\ [Next]_vars => GateInv'
  BY NextHangs
<1>3. GateInv => BrokenGateHangsOpen
  <2> SUFFICES ASSUME GateInv
               PROVE  BrokenGateHangsOpen
    OBVIOUS
  <2>1. CASE Running
    BY <2>1 DEF GateInv, GatesHang, BrokenGateHangsOpen
  <2>2. CASE ~Running
    <3>1. DOMAIN <<>> = {}
      OBVIOUS
    <3> QED BY <2>2, <3>1 DEF GateInv, BrokenGateHangsOpen
  <2> QED BY <2>1, <2>2
<1> QED BY <1>1, <1>2, <1>3, PTL DEF Spec

-----------------------------------------------------------------------------
(* A verb a wire holds. *)

\* `f` where one of `written` was assigned, `g` elsewhere.
Over(written, f, g) ==
  [x \in written \cup DOMAIN g |-> IF x \in written THEN f[x] ELSE g[x]]

\* What the first n effects assign, by op.
Assigned(effects, op, n) ==
  {effects[i].target : i \in {j \in 1 .. n : effects[j].op = op}}

LEMMA OverPut ==
  ASSUME NEW written, NEW f, NEW g, NEW k, NEW v, written \subseteq DOMAIN f
  PROVE  /\ Put(Over(written, f, g), k, v) = Over(written \cup {k}, Put(f, k, v), g)
         /\ written \cup {k} \subseteq DOMAIN Put(f, k, v)
<1>1. /\ DOMAIN Put(f, k, v) = DOMAIN f \cup {k}
      /\ \A x \in DOMAIN f \cup {k} : Put(f, k, v)[x] = IF x = k THEN v ELSE f[x]
  BY DEF Put
<1>2. /\ DOMAIN Over(written, f, g) = written \cup DOMAIN g
      /\ \A x \in written \cup DOMAIN g :
           Over(written, f, g)[x] = IF x \in written THEN f[x] ELSE g[x]
  BY DEF Over
<1>3. Put(Over(written, f, g), k, v)
        = [x \in written \cup DOMAIN g \cup {k} |->
             IF x = k THEN v ELSE IF x \in written THEN f[x] ELSE g[x]]
  BY <1>2 DEF Put
<1>4. Over(written \cup {k}, Put(f, k, v), g)
        = [x \in written \cup {k} \cup DOMAIN g |->
             IF x = k THEN v ELSE IF x \in written THEN f[x] ELSE g[x]]
  BY <1>1 DEF Over
<1> QED BY <1>1, <1>3, <1>4

LEMMA OverEnds ==
  ASSUME NEW f, f = [x \in DOMAIN f |-> f[x]]
  PROVE  /\ \A g : Over({}, g, f) = f
         /\ \A written : written \subseteq DOMAIN f => Over(written, f, f) = f
  BY DEF Over

LEMMA AssignedNext ==
  ASSUME NEW effects, NEW op, NEW n \in Nat
  PROVE  /\ Assigned(effects, op, 0) = {}
         /\ Assigned(effects, op, n + 1)
              = IF effects[n + 1].op = op THEN Assigned(effects, op, n) \cup {effects[n + 1].target}
                ELSE Assigned(effects, op, n)
<1>1. 1 .. 0 = {} /\ 1 .. (n + 1) = (1 .. n) \cup {n + 1}
  OBVIOUS
<1> QED BY <1>1 DEF Assigned

\* What validate_wires asks of the verb of a wire.
LevelSafe(spec) == \A i \in 1 .. Len(spec.effects) : spec.effects[i].op \in LevelSafeOps

\* What assigning v does to an entry.
Assign(effect, v, entry) ==
  IF effect.op = "set"
  THEN [state |-> Put(entry.state, effect.target, v), control |-> entry.control]
  ELSE [state |-> entry.state, control |-> Put(entry.control, effect.target, v)]

AssignsOne(effect, arg, params) ==
  \E v : \A entry : ApplyEffect(effect, arg, entry, params) = Assign(effect, v, entry)

\* An effect that reads no state assigns the same value to every entry.
LEMMA AssignsOnce ==
  ASSUME NEW effect, effect.op \in LevelSafeOps, ~ReadsState(effect),
         effect.value.kind \in {"const", "arg", "param", "var"}, NEW arg, NEW params
  PROVE  AssignsOne(effect, arg, params)
<1>1. /\ effect.op \in {"set", "set_control"} /\ effect.when = <<>>
      /\ effect.value.kind \in {"const", "arg", "param"}
  BY DEF LevelSafeOps, ReadsState
<1> DEFINE v == Resolve(effect.value, arg, <<>>, params)
<1>2. \A state : Resolve(effect.value, arg, state, params) = v
  BY <1>1 DEF Resolve
<1> HIDE DEF v
<1>3. \A entry : ApplyEffect(effect, arg, entry, params) = Assign(effect, v, entry)
  BY <1>1, <1>2, NoGuards DEF ApplyEffect, Assign
<1> QED BY <1>3 DEF AssignsOne

\* The entries a delivery goes through.
LEMMA EntryPasses ==
  ASSUME NEW contract, Sound(contract), NEW entry, Whole(contract, entry),
         NEW verb \in DeclaredVerbs(contract), NEW arg,
         SpecOf(contract, verb).arg = "count" => IsInt(arg)
  PROVE  LET effects  == SpecOf(contract, verb).effects
             after(n) == RustAffected(entry, effects, arg, contract.params, n)
         IN /\ Len(effects) \in Nat /\ after(0) = entry
            /\ \A n \in 1 .. Len(effects) :
                 after(n) = ApplyEffect(effects[n], arg, after(n - 1), contract.params)
            /\ \A n \in 0 .. Len(effects) : Whole(contract, after(n))
<1> DEFINE kind == SpecOf(contract, verb).arg
           effects == SpecOf(contract, verb).effects
           N == Len(effects)
           after(n) == RustAffected(entry, effects, arg, contract.params, n)
           S == {n \in Nat : n <= N => Whole(contract, after(n))}
<1>1. N \in Nat /\ \A i \in 1 .. N : EffectSound(effects[i], contract, kind)
  BY DEF Sound, SpecSound
<1>2. /\ after(0) = entry
      /\ \A n \in 1 .. N : after(n) = RustEffect(effects[n], arg, after(n - 1), contract.params)
  <2> HIDE DEF effects
  <2> QED BY <1>1, RustAffectedPasses
<1> HIDE DEF after, N, effects
<1>3. \A n \in 1 .. N : Whole(contract, after(n - 1)) =>
        /\ after(n) = ApplyEffect(effects[n], arg, after(n - 1), contract.params)
        /\ Whole(contract, after(n))
  <2> SUFFICES ASSUME NEW n \in 1 .. N, Whole(contract, after(n - 1))
               PROVE  /\ after(n) = ApplyEffect(effects[n], arg, after(n - 1), contract.params)
                      /\ Whole(contract, after(n))
    OBVIOUS
  <2>1. after(n) = RustEffect(effects[n], arg, after(n - 1), contract.params)
    BY <1>2
  <2>2. EffectSound(effects[n], contract, kind)
    BY <1>1
  <2>3. kind = "count" => IsInt(arg)
    OBVIOUS
  <2> HIDE DEF kind
  <2>4. /\ RustEffect(effects[n], arg, after(n - 1), contract.params)
              = ApplyEffect(effects[n], arg, after(n - 1), contract.params)
        /\ Whole(contract, ApplyEffect(effects[n], arg, after(n - 1), contract.params))
    BY <2>2, <2>3, SameEffect
  <2> QED BY <2>1, <2>4
<1>4. 0 \in S
  BY <1>2
<1>5. ASSUME NEW n \in Nat, n \in S PROVE n + 1 \in S
  <2> SUFFICES ASSUME n + 1 <= N PROVE Whole(contract, after(n + 1))
    OBVIOUS
  <2>1. n + 1 \in 1 .. N /\ (n + 1) - 1 = n /\ Whole(contract, after(n))
    BY <1>1, <1>5
  <2> QED BY <1>3, <2>1
<1>6. \A n \in 0 .. N : Whole(contract, after(n))
  <2> HIDE DEF S
  <2>1. Nat \subseteq S
    BY <1>4, <1>5, SetInduction
  <2>2. \A n \in 0 .. N : n \in S
    BY <1>1, <2>1
  <2> QED BY <1>1, <2>2 DEF S
<1>7. \A n \in 1 .. N : n - 1 \in 0 .. N
  BY <1>1
<1>8. \A n \in 1 .. N : after(n) = ApplyEffect(effects[n], arg, after(n - 1), contract.params)
  BY <1>3, <1>6, <1>7
<1> QED BY <1>1, <1>2, <1>6, <1>8 DEF after, N, effects

\* Delivering a level-safe verb again to the entry it has left changes nothing:
\* after n effects, the second delivery has what the first one had where those
\* effects wrote, and what the first one left elsewhere.
LEMMA VerbRepeats ==
  ASSUME NEW contract, Sound(contract), NEW entry, Whole(contract, entry),
         NEW verb \in DeclaredVerbs(contract), NEW arg,
         SpecOf(contract, verb).arg = "count" => IsInt(arg),
         LevelSafe(SpecOf(contract, verb)), ~Conditional(SpecOf(contract, verb))
  PROVE  LET effects  == SpecOf(contract, verb).effects
             all(e)   == RustAffected(e, effects, arg, contract.params, Len(effects))
         IN all(all(entry)) = all(entry)
<1> DEFINE effects == SpecOf(contract, verb).effects
           kind == SpecOf(contract, verb).arg
           params == contract.params
           N == Len(effects)
           B(n) == RustAffected(entry, effects, arg, params, n)
           last == B(N)
           A(n) == RustAffected(last, effects, arg, params, n)
           assigned(n) == Assigned(effects, "set", n)
           aims(n) == Assigned(effects, "set_control", n)
           P(n) == /\ assigned(n) \subseteq DOMAIN B(n).state /\ aims(n) \subseteq DOMAIN B(n).control
                   /\ A(n) = [state   |-> Over(assigned(n), B(n).state, last.state),
                              control |-> Over(aims(n), B(n).control, last.control)]
           S == {n \in Nat : n <= N => P(n)}
<1>1. /\ N \in Nat /\ B(0) = entry
      /\ \A n \in 1 .. N : B(n) = ApplyEffect(effects[n], arg, B(n - 1), params)
      /\ \A n \in 0 .. N : Whole(contract, B(n))
  BY EntryPasses
<1>2. Whole(contract, last)
  <2> HIDE DEF B, N
  <2>1. N \in 0 .. N
    BY <1>1
  <2> QED BY <1>1, <2>1
<1>3. /\ N \in Nat /\ A(0) = last
      /\ \A n \in 1 .. N : A(n) = ApplyEffect(effects[n], arg, A(n - 1), params)
      /\ \A n \in 0 .. N : Whole(contract, A(n))
  <2> HIDE DEF last
  <2> QED BY <1>2, EntryPasses
<1>4. \A i \in 1 .. N : /\ effects[i].op \in LevelSafeOps /\ ~ReadsState(effects[i])
                         /\ effects[i].value.kind \in {"const", "arg", "param", "var"}
  <2>1. \A i \in 1 .. N : effects[i].op \in LevelSafeOps /\ ~ReadsState(effects[i])
    BY DEF Conditional, LevelSafe
  <2>2. \A i \in 1 .. N : EffectSound(effects[i], contract, kind)
    BY DEF Sound, SpecSound
  <2> HIDE DEF effects, kind, N
  <2>3. \A i \in 1 .. N : \E type : ValueOK(effects[i].value, type, contract, kind)
    BY <2>1, <2>2 DEF EffectSound, SourceSound, LevelSafeOps
  <2>4. \A i \in 1 .. N : effects[i].value.kind \in {"const", "arg", "param", "var"}
    BY <2>3 DEF ValueOK
  <2> QED BY <2>1, <2>4
<1>5. /\ last = [state |-> last.state, control |-> last.control]
      /\ last.state = [x \in DOMAIN last.state |-> last.state[x]]
      /\ last.control = [x \in DOMAIN last.control |-> last.control[x]]
  BY <1>2 DEF Whole
<1> HIDE DEF A, B, N, effects, last
<1>6. 0 \in S
  <2>1. assigned(0) = {} /\ aims(0) = {}
    BY AssignedNext
  <2>2. Over({}, B(0).state, last.state) = last.state /\ Over({}, B(0).control, last.control) = last.control
    BY <1>5, OverEnds
  <2>3. P(0)
    BY <1>3, <1>5, <2>1, <2>2
  <2> QED BY <2>3
<1>7. ASSUME NEW n \in Nat, n \in S PROVE n + 1 \in S
  <2> SUFFICES ASSUME n + 1 <= N PROVE P(n + 1)
    OBVIOUS
  <2>1. n + 1 \in 1 .. N /\ (n + 1) - 1 = n /\ P(n)
    BY <1>1, <1>7
  <2> DEFINE effect == effects[n + 1]
             k == effect.target
  <2>2. /\ A(n + 1) = ApplyEffect(effect, arg, A(n), params)
        /\ B(n + 1) = ApplyEffect(effect, arg, B(n), params)
    BY <1>1, <1>3, <2>1
  <2>3. /\ effect.op \in LevelSafeOps /\ ~ReadsState(effect)
        /\ effect.value.kind \in {"const", "arg", "param", "var"}
    BY <1>4, <2>1
  <2>4. /\ assigned(n + 1) = IF effect.op = "set" THEN assigned(n) \cup {k} ELSE assigned(n)
        /\ aims(n + 1) = IF effect.op = "set_control" THEN aims(n) \cup {k} ELSE aims(n)
    <3>1. \A op : Assigned(effects, op, n + 1)
                    = IF effects[n + 1].op = op
                      THEN Assigned(effects, op, n) \cup {effects[n + 1].target}
                      ELSE Assigned(effects, op, n)
      BY AssignedNext, ZenonT(30), SMT
    <3>2. assigned(n + 1) = IF effect.op = "set" THEN assigned(n) \cup {k} ELSE assigned(n)
      BY <3>1, Z3
    <3>3. aims(n + 1) = IF effect.op = "set_control" THEN aims(n) \cup {k} ELSE aims(n)
      BY <3>1, Z3
    <3> QED BY <3>2, <3>3
  <2>5. /\ assigned(n) \subseteq DOMAIN B(n).state /\ aims(n) \subseteq DOMAIN B(n).control
        /\ A(n).state = Over(assigned(n), B(n).state, last.state)
        /\ A(n).control = Over(aims(n), B(n).control, last.control)
    BY <2>1
  <2> HIDE DEF effect, assigned, aims, params
  <2>6. PICK v : \A e : ApplyEffect(effect, arg, e, params) = Assign(effect, v, e)
    <3>1. AssignsOne(effect, arg, params)
      BY <2>3, AssignsOnce
    <3> QED BY <3>1 DEF AssignsOne
  <2>7. A(n + 1) = Assign(effect, v, A(n)) /\ B(n + 1) = Assign(effect, v, B(n))
    BY <2>2, <2>6
  <2>8. effect.op = "set" \/ effect.op = "set_control"
    BY <2>3 DEF LevelSafeOps
  <2>9. CASE effect.op = "set"
    <3>1. /\ A(n + 1) = [state |-> Put(A(n).state, k, v), control |-> A(n).control]
          /\ B(n + 1).state = Put(B(n).state, k, v) /\ B(n + 1).control = B(n).control
      BY <2>7, <2>9 DEF Assign
    <3>2. assigned(n + 1) = assigned(n) \cup {k} /\ aims(n + 1) = aims(n)
      BY <2>4, <2>9
    <3> HIDE DEF k
    <3>3. assigned(n) \subseteq DOMAIN B(n).state
      BY <2>5
    <3>4. Put(Over(assigned(n), B(n).state, last.state), k, v)
            = Over(assigned(n) \cup {k}, Put(B(n).state, k, v), last.state)
      <4> DEFINE written == assigned(n)
                 f == B(n).state
                 g == last.state
      <4>1. written \subseteq DOMAIN f
        BY <3>3
      <4> HIDE DEF written, f, g
      <4>2. Put(Over(written, f, g), k, v) = Over(written \cup {k}, Put(f, k, v), g)
        BY <4>1, OverPut, Z3
      <4> QED BY <4>2 DEF written, f, g
    <3>5. assigned(n) \cup {k} \subseteq DOMAIN Put(B(n).state, k, v)
      BY <3>3 DEF Put
    <3> QED BY <2>5, <3>1, <3>2, <3>4, <3>5
  <2>10. CASE effect.op = "set_control"
    <3>1. /\ A(n + 1) = [state |-> A(n).state, control |-> Put(A(n).control, k, v)]
          /\ B(n + 1).state = B(n).state /\ B(n + 1).control = Put(B(n).control, k, v)
      BY <2>7, <2>10 DEF Assign
    <3>2. assigned(n + 1) = assigned(n) /\ aims(n + 1) = aims(n) \cup {k}
      BY <2>4, <2>10
    <3> HIDE DEF k
    <3>3. aims(n) \subseteq DOMAIN B(n).control
      BY <2>5
    <3>4. Put(Over(aims(n), B(n).control, last.control), k, v)
            = Over(aims(n) \cup {k}, Put(B(n).control, k, v), last.control)
      <4> DEFINE written == aims(n)
                 f == B(n).control
                 g == last.control
      <4>1. written \subseteq DOMAIN f
        BY <3>3
      <4> HIDE DEF written, f, g
      <4>2. Put(Over(written, f, g), k, v) = Over(written \cup {k}, Put(f, k, v), g)
        BY <4>1, OverPut, Z3
      <4> QED BY <4>2 DEF written, f, g
    <3>5. aims(n) \cup {k} \subseteq DOMAIN Put(B(n).control, k, v)
      BY <3>3 DEF Put
    <3> QED BY <2>5, <3>1, <3>2, <3>4, <3>5
  <2> QED BY <2>8, <2>9, <2>10
<1>8. N \in S
  <2> HIDE DEF S
  <2>1. Nat \subseteq S
    BY <1>6, <1>7, SetInduction
  <2> QED BY <1>1, <2>1
<1>9. P(N) /\ B(N) = last
  BY <1>1, <1>8 DEF last
<1>10. A(N) = last
  <2>1. /\ Over(assigned(N), last.state, last.state) = last.state
        /\ Over(aims(N), last.control, last.control) = last.control
    BY <1>5, <1>9, OverEnds
  <2> QED BY <1>5, <1>9, <2>1
<1> QED BY <1>10 DEF A, B, N, effects, last

\* What all the effects of a verb make of an outcome.
Ran(contracts, start, entity, verb, arg) ==
  Affected(start, SpecOf(contracts[entity], verb).effects, entity, arg, contracts[entity].params,
           Len(SpecOf(contracts[entity], verb).effects))

\* The same at the level of the world (apply_event).
LEMMA DeliveryAgain ==
  ASSUME NEW contracts, AllSound(contracts), NEW entity \in DOMAIN contracts,
         NEW verb \in DeclaredVerbs(contracts[entity]), NEW arg,
         SpecOf(contracts[entity], verb).arg = "count" => IsInt(arg),
         LevelSafe(SpecOf(contracts[entity], verb)),
         ~Conditional(SpecOf(contracts[entity], verb)),
         NEW start, Kept(contracts, start), start.error = "none"
  PROVE  DeliverTo(contracts, Ran(contracts, start, entity, verb, arg), entity, verb, arg).world
           = Ran(contracts, start, entity, verb, arg).world
<1> DEFINE there == Ran(contracts, start, entity, verb, arg)
           contract == contracts[entity]
           spec == SpecOf(contract, verb)
           effects == spec.effects
           params == contract.params
           all(e) == RustAffected(e, effects, arg, params, Len(effects))
           next == all(start.world[entity])
           why == DeliveryError(contract, there.world[entity].state, verb, arg)
<1> SUFFICES DeliverTo(contracts, there, entity, verb, arg).world = there.world
  OBVIOUS
<1>1. Sound(contract) /\ Whole(contract, start.world[entity]) /\ Len(effects) \in Nat
  BY DEF AllSound, Kept, Sound, SpecSound
<1>2. there = Replaced(start, entity, next) /\ Whole(contract, next)
  <2>1. Len(effects) \in 0 .. Len(effects)
    BY <1>1
  <2> QED BY <2>1, SameEffects DEF Ran
<1>3. all(next) = next
  BY <1>1, VerbRepeats
<1> HIDE DEF next, there
<1>4. /\ there.error = "none" /\ there.world[entity] = next /\ Kept(contracts, there)
      /\ Replaced(there, entity, next) = there
  <2>1. there.error = "none" /\ there.world[entity] = next /\ Kept(contracts, there)
    BY <1>2, ReplacedKept
  <2>2. Replaced(there, entity, there.world[entity]) = there
    BY <2>1, ReplacedKept
  <2> QED BY <2>1, <2>2
<1>5. CASE why # "none"
  <2>1. DeliverTo(contracts, there, entity, verb, arg) = [there EXCEPT !.error = why]
    BY <1>4, <1>5 DEF DeliverTo, Delivered
  <2> HIDE DEF why
  <2>2. [there EXCEPT !.error = why].world = there.world
    BY <1>4 DEF Kept, Outcome
  <2> QED BY <2>1, <2>2
<1>6. CASE why = "none"
  <2>1. DeliverTo(contracts, there, entity, verb, arg) = AfterEffects(there, spec, entity, arg, params)
    BY <1>4, <1>6 DEF DeliverTo, Delivered
  <2>2. Affected(there, effects, entity, arg, params, Len(effects)) = Replaced(there, entity, all(next))
    <3>1. Len(effects) \in 0 .. Len(effects)
      BY <1>1
    <3>2. Affected(there, effects, entity, arg, params, Len(effects))
            = Replaced(there, entity, all(there.world[entity]))
      BY <1>4, <3>1, SameEffects
    <3> QED BY <1>4, <3>2
  <2> HIDE DEF effects, all
  <2>3. AfterEffects(there, spec, entity, arg, params) = there
    BY <1>3, <1>4, <2>2 DEF AfterEffects, effects
  <2> QED BY <2>1, <2>3
<1> QED BY <1>5, <1>6

\* The world when a wire's verb is delivered is one an entry of it may be run in.
LEMMA ActsKept ==
  ASSUME CoveredFiles, TwinInv, phase = "wires", call = NoCall
  PROVE  Kept(Contracts, Now)
<1>1. Running /\ file \in DOMAIN Replays /\ ReplayOK(Replay) /\ Kept(Contracts, Outcome(Base, "none"))
  BY DEF TwinInv, TickInv, Shaped, Running
<1>2. AllSound(Contracts)
  BY <1>1, RunningSound DEF AllSound
<1>3. /\ Len(Replay.events) \in Nat /\ Len(Replay.wires) \in Nat
      /\ \A w \in 1 .. Len(Replay.wires) : Len(Replay.wires[w].then) \in Nat
  BY <1>1, ListLengths
<1>4. /\ WiresOK(Replay.wires, Contracts)
      /\ \A i \in 1 .. Len(Replay.events) : Replay.events[i].entity \in DOMAIN Contracts
  BY <1>1 DEF ReplayOK, EventsOK, Contracts
<1>5. Kept(Contracts, Begun)
  BY <1>1, <1>2, <1>3, <1>4, SameTold DEF Begun, ToldTo
<1>6. \A n \in 0 .. Len(Replay.wires) : Kept(Contracts, CoupledTo(n))
  BY <1>2, <1>3, <1>4, <1>5, SameCoupled DEF CoupledTo
<1>7. /\ Now = Target /\ wire \in 1 .. Len(Replay.wires) + 1 /\ act \in Nat
      /\ act > 0 => wire <= Len(Replay.wires) /\ act <= Len(Replay.wires[wire].then)
  BY DEF TwinInv, TickInv, OnTheWay, AtWire
<1>8. wire - 1 \in 0 .. Len(Replay.wires)
  BY <1>3, <1>7
<1>9. CASE act = 0
  BY <1>6, <1>7, <1>8, <1>9 DEF Target
<1>10. CASE act # 0
  <2>1. Now = ActedTo(wire, act - 1)
    BY <1>7, <1>10 DEF Target
  <2>2. wire \in 1 .. Len(Replay.wires) /\ act - 1 \in 0 .. Len(Replay.wires[wire].then)
    BY <1>3, <1>7, <1>10
  <2>3. \A i \in 1 .. Len(Replay.wires[wire].then) : Replay.wires[wire].then[i].entity \in DOMAIN Contracts
    BY <1>4, <2>2 DEF WiresOK, WireOK, ActOK
  <2>4. Kept(Contracts, ActedTo(wire, act - 1))
    BY <1>2, <1>3, <1>6, <1>8, <2>2, <2>3, SameActed DEF ActedTo
  <2> QED BY <2>1, <2>4
<1> QED BY <1>9, <1>10

\* A wire's call in progress: the effects of a level-safe verb, run so far from
\* a world the tick was in.
CallKept ==
  phase = "wires" /\ call # NoCall =>
    LET contract == Contracts[call.entity]
        effects  == SpecOf(contract, call.verb).effects
    IN /\ LevelSafe(SpecOf(contract, call.verb))
       /\ \E start :
            /\ Kept(Contracts, start) /\ start.error = "none"
            /\ Affected(start, effects, call.entity, call.arg, contract.params, call.effect - 1) = Now

LEMMA ActKeepsCall ==
  ASSUME CoveredFiles, TwinInv, DeliverAct
  PROVE  CallKept'
<1> SUFFICES ASSUME phase' = "wires", call' # NoCall
             PROVE  CallKept'
  BY DEF CallKept
<1> DEFINE then == Replay.wires[wire].then
           a == then[act]
           contract == Contracts[a.entity]
           effects == SpecOf(contract, a.verb).effects
<1>1. /\ phase = "wires" /\ call = NoCall /\ UNCHANGED file /\ act > 0
      /\ wire <= Len(Replay.wires) /\ Deliver(a.entity, a.verb, a.arg)
  BY DEF DeliverAct
<1>2. Kept(Contracts, Now)
  BY <1>1, ActsKept
<1>3. /\ file \in DOMAIN Replays /\ ReplayOK(Replay)
      /\ wire \in 1 .. Len(Replay.wires) + 1 /\ act \in Nat /\ act <= Len(then)
  BY <1>1 DEF TwinInv, TickInv, Shaped, AtWire, Running
<1>4. wire \in 1 .. Len(Replay.wires) /\ act \in 1 .. Len(then)
  BY <1>1, <1>3, ListLengths
<1>5. ActOK(a, Contracts)
  BY <1>3, <1>4 DEF ReplayOK, WiresOK, WireOK, Contracts
<1> HIDE DEF a
<1>6. /\ a.entity \in DOMAIN Contracts /\ a.verb \in DeclaredVerbs(contract)
      /\ LevelSafe(SpecOf(contract, a.verb))
  BY <1>5 DEF ActOK, DeclaredVerbs, SpecOf, LevelSafe
<1>7. /\ world' = world
      /\ call' = [entity |-> a.entity, verb |-> a.verb, arg |-> a.arg, effect |-> 1]
  BY <1>1 DEF Deliver, Fail
<1>8. /\ call'.entity = a.entity /\ call'.verb = a.verb /\ call'.arg = a.arg
      /\ call'.effect - 1 = 0
  BY <1>7
<1>9. Len(effects) \in Nat
  BY <1>3, <1>6, EffectLengths
<1>10. Affected(Now, effects, a.entity, a.arg, contract.params, 0) = Now
  <2> HIDE DEF effects
  <2> QED BY <1>9, AffectedPasses
<1>11. Now.error = "none" /\ Now' = Now /\ Contracts' = Contracts
  BY <1>1, <1>7 DEF Now, Outcome, Contracts, Replay
<1> QED BY <1>2, <1>6, <1>8, <1>10, <1>11 DEF CallKept

LEMMA EffectKeepsCall ==
  ASSUME CoveredFiles, TwinInv, CallKept, ApplyNextEffect, phase' = "wires"
  PROVE  /\ CallKept'
         /\ call' = NoCall /\ ~Conditional(SpecOf(Contracts[call.entity], call.verb))
              => DeliveryRepeats(call)
<1> DEFINE contract == Contracts[call.entity]
           spec == SpecOf(contract, call.verb)
           effects == spec.effects
           effect == effects[call.effect]
           entry == world[call.entity]
           at(start, n) == Affected(start, effects, call.entity, call.arg, contract.params, n)
<1>1. /\ phase = "wires" /\ call # NoCall /\ file \in DOMAIN Replays /\ ReplayOK(Replay)
      /\ UNCHANGED file /\ LeadsTo(Contracts, call, Now, Target)
      /\ ~EffectRaises(effect, call.arg, entry.state, contract.params)
  BY DEF TwinInv, TickInv, Shaped, Running, OnTheWay, ApplyNextEffect, Fail
<1>2. Len(effects) \in Nat /\ call.effect \in 1 .. Len(effects)
  BY <1>1 DEF LeadsTo
<1>3. PICK start : /\ Kept(Contracts, start) /\ start.error = "none"
                   /\ at(start, call.effect - 1) = Now
  BY <1>1 DEF CallKept
<1>4. LevelSafe(spec)
  BY <1>1 DEF CallKept
<1>5. /\ world' = [world EXCEPT ![call.entity] =
                     ApplyEffect(effect, call.arg, entry, contract.params)]
      /\ call' = IF call.effect < Len(effects) THEN [call EXCEPT !.effect = @ + 1] ELSE NoCall
  BY <1>1 DEF ApplyNextEffect, Fail
<1>6. Now' = at(start, call.effect) /\ Now' = Outcome(world', "none")
  <2>1. at(start, call.effect) = AfterEffect(Now, effect, call.entity, call.arg, contract.params)
    <3> HIDE DEF effects
    <3> QED BY <1>2, <1>3, AffectedPasses
  <2>2. Now.error = "none" /\ Now.world = world
    BY DEF Now, Outcome
  <2>3. AfterEffect(Now, effect, call.entity, call.arg, contract.params)
          = [Now EXCEPT !.world[call.entity] =
               ApplyEffect(effect, call.arg, @, contract.params)]
    BY <1>1, <2>2 DEF AfterEffect
  <2>4. [Now EXCEPT !.world[call.entity] = ApplyEffect(effect, call.arg, @, contract.params)]
          = Outcome([world EXCEPT ![call.entity] =
                       ApplyEffect(effect, call.arg, entry, contract.params)], "none")
    BY DEF Now, Outcome
  <2> HIDE DEF at, effect, effects, spec, contract, entry
  <2> QED BY <1>5, <2>1, <2>3, <2>4 DEF Now, Outcome
<1>7. Contracts' = Contracts
  BY <1>1 DEF Contracts, Replay
<1>8. CASE call.effect < Len(effects)
  <2>1. /\ call' # NoCall /\ call'.entity = call.entity /\ call'.verb = call.verb
        /\ call'.arg = call.arg /\ call'.effect - 1 = call.effect
    <3>1. call' = [call EXCEPT !.effect = @ + 1]
      BY <1>5, <1>8
    <3>2. call = [entity |-> call.entity, verb |-> call.verb, arg |-> call.arg, effect |-> call.effect]
      BY <1>1 DEF LeadsTo
    <3>3. call' = [entity |-> call.entity, verb |-> call.verb, arg |-> call.arg, effect |-> call.effect + 1]
      BY <3>1, <3>2
    <3>4. call.effect + 1 # 0 /\ (call.effect + 1) - 1 = call.effect
      BY <1>2
    <3> QED BY <3>3, <3>4 DEF NoCall
  <2>2. at(start, call'.effect - 1) = Now'
    BY <1>6, <2>1
  <2> QED BY <1>3, <1>4, <1>7, <2>1, <2>2 DEF CallKept
<1>9. CASE ~(call.effect < Len(effects))
  <2>1. call' = NoCall /\ call.effect = Len(effects)
    BY <1>2, <1>5, <1>9
  <2>2. CallKept'
    BY <2>1 DEF CallKept
  <2>3. ASSUME ~Conditional(spec) PROVE DeliveryRepeats(call)
    <3>1. AllSound(Contracts)
      BY <1>1, RunningSound DEF AllSound
    <3>2. CallTyped(call)
      BY <1>1 DEF TwinInv, IInv, TypeOK
    <3>3. /\ call.entity \in DOMAIN Contracts /\ call.verb \in DeclaredVerbs(contract)
          /\ spec.arg = "count" => IsInt(call.arg)
      BY <3>2 DEF CallTyped
    <3>4. Outcome(world', "none") = Ran(Contracts, start, call.entity, call.verb, call.arg)
      BY <1>6, <2>1 DEF Ran
    <3> DEFINE there == Ran(Contracts, start, call.entity, call.verb, call.arg)
    <3>5. DeliverTo(Contracts, there, call.entity, call.verb, call.arg).world = there.world
      BY <1>3, <1>4, <2>3, <3>1, <3>3, DeliveryAgain
    <3>6. Outcome(world', "none").world = world'
      BY DEF Outcome
    <3> QED BY <3>4, <3>5, <3>6 DEF DeliveryRepeats
  <2> QED BY <2>2, <2>3
<1> QED BY <1>8, <1>9

Repeats ==
  WireDelivered /\ ~Conditional(SpecOf(Contracts[call.entity], call.verb)) => DeliveryRepeats(call)

LEMMA NextRepeats ==
  ASSUME CoveredFiles, TwinInv, CallKept, [Next]_vars
  PROVE  TwinInv' /\ CallKept' /\ [Repeats]_vars
<1>1. TwinInv'
  BY TwinNext
<1>2. CASE ApplyNextEffect
  <2>1. CASE phase' = "wires"
    BY <1>1, <1>2, <2>1, EffectKeepsCall DEF Repeats, WireDelivered
  <2>2. CASE phase' # "wires"
    BY <1>1, <2>2 DEF Repeats, WireDelivered, CallKept
  <2> QED BY <2>1, <2>2
<1>3. CASE DeliverAct
  <2>1. CallKept' /\ call = NoCall
    BY <1>3, ActKeepsCall DEF DeliverAct
  <2> QED BY <1>1, <2>1 DEF Repeats, WireDelivered
<1>4. CASE EventsDone \/ TestWire \/ WiresDone
  BY <1>1, <1>4 DEF EventsDone, TestWire, WiresDone, Repeats, WireDelivered, CallKept
<1>5. CASE Load \/ DeliverEvent \/ EndTick \/ Report \/ \E entity \in DOMAIN world : StepIntegrator(entity)
  <2>1. phase # "wires" /\ phase' # "wires"
    BY <1>5 DEF Load, DeliverEvent, Deliver, EndTick, Report, StepIntegrator, Fail
  <2> QED BY <1>1, <2>1 DEF Repeats, WireDelivered, CallKept
<1>6. CASE UNCHANGED vars
  <2>1. UNCHANGED <<file, phase, world, call>>
    BY <1>6 DEF vars
  <2>2. Contracts' = Contracts /\ Now' = Now
    BY <2>1 DEF Contracts, Replay, Now
  <2> QED BY <1>1, <1>6, <2>1, <2>2 DEF CallKept
<1> QED BY <1>2, <1>3, <1>4, <1>5, <1>6 DEF Next

\* For every replay, number of wires, verbs and effects: a verb that a wire
\* delivers, and that is neither conditional on the state nor copies a variable,
\* leaves a world that the same verb delivered again leaves alone.
THEOREM HeldVerbsHold == ASSUME CoveredFiles PROVE Spec => HeldVerbsRepeat
<1>1. Init => TwinInv /\ CallKept
  BY InitInv, InitImplements DEF TwinInv, Init, Running, CallKept
<1>2. TwinInv /\ CallKept /\ [Next]_vars => TwinInv' /\ CallKept' /\ [Repeats]_vars
  BY NextRepeats
<1>3. Spec => [][Repeats]_vars
  BY <1>1, <1>2, PTL DEF Spec
<1> QED BY <1>3 DEF HeldVerbsRepeat, Repeats
-----------------------------------------------------------------------------
(* The loaders.  Two lists of checks are twins of each other over a file    *)
(* when they refuse it alike; lists made of twins, one after the other, are *)
(* twins.                                                                   *)

Wrong(row, faults) == row.at \in DOMAIN faults /\ faults[row.at] \notin row.takes
Trouble(rows, faults) == \E i \in DOMAIN rows : Wrong(rows[i], faults)

\* No check accepts.
Refusals(checks) == \A row \in checks : row.code # NotRefused
Listed(rows) == \E checks : rows \in Seq(checks) /\ Refusals(checks)

\* All of them are of the file, or of one entity.
Bare(rows) ==
  \A i \in DOMAIN rows :
    \E field, takes, code : rows[i] = [at |-> <<0, field>>, takes |-> takes, code |-> code]

\* The first refusal is that of a row with nothing wrong before it.
LEMMA FirstFacts ==
  ASSUME NEW rows, Listed(rows), NEW faults
  PROVE  /\ ~Trouble(rows, faults) => FirstRefusal(rows, faults) = NotRefused
         /\ Trouble(rows, faults) =>
              \E i \in DOMAIN rows :
                /\ Wrong(rows[i], faults) /\ \A j \in DOMAIN rows : j < i => ~Wrong(rows[j], faults)
                /\ FirstRefusal(rows, faults) = rows[i].code
<1> DEFINE bad == {i \in DOMAIN rows : rows[i].at \in DOMAIN faults
                                         /\ faults[rows[i].at] \notin rows[i].takes}
           least == CHOOSE i \in bad : \A j \in bad : i <= j
<1>1. bad \subseteq Nat /\ (Trouble(rows, faults) <=> bad # {})
  BY DEF Trouble, Wrong, Listed
<1>2. FirstRefusal(rows, faults) = IF bad = {} THEN NotRefused ELSE rows[least].code
  BY DEF FirstRefusal
<1>3. ASSUME bad # {} PROVE least \in bad /\ \A j \in bad : least <= j
  <2>1. \E i \in bad : \A j \in bad : i <= j
    <3> HIDE DEF bad
    <3> QED BY <1>1, <1>3, LeastOf
  <2> QED BY <2>1
<1>4. ASSUME bad # {}
      PROVE  /\ least \in DOMAIN rows /\ Wrong(rows[least], faults)
             /\ \A j \in DOMAIN rows : j < least => ~Wrong(rows[j], faults)
  <2>1. least \in DOMAIN rows /\ Wrong(rows[least], faults)
    BY <1>3, <1>4 DEF Wrong
  <2>2. ASSUME NEW j \in DOMAIN rows, j < least PROVE ~Wrong(rows[j], faults)
    <3>1. j \notin bad
      <4> HIDE DEF bad
      <4>1. \A k \in bad : k \in Nat
        BY <1>1
      <4> QED BY <1>3, <1>4, <2>2, <4>1
    <3> QED BY <3>1 DEF Wrong
  <2> QED BY <2>1, <2>2
<1> HIDE DEF bad, least
<1> QED BY <1>1, <1>2, <1>4

LEMMA RefusedFor ==
  ASSUME NEW rows, Listed(rows), NEW faults
  PROVE  Trouble(rows, faults) <=> FirstRefusal(rows, faults) # NotRefused
<1>1. \A i \in DOMAIN rows : rows[i].code # NotRefused
  BY DEF Listed, Refusals
<1> QED BY <1>1, FirstFacts

\* Checks one after the other.
LEMMA Joined ==
  ASSUME NEW a, NEW b, Listed(a), Listed(b), NEW faults
  PROVE  /\ Listed(a \o b)
         /\ Bare(a) /\ Bare(b) => Bare(a \o b)
         /\ Trouble(a \o b, faults) <=> Trouble(a, faults) \/ Trouble(b, faults)
         /\ FirstRefusal(a \o b, faults)
              = IF Trouble(a, faults) THEN FirstRefusal(a, faults) ELSE FirstRefusal(b, faults)
<1> DEFINE ab == a \o b
<1>0. PICK A, B : a \in Seq(A) /\ b \in Seq(B) /\ Refusals(A) /\ Refusals(B)
  BY DEF Listed
<1>1. /\ ab \in Seq(A \cup B) /\ DOMAIN ab = 1 .. Len(a) + Len(b)
      /\ \A i \in DOMAIN a : i \in DOMAIN ab /\ ab[i] = a[i]
      /\ \A i \in DOMAIN b : i + Len(a) \in DOMAIN ab /\ ab[i + Len(a)] = b[i]
      /\ \A i \in DOMAIN ab : i \in DOMAIN a \/ (i - Len(a) \in DOMAIN b /\ ab[i] = b[i - Len(a)])
      /\ DOMAIN a = 1 .. Len(a) /\ DOMAIN b = 1 .. Len(b) /\ Len(a) \in Nat /\ Len(b) \in Nat
  BY <1>0
<1>3. Listed(ab)
  BY <1>0, <1>1 DEF Listed, Refusals
<1>7. ASSUME Bare(a), Bare(b) PROVE Bare(ab)
  <2> HIDE DEF ab
  <2>1. ASSUME NEW i \in DOMAIN ab
        PROVE  \E field, takes, code : ab[i] = [at |-> <<0, field>>, takes |-> takes, code |-> code]
    <3>1. i \in DOMAIN a => ab[i] = a[i]
      BY <1>1
    <3>2. i \in DOMAIN a \/ (i - Len(a) \in DOMAIN b /\ ab[i] = b[i - Len(a)])
      BY <1>1
    <3> QED BY <1>7, <3>1, <3>2 DEF Bare
  <2> QED BY <2>1 DEF Bare
<1> HIDE DEF ab
<1>2. Trouble(ab, faults) <=> Trouble(a, faults) \/ Trouble(b, faults)
  <2>1. ASSUME Trouble(a, faults) PROVE Trouble(ab, faults)
    BY <1>1, <2>1 DEF Trouble
  <2>2. ASSUME Trouble(b, faults) PROVE Trouble(ab, faults)
    BY <1>1, <2>2 DEF Trouble
  <2>3. ASSUME Trouble(ab, faults) PROVE Trouble(a, faults) \/ Trouble(b, faults)
    BY <1>1, <2>3 DEF Trouble
  <2> QED BY <2>1, <2>2, <2>3
<1>4. CASE Trouble(a, faults)
  <2>1. PICK i \in DOMAIN a : /\ Wrong(a[i], faults) /\ \A j \in DOMAIN a : j < i => ~Wrong(a[j], faults)
                              /\ FirstRefusal(a, faults) = a[i].code
    BY <1>4, FirstFacts
  <2>2. PICK k \in DOMAIN ab : /\ Wrong(ab[k], faults) /\ \A j \in DOMAIN ab : j < k => ~Wrong(ab[j], faults)
                               /\ FirstRefusal(ab, faults) = ab[k].code
    BY <1>1, <1>2, <1>3, <1>7, <1>4, FirstFacts
  <2>3. ~(i < k)
    BY <1>1, <2>1, <2>2
  <2>4. k \in DOMAIN a /\ ~(k < i)
    BY <1>1, <2>1, <2>2, <2>3
  <2>5. k = i
    BY <1>1, <2>3, <2>4
  <2> QED BY <1>1, <1>2, <1>3, <1>7, <1>4, <2>1, <2>2, <2>5 DEF ab
<1>5. CASE ~Trouble(a, faults) /\ Trouble(b, faults)
  <2>0. Trouble(ab, faults)
    BY <1>2, <1>5
  <2>1. PICK i \in DOMAIN b : /\ Wrong(b[i], faults) /\ \A j \in DOMAIN b : j < i => ~Wrong(b[j], faults)
                              /\ FirstRefusal(b, faults) = b[i].code
    BY <1>5, FirstFacts
  <2>2. PICK k \in DOMAIN ab : /\ Wrong(ab[k], faults) /\ \A j \in DOMAIN ab : j < k => ~Wrong(ab[j], faults)
                               /\ FirstRefusal(ab, faults) = ab[k].code
    BY <2>0, <1>3, FirstFacts
  <2>3. k \notin DOMAIN a
    BY <1>1, <1>5, <2>2 DEF Trouble
  <2>4. k - Len(a) \in DOMAIN b /\ ab[k] = b[k - Len(a)]
    BY <1>1, <2>3
  <2>5. ~(i + Len(a) < k)
    BY <1>1, <2>1, <2>2
  <2>6. ~(k - Len(a) < i)
    BY <2>1, <2>2, <2>4
  <2>7. k - Len(a) = i
    BY <1>1, <2>4, <2>5, <2>6
  <2> QED BY <1>1, <1>2, <1>3, <1>7, <1>5, <2>1, <2>2, <2>4, <2>7 DEF ab
<1>6. CASE ~Trouble(a, faults) /\ ~Trouble(b, faults)
  BY <1>1, <1>2, <1>3, <1>7, <1>6, FirstFacts DEF ab
<1> QED BY <1>4, <1>5, <1>6

Agree(a, b, faults) ==
  Listed(a) /\ Listed(b) /\ FirstRefusal(a, faults) = FirstRefusal(b, faults)

\* Lists that are bare, too.
Twins(a, b, faults) == Agree(a, b, faults) /\ Bare(a) /\ Bare(b)
Quiet(a, faults) == Listed(a) /\ Bare(a) /\ ~Trouble(a, faults)

LEMMA AgreeJoin ==
  ASSUME NEW faults, NEW a, NEW b, NEW c, NEW d,
         Agree(a, b, faults), Agree(c, d, faults)
  PROVE  Agree(a \o c, b \o d, faults)
<1>1. /\ Listed(a) /\ Listed(b) /\ Listed(c) /\ Listed(d)
      /\ FirstRefusal(a, faults) = FirstRefusal(b, faults)
      /\ FirstRefusal(c, faults) = FirstRefusal(d, faults)
  BY DEF Agree
<1>2. Trouble(a, faults) <=> Trouble(b, faults)
  BY <1>1, RefusedFor
<1>3. Listed(a \o c) /\ Listed(b \o d)
  BY <1>1, Joined
<1>4. FirstRefusal(a \o c, faults) = IF Trouble(a, faults) THEN FirstRefusal(a, faults) ELSE FirstRefusal(c, faults)
  BY <1>1, Joined
<1>5. FirstRefusal(b \o d, faults) = IF Trouble(b, faults) THEN FirstRefusal(b, faults) ELSE FirstRefusal(d, faults)
  BY <1>1, Joined
<1> QED BY <1>1, <1>2, <1>3, <1>4, <1>5 DEF Agree

LEMMA TwinsJoin ==
  ASSUME NEW faults, NEW a, NEW b, NEW c, NEW d, Twins(a, b, faults), Twins(c, d, faults)
  PROVE  Twins(a \o c, b \o d, faults)
<1>1. Agree(a \o c, b \o d, faults)
  BY AgreeJoin DEF Twins
<1>2. Bare(a \o c) /\ Bare(b \o d)
  BY Joined DEF Twins, Agree
<1> QED BY <1>1, <1>2 DEF Twins

\* Checks that refuse nothing may stand in one list alone.
LEMMA TwinsSkip ==
  ASSUME NEW faults, NEW a, NEW b, Twins(a, b, faults),
         NEW c, Quiet(c, faults)
  PROVE  Twins(a \o c, b, faults) /\ Twins(c \o a, b, faults) /\ Twins(b, c \o a, faults)
<1>1. /\ Listed(a) /\ Listed(b)
      /\ FirstRefusal(a, faults) = FirstRefusal(b, faults)
  BY DEF Twins, Agree
<1>2. FirstRefusal(c, faults) = NotRefused
  BY FirstFacts DEF Quiet
<1>3. Listed(a \o c) /\ Listed(c \o a) /\ Bare(a \o c) /\ Bare(c \o a)
  BY <1>1, Joined DEF Twins, Quiet
<1>4. FirstRefusal(a \o c, faults) = IF Trouble(a, faults) THEN FirstRefusal(a, faults) ELSE FirstRefusal(c, faults)
  BY <1>1, Joined DEF Quiet
<1>5. FirstRefusal(c \o a, faults) = FirstRefusal(a, faults)
  BY <1>1, Joined DEF Quiet
<1>6. ~Trouble(a, faults) => FirstRefusal(a, faults) = NotRefused
  BY <1>1, FirstFacts
<1> QED BY <1>1, <1>2, <1>3, <1>4, <1>5, <1>6 DEF Twins, Agree

\* Row by row.
LEMMA RowsTwin ==
  ASSUME NEW a, NEW b, Listed(a), Listed(b), NEW f, NEW g, DOMAIN a = DOMAIN b,
         \A i \in DOMAIN a : a[i].code = b[i].code /\ (Wrong(a[i], f) <=> Wrong(b[i], g))
  PROVE  FirstRefusal(a, f) = FirstRefusal(b, g)
<1>1. Trouble(a, f) <=> Trouble(b, g)
  BY DEF Trouble
<1>2. CASE ~Trouble(a, f)
  BY <1>1, <1>2, FirstFacts
<1>3. CASE Trouble(a, f)
  <2>1. PICK i \in DOMAIN a : /\ Wrong(a[i], f) /\ \A j \in DOMAIN a : j < i => ~Wrong(a[j], f)
                              /\ FirstRefusal(a, f) = a[i].code
    BY <1>3, FirstFacts
  <2>2. PICK k \in DOMAIN b : /\ Wrong(b[k], g) /\ \A j \in DOMAIN b : j < k => ~Wrong(b[j], g)
                              /\ FirstRefusal(b, g) = b[k].code
    BY <1>1, <1>3, FirstFacts
  <2>3. i \in Nat /\ k \in Nat
    BY DEF Listed
  <2>4. ~(i < k) /\ ~(k < i)
    BY <2>1, <2>2
  <2> QED BY <2>1, <2>2, <2>3, <2>4
<1> QED BY <1>2, <1>3

IsList(fields) == \E S : fields \in Seq(S)

LEMMA Lists ==
  ASSUME NEW a, NEW b, NEW c, NEW d
  PROVE  IsList(<<a>>) /\ IsList(<<a, b>>) /\ IsList(<<a, b, c>>) /\ IsList(<<a, b, c, d>>)
<1>1. /\ <<a>> \in Seq({a}) /\ <<a, b>> \in Seq({a, b}) /\ <<a, b, c>> \in Seq({a, b, c})
      /\ <<a, b, c, d>> \in Seq({a, b, c, d})
  OBVIOUS
<1> QED BY <1>1 DEF IsList

LEMMA AllFacts ==
  ASSUME NEW fields, IsList(fields), NEW takes, NEW code, code # NotRefused
  PROVE  /\ Listed(All(fields, takes, code)) /\ Bare(All(fields, takes, code))
         /\ DOMAIN All(fields, takes, code) = DOMAIN fields
         /\ \A i \in DOMAIN fields : All(fields, takes, code)[i] = Row(fields[i], takes, code)
<1>0. PICK S : fields \in Seq(S)
  BY DEF IsList
<1> DEFINE rows == All(fields, takes, code)
           checks == {Row(field, takes, code) : field \in S}
<1>1. rows = [i \in 1 .. Len(fields) |-> Row(fields[i], takes, code)] /\ Len(fields) \in Nat
  BY <1>0 DEF All
<1>2. rows \in Seq(checks)
  BY <1>0, <1>1
<1>3. Refusals(checks)
  BY DEF Refusals, Row
<1>4. Listed(rows)
  <2> HIDE DEF rows, checks
  <2> QED BY <1>2, <1>3 DEF Listed
<1>5. Bare(rows)
  BY DEF Bare, Row, All
<1> QED BY <1>4, <1>5 DEF All

\* Two lists of checks of the same fields that differ in nothing that is there.
LEMMA AllTwins ==
  ASSUME NEW fields, IsList(fields), NEW takes, NEW gives, NEW code, code # NotRefused,
         NEW faults,
         \A i \in DOMAIN fields : <<0, fields[i]>> \in DOMAIN faults =>
           (faults[<<0, fields[i]>>] \in takes <=> faults[<<0, fields[i]>>] \in gives)
  PROVE  Twins(All(fields, takes, code), All(fields, gives, code), faults)
<1> DEFINE a == All(fields, takes, code)
           b == All(fields, gives, code)
<1>1. /\ Listed(a) /\ Bare(a) /\ DOMAIN a = DOMAIN fields
      /\ \A i \in DOMAIN fields : a[i] = Row(fields[i], takes, code)
  BY AllFacts
<1>2. /\ Listed(b) /\ Bare(b) /\ DOMAIN b = DOMAIN fields
      /\ \A i \in DOMAIN fields : b[i] = Row(fields[i], gives, code)
  BY AllFacts
<1> HIDE DEF a, b
<1>3. ASSUME NEW i \in DOMAIN a PROVE a[i].code = b[i].code /\ (Wrong(a[i], faults) <=> Wrong(b[i], faults))
  <2>1. a[i] = Row(fields[i], takes, code) /\ b[i] = Row(fields[i], gives, code) 
    BY <1>1, <1>2
  <2>2. a[i].code = code /\ a[i].at = <<0, fields[i]>> /\ a[i].takes = takes
    BY <2>1 DEF Row
  <2>3. b[i].code = code /\ b[i].at = <<0, fields[i]>> /\ b[i].takes = gives
    BY <2>1 DEF Row
  <2>4. <<0, fields[i]>> \in DOMAIN faults =>
          (faults[<<0, fields[i]>>] \in takes <=> faults[<<0, fields[i]>>] \in gives)
    BY <1>1
  <2> QED BY <2>2, <2>3, <2>4 DEF Wrong
<1>4. FirstRefusal(a, faults) = FirstRefusal(b, faults)
  <2>1. DOMAIN a = DOMAIN b
    BY <1>1, <1>2
  <2> QED BY <1>1, <1>2, <1>3, <2>1, RowsTwin
<1> QED BY <1>1, <1>2, <1>4 DEF Twins, Agree, a, b

LEMMA OneTwin ==
  ASSUME NEW field, NEW takes, NEW gives, NEW code, code # NotRefused, NEW faults,
         <<0, field>> \in DOMAIN faults => (faults[<<0, field>>] \in takes <=> faults[<<0, field>>] \in gives)
  PROVE  Twins(All(<<field>>, takes, code), All(<<field>>, gives, code), faults)
<1> DEFINE fields == <<field>>
<1>0. IsList(fields)
  BY Lists
<1>1. \A i \in DOMAIN fields : fields[i] = field
  OBVIOUS
<1> HIDE DEF fields
<1>2. \A i \in DOMAIN fields : <<0, fields[i]>> \in DOMAIN faults =>
        (faults[<<0, fields[i]>>] \in takes <=> faults[<<0, fields[i]>>] \in gives)
  BY <1>1
<1>3. Twins(All(fields, takes, code), All(fields, gives, code), faults)
  BY <1>0, <1>2, AllTwins
<1> QED BY <1>3 DEF fields

LEMMA AllSame ==
  ASSUME NEW fields, IsList(fields), NEW takes, NEW code, code # NotRefused, NEW faults
  PROVE  Twins(All(fields, takes, code), All(fields, takes, code), faults)
  BY AllTwins

LEMMA AllQuiet ==
  ASSUME NEW fields, IsList(fields), NEW takes, NEW code, code # NotRefused, NEW faults,
         \A i \in DOMAIN fields : <<0, fields[i]>> \in DOMAIN faults => faults[<<0, fields[i]>>] \in takes
  PROVE  Quiet(All(fields, takes, code), faults)
<1> DEFINE a == All(fields, takes, code)
<1>1. /\ Listed(a) /\ Bare(a) /\ DOMAIN a = DOMAIN fields
      /\ \A i \in DOMAIN fields : a[i] = Row(fields[i], takes, code)
  BY AllFacts
<1> HIDE DEF a
<1>2. ASSUME NEW i \in DOMAIN a PROVE ~Wrong(a[i], faults)
  <2>1. i \in DOMAIN fields /\ a[i] = Row(fields[i], takes, code)
    <3>1. i \in DOMAIN fields
      BY <1>1
    <3> QED BY <1>1, <3>1
  <2>2. a[i].at = <<0, fields[i]>> /\ a[i].takes = takes
    BY <2>1 DEF Row
  <2> QED BY <1>1, <2>2 DEF Wrong
<1> QED BY <1>1, <1>2 DEF Trouble, Quiet, a

LEMMA OneQuiet ==
  ASSUME NEW field, NEW takes, NEW code, code # NotRefused, NEW faults,
         <<0, field>> \in DOMAIN faults => faults[<<0, field>>] \in takes
  PROVE  Quiet(All(<<field>>, takes, code), faults)
<1> DEFINE fields == <<field>>
<1>0. IsList(fields)
  BY Lists
<1>1. \A i \in DOMAIN fields : fields[i] = field
  OBVIOUS
<1> HIDE DEF fields
<1>2. \A i \in DOMAIN fields : <<0, fields[i]>> \in DOMAIN faults => faults[<<0, fields[i]>>] \in takes
  BY <1>1
<1>3. Quiet(All(fields, takes, code), faults)
  BY <1>0, <1>2, AllQuiet
<1> QED BY <1>3 DEF fields

\* Faults at fields of the file, or of one entity of it, that are no gaps.
Fault(field, faults) == faults[<<0, field>>]
Plain(faults) ==
  \A field : <<0, field>> \in DOMAIN faults =>
    /\ Fault(field, faults) \in JsonKinds \cup {"other hash", "letters"}
    /\ Possible(field, Fault(field, faults)) /\ ~Gap(field, Fault(field, faults))

LEMMA PlainFacts ==
  ASSUME NEW faults, Plain(faults), NEW field, <<0, field>> \in DOMAIN faults
  PROVE  LET kind == Fault(field, faults)
         IN /\ field # "contract_sha256" => kind \in JsonKinds
            /\ field \in IntegerFields \cup {"extra"} => kind # "-0"
            /\ field \in IdentifierFields => kind # "line"
            /\ field \in {"seed", "arg", "extra"} => kind # "wide"
            /\ field \in {"semantics", "guards", "when"} => kind # "null"
            /\ field = "storage" => kind \notin {"list", "object"}
            /\ field = "initial of" => kind \in {"absent", "object"}
            /\ field = "contract_sha256" => kind # "letters"
            /\ field = "extra" => kind # "float"
<1> DEFINE kind == Fault(field, faults)
<1>1. kind \in JsonKinds \cup {"other hash", "letters"} /\ Possible(field, kind) /\ ~Gap(field, kind)
  BY DEF Plain
<1> HIDE DEF kind
<1>2. field # "contract_sha256" => kind \in JsonKinds
  BY <1>1 DEF Possible
<1> QED BY <1>1, <1>2 DEF Gap, kind

\* Where an integer is due, and where an identifier is.
LEMMA IntegerTwins ==
  ASSUME NEW faults, Plain(faults), NEW a \in IntegerFields,
         NEW code, code # NotRefused
  PROVE  Twins(All(<<a>>, PyI64, code), All(<<a>>, RustI64, code), faults)
<1> DEFINE fields == <<a>>
           takes  == PyI64
           gives  == RustI64
<1>1. IsList(fields)
  BY Lists
<1>2. \A i \in DOMAIN fields : fields[i] \in IntegerFields
  OBVIOUS
<1> HIDE DEF fields
<1>3. ASSUME NEW i \in DOMAIN fields, <<0, fields[i]>> \in DOMAIN faults
      PROVE  faults[<<0, fields[i]>>] \in takes <=> faults[<<0, fields[i]>>] \in gives
  <2>1. faults[<<0, fields[i]>>] # "-0"
    BY <1>2, <1>3, PlainFacts DEF Fault
  <2> QED BY <2>1 DEF PyI64, RustI64
<1> HIDE DEF takes, gives
<1>4. Twins(All(fields, takes, code), All(fields, gives, code), faults)
  BY <1>1, <1>3, AllTwins
<1> QED BY <1>4 DEF fields, takes, gives

LEMMA TwoIntegers ==
  ASSUME NEW faults, Plain(faults), NEW a \in IntegerFields, NEW b \in IntegerFields,
         NEW code, code # NotRefused
  PROVE  Twins(All(<<a, b>>, PyI64, code), All(<<a, b>>, RustI64, code), faults)
<1> DEFINE fields == <<a, b>>
           takes  == PyI64
           gives  == RustI64
<1>1. IsList(fields)
  BY Lists
<1>2. \A i \in DOMAIN fields : fields[i] \in IntegerFields
  OBVIOUS
<1> HIDE DEF fields
<1>3. ASSUME NEW i \in DOMAIN fields, <<0, fields[i]>> \in DOMAIN faults
      PROVE  faults[<<0, fields[i]>>] \in takes <=> faults[<<0, fields[i]>>] \in gives
  <2>1. faults[<<0, fields[i]>>] # "-0"
    BY <1>2, <1>3, PlainFacts DEF Fault
  <2> QED BY <2>1 DEF PyI64, RustI64
<1> HIDE DEF takes, gives
<1>4. Twins(All(fields, takes, code), All(fields, gives, code), faults)
  BY <1>1, <1>3, AllTwins
<1> QED BY <1>4 DEF fields, takes, gives

LEMMA OptionalTwins ==
  ASSUME NEW faults, Plain(faults), NEW a \in IntegerFields,
         NEW code, code # NotRefused
  PROVE  Twins(All(<<a>>, {"absent"} \cup PyI64, code), All(<<a>>, {"absent"} \cup RustI64, code), faults)
<1> DEFINE fields == <<a>>
           takes  == {"absent"} \cup PyI64
           gives  == {"absent"} \cup RustI64
<1>1. IsList(fields)
  BY Lists
<1>2. \A i \in DOMAIN fields : fields[i] \in IntegerFields
  OBVIOUS
<1> HIDE DEF fields
<1>3. ASSUME NEW i \in DOMAIN fields, <<0, fields[i]>> \in DOMAIN faults
      PROVE  faults[<<0, fields[i]>>] \in takes <=> faults[<<0, fields[i]>>] \in gives
  <2>1. faults[<<0, fields[i]>>] # "-0"
    BY <1>2, <1>3, PlainFacts DEF Fault
  <2> QED BY <2>1 DEF PyI64, RustI64
<1> HIDE DEF takes, gives
<1>4. Twins(All(fields, takes, code), All(fields, gives, code), faults)
  BY <1>1, <1>3, AllTwins
<1> QED BY <1>4 DEF fields, takes, gives

LEMMA ThreeOptionals ==
  ASSUME NEW faults, Plain(faults), NEW a \in IntegerFields, NEW b \in IntegerFields, NEW c \in IntegerFields,
         NEW code, code # NotRefused
  PROVE  Twins(All(<<a, b, c>>, {"absent"} \cup PyI64, code), All(<<a, b, c>>, {"absent"} \cup RustI64, code), faults)
<1> DEFINE fields == <<a, b, c>>
           takes  == {"absent"} \cup PyI64
           gives  == {"absent"} \cup RustI64
<1>1. IsList(fields)
  BY Lists
<1>2. \A i \in DOMAIN fields : fields[i] \in IntegerFields
  OBVIOUS
<1> HIDE DEF fields
<1>3. ASSUME NEW i \in DOMAIN fields, <<0, fields[i]>> \in DOMAIN faults
      PROVE  faults[<<0, fields[i]>>] \in takes <=> faults[<<0, fields[i]>>] \in gives
  <2>1. faults[<<0, fields[i]>>] # "-0"
    BY <1>2, <1>3, PlainFacts DEF Fault
  <2> QED BY <2>1 DEF PyI64, RustI64
<1> HIDE DEF takes, gives
<1>4. Twins(All(fields, takes, code), All(fields, gives, code), faults)
  BY <1>1, <1>3, AllTwins
<1> QED BY <1>4 DEF fields, takes, gives

LEMMA IdentifierTwins ==
  ASSUME NEW faults, Plain(faults), NEW field, field \in IdentifierFields,
         NEW code, code # NotRefused
  PROVE  Twins(All(<<field>>, PyIdentifier, code), All(<<field>>, RustIdentifier, code), faults)
<1>1. <<0, field>> \in DOMAIN faults => faults[<<0, field>>] # "line"
  BY PlainFacts DEF Fault
<1>2. <<0, field>> \in DOMAIN faults =>
        (faults[<<0, field>>] \in PyIdentifier <=> faults[<<0, field>>] \in RustIdentifier)
  BY <1>1 DEF PyIdentifier, RustIdentifier
<1> QED BY <1>2, OneTwin

LEMMA ZeroTwins ==
  ASSUME NEW faults, Plain(faults), NEW field \in IntegerFields, NEW code, code # NotRefused
  PROVE  Twins(All(<<field>>, {"-0"}, code), All(<<field>>, {}, code), faults)
<1>1. <<0, field>> \in DOMAIN faults => faults[<<0, field>>] # "-0"
  BY PlainFacts DEF Fault
<1>2. <<0, field>> \in DOMAIN faults => (faults[<<0, field>>] \in {"-0"} <=> faults[<<0, field>>] \in {})
  BY <1>1
<1> QED BY <1>2, OneTwin

LEMMA GuardTwins ==
  ASSUME NEW faults, Plain(faults), NEW field \in {"guards", "when"}
  PROVE  Twins(PyGuards(<<field>>), RustGuards(<<field>>), faults)
<1>1. <<0, field>> \in DOMAIN faults => faults[<<0, field>>] # "null"
  BY PlainFacts DEF Fault
<1>2. <<0, field>> \in DOMAIN faults =>
        (faults[<<0, field>>] \in {"absent", "null", "list"} <=> faults[<<0, field>>] \in {"absent", "list"})
  BY <1>1
<1> QED BY <1>2, OneTwin DEF PyGuards, RustGuards, NotRefused

\* Two semantics blocks: check_effect of the one and of the other, then all the rest.
LEMMA EffectsTwins ==
  ASSUME NEW faults, Plain(faults)
  PROVE  Twins(PyEffects, RustEffectRows, faults)
<1> DEFINE both_effects == All(<<"effects">>, {"absent", "list"}, "E_SEMANTICS_SHAPE")
           both_op == All(<<"op", "effect keys", "effect var", "clamp keys">>, {}, "E_SEMANTICS_SHAPE")
           py_when == PyGuards(<<"when">>)
           rust_when == RustGuards(<<"when">>)
           py_control == All(<<"control">>, PyIdentifier, "E_SEMANTICS_SHAPE")
           rust_control == All(<<"control">>, RustIdentifier, "E_SEMANTICS_SHAPE")
           py_value == PyValue(<<"value", "control value">>)
           rust_value == RustValue(<<"value", "control value">>)
           both_sign == All(<<"sign">>, {"absent"}, "E_SEMANTICS_SHAPE")
           both_clamp == All(<<"clamp">>, {"absent", "object"}, "E_SEMANTICS_SHAPE")
           py_min == PyOptional(<<"min", "max", "default">>)
           rust_min == RustOptional(<<"min", "max", "default">>)
<1>1. /\ Twins(both_effects, both_effects, faults) /\ Twins(both_op, both_op, faults)
      /\ Twins(both_sign, both_sign, faults) /\ Twins(both_clamp, both_clamp, faults)
  BY AllSame, Lists DEF NotRefused
<1>2. Twins(py_when, rust_when, faults)
  BY GuardTwins
<1>3. Twins(py_control, rust_control, faults)
  BY IdentifierTwins DEF NotRefused, IdentifierFields
<1>4. Twins(py_value, rust_value, faults)
  BY TwoIntegers DEF PyValue, RustValue, NotRefused, IntegerFields
<1>5. Twins(py_min, rust_min, faults)
  <2>1. "min" \in IntegerFields /\ "max" \in IntegerFields /\ "default" \in IntegerFields
    BY DEF IntegerFields
  <2> QED BY <2>1, ThreeOptionals DEF PyOptional, RustOptional, NotRefused
<1>6. /\ PyEffects = both_effects \o both_op \o py_when \o py_control \o py_value \o both_sign \o both_clamp
                     \o py_min
      /\ RustEffectRows = both_effects \o both_op \o rust_when \o rust_control \o rust_value \o both_sign
                          \o both_clamp \o rust_min
  BY DEF PyEffects, RustEffectRows
<1> HIDE DEF both_effects, both_op, py_when, rust_when, py_control, rust_control, py_value,
             rust_value, both_sign, both_clamp, py_min, rust_min
<1> QED BY <1>1, <1>2, <1>3, <1>4, <1>5, <1>6, TwinsJoin

LEMMA SemanticsTwins ==
  ASSUME NEW faults, Plain(faults)
  PROVE  Twins(PySemantics, RustSemantics, faults)
<1> DEFINE py_semantics == All(<<"semantics">>, {"null", "object"}, "E_SEMANTICS_SHAPE")
           rust_semantics == All(<<"semantics">>, {"object"}, "E_SEMANTICS_SHAPE")
           both_block == All(<<"block", "spec", "guard", "integrator">>, {"object"}, "E_SEMANTICS_SHAPE")
           both_integrators == All(<<"integrators", "requires">>, {"absent", "list"}, "E_SEMANTICS_SHAPE")
           both_block_keys == All(<<"block keys", "spec keys", "spec arg", "required">>, {}, "E_SEMANTICS_SHAPE")
           py_guards == PyGuards(<<"guards">>)
           rust_guards == RustGuards(<<"guards">>)
           both_guard_var == All(<<"guard var", "guard test", "guard keys">>, {}, "E_SEMANTICS_SHAPE")
           both_exists == All(<<"exists">>, {"bool"}, "E_SEMANTICS_SHAPE")
           py_gt == PyValue(<<"gt">>)
           rust_gt == RustValue(<<"gt">>)
           both_verb == All(<<"verb", "integrator keys", "integrator var">>, {}, "E_SEMANTICS_SHAPE")
           py_toward == All(<<"toward">>, PyIdentifier, "E_SEMANTICS_SHAPE")
           rust_toward == All(<<"toward">>, RustIdentifier, "E_SEMANTICS_SHAPE")
           py_rate == PyValue(<<"rate">>)
           rust_rate == RustValue(<<"rate">>)
<1>1. /\ Twins(both_block, both_block, faults) /\ Twins(both_integrators, both_integrators, faults)
      /\ Twins(both_block_keys, both_block_keys, faults)
      /\ Twins(both_guard_var, both_guard_var, faults) /\ Twins(both_exists, both_exists, faults)
      /\ Twins(both_verb, both_verb, faults)
  BY AllSame, Lists DEF NotRefused
<1>2. Twins(py_semantics, rust_semantics, faults)
  <2>1. <<0, "semantics">> \in DOMAIN faults => faults[<<0, "semantics">>] # "null"
    BY PlainFacts DEF Fault
  <2> QED BY <2>1, OneTwin DEF NotRefused
<1>3. Twins(py_guards, rust_guards, faults)
  BY GuardTwins
<1>4. Twins(py_gt, rust_gt, faults)
  BY IntegerTwins DEF PyValue, RustValue, NotRefused, IntegerFields
<1>5. Twins(PyEffects, RustEffectRows, faults)
  BY EffectsTwins
<1>6. Twins(py_toward, rust_toward, faults)
  BY IdentifierTwins DEF NotRefused, IdentifierFields
<1>7. Twins(py_rate, rust_rate, faults)
  BY IntegerTwins DEF PyValue, RustValue, NotRefused, IntegerFields
<1>8. /\ PySemantics = py_semantics \o both_block \o both_integrators \o both_block_keys \o py_guards
                       \o both_guard_var \o both_exists \o py_gt \o PyEffects \o both_verb
                       \o py_toward \o py_rate
      /\ RustSemantics = rust_semantics \o both_block \o both_integrators \o both_block_keys \o rust_guards
                         \o both_guard_var \o both_exists \o rust_gt \o RustEffectRows \o both_verb
                         \o rust_toward \o rust_rate
  BY DEF PySemantics, RustSemantics
<1> HIDE DEF py_semantics, rust_semantics, both_block, both_integrators, both_block_keys, py_guards,
             rust_guards, both_guard_var, both_exists, py_gt, rust_gt, both_verb, py_toward,
             rust_toward, py_rate, rust_rate
<1> QED BY <1>1, <1>2, <1>3, <1>4, <1>5, <1>6, <1>7, <1>8, TwinsJoin

\* A contract: only the storage, as looked up in a dictionary, has no check in the other kernel.
LEMMA ContractTwins ==
  ASSUME NEW faults, Plain(faults)
  PROVE  Twins(PyContract, RustContract, faults)
<1> DEFINE both_sim_contract == All(<<"sim_contract">>, {}, "E_CONTRACT_VERSION")
           both_state == All(<<"state", "variable">>, {"object"}, "E_CONTRACT_SHAPE")
           py_storage == All(<<"storage">>, JsonKinds \ {"list", "object"}, Raises)
           both_storage == All(<<"storage">>, {}, "E_CONTRACT_SHAPE")
           both_affordances == All(<<"affordances">>, {"list"}, "E_CONTRACT_SHAPE")
           py_verb == All(<<"verb">>, PyIdentifier, "E_CONTRACT_SHAPE")
           rust_verb == All(<<"verb">>, RustIdentifier, "E_CONTRACT_SHAPE")
           both_parameters == All(<<"parameters">>, {"object"}, "E_CONTRACT_SHAPE")
           py_parameter == All(<<"parameter">>, {"absent"} \cup PyI64, "E_CONTRACT_SHAPE")
           rust_parameter == All(<<"parameter">>, {"absent"} \cup RustI64, "E_CONTRACT_SHAPE")
           both_navigation == All(<<"navigation">>, {"absent", "object"}, "E_CONTRACT_SHAPE")
           both_never_blocks == All(<<"never_blocks">>, {"absent", "bool"}, "E_CONTRACT_SHAPE")
           both_blocks_below == All(<<"blocks_below">>, {"absent", "list"}, "E_CONTRACT_SHAPE")
           both_rule == All(<<"rule">>, {"object"}, "E_CONTRACT_SHAPE")
           py_rule_var == All(<<"rule var">>, PyString, "E_CONTRACT_SHAPE")
           rust_rule_var == All(<<"rule var">>, RustString, "E_CONTRACT_SHAPE")
           py_threshold == All(<<"threshold">>, PyI64, "E_CONTRACT_SHAPE")
           rust_threshold == All(<<"threshold">>, RustI64, "E_CONTRACT_SHAPE")
           both_semantics == All(<<"semantics">>, JsonKinds \ {"absent"}, "E_CONTRACT_SHAPE")
<1>1. /\ Twins(both_sim_contract, both_sim_contract, faults)
      /\ Twins(both_state, both_state, faults) /\ Twins(both_storage, both_storage, faults)
      /\ Twins(both_affordances, both_affordances, faults)
      /\ Twins(both_parameters, both_parameters, faults)
      /\ Twins(both_navigation, both_navigation, faults)
      /\ Twins(both_never_blocks, both_never_blocks, faults)
      /\ Twins(both_blocks_below, both_blocks_below, faults) /\ Twins(both_rule, both_rule, faults)
      /\ Twins(both_semantics, both_semantics, faults)
  BY AllSame, Lists DEF NotRefused
<1>2. Twins(py_verb, rust_verb, faults)
  BY IdentifierTwins DEF NotRefused, IdentifierFields
<1>3. Twins(py_parameter, rust_parameter, faults)
  BY OptionalTwins DEF NotRefused, IntegerFields
<1>4. Twins(py_rule_var, rust_rule_var, faults)
  BY AllSame, Lists DEF NotRefused, PyString, RustString
<1>5. Twins(py_threshold, rust_threshold, faults)
  BY IntegerTwins DEF NotRefused, IntegerFields
<1>6. Quiet(py_storage, faults)
  <2>1. <<0, "storage">> \in DOMAIN faults => faults[<<0, "storage">>] \in JsonKinds \ {"list", "object"}
    BY PlainFacts DEF Fault
  <2> QED BY <2>1, OneQuiet DEF NotRefused, Raises
<1>7. /\ PyContract = both_sim_contract \o both_state \o py_storage \o both_storage \o both_affordances
                      \o py_verb \o both_parameters \o py_parameter \o both_navigation
                      \o both_never_blocks \o both_blocks_below \o both_rule \o py_rule_var
                      \o py_threshold \o both_semantics
      /\ RustContract = both_sim_contract \o both_state \o both_storage \o both_affordances \o rust_verb
                        \o both_parameters \o rust_parameter \o both_navigation \o both_never_blocks
                        \o both_blocks_below \o both_rule \o rust_rule_var \o rust_threshold
                        \o both_semantics
  BY DEF PyContract, RustContract
<1> HIDE DEF both_sim_contract, both_state, py_storage, both_storage, both_affordances, py_verb,
             rust_verb, both_parameters, py_parameter, rust_parameter, both_navigation,
             both_never_blocks, both_blocks_below, both_rule, py_rule_var, rust_rule_var,
             py_threshold, rust_threshold, both_semantics
<1>8. Twins(both_sim_contract \o both_state \o py_storage, both_sim_contract \o both_state, faults)
  BY <1>1, <1>2, <1>3, <1>4, <1>5, <1>6, <1>7, TwinsJoin, TwinsSkip
<1> DEFINE py_first   == both_sim_contract \o both_state \o py_storage \o both_storage \o both_affordances
                         \o py_verb \o both_parameters \o py_parameter \o both_navigation
           rust_first == both_sim_contract \o both_state \o both_storage \o both_affordances
                         \o rust_verb \o both_parameters \o rust_parameter \o both_navigation
<1>9. Twins(py_first, rust_first, faults)
  BY <1>1, <1>2, <1>3, <1>8, TwinsJoin, ZenonT(30), SMT
<1>10. /\ PyContract = py_first \o both_never_blocks \o both_blocks_below \o both_rule \o py_rule_var
                       \o py_threshold \o both_semantics
       /\ RustContract = rust_first \o both_never_blocks \o both_blocks_below \o both_rule
                         \o rust_rule_var \o rust_threshold \o both_semantics
  BY <1>7
<1> HIDE DEF py_first, rust_first
<1> QED BY <1>1, <1>4, <1>5, <1>9, <1>10, TwinsJoin, ZenonT(30), SMT

\* An entity, up to its pin.
LEMMA EntityTwins ==
  ASSUME NEW faults, Plain(faults)
  PROVE  Twins(PyEntity, RustEntity, faults)
<1> DEFINE py_name == All(<<"name">>, PyIdentifier, "E_ENTITY_ENTRY")
           rust_name == All(<<"name">>, RustIdentifier, "E_ENTITY_ENTRY")
           both_entry == All(<<"entry", "contract">>, {"object"}, "E_ENTITY_ENTRY")
           py_contract_sha256 == All(<<"contract_sha256">>, {"other hash", "line"}, "E_ENTITY_ENTRY")
           rust_contract_sha256 == All(<<"contract_sha256">>, RustPin, "E_ENTITY_ENTRY")
<1>1. Twins(both_entry, both_entry, faults)
  BY AllSame, Lists DEF NotRefused
<1>2. Twins(py_name, rust_name, faults)
  BY IdentifierTwins DEF NotRefused, IdentifierFields
<1>3. Twins(PyContract, RustContract, faults)
  BY ContractTwins
<1>4. Twins(PySemantics, RustSemantics, faults)
  BY SemanticsTwins
<1>5. Twins(py_contract_sha256, rust_contract_sha256, faults)
  <2>1. <<0, "contract_sha256">> \in DOMAIN faults => /\ faults[<<0, "contract_sha256">>] # "line"
                                                      /\ faults[<<0, "contract_sha256">>] # "letters"
    BY PlainFacts DEF Fault, IdentifierFields
  <2> QED BY <2>1, OneTwin DEF NotRefused, RustPin
<1>6. /\ PyEntity = py_name \o both_entry \o PyContract \o PySemantics \o py_contract_sha256
      /\ RustEntity = rust_name \o both_entry \o RustContract \o RustSemantics \o rust_contract_sha256
  BY DEF PyEntity, RustEntity
<1> HIDE DEF py_name, rust_name, both_entry, py_contract_sha256, rust_contract_sha256
<1> QED BY <1>1, <1>2, <1>3, <1>4, <1>5, <1>6, TwinsJoin

\* The head of the file.
LEMMA ReplayTwins ==
  ASSUME NEW faults, Plain(faults)
  PROVE  Twins(PyReplay, RustReplay, faults)
<1> DEFINE both_replay == All(<<"replay">>, {"object"}, "E_REPLAY_SHAPE")
           both_keys == All(<<"keys">>, {}, "E_UNKNOWN_FIELD")
           both_sim_replay == All(<<"sim_replay">>, {}, "E_REPLAY_VERSION")
           py_ticks == All(<<"ticks">>, {"-0"}, "E_TICKS_RANGE")
           rust_ticks == All(<<"ticks">>, {}, "E_TICKS_RANGE")
           py_seed == All(<<"seed">>, {"absent"} \cup PyInteger, "E_SEED_TYPE")
           rust_seed == All(<<"seed">>, {"absent"} \cup RustI64, "E_SEED_TYPE")
           both_entities == All(<<"entities">>, {"object"}, "E_ENTITIES_SHAPE")
<1>1. /\ Twins(both_replay, both_replay, faults) /\ Twins(both_keys, both_keys, faults)
      /\ Twins(both_sim_replay, both_sim_replay, faults)
      /\ Twins(both_entities, both_entities, faults)
  BY AllSame, Lists DEF NotRefused
<1>2. Twins(py_ticks, rust_ticks, faults)
  BY ZeroTwins DEF NotRefused, IntegerFields
<1>3. Twins(py_seed, rust_seed, faults)
  <2>1. <<0, "seed">> \in DOMAIN faults => faults[<<0, "seed">>] \notin {"wide", "-0"}
    BY PlainFacts DEF Fault, IntegerFields
  <2> QED BY <2>1, OneTwin DEF NotRefused, PyInteger, RustI64
<1>4. /\ PyReplay = both_replay \o both_keys \o both_sim_replay \o py_ticks \o py_seed \o both_entities
      /\ RustReplay = both_replay \o both_keys \o both_sim_replay \o rust_ticks \o rust_seed \o both_entities
  BY DEF PyReplay, RustReplay
<1> HIDE DEF both_replay, both_keys, both_sim_replay, py_ticks, rust_ticks, py_seed, rust_seed,
             both_entities
<1> QED BY <1>1, <1>2, <1>3, <1>4, TwinsJoin

\* The wires.
LEMMA ClauseTwins ==
  ASSUME NEW faults, Plain(faults)
  PROVE  Twins(PyClause, RustClause, faults)
<1> DEFINE both_clause == All(<<"clause">>, {"object"}, "E_WIRE_SHAPE")
           both_clause_entity == All(<<"clause entity", "clause test", "clause var">>, {}, "E_WIRE_SHAPE")
           py_clause_control == All(<<"clause control">>, PyIdentifier, "E_WIRE_SHAPE")
           rust_clause_control == All(<<"clause control">>, RustIdentifier, "E_WIRE_SHAPE")
           both_clause_keys == All(<<"clause keys">>, {}, "E_WIRE_SHAPE")
           both_clause_exists == All(<<"clause exists">>, {"bool"}, "E_WIRE_SHAPE")
           py_clause_literal == All(<<"clause literal">>, PyI64, "E_WIRE_SHAPE")
           rust_clause_literal == All(<<"clause literal">>, RustI64, "E_WIRE_SHAPE")
<1>1. /\ Twins(both_clause, both_clause, faults)
      /\ Twins(both_clause_entity, both_clause_entity, faults)
      /\ Twins(both_clause_keys, both_clause_keys, faults)
      /\ Twins(both_clause_exists, both_clause_exists, faults)
  BY AllSame, Lists DEF NotRefused
<1>2. Twins(py_clause_control, rust_clause_control, faults)
  BY IdentifierTwins DEF NotRefused, IdentifierFields
<1>3. Twins(py_clause_literal, rust_clause_literal, faults)
  BY IntegerTwins DEF NotRefused, IntegerFields
<1>4. /\ PyClause = both_clause \o both_clause_entity \o py_clause_control \o both_clause_keys
                    \o both_clause_exists \o py_clause_literal
      /\ RustClause = both_clause \o both_clause_entity \o rust_clause_control \o both_clause_keys
                      \o both_clause_exists \o rust_clause_literal
  BY DEF PyClause, RustClause
<1> HIDE DEF both_clause, both_clause_entity, py_clause_control, rust_clause_control,
             both_clause_keys, both_clause_exists, py_clause_literal, rust_clause_literal
<1> QED BY <1>1, <1>2, <1>3, <1>4, TwinsJoin

LEMMA WiresTwins ==
  ASSUME NEW faults, Plain(faults)
  PROVE  Twins(PyWires, RustWires, faults)
<1> DEFINE both_wires == All(<<"wires">>, {"absent", "list"}, "E_WIRE_SHAPE")
           both_wire == All(<<"wire">>, {"object"}, "E_WIRE_SHAPE")
           both_wire_keys == All(<<"wire keys">>, {}, "E_WIRE_SHAPE")
           py_wire_name == All(<<"wire name">>, PyIdentifier, "E_WIRE_SHAPE")
           rust_wire_name == All(<<"wire name">>, RustIdentifier, "E_WIRE_SHAPE")
           both_when_of_wire == All(<<"when of wire">>, {"list"}, "E_WIRE_SHAPE")
           both_then_of_wire == All(<<"then of wire">>, {"list"}, "E_WIRE_SHAPE")
           both_act == All(<<"act">>, {"object"}, "E_WIRE_SHAPE")
           both_act_keys == All(<<"act keys", "act entity", "act verb">>, {}, "E_WIRE_SHAPE")
           py_act_arg == All(<<"act arg">>, {"-0"}, "E_WIRE_SHAPE")
           rust_act_arg == All(<<"act arg">>, {}, "E_WIRE_SHAPE")
<1>1. /\ Twins(both_wires, both_wires, faults) /\ Twins(both_wire, both_wire, faults)
      /\ Twins(both_wire_keys, both_wire_keys, faults)
      /\ Twins(both_when_of_wire, both_when_of_wire, faults)
      /\ Twins(both_then_of_wire, both_then_of_wire, faults) /\ Twins(both_act, both_act, faults)
      /\ Twins(both_act_keys, both_act_keys, faults)
  BY AllSame, Lists DEF NotRefused
<1>2. Twins(py_wire_name, rust_wire_name, faults)
  BY IdentifierTwins DEF NotRefused, IdentifierFields
<1>3. Twins(PyClause, RustClause, faults)
  BY ClauseTwins
<1>4. Twins(py_act_arg, rust_act_arg, faults)
  BY ZeroTwins DEF NotRefused, IntegerFields
<1>5. /\ PyWires = both_wires \o both_wire \o both_wire_keys \o py_wire_name \o both_when_of_wire \o PyClause
                   \o both_then_of_wire \o both_act \o both_act_keys \o py_act_arg
      /\ RustWires = both_wires \o both_wire \o both_wire_keys \o rust_wire_name \o both_when_of_wire
                     \o RustClause \o both_then_of_wire \o both_act \o both_act_keys \o rust_act_arg
  BY DEF PyWires, RustWires
<1> HIDE DEF both_wires, both_wire, both_wire_keys, py_wire_name, rust_wire_name, both_when_of_wire,
             both_then_of_wire, both_act, both_act_keys, py_act_arg, rust_act_arg
<1> QED BY <1>1, <1>2, <1>3, <1>4, <1>5, TwinsJoin

\* The events and what is initial, by shape; then hashes, initial values and events as they run.
LEMMA EventsTwins ==
  ASSUME NEW faults, Plain(faults)
  PROVE  Twins(PyEvents, RustEvents, faults)
<1> DEFINE both_initial == All(<<"initial">>, {"absent", "object"}, "E_INITIAL_SHAPE")
           both_initial_name == All(<<"initial name">>, {}, "E_UNKNOWN_ENTITY")
           both_events == All(<<"events">>, {"absent", "list"}, "E_EVENTS_SHAPE")
           both_event == All(<<"event">>, {"list"}, "E_EVENT_SHAPE")
           py_tick == All(<<"tick">>, {"-0"}, "E_EVENT_TICK_RANGE")
           rust_tick == All(<<"tick">>, {}, "E_EVENT_TICK_RANGE")
           both_event_entity == All(<<"event entity">>, {}, "E_UNKNOWN_ENTITY")
           py_event_verb == All(<<"event verb">>, PyIdentifier, "E_BAD_VERB")
           rust_event_verb == All(<<"event verb">>, RustIdentifier, "E_BAD_VERB")
<1>1. /\ Twins(both_initial, both_initial, faults)
      /\ Twins(both_initial_name, both_initial_name, faults)
      /\ Twins(both_events, both_events, faults) /\ Twins(both_event, both_event, faults)
      /\ Twins(both_event_entity, both_event_entity, faults)
  BY AllSame, Lists DEF NotRefused
<1>2. Twins(py_tick, rust_tick, faults)
  BY ZeroTwins DEF NotRefused, IntegerFields
<1>3. Twins(py_event_verb, rust_event_verb, faults)
  BY IdentifierTwins DEF NotRefused, IdentifierFields
<1>4. /\ PyEvents = both_initial \o both_initial_name \o both_events \o both_event \o py_tick
                    \o both_event_entity \o py_event_verb
      /\ RustEvents = both_initial \o both_initial_name \o both_events \o both_event \o rust_tick
                      \o both_event_entity \o rust_event_verb
  BY DEF PyEvents, RustEvents
<1> HIDE DEF both_initial, both_initial_name, both_events, both_event, py_tick, rust_tick,
             both_event_entity, py_event_verb, rust_event_verb
<1> QED BY <1>1, <1>2, <1>3, <1>4, TwinsJoin

LEMMA HashTwins ==
  ASSUME NEW faults, Plain(faults)
  PROVE  Twins(PyHash, RustHash, faults)
<1> DEFINE rust_extra == All(<<"extra">>, JsonKinds \ {"wide", "-0", "float"}, "E_CONTRACT_HASH")
           both_contract_sha256 == All(<<"contract_sha256">>, {}, "E_CONTRACT_HASH")
<1>1. Twins(both_contract_sha256, both_contract_sha256, faults)
  BY AllSame, Lists DEF NotRefused
<1>2. Quiet(rust_extra, faults)
  <2>1. <<0, "extra">> \in DOMAIN faults => faults[<<0, "extra">>] \in JsonKinds \ {"wide", "-0", "float"}
    BY PlainFacts DEF Fault
  <2> QED BY <2>1, OneQuiet DEF NotRefused, Raises
<1>3. /\ PyHash = both_contract_sha256
      /\ RustHash = rust_extra \o both_contract_sha256
  BY DEF PyHash, RustHash
<1> HIDE DEF rust_extra, both_contract_sha256
<1>4. Twins(both_contract_sha256, rust_extra \o both_contract_sha256, faults)
  BY <1>1, <1>2, <1>3, TwinsJoin, TwinsSkip
<1> QED BY <1>1, <1>2, <1>3, <1>4

LEMMA InitialTwins ==
  ASSUME NEW faults, Plain(faults)
  PROVE  Twins(PyInitial, RustInitial, faults)
<1> DEFINE py_initial_of == All(<<"initial of">>, {"absent", "object"}, Raises)
           both_initial_var == All(<<"initial var">>, {}, "E_INITIAL_UNKNOWN_VAR")
           py_initial_value == All(<<"initial value">>, {"absent"} \cup PyI64, "E_INITIAL_TYPE")
           rust_initial_value == All(<<"initial value">>, {"absent"} \cup RustI64, "E_INITIAL_TYPE")
<1>1. Twins(both_initial_var, both_initial_var, faults)
  BY AllSame, Lists DEF NotRefused
<1>2. Twins(py_initial_value, rust_initial_value, faults)
  BY OptionalTwins DEF NotRefused, IntegerFields
<1>3. Quiet(py_initial_of, faults)
  <2>1. <<0, "initial of">> \in DOMAIN faults => faults[<<0, "initial of">>] \in {"absent", "object"}
    BY PlainFacts DEF Fault
  <2> QED BY <2>1, OneQuiet DEF NotRefused, Raises
<1>4. /\ PyInitial = py_initial_of \o both_initial_var \o py_initial_value
      /\ RustInitial = both_initial_var \o rust_initial_value
  BY DEF PyInitial, RustInitial
<1> HIDE DEF py_initial_of, both_initial_var, py_initial_value, rust_initial_value
<1>5. Twins(py_initial_of \o both_initial_var, both_initial_var, faults)
  BY <1>1, <1>2, <1>3, <1>4, TwinsJoin, TwinsSkip
<1> QED BY <1>1, <1>2, <1>3, <1>4, <1>5, TwinsJoin

LEMMA RunTwins ==
  ASSUME NEW faults, Plain(faults)
  PROVE  Twins(PyRun, RustRun, faults)
<1> DEFINE both_event_verb == All(<<"event verb">>, {}, "E_UNDECLARED_AFFORDANCE")
           py_arg == All(<<"arg">>, PyInteger, "E_ARGUMENT_TYPE")
           rust_arg == All(<<"arg">>, RustI64, "E_ARGUMENT_TYPE")
           py_arg2 == All(<<"arg">>, {"-0"}, "E_ARGUMENT_RANGE")
           rust_arg2 == All(<<"arg">>, {}, "E_ARGUMENT_RANGE")
<1>1. Twins(both_event_verb, both_event_verb, faults)
  BY AllSame, Lists DEF NotRefused
<1>2. Twins(py_arg, rust_arg, faults)
  <2>1. <<0, "arg">> \in DOMAIN faults => faults[<<0, "arg">>] \notin {"wide", "-0"}
    BY PlainFacts DEF Fault, IntegerFields
  <2> QED BY <2>1, OneTwin DEF NotRefused, PyInteger, RustI64
<1>3. Twins(py_arg2, rust_arg2, faults)
  BY ZeroTwins DEF NotRefused, IntegerFields
<1>4. /\ PyRun = both_event_verb \o py_arg \o py_arg2
      /\ RustRun = both_event_verb \o rust_arg \o rust_arg2
  BY DEF PyRun, RustRun
<1> HIDE DEF both_event_verb, py_arg, rust_arg, py_arg2, rust_arg2
<1> QED BY <1>1, <1>2, <1>3, <1>4, TwinsJoin

\* The faults of an entity, as those of a file.
Part(name, faults) ==
  [place \in {<<0, p[2]>> : p \in {q \in DOMAIN faults : q = <<name, q[2]>>}} |->
     faults[<<name, place[2]>>]]

LEMMA PartFacts ==
  ASSUME NEW name, NEW faults, NEW field
  PROVE  /\ <<0, field>> \in DOMAIN Part(name, faults) <=> <<name, field>> \in DOMAIN faults
         /\ <<name, field>> \in DOMAIN faults => Part(name, faults)[<<0, field>>] = faults[<<name, field>>]
<1>1. ASSUME <<name, field>> \in DOMAIN faults PROVE <<0, field>> \in DOMAIN Part(name, faults)
  <2> DEFINE q == <<name, field>>
  <2>1. q \in DOMAIN faults /\ q = <<name, q[2]>> /\ <<0, q[2]>> = <<0, field>>
    BY <1>1
  <2> QED BY <2>1 DEF Part
<1>2. ASSUME <<0, field>> \in DOMAIN Part(name, faults) PROVE <<name, field>> \in DOMAIN faults
  <2>1. PICK q \in DOMAIN faults : q = <<name, q[2]>> /\ <<0, field>> = <<0, q[2]>>
    BY <1>2 DEF Part
  <2> QED BY <2>1
<1>3. ASSUME <<name, field>> \in DOMAIN faults PROVE Part(name, faults)[<<0, field>>] = faults[<<name, field>>]
  <2>1. <<0, field>> \in DOMAIN Part(name, faults)
    BY <1>1, <1>3
  <2>2. \A place \in DOMAIN Part(name, faults) : Part(name, faults)[place] = faults[<<name, place[2]>>]
    BY DEF Part
  <2>3. Part(name, faults)[<<0, field>>] = faults[<<name, <<0, field>>[2]>>]
    BY <2>1, <2>2
  <2> QED BY <2>3
<1> QED BY <1>1, <1>2, <1>3

LEMMA OfFacts ==
  ASSUME NEW rows, Listed(rows), Bare(rows), NEW name, NEW faults
  PROVE  /\ Listed(Of(name, rows))
         /\ FirstRefusal(Of(name, rows), faults) = FirstRefusal(rows, Part(name, faults))
<1> DEFINE a == Of(name, rows)
           checks == {a[i] : i \in DOMAIN rows}
<1>0. DOMAIN rows = 1 .. Len(rows) /\ Len(rows) \in Nat /\ \A i \in DOMAIN rows : rows[i].code # NotRefused
  BY DEF Listed, Refusals
<1>1. DOMAIN a = DOMAIN rows
  BY DEF Of
<1>2. ASSUME NEW i \in DOMAIN rows
      PROVE  \E field : /\ rows[i].at = <<0, field>> /\ a[i].at = <<name, field>>
                        /\ a[i].takes = rows[i].takes /\ a[i].code = rows[i].code
  <2>1. PICK field, takes, code : rows[i] = [at |-> <<0, field>>, takes |-> takes, code |-> code]
    BY DEF Bare
  <2>2. a[i] = [rows[i] EXCEPT !.at = <<name, rows[i].at[2]>>]
    BY DEF Of
  <2>3. rows[i].at = <<0, field>> /\ rows[i].at[2] = field
    BY <2>1
  <2>4. a[i] = [at |-> <<name, field>>, takes |-> takes, code |-> code]
    BY <2>1, <2>2, <2>3
  <2> QED BY <2>1, <2>3, <2>4
<1>3. Listed(a)
  <2>1. a = [i \in 1 .. Len(rows) |-> a[i]]
    BY <1>0 DEF Of
  <2> HIDE DEF a
  <2>2. a \in Seq(checks)
    BY <1>0, <1>1, <2>1
  <2>3. Refusals(checks)
    BY <1>0, <1>2 DEF Refusals
  <2> HIDE DEF checks
  <2> QED BY <2>2, <2>3 DEF Listed
<1> HIDE DEF a
<1>4. ASSUME NEW i \in DOMAIN a
      PROVE  a[i].code = rows[i].code /\ (Wrong(a[i], faults) <=> Wrong(rows[i], Part(name, faults)))
  <2>1. PICK field : /\ rows[i].at = <<0, field>> /\ a[i].at = <<name, field>>
                     /\ a[i].takes = rows[i].takes /\ a[i].code = rows[i].code
    BY <1>1, <1>2
  <2> QED BY <2>1, PartFacts DEF Wrong
<1>5. FirstRefusal(a, faults) = FirstRefusal(rows, Part(name, faults))
  BY <1>1, <1>3, <1>4, RowsTwin
<1> QED BY <1>3, <1>5 DEF a

\* What is said of one entity is said of all, one after the other.
LEMMA FlatPasses ==
  ASSUME NEW seqs, NEW N \in Nat \ {0}, Len(seqs) = N
  PROVE  \E f : /\ f[1] = seqs[1] /\ \A n \in 2 .. N : f[n] = f[n - 1] \o seqs[n]
                /\ FlattenSeq(seqs) = f[N]
<1> DEFINE Pass(x, i) == x \o seqs[i]
           Runs(f, n) == f = [i \in 1 .. n |-> IF i = 1 THEN seqs[i] ELSE Pass(f[i - 1], i)]
           S == {n \in Nat : \E f : Runs(f, n)}
           flat == CHOOSE f : Runs(f, N)
<1>1. FlattenSeq(seqs) = flat[N]
  BY DEF FlattenSeq
<1> HIDE DEF Pass
<1>2. 0 \in S
  <2> DEFINE f == [i \in 1 .. 0 |-> seqs[i]]
  <2>1. Runs(f, 0)
    OBVIOUS
  <2> QED BY <2>1
<1>3. ASSUME NEW n \in Nat, n \in S PROVE n + 1 \in S
  <2>1. PICK f : Runs(f, n)
    BY <1>3
  <2> DEFINE h == [i \in 1 .. n + 1 |->
                     IF i = n + 1 THEN IF i = 1 THEN seqs[i] ELSE Pass(f[n], i) ELSE f[i]]
  <2>2. \A i \in 1 .. n + 1 : h[i] = IF i = 1 THEN seqs[i] ELSE Pass(h[i - 1], i)
    BY <2>1
  <2>3. Runs(h, n + 1)
    BY <2>2
  <2> HIDE DEF h
  <2> QED BY <2>3
<1>4. Runs(flat, N)
  <2>1. N \in S
    <3> HIDE DEF S
    <3> QED BY <1>2, <1>3, SetInduction
  <2> QED BY <2>1
<1> HIDE DEF flat
<1>5. flat[1] = seqs[1] /\ \A n \in 2 .. N : flat[n] = Pass(flat[n - 1], n)
  <2>1. \A n \in 1 .. N : flat[n] = IF n = 1 THEN seqs[n] ELSE Pass(flat[n - 1], n)
    BY <1>4
  <2>2. 1 \in 1 .. N /\ \A n \in 2 .. N : n \in 1 .. N /\ n # 1
    OBVIOUS
  <2> QED BY <2>1, <2>2
<1> HIDE DEF Runs
<1> QED BY <1>1, <1>5 DEF Pass

LEMMA FlatAgree ==
  ASSUME NEW faults, NEW N \in Nat, NEW a, NEW b, Len(a) = N, Len(b) = N,
         N = 0 => a = <<>> /\ b = <<>>,
         \A n \in 1 .. N : Agree(a[n], b[n], faults)
  PROVE  Agree(FlattenSeq(a), FlattenSeq(b), faults)
<1>1. CASE N = 0
  <2>1. FlattenSeq(a) = <<>> /\ FlattenSeq(b) = <<>>
    BY <1>1 DEF FlattenSeq
  <2>2. Listed(<<>>)
    <3>1. <<>> \in Seq({}) /\ Refusals({})
      BY DEF Refusals
    <3> QED BY <3>1 DEF Listed
  <2> QED BY <2>1, <2>2 DEF Agree
<1>2. CASE N # 0
  <2>0. N \in Nat \ {0}
    BY <1>2
  <2>1. PICK f : /\ f[1] = a[1] /\ \A n \in 2 .. N : f[n] = f[n - 1] \o a[n]
                 /\ FlattenSeq(a) = f[N]
    BY <2>0, FlatPasses
  <2>2. PICK h : /\ h[1] = b[1] /\ \A n \in 2 .. N : h[n] = h[n - 1] \o b[n]
                 /\ FlattenSeq(b) = h[N]
    BY <2>0, FlatPasses
  <2> DEFINE S == {n \in Nat : n + 1 <= N => Agree(f[n + 1], h[n + 1], faults)}
  <2>3. 0 \in S
    BY <1>2, <2>1, <2>2
  <2>4. ASSUME NEW n \in Nat, n \in S PROVE n + 1 \in S
    <3> SUFFICES ASSUME (n + 1) + 1 <= N PROVE Agree(f[(n + 1) + 1], h[(n + 1) + 1], faults)
      OBVIOUS
    <3> DEFINE k == (n + 1) + 1
    <3>1. k \in 2 .. N /\ k \in 1 .. N /\ k - 1 = n + 1 /\ n + 1 <= N
      OBVIOUS
    <3>2. Agree(f[k - 1], h[k - 1], faults)
      BY <2>4, <3>1
    <3> HIDE DEF k
    <3>3. f[k] = f[k - 1] \o a[k] /\ h[k] = h[k - 1] \o b[k] /\ Agree(a[k], b[k], faults)
      BY <2>1, <2>2, <3>1
    <3>4. Agree(f[k], h[k], faults)
      BY <3>2, <3>3, AgreeJoin
    <3> QED BY <3>4 DEF k
  <2>5. N - 1 \in S
    <3>1. Nat \subseteq S
      <4> HIDE DEF S
      <4> QED BY <2>3, <2>4, SetInduction
    <3> QED BY <1>2, <3>1
  <2>6. (N - 1) + 1 = N
    BY <1>2
  <2> QED BY <2>1, <2>2, <2>5, <2>6
<1> QED BY <1>1, <1>2

LEMMA EachAgree ==
  ASSUME NEW faults, NEW S, NEW names \in Seq(S), NEW a, NEW b,
         \A name : Twins(a, b, Part(name, faults))
  PROVE  Agree(OfEach(names, a), OfEach(names, b), faults)
<1> DEFINE all  == [i \in DOMAIN names |-> Of(names[i], a)]
           both == [i \in DOMAIN names |-> Of(names[i], b)]
           N    == Len(names)
<1>1. N \in Nat /\ DOMAIN names = 1 .. N
  OBVIOUS
<1>2. ASSUME NEW name PROVE Agree(Of(name, a), Of(name, b), faults)
  <2>1. Twins(a, b, Part(name, faults))
    OBVIOUS
  <2> QED BY <2>1, OfFacts DEF Twins, Agree
<1>3. Len(all) = N /\ Len(both) = N
  BY <1>1
<1>4. N = 0 => all = <<>> /\ both = <<>>
  BY <1>1
<1>5. \A n \in 1 .. N : all[n] = Of(names[n], a) /\ both[n] = Of(names[n], b)
  BY <1>1
<1> HIDE DEF all, both, N
<1>6. Agree(FlattenSeq(all), FlattenSeq(both), faults)
  BY <1>1, <1>2, <1>3, <1>4, <1>5, FlatAgree
<1> QED BY <1>6 DEF OfEach, all, both

\* The faults of a file without a gap are no gaps, be they of the file or of an entity.
LEMMA PlainParts ==
  ASSUME NEW f \in Files, ~GapIn(f)
  PROVE  Plain(f.faults) /\ \A name : Plain(Part(name, f.faults))
<1> DEFINE faults == f.faults
<1>1. ASSUME NEW name, NEW field, <<name, field>> \in DOMAIN faults
      PROVE  LET kind == faults[<<name, field>>]
             IN /\ kind \in JsonKinds \cup {"other hash", "letters"}
                /\ Possible(field, kind) /\ ~Gap(field, kind)
  <2> DEFINE place == <<name, field>>
  <2>1. /\ faults[place] \in JsonKinds \cup {"other hash", "letters"}
        /\ Possible(place[2], faults[place])
    BY <1>1, FilesAreFiles
  <2>2. ~Gap(place[2], faults[place])
    BY <1>1 DEF GapIn
  <2>3. place[2] = field
    OBVIOUS
  <2> QED BY <2>1, <2>2, <2>3
<1> HIDE DEF faults
<1>2. Plain(faults)
  BY <1>1 DEF Plain, Fault
<1>3. ASSUME NEW name PROVE Plain(Part(name, faults))
  <2>1. ASSUME NEW field, <<0, field>> \in DOMAIN Part(name, faults)
        PROVE  <<name, field>> \in DOMAIN faults /\ Fault(field, Part(name, faults)) = faults[<<name, field>>]
    BY <2>1, PartFacts DEF Fault
  <2> QED BY <1>1, <2>1 DEF Plain
<1> QED BY <1>2, <1>3 DEF faults

LEMMA RowsAgree ==
  ASSUME NEW faults, Plain(faults), \A name : Plain(Part(name, faults)), NEW S, NEW names \in Seq(S)
  PROVE  Agree(PyRows(names), RustRows(names), faults)
<1> DEFINE py_entity    == OfEach(names, PyEntity)
           rust_entity  == OfEach(names, RustEntity)
           py_hash      == OfEach(names, PyHash)
           rust_hash    == OfEach(names, RustHash)
           py_initial   == OfEach(names, PyInitial)
           rust_initial == OfEach(names, RustInitial)
<1>1. Agree(py_entity, rust_entity, faults)
  BY EntityTwins, EachAgree
<1>2. Agree(py_hash, rust_hash, faults)
  BY HashTwins, EachAgree
<1>3. Agree(py_initial, rust_initial, faults)
  BY InitialTwins, EachAgree
<1>4. /\ Agree(PyReplay, RustReplay, faults) /\ Agree(PyWires, RustWires, faults)
      /\ Agree(PyEvents, RustEvents, faults) /\ Agree(PyRun, RustRun, faults)
  BY ReplayTwins, WiresTwins, EventsTwins, RunTwins DEF Twins
<1>5. /\ PyRows(names) = PyReplay \o py_entity \o PyWires \o PyEvents \o py_hash \o py_initial \o PyRun
      /\ RustRows(names)
           = RustReplay \o rust_entity \o RustWires \o RustEvents \o rust_hash \o rust_initial \o RustRun
  BY DEF PyRows, RustRows
<1> HIDE DEF py_entity, rust_entity, py_hash, rust_hash, py_initial, rust_initial
<1> QED BY <1>1, <1>2, <1>3, <1>4, <1>5, AgreeJoin

\* A file without a gap: what the Rust kernel says of it is what the Python kernel says of
\* the file with its entities in the order of their names.
LEMMA FileAgrees ==
  ASSUME NEW f \in Files, ~GapIn(f)
  PROVE  RustLoads(f) = PyLoads(InOrder(f))
<1> DEFINE g == InOrder(f)
           names == ByName(f.order)
           S == {names[n] : n \in DOMAIN f.order}
<1>1. f \in [order : Seq(Nat \ {0}), text : STRING, faults : {f.faults}]
  BY FilesAreFiles
<1>2. g.order = names /\ g.text = f.text /\ g.faults = f.faults
  BY <1>1 DEF InOrder
<1>3. names \in Seq(S)
  <2>1. DOMAIN f.order = 1 .. Len(f.order) /\ Len(f.order) \in Nat
    BY <1>1
  <2> DEFINE all == ToSet(f.order)
             Nth(n) == CHOOSE name \in all : Cardinality({other \in all : other < name}) = n - 1
  <2>2. names = [n \in DOMAIN f.order |-> names[n]]
    <3>1. names = [n \in DOMAIN f.order |-> Nth(n)]
      BY DEF ByName
    <3> HIDE DEF names, Nth
    <3> QED BY <3>1
  <2> HIDE DEF names
  <2>3. \A n \in 1 .. Len(f.order) : names[n] \in S
    BY <2>1
  <2> HIDE DEF S
  <2> QED BY <2>1, <2>2, <2>3
<1> HIDE DEF g, names, S
<1>4. FirstRefusal(PyRows(names), f.faults) = FirstRefusal(RustRows(names), f.faults)
  BY <1>3, PlainParts, RowsAgree DEF Agree
<1>5. RustText(f.text) = PyText(f.text)
  <2>1. f.text \notin {"says NaN", "deep", "1e400", "not UTF-8", "broken, then NaN"}
    BY DEF GapIn
  <2> QED BY <2>1 DEF PyText, RustText
<1>6. RustLoads(f) = IF RustText(f.text) # NotRefused THEN RustText(f.text)
                     ELSE FirstRefusal(RustRows(names), f.faults)
  BY DEF RustLoads, names
<1>7. PyLoads(g) = IF PyText(g.text) # NotRefused THEN PyText(g.text)
                   ELSE FirstRefusal(PyRows(g.order), g.faults)
  BY DEF PyLoads
<1> QED BY <1>2, <1>4, <1>5, <1>6, <1>7 DEF g

\* Each kernel has said nothing of the file, or what it says of it.
VerdictsMeant ==
  /\ document \in Files
  /\ DOMAIN verdict = {"python", "rust"}
  /\ verdict["python"] \in {Unread, PyLoads(document)}
  /\ verdict["rust"] \in {Unread, RustLoads(document)}

\* Whatever is wrong with a replay file, and however many things are: if none of it is a gap,
\* the Rust kernel refuses it with the code the Python kernel refuses it with, its entities
\* taken in the order of their names, or takes it if that one does (load_replay,
\* parse_strict, validate_replay; "refused up front with a stable code, so parity holds for
\* rejections too").
THEOREM LoadersTwin == LoaderSpec => []LoadersAgree
<1>1. LoaderInit => VerdictsMeant
  BY DEF LoaderInit, VerdictsMeant
<1>2. VerdictsMeant /\ [LoaderNext]_loaderVars => VerdictsMeant'
  <2> SUFFICES ASSUME VerdictsMeant, [LoaderNext]_loaderVars PROVE VerdictsMeant'
    OBVIOUS
  <2>1. CASE Answers("python", PyLoads(document))
    BY <2>1 DEF VerdictsMeant, Answers
  <2>2. CASE Answers("rust", RustLoads(document))
    BY <2>2 DEF VerdictsMeant, Answers
  <2>3. CASE UNCHANGED loaderVars
    BY <2>3 DEF VerdictsMeant, loaderVars
  <2> QED BY <2>1, <2>2, <2>3 DEF LoaderNext
<1>3. VerdictsMeant => LoadersAgree
  BY FileAgrees DEF VerdictsMeant, LoadersAgree
<1> QED BY <1>1, <1>2, <1>3, PTL DEF LoaderSpec
=============================================================================
