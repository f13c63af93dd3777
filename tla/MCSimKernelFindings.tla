------------------------- MODULE MCSimKernelFindings -------------------------
(***************************************************************************)
(* Replays the kernel accepts and runs to an outcome its documentation     *)
(* rules out.  Each is legal input: a contract and a replay an author may  *)
(* write and validation passes.                                            *)
(***************************************************************************)
EXTENDS MCSimKernel

-----------------------------------------------------------------------------
(* A 0.1 door whose schema types `health` otherwise than the door's        *)
(* effects do: only a declared semantics block is typed at load.           *)

MistypedDoorReplays ==
  [f \in [type : {"int", "bool", "string"}, act : DoorActs] |->
     File([gate |-> Door([FullDoor EXCEPT !.health = f.type])], <<>>, <<>>,
          <<Event(0, f.act)>>, 1)]

-----------------------------------------------------------------------------
(* A chain of wires, declared in the direction it propagates.              *)

ChainReplays ==
  [f \in [on : BOOLEAN] |->
     File([lever |-> Lever, gate |-> Door(FullDoor), lamp |-> Lamp],
          [gate |-> Fresh, lever |-> [on |-> BoolV(f.on)]], ChainWires, <<>>, 2)]

\* ADR 0024:90: "Not same-tick cascades.  A chain of wires resolves one hop
\* per tick": in a tick without events, a wire delivers only if its condition
\* held in the world the tick began with.
OneHopPerTick ==
  [][phase = "wires" /\ event = 0 /\ act = 0 /\ act' = 1 =>
       \A i \in 1 .. Len(Replay.wires[wire].when) :
         ClauseHolds(Replay.wires[wire].when[i], Ticks!Settled)]_vars
=============================================================================
