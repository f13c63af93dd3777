------------------------------ MODULE SimTick ------------------------------
(***************************************************************************)
(* One tick of the kernel as one atomic step, and a replay as a sequence   *)
(* of such steps: what run_replay promises, without its loops.             *)
(*                                                                         *)
(* The world after a tick is a function of the world before it, the wires  *)
(* and the events due: "anything the next tick depends on" is in the world *)
(* (state_hash).  Which function that is, and which replays load, is a     *)
(* parameter; SimKernel implements this module for the functions of        *)
(* KernelLoad and KernelTick.                                              *)
(***************************************************************************)
EXTENDS Naturals, Sequences

CONSTANTS
  Replays,
  ReplayOK(_),             \* what load_replay accepts
  InitialWorld(_),
  TickOf(_, _, _, _, _),   \* contracts, wires, world, events, tick: the outcome
  NavigationRaises(_, _),
  BlocksNavigation(_, _),
  Crash

VARIABLES
  file,
  status,     \* "load", "running", or how the run stopped
  snapshots,  \* the worlds at the end of the finished ticks
  blocked,
  error

tickVars == <<file, status, snapshots, blocked, error>>

-----------------------------------------------------------------------------
TickInit ==
  /\ file \in DOMAIN Replays
  /\ status = "load"
  /\ snapshots = <<>>
  /\ blocked = {}
  /\ error = "none"

LoadReplay ==
  /\ status = "load"
  /\ status' = IF ReplayOK(Replays[file]) THEN "running" ELSE "rejected"
  /\ UNCHANGED <<file, snapshots, blocked, error>>

Settled == IF snapshots = <<>> THEN InitialWorld(Replays[file]) ELSE snapshots[Len(snapshots)]

RunTick ==
  /\ status = "running"
  /\ LET replay  == Replays[file]
         outcome == TickOf(replay.contracts, replay.wires, Settled, replay.events,
                           Len(snapshots))
     IN IF outcome.error = "none"
        THEN /\ snapshots' = Append(snapshots, outcome.world)
             /\ status' = IF Len(snapshots) < replay.ticks THEN "running" ELSE "report"
             /\ UNCHANGED error
        ELSE /\ status' = "failed"
             /\ error' = outcome.error
             /\ UNCHANGED snapshots
  /\ UNCHANGED <<file, blocked>>

\* Navigation is a function of the last world alone ("derived, never stored").
ReportNavigation ==
  /\ status = "report"
  /\ LET contracts == Replays[file].contracts
         states    == [e \in DOMAIN contracts |-> Settled[e].state]
     IN IF \E e \in DOMAIN contracts : NavigationRaises(contracts[e], states[e])
        THEN /\ status' = "failed" /\ error' = Crash
             /\ UNCHANGED blocked
        ELSE /\ status' = "done"
             /\ blocked' = {e \in DOMAIN contracts : BlocksNavigation(contracts[e], states[e])}
             /\ UNCHANGED error
  /\ UNCHANGED <<file, snapshots>>

TickNext == LoadReplay \/ RunTick \/ ReportNavigation

TickSpec == TickInit /\ [][TickNext]_tickVars
=============================================================================
